# Verification of intercept_pi

`intercept_pi` is an OpenCPN plugin. An operator enters where and when a target
was seen; the plugin drifts that report forward to now (with the wind and the
current of a GRIB2 file, or an entered set and drift), draws how uncertain the
result is, and solves the course on which own-ship meets the drifting target.
The calculation can repeat itself on a timer while the navigator steers by the
objects it draws.

These TLA+ modules model that code (under `src/src/`), TLC checks them on small
instances, and TLAPS proves every invariant and action property those runs check
for every value of the constants.

## The system

| Part | Source | State it keeps | Operations | Hard because |
|---|---|---|---|---|
| Chart objects | `intercept_pi.cpp` | five objects on OpenCPN's chart on fixed GUIDs | `UpdateChartObjects`, `UpdateCourseRoute`, `ApplyCase`, `DeInit` | OpenCPN may be navigating to an object while it is deleted and added again, the navigator deletes objects by hand |
| Panel | `intercept_panel.cpp`, `intercept_pi.cpp` | window, toolbar button, timer, guard, last case, outputs, note | recalculate, tick, checkboxes, close, toolbar, `Detach`, `DeInit` | modal dialog with an event loop of its own, exceptions, deferred deletion |
| Panel inputs | `intercept_panel.cpp`, `intercept_pi.cpp` | fields, locks, focus, modified flags, GRIB file, enabled controls, timer, live fix | typing, `OnLockToggled`, `OnBrowseGrib`, `OnClearGrib`, `SetPositionFix`, `DoRecalculate` | ticks in the middle of typing, seeding, a file dialog with its own event loop, greyed-out fields that keep their values |
| Case and readout | `intercept_pi.cpp`, `intercept_panel.cpp`, `route_helper.cpp` | the last case, the output rows, the course | `FinalizeDatum`, `SolveIntercept`, `ShowOutputs`, `UpdateCourseRoute` | rows and chart decide separately what there is to show; numbers that are none |
| Intercept solver | `intercept_solve.cpp` | the march's interval, evaluations | `SolveMovingIntercept` | the earliest zero of a function known only by its slope, a budget, a cap |
| Datum ageing | `datum_age.cpp` | position, time, flags, leeway of one calculation | `ComputeAgedDatum` | step limit, partial steps, data missing on the way |
| Datum uncertainty | `datum_age.cpp` | none | `ComputeDatumUncertainty` | several kinds of missing knowledge combine |
| GRIB decoding | `grib_reader.cpp` | registers of a message and of a field group, the decoded fields | `Load`, `UnpackSimple` | registers that survive, broken or unsupported sections, dates, two cursors under a bitmap |
| GRIB lookup | `grib_reader.cpp` | none (reads the fields) | `FindNearest`, `SampleAt`, `LookupWind`, `LookupCurrent` | ties, both meridians, u and v chosen apart |
| Position parsing | `position_parse.cpp` | none | `SplitPosition`, `ParseCoordinate`, `ParsePosition` | several notations, marks and letters, "nan" |
| Formatting | `format.cpp` | none | `FormatBearingDeg`, `FormatEtaHhMm` | carry of a rounding |
| Geodesy, icons, layout, texts | `intercept.cpp`, `plug_utils.cpp`, ... | none | | |

The panel runs `DoRecalculate`, which parses the positions and calls the case's
`FinalizeDatum` (ageing and uncertainty) and `SolveIntercept` (the solver, which
asks the ageing for the target's position at a time, which asks the GRIB lookup)
and then `ApplyCase`, which redraws the chart, and `ShowOutputs`. Everything runs
on the UI thread: what interleaves are event handlers, OpenCPN's own actions
between them, and whatever the nested event loops of the error dialog and the
file dialog let in.

What makes each part correct:

- chart: navigation is never cancelled by a redraw; what is drawn together
  belongs together; what is stale is announced; nothing is left after unloading;
- panel: while the time shown is that of the last case, chart and outputs are of
  it, and whatever fails, the next run that succeeds makes them so again; what is
  stale is said to be; no handler reaches an unloaded plugin; the button mirrors
  the panel;
- inputs: no automatic run uses half-typed input; no run uses an own-ship field, a
  set and rate or a leeway box that is greyed out; automatic runs resume;
- readout: rows, chart and case are of one mind, and the course leads to where
  the target will be;
- solver: the earliest meeting is found, or rightly none;
- ageing: one trajectory, spent time adds up, flags speak of the whole path;
- uncertainty: knowing less never looks more certain;
- GRIB: every supported field is read as it is written, the best record and the
  nearest point answer, and a wind is that of one forecast;
- parsing: what is accepted means what is written, and what is shown can be read
  back.

## Modules

| Module | Models | Built on |
|---|---|---|
| `OpenCPNChart` | OpenCPN's chart and navigation as the plugin's calls see them (external) | |
| `ChartObjects` | `UpdateChartObjects` and its callers, call by call | `OpenCPNChart` |
| `ChartPromise` | the abstract specification: what a redraw promises, in one go | |
| `InterceptPanel` | the panel and the plugin's life cycle, driving the chart | `ChartObjects` |
| `PanelInputs` | what a run reads from the controls, and when | |
| `PositionParse` | reading a typed position; OpenCPN's notation; a grammar of positions | |
| `Format` | the numbers the rows show | |
| `Recalculation` | one run from the text of the report to rows and chart | `PositionParse`, `Format` |
| `MovingIntercept` | `SolveMovingIntercept` over any trajectory | |
| `DatumAge` | `ComputeAgedDatum` on a line | |
| `DatumUncertainty` | `ComputeDatumUncertainty` over an ageing with and without gaps | |
| `GribReader` | `GribReader::Load` | |
| `GribLookup` | `UnpackSimple`, `FindNearest`, `SampleAt`, `LookupWind`, `LookupCurrent` | |
| `GribFile` | a file from its sections to the winds and currents it answers with | `GribReader`, `GribLookup` (as the list it fills) |
| `InterceptPanelProofs`, `PanelInputsProofs`, `PositionParseProofs`, `RecalculationProofs`, `MovingInterceptProofs`, `DatumAgeProofs`, `GribReaderProofs`, `GribLookupProofs` | the theorems of the module they are named after; those of the chart are in `InterceptPanelProofs`, those of the uncertainty in `DatumAgeProofs`, those of `GribFile` in `GribReaderProofs` | |
| `MC*` | TLC's values for the constants, and checks of pure functions | |

How they correspond to the code:

- **Chart.** `ocpn` is what OpenCPN has drawn and what it navigates with.
  `UpdateChartObjects` is a composition of operators on that record, one per
  block of the C++ function and in its order. What is active is read once, before
  the first call; the operators look at the record they are given, which comes to
  the same because no call of a redraw changes what is active (the code deletes
  only what is not, and `NavigationSurvives` checks it). `Redraw` is `ApplyCase`
  with any case; `UseOpenCPN` is the navigator steering and deleting. A case is
  the situation it was calculated for and the shape of what it draws (solved,
  drifted). The composed actions are exactly what `ChartPromise!Redrawn` states
  in one line per object; `ImplementsPromise` is the refinement.
  `RedrawCutShort` is a redraw that an exception ends between any two of its
  calls: `RedrawPasses` collects the charts in between, the plugin's case is
  already the new one, and `torn` remembers that the last redraw did not end.
  `ChartPromise!HalfRedrawn` is what is promised even then.
- **Panel.** Each handler of `intercept_panel.cpp` is an action. A manual run
  that finds an unreadable input stays on the stack (`m_recalc_running`) until
  `CloseErrorDialog`; every other run is one step. The `try` of `RunRecalculate`
  is around all of a run, and the case is stored before it is shown, so an
  exception either leaves everything alone (`NoChange`) or some of the new
  (`Fails`): part of the rows, part of the redraw, all of the chart but not the
  note, or all but the time. `outputs` is the set of the cases that rows show, and
  `m_out_last_calc` counts the runs that failed since the time on display was
  set. `OnDisplayToggled` has no `try`: an exception there ends OpenCPN and is no
  step. `PanelDestroyed` is the deferred deletion. `DrivesChart` says the panel
  draws only what it remembers, as `ApplyCase` may be used, which makes the panel
  an implementation of `ChartSpec`: the theorems on the chart apply to the panel's
  chart.
- **Inputs.** A text is empty, bad or valid; the fields' `IsModified` flags and
  the focus are as wxWidgets keeps them; `half` is a history variable that says
  which field the operator has not finished. `enabled` is the set of controls that
  are not greyed out, changed by the handlers that call `Enable`; `used` remembers
  which controls the current result was read from. The timer is `due` when its
  interval is over: `Elapse` makes it so, a new interval starts it afresh. Set,
  rate and leeway box are greyed out because they are not used, and so are
  own-ship's fields; the fields of the report are locked against changes and go on
  being used, so `GreyedOutIsNotUsed` is not about them. `dialog` is the nested
  event loop that is open: under the error dialog the guard is held, under the
  file dialog it is not.
- **Recalculation.** Report, own-ship and drift are on one meridian, where a
  great circle is a difference of latitudes, and time is in whole hours; the
  ageing is `DatumAge`'s in one step, with its cap on the age (`DriftTime`), and
  the solver is what `MovingIntercept` shows it to find, the earliest meeting, or
  nothing when its evaluations are spent first (`spent`, which may happen in any
  run). No target is faster than `kMaxTargetSpeedKt`. Numbers are records with a
  flag for being finite, because a text can say "nan" and the GPS can: own-ship's
  position may be one (`OwnPlaces`) beside any report, as it is typed or received
  by itself. A text is a
  sequence of characters in which a numeral is one element: `Value` says what it
  stands for, and the digits do not matter. Numerals are kept apart (`Separate`):
  digits directly after digits, or after an E that has digits before it, would be
  one numeral and not two. `Cut` is the extraction of tokens from a stream, with
  the marks replaced by blanks. What the parser accepts is compared with
  `Positions`, a grammar of the documented notations: a latitude and a longitude
  as words, with a comma between them or the latitude's letter, and the place
  they say. What can be copied is a position on the earth that the format chosen
  in OpenCPN shows exactly (`Shows`).
- **Solver.** The trajectory is the target's distance from own-ship's position
  at every instant (the distance changes no faster than the target moves, which
  is all the code relies on). `Step` is the step of the march rounded down, in
  instants, and `MinStep`, `TimeTol`, `Cap`, `MaxEvaluations` are the constants
  of the file. Each evaluation of the shortfall is part of the action that asks
  for it.
- **Ageing.** Positions and velocities are signed numbers on a line; a GRIB is a
  table over regions and periods with gaps. One action per turn of the loop.
  `Path` is the reference: position and summed leeway at every instant after the
  report, whatever instant the report is aged to.
- **Uncertainty.** The three published formulas in hundredths of a mile, on the
  result of ageing one report hour by hour, once with a complete file and once
  with a file that has gaps. The wind blows along one line, both ways.
- **GRIB decoding.** The file is produced as it is read: one action per section,
  in the order the standard allows, with any section unsupported, the bitmap's
  left out or not, and any message broken off. The time bytes are not checked to
  be a time of day, and a forecast may lie before its reference time. A time is a
  day and a second of it; dates are turned into days, and forecast times of every
  unit added, as the code does it. `said` is what the file says of the field group
  being read, and the history `supported` collects it for the fields that are to
  be read, independently of the registers.
- **GRIB lookup.** A field is its grid, its bitmap and how many values its data
  section holds; each point has a value of its own, so that a value dealt to the
  wrong point is seen. The list of fields grows as `Load` appends to it; the
  invariants ask every query of every list.
- **From file to answer.** `GribFile` runs `Load` and gives each field it puts in
  the list what its data section holds; `fields` is the list as the lookup sees
  it, with the parameter, grid and time that the registers had. `SaidField` is the
  same field by what the file said. `AnswersByTheFile` is asked after each field,
  where the file may end.

A definition whose comment begins "A slip" is a plausible mistake in the
definition it precedes, kept to show that the properties would notice it.

## What the runs check

| Run | Instance | Distinct states | Shows |
|---|---|---|---|
| `chart` | 2 situations (interchangeable), 2 shapes | 13 604 | navigation survives every redraw, ended or cut short; route and mark agree; stale only if kept; nothing left behind; the promise is implemented |
| `panel` | 1 situation, 2 shapes, 1 run failing half way after the last that succeeded | 367 406 | chart and outputs as one while the time says so, announced staleness, checkboxes, toolbar, unloading; the panel uses the chart as allowed |
| `inputs` | all contents of all controls | 280 800 | half-typed input is not used, nor an own-ship field, drift or leeway box that is greyed out; automatic runs pick up again (liveness) |
| `recalculation` | every text of up to 4 characters of 10; every pair of halves made of 1 to 3 numerals on both sides of every bound, with and without a letter, in 3 separations; coordinates copied from the chart in 3 formats; each with and without GRIB, drift, own-ship, speed, with own-ship nowhere, a report from the future, on its way to the age cap and past it, and a search that gives up | 296 772 | a position means what is written; a copied one reads back; rows and chart tell one course, to where the target will be; no ETA without a speed; the drift row is true |
| `solve` | every trajectory over 8 instants with speeds -2, 0, 2 from up to 9 away, own speeds 0, 1, 3, 4 evaluations | | earliest meeting; giving up; the answer is reachable and within the tolerance |
| `age` | every GRIB over 2 regions and 2 periods, ages up to 8, step 2, cap 7 | 787 404 | stepping, one trajectory, flags, leeway |
| `uncertainty` | 4 hours, winds of 0, 15 and 40 kt both ways, every pattern of gaps | | gaps and leeway-off never narrow what they should not; the ring grows outward |
| `grib_load` | 2 messages, 3 field groups, every combination of supported and unsupported sections, dates across a leap day and a month's end; analysis and forecast of both wind components, on two grids across the Greenwich meridian scanned in opposite directions, with and without a bitmap section | 3 163 961 | exactly the supported fields, each with its own data, and the right time for those no earlier forecast of their message has shifted; winds answered by the file's own value for the nearest point in the nearest field, whenever it has one |
| `grib_lookup` | lists of 4 fields, 2 times, 2 levels, 4 kinds of data on 2 grids, circle of 16 | 41 371 | nearest record and point with that point's own value, wind of one forecast |

When `recalculation` and `grib_load` start, TLC also evaluates the assumptions
of their MC modules: `MinutesAreCarried` and `BearingsAreCarried` (every
duration up to two and a half hours and every bearing twice round the compass,
against what they should mean) and `DaysAreCounted` (every date of two hundred
years) and `InstantsAreCounted` (times of day past the day's end, forecasts back
over midnight).

The other runs each check one sentence of a comment that the code does not keep:

| Run | Sentence | What the code does |
|---|---|---|
| `grib_field_times` | `grib_reader.cpp`: all but the grid starts afresh with a field | the valid time goes on adding up, so the second forecast of a message is too late by the first |
| `grib_global_grid` | `grib_reader.h`: not available means outside the grid | half of a global grid is not available |
| `course_to_nowhere` | `intercept.cpp`: a place that is none gives no ETA rather than a course to nowhere | "nan N, 45" is accepted, of the report or of own-ship; the zero distance makes the solver meet at once, with an ETA and a course to or from latitude 0 |

More sentences the code does not keep, noticed while modelling and not checked
by a run of their own:

- `datum_age.h:167`, `USER_GUIDE.md:195`: missing data widens the circle. Missing
  wind takes the divergence away with the leeway, and the circle may shrink;
  `GapsWiden` has what remains true, and by how much it can shrink at most.
- `USER_GUIDE.md:195`: the circle grows with the age of the report. A wind that
  turns round takes the divergence back; `RingGrowsOutward` is what remains.
- `datum_age.cpp:260`: an entered drift gives no tighter a ring than a GRIB. It
  has no divergence allowance, so it does in any wind; `GapsWiden` says it of
  the drift velocity error.
- `USER_GUIDE.md:241`, `USER_GUIDE.md:252`: a display checkbox shows or hides its
  object straight away. The Estimated mark stays while it is navigated to;
  `CheckboxesActAtOnce` has the exception.
- `USER_GUIDE.md:299`: the red line explains a skipped automatic run until a
  run succeeds. A display checkbox redraws and `SetNote` clears the line.
- `USER_GUIDE.md:75`, `intercept_panel.cpp:482`: the own-ship field just
  unlocked is filled in. `OnLockToggled` serves four boxes and fills every
  unlocked empty field, so a speed entered as 0 comes back.
- `Changelog.md:54`: the intercept is found whenever the target can be reached.
  `GivesUpRightly` has the exception: not when the 2000 evaluations end first
  (33 hours of minimum steps, where the cap allows 720).
- `intercept_solve.cpp:20`: the search stops where the drift model does. Its cap
  counts from now, the drift model's from the report, so the last hours of the
  search meet a target that has stopped. `MeetsDriftingTarget` says where.
- `intercept_panel.cpp:837`: the row says that own ship cannot catch up. It also
  says so when the search has spent its evaluations.
- `intercept_panel.cpp:715`: a run that fails after the case is stored leaves rows
  and chart of different cases and says so in the log only; what tells it is that
  the time of the last calculation stays (`ChartShowsOutputs`,
  `StaleIsAnnounced`).
- `intercept_panel.h:69`: automatic runs and display toggles only let the window
  grow. `RefreshLayout` is called with `true` and fits the inside only.
- `grib_reader.h:23`: outside the times decoded nothing is available. The
  nearest record answers, however far.
- `grib_reader.cpp:279`: a bitmap shorter than its grid is taken for none, on
  purpose; the values are then dealt to the wrong points. `AnswersNearestPoint`
  sets such fields apart.
- `grib_reader.cpp:75`, `grib_reader.cpp:249`: where `long` or `time_t` has 32
  bits, times beyond 2038 and forecast times of many days overflow. The model
  counts without a bound.

### Bounds, and why they suffice

Two situations tell a stale object from a current one; a third would only be a
second way of being stale. They are interchangeable, so TLC takes one of each pair
of charts that differ in their names. The two shapes differ in all the objects a
shape decides about. In the panel's run the two shapes are the two cases: an
object is stale when it is of the other. One failing run after one that succeeded
leaves rows, case, chart and note of different calculations in every way the code
allows; failures in a row only mix them further, and the proofs have any number of
them (`MaxFailures`). The solver's trajectories contain every pattern of
approaching, waiting and receding over eight instants, the minimum step is longer
than the tolerance and than an instant, the step of the march is often below it,
and the budget of 4 ends both the march and the bisection in some behaviours. In
the ageing the datum can leave the region it starts in, the weather changes on the
way, elapsed times are not multiples of the step, and the cap cuts in. Three field
groups, in one message or in two, carry any register from one group to the next
and to the one after it, and are enough for one wind with two times to choose
from; their fields have every point (`grib_lookup` has the missing ones). Four
fields are two complete forecasts, in every order, including equally near ones.
Texts of four characters reach every error of the parser but those about seconds,
which the longer halves do; the numerals lie on both sides of 0, 60, 90 and 180.
Own-ship starts beside the target or on top of it, or nowhere, and the drift goes
either way, so that meetings at once, later, just within the cap and never all
happen. The age cap of 5 hours is passed by a report of 3 hours on the way to some
of the meetings, and by one of 7 before the run. `PanelInputs` needs no bound: its
histories are finite by nature.

Runs that turn deadlock checking off model a calculation that ends (the solver,
the ageing, one recalculation) or a list or time that is bounded by a constant
(the uncertainty, the GRIB modules). The panel and the chart never stop.

### Fairness

Only `PanelInputs` states fairness: weak fairness of `Elapse` (a running
interval comes to its end, unless it is started anew) and of `OnAutoTimer` (an
event that is due is delivered, as `wxTimer` does). Nothing is assumed of the
operator, of OpenCPN, of the GPS, or of the calculation succeeding: the property
speaks of what happens once nobody interferes. No other module has a liveness
property: the solver's and the ageing's termination is a bound on the
evaluations and steps, which their type invariants state.

## What is proved

`InterceptPanelProofs`, first of the chart alone, for any sets of situations and shapes:

- `ChartTypeCorrect`, `ChartIsSafe`, and its parts `MarkBelongsToRoute`,
  `OnlyKeptIsStale`, `UnloadingIsClean`. `RouteMeetsMark` alone is not inductive:
  a redraw that keeps the route keeps the mark because OpenCPN navigates with one
  of them, so the invariant carries the types (what OpenCPN navigates with) and
  the three safety parts together. The lemmas `MarkStages`, `TrackStage`,
  `CourseStage` say what each block of the redraw leaves, `RedrawEffect` puts them
  together, `HalfWay` states what is true wherever a redraw is cut short (each
  object is the old one, the new one or none, the mark never beside another case's
  course) and `PassesEffect` that every chart on the way is so, and `RemoveEffect`
  and `UseEffect` do the same for unloading and the navigator; each theorem then
  needs one step per action.
- `RedrawKeepsNavigation`, the action property, from the same lemmas.
- `ImplementsChartPromise`: initial states map to initial states and each action
  to one action of `ChartPromise` or a stutter, a redraw cut short to
  `HalfRedrawn`.

and then of the panel:

- `PanelDrivesChart` and `PanelUsesChart`: whatever a run does and wherever it
  fails, every step of the panel is a step of the chart that draws what the panel
  remembers, or leaves it alone, so the chart's theorems hold of the panel's
  chart. It needs to know that
  a case with an intercept has an own-ship (`MemoryInv`) and that no run of an
  unloaded plugin reaches the chart (`WindowInv`: the panel is linked to the
  plugin exactly while both exist).
- `PanelTypeCorrect`, `ChartShowsWhatIsShown`, `StaleIsSaid`, `ToolFollowsPanel`
  from the same invariant `PanelInv`, which adds that while no run has failed since
  the time on display, rows and chart are of the stored case (`CaseInv`) and an
  object kept is never without its note (`NoteInv`). `CheckboxesAct` also uses the
  chart's own invariant.

`PanelInputsProofs`:

- `PanelInputsTypeCorrect`, `HalfTypedNeverUsed`, `GreyedOutNeverUsed`. A run can
  see only the focus and the modified flag: the invariant says a half-typed field
  has both (`HalfTypedIsSeen`), that what is enabled follows from the boxes and
  the file (`EnabledFollows`), although three places decide it, and that a
  current result was read from the inputs as they are (`CurrentIsRead`).

`PositionParseProofs`, for texts of any length and any set of numerals:

- `PositionSound`, `PositionComplete`: what is accepted is a latitude and a
  longitude of the documented notations, the whole text of it, read as the place
  it says, and every text that is one is accepted. `ShownPosition`: so is what
  OpenCPN shows, in each of its formats. A text is followed from its characters
  to its words and tokens: the loops are recursive functions over the positions
  in the text, which exist and are unique by least counterexample
  (`LeastOfSome`), and the words of a text are the tokens' characters one after
  the other. For one coordinate `CoordinateSound` and `CoordinateComplete` go
  through the three notations; for a position the two coordinates must meet at
  the cut: the first comma, or else the first N or S, is the only place where it
  can be, because a latitude contains neither before its end.

`RecalculationProofs`, for every text, place, drift no faster than
`kMaxTargetSpeedKt`, age of the report, cap on that age and cap of the search, and
whether or not the search gives up:

- `TextsAreRead` and `CopiesAreRead`, from the theorems of `PositionParseProofs`.
  Their invariant `TextInv` says that a text is one of characters and separate
  numerals however it came into the field, and that a copied one is still as
  OpenCPN shows it, of parts that make a coordinate (`ShownIsProper`).
- `RowsAndChartAgree`, `MeetsWhereItDrifts`, `NoSpeedNoEta`, `DriftRowIsTrue`.
  The invariant `RunInv` says what case a run leaves behind (`Drifted`: the
  estimate is the report carried on by the drift in force, up to the age cap;
  `Solved`: the ETA is the first meeting) and that rows and course are made of it.
  Where report or own-ship is no place `RowsAndChartAgree` says only that there is
  an ETA exactly when there is a mark; `NoCourseToNowhere` is the run that shows
  why not more. That `RunInv` holds needs
  that every accepted text gives numbers, or the NaN that counts as one
  (`CoordinatesAreNumbers`), that the solver's minimum exists (`LeastHour`), and
  that ageing in two stages is ageing in one (`NorthTwice`, `DriftsOn`).

`MovingInterceptProofs`, for any cap, steps, budget, own speeds and any set of
trajectories within the speed limit:

- `FindsEarliest`, `GivesUpOnlyRightly`, `MeetsInTime`, `SolverTypeCorrect`. The
  inductive invariant
  `SolverInv` adds to the types that the shortfall is positive at `lo` and that
  no meeting longer than the minimum step was over before `lo`. The heart is
  `SafeStep`: at the closing speed the shortfall cannot be used up before the
  step is, so a step of the march passes nothing but windows shorter than the
  minimum step (`StepPassesNothing`).

`DatumAgeProofs`, first of the ageing, for any reports, files, step length and
limits:

- `AgeAddsUp` and `AgeWithinLimits`. `StepsAddUp` says nothing of how many steps
  were taken; the invariant `AgeInv` adds that every step taken was a whole one
  as long as there is time left, so that steps times step length is less than
  the cap and another step is within the limit (`StepsLeft`). The code's
  stretching of steps is never needed under `StepsAssumption` (30 days of half
  hours are fewer than `kMaxSteps`), which is what `UnstretchedStep` states.
- `AgesAlongOnePath`, `FlagsAreTrue`, `LeewayIsSummed`. The reference `Path` is a
  recursive function over all earlier instants; that there is one
  (`PathFollows`) is proved by least counterexamples: its initial parts exist
  (`PartsExist`) and agree (`PartsAgree`), and together are the whole. `PathInv`
  then says that the loop is on the path and that the flags are those of the
  steps behind it; `OneStepOn` that a step begins where the path's does, which is
  where whole steps matter.
- `AgeTypeCorrect`, for files whose tables hold numbers (`TablesOfNumbers`).

and then of the uncertainty, for any winds, any number of hours and any gaps:

- `LeewayOffAlwaysCovers`, `GapsAlwaysWiden`, `RingAlwaysGrowsOutward`. The
  rounded root exists (`RootExists`) and grows with what is under it
  (`RootGrows`); the invariant `AgedInv` relates the two ageings: the one with
  gaps knows no more, has the same leeway as long as no wind was missing, and
  differs exactly if there were gaps.

`GribReaderProofs`, for files of any number of messages and field groups, any
dates, forecasts, parameters and grids:

- `ReadsWhatIsSupported` (with the time of every unshifted field),
  `DecoderTypeCorrect`. The invariant `DecoderInv` says for each place in a
  message what the registers hold against what the file has said (`Agreement`),
  that between field groups they are at rest, and when the time is valid
  (`Clock`). The heart is `CompleteIffSupported`: at section 7 the code's test of
  its registers is true exactly if what the file said is to be read.

and, over both GRIB modules, of whole files with any data:

- `FileFillsList`, a refinement: `FileSpec => Lookups!Spec`. A section 7 that
  completes a field is one `PushBack`; every other step of `Load` leaves the list
  alone (`DataStepFits`). That needs `DataInv`: what is in the list is a field of
  the right shape (`FieldsAreFields`), and none has more points than its grid,
  because the bitmap register agrees with the file (`Agreement`).
- `FileAnswers`. The list is what the file says (`ListIsSaid`, from the same
  invariant, `SupportedAreRead` and `UnshiftedFieldsTimed`), so a
  nearest record of the list is a nearest field of the file (`FindsWhatIsSaid`),
  and what `GribLookupProofs` shows of the nearest point, both ways, holds of the
  file. Forecasts that an earlier one of their message has shifted, and bitmaps
  too short for their grid, are set apart, as the code reads those otherwise.

`GribLookupProofs`, for files of any length, any grids, bitmaps, circles, places and
times:

- `AnswersNearestRecord`: the loop over the records exists (`LoopsExist`) and
  every prefix of it holds the preferred candidate so far (`ChosenIsPreferred`),
  both by least counterexample.
- `AnswersNearPoints`. `std::lround` is within half a step (`LroundIsNear`) and is
  the only whole number nearer than half a step (`LroundIs`); the wrapped
  difference of longitudes is the shortest one (`WrappedIsShortest`), so column
  and row are those of the nearest point (`ColumnIsNear`, `RowIsNear`) and in a
  grid of less than half the globe they are inside it (`NearColumnIsFound`). What
  `UnpackSimple` counts bit by bit is the rank of the point among those that have
  a value (`UnpacksWhatIsFiled`, from `BeforeTells`).
- `AnswersOneForecast`: with both components of every forecast in one order the
  partner of the nearest u is the nearest v (`NearestArePartners`), and two fields of one
  forecast answer alike (`OneForecastOneAnswer`).

The only invariant they need is that what is loaded are records (`Files`).

The solver's theorems assume `SolverAssumption` and `SpeedAssumption` (no target
faster than `kMaxTargetSpeedKt`). The code clamps an entered drift to it; the
drift from a GRIB file is not clamped, and the theorems say nothing of a faster
one. The other theorems rest on the named assumptions of their modules, which only
type the constants (and `StepsAssumption`).

Only model-checked:

- `AutoPicksUpAgain`, a liveness property, which the prover cannot reach;
- the formatting and calendar checks, which are evaluated and not proved.

## What is not modelled

- Great-circle geometry, floating point and vector sums: the modules use a
  distance, or a line. Rounding in OpenCPN's notation (59.99996' shown as
  60.0000') is left out: a copied coordinate is shown exactly.
- The byte layout of GRIB2 sections, and file errors below them.
- The digits of a numeral, locales with a decimal comma, `FormatDistanceNm` (one
  call of printf), wording and units of the rows.
- `OnFieldWheel` (who gets a wheel event), the number of persons on board, which
  no calculation reads, window layout (`RefreshLayout`, `FitToScreen`,
  `PanelWindow`), the search for icon files, translations.
- Unloading while a modal dialog of the plugin is open.
- The age of a position fix: the code keeps none. The clock being read twice in a
  run, once by `FinalizeDatum` and once by `SolveIntercept`.
- Vendored code. `ghc/filesystem` alone is about two thirds of the C++ lines in
  the repository and is called by nothing modelled; the plugin's own code is the
  rest, and its unmodelled lines are mostly the construction of widgets,
  declarations and comments.

## Plan

1. *(done)* Every component with state.
2. *(done)* The theorems of every invariant and action property of the runs.
3. The compositions as refinements: *(done)* `GribReader`'s `Load` filling the
   list that `GribLookup` searches; the flags of `DatumAge` as those that the
   uncertainty works with.
4. What holds of the solver when the drift is faster than assumed.
5. Parsing of decimal-comma numerals and the rounding of OpenCPN's notation.
