-------------------------- MODULE GribReaderProofs --------------------------
(***************************************************************************)
(* What is proved of GribReader::Load for files of any number of messages  *)
(* and field groups, any dates, forecast times, parameters and grids:      *)
(* exactly the supported fields are read, each with what the file says of  *)
(* it.  They fill the list that LookupWind and LookupCurrent search, whose *)
(* theorems (GribLookupProofs) then say what is answered from the file.    *)
(***************************************************************************)
EXTENDS GribFile, TLAPS

Times == [day : Int, second : 0..SecondsADay - 1]

Groups == [shifted : BOOLEAN, reference : References \cup {Unset},
           grid : Grids \cup {Other, Unset}, product : Parameters \cup {Other, Unset},
           forecast : Int \X Nat, packing : {"simple", "complex", Unset},
           bitmap : Bitmaps]

Records == [product : Parameters \cup {Unset}, grid : Grids \cup {Unset},
            bitmap : {"none", "given"}, valid_time : Times \cup {NoTime}]

LEMMA DatesAreDays ==
  ASSUME NEW date \in References
  PROVE  MakeUtcDateTime(date) \in Times /\ MakeUtcDateTime(date) # NoTime
<1>1. /\ date \in [year : Nat, month : Nat, day : Nat, second : Nat]
      /\ SecondsADay \in Nat \ {0}
  BY TimesAssumption DEF SecondsADay
<1>2. DaysFromCivil(date.year, date.month, date.day) \in Int
  <2> DEFINE y == IF date.month <= 2 THEN date.year - 1 ELSE date.year
             mp == IF date.month > 2 THEN date.month - 3 ELSE date.month + 9
  <2>1. y \in Int /\ mp \in Int
    BY <1>1
  <2>2. /\ y \div 400 \in Int /\ y % 400 \in Int
        /\ (y % 400) \div 4 \in Int /\ (y % 400) \div 100 \in Int
        /\ (153 * mp + 2) \div 5 \in Int
    BY <2>1
  <2> QED  BY <1>1, <2>1, <2>2 DEF DaysFromCivil
<1>3. MakeUtcDateTime(date) \in Times
  <2>1. date.second \div SecondsADay \in Int /\ date.second % SecondsADay \in 0..SecondsADay - 1
    BY <1>1
  <2> QED  BY <1>2, <2>1 DEF MakeUtcDateTime, Times
<1>4. MakeUtcDateTime(date).second # NoTime.second
  BY <1>3 DEF Times, NoTime
<1> QED  BY <1>3, <1>4

\* A time moved on is a time, and nought hours move it nowhere.
LEMMA LaterIsATime ==
  ASSUME NEW time \in Times, NEW forecast \in Int \X Nat, forecast[2] \in DOMAIN TimeUnits
  PROVE  /\ Later(time, forecast) \in Times /\ Later(time, forecast) # NoTime
         /\ forecast[1] = 0 => Later(time, forecast) = time
<1> DEFINE unit == TimeUnits[forecast[2]]
           seconds == time.second + forecast[1] * unit
<1>1. unit \in Nat
  BY DEF TimeUnits
<1> HIDE DEF unit
<1>2. forecast[1] * unit \in Int /\ (forecast[1] = 0 => forecast[1] * unit = 0)
  BY <1>1
<1>3. seconds \in Int /\ (forecast[1] = 0 => seconds = time.second)
  BY <1>2 DEF Times
<1> HIDE DEF seconds
<1>0. SecondsADay \in Nat \ {0}
  BY DEF SecondsADay
<1>4. seconds \div SecondsADay \in Int /\ seconds % SecondsADay \in 0..SecondsADay - 1
  BY <1>0, <1>3
<1>5. seconds = time.second => seconds \div SecondsADay = 0 /\ seconds % SecondsADay = time.second
  BY <1>0, <1>3 DEF Times
<1>6. Later(time, forecast) =
        [day |-> time.day + seconds \div SecondsADay, second |-> seconds % SecondsADay]
  BY DEF Later, seconds, unit
<1>7. Later(time, forecast) \in Times
  BY <1>4, <1>6 DEF Times
<1>8. Later(time, forecast).second # NoTime.second
  BY <1>7 DEF Times, NoTime
<1>9. ASSUME forecast[1] = 0 PROVE Later(time, forecast) = time
  BY <1>3, <1>5, <1>6, <1>9 DEF Times
<1> QED  BY <1>7, <1>8, <1>9
-----------------------------------------------------------------------------
(***************************************************************************)
(* The inductive invariant: what the registers hold at each place of a     *)
(* message, against what the file has said by then.                        *)
(***************************************************************************)
Registers ==
  /\ at \in Places /\ messages \in 0..MaxMessages /\ groups \in 0..MaxFields
  /\ grid \in Grids \cup {Unset} /\ product \in Parameters \cup {Unset}
  /\ valid_time \in Times \cup {NoTime}
  /\ have_drt \in BOOLEAN /\ bitmap_supported \in BOOLEAN /\ bitmap \in {"none", "given"}
  /\ said \in Groups

\* A field has been read for each one that is to be read, and is what the
\* file says.
Result ==
  /\ m_messages \in Seq(Records) /\ supported \in Seq(Groups)
  /\ Len(supported) <= groups
  /\ SupportedAreRead /\ UnshiftedFieldsTimed

AfterReference == {"section1", "section3", "section4", "section5", "section6", "section7"}
AfterGrid      == AfterReference \ {"section1"}
AfterProduct   == {"section4", "section5", "section6"}
AfterPacking   == {"section5", "section6"}

AtRest == product = Unset /\ ~have_drt /\ bitmap_supported /\ bitmap = "none"

Clock ==
  /\ at = "section0" => valid_time = NoTime
  /\ at \in AfterReference => /\ said.reference \in References
                              /\ valid_time # NoTime <=> GoodDate(said.reference)

\* As long as no forecast time has been added it is the reference time.
Unmoved == GoodDate(said.reference) => valid_time = MakeUtcDateTime(said.reference)

Agreement ==
  /\ product # Unset => GoodDate(said.reference)
  /\ at \in {"section0", "section1", "section3", "section7"} => AtRest
  /\ at \in {"section1", "section3", "section7"} /\ ~said.shifted => Unmoved
  /\ at \in AfterGrid => /\ said.grid \in Grids \cup {Other}
                         /\ grid = IF said.grid = Other THEN Unset ELSE said.grid
  /\ at \in AfterProduct =>
       /\ groups < MaxFields
       /\ said.product \in Parameters \cup {Other}
       /\ product = IF /\ said.product # Other /\ GoodDate(said.reference)
                       /\ said.forecast[2] \in DOMAIN TimeUnits
                    THEN said.product ELSE Unset
       /\ product # Unset /\ ~said.shifted
            => valid_time = Later(MakeUtcDateTime(said.reference), said.forecast)
       /\ ~Shifted(said) => Unmoved
  /\ at = "section4" => ~have_drt
  /\ at \in AfterPacking => (have_drt <=> said.packing = "simple")
  /\ at \in AfterReference \ {"section6"} =>
       bitmap_supported /\ bitmap = "none" /\ said.bitmap = "none"
  /\ at = "section6" => /\ bitmap_supported <=> said.bitmap # "predefined"
                        /\ grid # Unset => ((bitmap = "given") <=> (said.bitmap = "given"))

DecoderInv == Registers /\ Result /\ Clock /\ Agreement
-----------------------------------------------------------------------------
LEMMA ResultStays ==
  ASSUME Result, UNCHANGED <<m_messages, supported>>, groups' = groups
  PROVE  Result'
BY DEF Result, SupportedAreRead, UnshiftedFieldsTimed, RightTime

\* Between messages, before and after them.
LEMMA MessageSteps ==
  ASSUME DecoderInv, StartMessage \/ EndMessage \/ Stop
  PROVE  DecoderInv'
<1>1. CASE StartMessage
  <2>0. Silence \in Groups
    BY DEF Silence, Groups, Bitmaps
  <2>1. messages' \in 0..MaxMessages
    BY <1>1, SizeAssumption DEF StartMessage, DecoderInv, Registers
  <2>2. Registers'
    BY <1>1, <2>0, <2>1 DEF StartMessage, DecoderInv, Registers, Places
  <2>3. Clock' /\ Agreement'
    BY <1>1 DEF StartMessage, Clock, Agreement, AtRest, AfterReference, AfterGrid,
       AfterProduct, AfterPacking
  <2>4. Result'
    BY <1>1, ResultStays DEF StartMessage, DecoderInv
  <2> QED  BY <2>2, <2>3, <2>4 DEF DecoderInv
<1>2. CASE EndMessage \/ Stop
  <2>1. Registers'
    BY <1>2 DEF EndMessage, Stop, DecoderInv, Registers, Places, decoder, file
  <2>2. Clock' /\ Agreement'
    BY <1>2 DEF EndMessage, Stop, DecoderInv, Clock, Agreement, AfterReference, AfterGrid,
       AfterProduct, AfterPacking, decoder, file
  <2>3. Result'
    BY <1>2, ResultStays DEF EndMessage, Stop, DecoderInv, file
  <2> QED  BY <2>1, <2>2, <2>3 DEF DecoderInv
<1> QED  BY <1>1, <1>2

\* Section 1 sets the clock.
LEMMA ReferenceStep ==
  ASSUME DecoderInv, NEW reference \in References, Section1(reference)
  PROVE  DecoderInv'
<1>1. /\ said' = [Silence EXCEPT !.reference = reference] /\ said'.bitmap = "none"
      /\ said'.reference = reference /\ ~said'.shifted /\ said' \in Groups
  <2>1. Silence \in Groups /\ Silence.bitmap = "none" /\ ~Silence.shifted
    BY DEF Silence, Groups, Bitmaps
  <2>2. said' = [Silence EXCEPT !.reference = reference]
    BY DEF Section1
  <2> QED  BY <2>1, <2>2 DEF Groups
<1>2. /\ MakeUtcDateTime(reference) \in Times /\ MakeUtcDateTime(reference) # NoTime
      /\ valid_time' = IF GoodDate(reference) THEN MakeUtcDateTime(reference) ELSE NoTime
  BY DatesAreDays DEF Section1, DecoderInv, Clock
<1>3. Registers'
  BY <1>1, <1>2 DEF Section1, DecoderInv, Registers, Places
<1>4. Clock'
  BY <1>1, <1>2 DEF Section1, Clock
<1>5. Agreement'
  BY <1>1, <1>2 DEF Section1, DecoderInv, Agreement, Unmoved, AtRest, AfterReference,
     AfterGrid, AfterProduct, AfterPacking
<1>6. Result'
  BY ResultStays DEF Section1, DecoderInv
<1> QED  BY <1>3, <1>4, <1>5, <1>6 DEF DecoderInv

LEMMA GridStep ==
  ASSUME DecoderInv, NEW g \in Grids \cup {Other}, Section3(g)
  PROVE  DecoderInv'
<1>1. /\ said'.reference = said.reference /\ said'.shifted = said.shifted
      /\ said'.grid = g /\ said'.bitmap = said.bitmap /\ said' \in Groups
  BY DEF Section3, DecoderInv, Registers, Groups
<1>2. Registers'
  BY <1>1 DEF Section3, DecoderInv, Registers, Places
<1>3. Clock'
  BY <1>1 DEF Section3, DecoderInv, Clock, AfterReference
<1>4. Agreement'
  BY <1>1 DEF Section3, DecoderInv, Agreement, Unmoved, AtRest, AfterReference,
     AfterGrid, AfterProduct, AfterPacking
<1>5. Result'
  BY ResultStays DEF Section3, DecoderInv
<1> QED  BY <1>2, <1>3, <1>4, <1>5 DEF DecoderInv

(***************************************************************************)
(* Section 4 takes a product that has a time to be added to, and only then *)
(* moves the clock.                                                        *)
(***************************************************************************)
LEMMA ProductStep ==
  ASSUME DecoderInv, NEW p \in Parameters \cup {Other}, NEW forecast \in Forecasts,
         Section4(p, forecast)
  PROVE  DecoderInv'
<1>0. forecast \in Int \X Nat
  BY TimesAssumption
<1>1. /\ said'.reference = said.reference /\ said'.shifted = said.shifted
      /\ said'.grid = said.grid /\ said'.product = p /\ said'.forecast = forecast
      /\ said'.bitmap = said.bitmap /\ said' \in Groups
  BY <1>0 DEF Section4, DecoderInv, Registers, Groups
<1>2. /\ said.reference \in References
      /\ valid_time # NoTime <=> GoodDate(said.reference)
  BY DEF Section4, DecoderInv, Clock, AfterReference
<1>3. ASSUME Timed(p, forecast)
      PROVE  /\ valid_time' = Later(valid_time, forecast)
             /\ valid_time' \in Times /\ valid_time' # NoTime
             /\ forecast[1] = 0 => valid_time' = valid_time
  <2>1. valid_time \in Times
    BY <1>3 DEF Timed, DecoderInv, Registers
  <2> QED  BY <1>0, <1>3, <2>1, LaterIsATime DEF Section4, ForecastTime, Timed
<1>4. ~Timed(p, forecast) => valid_time' = valid_time
  BY DEF Section4, ForecastTime
<1>5. Registers'
  BY <1>1, <1>3, <1>4 DEF Section4, DecoderInv, Registers, Places, Timed
<1>6. Clock'
  BY <1>1, <1>2, <1>3, <1>4 DEF Section4, Clock, Timed
<1>7. Agreement'
  <2>1. Unset # p
    BY NamesAssumption DEF Unset, Other
  <2>2. groups' < MaxFields /\ at' = "section4" /\ said.grid \in Grids \cup {Other}
        /\ grid = IF said.grid = Other THEN Unset ELSE said.grid
    BY DEF Section4, DecoderInv, Agreement, AfterGrid, AfterReference
  <2>3. AtRest /\ (~said.shifted => Unmoved)
    BY DEF Section4, DecoderInv, Agreement
  <2>4. product' = IF /\ p # Other /\ GoodDate(said'.reference)
                      /\ forecast[2] \in DOMAIN TimeUnits
                   THEN p ELSE Unset
    BY <1>1, <1>2 DEF Section4, Timed
  <2>5. product' # Unset /\ ~said'.shifted
          => valid_time' = Later(MakeUtcDateTime(said'.reference), forecast)
    BY <1>1, <1>2, <1>3, <2>3, <2>4 DEF Unmoved, Timed
  <2>6. ~Shifted(said') => Unmoved'
    BY <1>1, <1>2, <1>3, <1>4, <2>3 DEF Unmoved, Timed, Shifted
  <2>7. bitmap_supported' /\ bitmap' = "none" /\ said'.bitmap = "none"
    BY <1>1 DEF Section4, DecoderInv, Agreement, AfterReference
  <2> QED  BY <1>1, <2>2, <2>3, <2>4, <2>5, <2>6, <2>7
           DEF Section4, Agreement, AtRest, AfterReference, AfterProduct, AfterPacking
<1>8. Result'
  BY ResultStays DEF Section4, DecoderInv
<1> QED  BY <1>5, <1>6, <1>7, <1>8 DEF DecoderInv

LEMMA PackingStep ==
  ASSUME DecoderInv, NEW packing \in {"simple", "complex"}, Section5(packing)
  PROVE  DecoderInv'
<1>1. /\ said'.reference = said.reference /\ said'.shifted = said.shifted
      /\ said'.grid = said.grid /\ said'.product = said.product
      /\ said'.forecast = said.forecast /\ said'.packing = packing
      /\ said'.bitmap = said.bitmap /\ said' \in Groups
  BY DEF Section5, DecoderInv, Registers, Groups
<1>2. Registers'
  BY <1>1 DEF Section5, DecoderInv, Registers, Places
<1>3. Clock'
  BY <1>1 DEF Section5, DecoderInv, Clock, AfterReference
<1>4. Agreement'
  BY <1>1 DEF Section5, DecoderInv, Agreement, Unmoved, Shifted, AfterReference,
     AfterGrid, AfterProduct, AfterPacking
<1>5. Result'
  BY ResultStays DEF Section5, DecoderInv
<1> QED  BY <1>2, <1>3, <1>4, <1>5 DEF DecoderInv

LEMMA BitmapStep ==
  ASSUME DecoderInv, NEW b \in Bitmaps, Section6(b)
  PROVE  DecoderInv'
<1>1. /\ said'.reference = said.reference /\ said'.shifted = said.shifted
      /\ said'.grid = said.grid /\ said'.product = said.product
      /\ said'.forecast = said.forecast /\ said'.packing = said.packing
      /\ said'.bitmap = b /\ said' \in Groups
  BY DEF Section6, DecoderInv, Registers, Groups
<1>2. /\ bitmap_supported' <=> b # "predefined"
      /\ bitmap' \in {"none", "given"}
      /\ grid # Unset => ((bitmap' = "given") <=> (b = "given"))
  BY DEF Section6, DecoderInv, Agreement, Bitmaps, AfterReference
<1>3. Registers'
  BY <1>1, <1>2 DEF Section6, DecoderInv, Registers, Places
<1>4. Clock'
  BY <1>1 DEF Section6, DecoderInv, Clock, AfterReference
<1>5. Agreement'
  BY <1>1, <1>2 DEF Section6, DecoderInv, Agreement, Unmoved, Shifted, AfterReference,
     AfterGrid, AfterProduct, AfterPacking
<1>6. Result'
  BY ResultStays DEF Section6, DecoderInv
<1> QED  BY <1>3, <1>4, <1>5, <1>6 DEF DecoderInv

(***************************************************************************)
(* At section 7 the registers are complete exactly when the file has said  *)
(* nothing the reader does not support.                                    *)
(***************************************************************************)
LEMMA CompleteIffSupported ==
  ASSUME DecoderInv, at \in {"section5", "section6"}
  PROVE  /\ Complete <=> Supported(said)
         /\ Complete => /\ product = said.product /\ grid = said.grid
                        /\ (bitmap = "given") <=> (said.bitmap = "given")
                        /\ ~said.shifted => valid_time
                             = Later(MakeUtcDateTime(said.reference), said.forecast)
<1>1. /\ said.grid \in Grids \cup {Other}
      /\ grid = IF said.grid = Other THEN Unset ELSE said.grid
      /\ have_drt <=> said.packing = "simple"
      /\ bitmap_supported <=> said.bitmap # "predefined"
  BY DEF DecoderInv, Agreement, Bitmaps, AfterReference, AfterGrid, AfterPacking
<1>2. /\ said.product \in Parameters \cup {Other}
      /\ product = IF /\ said.product # Other /\ GoodDate(said.reference)
                      /\ said.forecast[2] \in DOMAIN TimeUnits
                   THEN said.product ELSE Unset
  BY DEF DecoderInv, Agreement, AfterProduct
<1>3. said.grid # Unset /\ said.product # Unset
  BY <1>1, <1>2, NamesAssumption DEF Unset, Other
<1>4. Complete <=> Supported(said)
  BY <1>1, <1>2, <1>3 DEF Complete, Supported
<1> QED  BY <1>1, <1>2, <1>3, <1>4
         DEF Complete, Supported, DecoderInv, Agreement, AfterReference, AfterProduct

LEMMA DataStep ==
  ASSUME DecoderInv, Section7
  PROVE  DecoderInv'
<1> DEFINE record == [product |-> product, grid |-> grid, bitmap |-> bitmap,
                      valid_time |-> valid_time]
<1>1. /\ said'.reference = said.reference /\ said'.shifted = Shifted(said)
      /\ said'.grid = said.grid /\ said'.bitmap = "none" /\ said' \in Groups
  <2>1. Silence \in Groups /\ Silence.bitmap = "none"
    BY DEF Silence, Groups, Bitmaps
  <2>2. Shifted(said) \in BOOLEAN /\ said \in Groups
    BY DEF Shifted, DecoderInv, Registers, Groups
  <2>3. said' = [Silence EXCEPT !.shifted = Shifted(said), !.reference = said.reference,
                                !.grid = said.grid]
    BY DEF Section7
  <2> QED  BY <2>1, <2>2, <2>3 DEF Groups
<1>2. groups < MaxFields /\ groups' = groups + 1 /\ groups \in Nat
  BY SizeAssumption DEF Section7, DecoderInv, Registers, Agreement, AfterProduct
<1>3. Registers'
  <2>1. groups' \in 0..MaxFields
    BY <1>2, SizeAssumption
  <2> QED  BY <1>1, <2>1 DEF Section7, ResetField, DecoderInv, Registers, Places
<1>4. Clock'
  BY <1>1 DEF Section7, DecoderInv, Clock, AfterReference
<1>5. Agreement'
  BY <1>1 DEF Section7, ResetField, DecoderInv, Agreement, AtRest, Unmoved,
     AfterReference, AfterGrid, AfterProduct, AfterPacking
<1>6. Result'
  <2>1. record \in Records /\ said \in Groups
    BY DEF DecoderInv, Registers, Records
  <2>2. CASE Complete
    <3>1. Supported(said)
      BY <2>2, CompleteIffSupported DEF Section7
    <3>2. m_messages' = Append(m_messages, record) /\ supported' = Append(supported, said)
      BY <2>2, <3>1 DEF Section7
    <3>3. /\ m_messages \in Seq(Records) /\ supported \in Seq(Groups)
          /\ Len(m_messages) = Len(supported) /\ Len(supported) <= groups
      BY DEF DecoderInv, Result, SupportedAreRead
    <3>4. /\ m_messages' \in Seq(Records) /\ supported' \in Seq(Groups)
          /\ Len(m_messages') = Len(supported') /\ Len(supported') <= groups'
          /\ Len(m_messages') = Len(m_messages) + 1
      BY <1>2, <2>1, <3>2, <3>3
    <3>5. ASSUME NEW i \in DOMAIN m_messages', i # Len(m_messages')
          PROVE  /\ i \in DOMAIN m_messages /\ m_messages'[i] = m_messages[i]
                 /\ supported'[i] = supported[i]
      BY <2>1, <3>2, <3>3, <3>4, <3>5
    <3>6. m_messages'[Len(m_messages')] = record /\ supported'[Len(m_messages')] = said
      BY <2>1, <3>2, <3>3, <3>4
    <3>7. SupportedAreRead'
      BY <2>2, <3>4, <3>5, <3>6, CompleteIffSupported
      DEF Section7, DecoderInv, Result, SupportedAreRead
    <3>8. UnshiftedFieldsTimed'
      BY <2>2, <3>4, <3>5, <3>6, CompleteIffSupported
      DEF Section7, DecoderInv, Result, UnshiftedFieldsTimed, RightTime
    <3> QED  BY <3>4, <3>7, <3>8 DEF Result
  <2>3. CASE ~Complete
    <3>1. UNCHANGED <<m_messages, supported>>
      BY <2>3, CompleteIffSupported DEF Section7
    <3> QED  BY <1>2, <3>1 DEF DecoderInv, Result, SupportedAreRead,
             UnshiftedFieldsTimed, RightTime
  <2> QED  BY <2>2, <2>3
<1> QED  BY <1>3, <1>4, <1>5, <1>6 DEF DecoderInv
-----------------------------------------------------------------------------
THEOREM DecoderInvariant == Spec => []DecoderInv
<1>1. Init => DecoderInv
  <2> SUFFICES ASSUME Init PROVE DecoderInv
    OBVIOUS
  <2>1. Silence \in Groups
    BY DEF Silence, Groups, Bitmaps
  <2>2. Registers
    <3>1. messages \in 0..MaxMessages /\ groups \in 0..MaxFields
      BY SizeAssumption DEF Init
    <3> QED  BY <2>1, <3>1 DEF Init, Registers, Places
  <2>3. Result
    <3>1. m_messages = <<>> /\ supported = <<>> /\ groups = 0
      BY DEF Init
    <3>2. DOMAIN m_messages = {} /\ Len(m_messages) = 0 /\ Len(supported) = 0
      BY <3>1
    <3> QED  BY <3>1, <3>2 DEF Result, SupportedAreRead, UnshiftedFieldsTimed
  <2>4. Clock /\ Agreement
    BY DEF Init, Clock, Agreement, AfterReference, AfterGrid, AfterProduct, AfterPacking
  <2> QED  BY <2>2, <2>3, <2>4 DEF DecoderInv
<1>2. DecoderInv /\ [Load]_vars => DecoderInv'
  <2> SUFFICES ASSUME DecoderInv, [Load]_vars PROVE DecoderInv'
    OBVIOUS
  <2>1. CASE StartMessage \/ EndMessage \/ Stop
    BY <2>1, MessageSteps
  <2>2. ASSUME NEW reference \in References, Section1(reference) PROVE DecoderInv'
    BY <2>2, ReferenceStep
  <2>3. ASSUME NEW g \in Grids \cup {Other}, Section3(g) PROVE DecoderInv'
    BY <2>3, GridStep
  <2>4. ASSUME NEW p \in Parameters \cup {Other}, NEW forecast \in Forecasts,
               Section4(p, forecast)
        PROVE  DecoderInv'
    BY <2>4, ProductStep
  <2>5. ASSUME NEW packing \in {"simple", "complex"}, Section5(packing) PROVE DecoderInv'
    BY <2>5, PackingStep
  <2>6. ASSUME NEW b \in Bitmaps, Section6(b) PROVE DecoderInv'
    BY <2>6, BitmapStep
  <2>7. CASE Section7
    BY <2>7, DataStep
  <2>8. CASE UNCHANGED vars
    BY <2>8 DEF vars, decoder, file, DecoderInv, Registers, Result, SupportedAreRead,
       UnshiftedFieldsTimed, RightTime, Clock, Agreement, Unmoved, AtRest, Shifted
  <2> QED  BY <2>1, <2>2, <2>3, <2>4, <2>5, <2>6, <2>7, <2>8 DEF Load
<1> QED  BY <1>1, <1>2, PTL DEF Spec

(***************************************************************************)
(* The types: whatever a file leaves out, a product that has been taken    *)
(* has a time.                                                             *)
(***************************************************************************)
THEOREM DecoderTypeCorrect == Spec => []TypeOK
<1>1. DecoderInv => TypeOK
  <2> SUFFICES ASSUME DecoderInv PROVE TypeOK
    OBVIOUS
  <2>1. product # Unset => GoodDate(said.reference)
    BY DEF DecoderInv, Agreement
  <2>2. Len(m_messages) <= groups
    BY DEF DecoderInv, Result, SupportedAreRead
  <2> QED  BY <2>1, <2>2 DEF DecoderInv, Registers, TypeOK, Times
<1> QED  BY <1>1, DecoderInvariant, PTL

(***************************************************************************)
(* Exactly the supported fields are read, each with its own product, grid  *)
(* and bitmap, and at its reference time plus its forecast time as long as *)
(* no earlier forecast of its message was taken (grib_reader.cpp:247).     *)
(***************************************************************************)
THEOREM ReadsWhatIsSupported == Spec => []ReadsSupportedFields
<1>1. DecoderInv => ReadsSupportedFields
  BY DEF DecoderInv, Result, ReadsSupportedFields
<1> QED  BY <1>1, DecoderInvariant, PTL
-----------------------------------------------------------------------------
(***************************************************************************)
(* The whole file.  What is proved of the lookups holds of its list.       *)
(***************************************************************************)
L == INSTANCE GribLookupProofs
     WITH Records <- Fields, Places <- Positions, MaxMessages <- MaxFields,
          m_messages <- fields

LEMMA LookupsAssumed == L!CircleAssumption /\ L!QueriesAssumption /\ L!RecordsAssumption
<1>1. L!CircleAssumption /\ L!QueriesAssumption
  BY AskedAssumption DEF L!CircleAssumption, L!QueriesAssumption
<1>2. L!RecordsAssumption
  BY DEF L!RecordsAssumption, L!Points, L!Products, L!Components, Fields, Points
<1> QED  BY <1>1, <1>2

\* The two instances are the same operators.
LEMMA SameFinding ==
  ASSUME NEW quantity, NEW n, NEW time, NEW f, NEW i
  PROVE  /\ Lookups!FindNearest(quantity, n, time) = L!FindNearest(quantity, n, time)
         /\ Lookups!Wanted(f, quantity, n) <=> L!Wanted(f, quantity, n)
<1>1. Lookups!FindNearest(quantity, n, time) = L!FindNearest(quantity, n, time)
  BY DEF Lookups!FindNearest, L!FindNearest, Lookups!Best, L!Best, Lookups!Wanted, L!Wanted,
     Lookups!Better, L!Better, Lookups!Diff, L!Diff, Lookups!Magnitude, L!Magnitude,
     Lookups!Nothing, L!Nothing
<1>2. Lookups!Wanted(f, quantity, n) <=> L!Wanted(f, quantity, n)
  BY DEF Lookups!Wanted, L!Wanted, Lookups!Magnitude, L!Magnitude
<1> QED  BY <1>1, <1>2

LEMMA SameSampling ==
  ASSUME NEW f, NEW lat, NEW lon
  PROVE  Lookups!SampleAt(f, lat, lon) = L!SampleAt(f, lat, lon)
BY DEF Lookups!SampleAt, L!SampleAt, Lookups!Column, L!Column, Lookups!Row, L!Row,
   Lookups!Lround, L!Lround, Lookups!Signed, L!Signed, Lookups!LonDiff, L!LonDiff,
   Lookups!Wrapped, L!Wrapped, Lookups!Half, L!Half, Lookups!UnpackSimple, L!UnpackSimple,
   Lookups!Points, L!Points, Lookups!Excluded, L!Excluded, Lookups!NaN, L!NaN,
   Lookups!ReferenceValue, L!ReferenceValue, Lookups!UnpackedBefore, L!UnpackedBefore,
   Lookups!Before, L!Before, Lookups!Values, L!Values, Lookups!Cardinality, L!Cardinality

LEMMA SameFiling ==
  ASSUME NEW f, NEW lat, NEW lon, NEW v
  PROVE  /\ ReadAsFiled(f, lat, lon, v) <=>
              \E p \in L!Filed(f) : L!NearBy(f, p, lat, lon) /\ v = L!FiledValue(f, p)
         /\ FiledAround(f, lat, lon) <=>
              L!Regional(f) /\ \E p \in L!Filed(f) : L!Around(f, p, lat, lon)
<1>1. Lookups!Filed(f) = L!Filed(f)
  BY DEF Lookups!Filed, L!Filed, Lookups!Before, L!Before, Lookups!Cardinality, L!Cardinality
<1>2. ASSUME NEW p PROVE /\ Lookups!NearBy(f, p, lat, lon) <=> L!NearBy(f, p, lat, lon)
                         /\ Lookups!Around(f, p, lat, lon) <=> L!Around(f, p, lat, lon)
                         /\ Lookups!FiledValue(f, p) = L!FiledValue(f, p)
  BY DEF Lookups!NearBy, L!NearBy, Lookups!Around, L!Around, Lookups!Apart, L!Apart,
     Lookups!Meridian, L!Meridian, Lookups!Parallel, L!Parallel, Lookups!Signed, L!Signed,
     Lookups!Wrapped, L!Wrapped, Lookups!Half, L!Half, Lookups!Magnitude, L!Magnitude,
     Lookups!FiledValue, L!FiledValue, Lookups!ReferenceValue, L!ReferenceValue
<1>3. Lookups!Regional(f) <=> L!Regional(f)
  BY DEF Lookups!Regional, L!Regional
<1> QED  BY <1>1, <1>2, <1>3 DEF ReadAsFiled, FiledAround

LEMMA FieldsAreFields ==
  ASSUME NEW msg \in Records, msg.product \in Parameters, msg.grid \in Grids,
         NEW content \in Contents, content.present \subseteq Points(Geometry[msg.grid])
  PROVE  FieldOf(msg, content) \in Fields
<1> DEFINE p == Meaning[msg.product]
           g == Geometry[msg.grid]
           f == FieldOf(msg, content)
<1>1. p \in [product : {"wind", "current", "other"}, number : {"u", "v", "other"},
             level_type : {"height", "other"}, level : Int]
  BY MeaningAssumption
<1>2. g \in [lo1 : Int, di : Nat \ {0}, ni : Nat \ {0}, i_increasing : BOOLEAN,
             la1 : Int, dj : Nat \ {0}, nj : Nat \ {0}, j_increasing : BOOLEAN]
  BY GeometryAssumption
<1>3. content \in [present : SUBSET Nat, packed : Nat, num_bits : Nat]
  BY ContentsAssumption
<1>4. Seconds(msg.valid_time) \in Int
  <2>1. msg.valid_time \in Times \cup {NoTime}
    BY DEF Records
  <2>2. \A time \in Times \cup {NoTime} : time.day \in Int /\ time.second \in Int
    <3>1. NoTime.day \in Int /\ NoTime.second \in Int
      BY DEF NoTime
    <3>2. ASSUME NEW time \in Times PROVE time.day \in Int /\ time.second \in Int
      <4>1. 0..SecondsADay - 1 \subseteq Int
        BY DEF SecondsADay
      <4>2. time.day \in Int /\ time.second \in 0..SecondsADay - 1
        BY DEF Times
      <4> QED  BY <4>1, <4>2
    <3> QED  BY <3>1, <3>2
  <2> QED  BY <2>1, <2>2 DEF Seconds, SecondsADay
<1> DEFINE b == CASE msg.bitmap = "given"                                -> "given"
                  [] msg.bitmap # "given" /\ content.present = Points(g) -> "none"
                  [] msg.bitmap # "given" /\ content.present # Points(g) -> "short"
<1>5. b \in {"none", "given", "short"} /\ (b = "none" => content.present = Points(g))
  OBVIOUS
<1>6. f = [product |-> p.product, number |-> p.number, valid_time |-> Seconds(msg.valid_time),
           level_type |-> p.level_type, level |-> p.level,
           lo1 |-> g.lo1, di |-> g.di, ni |-> g.ni, i_increasing |-> g.i_increasing,
           la1 |-> g.la1, dj |-> g.dj, nj |-> g.nj, j_increasing |-> g.j_increasing,
           present |-> content.present, packed |-> content.packed,
           num_bits |-> content.num_bits, bitmap |-> b]
  BY DEF FieldOf
<1>7. content.present \subseteq Points(g)
  OBVIOUS
<1> HIDE DEF p, g, b, f
<1>8. Points(f) = Points(g)
  BY <1>6 DEF Points
<1>9. f.present \subseteq Points(f) /\ (f.bitmap = "none" => f.present = Points(f))
  BY <1>5, <1>6, <1>7, <1>8
<1> QED  BY <1>1, <1>2, <1>3, <1>4, <1>5, <1>6, <1>9 DEF Fields, f

\* A field is what its message says of parameter, grid, time and bitmap.
LEMMA SameField ==
  ASSUME NEW a, NEW b, NEW content, a.product = b.product, a.grid = b.grid,
         a.valid_time = b.valid_time, (a.bitmap = "given") <=> (b.bitmap = "given")
  PROVE  FieldOf(a, content) = FieldOf(b, content)
<1>1. CASE a.bitmap = "given"
  BY <1>1 DEF FieldOf
<1>2. CASE a.bitmap # "given"
  BY <1>2 DEF FieldOf
<1> QED  BY <1>1, <1>2

(***************************************************************************)
(* What has been read is complete, and its data fits what the file says.   *)
(***************************************************************************)
DataInv ==
  /\ contents \in Seq(Contents) /\ Len(contents) = Len(m_messages)
  /\ \A i \in DOMAIN m_messages :
       /\ m_messages[i].product \in Parameters /\ m_messages[i].grid \in Grids
       /\ supported[i].bitmap \in Bitmaps \ {"predefined"}
       /\ Fits(contents[i], Geometry[m_messages[i].grid], supported[i].bitmap)

LEMMA ReadOnStays ==
  ASSUME DecoderInv, ReadOn
  PROVE  UNCHANGED <<m_messages, supported, contents>>
<1>1. CASE Section7
  <2>1. ~Complete
    BY <1>1 DEF ReadOn, Section7
  <2> QED  BY <1>1, <2>1, CompleteIffSupported DEF ReadOn, Section7
<1>2. CASE ~Section7
  BY <1>2 DEF ReadOn, Load, StartMessage, EndMessage, Stop, Section1, Section3, Section4,
     Section5, Section6, file
<1> QED  BY <1>1, <1>2

LEMMA ReadDataAppends ==
  ASSUME DecoderInv, DataInv, ReadData
  PROVE  \E msg \in Records, content \in Contents :
           /\ msg.product \in Parameters /\ msg.grid \in Grids
           /\ Fits(content, Geometry[msg.grid], said.bitmap)
           /\ said \in Groups /\ said.bitmap \in Bitmaps \ {"predefined"}
           /\ m_messages' = Append(m_messages, msg) /\ contents' = Append(contents, content)
           /\ supported' = Append(supported, said)
           /\ Len(m_messages) < MaxFields
<1> DEFINE msg == [product |-> product, grid |-> grid, bitmap |-> bitmap,
                   valid_time |-> valid_time]
<1>1. PICK content \in Contents : /\ Fits(content, Geometry[grid], said.bitmap)
                                  /\ contents' = Append(contents, content)
  BY DEF ReadData
<1>2. at \in {"section5", "section6"} /\ Complete /\ Supported(said)
  BY CompleteIffSupported DEF ReadData, Section7
<1>3. m_messages' = Append(m_messages, msg) /\ supported' = Append(supported, said)
  BY <1>2 DEF ReadData, Section7
<1>4. msg \in Records /\ said \in Groups /\ product \in Parameters /\ grid \in Grids
  BY <1>2 DEF DecoderInv, Registers, Records, Complete
<1>5. said.bitmap \in Bitmaps \ {"predefined"}
  BY <1>2, <1>4 DEF Groups, Supported
<1>6. Len(m_messages) < MaxFields
  <2>1. groups < MaxFields /\ groups \in Nat
    BY <1>2, SizeAssumption DEF DecoderInv, Registers, Agreement, AfterProduct
  <2>2. Len(m_messages) <= groups /\ Len(m_messages) \in Nat
    BY DEF DecoderInv, Result, SupportedAreRead
  <2> QED  BY <2>1, <2>2, SizeAssumption
<1> QED  BY <1>1, <1>3, <1>4, <1>5, <1>6

LEMMA DataStepFits ==
  ASSUME DecoderInv, DataInv, ReadData
  PROVE  DataInv'
<1>1. PICK msg \in Records, content \in Contents :
           /\ msg.product \in Parameters /\ msg.grid \in Grids
           /\ Fits(content, Geometry[msg.grid], said.bitmap)
           /\ said \in Groups /\ said.bitmap \in Bitmaps \ {"predefined"}
           /\ m_messages' = Append(m_messages, msg) /\ contents' = Append(contents, content)
           /\ supported' = Append(supported, said)
           /\ Len(m_messages) < MaxFields
  BY ReadDataAppends
<1>2. /\ m_messages \in Seq(Records) /\ supported \in Seq(Groups) /\ contents \in Seq(Contents)
      /\ Len(contents) = Len(m_messages) /\ Len(supported) = Len(m_messages)
  BY DEF DecoderInv, Result, SupportedAreRead, DataInv
<1>3. contents' \in Seq(Contents) /\ Len(contents') = Len(m_messages')
  BY <1>1, <1>2
<1>4. ASSUME NEW i \in DOMAIN m_messages'
      PROVE  /\ m_messages'[i].product \in Parameters /\ m_messages'[i].grid \in Grids
             /\ supported'[i].bitmap \in Bitmaps \ {"predefined"}
             /\ Fits(contents'[i], Geometry[m_messages'[i].grid], supported'[i].bitmap)
  <2>1. CASE i = Len(m_messages) + 1
    <3>1. m_messages'[i] = msg /\ supported'[i] = said /\ contents'[i] = content
      BY <1>1, <1>2, <2>1
    <3> QED  BY <1>1, <3>1
  <2>2. CASE i # Len(m_messages) + 1
    <3>1. /\ i \in DOMAIN m_messages /\ m_messages'[i] = m_messages[i]
          /\ supported'[i] = supported[i] /\ contents'[i] = contents[i]
      BY <1>1, <1>2, <2>2
    <3> QED  BY <3>1 DEF DataInv
  <2> QED  BY <2>1, <2>2
<1> QED  BY <1>3, <1>4 DEF DataInv, Fits

LEMMA FileRunsLoad == FileSpec => Spec
<1>1. FileInit => Init
  BY DEF FileInit
<1>2. [LoadFile]_fileVars => [Load]_vars
  BY DEF LoadFile, ReadData, ReadOn, Load, fileVars
<1> QED  BY <1>1, <1>2, PTL DEF FileSpec, Spec

LEMMA DataInvariant == FileSpec => []DataInv
<1>1. FileInit => DataInv
  <2> SUFFICES ASSUME FileInit PROVE DataInv
    OBVIOUS
  <2>1. m_messages = <<>> /\ contents = <<>> /\ DOMAIN m_messages = {}
    BY DEF FileInit, Init
  <2> QED  BY <2>1 DEF DataInv
<1>2. DecoderInv /\ DataInv /\ [LoadFile]_fileVars => DataInv'
  <2> SUFFICES ASSUME DecoderInv, DataInv, [LoadFile]_fileVars PROVE DataInv'
    OBVIOUS
  <2>1. CASE ReadData
    BY <2>1, DataStepFits
  <2>2. CASE ReadOn
    BY <2>2, ReadOnStays DEF DataInv
  <2>3. CASE UNCHANGED fileVars
    BY <2>3 DEF DataInv, fileVars, vars, file
  <2> QED  BY <2>1, <2>2, <2>3 DEF LoadFile
<1> QED  BY <1>1, <1>2, FileRunsLoad, DecoderInvariant, PTL DEF FileSpec

\* The list the lookups search.
ListOfFields ==
  /\ fields \in Seq(Fields) /\ Len(fields) = Len(m_messages)
  /\ DOMAIN fields = DOMAIN m_messages
  /\ \A i \in DOMAIN m_messages : fields[i] = FieldOf(m_messages[i], contents[i])

LEMMA FieldsInvariant == FileSpec => []ListOfFields
<1> SUFFICES ASSUME DecoderInv, DataInv PROVE ListOfFields
  BY FileRunsLoad, DecoderInvariant, DataInvariant, PTL
<1>1. /\ m_messages \in Seq(Records) /\ contents \in Seq(Contents)
      /\ Len(contents) = Len(m_messages) /\ DOMAIN m_messages = 1..Len(m_messages)
      /\ Len(m_messages) \in Nat
  BY DEF DecoderInv, Result, DataInv
<1>2. ASSUME NEW i \in DOMAIN m_messages PROVE FieldOf(m_messages[i], contents[i]) \in Fields
  <2>1. m_messages[i] \in Records /\ contents[i] \in Contents
    BY <1>1
  <2> QED  BY <2>1, FieldsAreFields DEF DataInv, Fits
<1>3. fields = [i \in 1..Len(m_messages) |-> FieldOf(m_messages[i], contents[i])]
  BY <1>1 DEF fields
<1>4. fields \in [1..Len(m_messages) -> Fields]
  BY <1>1, <1>2, <1>3
<1> QED  BY <1>1, <1>3, <1>4 DEF ListOfFields

(***************************************************************************)
(* Load puts the fields of a file one by one into the list the lookups     *)
(* search (grib_reader.cpp:310): everything proved of that list holds of   *)
(* any file.                                                               *)
(***************************************************************************)
THEOREM FileFillsList == FileSpec => Lookups!Spec
<1>1. FileInit => Lookups!Init
  <2> SUFFICES ASSUME FileInit PROVE fields = <<>>
    BY DEF Lookups!Init
  <2>1. m_messages = <<>>
    BY DEF FileInit, Init
  <2> QED  BY <2>1 DEF fields
<1>2. DecoderInv /\ DataInv /\ ListOfFields /\ ListOfFields' /\ [LoadFile]_fileVars
        => [Lookups!Next]_fields
  <2> SUFFICES ASSUME DecoderInv, DataInv, ListOfFields, ListOfFields', [LoadFile]_fileVars,
                      fields' # fields
               PROVE  \E f \in Fields : Len(fields) < MaxFields /\ fields' = Append(fields, f)
    BY DEF Lookups!Next, Lookups!PushBack
  <2>1. CASE ReadData
    <3>1. PICK msg \in Records, content \in Contents :
             /\ m_messages' = Append(m_messages, msg)
             /\ contents' = Append(contents, content) /\ Len(m_messages) < MaxFields
      BY <2>1, ReadDataAppends
    <3>2. /\ fields \in Seq(Fields) /\ Len(fields) = Len(m_messages)
          /\ \A i \in DOMAIN m_messages : fields[i] = FieldOf(m_messages[i], contents[i])
      BY DEF ListOfFields
    <3>3. /\ fields' \in Seq(Fields) /\ Len(fields') = Len(m_messages')
          /\ \A i \in DOMAIN m_messages' : fields'[i] = FieldOf(m_messages'[i], contents'[i])
      BY DEF ListOfFields
    <3>4. /\ m_messages \in Seq(Records) /\ contents \in Seq(Contents)
          /\ Len(contents) = Len(m_messages)
      BY DEF DecoderInv, Result, DataInv
    <3> DEFINE f == fields'[Len(fields')]
    <3>5. Len(fields') = Len(fields) + 1 /\ f \in Fields
      BY <3>1, <3>2, <3>3, <3>4
    <3>6. ASSUME NEW i \in 1..Len(fields) PROVE fields'[i] = fields[i]
      <4>1. /\ i \in DOMAIN m_messages /\ i \in DOMAIN m_messages'
            /\ m_messages'[i] = m_messages[i] /\ contents'[i] = contents[i]
        BY <3>1, <3>2, <3>4
      <4> QED  BY <3>2, <3>3, <4>1
    <3>7. fields' = Append(fields, f)
      <4> DEFINE s == fields
                 t == fields'
      <4> HIDE DEF s, t, f
      <4>1. s \in Seq(Fields) /\ t \in Seq(Fields) /\ Len(t) = Len(s) + 1 /\ t[Len(t)] = f
            /\ \A i \in 1..Len(s) : t[i] = s[i]
        BY <3>2, <3>3, <3>5, <3>6 DEF s, t, f
      <4>2. t = Append(s, f)
        BY <4>1
      <4> QED  BY <4>2 DEF s, t
    <3> QED  BY <3>1, <3>2, <3>5, <3>7
  <2>2. CASE ReadOn
    BY <2>2, ReadOnStays DEF fields
  <2>3. CASE UNCHANGED fileVars
    BY <2>3 DEF fields, fileVars, vars
  <2> QED  BY <2>1, <2>2, <2>3 DEF LoadFile
<1> QED  BY <1>1, <1>2, FileRunsLoad, DecoderInvariant, DataInvariant, FieldsInvariant, PTL
         DEF FileSpec, Lookups!Spec

\* What is in the list is what the file says, but for shifted times.
LEMMA ListIsSaid ==
  ASSUME DecoderInv, DataInv, ListOfFields, NEW i \in DOMAIN fields
  PROVE  /\ i \in DOMAIN supported /\ fields[i] \in Fields
         /\ fields[i].product = SaidField(i).product
         /\ ~supported[i].shifted => fields[i] = SaidField(i)
         /\ supported[i].bitmap # "short" => fields[i].bitmap # "short"
<1> DEFINE msg == m_messages[i]
           f   == supported[i]
           c   == contents[i]
           say == [product |-> f.product, grid |-> f.grid, bitmap |-> f.bitmap,
                   valid_time |-> Later(MakeUtcDateTime(f.reference), f.forecast)]
<1>1. /\ i \in DOMAIN m_messages /\ i \in DOMAIN supported /\ fields[i] \in Fields
      /\ fields[i] = FieldOf(msg, c)
  BY DEF ListOfFields, DecoderInv, Result, SupportedAreRead
<1>2. /\ msg.product = f.product /\ msg.grid = f.grid
      /\ (msg.bitmap = "given") <=> (f.bitmap = "given")
  BY <1>1 DEF DecoderInv, Result, SupportedAreRead
<1>3. ~f.shifted => msg.valid_time = say.valid_time
  BY <1>1 DEF DecoderInv, Result, UnshiftedFieldsTimed, RightTime
<1>4. /\ f.bitmap \in {"none", "given", "short"}
      /\ Fits(c, Geometry[msg.grid], f.bitmap)
  BY <1>1 DEF DataInv, Bitmaps
<1>5. SaidField(i) = FieldOf(say, c)
  BY DEF SaidField
<1>6. /\ say.product = f.product /\ say.grid = f.grid /\ say.bitmap = f.bitmap
  OBVIOUS
<1> HIDE DEF msg, f, c, say
<1>7. fields[i].product = SaidField(i).product
  BY <1>1, <1>2, <1>5, <1>6 DEF FieldOf
<1>8. ~f.shifted => fields[i] = SaidField(i)
  BY <1>1, <1>2, <1>3, <1>5, <1>6, SameField
<1>9. f.bitmap # "short" => fields[i].bitmap # "short"
  <2>1. CASE f.bitmap = "given"
    BY <1>1, <1>2, <2>1 DEF FieldOf
  <2>2. CASE f.bitmap = "none"
    <3>1. msg.bitmap # "given" /\ c.present = Points(Geometry[msg.grid])
      BY <1>2, <1>4, <2>2 DEF Fits
    <3> QED  BY <1>1, <3>1 DEF FieldOf
  <2> QED  BY <1>4, <2>1, <2>2
<1> QED  BY <1>1, <1>7, <1>8, <1>9 DEF f

\* The nearest record of the list is a field nearest in time, as the file
\* says, and there is one if there is a field.
LEMMA FindsWhatIsSaid ==
  ASSUME DecoderInv, DataInv, ListOfFields, NEW quantity, NEW n, NEW time \in Int,
         \A i \in DOMAIN supported : SaidField(i).product = quantity => ~supported[i].shifted
  PROVE  LET best == Lookups!FindNearest(quantity, n, time)
         IN  /\ best = 0 <=> SaidFields(quantity, n) = {}
             /\ best # 0 => /\ best \in NearestFields(quantity, n, time)
                            /\ best \in DOMAIN fields /\ fields[best] = SaidField(best)
<1> DEFINE best == Lookups!FindNearest(quantity, n, time)
           All  == L!Candidates(quantity, n)
<1>0. DOMAIN supported = DOMAIN fields /\ DOMAIN fields = 1..Len(fields) /\ Len(fields) \in Nat
  <2>1. /\ fields \in Seq(Fields) /\ Len(fields) = Len(m_messages)
        /\ supported \in Seq(Groups) /\ Len(supported) = Len(m_messages)
    BY DEF ListOfFields, DecoderInv, Result, SupportedAreRead
  <2> QED  BY <2>1
<1>1. ASSUME NEW i \in DOMAIN fields
      PROVE  /\ L!Wanted(fields[i], quantity, n) <=> Lookups!Wanted(SaidField(i), quantity, n)
             /\ L!Wanted(fields[i], quantity, n) => fields[i] = SaidField(i)
  <2>1. CASE SaidField(i).product = quantity
    <3>1. fields[i] = SaidField(i)
      BY <1>0, <2>1, ListIsSaid
    <3> QED  BY <3>1, SameFinding
  <2>2. CASE SaidField(i).product # quantity
    <3>1. fields[i].product # quantity
      BY <2>2, ListIsSaid
    <3> QED  BY <2>2, <3>1 DEF L!Wanted, Lookups!Wanted
  <2> QED  BY <2>1, <2>2
<1>2. All = SaidFields(quantity, n)
  BY <1>0, <1>1 DEF L!Candidates, SaidFields
<1>3. \A i \in All : /\ i \in DOMAIN fields /\ fields[i] = SaidField(i) /\ i # 0
                     /\ i <= Len(fields)
  BY <1>0, <1>1 DEF L!Candidates
<1>4. \A i \in All : From(i, time) = L!Diff(i, time)
  BY <1>3 DEF From, L!Diff, Lookups!Magnitude, L!Magnitude
<1>5. L!ChosenOf(best, quantity, n, time, Len(fields))
  <2>1. L!Files
    BY DEF ListOfFields, L!Files
  <2>2. L!ChosenOf(L!FindNearest(quantity, n, time), quantity, n, time, Len(fields))
    BY <2>1, LookupsAssumed, L!NearestIsPreferred
    DEF L!CircleAssumption, L!QueriesAssumption, L!RecordsAssumption
  <2> QED  BY <2>2, SameFinding
<1>6. {i \in All : i <= Len(fields)} = All
  BY <1>3
<1> HIDE DEF best, All
<1>7. \/ best = 0 /\ All = {}
      \/ best \in All /\ \A i \in All : L!Preferred(best, i, time)
  BY <1>5, <1>6 DEF L!ChosenOf, L!Nothing, All
<1>8. ASSUME best \in All, NEW i \in All PROVE From(best, time) <= From(i, time)
  <2>1. L!Diff(best, time) < L!Diff(i, time) \/ L!Diff(best, time) = L!Diff(i, time)
    BY <1>3, <1>7, <1>8 DEF L!Preferred
  <2>2. L!Diff(best, time) \in Int /\ L!Diff(i, time) \in Int
    <3>1. fields[best] \in Fields /\ fields[i] \in Fields
      BY <1>3, <1>8, ListIsSaid
    <3>2. fields[best].valid_time \in Int /\ fields[i].valid_time \in Int
      BY <3>1 DEF Fields
    <3> QED  BY <3>2 DEF L!Diff, L!Magnitude
  <2> QED  BY <1>4, <1>8, <2>1, <2>2
<1> QED  BY <1>2, <1>3, <1>7, <1>8 DEF best, NearestFields

(***************************************************************************)
(* From the file to the answer (grib_reader.h:20-28, :35-48): for any file *)
(* and any question, wind and current are the values the file has, at the  *)
(* nearest point, in the fields nearest in time, and are available where   *)
(* it has some; but for shifted fields and short bitmaps.                  *)
(***************************************************************************)
THEOREM FileAnswers == FileSpec => []AnswersByTheFile
<1>0. DecoderInv /\ ListOfFields => Len(fields) = Len(supported)
  BY DEF ListOfFields, DecoderInv, Result, SupportedAreRead
<1>1. DecoderInv /\ DataInv /\ ListOfFields => AnswersByTheFile
  <2> SUFFICES ASSUME DecoderInv, DataInv, ListOfFields,
                      NEW quantity \in Lookups!Products, NEW time \in Queries,
                      NEW place \in Positions,
                      \A i \in DOMAIN supported : SaidField(i).product = quantity =>
                        ~supported[i].shifted /\ supported[i].bitmap # "short"
               PROVE  LET lat    == place[1]
                          lon    == place[2]
                          answer == Lookups!Lookup(quantity, lat, lon, time)
                      IN  /\ answer # Lookups!NotAvailable =>
                               \A n \in Lookups!Components :
                                 \E i \in NearestFields(quantity, n, time) :
                                   ReadAsFiled(SaidField(i), lat, lon, answer[n])
                          /\ (\A n \in Lookups!Components :
                                /\ NearestFields(quantity, n, time) # {}
                                /\ \A i \in NearestFields(quantity, n, time) :
                                     FiledAround(SaidField(i), lat, lon))
                               => answer # Lookups!NotAvailable
    BY <1>0 DEF AnswersByTheFile
  <2> DEFINE lat     == place[1]
             lon     == place[2]
             best(n) == Lookups!FindNearest(quantity, n, time)
             at_(n)  == Lookups!SampleAt(fields[best(n)], lat, lon)
             answer  == Lookups!Lookup(quantity, lat, lon, time)
  <2>1. lat \in Int /\ lon \in Int /\ time \in Int
    BY AskedAssumption
  <2>2. ASSUME NEW n, best(n) # 0
        PROVE  /\ best(n) \in NearestFields(quantity, n, time)
               /\ fields[best(n)] = SaidField(best(n)) /\ fields[best(n)] \in Fields
               /\ fields[best(n)].bitmap # "short"
    <3>1. /\ best(n) \in NearestFields(quantity, n, time) /\ best(n) \in DOMAIN fields
          /\ fields[best(n)] = SaidField(best(n))
      BY <2>1, <2>2, FindsWhatIsSaid
    <3>2. SaidField(best(n)).product = quantity
      BY <3>1 DEF NearestFields, SaidFields, Lookups!Wanted
    <3> QED  BY <3>1, <3>2, ListIsSaid
  <2>3. ASSUME NEW n, NearestFields(quantity, n, time) # {} PROVE best(n) # 0
    BY <2>1, <2>3, FindsWhatIsSaid DEF NearestFields
  <2>4. answer = IF best("u") = 0 \/ best("v") = 0 THEN Lookups!NotAvailable
                 ELSE IF at_("u") = Lookups!NaN \/ at_("v") = Lookups!NaN
                      THEN Lookups!NotAvailable
                      ELSE [u |-> at_("u"), v |-> at_("v")]
    BY DEF Lookups!Lookup, Lookups!Nothing
  <2>5. ASSUME NEW n, best(n) # 0, at_(n) # Lookups!NaN
        PROVE  ReadAsFiled(SaidField(best(n)), lat, lon, at_(n))
    <3> DEFINE f == fields[best(n)]
    <3>1. f \in Fields /\ f.bitmap # "short" /\ f = SaidField(best(n))
      BY <2>2, <2>5
    <3>2. L!SampleAt(f, lat, lon) = at_(n) /\ at_(n) # L!NaN
      BY <2>5, SameSampling DEF Lookups!NaN, L!NaN
    <3> HIDE DEF f, at_, best, lat, lon
    <3>3. \E p \in L!Filed(f) : /\ L!NearBy(f, p, lat, lon)
                                /\ L!SampleAt(f, lat, lon) = L!FiledValue(f, p)
      BY <2>1, <3>1, <3>2, LookupsAssumed, L!AnswersAreNear
      DEF L!CircleAssumption, L!QueriesAssumption, L!RecordsAssumption
    <3>4. ReadAsFiled(f, lat, lon, at_(n))
      BY <3>2, <3>3, SameFiling
    <3> QED  BY <3>1, <3>4
  <2>6. ASSUME NEW n, best(n) # 0, FiledAround(SaidField(best(n)), lat, lon)
        PROVE  at_(n) # Lookups!NaN
    <3> DEFINE f == fields[best(n)]
    <3>1. f \in Fields /\ f.bitmap # "short" /\ f = SaidField(best(n))
      BY <2>2, <2>6
    <3>2. L!SampleAt(f, lat, lon) = at_(n) /\ Lookups!NaN = L!NaN
      BY SameSampling DEF Lookups!NaN, L!NaN
    <3>3. FiledAround(f, lat, lon)
      BY <2>6, <3>1
    <3> HIDE DEF f, at_, best, lat, lon
    <3>4. L!Regional(f) /\ \E p \in L!Filed(f) : L!Around(f, p, lat, lon)
      BY <3>3, SameFiling
    <3>5. L!SampleAt(f, lat, lon) # L!NaN
      BY <2>1, <3>1, <3>4, LookupsAssumed, L!NearPointsAnswer
      DEF L!CircleAssumption, L!QueriesAssumption, L!RecordsAssumption
    <3> QED  BY <3>2, <3>5
  <2>7. Lookups!Components = {"u", "v"}
    BY DEF Lookups!Components
  <2>8. Lookups!NotAvailable = [u |-> Lookups!NaN, v |-> Lookups!NaN]
    BY DEF Lookups!NotAvailable
  <2> HIDE DEF lat, lon, best, at_, answer
  <2>9. ASSUME answer # Lookups!NotAvailable, NEW n \in Lookups!Components
        PROVE  \E i \in NearestFields(quantity, n, time) :
                 ReadAsFiled(SaidField(i), lat, lon, answer[n])
    <3>1. best(n) # 0 /\ at_(n) # Lookups!NaN /\ answer[n] = at_(n)
      BY <2>4, <2>7, <2>9
    <3> QED  BY <2>2, <2>5, <3>1
  <2>10. ASSUME \A n \in Lookups!Components :
                  /\ NearestFields(quantity, n, time) # {}
                  /\ \A i \in NearestFields(quantity, n, time) :
                       FiledAround(SaidField(i), lat, lon)
         PROVE  answer # Lookups!NotAvailable
    <3>1. ASSUME NEW n \in {"u", "v"} PROVE best(n) # 0 /\ at_(n) # Lookups!NaN
      <4>1. best(n) # 0
        BY <2>3, <2>7, <2>10
      <4> QED  BY <2>2, <2>6, <2>7, <2>10, <4>1
    <3>2. answer = [u |-> at_("u"), v |-> at_("v")] /\ at_("u") # Lookups!NaN
      BY <2>4, <3>1
    <3> QED  BY <2>8, <3>2
  <2> QED  BY <2>9, <2>10 DEF lat, lon, answer
<1> QED  BY <1>1, FileRunsLoad, DecoderInvariant, DataInvariant, FieldsInvariant, PTL
=============================================================================
