------------------------------ MODULE GribFile ------------------------------
(***************************************************************************)
(* A GRIB file from its sections to the winds and currents it answers with *)
(* (src/src/grib_reader.cpp): the fields that Load puts in the list        *)
(* (GribReader), each with what its data section holds, are the list that  *)
(* LookupWind and LookupCurrent search (GribLookup).                       *)
(***************************************************************************)
EXTENDS GribReader

CONSTANTS
  Meaning,      \* what a parameter is: product, number and level
  Geometry,     \* where the points of a grid lie
  Contents,     \* what bitmap and data of a field may hold
  Queries,      \* times asked for, in seconds from 1970-01-01
  Latitudes,    \* as in GribLookup
  Positions,    \* places asked for, latitude and longitude
  Circle        \* units in 360 degrees

ASSUME MeaningAssumption ==
  Meaning \in [Parameters ->
                 [product : {"wind", "current", "other"}, number : {"u", "v", "other"},
                  level_type : {"height", "other"}, level : Int]]

ASSUME GeometryAssumption ==
  Geometry \in [Grids -> [lo1 : Int, di : Nat \ {0}, ni : Nat \ {0}, i_increasing : BOOLEAN,
                          la1 : Int, dj : Nat \ {0}, nj : Nat \ {0}, j_increasing : BOOLEAN]]

\* The points with a value, how many of the values are there, and the width
\* of one.
ASSUME ContentsAssumption ==
  Contents \subseteq [present : SUBSET Nat, packed : Nat, num_bits : Nat]

ASSUME AskedAssumption ==
  /\ Queries \subseteq Int /\ Latitudes \subseteq Int /\ Positions \subseteq Int \X Int
  /\ Circle \in Nat \ {0} /\ Circle % 2 = 0

VARIABLE contents      \* of each field in m_messages

fileVars == <<vars, contents>>

Points(g) == 0..(g.ni * g.nj - 1)

\* A field without a bitmap has a value for every point.
Fits(content, g, b) ==
  /\ content.present \subseteq Points(g)
  /\ b = "none" => content.present = Points(g)

\* Times are compared to the second (wxDateTime).
Seconds(time) == time.day * SecondsADay + time.second

\* A message of the list with its data: what is looked up in it.
FieldOf(msg, content) ==
  LET p == Meaning[msg.product]
      g == Geometry[msg.grid]
  IN  [product |-> p.product, number |-> p.number, valid_time |-> Seconds(msg.valid_time),
       level_type |-> p.level_type, level |-> p.level,
       lo1 |-> g.lo1, di |-> g.di, ni |-> g.ni, i_increasing |-> g.i_increasing,
       la1 |-> g.la1, dj |-> g.dj, nj |-> g.nj, j_increasing |-> g.j_increasing,
       present |-> content.present, packed |-> content.packed, num_bits |-> content.num_bits,
       bitmap |-> CASE msg.bitmap = "given"                                     -> "given"
                    [] msg.bitmap # "given" /\ content.present = Points(g)      -> "none"
                    [] msg.bitmap # "given" /\ content.present # Points(g)      -> "short"]

fields == [i \in DOMAIN m_messages |-> FieldOf(m_messages[i], contents[i])]

Fields ==
  {f \in [product : {"wind", "current", "other"}, number : {"u", "v", "other"}, valid_time : Int,
          level_type : {"height", "other"}, level : Int,
          lo1 : Int, di : Nat \ {0}, ni : Nat \ {0}, i_increasing : BOOLEAN,
          la1 : Int, dj : Nat \ {0}, nj : Nat \ {0}, j_increasing : BOOLEAN,
          present : SUBSET Nat, packed : Nat,
          bitmap : {"none", "given", "short"}, num_bits : Nat] :
     /\ f.present \subseteq Points(f)
     /\ f.bitmap = "none" => f.present = Points(f)}

Lookups == INSTANCE GribLookup
           WITH Records <- Fields, Places <- Positions, MaxMessages <- MaxFields,
                m_messages <- fields
-----------------------------------------------------------------------------
FileInit == Init /\ contents = <<>>

\* Section 7 unpacks the data of the field it completes.
ReadData ==
  /\ Section7 /\ Complete
  /\ \E content \in Contents :
       /\ Fits(content, Geometry[grid], said.bitmap)
       /\ contents' = Append(contents, content)

ReadOn == Load /\ ~(at' = "section7" /\ Complete) /\ UNCHANGED contents

LoadFile == ReadData \/ ReadOn

FileSpec == FileInit /\ [][LoadFile]_fileVars
-----------------------------------------------------------------------------
(* What the file says, of the fields that are to be read. *)

SaidField(i) ==
  LET f == supported[i]
  IN  FieldOf([product |-> f.product, grid |-> f.grid, bitmap |-> f.bitmap,
               valid_time |-> Later(MakeUtcDateTime(f.reference), f.forecast)], contents[i])

SaidFields(quantity, number) ==
  {i \in DOMAIN supported : Lookups!Wanted(SaidField(i), quantity, number)}

From(i, time) == Lookups!Magnitude(SaidField(i).valid_time - time)

NearestFields(quantity, number, time) ==
  {i \in SaidFields(quantity, number) :
     \A j \in SaidFields(quantity, number) : From(i, time) <= From(j, time)}

\* The value is that of the nearest point; and there is one to be read.
ReadAsFiled(f, lat, lon, v) ==
  \E p \in Lookups!Filed(f) : Lookups!NearBy(f, p, lat, lon) /\ v = Lookups!FiledValue(f, p)
FiledAround(f, lat, lon) ==
  Lookups!Regional(f) /\ \E p \in Lookups!Filed(f) : Lookups!Around(f, p, lat, lon)

(***************************************************************************)
(* From the file to the answer: every field that is to be read is there;   *)
(* each component of a wind or a current is the value that the file has,   *)
(* for the nearest point, in a field nearest in time to what was asked;    *)
(* and there is an answer wherever each field nearest in time has a value  *)
(* nearer than half a cell, in a grid of less than half the globe          *)
(* (grib_reader.h:20-28, :35-48).  Two exceptions the code makes are set   *)
(* apart: fields of the quantity that an earlier forecast of their message *)
(* has shifted, and bitmaps too short for their grid.  Said after each     *)
(* field, where the file may end or break off: nothing after the last      *)
(* field changes the list.                                                 *)
(***************************************************************************)
AnswersByTheFile ==
  at = "section7" =>
    /\ Len(fields) = Len(supported)
    /\ \A quantity \in Lookups!Products :
         (\A i \in DOMAIN supported : SaidField(i).product = quantity =>
            ~supported[i].shifted /\ supported[i].bitmap # "short") =>
           \A time \in Queries, place \in Positions :
             LET lat        == place[1]
                 lon        == place[2]
                 answer     == Lookups!Lookup(quantity, lat, lon, time)
                 nearest(n) == NearestFields(quantity, n, time)
             IN  /\ answer # Lookups!NotAvailable =>
                      \A n \in Lookups!Components :
                        \E i \in nearest(n) : ReadAsFiled(SaidField(i), lat, lon, answer[n])
                 /\ (\A n \in Lookups!Components :
                       /\ nearest(n) # {}
                       /\ \A i \in nearest(n) : FiledAround(SaidField(i), lat, lon))
                      => answer # Lookups!NotAvailable
=============================================================================
