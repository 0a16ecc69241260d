--------------------------- MODULE MCRecalculation ---------------------------
(***************************************************************************)
(* TLC's instance of Recalculation.  The numerals are on either side of    *)
(* every bound the parser has: 60 for minutes and seconds, 90 and 180 for  *)
(* degrees, 0.                                                             *)
(***************************************************************************)
EXTENDS Recalculation

MCValue == [n \in {"-181", "-45", "0", "30.5", "45", "60", "90", "91", "180"} |->
              CASE n = "-181" -> -1810 [] n = "-45" -> -450 [] n = "0" -> 0
                [] n = "30.5" -> 305 [] n = "45" -> 450 [] n = "60" -> 600
                [] n = "90" -> 900 [] n = "91" -> 910 [] n = "180" -> 1800]

MCCharacters == {"45", "-45", "60", "N", "S", "E", "A", Blank, Mark, Comma}

\* One to three numbers, with a letter, or without, or with "nan".
MCNumbers == {<<n>> : n \in Numerals}
             \cup {<<d, Blank, m>> : d \in Numerals, m \in {"0", "30.5", "60"}}
             \cup {<<d, Blank, m, Mark, s>> : d \in {"-45", "45", "90", "180"},
                                              m \in {"30.5", "60"}, s \in {"0", "30.5", "60"}}
\* A latitude and a longitude in order.
MCTypical == {<<"45", Blank, "30.5", Mark, "S">>, <<"30.5", Blank, "E">>, <<"-45">>,
              <<"30.5", "E">>}

MCHalves == {n \o l : n \in MCNumbers, l \in {<<>>, <<"N">>, <<Blank, "S">>, <<Blank, "E">>, <<"W">>}}
            \cup {<<"N", "A", "N", Blank, "N">>} \cup MCTypical

MCOffsets == {-4, 0}
MCStreams == {-3}
\* From the future, on its way to the age of MaxElapsed, and beyond it.
MCAges == {-2, 3, 7}

\* 0, and degrees, minutes and seconds on either side of it.
MCShown == [d : {"0", "45", "90", "180"}, m : {"0"}, s : {"0"}, negative : {FALSE}]
           \cup [d : {"45"}, m : {"0", "30.5"}, s : {"0", "45"}, negative : BOOLEAN]
(***************************************************************************)
(* Every duration is shown to the nearest minute and every bearing to the  *)
(* nearest tenth of a degree round the compass, carried where rounding     *)
(* fills an hour or the circle.                                            *)
(***************************************************************************)
ASSUME MinutesAreCarried ==
  \A s \in -90..9000 :
    LET shown == FormatEtaHhMm(s)
    IN  /\ shown.mm \in 0..59
        /\ 60 * (60 * shown.hh + shown.mm) - (IF s < 0 THEN 0 ELSE s) \in -29..30

ASSUME BearingsAreCarried ==
  \A b \in -36100..36100 :
    /\ FormatBearingDeg(b) \in 0..3599
    /\ (10 * FormatBearingDeg(b) - b + 4) % 36000 \in 0..9
=============================================================================
