---------------------------- MODULE PositionParse ----------------------------
(***************************************************************************)
(* Reading a typed position (src/src/position_parse.cpp, and ParsePos and  *)
(* FormatPosition in src/src/intercept_panel.cpp).                         *)
(*                                                                         *)
(* A text is a sequence of characters, except that a numeral is one        *)
(* element, whatever its digits: Value says what number it stands for, in  *)
(* tenths.  Letters are upper case, as the code folds them; "A" stands     *)
(* for every letter that is no hemisphere.  A degree, minute or second     *)
(* mark is Mark, white space Blank.  Numerals are kept apart (Separate):   *)
(* one directly after another would be another numeral.                    *)
(*                                                                         *)
(* A coordinate is in tenths of an arc second, and a number may be none at *)
(* all: std::stod reads "nan" as a number that every comparison is false   *)
(* of.                                                                     *)
(***************************************************************************)
EXTENDS Integers, Sequences, SequencesExt

CONSTANT Value         \* the numerals: each to ten times its number

Numerals == DOMAIN Value
Blank == "blank"
Mark  == "mark"
Comma == "comma"
White == {Blank, Mark}
HemisphereLetters == {"N", "S", "E", "W"}
Letters == HemisphereLetters \cup {"A"}
Elements == Numerals \cup Letters \cup White \cup {Comma}

ASSUME ValueAssumption ==
  /\ Value \in [Numerals -> Int]
  /\ Numerals \cap (Letters \cup White \cup {Comma}) = {}

\* A numeral goes on with a digit, and with an E and digits after it.
Separate(s) ==
  \A i \in DOMAIN s : s[i] \in Numerals /\ i > 1 =>
    /\ s[i - 1] \notin Numerals
    /\ s[i - 1] = "E" /\ i > 2 => s[i - 2] \notin Numerals

\* Numbers as IEEE 754 has them: NaN is neither below nor above anything.
Number(n)   == [finite |-> TRUE, v |-> n]
NaN         == [finite |-> FALSE, v |-> 0]
Below(a, n) == a.finite /\ a.v < n
Above(a, n) == a.finite /\ a.v > n
Plus(a, b)  == IF a.finite /\ b.finite THEN Number(a.v + b.v) ELSE NaN
Times(k, a) == IF a.finite THEN Number(k * a.v) ELSE NaN

\* PositionParseResult.
Accepted(degrees) == [ok |-> TRUE, degrees |-> degrees, error |-> "none"]
Refused(error)    == [ok |-> FALSE, degrees |-> NaN, error |-> error]
-----------------------------------------------------------------------------
(***************************************************************************)
(* Taking a text apart.                                                    *)
(***************************************************************************)
\* wxString::Trim(true).Trim(false): white space only, marks stay.
Trim(s) ==
  LET text == {i \in DOMAIN s : s[i] # Blank}
  IN  IF text = {} THEN <<>> ELSE SubSeq(s, Min(text), Max(text))

\* What is between separators, in order.
Cut(s, separators) ==
  LET cut[n \in 0..Len(s)] ==
        IF n = 0 THEN <<>>
        ELSE IF s[n] \in separators THEN cut[n - 1]
        ELSE IF n = 1 \/ s[n - 1] \in separators THEN Append(cut[n - 1], <<s[n]>>)
        ELSE [cut[n - 1] EXCEPT ![Len(cut[n - 1])] = Append(@, s[n])]
  IN  cut[Len(s)]

\* A slip: a mark is a character like any other.
TokensKeepingMarks(s) == Cut(s, {Blank})

\* The marks count as white space.
Tokens(s) == Cut(s, White)

\* std::stod, with nothing left over.
IsNumber(token) == \/ Len(token) = 1 /\ token[1] \in Numerals
                   \/ token = <<"N", "A", "N">>
ParseNumber(token) == IF Len(token) = 1 THEN Number(Value[token[1]]) ELSE NaN

\* The letter at the end of the last token, "none" if it ends in none, and
\* the tokens without it.
ExtractHemisphere(tokens) ==
  IF tokens # <<>> /\ Last(Last(tokens)) \in Letters
  THEN Last(Last(tokens)) ELSE "none"

WithoutHemisphere(tokens) ==
  IF ExtractHemisphere(tokens) = "none" THEN tokens
  ELSE Front(tokens) \o (IF Len(Last(tokens)) = 1 THEN <<>>
                                                  ELSE <<Front(Last(tokens))>>)
-----------------------------------------------------------------------------
(***************************************************************************)
(* ParseCoordinate: the first thing that is wrong is the error.  One       *)
(* number is decimal degrees, two or three are degrees, minutes and        *)
(* seconds.                                                                *)
(***************************************************************************)
MaxDegrees(is_latitude) == IF is_latitude THEN 900 ELSE 1800   \* tenths
Towards(letter, degrees) ==
  IF letter \in {"S", "W"} THEN Times(-1, degrees) ELSE degrees

InRange(degrees, is_latitude) ==
  IF \/ Above(degrees, 3600 * MaxDegrees(is_latitude))
     \/ Below(degrees, -3600 * MaxDegrees(is_latitude))
  THEN Refused("range") ELSE Accepted(degrees)

DecimalDegrees(value, letter, is_latitude) ==
  IF letter # "none" /\ Below(value, 0) THEN Refused("sign")
  ELSE InRange(Towards(letter, Times(3600, value)), is_latitude)

SecondsOf(values) == IF 3 \in DOMAIN values THEN values[3] ELSE Number(0)

\* In tenths: 60 is 600.
Sixtieths(a) == ~(Below(a, 0) \/ Above(a, 599))

\* A slip: the seconds are not looked at.
DegreesMinutesUnchecked(values, letter, is_latitude) ==
  IF letter = "none" THEN Refused("hemisphere")
  ELSE IF Below(values[1], 0) THEN Refused("sign")
  ELSE IF ~Sixtieths(values[2]) THEN Refused("minutes")
  ELSE IF Above(values[1], MaxDegrees(is_latitude)) THEN Refused("degrees")
  ELSE InRange(Towards(letter, Plus(Times(3600, values[1]),
                                    Plus(Times(60, values[2]), SecondsOf(values)))),
               is_latitude)

DegreesMinutes(values, letter, is_latitude) ==
  IF letter = "none" THEN Refused("hemisphere")
  ELSE IF Below(values[1], 0) THEN Refused("sign")
  ELSE IF ~Sixtieths(values[2]) THEN Refused("minutes")
  ELSE IF ~Sixtieths(SecondsOf(values)) THEN Refused("seconds")
  ELSE IF Above(values[1], MaxDegrees(is_latitude)) THEN Refused("degrees")
  ELSE InRange(Towards(letter, Plus(Times(3600, values[1]),
                                    Plus(Times(60, values[2]), SecondsOf(values)))),
               is_latitude)

ParseCoordinate(s, is_latitude) ==
  LET tokens  == Tokens(s)
      letter  == ExtractHemisphere(tokens)
      numbers == WithoutHemisphere(tokens)
      values  == [i \in DOMAIN numbers |-> ParseNumber(numbers[i])]
  IN  IF tokens = <<>> THEN Refused("empty")
      ELSE IF letter = "A" THEN Refused("letter")
      ELSE IF letter # "none" /\ (letter \in {"N", "S"}) # is_latitude THEN Refused("axis")
      ELSE IF DOMAIN numbers \notin {1..1, 1..2, 1..3} THEN Refused("count")
      ELSE IF \E i \in DOMAIN numbers : ~IsNumber(numbers[i]) THEN Refused("number")
      ELSE IF 2 \notin DOMAIN numbers THEN DecimalDegrees(values[1], letter, is_latitude)
      ELSE DegreesMinutes(values, letter, is_latitude)
-----------------------------------------------------------------------------
(***************************************************************************)
(* SplitPosition cuts at the first comma, or else after the first N or S,  *)
(* and ParsePos wants both halves right.                                   *)
(***************************************************************************)
\* The first place of one of a set of characters, 0 if there is none.
Find(s, set) ==
  LET places == {i \in DOMAIN s : s[i] \in set}
  IN  IF places = {} THEN 0 ELSE Min(places)

SplitPosition(s) ==
  LET trimmed == Trim(s)
      comma   == Find(trimmed, {Comma})
      letter  == Find(trimmed, {"N", "S"})
      cut     == IF comma # 0 THEN comma - 1 ELSE letter
      from    == IF comma # 0 THEN comma + 1 ELSE letter + 1
  IN  [lat |-> Trim(SubSeq(trimmed, 1, cut)),
       lon |-> Trim(SubSeq(trimmed, from, Len(trimmed)))]

ParsePos(s) ==
  LET split == SplitPosition(s)
      lat   == ParseCoordinate(split.lat, TRUE)
      lon   == ParseCoordinate(split.lon, FALSE)
  IN  [ok  |-> split.lat # <<>> /\ split.lon # <<>> /\ lat.ok /\ lon.ok,
       lat |-> lat.degrees, lon |-> lon.degrees]
-----------------------------------------------------------------------------
(***************************************************************************)
(* How OpenCPN shows a coordinate (toSDMM_PlugIn), in the format chosen in *)
(* its options: a signed number of degrees, or degrees and minutes, or     *)
(* degrees, minutes and seconds with a letter.  A coordinate to show is    *)
(* its parts, as numerals, and on which side of zero it is.                *)
(***************************************************************************)
Formats == {"degrees", "minutes", "seconds"}
Place(c) == (IF c.negative THEN -1 ELSE 1)
              * (3600 * Value[c.d] + 60 * Value[c.m] + Value[c.s])
Letter(is_latitude, negative) ==
  IF is_latitude THEN IF negative THEN "S" ELSE "N"
                 ELSE IF negative THEN "W" ELSE "E"
Negated(n) == {m \in Numerals : Value[m] = -Value[n]}
\* Exactly, without rounding.
Shows(format, c) ==
  /\ format # "seconds" => Value[c.s] = 0
  /\ format = "seconds" => Value[c.m] % 10 = 0
  /\ format = "degrees" => Value[c.m] = 0 /\ (c.negative => Negated(c.d) # {})

toSDMM(format, c, is_latitude) ==
  LET letter == <<Blank, Letter(is_latitude, c.negative)>>
  IN  CASE format = "degrees" -> <<IF c.negative THEN CHOOSE n \in Negated(c.d) : TRUE
                                                 ELSE c.d>>
        [] format = "minutes" -> <<c.d, Mark, Blank, c.m, Mark>> \o letter
        [] format = "seconds" -> <<c.d, Mark, Blank, c.m, Mark, Blank, c.s, Mark>> \o letter

FormatPosition(format, lat, lon) ==
  toSDMM(format, lat, TRUE) \o <<Comma, Blank>> \o toSDMM(format, lon, FALSE)
-----------------------------------------------------------------------------
(***************************************************************************)
(* What a coordinate may look like, independently of how the code reads it *)
(* (position_parse.h:26-33, the table of notations in USER_GUIDE.md        *)
(* section 3): its words, and the place it says.  White space and marks    *)
(* are not words.                                                          *)
(***************************************************************************)
Coordinates(is_latitude) ==
  LET letters   == IF is_latitude THEN {"N", "S"} ELSE {"E", "W"}
      side(l)   == IF l \in {"N", "E"} THEN 1 ELSE -1
      magnitude == {n \in Numerals : Value[n] >= 0}
      sixtieth  == {n \in magnitude : Value[n] < 600}
      written   ==
        {[words |-> <<d>>, at |-> 3600 * Value[d]] : d \in Numerals}
        \cup {[words |-> <<d, l>>, at |-> side(l) * 3600 * Value[d]] :
                d \in magnitude, l \in letters}
        \cup {[words |-> <<d, m, l>>, at |-> side(l) * (3600 * Value[d] + 60 * Value[m])] :
                d \in magnitude, m \in sixtieth, l \in letters}
        \cup {[words |-> <<d, m, s, l>>,
               at |-> side(l) * (3600 * Value[d] + 60 * Value[m] + Value[s])] :
                d \in magnitude, m \in sixtieth, s \in sixtieth, l \in letters}
      limit     == 3600 * MaxDegrees(is_latitude)
  IN  {c \in written : -limit <= c.at /\ c.at <= limit}

Latitudes  == Coordinates(TRUE)
Longitudes == Coordinates(FALSE)

Words(s) ==
  LET words[n \in 0..Len(s)] ==
        IF n = 0 THEN <<>>
        ELSE IF s[n] \in White THEN words[n - 1] ELSE Append(words[n - 1], s[n])
  IN  words[Len(s)]

\* The words are a latitude and a longitude, with a comma between them or
\* the latitude's letter.
Follows(lat, lon, words) ==
  \/ words = lat.words \o <<Comma>> \o lon.words
  \/ Last(lat.words) \in {"N", "S"} /\ words = lat.words \o lon.words

Positions(words) ==
  LET begins == {c \in Latitudes : IsPrefix(c.words, words)}
      ends(lat) == {c \in Longitudes : Follows(lat, c, words)}
  IN  UNION {{[lat |-> lat.at, lon |-> lon.at] : lon \in ends(lat)} : lat \in begins}
=============================================================================
