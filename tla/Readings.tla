------------------------------ MODULE Readings ------------------------------
(***************************************************************************)
(* The five readings that come from files of the kernel: Battery.cpp opens *)
(* a file, scans a number or a word, and scales it; the monitors of        *)
(* core.cpp add one to the level, put a decimal point into the voltage and *)
(* the temperature, and choose a colour.  A text is the sequence of its    *)
(* digits, minus and point: where the point goes depends on the length of  *)
(* the numeral.  Units and the health's spelling are left out.             *)
(*                                                                         *)
(* The file is outside: it may be missing, empty, hold no number, or hold  *)
(* a value, and change at any time.                                        *)
(***************************************************************************)
EXTENDS Integers, Sequences, SequencesExt

CONSTANT Holds    \* for each monitor what its file may hold, as the kernel writes it

Monitor == {"current", "voltage", "health", "temp", "level"}
Numeric == Monitor \ {"health"}

\* Nine digits, so that no int overflows.
ASSUME ReadingsAssumption ==
  \A m \in Numeric : \A n \in Holds[m] : n \in Int /\ -(10 ^ 9) < n /\ n + 1 < 10 ^ 9

VARIABLES monitor,        \* which of the five this is
          file, content,  \* whether its file is there and holds something, and what
          pc,
          value,          \* what the reader returns
          scanned,        \* history: <<what was scanned>>, or empty
          text, color     \* the label

fileVars == <<monitor, file, content>>
readVars == <<fileVars, pc, value, scanned, text, color>>

Nothing == <<>>

\* Any word is a health.
FileStates(m) == {"missing", "empty", "holds"} \cup
                 (IF m = "health" THEN {} ELSE {"no number"})

ReadInit == /\ monitor \in Monitor
            /\ file \in FileStates(monitor)
            /\ content \in Holds[monitor]
            /\ pc = "open"
            /\ value = IF monitor = "health" THEN "N/A" ELSE -1
            /\ scanned = Nothing
            /\ text = <<>>
            /\ color = "red"

Goes(from, to) == pc = from /\ pc' = to

FileChanges == /\ file' \in FileStates(monitor)
               /\ content' \in Holds[monitor]
               /\ UNCHANGED <<monitor, pc, value, scanned, text, color>>

-----------------------------------------------------------------------------
\* Truncation of n / d, towards zero.
Truncated(n, d) == IF n < 0 THEN -((-n) \div d) ELSE n \div d

\* Micro-volts become hundredths of a volt, micro-amperes milli-amperes.
Scaled(m, n) == CASE m = "current" -> Truncated(n, 1000)
                  [] m = "voltage" -> Truncated(n, 10000)
                  [] OTHER         -> n

\* Mutant: a file that is not there reads as 0.
FailedZero(m) == IF m = "health" THEN "Error" ELSE 0

Failed(m) == IF m = "health" THEN "Error" ELSE -1

\* The value of a file that is there and gives nothing: -1 is scaled, too.
NotScanned(m) == IF m = "health" THEN "N/A" ELSE Scaled(m, -1)

\* fopen fails: the reader returns at once.
OpenFails == /\ Goes("open", "format")
             /\ file = "missing"
             /\ value' = Failed(monitor)
             /\ scanned' = Nothing
             /\ UNCHANGED <<fileVars, text, color>>

Opens == /\ Goes("open", "scan")
         /\ file # "missing"
         /\ UNCHANGED <<fileVars, value, scanned, text, color>>

\* The file is scanned as it is by now.
Scans ==
  /\ Goes("scan", "format")
  /\ scanned' = IF file = "holds" THEN <<content>> ELSE Nothing
  /\ value' = IF file = "holds" THEN Scaled(monitor, content) ELSE NotScanned(monitor)
  /\ UNCHANGED <<fileVars, text, color>>

\* Only the reader of the level looks at fclose.
CloseFails == /\ Goes("scan", "format")
              /\ monitor = "level"
              /\ value' = -1
              /\ scanned' = Nothing
              /\ UNCHANGED <<fileVars, text, color>>

-----------------------------------------------------------------------------
\* The symbols of a text: the digits, and two more.
Minus == 10
Point == 11

Width(n)   == CHOOSE w \in 1 .. 9 : n < 10 ^ w /\ (w = 1 \/ n >= 10 ^ (w - 1))
Numeral(n) == [i \in 1 .. Width(n) |-> (n \div 10 ^ (Width(n) - i)) % 10]

\* std::to_string.
to_string(n) == IF n < 0 THEN <<Minus>> \o Numeral(-n) ELSE Numeral(n)

\* s.insert(s.length() - k, "."), for a string no shorter than k.
Pointed(s, k) == InsertAt(s, Len(s) - k + 1, Point)

LevelRaised(n) == n + 1

\* Mutant: the temperature with two places.
PlacesTwo(m) == IF m \in {"voltage", "temp"} THEN 2 ELSE 0

\* Mutant: the point one place to the right.
PlacesOff(m) == IF m \in {"voltage", "temp"} THEN 1 ELSE 0

Places(m) == CASE m = "voltage" -> 2 [] m = "temp" -> 1 [] OTHER -> 0

\* The number that a monitor makes a string of.
Number(m, v) == IF m = "level" THEN LevelRaised(v) ELSE v

TextOf(m, v) == IF m = "health" THEN <<v>>
                ELSE IF Places(m) = 0 THEN to_string(Number(m, v))
                ELSE Pointed(to_string(v), Places(m))

\* insert throws out_of_range if the string is too short for its position.
TooShort(m, v) == m \in Numeric /\ Len(to_string(Number(m, v))) < Places(m)

\* The colours, tested in the order of the code.
ColorOf(m, v) ==
  CASE m = "current" -> IF v \in 50 .. 700 THEN "green"
                        ELSE IF v \in 1 .. 849 THEN "orange" ELSE "red"
    [] m = "voltage" -> IF v \in 350 .. 550 THEN "green"
                        ELSE IF v > 560 THEN "orange" ELSE "red"
    [] m = "health"  -> IF v = "Good" THEN "green"
                        ELSE IF v = "Ok" THEN "orange" ELSE "red"
    [] m = "temp"    -> IF v \in 400 .. 500 THEN "green"
                        ELSE IF v > 480 THEN "orange" ELSE "red"
    [] m = "level"   -> IF Number(m, v) >= 75 THEN "green"
                        ELSE IF Number(m, v) >= 25 THEN "orange" ELSE "red"

\* A monitor formats the value and hands it to its label.
Formats == /\ Goes("format", "shown")
           /\ ~TooShort(monitor, value)
           /\ text' = TextOf(monitor, value)
           /\ color' = ColorOf(monitor, value)
           /\ UNCHANGED <<fileVars, value, scanned>>

\* The exception is caught nowhere: the process ends.
Throws == /\ Goes("format", "died")
          /\ TooShort(monitor, value)
          /\ UNCHANGED <<fileVars, value, scanned, text, color>>

\* The next iteration of the monitor.
Again == Goes("shown", "open") /\ UNCHANGED <<fileVars, value, scanned, text, color>>

ReadNext == FileChanges \/ OpenFails \/ Opens \/ Scans \/ CloseFails \/ Formats \/ Throws \/ Again

ReadSpec == ReadInit /\ [][ReadNext]_readVars

-----------------------------------------------------------------------------
\* What a reader of the label takes it for: a minus at the front only, one point
\* at most; the digits, read from the left, as a whole number, and how many are
\* behind the point.
Magnitude(s) ==
  LET read[i \in 0 .. Len(s)] == IF i = 0 THEN 0
                                 ELSE IF s[i] \in 0 .. 9 THEN 10 * read[i - 1] + s[i]
                                 ELSE read[i - 1]
  IN  read[Len(s)]
BehindPoint(s) == IF Contains(s, Point) THEN Len(s) - CHOOSE i \in DOMAIN s : s[i] = Point ELSE 0
WellFormed(s) == /\ \E i \in DOMAIN s : s[i] \in 0 .. 9
                 /\ \A i \in DOMAIN s : s[i] = Minus => i = 1
                 /\ \A i, j \in DOMAIN s : s[i] = Point /\ s[j] = Point => i = j
Meaning(s)    == IF Head(s) = Minus THEN -Magnitude(s) ELSE Magnitude(s)

\* A number that was read is the number shown, cut to the last place: volts with
\* two places, degrees with one, whole milli-amperes, and the level plus one
\* (core.cpp:171, 202, 262, 288).  The reference counts in the file's own unit.
Unit(m)  == CASE m = "current" -> 1000 [] m = "voltage" -> 10000 [] OTHER -> 1
TextTellsValue ==
  pc = "shown" /\ monitor \in Numeric /\ scanned # Nothing =>
    LET shown == Meaning(text) - (IF monitor = "level" THEN 1 ELSE 0)
        rest  == scanned[1] - shown * Unit(monitor)
    IN /\ WellFormed(text)
       /\ BehindPoint(text) = (CASE monitor = "voltage" -> 2 [] monitor = "temp" -> 1 [] OTHER -> 0)
       /\ -Unit(monitor) < rest /\ rest < Unit(monitor)
       /\ IF scanned[1] < 0 THEN rest <= 0 ELSE rest >= 0

\* The process dies only in the voltage's monitor: of a voltage below a tenth of
\* a volt, or of a file that is there and holds no number (core.cpp:202,
\* Battery.cpp:470-477); a missing file is survived.
OnlyLowVoltageDies ==
  pc = "died" => /\ monitor = "voltage"
                 /\ scanned # Nothing => -10000 < scanned[1] /\ scanned[1] < 100000
                 /\ value # -1

\* A reading that failed is red, whichever of the ways it failed and although it
\* goes through the scaling of a number; and for the level, the voltage and the
\* health its text is none that a reading could have: adding one to the level keeps
\* 0% for a failure (core.cpp:202, 207, 288).  The temperature and the current show
\* -1 or 0, which they may also measure.
FailureIsTold ==
  pc = "shown" /\ scanned = Nothing =>
    /\ color = "red"
    /\ monitor \in {"level", "voltage"} =>
         \A n \in Holds[monitor] :
           LET v == Scaled(monitor, n)
           IN TooShort(monitor, v) \/ text # TextOf(monitor, v)
    /\ monitor = "health" => \A w \in Holds["health"] : text # <<w>>
=============================================================================
