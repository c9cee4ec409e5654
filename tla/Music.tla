-------------------------------- MODULE Music --------------------------------
(***************************************************************************)
(* The note tables of Music.h, as the default build compiles them (neither *)
(* NOTE_EQUIVALENT nor REAL_ODE_TO_JOY is defined): for each track the     *)
(* frequencies of its notes and their lengths in turns of the player.      *)
(***************************************************************************)
EXTENDS Integers, Sequences, SequencesExt

\* The NOTE_ macros that the tables use, REST_NOTE among them.
Note == [REST |-> 0,
         C3 |-> 131, E3 |-> 165, G3 |-> 196, A3 |-> 220,
         C4 |-> 262, D4 |-> 294, E4 |-> 330, F4 |-> 349, G4 |-> 392, A4 |-> 440,
         B4 |-> 494, C5 |-> 523, D5 |-> 587, G5 |-> 784, A5 |-> 880, B5 |-> 988]

\* The NOTE_..._HZ macros: the names of 2000 and 2500 are exchanged.
Hz == [n980 |-> 980, n1120 |-> 1120, n1800 |-> 1800,
       n2000 |-> 2500, n2500 |-> 2000, n3200 |-> 3200]

NOTE_SEPARATION == 10
BEAT_TIME       == 300
SIXTEENTH_NOTE  == BEAT_TIME \div 4 - NOTE_SEPARATION

\* n notes of one length, or n times a note and the gap after it.
Even(n, length) == [i \in 1 .. n |-> length]
Spaced(n)       == [i \in 1 .. 2 * n |-> IF i % 2 = 1 THEN SIXTEENTH_NOTE
                                                     ELSE NOTE_SEPARATION]

\* The notes with a rest between each two of them.
Detached(notes) == [i \in 1 .. 2 * Len(notes) - 1 |->
                      IF i % 2 = 1 THEN notes[(i + 1) \div 2] ELSE Note.REST]

Alarm1 == [Melody |-> Detached(<<Note.G4, Note.E4, Note.C4>>) \o <<Note.REST>>,
           Rhythm |-> Spaced(3)]

Alarm2 == [Melody |-> <<Hz.n2500, Hz.n3200, Note.REST, Hz.n2500, Hz.n3200, Note.REST,
                        Hz.n2500, Hz.n3200>>,
           Rhythm |-> <<300, 300, 100, 300, 300, 100, 300, 300>>]

Alert1 == [Melody |-> Detached(<<Note.C3, Note.E3>>) \o <<Note.REST>>,
           Rhythm |-> Spaced(2)]

Alert2 == [Melody |-> Detached(<<Note.C4, Note.E4, Note.G4>>) \o <<Note.REST>>,
           Rhythm |-> Spaced(3)]

BadInput == [Melody |-> <<Note.C3>>, Rhythm |-> <<500>>]

OdeToJoy ==
  [Melody |-> Detached(<<Note.B5, Note.B5, Note.C5, Note.D5, Note.D5, Note.C5, Note.B5,
                         Note.A5, Note.G5, Note.G5, Note.A5, Note.B5, Note.B5, Note.A5,
                         Note.A5>>),
   Rhythm |-> Even(24, 250) \o <<500>> \o Even(4, 250)]

Docked == [Melody |-> <<Hz.n980, Hz.n1120, Hz.n980>>, Rhythm |-> Even(3, 40)]

KeyPress == [Melody |-> <<Hz.n1800>>, Rhythm |-> <<40>>]

Long == [Melody |-> <<Hz.n2000>>, Rhythm |-> <<900>>]

Quick == [Melody |-> <<Hz.n2000>>, Rhythm |-> <<150>>]

QuickThree == [Melody |-> Detached(<<Hz.n2000, Hz.n2000, Hz.n2000>>),
               Rhythm |-> <<150, 600, 150, 600, 150>>]

Scan == [Melody |-> <<Hz.n2500>>, Rhythm |-> <<100>>]

Scale == [Melody |-> <<Note.C4, Note.D4, Note.E4, Note.F4, Note.G4, Note.A4, Note.B4,
                       Note.C5>>,
          Rhythm |-> Even(8, 300)]

Nova == [Melody |-> Detached(<<Note.A3, Note.C3, Note.E3, Note.G3>>) \o <<Note.REST>>,
         Rhythm |-> Spaced(4)]

BootTune == OdeToJoy

\* GetTrack: the table of every track of the enumeration.
Tables == [Scale      |-> Scale,    Alarm1   |-> Alarm1,   Alarm2   |-> Alarm2,
           Alert1     |-> Alert1,   Alert2   |-> Alert2,   BadInput |-> BadInput,
           BootTune   |-> BootTune, Docked   |-> Docked,   KeyPress |-> KeyPress,
           Long       |-> Long,     Quick    |-> Quick,    QuickThree |-> QuickThree,
           Scan       |-> Scan,     Nova     |-> Nova]

\* Every frequency of every table.
AllPitches == {0} \cup UNION {ToSet(Tables[t].Melody) : t \in DOMAIN Tables}
=============================================================================
