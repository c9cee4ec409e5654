--------------------------------- MODULE Pwm ---------------------------------
(***************************************************************************)
(* The PWM channel behind Speaker.c and what Speaker_PlayPitch writes to   *)
(* it.  The channel is outside: it refuses a period below its duty cycle,  *)
(* and nothing resets it when a process ends.                              *)
(***************************************************************************)
EXTENDS Integers

CONSTANTS Pitches,    \* frequencies asked for, 0 for silence
          Second      \* a second in the channel's unit, the nanosecond

\* A period rounded down to whole units still tells its frequency.
ASSUME PwmAssumption == /\ Pitches \subseteq Nat
                        /\ 0 \in Pitches
                        /\ Second \in Nat
                        /\ \A f \in Pitches : f * f <= Second /\ 2 * f < Second

VARIABLES CurrentFreq,                  \* the static of Speaker_PlayPitch
          period, duty_cycle, enable    \* the channel

pwmVars   == <<period, duty_cycle, enable>>
pitchVars == <<CurrentFreq, pwmVars>>

\* In whole nanoseconds.  The source divides in floating point and may come out
\* one lower; a period is refused for being near half of another, not for that.
Periodns(f) == Second \div f

\* The frequency the channel is set to, and the one that sounds.
Setting == IF duty_cycle > 0 THEN Second \div period ELSE 0
Tone    == IF enable THEN Setting ELSE 0

\* An earlier process may have left a tone on the channel.
PwmInit == /\ CurrentFreq = 0
           /\ \/ period = 0 /\ duty_cycle = 0 /\ enable = FALSE
              \/ \E f \in Pitches \ {0} : /\ period = Periodns(f)
                                          /\ duty_cycle \in {0, period \div 2}
                                          /\ enable \in BOOLEAN

\* The channel takes a period only if the duty cycle fits in it.
PeriodWritten(p) == IF p >= duty_cycle THEN p ELSE period

\* Mutant: the old duty cycle stays.
DutyOfOld(f) == duty_cycle

DutyOf(f) == IF f = 0 THEN 0 ELSE Periodns(f) \div 2

\* The part of Speaker_PlayPitch that writes: period, duty_cycle and enable in
\* this order, their results dropped, and the pitch is remembered.
WritePitch(f) ==
  /\ CurrentFreq' = f
  /\ period' = IF f = 0 THEN period ELSE PeriodWritten(Periodns(f))
  /\ duty_cycle' = IF DutyOf(f) <= period' THEN DutyOf(f) ELSE duty_cycle
  /\ enable' = (f # 0)

\* Speaker_PlayPitch of an initialised speaker: a pitch that is remembered is
\* not written again.
PlayPitch(f) == IF f = CurrentFreq THEN UNCHANGED pitchVars ELSE WritePitch(f)

PwmTypeOK == /\ CurrentFreq \in Pitches
             /\ period \in 0 .. Second /\ duty_cycle \in 0 .. period
             /\ enable \in BOOLEAN
=============================================================================
