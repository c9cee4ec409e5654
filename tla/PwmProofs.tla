----------------------------- MODULE PwmProofs -----------------------------
(***************************************************************************)
(* Lemmas about the PWM channel, for any pitches and any clock that tells  *)
(* them apart: what a write leaves in it, and when the tone is right.      *)
(***************************************************************************)
EXTENDS Pwm, TLAPS

\* The duty cycle is at most half of the period, also when the period was
\* refused.
PwmInv ==
  /\ CurrentFreq \in Pitches
  /\ period \in 0 .. Second
  /\ duty_cycle \in Nat
  /\ 2 * duty_cycle <= period

\* A period is no longer than that of frequency 1, a duty cycle half of it.
LEMMA PeriodInRange ==
  ASSUME NEW f \in Pitches, f # 0
  PROVE  /\ Periodns(f) \in 0 .. Second
         /\ Periodns(f) \div 2 \in Nat
         /\ 2 * (Periodns(f) \div 2) <= Periodns(f)
  <1>1. f \in Nat /\ Second \in Nat /\ f >= 1
    BY PwmAssumption
  <1>2. Second \div f \in 0 .. Second
    BY <1>1, Z3T(30)
  <1> QED  BY <1>1, <1>2 DEF Periodns

\* A period rounded down, turned back into a frequency, is the pitch.
LEMMA PitchOfPeriod ==
  ASSUME NEW f \in Pitches, f # 0
  PROVE  /\ Second \div Periodns(f) = f
         /\ Periodns(f) \div 2 > 0
  <1> DEFINE k == Second \div f
             r == Second % f
  <1>1. f \in Nat \ {0} /\ Second \in Nat /\ f * f <= Second /\ 2 * f < Second
    BY PwmAssumption
  <1>2. k \in Nat /\ r \in Nat /\ r < f /\ Second = f * k + r
    BY <1>1, Z3T(30)
  <1> HIDE DEF k, r
  <1>3. k >= f
    <2> SUFFICES ASSUME k + 1 <= f PROVE FALSE
      BY <1>1, <1>2
    <2>1. f * (k + 1) <= f * f
      BY <1>1, <1>2, Z3T(30)
    <2>2. f * (k + 1) = f * k + f
      BY <1>1, <1>2, Z3T(30)
    <2> QED  BY <1>1, <1>2, <2>1, <2>2, Z3T(30)
  <1>4. k >= 2
    <2> SUFFICES ASSUME k <= 1 PROVE FALSE
      BY <1>2
    <2>1. f * k <= f
      BY <1>1, <1>2, Z3T(30)
    <2> QED  BY <1>1, <1>2, <2>1
  <1>5. Second \div k = f
    <2>1. r < k /\ Second = k * f + r
      BY <1>1, <1>2, <1>3, Z3T(30)
    <2> QED  BY <1>1, <1>2, <1>4, <2>1, Z3T(30)
  <1>6. k \div 2 > 0
    BY <1>2, <1>4, Z3T(30)
  <1> QED  BY <1>5, <1>6 DEF k, Periodns

\* A duty cycle of at most half its period fits in the period of any pitch up
\* to an octave above.
LEMMA OctaveFits ==
  ASSUME NEW f \in Nat \ {0}, NEW s \in Nat, NEW p \in Nat \ {0}, NEW d \in Nat,
         2 * d <= p, f <= 2 * (s \div p)
  PROVE  d <= s \div f
  <1> DEFINE t == s \div p
  <1>1. t \in Nat /\ p * t <= s
    BY Z3T(30)
  <1> HIDE DEF t
  <1>2. d * f <= d * (2 * t)
    BY <1>1, Z3T(30) DEF t
  <1>3. d * (2 * t) = (2 * d) * t
    BY <1>1, Z3T(30)
  <1>4. (2 * d) * t <= p * t
    BY <1>1, Z3T(30)
  <1>5. d * f \in Nat /\ d * (2 * t) \in Nat /\ p * t \in Nat
    BY <1>1, Z3T(30)
  <1>6. d * f <= s
    BY <1>1, <1>2, <1>3, <1>4, <1>5
  <1> QED  BY <1>6, Z3T(30)

\* The channel starts well, whatever an earlier process left on it.
LEMMA PwmInitInv == PwmInit => PwmInv
  <1> SUFFICES ASSUME PwmInit PROVE PwmInv
    OBVIOUS
  <1>1. CurrentFreq \in Pitches /\ Second \in Nat
    BY PwmAssumption DEF PwmInit
  <1>2. period \in 0 .. Second /\ duty_cycle \in Nat /\ 2 * duty_cycle <= period
    <2>1. CASE period = 0 /\ duty_cycle = 0 /\ enable = FALSE
      BY <1>1, <2>1
    <2>2. CASE \E f \in Pitches \ {0} : /\ period = Periodns(f)
                                        /\ duty_cycle \in {0, period \div 2}
                                        /\ enable \in BOOLEAN
      BY <1>1, <2>2, PeriodInRange
    <2> QED  BY <2>1, <2>2 DEF PwmInit
  <1> QED  BY <1>1, <1>2 DEF PwmInv

\* A write, refused in part or not, keeps the channel well.
LEMMA WritePitchInv ==
  ASSUME PwmInv, NEW f \in Pitches, WritePitch(f)
  PROVE  PwmInv'
  <1>1. CurrentFreq' \in Pitches
    BY DEF WritePitch
  <1>2. /\ period' \in 0 .. Second
        /\ duty_cycle' \in Nat
        /\ 2 * duty_cycle' <= period'
    BY PwmAssumption, PeriodInRange DEF PwmInv, WritePitch, DutyOf, PeriodWritten
  <1> QED  BY <1>1, <1>2 DEF PwmInv

\* A pitch written over silence, or over a tone at most an octave below it,
\* sounds (Speaker.c:151-164).
LEMMA PitchSounds ==
  ASSUME PwmInv, NEW f \in Pitches, WritePitch(f),
         duty_cycle = 0 \/ f = 0 \/ f <= 2 * Setting
  PROVE  /\ Tone' = f
         /\ f # 0 => Setting' = f /\ enable'
         /\ f = 0 => duty_cycle' = 0 /\ ~enable'
  <1>1. CASE f = 0
    <2>1. enable' = FALSE
      BY <1>1 DEF WritePitch
    <2>2. period' = period /\ period \in Nat
      BY <1>1, PwmAssumption DEF WritePitch, PwmInv
    <2>3. duty_cycle' = 0
      BY <1>1, <2>2 DEF WritePitch, DutyOf
    <2> QED  BY <1>1, <2>1, <2>3 DEF Tone
  <1>2. CASE f # 0
    <2>1. f \in Nat \ {0} /\ Second \in Nat
      BY <1>2, PwmAssumption
    <2>2. Periodns(f) \in Nat /\ Periodns(f) \div 2 \in Nat /\ Periodns(f) \div 2 > 0
          /\ Periodns(f) \div 2 <= Periodns(f)
      BY <1>2, <2>1, PeriodInRange, PitchOfPeriod
    <2>3. duty_cycle <= Periodns(f)
      <3>1. CASE duty_cycle = 0
        BY <3>1, <2>2
      <3>2. CASE duty_cycle # 0
        <4>1. period \in Nat \ {0} /\ duty_cycle \in Nat /\ 2 * duty_cycle <= period
          BY <3>2, <2>1 DEF PwmInv
        <4>2. Setting = Second \div period
          BY <3>2, <4>1 DEF Setting
        <4>3. f <= 2 * (Second \div period)
          BY <1>2, <3>2, <4>2
        <4> QED  BY <4>1, <4>3, <2>1, OctaveFits DEF Periodns
      <3> QED  BY <3>1, <3>2
    <2>4. period' = Periodns(f)
      BY <1>2, <2>2, <2>3 DEF WritePitch, PeriodWritten, PwmInv
    <2>5. duty_cycle' = Periodns(f) \div 2
      BY <1>2, <2>2, <2>4 DEF WritePitch, DutyOf
    <2>6. enable' = TRUE
      BY <1>2 DEF WritePitch
    <2>7. Setting' = f
      BY <1>2, <2>2, <2>4, <2>5, PitchOfPeriod DEF Setting
    <2> QED  BY <1>2, <2>6, <2>7 DEF Tone
  <1> QED  BY <1>1, <1>2

\* A channel with a duty cycle has a setting.
LEMMA SettingInRange ==
  ASSUME PwmInv
  PROVE  /\ Setting \in Nat
         /\ Setting # 0 <=> duty_cycle > 0
  <1>1. CASE duty_cycle = 0
    BY <1>1 DEF Setting
  <1>2. CASE duty_cycle # 0
    <2>1. duty_cycle > 0 /\ period \in Nat \ {0} /\ period <= Second /\ Second \in Nat
      BY <1>2, PwmAssumption DEF PwmInv
    <2>2. Second \div period \in Nat \ {0}
      BY <2>1, Z3T(30)
    <2> QED  BY <2>1, <2>2 DEF Setting
  <1> QED  BY <1>1, <1>2

\* A pitch that is written sounds, or else it is more than an octave above the
\* setting and leaves that as it was (Speaker.c:151-164).
LEMMA PitchWritten ==
  ASSUME PwmInv, NEW f \in Pitches, f # 0, WritePitch(f)
  PROVE  /\ enable' = TRUE
         /\ \/ Setting' = f
            \/ Setting # 0 /\ f > 2 * Setting /\ Setting' = Setting
         /\ duty_cycle = 0 => Setting' = f
  <1>1. f \in Nat /\ enable' = TRUE
    BY PwmAssumption DEF WritePitch
  <1>2. CASE duty_cycle = 0 \/ f <= 2 * Setting
    BY <1>1, <1>2, PitchSounds
  <1>3. CASE duty_cycle # 0 /\ ~(f <= 2 * Setting)
    <2>1. /\ Setting \in Nat /\ Setting # 0 /\ f > 2 * Setting
          /\ Setting = Second \div period
      BY <1>1, <1>3, SettingInRange DEF PwmInv, Setting
    <2>2. Periodns(f) \in Nat /\ Periodns(f) \div 2 \in Nat /\ Periodns(f) \div 2 > 0
          /\ Periodns(f) \div 2 <= Periodns(f)
      BY PwmAssumption, PeriodInRange, PitchOfPeriod
    <2>3. CASE Periodns(f) >= duty_cycle
      <3>1. period' = Periodns(f) /\ duty_cycle' = Periodns(f) \div 2
        BY <2>2, <2>3 DEF WritePitch, PeriodWritten, DutyOf
      <3>2. Setting' = f
        BY <2>2, <3>1, PitchOfPeriod DEF Setting
      <3> QED  BY <1>1, <1>3, <3>2
    <2>4. CASE ~(Periodns(f) >= duty_cycle)
      <3>1. period' = period /\ duty_cycle' = Periodns(f) \div 2
        BY <2>2, <2>4 DEF WritePitch, PeriodWritten, DutyOf, PwmInv
      <3>2. Setting' = Setting
        BY <2>1, <2>2, <3>1 DEF Setting
      <3> QED  BY <1>1, <1>3, <2>1, <3>2
    <2> QED  BY <2>3, <2>4
  <1> QED  BY <1>2, <1>3 DEF PwmInv
=============================================================================
