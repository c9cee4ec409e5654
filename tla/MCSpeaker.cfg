\* Three callers; pitches an octave apart (1, 2) and further (1, 3).
SPECIFICATION Spec
CONSTANTS
  Caller = {c1, c2, c3}
  Pitches = {0, 1, 2, 3}
  Second = 12
SYMMETRY Interchangeable
INVARIANTS InitedHasPins DrivesLiveLines VolumeAsSet
PROPERTIES ToneFollows DeInitSilences
