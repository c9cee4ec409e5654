\* Two clients in one session, a ring that wraps; no symmetry, unsound for liveness.
SPECIFICATION FairSpec
CONSTANTS
  Client = {c1, c2}
  MaxTasks = 1
  Tracks = {t1}
  MSG_Q_LENGTH = 3
  MSG_ID_END = MSG_ID_END
  MaxTracks = MaxTracks
  Pitches = {f1}
  Notes <- MCNotes
  Silence = Silence
  Nobody = Nobody
  Destroyed = Destroyed
  SpeakerMayFail = FALSE
  PlayerMayFail = FALSE
INVARIANTS MsgMutexExcludes
PROPERTIES RingIsFifo EndReturns QueueDrains MailboxEmpties
