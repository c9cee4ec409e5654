------------------------------ MODULE MsgQueue ------------------------------
(***************************************************************************)
(* The message ring of Audio.c: the array MsgQ, the index of its oldest    *)
(* message and the number of messages in it, with the three functions that *)
(* work on them.  Who may call them, and under which lock, is the business *)
(* of module Audio; here they are called in any order.                     *)
(***************************************************************************)
EXTENDS Integers, Sequences

CONSTANTS MSG_Q_LENGTH,   \* slots of the ring
          MSG_ID_END,     \* the message that ends the audio task
          Tracks          \* track ids; MSG_ID_PLAY_TRACK with id t is t itself

ASSUME QueueAssumption == /\ MSG_Q_LENGTH \in Nat \ {0}
                          /\ MSG_ID_END \notin Tracks

Message == Tracks \cup {MSG_ID_END}
Slots   == 0 .. MSG_Q_LENGTH - 1

VARIABLES MsgQ, MsgQLen, TopMsgIndex

queueVars == <<MsgQ, MsgQLen, TopMsgIndex>>

\* The static initialisers; a zeroed message reads as MSG_ID_END.
QueueInit == /\ MsgQ = [i \in Slots |-> MSG_ID_END]
             /\ MsgQLen = 0
             /\ TopMsgIndex = 0

\* InitMessaging empties the ring and leaves the slots as they are.
InitMessaging == /\ MsgQLen' = 0
                 /\ TopMsgIndex' = 0
                 /\ UNCHANGED MsgQ

QueueFull == MsgQLen >= MSG_Q_LENGTH

\* Mutant: one slot past the first free one.
WriteIndexOff == (TopMsgIndex + MsgQLen + 1) % MSG_Q_LENGTH

WriteIndex == (TopMsgIndex + MsgQLen) % MSG_Q_LENGTH

\* Mutant: the length is not checked.
SendMessageUnchecked(m) == /\ MsgQ' = [MsgQ EXCEPT ![WriteIndex] = m]
                           /\ MsgQLen' = MsgQLen + 1
                           /\ UNCHANGED TopMsgIndex

\* SendMessage between its lock and unlock; a full ring refuses the message.
SendMessage(m) == IF QueueFull
                  THEN UNCHANGED queueVars
                  ELSE /\ MsgQ' = [MsgQ EXCEPT ![WriteIndex] = m]
                       /\ MsgQLen' = MsgQLen + 1
                       /\ UNCHANGED TopMsgIndex

TopMessage == MsgQ[TopMsgIndex]

NextTop == (TopMsgIndex + 1) % MSG_Q_LENGTH

\* GetMessage when it succeeds: TopMessage is copied out and its slot freed.
GetMessage == /\ MsgQLen >= 1
              /\ TopMsgIndex' = NextTop
              /\ MsgQLen' = MsgQLen - 1
              /\ UNCHANGED MsgQ

\* Audio_end zeroes the count and nothing else.
DropMessages == /\ MsgQLen' = 0
                /\ UNCHANGED <<MsgQ, TopMsgIndex>>

\* The same store while SendMessage(m) is past its test and has reckoned its slot
\* but not yet counted the message.
DropMessagesRaced(m) == /\ ~QueueFull
                        /\ MsgQ' = [MsgQ EXCEPT ![WriteIndex] = m]
                        /\ MsgQLen' = 1
                        /\ UNCHANGED TopMsgIndex

\* The slot of a sender that loads the index and the count each before or after
\* InitMessaging zeroes it.
RacedIndex == {(top + len) % MSG_Q_LENGTH : top \in {0, TopMsgIndex}, len \in {0, MsgQLen}}

\* InitMessaging while SendMessage(m) is past its test: its count is stored over
\* the zero, or is one.  This happens to a mutex made anew, and breaks the ring.
InitMessagingRaced(m) == /\ ~QueueFull
                         /\ \E i \in RacedIndex : MsgQ' = [MsgQ EXCEPT ![i] = m]
                         /\ MsgQLen' \in {1, MsgQLen + 1}
                         /\ TopMsgIndex' = 0

\* What happens to the ring while MsgMutex excludes.
QueueNext == \/ InitMessaging
             \/ \E m \in Message : SendMessage(m) \/ DropMessagesRaced(m)
             \/ GetMessage
             \/ DropMessages

QueueSpec == QueueInit /\ [][QueueNext]_queueVars

-----------------------------------------------------------------------------
\* The indices stay inside the array and the count within its size.
QueueTypeOK == /\ MsgQ \in [Slots -> Message]
               /\ MsgQLen \in 0 .. MSG_Q_LENGTH
               /\ TopMsgIndex \in Slots

\* The queued messages, oldest first: the refinement mapping to Fifo.
Contents == [i \in 1 .. MsgQLen |-> MsgQ[(TopMsgIndex + i - 1) % MSG_Q_LENGTH]]

Promise == INSTANCE Fifo WITH Capacity <- MSG_Q_LENGTH, fifo <- Contents

\* The ring of Audio.c:545-582 behaves as a bounded FIFO: wrapping around the
\* array never reorders, overwrites, repeats or skips a message.  Zeroing the
\* count with no lock (Audio.c:235) empties it but for one message at most.
RingIsFifo == Promise!FifoSpec
=============================================================================
