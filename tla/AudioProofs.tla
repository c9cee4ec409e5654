---------------------------- MODULE AudioProofs ----------------------------
(***************************************************************************)
(* The ring of Audio.c implements a bounded FIFO, for every ring size and  *)
(* every set of tracks.  Then, for the service that is built on it: type   *)
(* correctness, and the inductive invariant that ties MyState and the two  *)
(* mutexes to the places of clients and tasks, so that Audio_end goes      *)
(* through.  On top of it, that MsgMutex excludes until it is made anew    *)
(* while a thread holds it, and outlives every task but such a one.  With  *)
(* the places of the players added, what holds unless a task is born too   *)
(* early or that happened: one voice, a service that runs when it says so, *)
(* a clean slate, no note skipped.  Last, from all of these, that the      *)
(* service implements Jukebox.  All of it for any number of clients, tasks *)
(* and tracks and any ring size, and whatever calls fail.                  *)
(***************************************************************************)
EXTENDS Audio, SequenceTheorems, TLAPS

-----------------------------------------------------------------------------
\* The ring by itself, in any program that calls its operations.

\* One wrap of the ring: below twice the length, % subtracts it at most once.
LEMMA ModWrap ==
  ASSUME NEW x \in Nat, x < 2 * MSG_Q_LENGTH
  PROVE  x % MSG_Q_LENGTH = IF x < MSG_Q_LENGTH THEN x ELSE x - MSG_Q_LENGTH
<1> USE QueueAssumption
<1>1. CASE x < MSG_Q_LENGTH
  BY <1>1
<1>2. CASE x >= MSG_Q_LENGTH
  BY <1>2
<1>3. QED
  BY <1>1, <1>2

\* The slot of the k-th queued message (counted from 0) is a slot, and two of
\* them within one turn of the ring differ.
LEMMA SlotsApart ==
  ASSUME NEW top \in Slots, NEW j \in Slots, NEW k \in Slots, j # k
  PROVE  /\ (top + j) % MSG_Q_LENGTH \in Slots
         /\ (top + j) % MSG_Q_LENGTH # (top + k) % MSG_Q_LENGTH
<1> USE QueueAssumption DEF Slots
<1>1. (top + j) % MSG_Q_LENGTH =
        IF top + j < MSG_Q_LENGTH THEN top + j ELSE top + j - MSG_Q_LENGTH
  BY ModWrap
<1>2. (top + k) % MSG_Q_LENGTH =
        IF top + k < MSG_Q_LENGTH THEN top + k ELSE top + k - MSG_Q_LENGTH
  BY ModWrap
<1>3. QED
  BY <1>1, <1>2

\* Advancing the top by one slot renumbers the messages behind it.
LEMMA NextSlot ==
  ASSUME NEW top \in Slots, NEW j \in Slots, j + 1 \in Slots
  PROVE  (((top + 1) % MSG_Q_LENGTH) + j) % MSG_Q_LENGTH = (top + j + 1) % MSG_Q_LENGTH
<1> USE QueueAssumption DEF Slots
<1>1. (top + 1) % MSG_Q_LENGTH =
        IF top + 1 < MSG_Q_LENGTH THEN top + 1 ELSE top + 1 - MSG_Q_LENGTH
  BY ModWrap
<1> DEFINE top2 == (top + 1) % MSG_Q_LENGTH
<1>2. top2 \in Nat /\ top2 < MSG_Q_LENGTH
  BY <1>1
<1>3. (top2 + j) % MSG_Q_LENGTH =
        IF top2 + j < MSG_Q_LENGTH THEN top2 + j ELSE top2 + j - MSG_Q_LENGTH
  <2> HIDE DEF top2
  <2> QED BY <1>2, ModWrap
<1>4. (top + j + 1) % MSG_Q_LENGTH =
        IF top + j + 1 < MSG_Q_LENGTH THEN top + j + 1 ELSE top + j + 1 - MSG_Q_LENGTH
  BY ModWrap
<1>5. QED
  BY <1>1, <1>3, <1>4

-----------------------------------------------------------------------------
\* Every operation of Audio.c:528-582 keeps the indices inside the array.
LEMMA QueueTypeStep == QueueTypeOK /\ [QueueNext]_queueVars => QueueTypeOK'
<1> USE QueueAssumption DEF QueueTypeOK, Slots
<1> SUFFICES ASSUME QueueTypeOK, [QueueNext]_queueVars PROVE QueueTypeOK'
  OBVIOUS
<1>1. CASE InitMessaging
  BY <1>1 DEF InitMessaging
<1>2. ASSUME NEW m \in Message, SendMessage(m) PROVE QueueTypeOK'
  <2>1. CASE QueueFull
    BY <1>2, <2>1 DEF SendMessage, queueVars
  <2>2. CASE ~QueueFull
    <3>1. MsgQLen' = MsgQLen + 1 /\ TopMsgIndex' = TopMsgIndex
      BY <1>2, <2>2 DEF SendMessage
    <3>2. MsgQ' = [MsgQ EXCEPT ![WriteIndex] = m]
      BY <1>2, <2>2 DEF SendMessage
    <3>3. MsgQ' \in [Slots -> Message]
      BY <3>2
    <3>4. QED
      BY <2>2, <3>1, <3>3 DEF QueueFull
  <2>3. QED
    BY <2>1, <2>2
<1>3. CASE GetMessage
  <2>1. NextTop \in Slots
    BY ModWrap DEF NextTop
  <2>2. QED
    BY <1>3, <2>1 DEF GetMessage
<1>4. CASE DropMessages
  BY <1>4 DEF DropMessages
<1>5. CASE UNCHANGED queueVars
  BY <1>5 DEF queueVars
<1>6. ASSUME NEW m \in Message, DropMessagesRaced(m) PROVE QueueTypeOK'
  <2>1. MsgQLen' \in 0 .. MSG_Q_LENGTH /\ TopMsgIndex' \in Slots
    BY <1>6 DEF DropMessagesRaced
  <2>2. MsgQ' = [MsgQ EXCEPT ![WriteIndex] = m]
    BY <1>6 DEF DropMessagesRaced
  <2>3. MsgQ' \in [Slots -> Message]
    BY <2>2
  <2>4. QED
    BY <2>1, <2>3
<1>7. QED
  BY <1>1, <1>2, <1>3, <1>4, <1>5, <1>6 DEF QueueNext

\* So do the two stores of Audio_init when a sender races them.
LEMMA RacedType ==
  ASSUME QueueTypeOK, NEW m \in Message, InitMessagingRaced(m)
  PROVE  QueueTypeOK'
<1> USE QueueAssumption DEF QueueTypeOK, Slots
<1>1. MsgQLen' \in 0 .. MSG_Q_LENGTH /\ TopMsgIndex' \in Slots
  BY DEF InitMessagingRaced, QueueFull
<1>2. PICK i \in RacedIndex : MsgQ' = [MsgQ EXCEPT ![i] = m]
  BY DEF InitMessagingRaced
<1>3. MsgQ' \in [Slots -> Message]
  BY <1>2
<1>4. QED
  BY <1>1, <1>3

\* The indices of the ring stay inside the array and its count within the
\* array's size, whatever the order of the calls (Audio.c:528-582).
THEOREM QueueTypeCorrect == QueueSpec => []QueueTypeOK
<1>1. QueueInit => QueueTypeOK
  BY QueueAssumption DEF QueueInit, QueueTypeOK, Slots, Message
<1>2. QED
  BY <1>1, QueueTypeStep, PTL DEF QueueSpec

-----------------------------------------------------------------------------
\* The refinement mapping yields a sequence of messages.
LEMMA ContentsType ==
  QueueTypeOK => Contents \in Seq(Message) /\ Len(Contents) = MsgQLen
<1> SUFFICES ASSUME QueueTypeOK
             PROVE  Contents \in Seq(Message) /\ Len(Contents) = MsgQLen
  OBVIOUS
<1>1. ASSUME NEW i \in 1 .. MsgQLen
      PROVE  (TopMsgIndex + i - 1) % MSG_Q_LENGTH \in Slots
  BY <1>1, QueueAssumption, ModWrap DEF QueueTypeOK, Slots
<1>2. Contents \in [1 .. MsgQLen -> Message]
  BY <1>1 DEF Contents, QueueTypeOK
<1>3. MsgQLen \in Nat
  BY DEF QueueTypeOK
<1>4. QED
  BY <1>2, <1>3 DEF Contents

\* A message accepted by SendMessage joins at the back.
LEMMA SendAppends ==
  ASSUME QueueTypeOK, NEW m \in Message, SendMessage(m), ~QueueFull
  PROVE  Contents' = Append(Contents, m)
<1> USE QueueAssumption
<1>1. /\ MsgQLen' = MsgQLen + 1 /\ TopMsgIndex' = TopMsgIndex
      /\ MsgQ' = [MsgQ EXCEPT ![WriteIndex] = m]
  BY DEF SendMessage
<1>2. MsgQLen \in Slots /\ TopMsgIndex \in Slots /\ MsgQLen \in Nat
  BY DEF QueueFull, QueueTypeOK, Slots
<1>3. WriteIndex \in Slots
  BY <1>2, ModWrap DEF WriteIndex, Slots
<1>4. ASSUME NEW i \in 1 .. MsgQLen
      PROVE  MsgQ'[(TopMsgIndex + i - 1) % MSG_Q_LENGTH] = Contents[i]
  <2>1. i - 1 \in Slots /\ i - 1 # MsgQLen
    BY <1>2, <1>4 DEF Slots
  <2>2. TopMsgIndex + i - 1 = TopMsgIndex + (i - 1)
    BY <1>2, <1>4 DEF Slots
  <2>3. /\ (TopMsgIndex + i - 1) % MSG_Q_LENGTH \in Slots
        /\ (TopMsgIndex + i - 1) % MSG_Q_LENGTH # WriteIndex
    BY <1>2, <2>1, <2>2, SlotsApart DEF WriteIndex
  <2>4. QED
    BY <1>1, <1>4, <2>3 DEF QueueTypeOK, Contents
<1>5. MsgQ'[(TopMsgIndex + (MsgQLen + 1) - 1) % MSG_Q_LENGTH] = m
  <2>1. TopMsgIndex + (MsgQLen + 1) - 1 = TopMsgIndex + MsgQLen
    BY <1>2 DEF Slots
  <2>2. QED
    BY <1>1, <1>3, <2>1 DEF QueueTypeOK, WriteIndex
<1>6. Contents' = [i \in 1 .. MsgQLen + 1 |-> MsgQ'[(TopMsgIndex + i - 1) % MSG_Q_LENGTH]]
  BY <1>1 DEF Contents
<1>7. Contents \in Seq(Message) /\ Len(Contents) = MsgQLen
  BY ContentsType
<1>8. \A i \in 1 .. MsgQLen : Contents'[i] = Contents[i]
  BY <1>2, <1>4, <1>6
<1>9. Contents'[MsgQLen + 1] = m
  BY <1>2, <1>5, <1>6
<1>10. \A i \in 1 .. MsgQLen + 1 : Contents'[i] = Append(Contents, m)[i]
  BY <1>2, <1>7, <1>8, <1>9, AppendProperties
<1>11. \A i \in 1 .. MsgQLen + 1 : Append(Contents, m)[i] \in Message
  BY <1>2, <1>7, AppendProperties, ElementOfSeq
<1>12. Contents' \in [1 .. MsgQLen + 1 -> Message]
  BY <1>6, <1>10, <1>11
<1>13. Contents' \in Seq(Message) /\ Len(Contents') = MsgQLen + 1
  BY <1>2, <1>12
<1>14. Append(Contents, m) \in Seq(Message) /\ Len(Append(Contents, m)) = MsgQLen + 1
  BY <1>7, AppendProperties
<1>15. QED
  BY <1>10, <1>13, <1>14, SeqEqual

\* A message copied out by GetMessage is the oldest, and the rest keep order.
LEMMA GetTakes ==
  ASSUME QueueTypeOK, GetMessage
  PROVE  /\ Contents # <<>>
         /\ TopMessage = Head(Contents)
         /\ Contents' = Tail(Contents)
<1> USE QueueAssumption
<1>1. MsgQLen' = MsgQLen - 1 /\ TopMsgIndex' = NextTop /\ MsgQ' = MsgQ /\ MsgQLen >= 1
  BY DEF GetMessage
<1>2. TopMsgIndex \in Slots /\ MsgQLen \in Nat /\ MsgQLen <= MSG_Q_LENGTH
  BY DEF QueueTypeOK
<1>3. Contents \in Seq(Message) /\ Len(Contents) = MsgQLen
  BY ContentsType
<1>4. Contents[1] = TopMessage
  <2>1. (TopMsgIndex + 1 - 1) % MSG_Q_LENGTH = TopMsgIndex
    BY <1>2, ModWrap DEF Slots
  <2>2. QED
    BY <1>1, <1>2, <2>1 DEF Contents, TopMessage
<1>5. ASSUME NEW i \in 1 .. MsgQLen - 1
      PROVE  MsgQ[(NextTop + i - 1) % MSG_Q_LENGTH] = Contents[i + 1]
  <2>1. i - 1 \in Slots /\ (i - 1) + 1 \in Slots
    BY <1>2, <1>5 DEF Slots
  <2>2. (NextTop + (i - 1)) % MSG_Q_LENGTH = (TopMsgIndex + (i - 1) + 1) % MSG_Q_LENGTH
    BY <1>2, <2>1, NextSlot DEF NextTop
  <2>3. NextTop \in Slots
    BY <1>2, ModWrap DEF NextTop, Slots
  <2>4. /\ NextTop + (i - 1) = NextTop + i - 1
        /\ TopMsgIndex + (i - 1) + 1 = TopMsgIndex + (i + 1) - 1
    BY <1>2, <1>5, <2>3 DEF Slots
  <2>5. i + 1 \in 1 .. MsgQLen
    BY <1>2, <1>5
  <2>6. QED
    BY <2>2, <2>4, <2>5 DEF Contents
<1>6. Contents' = [i \in 1 .. MsgQLen - 1 |-> MsgQ[(NextTop + i - 1) % MSG_Q_LENGTH]]
  BY <1>1 DEF Contents
<1>7. Contents # <<>>
  BY <1>1, <1>3
<1>8. /\ Tail(Contents) \in Seq(Message) /\ Len(Tail(Contents)) = MsgQLen - 1
      /\ \A i \in 1 .. MsgQLen - 1 : Tail(Contents)[i] = Contents[i + 1]
  BY <1>3, <1>7, HeadTailProperties
<1>9. \A i \in 1 .. MsgQLen - 1 : Contents'[i] = Tail(Contents)[i]
  BY <1>5, <1>6, <1>8
<1>10. \A i \in 1 .. MsgQLen - 1 : Tail(Contents)[i] \in Message
  BY <1>8, ElementOfSeq
<1>11. Contents' \in [1 .. MsgQLen - 1 -> Message]
  BY <1>6, <1>9, <1>10
<1>12. Contents' \in Seq(Message) /\ Len(Contents') = MsgQLen - 1
  BY <1>1, <1>2, <1>11
<1>13. Contents' = Tail(Contents)
  BY <1>8, <1>9, <1>12, SeqEqual
<1>14. QED
  BY <1>3, <1>4, <1>7, <1>13

\* Emptying the count empties the queue.
LEMMA ZeroIsEmpty == ASSUME MsgQLen = 0 PROVE Contents = <<>>
  BY DEF Contents

\* An empty ring is a forgotten one.
LEMMA ForgetsAll == ASSUME QueueTypeOK, Contents' = <<>> PROVE Promise!Clear
<1>1. Contents \in Seq(Message)
  BY ContentsType
<1>2. Len(Contents) \in Nat /\ SubSeq(Contents, 1, 0) = <<>>
  BY <1>1
<1>3. QED
  BY <1>2 DEF Promise!Clear

\* What a raced reset leaves: the oldest message, or the one just written.
LEMMA RacedContents ==
  ASSUME QueueTypeOK, NEW m \in Message, DropMessagesRaced(m)
  PROVE  /\ MsgQLen = 0 => Contents = <<>> /\ Contents' = <<m>>
         /\ MsgQLen > 0 => Contents' = SubSeq(Contents, 1, 1) /\ Contents' = <<Head(Contents)>>
<1> USE QueueAssumption DEF Slots, QueueTypeOK
<1>1. /\ MsgQLen \in 0 .. MSG_Q_LENGTH - 1 /\ MsgQLen' = 1
      /\ TopMsgIndex \in Slots /\ TopMsgIndex' = TopMsgIndex
      /\ MsgQ' = [MsgQ EXCEPT ![WriteIndex] = m]
  BY DEF DropMessagesRaced, QueueFull
<1>2. TopMsgIndex % MSG_Q_LENGTH = TopMsgIndex
  BY <1>1, ModWrap
<1>3. Contents' = <<MsgQ'[TopMsgIndex]>>
  <2>1. Contents' = [i \in 1 .. 1 |-> MsgQ'[(TopMsgIndex + i - 1) % MSG_Q_LENGTH]]
    BY <1>1 DEF Contents
  <2>2. \A i \in 1 .. 1 : (TopMsgIndex + i - 1) % MSG_Q_LENGTH = TopMsgIndex
    BY <1>1, <1>2
  <2>3. QED
    BY <2>1, <2>2
<1>4. CASE MsgQLen = 0
  <2>1. WriteIndex = TopMsgIndex
    BY <1>1, <1>2, <1>4 DEF WriteIndex
  <2>2. MsgQ'[TopMsgIndex] = m
    BY <1>1, <2>1
  <2>3. QED
    BY <1>3, <1>4, <2>2, ZeroIsEmpty
<1>5. CASE MsgQLen > 0
  <2>1. WriteIndex # TopMsgIndex
    <3>1. 0 \in Slots /\ MsgQLen \in Slots /\ 0 # MsgQLen
      BY <1>1, <1>5
    <3>2. (TopMsgIndex + 0) % MSG_Q_LENGTH # (TopMsgIndex + MsgQLen) % MSG_Q_LENGTH
      BY <1>1, <3>1, SlotsApart
    <3>3. QED
      BY <1>1, <1>2, <3>2 DEF WriteIndex
  <2>2. MsgQ'[TopMsgIndex] = MsgQ[TopMsgIndex]
    BY <1>1, <2>1
  <2>3. Contents \in Seq(Message) /\ Len(Contents) = MsgQLen
    BY ContentsType
  <2>4. Contents[1] = MsgQ[TopMsgIndex]
    BY <1>1, <1>2, <1>5 DEF Contents
  <2>5. SubSeq(Contents, 1, 1) = <<Contents[1]>>
    <3>1. /\ SubSeq(Contents, 1, 1) \in Seq(Message) /\ Len(SubSeq(Contents, 1, 1)) = 1
          /\ SubSeq(Contents, 1, 1)[1] = Contents[1]
      BY <1>1, <1>5, <2>3
    <3>2. <<Contents[1]>> \in Seq(Message)
      BY <1>5, <2>3
    <3>3. QED
      BY <3>1, <3>2, SeqEqual
  <2>6. Contents' = SubSeq(Contents, 1, 1) /\ Contents' = <<Contents[1]>>
    BY <1>3, <2>2, <2>4, <2>5
  <2>7. Head(Contents) = Contents[1]
    BY <1>5, <2>3
  <2>8. Contents' = <<Head(Contents)>>
    BY <2>6, <2>7, Zenon
  <2>9. MsgQLen # 0
    BY <1>5
  <2>10. QED
    BY <2>6, <2>8, <2>9
<1>6. QED
  BY <1>1, <1>4, <1>5

LEMMA RacedDrop ==
  ASSUME QueueTypeOK, NEW m \in Message, DropMessagesRaced(m)
  PROVE  Promise!Put(m) \/ Promise!Clear
<1>1. MsgQLen \in Nat
  BY DEF QueueTypeOK
<1>2. CASE MsgQLen = 0
  <2>1. Contents = <<>> /\ Contents' = <<m>>
    BY <1>2, RacedContents
  <2>2. QED
    BY <2>1, QueueAssumption DEF Promise!Put
<1>3. CASE MsgQLen > 0
  <2>1. Len(Contents) = MsgQLen
    BY ContentsType
  <2>2. QED
    BY <1>1, <1>3, <2>1, RacedContents DEF Promise!Clear
<1>4. QED
  BY <1>1, <1>2, <1>3

\* The ring of Audio.c:528-582 implements the bounded FIFO of module Fifo: no
\* wrap-around ever reorders, overwrites, repeats or skips a message.
THEOREM RingImplementsFifo == QueueSpec => RingIsFifo
<1>1. QueueInit => Promise!FifoInit
  BY ZeroIsEmpty DEF QueueInit, Promise!FifoInit
<1>2. QueueTypeOK /\ [QueueNext]_queueVars => [Promise!FifoNext]_Contents
  <2> SUFFICES ASSUME QueueTypeOK, [QueueNext]_queueVars
               PROVE  Promise!FifoNext \/ UNCHANGED Contents
    OBVIOUS
  <2>1. CASE InitMessaging
    <3>1. MsgQLen' = 0
      BY <2>1 DEF InitMessaging
    <3>2. Contents' = <<>>
      BY <3>1 DEF Contents
    <3>3. QED
      BY <3>2, ForgetsAll DEF Promise!FifoNext
  <2>2. ASSUME NEW m \in Message, SendMessage(m)
        PROVE  Promise!FifoNext \/ UNCHANGED Contents
    <3>1. CASE QueueFull
      BY <2>2, <3>1 DEF SendMessage, queueVars, Contents
    <3>2. CASE ~QueueFull
      <4>1. Contents' = Append(Contents, m)
        BY <2>2, <3>2, SendAppends
      <4>2. Len(Contents) < MSG_Q_LENGTH
        BY <3>2, ContentsType, QueueAssumption DEF QueueFull, QueueTypeOK
      <4>3. QED
        BY <4>1, <4>2 DEF Promise!FifoNext, Promise!Put
    <3>3. QED
      BY <3>1, <3>2
  <2>3. CASE GetMessage
    BY <2>3, GetTakes DEF Promise!FifoNext, Promise!Take
  <2>4. CASE DropMessages
    <3>1. MsgQLen' = 0
      BY <2>4 DEF DropMessages
    <3>2. Contents' = <<>>
      BY <3>1 DEF Contents
    <3>3. QED
      BY <3>2, ForgetsAll DEF Promise!FifoNext
  <2>5. CASE UNCHANGED queueVars
    BY <2>5 DEF queueVars, Contents
  <2>6. ASSUME NEW m \in Message, DropMessagesRaced(m)
        PROVE  Promise!FifoNext \/ UNCHANGED Contents
    BY <2>6, RacedDrop DEF Promise!FifoNext
  <2>7. QED
    BY <2>1, <2>2, <2>3, <2>4, <2>5, <2>6 DEF QueueNext
<1>3. QED
  BY <1>1, <1>2, QueueTypeCorrect, PTL DEF QueueSpec, RingIsFifo, Promise!FifoSpec

-----------------------------------------------------------------------------
\* The service.

\* A message in hand is a message.
InHand == /\ \A c \in Client : cpc[c] \in SendPlace => request[c] \in Message
          /\ \A k \in Task : tpc[k] = "process" => received[k] \in Message

TypeInv == QueueTypeOK /\ AudioTypeOK /\ InHand

\* A task that will still lock or wait on MsgMutex, or store MyState.
Looping(k) == tpc[k] \in LoopPlace

\* c is in Audio_end and has not yet seen the task end.
AwaitsTask(c) == \/ cpc[c] \in SendPlace /\ request[c] = MSG_ID_END
                 \/ cpc[c] = "end_join"

HoldsAudioMutex(c) == \/ cpc[c] \in {"init_speaker", "start_publish"} \cup EndPlace
                      \/ AwaitsTask(c)

OwnerInv == \A c \in Client : HoldsAudioMutex(c) => AudioMutex = c

\* A looping task is the newest, and its session has begun and not ended.
SessionInv ==
  \A k \in Task : Looping(k) =>
     /\ k = created
     /\ \/ MyState = "Running"
        \/ \E c \in Client : cpc[c] = "start_publish" \/ AwaitsTask(c)

\* What MyState may be while a client is in Audio_init or Audio_end.
EndInv == \A c \in Client :
  /\ cpc[c] = "init_speaker" => MyState = "Ended"
  /\ AwaitsTask(c) => MyState = "Ending"
  /\ cpc[c] \in {"end_deinit", "end_destroy", "end_ok", "end_busy"}
       => MyState \in {"Ending", "Inited"}

\* A destroyed MsgMutex means the service has ended or is just about to.
MutexInv ==
  MsgMutex = Destroyed =>
     /\ MyState = "Ended" \/ \E c \in Client : cpc[c] = "end_ok"
     /\ \A c \in Client : cpc[c] \notin {"init_speaker", "start_publish"}
     /\ \A k \in Task : ~Looping(k)

IInv == TypeInv /\ OwnerInv /\ SessionInv /\ EndInv /\ MutexInv

-----------------------------------------------------------------------------
\* What a step does, beside the ring, in which a client meets a sender.
LEMMA RacedMoves ==
  ASSUME IInv, NEW c \in Client, NEW d \in Client,
         Audio_initRaced(c, d) \/ Audio_endRaced(c, d)
  PROVE  /\ c # d /\ cpc[d] = "send" /\ cpc'[d] = "unlock"
         /\ request[d] # MSG_ID_END
         /\ \A b \in Client \ {c, d} : cpc'[b] = cpc[b]
         /\ UNCHANGED <<PlayerState, NextTrackID, created, request, received, bornEarly,
                       soundVars>>
         /\ tpc' \in [Task -> TaskPlace]
         /\ \A k \in Task : tpc'[k] = tpc[k] \/ (tpc[k] = "waiting" /\ tpc'[k] = "wakeup")
         /\ \/ /\ cpc[c] = "idle" /\ cpc'[c] = "init_speaker"
               /\ AudioMutex = Nobody /\ AudioMutex' = c
               /\ MyState = "Ended" /\ MyState' = "Ended"
               /\ MsgMutexInit
            \/ /\ cpc[c] \in {"end_ok", "end_busy"} /\ cpc'[c] = "idle"
               /\ AudioMutex = c /\ AudioMutex' = Nobody
               /\ MyState' = IF cpc[c] = "end_ok" THEN "Ended" ELSE MyState
               /\ UNCHANGED <<MsgMutex, remade>>
<1>1. /\ cpc \in [Client -> ClientPlace] /\ tpc \in [Task -> TaskPlace]
      /\ AudioMutex \in Client \cup {Nobody}
  BY DEF IInv, TypeInv, AudioTypeOK
<1>2. Signal /\ cpc[d] = "send"
  BY DEF Audio_initRaced, Audio_endRaced, BothGo
<1>3. /\ tpc' \in [Task -> TaskPlace]
      /\ \A k \in Task : tpc'[k] = tpc[k] \/ (tpc[k] = "waiting" /\ tpc'[k] = "wakeup")
  BY <1>1, <1>2 DEF Signal, TaskGoes, TaskPlace, LoopPlace
<1>4. UNCHANGED <<PlayerState, NextTrackID, created, request, received, bornEarly, soundVars>>
  BY DEF Audio_initRaced, Audio_endRaced, atomicVars
<1>5. request[d] = MSG_ID_END => AudioMutex = d
  BY <1>2 DEF IInv, OwnerInv, HoldsAudioMutex, AwaitsTask, SendPlace
<1>6. CASE Audio_initRaced(c, d)
  <2>1. /\ cpc[c] = "idle" /\ cpc' = [cpc EXCEPT ![c] = "init_speaker", ![d] = "unlock"]
        /\ AudioMutex = Nobody /\ AudioMutex' = c
        /\ MyState = "Ended" /\ MyState' = "Ended"
        /\ MsgMutexInit
    BY <1>6 DEF Audio_initRaced, BothGo, atomicVars
  <2>2. request[d] # MSG_ID_END
    BY <1>5, <2>1, AudioAssumption
  <2>3. c # d
    BY <1>2, <2>1
  <2>4. QED
    BY <1>1, <1>2, <1>3, <1>4, <2>1, <2>2, <2>3
<1>7. CASE Audio_endRaced(c, d)
  <2>1. /\ cpc[c] \in {"end_ok", "end_busy"}
        /\ cpc' = [cpc EXCEPT ![c] = "idle", ![d] = "unlock"]
        /\ MyState' = IF cpc[c] = "end_ok" THEN "Ended" ELSE MyState
        /\ AudioMutex' = Nobody
        /\ UNCHANGED <<MsgMutex, remade>>
    BY <1>7 DEF Audio_endRaced, BothGo, EndBusy
  <2>2. AudioMutex = c
    BY <2>1 DEF IInv, OwnerInv, HoldsAudioMutex, EndPlace
  <2>3. c # d
    BY <1>2, <2>1
  <2>4. QED
    BY <1>1, <1>2, <1>3, <1>4, <1>5, <2>1, <2>2, <2>3
<1>8. QED
  BY <1>6, <1>7

\* The audio service works on the ring only through the ring's operations.
LEMMA RingSteps ==
  TypeInv /\ [Next]_vars =>
    \/ [QueueNext]_queueVars
    \/ \E c, d \in Client : cpc[d] \in SendPlace /\ Audio_initRaced(c, d)
<1> SUFFICES ASSUME TypeInv, [Next]_vars,
                    ~(\E c, d \in Client : cpc[d] \in SendPlace /\ Audio_initRaced(c, d))
             PROVE  [QueueNext]_queueVars
  OBVIOUS
<1>1. ASSUME NEW c \in Client, Call(c) PROVE [QueueNext]_queueVars
  BY <1>1 DEF Call, Audio_initBegin, Audio_initRaced, BothGo, Audio_startCreate,
      Audio_PlayTrack, Audio_endBegin, QueueNext, SendPlace
<1>2. ASSUME NEW c \in Client, SendMessageEnqueue(c) PROVE [QueueNext]_queueVars
  BY <1>2 DEF SendMessageEnqueue, ClientGoes, TypeInv, InHand, SendPlace, QueueNext
<1>3. ASSUME NEW c \in Client, NEW d \in Client, Audio_endRaced(c, d)
      PROVE  [QueueNext]_queueVars
  BY <1>3 DEF Audio_endRaced, BothGo, TypeInv, InHand, SendPlace, QueueNext
<1>4. ASSUME NEW c \in Client, ClientStep(c), ~SendMessageEnqueue(c),
             \A d \in Client : ~Audio_endRaced(c, d)
      PROVE  [QueueNext]_queueVars
  BY <1>4 DEF ClientStep, Audio_initFinish, Audio_startPublish, SendMessageLock,
      SendMessageRefused, SendMessageUnlock, Audio_endJoin, Audio_endDeInit,
      Audio_endDestroy, Audio_endFinish, QueueNext
<1>5. ASSUME NEW k \in Task, TaskStep(k) \/ TaskSpuriousWakeup(k)
      PROVE  [QueueNext]_queueVars
  BY <1>5 DEF TaskStep, TaskBegin, TaskCheck, TaskReceive, TaskWait, TaskWakeup,
      TaskProcess, TaskRelock, TaskStop, TaskUnlock, TaskWindDown, TaskJoin,
      TaskSpuriousWakeup, QueueNext
<1>6. ASSUME NEW k \in Task, PlayerStep(k) PROVE [QueueNext]_queueVars
  BY <1>6 DEF PlayerStep, PlayerCheck, PlayerFetch, PlayerSound, PlayerLeave, PlayerHush
<1>7. CASE UNCHANGED vars
  BY <1>7 DEF vars
<1>8. QED
  BY <1>1, <1>2, <1>3, <1>4, <1>5, <1>6, <1>7 DEF Next

\* What AudioTypeOK says beside the ring.
RestTypeOK == /\ MyState \in ComponentState
              /\ PlayerState \in ComponentState
              /\ NextTrackID \in Track
              /\ AudioMutex \in Client \cup {Nobody}
              /\ MsgMutex \in Client \cup Task \cup {Nobody, Destroyed}
              /\ created \in 0 .. MaxTasks
              /\ cpc \in [Client -> ClientPlace]
              /\ request \in [Client -> Message \cup {MaxTracks}]
              /\ tpc \in [Task -> TaskPlace]
              /\ received \in [Task -> Message \cup {MaxTracks}]
              /\ ppc \in [Task -> PlayerPlace]
              /\ CurrTrackID \in [Task -> Track]
              /\ Speaker \in {"SPEAKER_INITED", "SPEAKER_ENDED"}
              /\ CurrentFreq \in Pitch
              /\ pwm \in Pitch
              /\ enabled \in BOOLEAN
              /\ bornEarly \in BOOLEAN
              /\ remade \in BOOLEAN

\* What it says of the speaker, which a pitch does not disturb.
SpeakerTypeOK == /\ Speaker \in {"SPEAKER_INITED", "SPEAKER_ENDED"}
                 /\ CurrentFreq \in Pitch
                 /\ pwm \in Pitch
                 /\ enabled \in BOOLEAN

LEMMA PitchType ==
  ASSUME SpeakerTypeOK, NEW f \in Pitch, Speaker_PlayPitch(f) PROVE SpeakerTypeOK'
<1>1. CASE UNCHANGED speakerVars
  BY <1>1 DEF SpeakerTypeOK, speakerVars
<1>2. CASE ~UNCHANGED speakerVars
  <2>1. Speaker' = Speaker /\ CurrentFreq' = f /\ WritePitch(f)
    BY <1>2 DEF Speaker_PlayPitch
  <2>2. enabled' \in BOOLEAN
    BY <2>1 DEF WritePitch
  <2>3. pwm' \in Pitch
    BY <2>1 DEF WritePitch, SpeakerTypeOK
  <2>4. QED
    BY <2>1, <2>2, <2>3 DEF SpeakerTypeOK
<1>3. QED
  BY <1>1, <1>2

LEMMA RestTypeStep == TypeInv /\ [Next]_vars => RestTypeOK' /\ InHand'
<1> SUFFICES ASSUME TypeInv, [Next]_vars PROVE RestTypeOK' /\ InHand'
  OBVIOUS
<1> USE AudioAssumption, QueueAssumption
<1> USE DEF TypeInv, AudioTypeOK, RestTypeOK, InHand, ComponentState, Track, Pitch,
        Message, Task, ClientPlace, SendPlace, EndPlace, TaskPlace, LoopPlace, PlayerPlace
<1>1. ASSUME NEW c \in Client, Audio_initBegin(c) PROVE RestTypeOK' /\ InHand'
  <2>1. remade' \in BOOLEAN
    BY <1>1 DEF Audio_initBegin, MsgMutexInit
  <2>2. /\ cpc' = [cpc EXCEPT ![c] = "init_speaker"] /\ AudioMutex' = c /\ MsgMutex' = Nobody
        /\ UNCHANGED <<atomicVars, created, request, taskVars, soundVars>>
    BY <1>1 DEF Audio_initBegin, MsgMutexInit, ClientGoes
  <2>3. QED
    BY <2>1, <2>2 DEF atomicVars, taskVars, soundVars, playerVars, speakerVars
<1>2. ASSUME NEW c \in Client, Audio_startCreate(c) PROVE RestTypeOK' /\ InHand'
  BY <1>2 DEF Audio_startCreate, ClientGoes, StartLocks, atomicVars, soundVars,
      queueVars, playerVars, speakerVars
<1>3. ASSUME NEW c \in Client, Audio_PlayTrack(c) PROVE RestTypeOK' /\ InHand'
  BY <1>3 DEF Audio_PlayTrack, ClientGoes, atomicVars, taskVars, soundVars,
      queueVars, playerVars, speakerVars
<1>4. ASSUME NEW c \in Client, Audio_endBegin(c) PROVE RestTypeOK' /\ InHand'
  <2>1. CASE ClientGoes(c, "idle", "lock") /\ request' = [request EXCEPT ![c] = MSG_ID_END]
    BY <1>4, <2>1 DEF Audio_endBegin, ClientGoes, AnnounceEnd, taskVars, soundVars,
        queueVars, playerVars, speakerVars
  <2>2. CASE ClientGoes(c, "idle", "end_deinit") /\ UNCHANGED <<MyState, request>>
    BY <1>4, <2>2 DEF Audio_endBegin, ClientGoes, taskVars, soundVars,
        queueVars, playerVars, speakerVars
  <2>3. QED
    BY <1>4, <2>1, <2>2 DEF Audio_endBegin
<1>5. ASSUME NEW c \in Client, Audio_initFinish(c) PROVE RestTypeOK' /\ InHand'
  BY <1>5 DEF Audio_initFinish, ClientGoes, Speaker_InitSucceeds,
      Speaker_InitFails, taskVars, playerVars, queueVars, speakerVars
<1>6. ASSUME NEW c \in Client, Audio_startPublish(c) PROVE RestTypeOK' /\ InHand'
  BY <1>6 DEF Audio_startPublish, ClientGoes, taskVars, soundVars, queueVars,
      playerVars, speakerVars
<1>7. ASSUME NEW c \in Client, SendMessageLock(c) PROVE RestTypeOK' /\ InHand'
  BY <1>7 DEF SendMessageLock, ClientGoes, LockMsg, atomicVars, taskVars,
      soundVars, queueVars, playerVars, speakerVars
<1>8. ASSUME NEW c \in Client, SendMessageRefused(c) PROVE RestTypeOK' /\ InHand'
  BY <1>8 DEF SendMessageRefused, ClientGoes, AfterSend, atomicVars, taskVars,
      soundVars, queueVars, playerVars, speakerVars
<1>9. ASSUME NEW c \in Client, SendMessageEnqueue(c) PROVE RestTypeOK' /\ InHand'
  BY <1>9 DEF SendMessageEnqueue, ClientGoes, Signal, TaskGoes, atomicVars,
      soundVars, playerVars, speakerVars
<1>10. ASSUME NEW c \in Client, SendMessageUnlock(c) PROVE RestTypeOK' /\ InHand'
  <2>1. cpc' = [cpc EXCEPT ![c] = "end_join"] \/ cpc' = [cpc EXCEPT ![c] = "idle"]
    BY <1>10 DEF SendMessageUnlock, ClientGoes, AfterSend
  <2>2. request' = [request EXCEPT ![c] = MaxTracks] /\ MsgMutex' \in {Nobody, Destroyed}
    BY <1>10 DEF SendMessageUnlock, UnlockMsg
  <2>3. UNCHANGED <<atomicVars, AudioMutex, created, remade, taskVars, soundVars>>
    BY <1>10 DEF SendMessageUnlock
  <2>4. cpc' \in [Client -> ClientPlace] /\ \A b \in Client : cpc'[b] \in SendPlace => cpc[b] \in SendPlace /\ b # c
    BY <2>1
  <2>5. InHand'
    BY <2>2, <2>3, <2>4 DEF taskVars
  <2>6. /\ MsgMutex' \in Client \cup Task \cup {Nobody, Destroyed}
        /\ request' \in [Client -> Message \cup {MaxTracks}]
        /\ cpc' \in [Client -> ClientPlace]
    BY <2>2, <2>4
  <2>7. RestTypeOK'
    BY <2>3, <2>6 DEF atomicVars, taskVars, soundVars, playerVars, speakerVars
  <2>8. QED
    BY <2>5, <2>7
<1>11. ASSUME NEW c \in Client, Audio_endJoin(c) PROVE RestTypeOK' /\ InHand'
  BY <1>11 DEF Audio_endJoin, ClientGoes, TaskGone, AudioThread, atomicVars,
      taskVars, soundVars, queueVars, playerVars, speakerVars
<1>12. ASSUME NEW c \in Client, Audio_endDeInit(c) PROVE RestTypeOK' /\ InHand'
  <2>1. UNCHANGED <<atomicVars, MsgMutex, created, remade, request, taskVars, playerVars>>
    BY <1>12 DEF Audio_endDeInit
  <2>2. cpc' = [cpc EXCEPT ![c] = "end_destroy"] \/ cpc' = [cpc EXCEPT ![c] = "idle"]
    BY <1>12 DEF Audio_endDeInit, ClientGoes
  <2>3. AudioMutex' \in {AudioMutex, Nobody}
    BY <1>12 DEF Audio_endDeInit
  <2>4. Speaker' \in {Speaker, "SPEAKER_ENDED"} /\ CurrentFreq' = CurrentFreq
    BY <1>12 DEF Audio_endDeInit, Speaker_DeInit, speakerVars
  <2>5. pwm' \in {pwm, Silence} /\ enabled' \in {enabled, FALSE}
    BY <1>12 DEF Audio_endDeInit, Speaker_DeInit, speakerVars
  <2>6. InHand'
    BY <2>1, <2>2 DEF taskVars
  <2>7. cpc' \in [Client -> ClientPlace] /\ AudioMutex' \in Client \cup {Nobody}
    BY <2>2, <2>3
  <2>8. /\ Speaker' \in {"SPEAKER_INITED", "SPEAKER_ENDED"}
        /\ pwm' \in Pitch /\ CurrentFreq' \in Pitch /\ enabled' \in BOOLEAN
    BY <2>4, <2>5
  <2>9. RestTypeOK'
    BY <2>1, <2>7, <2>8 DEF atomicVars, taskVars, playerVars
  <2>10. QED
    BY <2>6, <2>9
<1>13. ASSUME NEW c \in Client, Audio_endDestroy(c) PROVE RestTypeOK' /\ InHand'
  BY <1>13 DEF Audio_endDestroy, ClientGoes, atomicVars, taskVars, soundVars,
      queueVars, playerVars, speakerVars
<1>14. ASSUME NEW c \in Client, Audio_endFinish(c) PROVE RestTypeOK' /\ InHand'
  <2>1. AudioMutex' = Nobody /\ MyState' \in ComponentState /\ cpc' = [cpc EXCEPT ![c] = "idle"]
    BY <1>14 DEF Audio_endFinish, ClientGoes, EndBusy
  <2>2. UNCHANGED <<PlayerState, NextTrackID, MsgMutex, created, remade, request,
                    taskVars, soundVars>>
    BY <1>14 DEF Audio_endFinish
  <2>3. QED
    BY <2>1, <2>2 DEF taskVars, soundVars, playerVars, speakerVars
<1>15. ASSUME NEW k \in Task, TaskBegin(k) PROVE RestTypeOK' /\ InHand'
  BY <1>15 DEF TaskBegin, TaskGoes, PlayerGoes, LockMsg, clientVars,
      speakerVars, queueVars
<1>16. ASSUME NEW k \in Task, TaskCheck(k) PROVE RestTypeOK' /\ InHand'
  <2>1. bornEarly' \in BOOLEAN
    BY <1>16 DEF TaskCheck
  <2>2. tpc' = [tpc EXCEPT ![k] = "receive"] \/ tpc' = [tpc EXCEPT ![k] = "stop"]
    BY <1>16 DEF TaskCheck, TaskGoes
  <2>3. UNCHANGED <<atomicVars, MsgMutex, clientVars, received, soundVars>>
    BY <1>16 DEF TaskCheck
  <2>4. InHand'
    BY <2>2, <2>3 DEF clientVars
  <2>5. tpc' \in [Task -> TaskPlace]
    BY <2>2
  <2>6. RestTypeOK'
    BY <2>1, <2>3, <2>5 DEF atomicVars, clientVars, soundVars, playerVars, speakerVars
  <2>7. QED
    BY <2>4, <2>6
<1>17. ASSUME NEW k \in Task, TaskReceive(k) PROVE RestTypeOK' /\ InHand'
  BY <1>17 DEF TaskReceive, TaskGoes, UnlockMsg, atomicVars, clientVars,
      soundVars, playerVars, speakerVars, TopMessage, QueueTypeOK
<1>18. ASSUME NEW k \in Task, TaskWait(k) PROVE RestTypeOK' /\ InHand'
  BY <1>18 DEF TaskWait, TaskGoes, UnlockMsg, atomicVars, clientVars,
      soundVars, queueVars, playerVars, speakerVars
<1>19. ASSUME NEW k \in Task, TaskWakeup(k) PROVE RestTypeOK' /\ InHand'
  BY <1>19 DEF TaskWakeup, TaskGoes, LockMsg, atomicVars, clientVars,
      soundVars, queueVars, playerVars, speakerVars
<1>20. ASSUME NEW k \in Task, TaskProcess(k) PROVE RestTypeOK' /\ InHand'
  BY <1>20 DEF TaskProcess, TaskGoes, clientVars, soundVars, queueVars,
      playerVars, speakerVars
<1>21. ASSUME NEW k \in Task, TaskRelock(k) PROVE RestTypeOK' /\ InHand'
  <2>1. CASE TaskGoes(k, "relock", "check")
    BY <1>21, <2>1 DEF TaskRelock, TaskGoes, LockMsg, atomicVars, clientVars,
        soundVars, queueVars, playerVars, speakerVars
  <2>2. CASE TaskGoes(k, "kill", "stop")
    BY <1>21, <2>2 DEF TaskRelock, TaskGoes, LockMsg, atomicVars, clientVars,
        soundVars, queueVars, playerVars, speakerVars
  <2>3. QED
    BY <1>21, <2>1, <2>2 DEF TaskRelock
<1>22. ASSUME NEW k \in Task, TaskStop(k) PROVE RestTypeOK' /\ InHand'
  BY <1>22 DEF TaskStop, TaskGoes, clientVars, soundVars, queueVars,
      playerVars, speakerVars
<1>23. ASSUME NEW k \in Task, TaskUnlock(k) PROVE RestTypeOK' /\ InHand'
  BY <1>23 DEF TaskUnlock, TaskGoes, UnlockMsg, atomicVars, clientVars,
      soundVars, queueVars, playerVars, speakerVars
<1>24. ASSUME NEW k \in Task, TaskWindDown(k) PROVE RestTypeOK' /\ InHand'
  BY <1>24 DEF TaskWindDown, TaskGoes, StopPlayer, clientVars, soundVars,
      queueVars, playerVars, speakerVars
<1>25. ASSUME NEW k \in Task, TaskJoin(k) PROVE RestTypeOK' /\ InHand'
  BY <1>25 DEF TaskJoin, TaskGoes, PlayerGone, clientVars, soundVars,
      queueVars, playerVars, speakerVars
<1>26. ASSUME NEW k \in Task, TaskSpuriousWakeup(k) PROVE RestTypeOK' /\ InHand'
  BY <1>26 DEF TaskSpuriousWakeup, TaskGoes, atomicVars, clientVars, soundVars,
      queueVars, playerVars, speakerVars
<1>27. ASSUME NEW k \in Task, PlayerCheck(k) PROVE RestTypeOK' /\ InHand'
  <2>1. CASE PlayerState = "Running"
    BY <1>27, <2>1 DEF PlayerCheck, PlayerGoes, atomicVars, clientVars,
        taskVars, speakerVars, queueVars
  <2>2. CASE PlayerState # "Running"
    BY <1>27, <2>2 DEF PlayerCheck, PlayerGoes, atomicVars, clientVars,
        taskVars, speakerVars, queueVars
  <2>3. QED
    BY <1>27, <2>1, <2>2
<1>28. ASSUME NEW k \in Task, PlayerFetch(k) PROVE RestTypeOK' /\ InHand'
  BY <1>28 DEF PlayerFetch, MailboxTaken, PlayerGoes, clientVars, taskVars, speakerVars,
      queueVars
<1>29. ASSUME NEW k \in Task, PlayerSound(k) PROVE RestTypeOK' /\ InHand'
  <2>1. /\ ppc' = [ppc EXCEPT ![k] = "check"]
        /\ UNCHANGED <<queueVars, atomicVars, MsgMutex, clientVars, taskVars>>
        /\ CurrTrackID' \in {CurrTrackID, [CurrTrackID EXCEPT ![k] = MaxTracks]}
    BY <1>29 DEF PlayerSound, PlayerGoes
  <2>2. UNCHANGED speakerVars \/ \E f \in Pitch : Speaker_PlayPitch(f)
    <3>1. \A f \in Notes[CurrTrackID[k]] : CurrTrackID[k] # MaxTracks => f \in Pitch
      OBVIOUS
    <3>2. QED
      BY <1>29, <3>1 DEF PlayerSound
  <2>3. SpeakerTypeOK'
    BY <2>2, PitchType DEF speakerVars, SpeakerTypeOK
  <2>4. QED
    BY <2>1, <2>3 DEF atomicVars, clientVars, taskVars, SpeakerTypeOK
<1>30. ASSUME NEW k \in Task, PlayerLeave(k) PROVE RestTypeOK' /\ InHand'
  BY <1>30 DEF PlayerLeave, PlayerGoes, MailboxEmptied, clientVars, taskVars,
      speakerVars, queueVars
<1>31. ASSUME NEW k \in Task, PlayerHush(k) PROVE RestTypeOK' /\ InHand'
  <2>1. Speaker_PlayPitch(Silence)
    BY <1>31 DEF PlayerHush
  <2>2. SpeakerTypeOK'
    BY <2>1, PitchType DEF SpeakerTypeOK
  <2>3. QED
    BY <1>31, <2>2 DEF PlayerHush, PlayerGoes, atomicVars, clientVars, taskVars, SpeakerTypeOK
<1>32. CASE UNCHANGED vars
  BY <1>32 DEF vars, atomicVars, clientVars, taskVars, soundVars, playerVars,
      speakerVars
<1>33. ASSUME NEW c \in Client, NEW d \in Client,
              Audio_initRaced(c, d) \/ Audio_endRaced(c, d)
       PROVE  RestTypeOK' /\ InHand'
  <2>1. /\ cpc[d] = "send" /\ c # d
        /\ \/ cpc' = [cpc EXCEPT ![c] = "init_speaker", ![d] = "unlock"]
           \/ cpc' = [cpc EXCEPT ![c] = "idle", ![d] = "unlock"]
    BY <1>33 DEF Audio_initRaced, Audio_endRaced, BothGo
  <2>2. /\ AudioMutex' \in {c, Nobody} /\ MsgMutex' \in {MsgMutex, Nobody}
        /\ UNCHANGED <<PlayerState, NextTrackID, created, request, received, bornEarly,
                       soundVars>>
        /\ Signal
    BY <1>33 DEF Audio_initRaced, Audio_endRaced, MsgMutexInit, atomicVars
  <2>3. MyState' \in {MyState, "Ended"}
    BY <1>33 DEF Audio_initRaced, Audio_endRaced, EndBusy, atomicVars
  <2>4. remade' \in BOOLEAN
    BY <1>33 DEF Audio_initRaced, Audio_endRaced, MsgMutexInit
  <2>5. cpc' \in [Client -> ClientPlace] /\ \A b \in Client : cpc'[b] \in SendPlace => cpc[b] \in SendPlace
    BY <2>1
  <2>6. tpc' \in [Task -> TaskPlace] /\ \A k \in Task : tpc'[k] = "process" => tpc[k] = "process"
    BY <2>2 DEF Signal, TaskGoes
  <2>7. QED
    BY <2>2, <2>3, <2>4, <2>5, <2>6 DEF soundVars, playerVars, speakerVars
<1>34. QED
  BY <1>1, <1>2, <1>3, <1>4, <1>5, <1>6, <1>7, <1>8, <1>9, <1>10, <1>11, <1>12,
      <1>13, <1>14, <1>15, <1>16, <1>17, <1>18, <1>19, <1>20, <1>21, <1>22,
      <1>23, <1>24, <1>25, <1>26, <1>27, <1>28, <1>29, <1>30, <1>31, <1>32, <1>33
  DEF Next, Call, ClientStep, TaskStep, PlayerStep

LEMMA TypeStep == TypeInv /\ [Next]_vars => TypeInv'
<1> SUFFICES ASSUME TypeInv, [Next]_vars PROVE TypeInv'
  OBVIOUS
<1>1. QueueTypeOK'
  <2>1. CASE [QueueNext]_queueVars
    BY <2>1, QueueTypeStep DEF TypeInv
  <2>2. ASSUME NEW c \in Client, NEW d \in Client, cpc[d] \in SendPlace,
               Audio_initRaced(c, d)
        PROVE  QueueTypeOK'
    BY <2>2, RacedType DEF TypeInv, InHand, Audio_initRaced
  <2>3. QED
    BY <2>1, <2>2, RingSteps
<1>2. RestTypeOK' /\ InHand'
  BY RestTypeStep
<1>3. QED
  BY <1>1, <1>2 DEF TypeInv, AudioTypeOK, RestTypeOK

LEMMA TypeInit == Init => TypeInv
<1> SUFFICES ASSUME Init PROVE TypeInv
  OBVIOUS
<1> USE AudioAssumption, QueueAssumption DEF Init
<1>1. QueueTypeOK
  BY DEF QueueInit, QueueTypeOK, Slots, Message
<1>2. RestTypeOK
  <2>1. /\ cpc \in [Client -> ClientPlace]
        /\ tpc \in [Task -> TaskPlace]
        /\ ppc \in [Task -> PlayerPlace]
    BY DEF ClientPlace, TaskPlace, PlayerPlace
  <2>2. /\ request \in [Client -> Message \cup {MaxTracks}]
        /\ received \in [Task -> Message \cup {MaxTracks}]
        /\ CurrTrackID \in [Task -> Track]
    BY DEF Track
  <2>3. created \in 0 .. MaxTasks
    OBVIOUS
  <2>4. QED
    BY <2>1, <2>2, <2>3 DEF RestTypeOK, ComponentState, Track, Pitch
<1>3. AudioTypeOK
  BY <1>1, <1>2 DEF AudioTypeOK, RestTypeOK
<1>4. InHand
  BY DEF InHand, SendPlace
<1>5. QED
  BY <1>1, <1>3, <1>4 DEF TypeInv

\* Every variable of the audio service keeps its type.
THEOREM AudioTypeCorrect == Spec => []AudioTypeOK
<1>1. TypeInv => AudioTypeOK
  BY DEF TypeInv
<1>2. QED
  BY <1>1, TypeInit, TypeStep, PTL DEF Spec

-----------------------------------------------------------------------------
\* No step takes AudioMutex from the client that holds it.
LEMMA OwnerStep == IInv /\ [Next]_vars => OwnerInv'
<1> SUFFICES ASSUME IInv, [Next]_vars PROVE OwnerInv'
  OBVIOUS
<1> USE AudioAssumption, QueueAssumption
<1> USE DEF IInv, OwnerInv, HoldsAudioMutex, AwaitsTask, TypeInv, AudioTypeOK,
        ClientPlace, SendPlace, EndPlace
<1>1. ASSUME NEW c \in Client, Audio_initBegin(c) PROVE OwnerInv'
  BY <1>1 DEF Audio_initBegin, MsgMutexInit, ClientGoes, atomicVars, taskVars, soundVars,
      playerVars, speakerVars
<1>2. ASSUME NEW c \in Client, Audio_startCreate(c) PROVE OwnerInv'
  BY <1>2 DEF Audio_startCreate, ClientGoes, StartLocks, atomicVars, soundVars,
      queueVars, playerVars, speakerVars
<1>3. ASSUME NEW c \in Client, Audio_PlayTrack(c) PROVE OwnerInv'
  BY <1>3 DEF Audio_PlayTrack, ClientGoes, atomicVars, taskVars, soundVars,
      queueVars, playerVars, speakerVars
<1>4. ASSUME NEW c \in Client, Audio_endBegin(c) PROVE OwnerInv'
  BY <1>4 DEF Audio_endBegin, ClientGoes, AnnounceEnd, taskVars, soundVars,
      queueVars, playerVars, speakerVars
<1>5. ASSUME NEW c \in Client, Audio_initFinish(c) PROVE OwnerInv'
  BY <1>5 DEF Audio_initFinish, ClientGoes, Speaker_InitSucceeds,
      Speaker_InitFails, taskVars, playerVars, queueVars, speakerVars
<1>6. ASSUME NEW c \in Client, Audio_startPublish(c) PROVE OwnerInv'
  BY <1>6 DEF Audio_startPublish, ClientGoes, taskVars, soundVars, queueVars,
      playerVars, speakerVars
<1>7. ASSUME NEW c \in Client, SendMessageLock(c) PROVE OwnerInv'
  BY <1>7 DEF SendMessageLock, ClientGoes, LockMsg, atomicVars, taskVars,
      soundVars, queueVars, playerVars, speakerVars
<1>8. ASSUME NEW c \in Client, SendMessageRefused(c) PROVE OwnerInv'
  BY <1>8 DEF SendMessageRefused, ClientGoes, AfterSend, atomicVars, taskVars,
      soundVars, queueVars, playerVars, speakerVars
<1>9. ASSUME NEW c \in Client, SendMessageEnqueue(c) PROVE OwnerInv'
  BY <1>9 DEF SendMessageEnqueue, ClientGoes, Signal, TaskGoes, atomicVars,
      soundVars, playerVars, speakerVars
<1>10. ASSUME NEW c \in Client, SendMessageUnlock(c) PROVE OwnerInv'
  BY <1>10 DEF SendMessageUnlock, ClientGoes, UnlockMsg, AfterSend, atomicVars,
      taskVars, soundVars, queueVars, playerVars, speakerVars
<1>11. ASSUME NEW c \in Client, Audio_endJoin(c) PROVE OwnerInv'
  BY <1>11 DEF Audio_endJoin, ClientGoes, TaskGone, AudioThread, atomicVars,
      taskVars, soundVars, queueVars, playerVars, speakerVars
<1>12. ASSUME NEW c \in Client, Audio_endDeInit(c) PROVE OwnerInv'
  BY <1>12 DEF Audio_endDeInit, ClientGoes, Speaker_DeInit, atomicVars,
      taskVars, playerVars, speakerVars, queueVars
<1>13. ASSUME NEW c \in Client, Audio_endDestroy(c) PROVE OwnerInv'
  BY <1>13 DEF Audio_endDestroy, ClientGoes, atomicVars, taskVars, soundVars,
      queueVars, playerVars, speakerVars
<1>14. ASSUME NEW c \in Client, Audio_endFinish(c) PROVE OwnerInv'
  BY <1>14 DEF Audio_endFinish, ClientGoes, EndBusy, taskVars, soundVars,
      queueVars, playerVars, speakerVars
<1>15. ASSUME NEW k \in Task, TaskStep(k) \/ TaskSpuriousWakeup(k) PROVE OwnerInv'
  BY <1>15 DEF clientVars, TaskStep, TaskBegin, TaskCheck, TaskReceive,
      TaskWait, TaskWakeup, TaskProcess, TaskRelock, TaskStop, TaskUnlock,
      TaskWindDown, TaskJoin, TaskSpuriousWakeup
<1>16. ASSUME NEW k \in Task, PlayerStep(k) PROVE OwnerInv'
  BY <1>16 DEF clientVars, PlayerStep, PlayerCheck, PlayerFetch, PlayerSound,
      PlayerLeave, PlayerHush
<1>17. CASE UNCHANGED vars
  BY <1>17 DEF vars, clientVars
<1>18. ASSUME NEW c \in Client, NEW d \in Client,
              Audio_initRaced(c, d) \/ Audio_endRaced(c, d)
       PROVE  OwnerInv'
  BY <1>18, RacedMoves
<1>19. QED
  BY <1>1, <1>2, <1>3, <1>4, <1>5, <1>6, <1>7, <1>8, <1>9, <1>10, <1>11, <1>12,
      <1>13, <1>14, <1>15, <1>16, <1>17, <1>18 DEF Next, Call, ClientStep

LEMMA EndStep == IInv /\ [Next]_vars => EndInv'
<1> SUFFICES ASSUME IInv, [Next]_vars PROVE EndInv'
  OBVIOUS
<1> USE AudioAssumption, QueueAssumption
<1> USE DEF IInv, OwnerInv, HoldsAudioMutex, AwaitsTask, TypeInv, AudioTypeOK, InHand,
        EndInv, ClientPlace, SendPlace, EndPlace, Message
<1>1. ASSUME NEW c \in Client, Audio_initBegin(c) PROVE EndInv'
  BY <1>1 DEF Audio_initBegin, MsgMutexInit, ClientGoes, atomicVars, taskVars, soundVars,
      playerVars, speakerVars
<1>2. ASSUME NEW c \in Client, Audio_startCreate(c) PROVE EndInv'
  BY <1>2 DEF Audio_startCreate, ClientGoes, StartLocks, atomicVars, soundVars,
      queueVars, playerVars, speakerVars
<1>3. ASSUME NEW c \in Client, Audio_PlayTrack(c) PROVE EndInv'
  BY <1>3 DEF Audio_PlayTrack, ClientGoes, atomicVars, taskVars, soundVars,
      queueVars, playerVars, speakerVars
<1>4. ASSUME NEW c \in Client, Audio_endBegin(c) PROVE EndInv'
  BY <1>4 DEF Audio_endBegin, ClientGoes, AnnounceEnd, taskVars, soundVars,
      queueVars, playerVars, speakerVars
<1>5. ASSUME NEW c \in Client, Audio_initFinish(c) PROVE EndInv'
  BY <1>5 DEF Audio_initFinish, ClientGoes, Speaker_InitSucceeds,
      Speaker_InitFails, taskVars, playerVars, queueVars, speakerVars
<1>6. ASSUME NEW c \in Client, Audio_startPublish(c) PROVE EndInv'
  BY <1>6 DEF Audio_startPublish, ClientGoes, taskVars, soundVars, queueVars,
      playerVars, speakerVars
<1>7. ASSUME NEW c \in Client, SendMessageLock(c) PROVE EndInv'
  BY <1>7 DEF SendMessageLock, ClientGoes, LockMsg, atomicVars, taskVars,
      soundVars, queueVars, playerVars, speakerVars
<1>8. ASSUME NEW c \in Client, SendMessageRefused(c) PROVE EndInv'
  BY <1>8 DEF SendMessageRefused, ClientGoes, AfterSend, atomicVars, taskVars,
      soundVars, queueVars, playerVars, speakerVars
<1>9. ASSUME NEW c \in Client, SendMessageEnqueue(c) PROVE EndInv'
  BY <1>9 DEF SendMessageEnqueue, ClientGoes, Signal, TaskGoes, atomicVars,
      soundVars, playerVars, speakerVars
<1>10. ASSUME NEW c \in Client, SendMessageUnlock(c) PROVE EndInv'
  BY <1>10 DEF SendMessageUnlock, ClientGoes, UnlockMsg, AfterSend, atomicVars,
      taskVars, soundVars, queueVars, playerVars, speakerVars
<1>11. ASSUME NEW c \in Client, Audio_endJoin(c) PROVE EndInv'
  BY <1>11 DEF Audio_endJoin, ClientGoes, TaskGone, AudioThread, atomicVars,
      taskVars, soundVars, queueVars, playerVars, speakerVars
<1>12. ASSUME NEW c \in Client, Audio_endDeInit(c) PROVE EndInv'
  BY <1>12 DEF Audio_endDeInit, ClientGoes, Speaker_DeInit, atomicVars,
      taskVars, playerVars, speakerVars, queueVars
<1>13. ASSUME NEW c \in Client, Audio_endDestroy(c) PROVE EndInv'
  BY <1>13 DEF Audio_endDestroy, ClientGoes, atomicVars, taskVars, soundVars,
      queueVars, playerVars, speakerVars
<1>14. ASSUME NEW c \in Client, Audio_endFinish(c) PROVE EndInv'
  BY <1>14 DEF Audio_endFinish, ClientGoes, EndBusy, taskVars, soundVars,
      queueVars, playerVars, speakerVars
<1>15. ASSUME NEW k \in Task, TaskStop(k) PROVE EndInv'
  BY <1>15 DEF TaskStop, TaskGoes, clientVars, soundVars, queueVars,
      playerVars, speakerVars,
      SessionInv, Looping, LoopPlace, Task
<1>16. ASSUME NEW k \in Task, (TaskStep(k) /\ ~TaskStop(k)) \/ TaskSpuriousWakeup(k) PROVE EndInv'
  BY <1>16 DEF atomicVars, clientVars, TaskStep, TaskBegin, TaskCheck,
      TaskReceive, TaskWait, TaskWakeup, TaskProcess, TaskRelock, TaskUnlock,
      TaskWindDown, TaskJoin, TaskSpuriousWakeup
<1>17. ASSUME NEW k \in Task, PlayerStep(k) PROVE EndInv'
  BY <1>17 DEF atomicVars, clientVars, PlayerStep, PlayerCheck, PlayerFetch,
      PlayerSound, PlayerLeave, PlayerHush
<1>18. CASE UNCHANGED vars
  BY <1>18 DEF vars, atomicVars, clientVars
<1>19. ASSUME NEW c \in Client, NEW d \in Client,
              Audio_initRaced(c, d) \/ Audio_endRaced(c, d)
       PROVE  EndInv'
  BY <1>19, RacedMoves
<1>20. QED
  BY <1>1, <1>2, <1>3, <1>4, <1>5, <1>6, <1>7, <1>8, <1>9, <1>10, <1>11, <1>12,
      <1>13, <1>14, <1>15, <1>16, <1>17, <1>18, <1>19 DEF Next, Call, ClientStep

LEMMA SessionStep == IInv /\ [Next]_vars => SessionInv'
<1> SUFFICES ASSUME IInv, [Next]_vars PROVE SessionInv'
  OBVIOUS
<1> USE AudioAssumption, QueueAssumption
<1> USE DEF IInv, OwnerInv, HoldsAudioMutex, AwaitsTask, TypeInv, AudioTypeOK, InHand,
        EndInv, SessionInv, Looping, ClientPlace, SendPlace, EndPlace, TaskPlace,
        LoopPlace, Message, Task
<1>1. ASSUME NEW c \in Client, Audio_initBegin(c) PROVE SessionInv'
  BY <1>1 DEF Audio_initBegin, MsgMutexInit, ClientGoes, atomicVars, taskVars, soundVars,
      playerVars, speakerVars
<1>2. ASSUME NEW c \in Client, Audio_startCreate(c) PROVE SessionInv'
  BY <1>2 DEF Audio_startCreate, ClientGoes, StartLocks, atomicVars, soundVars,
      queueVars, playerVars, speakerVars
<1>3. ASSUME NEW c \in Client, Audio_PlayTrack(c) PROVE SessionInv'
  BY <1>3 DEF Audio_PlayTrack, ClientGoes, atomicVars, taskVars, soundVars,
      queueVars, playerVars, speakerVars
<1>4. ASSUME NEW c \in Client, Audio_endBegin(c) PROVE SessionInv'
  BY <1>4 DEF Audio_endBegin, ClientGoes, AnnounceEnd, taskVars, soundVars,
      queueVars, playerVars, speakerVars
<1>5. ASSUME NEW c \in Client, Audio_initFinish(c) PROVE SessionInv'
  BY <1>5 DEF Audio_initFinish, ClientGoes, Speaker_InitSucceeds,
      Speaker_InitFails, taskVars, playerVars, queueVars, speakerVars
<1>6. ASSUME NEW c \in Client, Audio_startPublish(c) PROVE SessionInv'
  BY <1>6 DEF Audio_startPublish, ClientGoes, taskVars, soundVars, queueVars,
      playerVars, speakerVars
<1>7. ASSUME NEW c \in Client, SendMessageLock(c) PROVE SessionInv'
  BY <1>7 DEF SendMessageLock, ClientGoes, LockMsg, atomicVars, taskVars,
      soundVars, queueVars, playerVars, speakerVars
<1>8. ASSUME NEW c \in Client, SendMessageRefused(c) PROVE SessionInv'
  BY <1>8 DEF SendMessageRefused, ClientGoes, AfterSend, atomicVars, taskVars,
      soundVars, queueVars, playerVars, speakerVars
<1>9. ASSUME NEW c \in Client, SendMessageEnqueue(c) PROVE SessionInv'
  BY <1>9 DEF SendMessageEnqueue, ClientGoes, Signal, TaskGoes, atomicVars,
      soundVars, playerVars, speakerVars
<1>10. ASSUME NEW c \in Client, SendMessageUnlock(c) PROVE SessionInv'
  BY <1>10 DEF SendMessageUnlock, ClientGoes, UnlockMsg, AfterSend, atomicVars,
      taskVars, soundVars, queueVars, playerVars, speakerVars
<1>11. ASSUME NEW c \in Client, Audio_endJoin(c) PROVE SessionInv'
  BY <1>11 DEF Audio_endJoin, ClientGoes, TaskGone, AudioThread, atomicVars,
      taskVars, soundVars, queueVars, playerVars, speakerVars
<1>12. ASSUME NEW c \in Client, Audio_endDeInit(c) PROVE SessionInv'
  BY <1>12 DEF Audio_endDeInit, ClientGoes, Speaker_DeInit, atomicVars,
      taskVars, playerVars, speakerVars, queueVars
<1>13. ASSUME NEW c \in Client, Audio_endDestroy(c) PROVE SessionInv'
  BY <1>13 DEF Audio_endDestroy, ClientGoes, atomicVars, taskVars, soundVars,
      queueVars, playerVars, speakerVars
<1>14. ASSUME NEW c \in Client, Audio_endFinish(c) PROVE SessionInv'
  BY <1>14 DEF Audio_endFinish, ClientGoes, EndBusy, taskVars, soundVars,
      queueVars, playerVars, speakerVars
<1>15. ASSUME NEW k \in Task, TaskBegin(k) PROVE SessionInv'
  BY <1>15 DEF TaskBegin, TaskGoes, PlayerGoes, LockMsg, clientVars,
      speakerVars, queueVars
<1>16. ASSUME NEW k \in Task, TaskCheck(k) PROVE SessionInv'
  BY <1>16 DEF TaskCheck, TaskGoes, atomicVars, clientVars, soundVars,
      queueVars, playerVars, speakerVars
<1>17. ASSUME NEW k \in Task, TaskReceive(k) PROVE SessionInv'
  BY <1>17 DEF TaskReceive, TaskGoes, UnlockMsg, atomicVars, clientVars,
      soundVars, playerVars, speakerVars
<1>18. ASSUME NEW k \in Task, TaskWait(k) PROVE SessionInv'
  BY <1>18 DEF TaskWait, TaskGoes, UnlockMsg, atomicVars, clientVars,
      soundVars, queueVars, playerVars, speakerVars
<1>19. ASSUME NEW k \in Task, TaskWakeup(k) PROVE SessionInv'
  BY <1>19 DEF TaskWakeup, TaskGoes, LockMsg, atomicVars, clientVars,
      soundVars, queueVars, playerVars, speakerVars
<1>20. ASSUME NEW k \in Task, TaskProcess(k) PROVE SessionInv'
  BY <1>20 DEF TaskProcess, TaskGoes, clientVars, soundVars, queueVars,
      playerVars, speakerVars
<1>21. ASSUME NEW k \in Task, TaskRelock(k) PROVE SessionInv'
  BY <1>21 DEF TaskRelock, TaskGoes, LockMsg, atomicVars, clientVars,
      soundVars, queueVars, playerVars, speakerVars
<1>22. ASSUME NEW k \in Task, TaskStop(k) PROVE SessionInv'
  BY <1>22 DEF TaskStop, TaskGoes, clientVars, soundVars, queueVars,
      playerVars, speakerVars
<1>23. ASSUME NEW k \in Task, TaskUnlock(k) PROVE SessionInv'
  BY <1>23 DEF TaskUnlock, TaskGoes, UnlockMsg, atomicVars, clientVars,
      soundVars, queueVars, playerVars, speakerVars
<1>24. ASSUME NEW k \in Task, TaskWindDown(k) PROVE SessionInv'
  BY <1>24 DEF TaskWindDown, TaskGoes, StopPlayer, clientVars, soundVars,
      queueVars, playerVars, speakerVars
<1>25. ASSUME NEW k \in Task, TaskJoin(k) PROVE SessionInv'
  BY <1>25 DEF TaskJoin, TaskGoes, PlayerGone, clientVars, soundVars,
      queueVars, playerVars, speakerVars
<1>26. ASSUME NEW k \in Task, TaskSpuriousWakeup(k) PROVE SessionInv'
  BY <1>26 DEF TaskSpuriousWakeup, TaskGoes, atomicVars, clientVars, soundVars,
      queueVars, playerVars, speakerVars
<1>27. ASSUME NEW k \in Task, PlayerStep(k) PROVE SessionInv'
  BY <1>27 DEF atomicVars, clientVars, taskVars, PlayerStep, PlayerCheck,
      PlayerFetch, PlayerSound, PlayerLeave, PlayerHush
<1>28. CASE UNCHANGED vars
  BY <1>28 DEF vars, atomicVars, clientVars, taskVars
<1>29. ASSUME NEW c \in Client, NEW d \in Client,
              Audio_initRaced(c, d) \/ Audio_endRaced(c, d)
       PROVE  SessionInv'
  BY <1>29, RacedMoves DEF TaskPlace, LoopPlace
<1>30. QED
  BY <1>1, <1>2, <1>3, <1>4, <1>5, <1>6, <1>7, <1>8, <1>9, <1>10, <1>11, <1>12,
      <1>13, <1>14, <1>15, <1>16, <1>17, <1>18, <1>19, <1>20, <1>21, <1>22,
      <1>23, <1>24, <1>25, <1>26, <1>27, <1>28, <1>29 DEF Next, Call, ClientStep,
      TaskStep

LEMMA MutexStep == IInv /\ [Next]_vars => MutexInv'
<1> SUFFICES ASSUME IInv, [Next]_vars PROVE MutexInv'
  OBVIOUS
<1> USE AudioAssumption, QueueAssumption
<1> USE DEF IInv, OwnerInv, HoldsAudioMutex, AwaitsTask, TypeInv, AudioTypeOK, InHand,
        EndInv, SessionInv, MutexInv, Looping, ClientPlace, SendPlace, EndPlace, TaskPlace,
        LoopPlace, Message, Task
<1>1. ASSUME NEW c \in Client, Audio_initBegin(c) PROVE MutexInv'
  BY <1>1 DEF Audio_initBegin, MsgMutexInit, ClientGoes, atomicVars, taskVars, soundVars,
      playerVars, speakerVars
<1>2. ASSUME NEW c \in Client, Audio_startCreate(c) PROVE MutexInv'
  BY <1>2 DEF Audio_startCreate, ClientGoes, StartLocks, atomicVars, soundVars,
      queueVars, playerVars, speakerVars
<1>3. ASSUME NEW c \in Client, Audio_PlayTrack(c) PROVE MutexInv'
  BY <1>3 DEF Audio_PlayTrack, ClientGoes, atomicVars, taskVars, soundVars,
      queueVars, playerVars, speakerVars
<1>4. ASSUME NEW c \in Client, Audio_endBegin(c) PROVE MutexInv'
  BY <1>4 DEF Audio_endBegin, ClientGoes, AnnounceEnd, taskVars, soundVars,
      queueVars, playerVars, speakerVars
<1>5. ASSUME NEW c \in Client, Audio_initFinish(c) PROVE MutexInv'
  BY <1>5 DEF Audio_initFinish, ClientGoes, Speaker_InitSucceeds,
      Speaker_InitFails, taskVars, playerVars, queueVars, speakerVars
<1>6. ASSUME NEW c \in Client, Audio_startPublish(c) PROVE MutexInv'
  BY <1>6 DEF Audio_startPublish, ClientGoes, taskVars, soundVars, queueVars,
      playerVars, speakerVars
<1>7. ASSUME NEW c \in Client, SendMessageLock(c) PROVE MutexInv'
  BY <1>7 DEF SendMessageLock, ClientGoes, LockMsg, atomicVars, taskVars,
      soundVars, queueVars, playerVars, speakerVars
<1>8. ASSUME NEW c \in Client, SendMessageRefused(c) PROVE MutexInv'
  BY <1>8 DEF SendMessageRefused, ClientGoes, AfterSend, atomicVars, taskVars,
      soundVars, queueVars, playerVars, speakerVars
<1>9. ASSUME NEW c \in Client, SendMessageEnqueue(c) PROVE MutexInv'
  BY <1>9 DEF SendMessageEnqueue, ClientGoes, Signal, TaskGoes, atomicVars,
      soundVars, playerVars, speakerVars
<1>10. ASSUME NEW c \in Client, SendMessageUnlock(c) PROVE MutexInv'
  BY <1>10 DEF SendMessageUnlock, ClientGoes, UnlockMsg, AfterSend, atomicVars,
      taskVars, soundVars, queueVars, playerVars, speakerVars
<1>11. ASSUME NEW c \in Client, Audio_endJoin(c) PROVE MutexInv'
  BY <1>11 DEF Audio_endJoin, ClientGoes, TaskGone, AudioThread, atomicVars,
      taskVars, soundVars, queueVars, playerVars, speakerVars
<1>12. ASSUME NEW c \in Client, Audio_endDeInit(c) PROVE MutexInv'
  BY <1>12 DEF Audio_endDeInit, ClientGoes, Speaker_DeInit, atomicVars,
      taskVars, playerVars, speakerVars, queueVars
<1>13. ASSUME NEW c \in Client, Audio_endDestroy(c) PROVE MutexInv'
  BY <1>13 DEF Audio_endDestroy, ClientGoes, atomicVars, taskVars, soundVars,
      queueVars, playerVars, speakerVars
<1>14. ASSUME NEW c \in Client, Audio_endFinish(c) PROVE MutexInv'
  BY <1>14 DEF Audio_endFinish, ClientGoes, EndBusy, taskVars, soundVars,
      queueVars, playerVars, speakerVars
<1>15. ASSUME NEW k \in Task, TaskBegin(k) PROVE MutexInv'
  BY <1>15 DEF TaskBegin, TaskGoes, PlayerGoes, LockMsg, clientVars,
      speakerVars, queueVars
<1>16. ASSUME NEW k \in Task, TaskCheck(k) PROVE MutexInv'
  BY <1>16 DEF TaskCheck, TaskGoes, atomicVars, clientVars, soundVars,
      queueVars, playerVars, speakerVars
<1>17. ASSUME NEW k \in Task, TaskReceive(k) PROVE MutexInv'
  BY <1>17 DEF TaskReceive, TaskGoes, UnlockMsg, atomicVars, clientVars,
      soundVars, playerVars, speakerVars
<1>18. ASSUME NEW k \in Task, TaskWait(k) PROVE MutexInv'
  BY <1>18 DEF TaskWait, TaskGoes, UnlockMsg, atomicVars, clientVars,
      soundVars, queueVars, playerVars, speakerVars
<1>19. ASSUME NEW k \in Task, TaskWakeup(k) PROVE MutexInv'
  BY <1>19 DEF TaskWakeup, TaskGoes, LockMsg, atomicVars, clientVars,
      soundVars, queueVars, playerVars, speakerVars
<1>20. ASSUME NEW k \in Task, TaskProcess(k) PROVE MutexInv'
  BY <1>20 DEF TaskProcess, TaskGoes, clientVars, soundVars, queueVars,
      playerVars, speakerVars
<1>21. ASSUME NEW k \in Task, TaskRelock(k) PROVE MutexInv'
  BY <1>21 DEF TaskRelock, TaskGoes, LockMsg, atomicVars, clientVars,
      soundVars, queueVars, playerVars, speakerVars
<1>22. ASSUME NEW k \in Task, TaskStop(k) PROVE MutexInv'
  BY <1>22 DEF TaskStop, TaskGoes, clientVars, soundVars, queueVars,
      playerVars, speakerVars
<1>23. ASSUME NEW k \in Task, TaskUnlock(k) PROVE MutexInv'
  BY <1>23 DEF TaskUnlock, TaskGoes, UnlockMsg, atomicVars, clientVars,
      soundVars, queueVars, playerVars, speakerVars
<1>24. ASSUME NEW k \in Task, TaskWindDown(k) PROVE MutexInv'
  BY <1>24 DEF TaskWindDown, TaskGoes, StopPlayer, clientVars, soundVars,
      queueVars, playerVars, speakerVars
<1>25. ASSUME NEW k \in Task, TaskJoin(k) PROVE MutexInv'
  BY <1>25 DEF TaskJoin, TaskGoes, PlayerGone, clientVars, soundVars,
      queueVars, playerVars, speakerVars
<1>26. ASSUME NEW k \in Task, TaskSpuriousWakeup(k) PROVE MutexInv'
  BY <1>26 DEF TaskSpuriousWakeup, TaskGoes, atomicVars, clientVars, soundVars,
      queueVars, playerVars, speakerVars
<1>27. ASSUME NEW k \in Task, PlayerStep(k) PROVE MutexInv'
  BY <1>27 DEF atomicVars, clientVars, taskVars, PlayerStep, PlayerCheck,
      PlayerFetch, PlayerSound, PlayerLeave, PlayerHush
<1>28. CASE UNCHANGED vars
  BY <1>28 DEF vars, atomicVars, clientVars, taskVars
<1>29. ASSUME NEW c \in Client, NEW d \in Client,
              Audio_initRaced(c, d) \/ Audio_endRaced(c, d)
       PROVE  MutexInv'
  <2>1. \A k \in Task : ~Looping(k) => ~Looping(k)'
    BY <1>29, RacedMoves DEF LoopPlace
  <2>2. \A b \in Client \ {c, d} : cpc'[b] = cpc[b]
    BY <1>29, RacedMoves
  <2>3. CASE MsgMutex' = Nobody
    BY <2>3
  <2>4. CASE /\ cpc[c] \in {"end_ok", "end_busy"} /\ cpc'[c] = "idle" /\ cpc'[d] = "unlock"
             /\ MyState' = IF cpc[c] = "end_ok" THEN "Ended" ELSE MyState
             /\ UNCHANGED MsgMutex
    <3> SUFFICES ASSUME MsgMutex' = Destroyed PROVE MutexInv'
      BY DEF MutexInv
    <3>1. /\ MyState = "Ended" \/ \E b \in Client : cpc[b] = "end_ok"
          /\ \A b \in Client : cpc[b] \notin {"init_speaker", "start_publish"}
          /\ \A k \in Task : ~Looping(k)
      BY <2>4
    <3>2. \A b \in Client : cpc'[b] \notin {"init_speaker", "start_publish"}
      BY <2>2, <2>4, <3>1
    <3>3. MyState' = "Ended" \/ \E b \in Client : cpc'[b] = "end_ok"
      BY <2>2, <2>4, <3>1, <1>29, RacedMoves
    <3>4. QED
      BY <2>1, <3>1, <3>2, <3>3
  <2>5. QED
    BY <1>29, <2>3, <2>4, RacedMoves DEF MsgMutexInit
<1>30. QED
  BY <1>1, <1>2, <1>3, <1>4, <1>5, <1>6, <1>7, <1>8, <1>9, <1>10, <1>11, <1>12,
      <1>13, <1>14, <1>15, <1>16, <1>17, <1>18, <1>19, <1>20, <1>21, <1>22,
      <1>23, <1>24, <1>25, <1>26, <1>27, <1>28, <1>29 DEF Next, Call, ClientStep,
      TaskStep

LEMMA InvInit == Init => IInv
  BY TypeInit, AudioAssumption DEF Init, IInv, OwnerInv, SessionInv, EndInv, MutexInv,
     HoldsAudioMutex, AwaitsTask, Looping, SendPlace, EndPlace, LoopPlace

LEMMA InvStep == IInv /\ [Next]_vars => IInv'
<1>1. IInv => TypeInv
  BY DEF IInv
<1>2. QED
  BY <1>1, TypeStep, OwnerStep, EndStep, SessionStep, MutexStep DEF IInv

-----------------------------------------------------------------------------
\* What wakes the task.

\* A task sleeps only over an empty ring.
WakeInv == \A k \in Task : tpc[k] = "waiting" => MsgQLen = 0

\* Audio_end has sent: the task is awake, and will find a message if it looks.
SentInv == \A c \in Client : EndSent(c) =>
  \A k \in Task : /\ tpc[k] # "waiting"
                  /\ tpc[k] \in {"wakeup", "receive"} => MsgQLen > 0

HeardInv == IInv /\ WakeInv /\ SentInv

\* Whoever has sent the end holds AudioMutex, and MyState says so.
LEMMA SentHolds ==
  ASSUME IInv, NEW c \in Client, EndSent(c)
  PROVE  AudioMutex = c /\ AudioMutex # Nobody /\ MyState = "Ending"
<1>1. AwaitsTask(c)
  BY DEF EndSent, AwaitsTask, SendPlace
<1> QED
  BY <1>1, AudioAssumption DEF IInv, OwnerInv, EndInv, HoldsAudioMutex

\* Of the tasks that sleep, wake or look into the ring there is one at most.
LEMMA OneListener ==
  ASSUME IInv, NEW j \in Task, NEW k \in Task,
         tpc[j] \in {"waiting", "wakeup", "receive"},
         tpc[k] \in {"waiting", "wakeup", "receive"}
  PROVE  j = k
  BY DEF IInv, SessionInv, Looping, LoopPlace

LEMMA RingCount == IInv => MsgQLen \in Nat
  BY QueueAssumption DEF IInv, TypeInv, AudioTypeOK, QueueTypeOK

\* The calls of the clients other than SendMessage.
LEMMA HeardCalls ==
  ASSUME HeardInv, NEW c \in Client,
         Call(c) \/ (ClientStep(c) /\ ~SendMessageEnqueue(c))
  PROVE  (WakeInv /\ SentInv)'
<1> USE DEF HeardInv, WakeInv, SentInv
<1> DEFINE Quiet == /\ UNCHANGED <<tpc, MsgQLen>>
                    /\ \A d \in Client : EndSent(d)' => EndSent(d)
<1>1. cpc \in [Client -> ClientPlace] /\ request \in [Client -> Message \cup {MaxTracks}]
  BY DEF IInv, TypeInv, AudioTypeOK
<1>2. Quiet => (WakeInv /\ SentInv)'
  OBVIOUS
<1>3. ASSUME AudioMutex = Nobody, cpc'[c] \notin {"unlock", "end_join"},
             \A d \in Client : d # c => cpc'[d] = cpc[d] /\ request'[d] = request[d]
      PROVE  \A d \in Client : ~EndSent(d)'
  <2>1. \A d \in Client : ~EndSent(d)
    BY <1>3, SentHolds
  <2> QED  BY <1>3, <2>1 DEF EndSent
<1>4. CASE Audio_initBegin(c)
  <2>1. UNCHANGED tpc /\ MsgQLen' = 0
    BY <1>4 DEF Audio_initBegin, taskVars, InitMessaging
  <2>2. \A d \in Client : ~EndSent(d)'
    BY <1>1, <1>3, <1>4 DEF Audio_initBegin, ClientGoes
  <2> QED  BY <2>1, <2>2
<1>5. CASE Audio_startCreate(c)
  <2>1. \A d \in Client : ~EndSent(d)'
    BY <1>1, <1>3, <1>5 DEF Audio_startCreate, ClientGoes
  <2>2. UNCHANGED MsgQLen /\ \A k \in Task : tpc'[k] = "waiting" => tpc[k] = "waiting"
    BY <1>5 DEF Audio_startCreate, queueVars, IInv, TypeInv, AudioTypeOK
  <2> QED  BY <2>1, <2>2
<1>6. CASE Audio_PlayTrack(c)
  <2>1. Quiet
    BY <1>1, <1>6 DEF Audio_PlayTrack, ClientGoes, queueVars, taskVars, EndSent
  <2> QED  BY <1>2, <2>1
<1>7. CASE Audio_endBegin(c)
  <2>1. UNCHANGED <<tpc, MsgQLen>> /\ AudioMutex = Nobody
    BY <1>7 DEF Audio_endBegin, queueVars, taskVars
  <2>2. \A d \in Client : ~EndSent(d)'
    BY <1>1, <1>3, <1>7 DEF Audio_endBegin, ClientGoes
  <2> QED  BY <2>1, <2>2
<1>8. CASE Audio_initFinish(c)
  BY <1>1, <1>2, <1>8 DEF Audio_initFinish, ClientGoes, queueVars, taskVars, EndSent
<1>9. CASE Audio_startPublish(c)
  BY <1>1, <1>2, <1>9 DEF Audio_startPublish, ClientGoes, queueVars, taskVars, EndSent
<1>10. CASE SendMessageLock(c)
  BY <1>1, <1>2, <1>10 DEF SendMessageLock, ClientGoes, queueVars, taskVars, EndSent
<1>11. CASE SendMessageRefused(c)
  <2>1. \A k \in Task : tpc'[k] \notin {"waiting", "wakeup", "receive"}
    BY <1>11 DEF SendMessageRefused, taskVars, IInv, MutexInv, Looping, LoopPlace
  <2> QED  BY <2>1
<1>12. CASE SendMessageUnlock(c)
  <2>1. UNCHANGED <<tpc, MsgQLen>>
    BY <1>12 DEF SendMessageUnlock, queueVars, taskVars
  <2>2. \A d \in Client : EndSent(d)' => EndSent(d)
    BY <1>1, <1>12 DEF SendMessageUnlock, ClientGoes, AfterSend, EndSent
  <2> QED  BY <1>2, <2>1, <2>2
<1>13. CASE Audio_endJoin(c)
  BY <1>1, <1>2, <1>13 DEF Audio_endJoin, ClientGoes, queueVars, taskVars, EndSent
<1>14. CASE Audio_endDeInit(c)
  BY <1>1, <1>2, <1>14 DEF Audio_endDeInit, ClientGoes, queueVars, taskVars, EndSent
<1>15. CASE Audio_endDestroy(c)
  BY <1>1, <1>2, <1>15 DEF Audio_endDestroy, ClientGoes, queueVars, taskVars, EndSent
<1>16. CASE Audio_endFinish(c)
  <2>1. AudioMutex = c /\ cpc[c] \in {"end_ok", "end_busy"}
    BY <1>16 DEF Audio_endFinish, ClientGoes, IInv, OwnerInv, HoldsAudioMutex, EndPlace
  <2>2. \A d \in Client : ~EndSent(d)
    BY <2>1, SentHolds DEF EndSent
  <2>3. \A d \in Client : ~EndSent(d)'
    BY <1>1, <1>16, <2>2 DEF Audio_endFinish, ClientGoes, EndSent
  <2>4. UNCHANGED tpc /\ MsgQLen' \in {0, MsgQLen}
    BY <1>16 DEF Audio_endFinish, DropMessages, queueVars, taskVars
  <2> QED  BY <2>3, <2>4
<1>17. ASSUME NEW d \in Client, Audio_initRaced(c, d) \/ Audio_endRaced(c, d)
       PROVE  (WakeInv /\ SentInv)'
  <2>1. Signal /\ MsgQLen' > 0
    BY <1>17, RingCount DEF Audio_initRaced, Audio_endRaced, InitMessagingRaced,
       DropMessagesRaced
  <2>2. \A k \in Task : tpc'[k] # "waiting"
    BY <2>1, OneListener DEF Signal, TaskGoes, IInv, TypeInv, AudioTypeOK
  <2> QED  BY <2>1, <2>2
<1> QED
  BY <1>4, <1>5, <1>6, <1>7, <1>8, <1>9, <1>10, <1>11, <1>12, <1>13, <1>14, <1>15,
     <1>16, <1>17 DEF Call, ClientStep

\* SendMessage wakes the task, or the ring was full and the task not asleep.
LEMMA HeardSend ==
  ASSUME HeardInv, NEW c \in Client, SendMessageEnqueue(c)
  PROVE  (WakeInv /\ SentInv)'
<1>1. MsgQLen \in Nat /\ tpc \in [Task -> TaskPlace]
  BY RingCount DEF HeardInv, IInv, TypeInv, AudioTypeOK
<1>2. MsgQLen' > 0
  BY <1>1, QueueAssumption DEF SendMessageEnqueue, SendMessage, QueueFull, queueVars
<1>3. \A k \in Task : tpc'[k] # "waiting"
  <2>1. CASE QueueFull
    <3>1. UNCHANGED tpc /\ MsgQLen > 0
      BY <1>1, <2>1, QueueAssumption DEF SendMessageEnqueue, QueueFull
    <3> QED  BY <1>1, <3>1 DEF HeardInv, WakeInv
  <2>2. CASE ~QueueFull
    <3>1. Signal
      BY <2>2 DEF SendMessageEnqueue
    <3> QED  BY <1>1, <3>1, OneListener DEF Signal, TaskGoes, HeardInv
  <2> QED  BY <2>1, <2>2
<1> QED  BY <1>2, <1>3 DEF WakeInv, SentInv

\* The task's own steps, and a wake-up for nothing.
LEMMA HeardTask ==
  ASSUME HeardInv, NEW k \in Task, TaskStep(k) \/ TaskSpuriousWakeup(k)
  PROVE  (WakeInv /\ SentInv)'
<1> DEFINE Listens(p) == p \in {"waiting", "wakeup", "receive"}
<1>1. /\ tpc \in [Task -> TaskPlace] /\ MsgQLen \in Nat
      /\ UNCHANGED cpc /\ UNCHANGED request
  <2>1. UNCHANGED clientVars
    BY DEF TaskStep, TaskBegin, TaskCheck, TaskReceive, TaskWait, TaskWakeup, TaskProcess,
       TaskRelock, TaskStop, TaskUnlock, TaskWindDown, TaskJoin, TaskSpuriousWakeup
  <2> QED  BY <2>1, RingCount DEF clientVars, HeardInv, IInv, TypeInv, AudioTypeOK
<1>2. \A c \in Client : EndSent(c)' <=> EndSent(c)
  BY <1>1 DEF EndSent
<1>3. \A c \in Client : EndSent(c) => MyState = "Ending"
  BY SentHolds DEF HeardInv
<1> USE DEF WakeInv, SentInv
<1>4. CASE TaskCheck(k)
  <2>1. UNCHANGED MsgQLen /\ \A j \in Task : j # k => tpc'[j] = tpc[j]
    BY <1>1, <1>4 DEF TaskCheck, TaskGoes, queueVars
  <2>2. tpc'[k] \in {"receive", "stop"} /\ (MyState # "Running" => tpc'[k] = "stop")
    BY <1>1, <1>4 DEF TaskCheck, TaskGoes
  <2> QED  BY <1>2, <1>3, <2>1, <2>2 DEF HeardInv
<1>5. CASE TaskReceive(k)
  <2>1. /\ tpc[k] = "receive" /\ tpc'[k] = "process" /\ MsgQLen' = MsgQLen - 1
        /\ \A j \in Task : j # k => tpc'[j] = tpc[j]
    BY <1>1, <1>5 DEF TaskReceive, TaskGoes, GetMessage
  <2>2. \A j \in Task : ~Listens(tpc'[j])
    BY <2>1, OneListener DEF HeardInv
  <2> QED  BY <2>2
<1>6. CASE TaskWait(k)
  <2>1. /\ tpc[k] = "receive" /\ MsgQLen = 0 /\ UNCHANGED MsgQLen
    BY <1>1, <1>6 DEF TaskWait, TaskGoes, queueVars
  <2>2. \A c \in Client : ~EndSent(c)
    BY <2>1 DEF HeardInv
  <2> QED  BY <1>2, <2>1, <2>2
<1>7. CASE TaskSpuriousWakeup(k)
  <2>1. tpc[k] = "waiting"
    BY <1>7 DEF TaskSpuriousWakeup, TaskGoes
  <2>2. \A c \in Client : ~EndSent(c)
    BY <2>1 DEF HeardInv
  <2>3. UNCHANGED MsgQLen /\ \A j \in Task : tpc'[j] = "waiting" => tpc[j] = "waiting"
    BY <1>1, <1>7 DEF TaskSpuriousWakeup, TaskGoes, queueVars
  <2> QED  BY <1>2, <2>2, <2>3 DEF HeardInv
<1>8. CASE TaskWakeup(k)
  <2>1. /\ tpc[k] = "wakeup" /\ tpc'[k] = "receive" /\ UNCHANGED MsgQLen
        /\ \A j \in Task : j # k => tpc'[j] = tpc[j]
    BY <1>1, <1>8 DEF TaskWakeup, TaskGoes, queueVars
  <2> QED  BY <1>2, <2>1 DEF HeardInv
<1>9. CASE TaskStep(k) /\ ~(TaskCheck(k) \/ TaskReceive(k) \/ TaskWait(k) \/ TaskWakeup(k))
  <2>1. /\ UNCHANGED MsgQLen
        /\ tpc'[k] \in {"check", "relock", "kill", "stop", "unlock", "wind_down", "join", "done"}
        /\ \A j \in Task : j # k => tpc'[j] = tpc[j]
    BY <1>1, <1>9 DEF TaskStep, TaskBegin, TaskProcess, TaskRelock, TaskStop, TaskUnlock,
       TaskWindDown, TaskJoin, TaskGoes, queueVars
  <2> QED  BY <1>2, <2>1 DEF HeardInv
<1> QED  BY <1>4, <1>5, <1>6, <1>7, <1>8, <1>9 DEF TaskStep

LEMMA HeardAlways == Spec => []HeardInv
<1>1. Init => HeardInv
  BY InvInit DEF Init, HeardInv, WakeInv, SentInv, EndSent
<1>2. HeardInv /\ [Next]_vars => HeardInv'
  <2> SUFFICES ASSUME HeardInv, [Next]_vars PROVE (WakeInv /\ SentInv)'
    BY InvStep DEF HeardInv
  <2>1. ASSUME NEW c \in Client, Call(c) \/ ClientStep(c) PROVE (WakeInv /\ SentInv)'
    BY <2>1, HeardCalls, HeardSend
  <2>2. ASSUME NEW k \in Task, TaskStep(k) \/ TaskSpuriousWakeup(k)
        PROVE  (WakeInv /\ SentInv)'
    BY <2>2, HeardTask
  <2>3. ASSUME NEW k \in Task, PlayerStep(k) PROVE UNCHANGED <<MsgQLen, tpc, cpc, request>>
    BY <2>3 DEF PlayerStep, PlayerCheck, PlayerFetch, PlayerSound, PlayerLeave, PlayerHush,
       queueVars, clientVars, taskVars
  <2>4. CASE UNCHANGED vars
    BY <2>4 DEF vars, queueVars, clientVars, taskVars, HeardInv, WakeInv, SentInv, EndSent
  <2>5. CASE UNCHANGED <<MsgQLen, tpc, cpc, request>>
    BY <2>5 DEF HeardInv, WakeInv, SentInv, EndSent
  <2> QED  BY <2>1, <2>2, <2>3, <2>4, <2>5 DEF Next
<1> QED  BY <1>1, <1>2, PTL DEF Spec

\* Audio_end is not slept through and never returns ERROR_TASK_RUNNING
\* (Audio.c:214-216, 244, 296-299), for any ring, any number of clients and
\* whatever calls fail.
THEOREM EndGetsThrough == Spec => []EndGoesThrough
<1>1. HeardInv => EndGoesThrough
  BY DEF HeardInv, SentInv, IInv, EndInv, EndGoesThrough
<1> QED  BY <1>1, HeardAlways, PTL

-----------------------------------------------------------------------------
\* The speaker is closed when the service has ended or is just about to.
ClosedInv ==
  /\ MyState = "Ended" => Speaker = "SPEAKER_ENDED"
  /\ \A c \in Client : cpc[c] \in {"end_destroy", "end_ok", "end_busy"}
                         => Speaker = "SPEAKER_ENDED"

\* Tasks are numbered in the order of their creation.
TasksInv == \A k \in Task : k > created => tpc[k] = "none"

\* Unless it is being made anew, the mutex of a service that has ended is destroyed,
\* or was never used.
EndedInv ==
  /\ \A c \in Client : cpc[c] = "end_ok" => MsgMutex = Destroyed
  /\ MyState = "Ended" /\ (\A c \in Client : cpc[c] # "init_speaker")
       => \/ MsgMutex = Destroyed
          \/ /\ MsgMutex = Nobody
             /\ \A c \in Client : cpc[c] = "idle"
             /\ \A k \in Task : ~Looping(k)

\* Speaker_Init opens the speaker only on the way to Inited.
LEMMA ClosedStep == IInv /\ ClosedInv /\ [Next]_vars => ClosedInv'
<1> SUFFICES ASSUME IInv, ClosedInv, [Next]_vars PROVE ClosedInv'
  OBVIOUS
<1> USE AudioAssumption, QueueAssumption
<1> USE DEF IInv, OwnerInv, HoldsAudioMutex, AwaitsTask, TypeInv, AudioTypeOK, EndInv,
        ClosedInv, ClientPlace, SendPlace, EndPlace, Task
<1>1. ASSUME NEW c \in Client, Audio_initBegin(c) PROVE ClosedInv'
  BY <1>1 DEF Audio_initBegin, MsgMutexInit, ClientGoes, atomicVars, taskVars, soundVars,
      playerVars, speakerVars
<1>2. ASSUME NEW c \in Client, Audio_startCreate(c) PROVE ClosedInv'
  BY <1>2 DEF Audio_startCreate, ClientGoes, StartLocks, atomicVars, soundVars,
      queueVars, playerVars, speakerVars
<1>3. ASSUME NEW c \in Client, Audio_PlayTrack(c) PROVE ClosedInv'
  BY <1>3 DEF Audio_PlayTrack, ClientGoes, atomicVars, taskVars, soundVars,
      queueVars, playerVars, speakerVars
<1>4. ASSUME NEW c \in Client, Audio_endBegin(c) PROVE ClosedInv'
  BY <1>4 DEF Audio_endBegin, ClientGoes, AnnounceEnd, taskVars, soundVars,
      queueVars, playerVars, speakerVars
<1>5. ASSUME NEW c \in Client, Audio_initFinish(c) PROVE ClosedInv'
  BY <1>5 DEF Audio_initFinish, ClientGoes, Speaker_InitSucceeds,
      Speaker_InitFails, taskVars, playerVars, queueVars, speakerVars
<1>6. ASSUME NEW c \in Client, Audio_startPublish(c) PROVE ClosedInv'
  BY <1>6 DEF Audio_startPublish, ClientGoes, taskVars, soundVars, queueVars,
      playerVars, speakerVars
<1>7. ASSUME NEW c \in Client, SendMessageLock(c) PROVE ClosedInv'
  BY <1>7 DEF SendMessageLock, ClientGoes, LockMsg, atomicVars, taskVars,
      soundVars, queueVars, playerVars, speakerVars
<1>8. ASSUME NEW c \in Client, SendMessageRefused(c) PROVE ClosedInv'
  BY <1>8 DEF SendMessageRefused, ClientGoes, AfterSend, atomicVars, taskVars,
      soundVars, queueVars, playerVars, speakerVars
<1>9. ASSUME NEW c \in Client, SendMessageEnqueue(c) PROVE ClosedInv'
  BY <1>9 DEF SendMessageEnqueue, ClientGoes, Signal, TaskGoes, atomicVars,
      soundVars, playerVars, speakerVars
<1>10. ASSUME NEW c \in Client, SendMessageUnlock(c) PROVE ClosedInv'
  BY <1>10 DEF SendMessageUnlock, ClientGoes, UnlockMsg, AfterSend, atomicVars,
      taskVars, soundVars, queueVars, playerVars, speakerVars
<1>11. ASSUME NEW c \in Client, Audio_endJoin(c) PROVE ClosedInv'
  BY <1>11 DEF Audio_endJoin, ClientGoes, TaskGone, AudioThread, atomicVars,
      taskVars, soundVars, queueVars, playerVars, speakerVars
<1>12. ASSUME NEW c \in Client, Audio_endDeInit(c) PROVE ClosedInv'
  BY <1>12 DEF Audio_endDeInit, ClientGoes, Speaker_DeInit, atomicVars,
      taskVars, playerVars, speakerVars, queueVars
<1>13. ASSUME NEW c \in Client, Audio_endDestroy(c) PROVE ClosedInv'
  BY <1>13 DEF Audio_endDestroy, ClientGoes, atomicVars, taskVars, soundVars,
      queueVars, playerVars, speakerVars
<1>14. ASSUME NEW c \in Client, Audio_endFinish(c) PROVE ClosedInv'
  BY <1>14 DEF Audio_endFinish, ClientGoes, EndBusy, taskVars, soundVars,
      queueVars, playerVars, speakerVars
<1>15. ASSUME NEW k \in Task, TaskBegin(k) PROVE ClosedInv'
  BY <1>15 DEF TaskBegin, TaskGoes, PlayerGoes, LockMsg, clientVars,
      speakerVars, queueVars
<1>16. ASSUME NEW k \in Task, TaskCheck(k) PROVE ClosedInv'
  BY <1>16 DEF TaskCheck, TaskGoes, atomicVars, clientVars, soundVars,
      queueVars, playerVars, speakerVars
<1>17. ASSUME NEW k \in Task, TaskReceive(k) PROVE ClosedInv'
  BY <1>17 DEF TaskReceive, TaskGoes, UnlockMsg, atomicVars, clientVars,
      soundVars, playerVars, speakerVars
<1>18. ASSUME NEW k \in Task, TaskWait(k) PROVE ClosedInv'
  BY <1>18 DEF TaskWait, TaskGoes, UnlockMsg, atomicVars, clientVars,
      soundVars, queueVars, playerVars, speakerVars
<1>19. ASSUME NEW k \in Task, TaskWakeup(k) PROVE ClosedInv'
  BY <1>19 DEF TaskWakeup, TaskGoes, LockMsg, atomicVars, clientVars,
      soundVars, queueVars, playerVars, speakerVars
<1>20. ASSUME NEW k \in Task, TaskProcess(k) PROVE ClosedInv'
  BY <1>20 DEF TaskProcess, TaskGoes, clientVars, soundVars, queueVars,
      playerVars, speakerVars
<1>21. ASSUME NEW k \in Task, TaskRelock(k) PROVE ClosedInv'
  BY <1>21 DEF TaskRelock, TaskGoes, LockMsg, atomicVars, clientVars,
      soundVars, queueVars, playerVars, speakerVars
<1>22. ASSUME NEW k \in Task, TaskStop(k) PROVE ClosedInv'
  BY <1>22 DEF TaskStop, TaskGoes, clientVars, soundVars, queueVars,
      playerVars, speakerVars
<1>23. ASSUME NEW k \in Task, TaskUnlock(k) PROVE ClosedInv'
  BY <1>23 DEF TaskUnlock, TaskGoes, UnlockMsg, atomicVars, clientVars,
      soundVars, queueVars, playerVars, speakerVars
<1>24. ASSUME NEW k \in Task, TaskWindDown(k) PROVE ClosedInv'
  BY <1>24 DEF TaskWindDown, TaskGoes, StopPlayer, clientVars, soundVars,
      queueVars, playerVars, speakerVars
<1>25. ASSUME NEW k \in Task, TaskJoin(k) PROVE ClosedInv'
  BY <1>25 DEF TaskJoin, TaskGoes, PlayerGone, clientVars, soundVars,
      queueVars, playerVars, speakerVars
<1>26. ASSUME NEW k \in Task, TaskSpuriousWakeup(k) PROVE ClosedInv'
  BY <1>26 DEF TaskSpuriousWakeup, TaskGoes, atomicVars, clientVars, soundVars,
      queueVars, playerVars, speakerVars
<1>27. ASSUME NEW k \in Task, PlayerStep(k) PROVE ClosedInv'
  BY <1>27 DEF atomicVars, clientVars, taskVars, PlayerStep, PlayerCheck,
      PlayerFetch, PlayerSound, PlayerLeave, PlayerHush,
      Speaker_PlayPitch, speakerVars
<1>28. CASE UNCHANGED vars
  BY <1>28 DEF vars, atomicVars, clientVars, taskVars, soundVars, speakerVars
<1>29. ASSUME NEW c \in Client, NEW d \in Client,
              Audio_initRaced(c, d) \/ Audio_endRaced(c, d)
       PROVE  ClosedInv'
  BY <1>29, RacedMoves DEF soundVars, speakerVars
<1>30. QED
  BY <1>1, <1>2, <1>3, <1>4, <1>5, <1>6, <1>7, <1>8, <1>9, <1>10, <1>11, <1>12,
      <1>13, <1>14, <1>15, <1>16, <1>17, <1>18, <1>19, <1>20, <1>21, <1>22,
      <1>23, <1>24, <1>25, <1>26, <1>27, <1>28, <1>29 DEF Next, Call, ClientStep,
      TaskStep

\* Whoever is between its lock and its unlock owns MsgMutex, and nobody else.
Excludes ==
  /\ \A c \in Client : MsgMutex = c <=> cpc[c] \in {"send", "unlock"}
  /\ \A k \in Task : MsgMutex = k <=> tpc[k] \in {"check", "receive", "stop", "unlock"}

LockInv == /\ TasksInv
           /\ ~remade => Excludes
           /\ ~SpeakerMayFail => ~remade /\ EndedInv

Holding == {"check", "receive", "stop", "unlock"}

\* A task that moves on, and locks MsgMutex, unlocks it or leaves it alone.
LEMMA TaskMoves ==
  ASSUME TypeInv, LockInv, NEW k \in Task, NEW to \in TaskPlace,
         tpc[k] # "none", tpc' = [tpc EXCEPT ![k] = to],
         to \in LoopPlace => tpc[k] \in LoopPlace,
         UNCHANGED <<cpc, created, remade>>,
         MyState' = "Ended" => MyState = "Ended",
         \/ MsgMutex' = MsgMutex /\ (tpc[k] \in Holding <=> to \in Holding)
         \/ MsgMutex = Nobody /\ MsgMutex' = k /\ to \in Holding \ {"unlock"}
         \/ UnlockMsg /\ tpc[k] \in Holding /\ to \notin Holding
  PROVE  LockInv'
<1> USE AudioAssumption
<1>1. tpc \in [Task -> TaskPlace] /\ MsgMutex \in Client \cup Task \cup {Nobody, Destroyed}
  BY DEF TypeInv, AudioTypeOK
<1>2. TasksInv'
  BY <1>1 DEF LockInv, TasksInv, Task
<1>3. ASSUME ~remade PROVE Excludes'
  BY <1>1, <1>3 DEF LockInv, Excludes, Holding, UnlockMsg
<1>4. ASSUME ~SpeakerMayFail PROVE ~remade' /\ EndedInv'
  <2>1. ~remade /\ Excludes /\ EndedInv
    BY <1>4 DEF LockInv
  <2>2. (\A c \in Client : cpc[c] = "end_ok" => MsgMutex = Destroyed)'
    BY <2>1 DEF EndedInv, UnlockMsg
  <2>3. ASSUME MyState' = "Ended", \A c \in Client : cpc[c] # "init_speaker"
        PROVE  \/ MsgMutex' = Destroyed
               \/ /\ MsgMutex' = Nobody
                  /\ \A c \in Client : cpc[c] = "idle"
                  /\ \A j \in Task : ~Looping(j)'
    <3>1. CASE MsgMutex = Destroyed
      BY <3>1 DEF UnlockMsg
    <3>2. CASE MsgMutex # Destroyed
      <4>1. /\ MsgMutex = Nobody
            /\ \A c \in Client : cpc[c] = "idle"
            /\ \A j \in Task : tpc[j] \notin LoopPlace
        BY <2>1, <2>3, <3>2 DEF EndedInv, Looping
      <4>2. tpc[k] \notin Holding
        BY <2>1, <4>1 DEF Excludes, Holding
      <4>3. to \notin LoopPlace
        BY <4>1
      <4>4. MsgMutex' = Nobody
        BY <4>1, <4>2, <4>3 DEF Holding, LoopPlace
      <4>5. QED
        BY <1>1, <4>1, <4>3, <4>4 DEF Looping
    <3>3. QED
      BY <3>1, <3>2
  <2>4. QED
    BY <2>1, <2>2, <2>3 DEF EndedInv
<1>5. QED
  BY <1>2, <1>3, <1>4 DEF LockInv

\* The same for a client inside a call.
LEMMA ClientMoves ==
  ASSUME TypeInv, LockInv, NEW c \in Client, NEW to \in ClientPlace \ {"end_ok"},
         cpc[c] \notin {"idle", "init_speaker"}, cpc' = [cpc EXCEPT ![c] = to],
         UNCHANGED <<tpc, created, remade>>,
         MyState' = "Ended" => MyState = "Ended",
         \/ MsgMutex' = MsgMutex /\ (cpc[c] \in {"send", "unlock"} <=> to \in {"send", "unlock"})
         \/ MsgMutex = Nobody /\ MsgMutex' = c /\ to = "send"
         \/ UnlockMsg /\ cpc[c] = "unlock" /\ to \notin {"send", "unlock"}
  PROVE  LockInv'
<1> USE AudioAssumption
<1>1. cpc \in [Client -> ClientPlace] /\ MsgMutex \in Client \cup Task \cup {Nobody, Destroyed}
  BY DEF TypeInv, AudioTypeOK
<1>2. TasksInv'
  BY DEF LockInv, TasksInv
<1>3. ASSUME ~remade PROVE Excludes'
  BY <1>1, <1>3 DEF LockInv, Excludes, UnlockMsg
<1>4. ASSUME ~SpeakerMayFail PROVE ~remade' /\ EndedInv'
  <2>1. ~remade /\ EndedInv
    BY <1>4 DEF LockInv
  <2>2. MsgMutex = Destroyed => MsgMutex' = Destroyed
    BY DEF UnlockMsg
  <2>3. \A d \in Client : cpc'[d] = "end_ok" => cpc[d] = "end_ok"
    BY <1>1
  <2>4. (\A d \in Client : cpc'[d] # "init_speaker") => \A d \in Client : cpc[d] # "init_speaker"
    BY <1>1
  <2>5. QED
    BY <2>1, <2>2, <2>3, <2>4 DEF EndedInv
<1>5. QED
  BY <1>2, <1>3, <1>4 DEF LockInv

\* The steps of a client that are such moves.
LEMMA ClientLockStep ==
  ASSUME TypeInv, LockInv, NEW c \in Client,
         \/ Audio_startPublish(c) \/ SendMessageLock(c) \/ SendMessageRefused(c)
         \/ SendMessageUnlock(c) \/ Audio_endJoin(c) \/ Audio_endDeInit(c)
  PROVE  LockInv'
<1>1. CASE Audio_startPublish(c)
  BY <1>1, ClientMoves DEF Audio_startPublish, ClientGoes, LockMsg, UnlockMsg, AfterSend,
      ClientPlace, SendPlace, EndPlace, atomicVars, taskVars
<1>2. CASE SendMessageLock(c)
  BY <1>2, ClientMoves DEF SendMessageLock, ClientGoes, LockMsg, UnlockMsg, AfterSend,
      ClientPlace, SendPlace, EndPlace, atomicVars, taskVars
<1>3. CASE SendMessageRefused(c)
  <2>1. CASE cpc' = [cpc EXCEPT ![c] = "end_join"]
    BY <1>3, <2>1, ClientMoves DEF SendMessageRefused, ClientGoes, LockMsg, UnlockMsg,
       AfterSend,
        ClientPlace, SendPlace, EndPlace, atomicVars, taskVars
  <2>2. CASE cpc' = [cpc EXCEPT ![c] = "idle"]
    BY <1>3, <2>2, ClientMoves DEF SendMessageRefused, ClientGoes, LockMsg, UnlockMsg,
       AfterSend,
        ClientPlace, SendPlace, EndPlace, atomicVars, taskVars
  <2>3. QED
    BY <1>3, <2>1, <2>2 DEF SendMessageRefused, ClientGoes, AfterSend
<1>4. CASE SendMessageUnlock(c)
  <2>1. CASE cpc' = [cpc EXCEPT ![c] = "end_join"]
    BY <1>4, <2>1, ClientMoves DEF SendMessageUnlock, ClientGoes, LockMsg, UnlockMsg,
       AfterSend,
        ClientPlace, SendPlace, EndPlace, atomicVars, taskVars
  <2>2. CASE cpc' = [cpc EXCEPT ![c] = "idle"]
    BY <1>4, <2>2, ClientMoves DEF SendMessageUnlock, ClientGoes, LockMsg, UnlockMsg,
       AfterSend,
        ClientPlace, SendPlace, EndPlace, atomicVars, taskVars
  <2>3. QED
    BY <1>4, <2>1, <2>2 DEF SendMessageUnlock, ClientGoes, AfterSend
<1>5. CASE Audio_endJoin(c)
  BY <1>5, ClientMoves DEF Audio_endJoin, ClientGoes, LockMsg, UnlockMsg, AfterSend,
      ClientPlace, SendPlace, EndPlace, atomicVars, taskVars
<1>6. CASE Audio_endDeInit(c)
  <2>1. CASE cpc' = [cpc EXCEPT ![c] = "end_destroy"]
    BY <1>6, <2>1, ClientMoves DEF Audio_endDeInit, ClientGoes, LockMsg, UnlockMsg,
       AfterSend,
        ClientPlace, SendPlace, EndPlace, atomicVars, taskVars
  <2>2. CASE cpc' = [cpc EXCEPT ![c] = "idle"]
    BY <1>6, <2>2, ClientMoves DEF Audio_endDeInit, ClientGoes, LockMsg, UnlockMsg,
       AfterSend,
        ClientPlace, SendPlace, EndPlace, atomicVars, taskVars
  <2>3. QED
    BY <1>6, <2>1, <2>2 DEF Audio_endDeInit, ClientGoes, AfterSend
<1>7. QED
  BY <1>1, <1>2, <1>3, <1>4, <1>5, <1>6

\* The steps of a task are, too.
LEMMA TaskLockStep ==
  ASSUME TypeInv, LockInv, NEW k \in Task, TaskStep(k) \/ TaskSpuriousWakeup(k)
  PROVE  LockInv'
<1>1. CASE TaskBegin(k)
  BY <1>1, TaskMoves DEF TaskBegin, TaskGoes, LockMsg, UnlockMsg, Holding,
      TaskPlace, LoopPlace, atomicVars, clientVars
<1>2. CASE TaskCheck(k)
  <2>1. CASE tpc' = [tpc EXCEPT ![k] = "receive"]
    BY <1>2, <2>1, TaskMoves DEF TaskCheck, TaskGoes, LockMsg, UnlockMsg, Holding,
        TaskPlace, LoopPlace, atomicVars, clientVars
  <2>2. CASE tpc' = [tpc EXCEPT ![k] = "stop"]
    BY <1>2, <2>2, TaskMoves DEF TaskCheck, TaskGoes, LockMsg, UnlockMsg, Holding,
        TaskPlace, LoopPlace, atomicVars, clientVars
  <2>3. QED
    BY <1>2, <2>1, <2>2 DEF TaskCheck, TaskGoes
<1>3. CASE TaskReceive(k)
  BY <1>3, TaskMoves DEF TaskReceive, TaskGoes, LockMsg, UnlockMsg, Holding,
      TaskPlace, LoopPlace, atomicVars, clientVars
<1>4. CASE TaskWait(k)
  BY <1>4, TaskMoves DEF TaskWait, TaskGoes, LockMsg, UnlockMsg, Holding,
      TaskPlace, LoopPlace, atomicVars, clientVars
<1>5. CASE TaskWakeup(k)
  BY <1>5, TaskMoves DEF TaskWakeup, TaskGoes, LockMsg, UnlockMsg, Holding,
      TaskPlace, LoopPlace, atomicVars, clientVars
<1>6. CASE TaskProcess(k)
  <2>1. CASE tpc' = [tpc EXCEPT ![k] = "kill"]
    BY <1>6, <2>1, TaskMoves DEF TaskProcess, TaskGoes, LockMsg, UnlockMsg, Holding,
        TaskPlace, LoopPlace, atomicVars, clientVars
  <2>2. CASE tpc' = [tpc EXCEPT ![k] = "relock"]
    BY <1>6, <2>2, TaskMoves DEF TaskProcess, TaskGoes, LockMsg, UnlockMsg, Holding,
        TaskPlace, LoopPlace, atomicVars, clientVars
  <2>3. QED
    BY <1>6, <2>1, <2>2 DEF TaskProcess, TaskGoes
<1>7. CASE TaskRelock(k)
  <2>1. CASE tpc' = [tpc EXCEPT ![k] = "check"]
    BY <1>7, <2>1, TaskMoves DEF TaskRelock, TaskGoes, LockMsg, UnlockMsg, Holding,
        TaskPlace, LoopPlace, atomicVars, clientVars
  <2>2. CASE tpc' = [tpc EXCEPT ![k] = "stop"]
    BY <1>7, <2>2, TaskMoves DEF TaskRelock, TaskGoes, LockMsg, UnlockMsg, Holding,
        TaskPlace, LoopPlace, atomicVars, clientVars
  <2>3. QED
    BY <1>7, <2>1, <2>2 DEF TaskRelock, TaskGoes
<1>8. CASE TaskStop(k)
  BY <1>8, TaskMoves DEF TaskStop, TaskGoes, LockMsg, UnlockMsg, Holding,
      TaskPlace, LoopPlace, atomicVars, clientVars
<1>9. CASE TaskUnlock(k)
  BY <1>9, TaskMoves DEF TaskUnlock, TaskGoes, LockMsg, UnlockMsg, Holding,
      TaskPlace, LoopPlace, atomicVars, clientVars
<1>10. CASE TaskWindDown(k)
  BY <1>10, TaskMoves DEF TaskWindDown, TaskGoes, LockMsg, UnlockMsg, Holding,
      TaskPlace, LoopPlace, atomicVars, clientVars
<1>11. CASE TaskJoin(k)
  BY <1>11, TaskMoves DEF TaskJoin, TaskGoes, LockMsg, UnlockMsg, Holding,
      TaskPlace, LoopPlace, atomicVars, clientVars
<1>12. CASE TaskSpuriousWakeup(k)
  BY <1>12, TaskMoves DEF TaskSpuriousWakeup, TaskGoes, LockMsg, UnlockMsg, Holding,
      TaskPlace, LoopPlace, atomicVars, clientVars
<1>13. QED
  BY <1>1, <1>2, <1>3, <1>4, <1>5, <1>6, <1>7, <1>8, <1>9,
     <1>10, <1>11, <1>12 DEF TaskStep

\* So is the send itself, but that it may wake a task.
LEMMA SendLockStep ==
  ASSUME TypeInv, LockInv, NEW c \in Client, SendMessageEnqueue(c)
  PROVE  LockInv'
<1>1. /\ cpc \in [Client -> ClientPlace] /\ tpc \in [Task -> TaskPlace]
      /\ cpc[c] = "send" /\ cpc' = [cpc EXCEPT ![c] = "unlock"]
      /\ UNCHANGED <<MsgMutex, MyState, created, remade>>
  BY DEF SendMessageEnqueue, ClientGoes, atomicVars, TypeInv, AudioTypeOK
<1>2. \/ tpc' = tpc
      \/ \E k \in Task : tpc[k] = "waiting" /\ tpc' = [tpc EXCEPT ![k] = "wakeup"]
  BY DEF SendMessageEnqueue, Signal, TaskGoes
<1>3. \A k \in Task : tpc'[k] = tpc[k] \/ (tpc[k] = "waiting" /\ tpc'[k] = "wakeup")
  BY <1>1, <1>2
<1>4. TasksInv'
  BY <1>1, <1>3 DEF LockInv, TasksInv
<1>5. ~remade => Excludes'
  BY <1>1, <1>3 DEF LockInv, Excludes
<1>6. ~SpeakerMayFail => EndedInv'
  BY <1>1, <1>3 DEF LockInv, EndedInv, Looping, LoopPlace
<1>7. QED
  BY <1>1, <1>4, <1>5, <1>6 DEF LockInv

\* A reset that meets a sender inside SendMessage makes its mutex anew.
LEMMA RacedInit ==
  ASSUME LockInv, NEW c \in Client, NEW d \in Client, Audio_initRaced(c, d)
  PROVE  remade'
<1>1. ~remade => MsgMutex = d
  BY DEF LockInv, Excludes, Audio_initRaced, BothGo
<1>2. QED
  BY <1>1, AudioAssumption DEF Audio_initRaced, MsgMutexInit

\* A raced reset either finds the sender with the old mutex and makes a new one,
\* or belongs to an Audio_end that could not destroy it.
LEMMA RacedLockStep ==
  ASSUME IInv, LockInv, NEW c \in Client, NEW d \in Client,
         Audio_initRaced(c, d) \/ Audio_endRaced(c, d)
  PROVE  LockInv'
<1> USE AudioAssumption
<1>1. /\ cpc \in [Client -> ClientPlace]
      /\ c # d /\ cpc[d] = "send" /\ cpc'[d] = "unlock"
      /\ \A b \in Client \ {c, d} : cpc'[b] = cpc[b]
      /\ UNCHANGED created
      /\ \A k \in Task : tpc'[k] = tpc[k] \/ (tpc[k] = "waiting" /\ tpc'[k] = "wakeup")
  BY RacedMoves DEF IInv, TypeInv, AudioTypeOK
<1>2. TasksInv'
  BY <1>1 DEF LockInv, TasksInv
<1>3. ~remade => MsgMutex = d
  BY <1>1 DEF LockInv, Excludes
<1>4. CASE /\ cpc[c] = "idle" /\ MyState = "Ended" /\ AudioMutex = Nobody
           /\ MsgMutexInit
  <2>1. remade'
    BY <1>3, <1>4, AudioAssumption DEF MsgMutexInit
  <2>2. SpeakerMayFail
    <3>1. \A b \in Client : cpc[b] # "init_speaker"
      BY <1>4 DEF IInv, OwnerInv, HoldsAudioMutex
    <3>2. QED
      BY <1>1, <1>3, <1>4, <3>1 DEF LockInv, EndedInv
  <2>3. QED
    BY <1>2, <2>1, <2>2 DEF LockInv
<1>5. CASE /\ cpc[c] \in {"end_ok", "end_busy"} /\ cpc'[c] = "idle"
           /\ MyState' = IF cpc[c] = "end_ok" THEN "Ended" ELSE MyState
           /\ UNCHANGED <<MsgMutex, remade>>
  <2>1. ~remade => Excludes'
    BY <1>1, <1>5 DEF LockInv, Excludes
  <2>2. ASSUME ~SpeakerMayFail PROVE ~remade /\ EndedInv'
    <3>1. ~remade /\ EndedInv /\ MsgMutex # Destroyed
      BY <1>3, <2>2 DEF LockInv
    <3>2. cpc[c] = "end_busy" /\ MyState' # "Ended"
      BY <1>5, <3>1 DEF EndedInv, IInv, EndInv
    <3>3. QED
      BY <1>1, <1>5, <3>1, <3>2 DEF EndedInv
  <2>3. QED
    BY <1>2, <1>5, <2>1, <2>2 DEF LockInv
<1>6. QED
  BY <1>4, <1>5, RacedMoves

\* Every step keeps LockInv.
LEMMA LockStep == IInv /\ ClosedInv /\ LockInv /\ [Next]_vars => LockInv'
<1> SUFFICES ASSUME IInv, ClosedInv, LockInv, [Next]_vars PROVE LockInv'
  OBVIOUS
<1> USE AudioAssumption, QueueAssumption
<1> USE DEF IInv, OwnerInv, HoldsAudioMutex, AwaitsTask, TypeInv, AudioTypeOK, EndInv,
        MutexInv, SessionInv, ClosedInv, LockInv, TasksInv, EndedInv, Looping, ClientPlace, SendPlace,
        EndPlace, TaskPlace, LoopPlace, Excludes, Task
<1>1. ASSUME NEW c \in Client, Audio_initBegin(c) PROVE LockInv'
  <2>1. /\ cpc[c] = "idle" /\ cpc' = [cpc EXCEPT ![c] = "init_speaker"]
        /\ MyState = "Ended" /\ AudioMutex = Nobody
        /\ MsgMutexInit /\ UNCHANGED <<created, tpc>>
    BY <1>1 DEF Audio_initBegin, ClientGoes, taskVars
  <2>2. TasksInv'
    BY <2>1
  <2>3. ASSUME ~remade' PROVE Excludes'
    BY <2>1, <2>3 DEF MsgMutexInit
  <2>4. ASSUME ~SpeakerMayFail PROVE ~remade' /\ EndedInv'
    BY <2>1, <2>4 DEF MsgMutexInit
  <2>5. QED
    BY <2>2, <2>3, <2>4
<1>2. ASSUME NEW c \in Client, Audio_startCreate(c) PROVE LockInv'
  BY <1>2 DEF Audio_startCreate, ClientGoes, StartLocks, atomicVars, soundVars,
      queueVars, playerVars, speakerVars
<1>3. ASSUME NEW c \in Client, Audio_PlayTrack(c) PROVE LockInv'
  BY <1>3 DEF Audio_PlayTrack, ClientGoes, atomicVars, taskVars, soundVars,
      queueVars, playerVars, speakerVars
<1>4. ASSUME NEW c \in Client, Audio_endBegin(c) PROVE LockInv'
  BY <1>4 DEF Audio_endBegin, ClientGoes, AnnounceEnd, taskVars, soundVars,
      queueVars, playerVars, speakerVars
<1>5. ASSUME NEW c \in Client, Audio_initFinish(c) PROVE LockInv'
  BY <1>5 DEF Audio_initFinish, ClientGoes, Speaker_InitSucceeds,
      Speaker_InitFails, taskVars, playerVars, queueVars, speakerVars
<1>6. ASSUME NEW c \in Client, Audio_endDestroy(c) PROVE LockInv'
  BY <1>6 DEF Audio_endDestroy, ClientGoes, atomicVars, taskVars, soundVars,
      queueVars, playerVars, speakerVars
<1>7. ASSUME NEW c \in Client, Audio_endFinish(c) PROVE LockInv'
  BY <1>7 DEF Audio_endFinish, ClientGoes, EndBusy, taskVars, soundVars,
      queueVars, playerVars, speakerVars
<1>8. ASSUME NEW k \in Task, PlayerStep(k) PROVE LockInv'
  BY <1>8 DEF atomicVars, clientVars, taskVars, PlayerStep, PlayerCheck,
      PlayerFetch, PlayerSound, PlayerLeave, PlayerHush,
      Speaker_PlayPitch, speakerVars
<1>9. CASE UNCHANGED vars
  BY <1>9 DEF vars, atomicVars, clientVars, taskVars, soundVars, speakerVars
<1>10. QED
  BY <1>1, <1>2, <1>3, <1>4, <1>5, <1>6, <1>7, <1>8, <1>9, ClientLockStep,
     TaskLockStep, SendLockStep, RacedLockStep DEF Next, Call, ClientStep

LEMMA LockAlways == Spec => [](IInv /\ ClosedInv /\ LockInv)
<1> DEFINE Inv == IInv /\ ClosedInv /\ LockInv
<1>1. Init => Inv
  BY InvInit, AudioAssumption
     DEF Init, ClosedInv, LockInv, TasksInv, EndedInv, Excludes, Looping, LoopPlace
<1>2. Inv /\ [Next]_vars => Inv'
  BY InvStep, ClosedStep, LockStep
<1>3. QED
  BY <1>1, <1>2, PTL DEF Spec

\* Whoever is between the lock and the unlock of MsgMutex owns it, although
\* Audio_end destroys it and Audio_init makes it anew with late callers of
\* Audio_PlayTrack around (Audio.c:226, 252), until it is made anew while held;
\* and that takes a Speaker_Init that failed (Audio.c:149).
THEOREM MutexExcludes == Spec => []MsgMutexExcludes
<1>1. LockInv => MsgMutexExcludes
  BY DEF LockInv, Excludes, MsgMutexExcludes
<1>2. QED
  BY <1>1, LockAlways, PTL

\* No task locks, waits on, holds or unlocks MsgMutex once Audio_end has destroyed
\* it (Audio.c:226), but for the last unlock of a task whose mutex was made anew.
THEOREM MutexSafe == Spec => []MutexOutlivesTask
<1>1. ASSUME IInv, LockInv PROVE MutexOutlivesTask
  <2>1. \A k \in Task : MsgMutex = Destroyed => ~Looping(k)
    BY <1>1 DEF IInv, MutexInv
  <2>2. \A k \in Task : MsgMutex = Destroyed /\ ~remade => tpc[k] # "unlock"
    BY <1>1, AudioAssumption DEF LockInv, Excludes
  <2>3. QED
    BY <2>1, <2>2 DEF MutexOutlivesTask, Active, Looping
<1>2. QED
  BY <1>1, LockAlways, PTL

-----------------------------------------------------------------------------
(* From here on no task has looked at MyState too early (bornEarly), and    *)
(* no held MsgMutex has been made anew (remade).                           *)

NoneAwaited == \A c \in Client : cpc[c] # "start_publish" /\ ~AwaitsTask(c)

\* Audio_start has not yet stored Running, and its task not yet read it.
StartInv == \A c \in Client : cpc[c] = "start_publish" =>
  MyState = "Inited" /\ created \in Task /\ tpc[created] \in {"begin", "check"}

\* A running service has a task in its loop that has not been told to end.
ServedInv == MyState = "Running" =>
  /\ created \in Task
  /\ tpc[created] \in LoopPlace \ {"kill", "stop"}
  /\ tpc[created] = "process" => received[created] # MSG_ID_END

\* Every task but the newest has ended; all have when nobody waits for one.
OldInv  == \A k \in Task : /\ k < created => tpc[k] = "done"
                           /\ k = created => tpc[k] # "none"
OverInv == MyState # "Running" /\ NoneAwaited => \A k \in Task : tpc[k] \in {"none", "done"}

PlaceInv == TasksInv /\ StartInv /\ ServedInv /\ OldInv /\ OverInv

\* An END left on the ring is not there any more when a session begins.
EndQueued == \E i \in 1 .. MsgQLen : Contents[i] = MSG_ID_END
EndMayBe  == \/ MyState = "Ending"
             \/ MyState = "Ended" /\ \A c \in Client : cpc[c] # "init_speaker"
RingInv   == EndQueued => EndMayBe

\* Where the player may be while its task is somewhere.
PlayerInv == \A k \in Task :
  /\ tpc[k] \in {"none", "begin"} => ppc[k] = "none"
  /\ tpc[k] \in (LoopPlace \ {"begin"}) \cup {"unlock", "wind_down"} =>
        PlayerState = "Running" /\ ppc[k] \in {"failed", "check", "fetch", "sound"}
  /\ tpc[k] = "join" => PlayerState = "Ending" /\ ppc[k] # "none"
  /\ tpc[k] = "done" => ppc[k] \in {"failed", "done"}

\* No request, track or pitch outlives the player that has it.
SoundInv ==
  /\ \A k \in Task : ~Alive(k) => CurrTrackID[k] = MaxTracks
  /\ (\A k \in Task : ~Alive(k)) => CurrentFreq = Silence
  /\ Speaker = "SPEAKER_ENDED" => CurrentFreq = Silence
  /\ Speaker = "SPEAKER_INITED" /\ CurrentFreq # Silence => enabled /\ pwm # Silence
  /\ PlayersMade /\ (\A k \in Task : ~Alive(k) \/ ppc[k] = "hush") => NextTrackID = MaxTracks
  /\ PlayersMade /\ MyState = "Inited" =>
        /\ NextTrackID = MaxTracks /\ CurrentFreq = Silence
        /\ \A k \in Task : CurrTrackID[k] = MaxTracks

VoiceInv == Regular => PlaceInv /\ RingInv /\ PlayerInv /\ SoundInv


\* TopMessage is the first of the queued messages.
LEMMA FirstIsTop ==
  ASSUME QueueTypeOK, MsgQLen >= 1
  PROVE  1 \in 1 .. MsgQLen /\ Contents[1] = TopMessage
<1> USE QueueAssumption DEF QueueTypeOK, Slots
<1>1. 1 \in 1 .. MsgQLen /\ (TopMsgIndex + 1 - 1) = TopMsgIndex
  OBVIOUS
<1>2. TopMsgIndex % MSG_Q_LENGTH = TopMsgIndex
  BY ModWrap
<1>3. QED
  BY <1>1, <1>2 DEF Contents, TopMessage

\* What the newest task does decides for all.
LEMMA NewestToo ==
  ASSUME AudioTypeOK, OldInv, \A k \in Task : tpc[k] \in {"none", "done"}
  PROVE  \A k \in Task : k <= created => tpc[k] = "done"
  BY AudioAssumption DEF AudioTypeOK, OldInv, Task

LEMMA NewestLast ==
  ASSUME AudioTypeOK, TasksInv, OldInv, tpc[created] = "done"
  PROVE  \A k \in Task : tpc[k] \in {"none", "done"}
<1>1. created \in Nat /\ Task \subseteq Nat
  BY AudioAssumption DEF AudioTypeOK, Task
<1>2. \A k \in Task : k < created \/ k = created \/ k > created
  BY <1>1
<1>3. QED
  BY <1>2 DEF OldInv, TasksInv

\* The order of Audio_start, its task and Audio_end keeps tasks in their places.
LEMMA PlaceStep ==
  ASSUME IInv, IInv', PlaceInv, RingInv, ~bornEarly, ~bornEarly', [Next]_vars
  PROVE  PlaceInv'
<1> USE AudioAssumption, QueueAssumption
<1> USE DEF IInv, OwnerInv, HoldsAudioMutex, AwaitsTask, TypeInv, AudioTypeOK, InHand,
        EndInv, SessionInv, Looping, ClientPlace, SendPlace, EndPlace, TaskPlace,
        LoopPlace, Message, Task, PlaceInv, TasksInv, StartInv, ServedInv, OldInv, OverInv,
        NoneAwaited
<1>1. ASSUME NEW c \in Client, Audio_initBegin(c) PROVE PlaceInv'
  BY <1>1 DEF Audio_initBegin, ClientGoes, InitMessaging, atomicVars, taskVars
<1>2. ASSUME NEW c \in Client, Audio_startCreate(c) PROVE PlaceInv'
  <2>1. NoneAwaited /\ created' = created + 1 /\ created' \in Task
    BY <1>2 DEF Audio_startCreate, ClientGoes
  <2>2. \A k \in Task : k <= created => tpc[k] = "done"
    <3>1. \A k \in Task : tpc[k] \in {"none", "done"}
      BY <1>2, <2>1 DEF Audio_startCreate
    <3>2. QED
      BY <3>1, NewestToo
  <2>3. /\ tpc'[created'] = "begin"
        /\ \A k \in Task : k # created' => tpc'[k] = tpc[k]
    BY <1>2, <2>1 DEF Audio_startCreate
  <2>4. MyState = "Inited" /\ MyState' = "Inited" /\ cpc' = [cpc EXCEPT ![c] = "start_publish"]
    BY <1>2 DEF Audio_startCreate, ClientGoes, atomicVars
  <2>5. TasksInv' /\ OldInv'
    BY <2>1, <2>2, <2>3
  <2>6. StartInv' /\ ServedInv' /\ OverInv'
    BY <2>1, <2>3, <2>4
  <2>7. QED
    BY <2>5, <2>6
<1>3. ASSUME NEW c \in Client, Audio_PlayTrack(c) PROVE PlaceInv'
  BY <1>3 DEF Audio_PlayTrack, ClientGoes, atomicVars, taskVars
<1>4. ASSUME NEW c \in Client, Audio_endBegin(c) PROVE PlaceInv'
  BY <1>4 DEF Audio_endBegin, ClientGoes, AnnounceEnd, taskVars
<1>5. ASSUME NEW c \in Client, Audio_initFinish(c) PROVE PlaceInv'
  BY <1>5 DEF Audio_initFinish, ClientGoes, Speaker_InitSucceeds, Speaker_InitFails,
     taskVars
<1>6. ASSUME NEW c \in Client, Audio_startPublish(c) PROVE PlaceInv'
  BY <1>6 DEF Audio_startPublish, ClientGoes, taskVars
<1>7. ASSUME NEW c \in Client, SendMessageLock(c) PROVE PlaceInv'
  BY <1>7 DEF SendMessageLock, ClientGoes, atomicVars, taskVars
<1>8. ASSUME NEW c \in Client, SendMessageRefused(c) PROVE PlaceInv'
  BY <1>8 DEF SendMessageRefused, ClientGoes, AfterSend, atomicVars, taskVars
<1>9. ASSUME NEW c \in Client, SendMessageEnqueue(c) PROVE PlaceInv'
  BY <1>9 DEF SendMessageEnqueue, ClientGoes, Signal, TaskGoes, atomicVars
<1>10. ASSUME NEW c \in Client, SendMessageUnlock(c) PROVE PlaceInv'
  BY <1>10 DEF SendMessageUnlock, ClientGoes, AfterSend, atomicVars, taskVars
<1>11. ASSUME NEW c \in Client, Audio_endJoin(c) PROVE PlaceInv'
  <2>1. /\ tpc[created] = "done" /\ AudioMutex = c
        /\ UNCHANGED <<MyState, created, tpc, received>>
        /\ cpc' = [cpc EXCEPT ![c] = "end_deinit"]
    BY <1>11 DEF Audio_endJoin, ClientGoes, TaskGone, AudioThread, atomicVars, taskVars
  <2>2. \A k \in Task : tpc[k] \in {"none", "done"}
    BY <2>1, NewestLast
  <2>3. QED
    BY <2>1, <2>2
<1>12. ASSUME NEW c \in Client, Audio_endDeInit(c) PROVE PlaceInv'
  BY <1>12 DEF Audio_endDeInit, ClientGoes, atomicVars, taskVars
<1>13. ASSUME NEW c \in Client, Audio_endDestroy(c) PROVE PlaceInv'
  BY <1>13 DEF Audio_endDestroy, ClientGoes, atomicVars, taskVars
<1>14. ASSUME NEW c \in Client, Audio_endFinish(c) PROVE PlaceInv'
  BY <1>14 DEF Audio_endFinish, ClientGoes, EndBusy, taskVars
<1>15. ASSUME NEW k \in Task, TaskBegin(k) PROVE PlaceInv'
  BY <1>15 DEF TaskBegin, TaskGoes, clientVars
<1>16. ASSUME NEW k \in Task, TaskCheck(k) PROVE PlaceInv'
  <2>1. MyState # "Inited"
    BY <1>16, Zenon DEF TaskCheck
  <2>2. IF MyState = "Running" THEN TaskGoes(k, "check", "receive") ELSE TaskGoes(k, "check", "stop")
    BY <1>16 DEF TaskCheck
  <2>3. QED
    BY <1>16, <2>1, <2>2 DEF TaskCheck, TaskGoes, atomicVars, clientVars
<1>17. ASSUME NEW k \in Task, TaskReceive(k) PROVE PlaceInv'
  <2>1. MyState = "Running" => TopMessage # MSG_ID_END
    <3>1. MsgQLen >= 1
      BY <1>17 DEF TaskReceive, GetMessage
    <3>2. 1 \in 1 .. MsgQLen /\ Contents[1] = TopMessage
      BY <3>1, FirstIsTop
    <3>3. QED
      BY <3>2 DEF RingInv, EndMayBe, EndQueued
  <2>2. /\ tpc[k] = "receive" /\ tpc' = [tpc EXCEPT ![k] = "process"]
        /\ received' = [received EXCEPT ![k] = TopMessage]
        /\ UNCHANGED <<MyState, cpc, request, created>>
    BY <1>17 DEF TaskReceive, TaskGoes, atomicVars, clientVars
  <2>3. ServedInv'
    BY <2>1, <2>2
  <2>4. TasksInv' /\ OldInv'
    BY <2>2
  <2>5. StartInv'
    BY <2>2
  <2>6. OverInv'
    BY <2>2
  <2>7. QED
    BY <2>3, <2>4, <2>5, <2>6
<1>18. ASSUME NEW k \in Task, TaskWait(k) PROVE PlaceInv'
  BY <1>18 DEF TaskWait, TaskGoes, atomicVars, clientVars
<1>19. ASSUME NEW k \in Task, TaskWakeup(k) PROVE PlaceInv'
  BY <1>19 DEF TaskWakeup, TaskGoes, atomicVars, clientVars
<1>20. ASSUME NEW k \in Task, TaskProcess(k) PROVE PlaceInv'
  BY <1>20 DEF TaskProcess, TaskGoes, clientVars
<1>21. ASSUME NEW k \in Task, TaskRelock(k) PROVE PlaceInv'
  BY <1>21 DEF TaskRelock, TaskGoes, atomicVars, clientVars
<1>22. ASSUME NEW k \in Task, TaskStop(k) PROVE PlaceInv'
  BY <1>22 DEF TaskStop, TaskGoes, clientVars
<1>23. ASSUME NEW k \in Task, TaskUnlock(k) PROVE PlaceInv'
  BY <1>23 DEF TaskUnlock, TaskGoes, atomicVars, clientVars
<1>24. ASSUME NEW k \in Task, TaskWindDown(k) PROVE PlaceInv'
  BY <1>24 DEF TaskWindDown, TaskGoes, clientVars
<1>25. ASSUME NEW k \in Task, TaskJoin(k) PROVE PlaceInv'
  BY <1>25 DEF TaskJoin, TaskGoes, clientVars
<1>26. ASSUME NEW k \in Task, TaskSpuriousWakeup(k) PROVE PlaceInv'
  BY <1>26 DEF TaskSpuriousWakeup, TaskGoes, atomicVars, clientVars
<1>27. ASSUME NEW k \in Task, PlayerStep(k) PROVE PlaceInv'
  BY <1>27 DEF PlayerStep, PlayerCheck, PlayerFetch, PlayerSound, PlayerLeave,
     PlayerHush, atomicVars, clientVars, taskVars
<1>28. CASE UNCHANGED vars
  BY <1>28 DEF vars, atomicVars, clientVars, taskVars
<1>29. ASSUME NEW c \in Client, NEW d \in Client,
              Audio_initRaced(c, d) \/ Audio_endRaced(c, d)
       PROVE  PlaceInv'
  BY <1>29, RacedMoves
<1>30. QED
  BY <1>1, <1>2, <1>3, <1>4, <1>5, <1>6, <1>7, <1>8, <1>9, <1>10, <1>11, <1>12, <1>13,
     <1>14, <1>15, <1>16, <1>17, <1>18, <1>19, <1>20, <1>21, <1>22, <1>23, <1>24, <1>25,
     <1>26, <1>27, <1>28, <1>29 DEF Next, Call, ClientStep, TaskStep

\* Only SendMessage puts an END on the ring.
LEMMA EndQueuedStep ==
  ASSUME TypeInv, [Next]_vars, EndQueued',
         \A c \in Client : ~(Audio_initBegin(c) \/ (cpc[c] = "send" /\ request[c] = MSG_ID_END)),
         \A c, d \in Client : ~Audio_initRaced(c, d)
  PROVE  EndQueued
<1>1. QueueTypeOK
  BY DEF TypeInv, AudioTypeOK
<1>2. CASE UNCHANGED queueVars
  BY <1>2 DEF EndQueued, Contents, queueVars
<1>3. CASE MsgQLen' = 0
  BY <1>3 DEF EndQueued
<1>4. ASSUME NEW c \in Client, SendMessageEnqueue(c) PROVE EndQueued
  <2>1. SendMessage(request[c]) /\ request[c] \in Message \ {MSG_ID_END}
    BY <1>4 DEF SendMessageEnqueue, ClientGoes, TypeInv, InHand, SendPlace
  <2>2. CASE QueueFull
    BY <1>2, <2>1, <2>2 DEF SendMessage
  <2>3. CASE ~QueueFull
    <3>1. Contents' = Append(Contents, request[c]) /\ MsgQLen' = MsgQLen + 1
      BY <1>1, <2>1, <2>3, SendAppends DEF SendMessage
    <3>2. Contents \in Seq(Message) /\ Len(Contents) = MsgQLen /\ MsgQLen \in Nat
      BY <1>1, ContentsType, QueueAssumption DEF QueueTypeOK
    <3>3. \A i \in 1 .. MsgQLen + 1 : Contents'[i] = MSG_ID_END =>
             i \in 1 .. MsgQLen /\ Contents[i] = MSG_ID_END
      BY <2>1, <3>1, <3>2
    <3>4. QED
      BY <3>1, <3>3 DEF EndQueued
  <2>4. QED
    BY <2>2, <2>3
<1>5. ASSUME NEW k \in Task, TaskReceive(k) PROVE EndQueued
  <2>1. Contents' = Tail(Contents) /\ Contents # <<>> /\ MsgQLen' = MsgQLen - 1
    BY <1>1, <1>5, GetTakes DEF TaskReceive, GetMessage
  <2>2. Contents \in Seq(Message) /\ Len(Contents) = MsgQLen /\ MsgQLen \in Nat
    BY <1>1, ContentsType, QueueAssumption DEF QueueTypeOK
  <2>3. \A i \in 1 .. MsgQLen - 1 : i + 1 \in 1 .. MsgQLen /\ Contents'[i] = Contents[i + 1]
    BY <2>1, <2>2
  <2>4. QED
    BY <2>1, <2>3 DEF EndQueued
<1>6. ASSUME NEW c \in Client, Call(c) \/ ClientStep(c), ~SendMessageEnqueue(c),
             \A d \in Client : ~Audio_endRaced(c, d)
      PROVE  EndQueued
  BY <1>2, <1>3, <1>6 DEF Call, ClientStep, Audio_startCreate, Audio_PlayTrack,
     Audio_endBegin,
     Audio_initFinish, Audio_startPublish, SendMessageLock, SendMessageRefused, SendMessageUnlock,
     Audio_endJoin, Audio_endDeInit, Audio_endDestroy, Audio_endFinish, DropMessages, queueVars
<1>7. ASSUME NEW k \in Task, TaskStep(k) \/ TaskSpuriousWakeup(k), ~TaskReceive(k) PROVE EndQueued
  BY <1>2, <1>7 DEF TaskStep, TaskBegin, TaskCheck, TaskWait, TaskWakeup, TaskProcess,
     TaskRelock,
     TaskStop, TaskUnlock, TaskWindDown, TaskJoin, TaskSpuriousWakeup, queueVars
<1>8. ASSUME NEW k \in Task, PlayerStep(k) PROVE EndQueued
  BY <1>2, <1>8 DEF PlayerStep, PlayerCheck, PlayerFetch, PlayerSound, PlayerLeave,
     PlayerHush,
     queueVars
<1>9. CASE UNCHANGED vars
  BY <1>2, <1>9 DEF vars
<1>10. ASSUME NEW c \in Client, NEW d \in Client, Audio_endRaced(c, d) PROVE EndQueued
  <2>1. DropMessagesRaced(request[d]) /\ request[d] \in Message \ {MSG_ID_END}
    BY <1>10 DEF Audio_endRaced, BothGo, TypeInv, InHand, SendPlace
  <2>2. Contents \in Seq(Message) /\ Len(Contents) = MsgQLen /\ MsgQLen \in Nat /\ MsgQLen' = 1
    BY <1>1, <2>1, ContentsType, QueueAssumption DEF QueueTypeOK, DropMessagesRaced
  <2>3. Contents'[1] = MSG_ID_END
    BY <2>2 DEF EndQueued
  <2>4. MsgQLen > 0 /\ Contents' = <<Head(Contents)>>
    BY <1>1, <2>1, <2>2, <2>3, RacedContents
  <2>5. 1 \in 1 .. MsgQLen /\ Contents[1] = MSG_ID_END
    BY <2>2, <2>3, <2>4
  <2>6. QED
    BY <2>5 DEF EndQueued
<1>11. QED
  BY <1>4, <1>5, <1>6, <1>7, <1>8, <1>9, <1>10 DEF Next

\* Audio_end sends END after it has stored Ending; Audio_init empties the ring.
LEMMA RingInvStep ==
  ASSUME IInv, LockInv, RingInv, PlaceInv, ~remade', [Next]_vars
  PROVE  RingInv'
<1> USE AudioAssumption
<1> SUFFICES ASSUME EndQueued' PROVE EndMayBe'
  BY DEF RingInv
<1>1. ASSUME NEW c \in Client, Audio_initBegin(c) PROVE EndMayBe'
  BY <1>1 DEF Audio_initBegin, InitMessaging, EndQueued
<1>2. CASE \A c \in Client : ~Audio_initBegin(c)
  <2> USE DEF OwnerInv, HoldsAudioMutex, AwaitsTask, EndInv, EndMayBe, ClientPlace,
              SendPlace, EndPlace
  <2>1. OwnerInv /\ EndInv /\ StartInv /\ TypeInv /\ cpc \in [Client -> ClientPlace]
    BY DEF IInv, TypeInv, AudioTypeOK, PlaceInv
  <2>2. EndMayBe
    BY <1>2, <2>1, EndQueuedStep, RacedInit DEF RingInv
  <2>3. ASSUME NEW c \in Client, Audio_startCreate(c) PROVE EndMayBe'
    BY <2>1, <2>2, <2>3 DEF Audio_startCreate, ClientGoes, atomicVars
  <2>4. ASSUME NEW c \in Client, Audio_PlayTrack(c) PROVE EndMayBe'
    BY <2>1, <2>2, <2>4 DEF Audio_PlayTrack, ClientGoes, atomicVars
  <2>5. ASSUME NEW c \in Client, Audio_endBegin(c) PROVE EndMayBe'
    BY <2>1, <2>2, <2>5 DEF Audio_endBegin, ClientGoes, AnnounceEnd
  <2>6. ASSUME NEW c \in Client, Audio_initFinish(c) PROVE EndMayBe'
    BY <2>1, <2>2, <2>6 DEF Audio_initFinish, ClientGoes
  <2>7. ASSUME NEW c \in Client, Audio_startPublish(c) PROVE EndMayBe'
    BY <2>1, <2>2, <2>7 DEF Audio_startPublish, ClientGoes, StartInv
  <2>8. ASSUME NEW c \in Client, SendMessageLock(c) PROVE EndMayBe'
    BY <2>1, <2>2, <2>8 DEF SendMessageLock, ClientGoes, atomicVars
  <2>9. ASSUME NEW c \in Client, SendMessageRefused(c) PROVE EndMayBe'
    BY <2>1, <2>2, <2>9 DEF SendMessageRefused, ClientGoes, AfterSend, atomicVars
  <2>10. ASSUME NEW c \in Client, SendMessageEnqueue(c) PROVE EndMayBe'
    BY <2>1, <2>2, <2>10 DEF SendMessageEnqueue, ClientGoes, atomicVars
  <2>11. ASSUME NEW c \in Client, SendMessageUnlock(c) PROVE EndMayBe'
    BY <2>1, <2>2, <2>11 DEF SendMessageUnlock, ClientGoes, AfterSend, atomicVars
  <2>12. ASSUME NEW c \in Client, Audio_endJoin(c) PROVE EndMayBe'
    BY <2>1, <2>2, <2>12 DEF Audio_endJoin, ClientGoes, atomicVars
  <2>13. ASSUME NEW c \in Client, Audio_endDeInit(c) PROVE EndMayBe'
    BY <2>1, <2>2, <2>13 DEF Audio_endDeInit, ClientGoes, atomicVars
  <2>14. ASSUME NEW c \in Client, Audio_endDestroy(c) PROVE EndMayBe'
    BY <2>1, <2>2, <2>14 DEF Audio_endDestroy, ClientGoes, atomicVars
  <2>15. ASSUME NEW c \in Client, Audio_endFinish(c) PROVE EndMayBe'
    BY <2>1, <2>2, <2>15 DEF Audio_endFinish, ClientGoes, EndBusy
  <2>16. ASSUME NEW k \in Task, TaskStep(k) \/ TaskSpuriousWakeup(k) PROVE EndMayBe'
    BY <2>2, <2>16 DEF TaskStep, TaskBegin, TaskCheck, TaskReceive, TaskWait, TaskWakeup,
       TaskProcess, TaskRelock, TaskStop, TaskUnlock, TaskWindDown, TaskJoin,
       TaskSpuriousWakeup, atomicVars, clientVars
  <2>17. ASSUME NEW k \in Task, PlayerStep(k) PROVE EndMayBe'
    BY <2>2, <2>17 DEF PlayerStep, PlayerCheck, PlayerFetch, PlayerSound, PlayerLeave,
       PlayerHush, atomicVars, clientVars
  <2>18. CASE UNCHANGED vars
    BY <2>2, <2>18 DEF vars, atomicVars, clientVars
  <2>19. ASSUME NEW c \in Client, NEW d \in Client, Audio_endRaced(c, d) PROVE EndMayBe'
    <3>1. AudioMutex = c /\ c # d /\ cpc[d] = "send" /\ cpc'[d] = "unlock"
      BY <2>1, <2>19, RacedMoves DEF Audio_endRaced, BothGo
    <3>2. /\ cpc'[c] # "init_speaker"
          /\ \A b \in Client \ {c, d} : cpc'[b] = cpc[b]
          /\ MyState' = "Ended" \/ UNCHANGED MyState
      BY <2>1, <2>19 DEF Audio_endRaced, BothGo, EndBusy
    <3>3. \A b \in Client : cpc'[b] # "init_speaker"
      BY <2>1, <3>1, <3>2
    <3>4. QED
      BY <2>2, <3>2, <3>3
  <2>20. QED
    BY <1>2, <2>3, <2>4, <2>5, <2>6, <2>7, <2>8, <2>9, <2>10, <2>11, <2>12, <2>13, <2>14,
       <2>15, <2>16, <2>17, <2>18, <2>19, RacedInit DEF Next, Call, ClientStep
<1>3. QED
  BY <1>1, <1>2

\* At any time one task at most is between its begin and its end.
LEMMA OneTask ==
  ASSUME AudioTypeOK, TasksInv, OldInv, NEW j \in Task, NEW k \in Task,
         tpc[j] \notin {"none", "done"}, tpc[k] \notin {"none", "done"}
  PROVE  j = k
<1>1. created \in Nat /\ Task \subseteq Nat
  BY AudioAssumption DEF AudioTypeOK, Task
<1>2. j = created /\ k = created
  BY <1>1 DEF OldInv, TasksInv
<1>3. QED
  BY <1>2

\* A player goes with its task.
LEMMA PlayerInvStep ==
  ASSUME IInv, PlaceInv, PlayerInv, [Next]_vars
  PROVE  PlayerInv'
<1> USE AudioAssumption DEF PlayerInv, TaskPlace, LoopPlace, PlayerPlace
<1>1. /\ tpc \in [Task -> TaskPlace] /\ ppc \in [Task -> PlayerPlace]
      /\ \A j, k \in Task : tpc[j] \notin {"none", "done"} /\ tpc[k] \notin {"none", "done"} => j = k
  BY OneTask DEF IInv, TypeInv, AudioTypeOK, PlaceInv
<1>2. ASSUME NEW c \in Client, Audio_startCreate(c) PROVE PlayerInv'
  <2>1. tpc' = [tpc EXCEPT ![created + 1] = "begin"] /\ UNCHANGED <<ppc, PlayerState>>
    BY <1>2 DEF Audio_startCreate, soundVars, playerVars, atomicVars
  <2>2. created + 1 \in Task /\ tpc[created + 1] = "none"
    BY <1>2 DEF Audio_startCreate, Task, IInv, TypeInv, AudioTypeOK, PlaceInv, TasksInv
  <2>3. QED
    BY <1>1, <2>1, <2>2
<1>3. ASSUME NEW c \in Client, SendMessageEnqueue(c) PROVE PlayerInv'
  BY <1>1, <1>3 DEF SendMessageEnqueue, Signal, TaskGoes, soundVars, playerVars,
     atomicVars
<1>4. ASSUME NEW c \in Client, Call(c) \/ ClientStep(c), ~Audio_startCreate(c),
             ~SendMessageEnqueue(c), \A d \in Client : ~(Audio_initRaced(c, d) \/ Audio_endRaced(c, d))
      PROVE  PlayerInv'
  <2>1. UNCHANGED <<tpc, ppc, PlayerState>>
    BY <1>4 DEF Call, ClientStep, Audio_initBegin, Audio_PlayTrack, Audio_endBegin,
       Audio_initFinish, Audio_startPublish, SendMessageLock, SendMessageRefused,
       SendMessageUnlock, Audio_endJoin, Audio_endDeInit, Audio_endDestroy, Audio_endFinish,
       taskVars, soundVars, playerVars, atomicVars
  <2>2. QED
    BY <2>1
<1>5. ASSUME NEW k \in Task, TaskBegin(k) PROVE PlayerInv'
  BY <1>1, <1>5 DEF TaskBegin, TaskGoes, PlayerGoes, soundVars, playerVars, atomicVars
<1>6. ASSUME NEW k \in Task, TaskCheck(k) PROVE PlayerInv'
  BY <1>1, <1>6 DEF TaskCheck, TaskGoes, soundVars, playerVars, atomicVars
<1>7. ASSUME NEW k \in Task, TaskReceive(k) PROVE PlayerInv'
  BY <1>1, <1>7 DEF TaskReceive, TaskGoes, soundVars, playerVars, atomicVars
<1>8. ASSUME NEW k \in Task, TaskWait(k) PROVE PlayerInv'
  BY <1>1, <1>8 DEF TaskWait, TaskGoes, soundVars, playerVars, atomicVars
<1>9. ASSUME NEW k \in Task, TaskWakeup(k) PROVE PlayerInv'
  BY <1>1, <1>9 DEF TaskWakeup, TaskGoes, soundVars, playerVars, atomicVars
<1>10. ASSUME NEW k \in Task, TaskProcess(k) PROVE PlayerInv'
  BY <1>1, <1>10 DEF TaskProcess, TaskGoes, soundVars, playerVars, atomicVars
<1>11. ASSUME NEW k \in Task, TaskRelock(k) PROVE PlayerInv'
  BY <1>1, <1>11 DEF TaskRelock, TaskGoes, soundVars, playerVars, atomicVars
<1>12. ASSUME NEW k \in Task, TaskStop(k) PROVE PlayerInv'
  BY <1>1, <1>12 DEF TaskStop, TaskGoes, soundVars, playerVars, atomicVars
<1>13. ASSUME NEW k \in Task, TaskUnlock(k) PROVE PlayerInv'
  BY <1>1, <1>13 DEF TaskUnlock, TaskGoes, soundVars, playerVars, atomicVars
<1>14. ASSUME NEW k \in Task, TaskWindDown(k) PROVE PlayerInv'
  BY <1>1, <1>14 DEF TaskWindDown, TaskGoes, StopPlayer, soundVars, playerVars, atomicVars
<1>15. ASSUME NEW k \in Task, TaskJoin(k) PROVE PlayerInv'
  BY <1>1, <1>15 DEF TaskJoin, TaskGoes, PlayerGone, soundVars, playerVars, atomicVars
<1>16. ASSUME NEW k \in Task, TaskSpuriousWakeup(k) PROVE PlayerInv'
  BY <1>1, <1>16 DEF TaskSpuriousWakeup, TaskGoes, soundVars, playerVars, atomicVars
<1>17. ASSUME NEW k \in Task, PlayerCheck(k) PROVE PlayerInv'
  BY <1>1, <1>17 DEF PlayerCheck, PlayerGoes, taskVars, atomicVars
<1>18. ASSUME NEW k \in Task, PlayerFetch(k) PROVE PlayerInv'
  BY <1>1, <1>18 DEF PlayerFetch, PlayerGoes, taskVars, atomicVars
<1>19. ASSUME NEW k \in Task, PlayerSound(k) PROVE PlayerInv'
  BY <1>1, <1>19 DEF PlayerSound, PlayerGoes, taskVars, atomicVars
<1>20. ASSUME NEW k \in Task, PlayerLeave(k) PROVE PlayerInv'
  BY <1>1, <1>20 DEF PlayerLeave, PlayerGoes, taskVars, atomicVars
<1>21. ASSUME NEW k \in Task, PlayerHush(k) PROVE PlayerInv'
  BY <1>1, <1>21 DEF PlayerHush, PlayerGoes, taskVars, atomicVars
<1>22. CASE UNCHANGED vars
  BY <1>22 DEF vars, taskVars, atomicVars, soundVars, playerVars
<1>23. ASSUME NEW c \in Client, NEW d \in Client,
              Audio_initRaced(c, d) \/ Audio_endRaced(c, d)
       PROVE  PlayerInv'
  BY <1>1, <1>23, RacedMoves DEF soundVars, playerVars
<1>24. QED
  BY <1>2, <1>3, <1>4, <1>5, <1>6, <1>7, <1>8, <1>9, <1>10, <1>11, <1>12, <1>13, <1>14,
     <1>15, <1>16, <1>17, <1>18, <1>19, <1>20, <1>21, <1>22, <1>23 DEF Next, TaskStep,
     PlayerStep

\* With nobody in Audio_start or waiting for the task, no player is left.
LEMMA AllOver ==
  ASSUME PlaceInv, PlayerInv, MyState # "Running", NoneAwaited
  PROVE  \A k \in Task : ~Alive(k)
  BY DEF PlaceInv, OverInv, PlayerInv, Alive

\* Speaker, mailbox and player's track are as they were found when a session ends.
LEMMA SoundInvStep ==
  ASSUME IInv, PlaceInv, PlayerInv, SoundInv, [Next]_vars
  PROVE  SoundInv'
<1> USE AudioAssumption DEF SoundInv, Alive, PlayersMade, PlayerPlace
<1>1. /\ tpc \in [Task -> TaskPlace] /\ ppc \in [Task -> PlayerPlace]
      /\ CurrTrackID \in [Task -> Track] /\ Speaker \in {"SPEAKER_INITED", "SPEAKER_ENDED"}
      /\ cpc \in [Client -> ClientPlace]
  BY DEF IInv, TypeInv, AudioTypeOK
<1>2. ASSUME NEW c \in Client, Audio_initFinish(c) PROVE SoundInv'
  <2>1. MyState = "Ended" /\ AudioMutex = c /\ cpc[c] = "init_speaker"
    BY <1>2 DEF Audio_initFinish, ClientGoes, IInv, EndInv, OwnerInv, HoldsAudioMutex
  <2>2. NoneAwaited
    BY <2>1 DEF NoneAwaited, IInv, OwnerInv, HoldsAudioMutex, AwaitsTask, EndInv,
       SendPlace
  <2>3. \A k \in Task : ~Alive(k)
    BY <2>1, <2>2, AllOver
  <2>4. UNCHANGED <<NextTrackID, ppc, CurrTrackID, CurrentFreq, pwm, enabled>>
    BY <1>2 DEF Audio_initFinish, Speaker_InitSucceeds, Speaker_InitFails, playerVars,
       speakerVars
  <2>5. CASE Speaker' = Speaker /\ MyState' = MyState
    BY <2>1, <2>4, <2>5
  <2>6. CASE Speaker = "SPEAKER_ENDED" /\ Speaker' = "SPEAKER_INITED"
    BY <2>3, <2>4, <2>6
  <2>7. QED
    BY <1>2, <2>5, <2>6 DEF Audio_initFinish, Speaker_InitSucceeds, Speaker_InitFails,
       speakerVars
<1>3. ASSUME NEW c \in Client, Audio_endDeInit(c) PROVE SoundInv'
  <2>1. MyState \in {"Ending", "Inited"} /\ AudioMutex = c /\ cpc[c] = "end_deinit"
    BY <1>3 DEF Audio_endDeInit, ClientGoes, IInv, EndInv, OwnerInv, HoldsAudioMutex,
       EndPlace
  <2>2. NoneAwaited
    BY <2>1 DEF NoneAwaited, IInv, OwnerInv, HoldsAudioMutex, AwaitsTask, SendPlace
  <2>3. \A k \in Task : ~Alive(k)
    BY <2>1, <2>2, AllOver
  <2>4. UNCHANGED <<MyState, NextTrackID, ppc, CurrTrackID, CurrentFreq>>
    BY <1>3 DEF Audio_endDeInit, Speaker_DeInit, playerVars, speakerVars, atomicVars
  <2>5. Speaker' = "SPEAKER_INITED" => pwm' = pwm /\ enabled' = enabled /\ Speaker = "SPEAKER_INITED"
    BY <1>3 DEF Audio_endDeInit, Speaker_DeInit, speakerVars
  <2>6. QED
    BY <2>3, <2>4, <2>5
<1>4. ASSUME NEW c \in Client, Call(c) \/ ClientStep(c), ~Audio_initFinish(c), ~Audio_endDeInit(c),
             \A d \in Client : ~(Audio_initRaced(c, d) \/ Audio_endRaced(c, d))
      PROVE  SoundInv'
  <2>1. UNCHANGED <<NextTrackID, ppc, CurrTrackID, Speaker, CurrentFreq, pwm, enabled>>
    BY <1>4 DEF Call, ClientStep, Audio_initBegin, Audio_startCreate, Audio_PlayTrack,
       Audio_endBegin, Audio_startPublish, SendMessageLock, SendMessageRefused,
       SendMessageEnqueue, SendMessageUnlock, Audio_endJoin, Audio_endDestroy,
       Audio_endFinish, soundVars, playerVars, speakerVars, atomicVars
  <2>2. MyState' = "Inited" => MyState = "Inited"
    BY <1>4 DEF Call, ClientStep, Audio_initBegin, Audio_startCreate, Audio_PlayTrack,
       Audio_endBegin, AnnounceEnd, Audio_startPublish, SendMessageLock, SendMessageRefused,
       SendMessageEnqueue, SendMessageUnlock, Audio_endJoin, Audio_endDestroy,
       Audio_endFinish, EndBusy, atomicVars
  <2>3. QED
    BY <2>1, <2>2
<1>5. ASSUME NEW k \in Task, TaskBegin(k) PROVE SoundInv'
  <2>1. ppc[k] = "none" /\ (ppc' = [ppc EXCEPT ![k] = "check"] \/ ppc' = [ppc EXCEPT ![k] = "failed"])
    BY <1>5 DEF TaskBegin, PlayerGoes
  <2>2. UNCHANGED <<MyState, NextTrackID, CurrTrackID, Speaker, CurrentFreq, pwm, enabled>>
    BY <1>5 DEF TaskBegin, speakerVars
  <2>3. QED
    BY <1>1, <2>1, <2>2
<1>6. ASSUME NEW k \in Task, TaskProcess(k) PROVE SoundInv'
  <2>1. tpc[k] = "process"
    BY <1>6 DEF TaskProcess, TaskGoes
  <2>2. ppc[k] \in {"failed", "check", "fetch", "sound"}
    BY <2>1 DEF PlayerInv, LoopPlace
  <2>3. MyState # "Inited"
    BY <2>1 DEF IInv, SessionInv, EndInv, Looping, LoopPlace, PlaceInv, StartInv
  <2>4. UNCHANGED <<MyState, ppc, CurrTrackID, Speaker, CurrentFreq, pwm, enabled>>
    BY <1>6 DEF TaskProcess, soundVars, playerVars, speakerVars
  <2>5. QED
    BY <2>2, <2>3, <2>4
<1>7. ASSUME NEW k \in Task, TaskStep(k) \/ TaskSpuriousWakeup(k), ~TaskBegin(k), ~TaskProcess(k)
      PROVE  SoundInv'
  <2>1. UNCHANGED <<NextTrackID, ppc, CurrTrackID, Speaker, CurrentFreq, pwm, enabled>>
    BY <1>7 DEF TaskStep, TaskCheck, TaskReceive, TaskWait, TaskWakeup, TaskRelock,
       TaskStop,
       TaskUnlock, TaskWindDown, TaskJoin, TaskSpuriousWakeup, soundVars, playerVars,
       speakerVars, atomicVars
  <2>2. MyState' = "Inited" => MyState = "Inited"
    BY <1>7 DEF TaskStep, TaskCheck, TaskReceive, TaskWait, TaskWakeup, TaskRelock,
       TaskStop,
       TaskUnlock, TaskWindDown, TaskJoin, TaskSpuriousWakeup, atomicVars
  <2>3. QED
    BY <2>1, <2>2
<1>8. ASSUME NEW k \in Task, PlayerCheck(k) PROVE SoundInv'
  <2>1. ppc[k] = "check" /\ (ppc' = [ppc EXCEPT ![k] = "fetch"] \/ ppc' = [ppc EXCEPT ![k] = "leave"])
    BY <1>8 DEF PlayerCheck, PlayerGoes
  <2>2. UNCHANGED <<MyState, NextTrackID, CurrTrackID, Speaker, CurrentFreq, pwm, enabled>>
    BY <1>8 DEF PlayerCheck, speakerVars, atomicVars
  <2>3. QED
    BY <1>1, <2>1, <2>2
<1>9. ASSUME NEW k \in Task, PlayerFetch(k) PROVE SoundInv'
  BY <1>1, <1>9 DEF PlayerFetch, MailboxTaken, PlayerGoes, speakerVars
<1>10. ASSUME NEW k \in Task, PlayerSound(k) PROVE SoundInv'
  <2>1. ppc[k] = "sound" /\ ppc' = [ppc EXCEPT ![k] = "check"] /\ UNCHANGED <<MyState, NextTrackID>>
    BY <1>10 DEF PlayerSound, PlayerGoes, atomicVars
  <2>2. \A j \in Task : ~Alive(j)' => ~Alive(j)
    BY <1>1, <2>1
  <2>3. QED
    BY <1>1, <1>10, <2>1, <2>2 DEF PlayerSound, Speaker_PlayPitch, WritePitch, speakerVars
<1>11. ASSUME NEW k \in Task, PlayerLeave(k) PROVE SoundInv'
  BY <1>1, <1>11 DEF PlayerLeave, PlayerGoes, MailboxEmptied, speakerVars
<1>12. ASSUME NEW k \in Task, PlayerHush(k) PROVE SoundInv'
  BY <1>1, <1>12 DEF PlayerHush, PlayerGoes, Speaker_PlayPitch, WritePitch, atomicVars, speakerVars
<1>13. CASE UNCHANGED vars
  BY <1>13 DEF vars, atomicVars, soundVars, playerVars, speakerVars
<1>14. ASSUME NEW c \in Client, NEW d \in Client,
              Audio_initRaced(c, d) \/ Audio_endRaced(c, d)
       PROVE  SoundInv'
  <2>1. /\ UNCHANGED <<NextTrackID, ppc, CurrTrackID, Speaker, CurrentFreq, pwm, enabled>>
        /\ MyState' = "Inited" => MyState = "Inited"
    BY <1>14, RacedMoves DEF soundVars, playerVars, speakerVars
  <2>2. QED
    BY <2>1
<1>15. QED
  BY <1>2, <1>3, <1>4, <1>5, <1>6, <1>7, <1>8, <1>9, <1>10, <1>11, <1>12, <1>13, <1>14
     DEF Next, PlayerStep

\* Neither exception is ever taken back.
LEMMA RegularStays == Regular' /\ [Next]_vars => Regular
<1> SUFFICES ASSUME Regular', [Next]_vars PROVE Regular
  OBVIOUS
<1> DEFINE Stays == bornEarly' = bornEarly /\ remade' = remade
<1>1. Stays => (bornEarly => bornEarly') /\ (remade => remade')
  OBVIOUS
<1>2. ASSUME NEW c \in Client, Call(c) \/ ClientStep(c), ~Audio_initBegin(c),
             \A d \in Client : ~Audio_initRaced(c, d)
      PROVE  Stays
  BY <1>2 DEF Call, ClientStep, Audio_startCreate, Audio_PlayTrack,
     Audio_endBegin, Audio_initFinish, Audio_startPublish, SendMessageLock, SendMessageRefused,
     SendMessageEnqueue, SendMessageUnlock, Audio_endJoin, Audio_endDeInit, Audio_endDestroy,
     Audio_endFinish, Audio_endRaced, taskVars
<1>3. ASSUME NEW c \in Client,
             Audio_initBegin(c) \/ \E d \in Client : Audio_initRaced(c, d)
      PROVE  UNCHANGED bornEarly /\ MsgMutexInit
  BY <1>3 DEF Audio_initBegin, Audio_initRaced, taskVars
<1>4. MsgMutexInit => (remade => remade')
  BY Zenon DEF MsgMutexInit
<1>5. ASSUME NEW k \in Task, TaskCheck(k)
      PROVE  (bornEarly => bornEarly') /\ (remade => remade')
  <2>1. remade => remade'
    BY <1>5 DEF TaskCheck, clientVars
  <2>2. bornEarly => bornEarly'
    BY <1>5, Zenon DEF TaskCheck
  <2>3. QED
    BY <2>1, <2>2, Zenon
<1>6. ASSUME NEW k \in Task, TaskStep(k) \/ TaskSpuriousWakeup(k), ~TaskCheck(k)
      PROVE  Stays
  BY <1>6 DEF TaskStep, TaskBegin, TaskReceive, TaskWait, TaskWakeup, TaskProcess,
     TaskRelock, TaskStop, TaskUnlock, TaskWindDown, TaskJoin, TaskSpuriousWakeup, clientVars
<1>7. ASSUME NEW k \in Task, PlayerStep(k) PROVE Stays
  BY <1>7 DEF PlayerStep, PlayerCheck, PlayerFetch, PlayerSound, PlayerLeave,
     PlayerHush, taskVars, clientVars
<1>8. ASSUME UNCHANGED vars PROVE Stays
  BY <1>8 DEF vars, taskVars, clientVars
<1>9. (bornEarly => bornEarly') /\ (remade => remade')
  <2>1. CASE \E c \in Client : Call(c) \/ ClientStep(c)
    <3>1. PICK c \in Client : Call(c) \/ ClientStep(c)
      BY <2>1
    <3>2. CASE Audio_initBegin(c) \/ \E d \in Client : Audio_initRaced(c, d)
      BY <1>3, <1>4, <3>2, Zenon
    <3>3. CASE ~(Audio_initBegin(c) \/ \E d \in Client : Audio_initRaced(c, d))
      BY <1>1, <1>2, <3>1, <3>3
    <3>4. QED
      BY <3>2, <3>3
  <2>2. CASE \E k \in Task : TaskStep(k) \/ TaskSpuriousWakeup(k)
    <3>1. PICK k \in Task : TaskStep(k) \/ TaskSpuriousWakeup(k)
      BY <2>2
    <3>2. CASE TaskCheck(k)
      BY <1>5, <3>2, Zenon
    <3>3. CASE ~TaskCheck(k)
      BY <1>1, <1>6, <3>1, <3>3
    <3>4. QED
      BY <3>2, <3>3
  <2>3. CASE \E k \in Task : PlayerStep(k)
    BY <1>1, <1>7, <2>3
  <2>4. QED
    BY <1>1, <1>8, <2>1, <2>2, <2>3 DEF Next
<1>10. QED
  BY <1>9, Zenon DEF Regular

VInv == IInv /\ ClosedInv /\ LockInv /\ VoiceInv

LEMMA VoiceInit == Init => VoiceInv
<1> SUFFICES ASSUME Init PROVE VoiceInv
  OBVIOUS
<1>1. PlaceInv
  BY AudioAssumption DEF Init, PlaceInv, TasksInv, StartInv, ServedInv, OldInv, OverInv,
     Task
<1>2. RingInv
  BY DEF Init, QueueInit, RingInv, EndQueued
<1>3. PlayerInv
  BY DEF Init, PlayerInv, LoopPlace
<1>4. SoundInv
  BY DEF Init, SoundInv, Alive
<1>5. QED
  BY <1>1, <1>2, <1>3, <1>4 DEF VoiceInv

LEMMA VoiceStep == IInv /\ IInv' /\ LockInv /\ VoiceInv /\ [Next]_vars => VoiceInv'
<1> SUFFICES ASSUME IInv, IInv', LockInv, VoiceInv, [Next]_vars, Regular'
             PROVE  (PlaceInv /\ RingInv /\ PlayerInv /\ SoundInv)'
  BY DEF VoiceInv
<1>1. Regular
  BY RegularStays
<1>2. ~bornEarly /\ ~bornEarly' /\ ~remade'
  BY <1>1, Zenon DEF Regular
<1>3. PlaceInv /\ RingInv /\ PlayerInv /\ SoundInv
  BY <1>1 DEF VoiceInv
<1>4. QED
  BY <1>2, <1>3, PlaceStep, RingInvStep, PlayerInvStep, SoundInvStep

LEMMA VoiceAlways == Spec => []VInv
<1>1. Init => VoiceInv
  BY VoiceInit
<1>2. (IInv /\ ClosedInv /\ LockInv) /\ VoiceInv /\ [Next]_vars
        /\ (IInv /\ ClosedInv /\ LockInv)' => VoiceInv'
  BY VoiceStep
<1>3. VInv <=> (IInv /\ ClosedInv /\ LockInv) /\ VoiceInv
  BY DEF VInv
<1>4. QED
  BY <1>1, <1>2, <1>3, LockAlways, PTL DEF Spec

\* Two players are never alive together, so the mailbox and the speaker have one
\* user at a time (Audio.c:292, 332), unless a task was born too early or a held
\* MsgMutex made anew.
THEOREM VoiceIsOne == Spec => []OneVoice
<1>1. VInv => OneVoice
  <2> SUFFICES ASSUME VInv, Regular, NEW j \in Task, NEW k \in Task, Alive(j), Alive(k)
               PROVE  j = k
    BY DEF OneVoice
  <2>1. AudioTypeOK /\ PlaceInv /\ PlayerInv
    BY DEF VInv, VoiceInv, IInv, TypeInv
  <2>2. tpc[j] \notin {"none", "done"} /\ tpc[k] \notin {"none", "done"}
    BY <2>1 DEF PlayerInv, Alive
  <2>3. QED
    BY <2>1, <2>2, OneTask DEF PlaceInv
<1>2. QED
  BY <1>1, VoiceAlways, PTL DEF Spec

\* While MyState is Running the newest task is in its loop, awake if there is a
\* message, and its player told to play: what Audio_PlayTrack accepts
\* (Audio.c:253) is served.
THEOREM RunningServed == Spec => []RunningIsServed
<1>1. VInv /\ HeardInv => RunningIsServed
  <2> SUFFICES ASSUME VInv, HeardInv, Regular, MyState = "Running"
               PROVE  /\ tpc[AudioThread] \in LoopPlace \ {"kill", "stop"}
                      /\ tpc[AudioThread] = "waiting" => MsgQLen = 0
                      /\ tpc[AudioThread] # "begin" =>
                            /\ PlayerState = "Running"
                            /\ ppc[AudioThread] \in {"failed", "check", "fetch", "sound"}
    BY DEF RunningIsServed
  <2>1. ServedInv /\ PlayerInv /\ WakeInv
    BY DEF VInv, VoiceInv, PlaceInv, HeardInv
  <2>2. QED
    BY <2>1 DEF ServedInv, PlayerInv, WakeInv, AudioThread, LoopPlace
<1>2. QED
  BY <1>1, VoiceAlways, HeardAlways, PTL DEF Spec

\* A session leaves no request, no pitch and no thread to the next one
\* (Audio.c:313-315, 388-389).
THEOREM SlateIsClean == Spec => []CleanSlate
<1>1. VInv => CleanSlate
  <2> SUFFICES ASSUME VInv, Regular, MyState \in {"Ended", "Inited"}
               PROVE  /\ PlayersMade => NextTrackID = MaxTracks /\ CurrentFreq = Silence
                      /\ AudioMutex = Nobody => \A k \in 1 .. created : tpc[k] = "done" /\ ~Alive(k)
    BY DEF CleanSlate
  <2>1. IInv /\ AudioTypeOK /\ PlaceInv /\ PlayerInv /\ SoundInv
    BY DEF VInv, VoiceInv, IInv, TypeInv
  <2>2. ASSUME NoneAwaited
        PROVE  \A k \in Task : ~Alive(k) /\ (k <= created => tpc[k] = "done")
    <3>1. \A k \in Task : tpc[k] \in {"none", "done"}
      BY <2>1, <2>2 DEF PlaceInv, OverInv
    <3>2. \A k \in Task : ~Alive(k)
      BY <2>1, <2>2, AllOver
    <3>3. QED
      BY <2>1, <3>1, <3>2, NewestToo DEF PlaceInv
  <2>3. MyState = "Ended" => NoneAwaited
    BY <2>1 DEF NoneAwaited, IInv, EndInv, PlaceInv, StartInv
  <2>4. AudioMutex = Nobody => NoneAwaited
    BY <2>1, AudioAssumption DEF NoneAwaited, IInv, OwnerInv, HoldsAudioMutex
  <2>5. PlayersMade => NextTrackID = MaxTracks /\ CurrentFreq = Silence
    BY <2>1, <2>2, <2>3 DEF SoundInv
  <2>6. \A k \in 1 .. created : k \in Task /\ k <= created
    BY <2>1, AudioAssumption DEF AudioTypeOK, Task
  <2>7. QED
    BY <2>2, <2>4, <2>5, <2>6
<1>2. QED
  BY <1>1, VoiceAlways, PTL DEF Spec

\* The pitch Speaker_PlayPitch compares with (Speaker.c:141) never makes it skip a
\* note on a channel that is off, refused periods or not.
THEOREM NoteIsNotSkipped == Spec => []NoteNotSkipped
<1>1. VInv => NoteNotSkipped
  BY DEF VInv, VoiceInv, SoundInv, NoteNotSkipped
<1>2. QED
  BY <1>1, VoiceAlways, PTL DEF Spec
-----------------------------------------------------------------------------
\* The refinement of Jukebox: first sequences, then one lemma per kind of step.

\* What follows s is cut off.
LEMMA CutAfter ==
  ASSUME NEW S, NEW s \in Seq(S), NEW t \in Seq(S)
  PROVE  SubSeq(s \o t, 1, Len(s)) = s
<1> DEFINE u == SubSeq(s \o t, 1, Len(s))
<1>1. Len(s) \in Nat /\ Len(t) \in Nat /\ \A i \in 1 .. Len(s) : s[i] \in S
  BY ElementOfSeq
<1>2. \A i \in 1 .. Len(s) : (s \o t)[i] = s[i]
  BY <1>1, ConcatProperties
<1>3. \A i \in 1 .. Len(s) : (s \o t)[i] \in S
  BY <1>1, <1>2
<1>4. /\ u \in Seq(S)
      /\ Len(u) = IF 1 <= Len(s) THEN Len(s) - 1 + 1 ELSE 0
      /\ \A i \in 1 .. Len(s) - 1 + 1 : u[i] = (s \o t)[1 + i - 1]
  BY <1>1, <1>3, SubSeqProperties
<1> HIDE DEF u
<1>5. Len(u) = Len(s) /\ \A i \in 1 .. Len(s) : u[i] = s[i]
  BY <1>1, <1>2, <1>4
<1> QED  BY <1>4, <1>5, SeqEqual DEF u

\* What precedes t is cut off.
LEMMA CutBefore ==
  ASSUME NEW S, NEW s \in Seq(S), NEW t \in Seq(S)
  PROVE  SubSeq(s \o t, Len(s) + 1, Len(s) + Len(t)) = t
<1> DEFINE w == s \o t
           u == SubSeq(w, Len(s) + 1, Len(s) + Len(t))
<1>1. /\ w \in Seq(S) /\ Len(w) = Len(s) + Len(t)
      /\ \A i \in 1 .. Len(s) + Len(t) : w[i] = IF i <= Len(s) THEN s[i] ELSE t[i - Len(s)]
  BY ConcatProperties
<1>2. Len(s) \in Nat /\ Len(t) \in Nat
  OBVIOUS
<1> HIDE DEF w
<1>3. ASSUME NEW i \in 1 .. Len(t) PROVE w[Len(s) + 1 + i - 1] = t[i]
  <2>1. /\ Len(s) + 1 + i - 1 \in 1 .. Len(s) + Len(t)
        /\ ~(Len(s) + 1 + i - 1 <= Len(s))
        /\ Len(s) + 1 + i - 1 - Len(s) = i
    BY <1>2
  <2> QED  BY <1>1, <2>1
<1>4. \A i \in Len(s) + 1 .. Len(s) + Len(t) : w[i] \in S
  <2> TAKE i \in Len(s) + 1 .. Len(s) + Len(t)
  <2>1. i \in 1 .. Len(w)
    BY <1>1, <1>2
  <2> QED  BY <1>1, <2>1, ElementOfSeq
<1>5. /\ u \in Seq(S)
      /\ Len(u) = IF Len(s) + 1 <= Len(s) + Len(t)
                  THEN Len(s) + Len(t) - (Len(s) + 1) + 1 ELSE 0
      /\ \A i \in 1 .. Len(s) + Len(t) - (Len(s) + 1) + 1 : u[i] = w[Len(s) + 1 + i - 1]
  <2>1. Len(s) + 1 \in Int /\ Len(s) + Len(t) \in Int
    BY <1>2
  <2> QED  BY <1>4, <2>1, SubSeqProperties
<1> HIDE DEF u
<1>6. Len(u) = Len(t) /\ \A i \in 1 .. Len(t) : u[i] = t[i]
  <2>1. Len(s) + Len(t) - (Len(s) + 1) + 1 = Len(t)
    BY <1>2
  <2>2. Len(u) = Len(t)
    BY <1>2, <1>5, <2>1
  <2> QED  BY <1>3, <1>5, <2>1, <2>2
<1>7. u = t
  BY <1>5, <1>6, SeqEqual
<1> QED  BY <1>7 DEF u, w

\* One element in the middle is removed.
LEMMA RemoveBetween ==
  ASSUME NEW S, NEW s \in Seq(S), NEW x \in S, NEW t \in Seq(S)
  PROVE  /\ Box!RemoveAt(s \o <<x>> \o t, Len(s) + 1) = s \o t
         /\ Len(s \o <<x>> \o t) = Len(s) + 1 + Len(t)
<1> DEFINE y == <<x>>
           w == s \o y \o t
<1>1. y \in Seq(S) /\ Len(y) = 1 /\ Len(s) \in Nat /\ Len(t) \in Nat
  OBVIOUS
<1> HIDE DEF y
<1>2. s \o y \in Seq(S) /\ Len(s \o y) = Len(s) + 1 /\ y \o t \in Seq(S)
  BY <1>1, ConcatProperties
<1>3. Len(w) = Len(s) + 1 + Len(t) /\ w = s \o (y \o t)
  <2>1. Len((s \o y) \o t) = Len(s \o y) + Len(t)
    BY <1>2, ConcatProperties
  <2>2. (s \o y) \o t = s \o (y \o t)
    BY <1>1, ConcatAssociative
  <2> QED  BY <1>2, <2>1, <2>2
<1>4. SubSeq(w, 1, Len(s)) = s
  BY <1>2, <1>3, CutAfter
<1>5. SubSeq(w, Len(s) + 1 + 1, Len(w)) = t
  BY <1>2, <1>3, CutBefore
<1>6. (Len(s) + 1) - 1 = Len(s)
  BY <1>1
<1> HIDE DEF w
<1>7. Box!RemoveAt(w, Len(s) + 1) =
        SubSeq(w, 1, (Len(s) + 1) - 1) \o SubSeq(w, Len(s) + 1 + 1, Len(w))
  BY DEF Box!RemoveAt
<1>8. Box!RemoveAt(w, Len(s) + 1) = s \o t
  BY <1>4, <1>5, <1>6, <1>7
<1> QED  BY <1>3, <1>8 DEF w, y

\* A first element before a sequence.
LEMMA FirstBefore ==
  ASSUME NEW S, NEW x \in S, NEW t \in Seq(S)
  PROVE  /\ <<x>> \o t \in Seq(S) /\ <<x>> \o t # <<>>
         /\ Head(<<x>> \o t) = x
         /\ Tail(<<x>> \o t) = t
<1> DEFINE y == <<x>>
           w == y \o t
<1>1. y \in Seq(S) /\ Len(y) = 1 /\ y[1] = x /\ Len(t) \in Nat
  OBVIOUS
<1> HIDE DEF y
<1>2. w \in Seq(S) /\ Len(w) = 1 + Len(t) /\ w[1] = x
  <2>1. /\ w \in Seq(S) /\ Len(w) = Len(y) + Len(t)
        /\ \A i \in 1 .. Len(y) + Len(t) : w[i] = IF i <= Len(y) THEN y[i] ELSE t[i - Len(y)]
    BY <1>1, ConcatProperties
  <2> HIDE DEF w
  <2> QED  BY <1>1, <2>1
<1>3. w # <<>>
  BY <1>1, <1>2
<1>4. SubSeq(w, 1 + 1, 1 + Len(t)) = t
  BY <1>1, CutBefore
<1>5. Tail(w) = SubSeq(w, 2, Len(w))
  BY <1>2, <1>3, TailIsSubSeq
<1>6. Head(w) = x
  BY <1>2, <1>3
<1> QED  BY <1>2, <1>3, <1>4, <1>5, <1>6 DEF y

\* And a sequence is its head before its tail.
LEMMA HeadBeforeTail ==
  ASSUME NEW S, NEW s \in Seq(S), s # <<>>
  PROVE  s = <<Head(s)>> \o Tail(s)
<1> DEFINE y == <<Head(s)>>
           z == Tail(s)
<1>1. /\ z \in Seq(S) /\ Len(z) = Len(s) - 1
      /\ \A i \in 1 .. Len(z) : z[i] = s[i + 1]
  BY HeadTailProperties
<1>2. y \in Seq(S) /\ Len(y) = 1 /\ y[1] = s[1] /\ Len(s) \in Nat
  BY HeadTailProperties
<1> HIDE DEF y, z
<1>3. /\ y \o z \in Seq(S) /\ Len(y \o z) = Len(s)
      /\ \A i \in 1 .. Len(s) : (y \o z)[i] = IF i <= 1 THEN y[i] ELSE z[i - 1]
  <2>1. Len(y) + Len(z) = Len(s)
    BY <1>1, <1>2
  <2>2. /\ y \o z \in Seq(S) /\ Len(y \o z) = Len(y) + Len(z)
        /\ \A i \in 1 .. Len(y) + Len(z) :
             (y \o z)[i] = IF i <= Len(y) THEN y[i] ELSE z[i - Len(y)]
    <3>1. y \in Seq(S) /\ z \in Seq(S)
      BY <1>1, <1>2
    <3> QED  BY <3>1, ConcatProperties, Zenon
  <2> QED  BY <1>2, <2>1, <2>2
<1>4. ASSUME NEW i \in 1 .. Len(s) PROVE (y \o z)[i] = s[i]
  <2>1. CASE i = 1
    BY <1>2, <1>3, <2>1
  <2>2. CASE i # 1
    <3>1. i - 1 \in 1 .. Len(z) /\ (i - 1) + 1 = i
      BY <1>1, <1>2, <2>2
    <3> QED  BY <1>1, <1>3, <2>2, <3>1
  <2> QED  BY <2>1, <2>2
<1>5. y \o z = s
  BY <1>3, <1>4, SeqEqual
<1> QED  BY <1>5 DEF y, z

\* The mailbox, the message in hand and the ring hold messages.
LEMMA WaitingParts ==
  ASSUME TypeInv
  PROVE  /\ Mailbox \in Seq(Message) /\ Taken \in Seq(Message) /\ Contents \in Seq(Message)
         /\ Len(Contents) = MsgQLen /\ MsgQLen \in Nat
         /\ Mailbox \o Taken \in Seq(Message) /\ Taken \o Contents \in Seq(Message)
         /\ Waiting \in Seq(Message)
<1>1. QueueTypeOK /\ NextTrackID \in Track /\ created \in 0 .. MaxTasks /\ MaxTasks \in Nat
  BY AudioAssumption DEF TypeInv, AudioTypeOK
<1>2. Mailbox \in Seq(Message)
  <2>1. CASE NextTrackID = MaxTracks
    BY <2>1 DEF Mailbox
  <2>2. CASE NextTrackID # MaxTracks
    <3>1. NextTrackID \in Message
      BY <1>1, <2>2 DEF Track, Message
    <3> QED  BY <2>2, <3>1 DEF Mailbox
  <2> QED  BY <2>1, <2>2
<1>3. Taken \in Seq(Message)
  <2>1. CASE created > 0 /\ tpc[AudioThread] = "process"
    <3>1. created \in Task /\ AudioThread = created
      BY <1>1, <2>1 DEF Task, AudioThread
    <3>2. received[AudioThread] \in Message
      BY <2>1, <3>1 DEF TypeInv, InHand
    <3> QED  BY <2>1, <3>2 DEF Taken
  <2>2. CASE ~(created > 0 /\ tpc[AudioThread] = "process")
    BY <2>2 DEF Taken
  <2> QED  BY <2>1, <2>2
<1>4. Contents \in Seq(Message) /\ Len(Contents) = MsgQLen /\ MsgQLen \in Nat
  BY <1>1, ContentsType DEF QueueTypeOK
<1>5. Mailbox \o Taken \in Seq(Message) /\ Taken \o Contents \in Seq(Message)
  BY <1>2, <1>3, <1>4, ConcatProperties
<1> QED  BY <1>2, <1>3, <1>4, <1>5, ConcatProperties DEF Waiting

Runs == MyState = "Running" /\ Regular
Rest == UNCHANGED <<CurrTrackID, Speaker, pwm, enabled>> /\ (Runs' <=> Runs)
BoxStep == Box!BoxNext \/ remade' \/ UNCHANGED Box!boxVars

\* Nothing happens to the box, or one thing that waits is lost, or the last ones.
LEMMA BoxStutters ==
  ASSUME Rest, Waiting' = Waiting
  PROVE  BoxStep
<1>1. (MyState = "Running" /\ Regular)' = (MyState = "Running" /\ Regular)
  BY DEF Rest, Runs
<1> QED  BY <1>1 DEF Rest, BoxStep, Box!boxVars, Box!soundVars

LEMMA BoxAccepts ==
  ASSUME Rest, NEW m \in Message, Waiting' = Append(Waiting, m)
  PROVE  BoxStep
<1>1. (MyState = "Running" /\ Regular)' = (MyState = "Running" /\ Regular)
  BY DEF Rest, Runs
<1>2. Box!Accept(m)
  BY <1>1 DEF Rest, Box!Accept, Box!soundVars
<1> QED  BY <1>2 DEF BoxStep, Box!BoxNext, Message

LEMMA BoxLoses ==
  ASSUME Rest, NEW s \in Seq(Message), NEW x \in Message, NEW t \in Seq(Message),
         Waiting = s \o <<x>> \o t, Waiting' = s \o t, Runs => t # <<>>
  PROVE  BoxStep
<1> DEFINE i == Len(s) + 1
<1>1. (MyState = "Running" /\ Regular)' = (MyState = "Running" /\ Regular)
  BY DEF Rest, Runs
<1>2. Waiting' = Box!RemoveAt(Waiting, i) /\ Len(Waiting) = i + Len(t)
  BY RemoveBetween
<1>3. Len(s) \in Nat /\ Len(t) \in Nat /\ (t # <<>> => Len(t) > 0)
  BY EmptySeq
<1>4. i \in 1 .. Len(Waiting) /\ (Runs => i < Len(Waiting))
  BY <1>2, <1>3
<1>5. Waiting \in Seq(Message)
  <2>1. <<x>> \in Seq(Message)
    OBVIOUS
  <2>2. s \o <<x>> \in Seq(Message)
    BY <2>1, ConcatProperties
  <2> QED  BY <2>2, ConcatProperties
<1>6. i \in DOMAIN Waiting
  BY <1>4, <1>5
<1> HIDE DEF i
<1>7. Box!Lose(i)
  BY <1>1, <1>2, <1>4 DEF Rest, Runs, Box!Lose, Box!soundVars
<1> QED  BY <1>6, <1>7 DEF BoxStep, Box!BoxNext

LEMMA BoxLosesLast ==
  ASSUME Rest, ~Runs, NEW s \in Seq(Message), NEW t \in Seq(Message),
         Waiting = s \o t, Waiting' = s
  PROVE  BoxStep
<1>1. CASE t = <<>>
  <2>1. Waiting' = Waiting
    BY <1>1, ConcatEmptySeq
  <2> QED  BY <2>1, BoxStutters
<1>2. CASE t # <<>>
  <2> DEFINE i == Len(s) + 1
  <2>1. (MyState = "Running" /\ Regular)' = (MyState = "Running" /\ Regular)
    BY DEF Rest, Runs
  <2>2. Len(s) \in Nat /\ Len(t) \in Nat /\ Len(t) > 0 /\ i - 1 = Len(s)
    BY <1>2, EmptySeq
  <2>3. Waiting' = SubSeq(Waiting, 1, i - 1)
    BY <2>2, CutAfter
  <2>4. Waiting \in Seq(Message) /\ Len(Waiting) = Len(s) + Len(t)
    BY ConcatProperties
  <2>5. i \in DOMAIN Waiting
    BY <2>2, <2>4
  <2> HIDE DEF i
  <2>6. Box!LoseFrom(i)
    BY <2>1, <2>3 DEF Rest, Runs, Box!LoseFrom, Box!soundVars
  <2> QED  BY <2>5, <2>6 DEF BoxStep, Box!BoxNext
<1> QED  BY <1>1, <1>2

\* The message in hand stays if no task begins or ends to have one.
LEMMA TakenKept ==
  ASSUME TypeInv, UNCHANGED created,
         \A k \in Task : /\ tpc'[k] = "process" <=> tpc[k] = "process"
                         /\ tpc[k] = "process" => received'[k] = received[k]
  PROVE  Taken' = Taken
<1>1. created > 0 => created \in Task
  BY AudioAssumption DEF TypeInv, AudioTypeOK, Task
<1> QED  BY <1>1 DEF Taken, AudioThread

\* A step that touches neither the ring, nor the mailbox, nor the message in hand.
LEMMA WaitingKept ==
  ASSUME UNCHANGED <<queueVars, NextTrackID>>, Taken' = Taken
  PROVE  Waiting' = Waiting
<1>1. Contents' = Contents
  BY DEF queueVars, Contents
<1> QED  BY <1>1 DEF Waiting, Mailbox

LEMMA StillWaiting ==
  ASSUME UNCHANGED <<queueVars, NextTrackID, created, tpc, received>>
  PROVE  Waiting' = Waiting
  BY WaitingKept DEF Taken, AudioThread

\* The service may say that it runs, or no longer.
LEMMA BoxRuns ==
  ASSUME UNCHANGED <<CurrTrackID, Speaker, pwm, enabled>>, Waiting' = Waiting
  PROVE  BoxStep
<1>1. CASE Runs' <=> Runs
  BY <1>1, BoxStutters DEF Rest
<1>2. CASE ~(Runs' <=> Runs)
  <2>1. (MyState = "Running" /\ Regular)' = ~(MyState = "Running" /\ Regular)
    BY <1>2 DEF Runs
  <2>2. Box!RunOrStop
    BY <2>1 DEF Box!RunOrStop, Box!soundVars
  <2> QED  BY <2>2 DEF BoxStep, Box!BoxNext
<1> QED  BY <1>1, <1>2

\* The ring is emptied when the service does not run.
LEMMA RingDropped ==
  ASSUME TypeInv, Rest, ~Runs, UNCHANGED <<NextTrackID, created, tpc, received>>,
         MsgQLen' = 0
  PROVE  BoxStep
<1>1. Contents' = <<>> /\ Mailbox' = Mailbox /\ Taken' = Taken
  BY DEF Contents, Mailbox, Taken, AudioThread
<1>2. Waiting' = Mailbox \o Taken
  BY <1>1, WaitingParts, ConcatEmptySeq DEF Waiting
<1> QED  BY <1>2, WaitingParts, BoxLosesLast DEF Waiting

\* A message that the ring accepts joins what waits.
LEMMA RingAccepts ==
  ASSUME TypeInv, Rest, NEW m \in Message, SendMessage(m), ~QueueFull,
         UNCHANGED NextTrackID, Taken' = Taken
  PROVE  BoxStep
<1> DEFINE s == Mailbox \o Taken
<1>1. Contents' = Append(Contents, m) /\ Mailbox' = Mailbox
  BY SendAppends DEF TypeInv, AudioTypeOK, Mailbox
<1>2. s \in Seq(Message) /\ Contents \in Seq(Message) /\ s \o Contents \in Seq(Message)
  BY WaitingParts DEF Waiting
<1>3. Waiting' = s \o Append(Contents, m)
  BY <1>1 DEF Waiting
<1> HIDE DEF s
<1>4. <<m>> \in Seq(Message)
  OBVIOUS
<1>5. s \o Append(Contents, m) = s \o (Contents \o <<m>>)
  BY <1>2, AppendIsConcat
<1>6. s \o (Contents \o <<m>>) = (s \o Contents) \o <<m>>
  BY <1>2, <1>4, ConcatAssociative
<1>7. Append(s \o Contents, m) = (s \o Contents) \o <<m>>
  BY <1>2, AppendIsConcat
<1>8. Waiting' = Append(Waiting, m)
  BY <1>3, <1>5, <1>6, <1>7 DEF Waiting, s
<1> QED  BY <1>8, BoxAccepts

\* The steps of a client.
LEMMA BoxClient ==
  ASSUME IInv, LockInv, NEW c \in Client, Call(c) \/ ClientStep(c)
  PROVE  BoxStep
<1>1. TypeInv
  BY DEF IInv
<1>2. CASE Audio_initBegin(c)
  <2>1. /\ MyState = "Ended" /\ MsgQLen' = 0
        /\ UNCHANGED <<NextTrackID, created, tpc, received, CurrTrackID, Speaker, pwm,
                       enabled, MyState>>
    BY <1>2 DEF Audio_initBegin, InitMessaging, atomicVars, taskVars, soundVars,
       playerVars, speakerVars
  <2>2. Rest /\ ~Runs
    BY <2>1 DEF Rest, Runs
  <2> QED  BY <1>1, <2>1, <2>2, RingDropped
<1>3. CASE Audio_startCreate(c)
  <2>1. /\ AudioMutex = Nobody /\ MyState = "Inited" /\ created' = created + 1
        /\ created' \in Task /\ tpc'[created'] = "begin"
        /\ UNCHANGED <<queueVars, NextTrackID, CurrTrackID, Speaker, pwm, enabled>>
    BY <1>1, <1>3, AudioAssumption DEF Audio_startCreate, atomicVars, soundVars,
       playerVars, speakerVars, TypeInv, AudioTypeOK, Task
  <2>2. \A k \in Task : ~Looping(k)
    BY <2>1, AudioAssumption DEF IInv, SessionInv, OwnerInv, HoldsAudioMutex
  <2>3. created > 0 => created \in Task
    BY <1>1, AudioAssumption DEF TypeInv, AudioTypeOK, Task
  <2>4. Taken = <<>>
    BY <2>2, <2>3 DEF Taken, AudioThread, Looping, LoopPlace
  <2>5. Taken' = <<>>
    BY <2>1 DEF Taken, AudioThread
  <2> QED  BY <2>1, <2>4, <2>5, WaitingKept, BoxRuns
<1>4. CASE Audio_PlayTrack(c) \/ Audio_endBegin(c) \/ Audio_startPublish(c)
           \/ SendMessageLock(c) \/ SendMessageRefused(c) \/ SendMessageUnlock(c)
           \/ Audio_endJoin(c) \/ Audio_endDestroy(c)
  <2>1. UNCHANGED <<queueVars, NextTrackID, created, tpc, received, CurrTrackID, Speaker, pwm, enabled>>
    BY <1>4 DEF Audio_PlayTrack, Audio_endBegin, Audio_startPublish, SendMessageLock,
       SendMessageRefused, SendMessageUnlock, Audio_endJoin, Audio_endDestroy,
       atomicVars, taskVars, soundVars, playerVars, speakerVars
  <2> QED  BY <2>1, StillWaiting, BoxRuns
<1>5. CASE Audio_initFinish(c)
  <2>1. /\ cpc[c] = "init_speaker"
        /\ UNCHANGED <<queueVars, NextTrackID, created, tpc, received, CurrTrackID, bornEarly, remade>>
    BY <1>5 DEF Audio_initFinish, ClientGoes, taskVars, playerVars
  <2>2. Waiting' = Waiting
    BY <2>1, StillWaiting
  <2>3. CASE Speaker_InitFails
    BY <2>1, <2>2, <2>3, BoxRuns DEF Speaker_InitFails, speakerVars
  <2>4. CASE Speaker_InitSucceeds /\ MyState' = "Inited"
    <3>1. MyState = "Ended"
      BY <2>1 DEF IInv, EndInv
    <3>2. (MyState = "Running" /\ Regular)' = (MyState = "Running" /\ Regular)
      BY <2>4, <3>1
    <3>3. (Speaker = "SPEAKER_INITED")' = TRUE
      BY <2>4 DEF Speaker_InitSucceeds
    <3>4. Box!Open
      BY <2>1, <2>2, <2>4, <3>2, <3>3 DEF Box!Open, Box!soundVars, Speaker_InitSucceeds
    <3> QED  BY <3>4 DEF BoxStep, Box!BoxNext
  <2> QED  BY <1>5, <2>3, <2>4 DEF Audio_initFinish
<1>6. CASE SendMessageEnqueue(c)
  <2>1. /\ request[c] \in Message
        /\ UNCHANGED <<MyState, NextTrackID, bornEarly, remade, created, received,
                       CurrTrackID, Speaker, pwm, enabled>>
    BY <1>1, <1>6 DEF SendMessageEnqueue, ClientGoes, TypeInv, InHand, SendPlace,
       atomicVars, soundVars, playerVars, speakerVars
  <2>2. tpc \in [Task -> TaskPlace]
    BY <1>1 DEF TypeInv, AudioTypeOK
  <2>3. \A k \in Task : tpc'[k] = "process" <=> tpc[k] = "process"
    BY <1>6, <2>2 DEF SendMessageEnqueue, Signal, TaskGoes
  <2>4. Taken' = Taken
    BY <1>1, <2>1, <2>3, TakenKept
  <2>5. CASE QueueFull
    <3>1. UNCHANGED queueVars
      BY <1>6, <2>5 DEF SendMessageEnqueue, SendMessage
    <3> QED  BY <2>1, <2>4, <3>1, WaitingKept, BoxRuns
  <2>6. CASE ~QueueFull
    <3>1. SendMessage(request[c]) /\ Rest
      BY <1>6, <2>1 DEF SendMessageEnqueue, Rest, Runs, Regular
    <3> QED  BY <1>1, <2>1, <2>4, <2>6, <3>1, RingAccepts
  <2> QED  BY <2>5, <2>6
<1>7. CASE Audio_endDeInit(c)
  <2>1. /\ cpc[c] = "end_deinit"
        /\ UNCHANGED <<queueVars, NextTrackID, created, tpc, received, CurrTrackID,
                       MyState, bornEarly, remade>>
        /\ Speaker_DeInit \/ UNCHANGED speakerVars
    BY <1>7 DEF Audio_endDeInit, ClientGoes, atomicVars, taskVars, playerVars
  <2>2. Waiting' = Waiting
    BY <2>1, StillWaiting
  <2>3. CASE UNCHANGED speakerVars
    BY <2>1, <2>2, <2>3, BoxRuns DEF speakerVars
  <2>4. CASE Speaker' = "SPEAKER_ENDED" /\ pwm' = Silence /\ enabled' = FALSE
    <3>1. ~(MyState = "Running" /\ Regular)
      BY <2>1 DEF IInv, EndInv
    <3>2. (MyState = "Running" /\ Regular)' = (MyState = "Running" /\ Regular)
      BY <2>1 DEF Regular
    <3>3. (Speaker = "SPEAKER_INITED")' = FALSE
      BY <2>4
    <3>4. Box!Close
      BY <2>1, <2>2, <2>4, <3>1, <3>2, <3>3 DEF Box!Close, Box!Hush
    <3> QED  BY <3>4 DEF BoxStep, Box!BoxNext
  <2> QED  BY <2>1, <2>3, <2>4 DEF Speaker_DeInit
<1>8. CASE Audio_endFinish(c)
  <2>1. /\ cpc[c] \in {"end_ok", "end_busy"}
        /\ MyState' = "Ended" \/ UNCHANGED MyState
        /\ MsgQLen' = 0 \/ UNCHANGED queueVars
        /\ UNCHANGED <<NextTrackID, created, tpc, received, CurrTrackID, Speaker, pwm,
                       enabled>>
    BY <1>8 DEF Audio_endFinish, ClientGoes, EndBusy, DropMessages, taskVars, soundVars,
       playerVars, speakerVars
  <2>2. MyState # "Running"
    BY <2>1 DEF IInv, EndInv
  <2>3. Rest /\ ~Runs
    BY <2>1, <2>2 DEF Rest, Runs
  <2>4. CASE MsgQLen' = 0
    BY <1>1, <2>1, <2>3, <2>4, RingDropped
  <2>5. CASE UNCHANGED queueVars
    BY <2>1, <2>5, StillWaiting, BoxRuns
  <2> QED  BY <2>1, <2>4, <2>5
<1>9. ASSUME NEW d \in Client, Audio_initRaced(c, d) PROVE BoxStep
  BY <1>9, RacedInit DEF BoxStep
<1>10. ASSUME NEW d \in Client, Audio_endRaced(c, d) PROVE BoxStep
  <2> DEFINE m == request[d]
             s == Mailbox \o Taken
             t == Tail(Contents)
  <2>1. DropMessagesRaced(m) /\ m \in Message /\ cpc[c] \in {"end_ok", "end_busy"}
    BY <1>1, <1>10 DEF Audio_endRaced, BothGo, TypeInv, InHand, SendPlace
  <2>2. /\ UNCHANGED <<NextTrackID, created, received, CurrTrackID, Speaker, pwm, enabled>>
        /\ MyState' \in {MyState, "Ended"}
        /\ \A k \in Task : tpc'[k] = "process" <=> tpc[k] = "process"
    BY <1>10, RacedMoves DEF soundVars, playerVars, speakerVars
  <2>3. Rest /\ ~Runs
    <3>1. MyState # "Running"
      BY <2>1 DEF IInv, EndInv
    <3> QED  BY <2>2, <3>1 DEF Rest, Runs
  <2>4. Taken' = Taken /\ Mailbox' = Mailbox
    BY <1>1, <2>2, TakenKept DEF Mailbox
  <2>5. s \in Seq(Message) /\ Contents \in Seq(Message) /\ Len(Contents) = MsgQLen /\ MsgQLen \in Nat
    BY <1>1, WaitingParts
  <2>6. Waiting' = s \o Contents'
    BY <2>4 DEF Waiting
  <2>7. QueueTypeOK
    BY <1>1 DEF TypeInv
  <2> HIDE DEF m, s
  <2>8. CASE MsgQLen = 0
    <3>1. Contents = <<>> /\ Contents' = <<m>>
      BY <2>1, <2>7, <2>8, RacedContents
    <3>2. Waiting = s
      BY <2>5, <3>1, ConcatEmptySeq DEF Waiting, s
    <3>3. Waiting' = Append(Waiting, m)
      BY <2>1, <2>5, <2>6, <3>1, <3>2, AppendIsConcat
    <3> QED  BY <2>1, <2>3, <3>3, BoxAccepts
  <2>9. CASE MsgQLen > 0
    <3> DEFINE y == <<Head(Contents)>>
    <3>1. Contents # <<>> /\ Contents' = y
      BY <2>1, <2>5, <2>7, <2>9, RacedContents
    <3>2. y \in Seq(Message) /\ t \in Seq(Message) /\ Contents = y \o t
      <4>1. Head(Contents) \in Message /\ t \in Seq(Message)
        BY <2>5, <3>1, HeadTailProperties
      <4> QED  BY <2>5, <3>1, <4>1, HeadBeforeTail
    <3> HIDE DEF y, t
    <3>3. Waiting = (s \o y) \o t /\ s \o y \in Seq(Message)
      <4>1. Waiting = s \o (y \o t)
        BY <3>2 DEF Waiting, s
      <4> QED  BY <2>5, <3>2, <4>1, ConcatAssociative, ConcatProperties
    <3> QED  BY <2>3, <2>6, <3>1, <3>2, <3>3, BoxLosesLast
  <2> QED  BY <2>5, <2>8, <2>9
<1> QED
  BY <1>2, <1>3, <1>4, <1>5, <1>6, <1>7, <1>8, <1>9, <1>10 DEF Call, ClientStep

\* The task and its player touch the message in hand only where it is taken and acted on.
LEMMA TaskStutters ==
  ASSUME TypeInv, UNCHANGED <<queueVars, NextTrackID, created, received, CurrTrackID, Speaker, pwm, enabled>>,
         \A k \in Task : tpc'[k] = "process" <=> tpc[k] = "process"
  PROVE  BoxStep
  BY TakenKept, WaitingKept, BoxRuns

\* The steps of a task.
LEMMA BoxTask ==
  ASSUME IInv, VoiceInv, NEW k \in Task, TaskStep(k) \/ TaskSpuriousWakeup(k)
  PROVE  BoxStep
<1>1. TypeInv /\ tpc \in [Task -> TaskPlace]
  BY DEF IInv, TypeInv, AudioTypeOK
<1>2. CASE ~TaskReceive(k) /\ ~TaskProcess(k)
  <2>1. UNCHANGED <<queueVars, NextTrackID, created, received, CurrTrackID, Speaker, pwm, enabled>>
    BY <1>2 DEF TaskStep, TaskBegin, TaskCheck, TaskWait, TaskWakeup, TaskRelock, TaskStop,
       TaskUnlock, TaskWindDown, TaskJoin, TaskSpuriousWakeup, atomicVars, clientVars,
       soundVars, playerVars, speakerVars
  <2>2. \A j \in Task : tpc'[j] = "process" <=> tpc[j] = "process"
    BY <1>1, <1>2 DEF TaskStep, TaskBegin, TaskCheck, TaskWait, TaskWakeup, TaskRelock,
       TaskStop, TaskUnlock, TaskWindDown, TaskJoin, TaskSpuriousWakeup, TaskGoes
  <2> QED  BY <1>1, <2>1, <2>2, TaskStutters
<1>3. CASE TaskReceive(k)
  <2>1. /\ GetMessage /\ tpc[k] = "receive" /\ tpc'[k] = "process" /\ received'[k] = TopMessage
        /\ UNCHANGED <<MyState, NextTrackID, created, CurrTrackID, Speaker, pwm, enabled>>
    BY <1>1, <1>3 DEF TaskReceive, TaskGoes, TypeInv, AudioTypeOK, atomicVars, clientVars,
       soundVars, playerVars, speakerVars
  <2>2. k = created /\ created > 0
    BY <2>1, AudioAssumption DEF IInv, SessionInv, Looping, LoopPlace, Task
  <2>3. Taken = <<>> /\ Taken' = <<TopMessage>> /\ Mailbox' = Mailbox
    BY <2>1, <2>2 DEF Taken, AudioThread, Mailbox
  <2>4. Contents # <<>> /\ TopMessage = Head(Contents) /\ Contents' = Tail(Contents)
    BY <1>1, <2>1, GetTakes DEF TypeInv, AudioTypeOK
  <2>5. /\ Contents = <<TopMessage>> \o Contents'
        /\ <<TopMessage>> \in Seq(Message) /\ Contents' \in Seq(Message)
    <3>1. Contents \in Seq(Message)
      BY <1>1, WaitingParts
    <3>2. Head(Contents) \in Message /\ Tail(Contents) \in Seq(Message)
      BY <2>4, <3>1, HeadTailProperties
    <3> QED  BY <2>4, <3>1, <3>2, HeadBeforeTail
  <2>6. Mailbox \in Seq(Message)
    BY <1>1, WaitingParts
  <2>7. Waiting = Mailbox \o Contents
    BY <2>3, <2>6, ConcatEmptySeq DEF Waiting
  <2>8. Waiting' = (Mailbox \o <<TopMessage>>) \o Contents'
    BY <2>3 DEF Waiting
  <2>9. Waiting' = Waiting
    BY <2>5, <2>6, <2>7, <2>8, ConcatAssociative
  <2> QED  BY <2>1, <2>9, BoxRuns
<1>4. CASE TaskProcess(k)
  <2>1. /\ tpc[k] = "process" /\ tpc'[k] # "process"
        /\ UNCHANGED <<queueVars, MyState, created, bornEarly, remade, CurrTrackID, Speaker,
                       pwm, enabled>>
    BY <1>1, <1>4 DEF TaskProcess, TaskGoes, clientVars, soundVars, playerVars, speakerVars
  <2>2. k = created /\ created > 0
    BY <2>1, AudioAssumption DEF IInv, SessionInv, Looping, LoopPlace, Task
  <2> DEFINE m == received[k]
             e == <<>>
  <2>3. m \in Message
    BY <1>1, <2>1 DEF TypeInv, InHand
  <2>4. Taken = <<m>> /\ Taken' = <<>> /\ Contents' = Contents /\ Rest
    BY <2>1, <2>2 DEF Taken, AudioThread, Contents, queueVars, Rest, Runs, Regular
  <2>5. /\ Mailbox \in Seq(Message) /\ <<m>> \in Seq(Message) /\ Contents \in Seq(Message)
        /\ e \in Seq(Message)
    BY <1>1, <2>3, WaitingParts
  <2>6. Waiting = Mailbox \o <<m>> \o Contents
    BY <2>4 DEF Waiting
  <2>7. Waiting' = Mailbox' \o Contents
    <3>1. Mailbox' \in Seq(Message)
      <4>1. NextTrackID' = NextTrackID \/ NextTrackID' \in Message
        BY <1>4, <2>3 DEF TaskProcess
      <4>2. CASE NextTrackID' = NextTrackID
        BY <2>5, <4>2 DEF Mailbox
      <4>3. CASE NextTrackID' \in Message
        BY <4>3, AudioAssumption DEF Mailbox
      <4> QED  BY <4>1, <4>2, <4>3
    <3> QED  BY <2>4, <3>1, ConcatEmptySeq DEF Waiting
  <2>8. CASE m = MSG_ID_END
    <3>1. Mailbox' = Mailbox
      BY <1>4, <2>8 DEF TaskProcess, Mailbox
    <3>2. ~Runs
      <4>1. Runs => ServedInv
        BY DEF VoiceInv, PlaceInv, Runs
      <4> QED  BY <2>1, <2>2, <2>8, <4>1 DEF Runs, ServedInv
    <3>3. Waiting' = Mailbox \o Contents
      BY <2>7, <3>1
    <3> HIDE DEF m
    <3> QED  BY <2>3, <2>4, <2>5, <2>6, <3>2, <3>3, BoxLoses
  <2>9. CASE m # MSG_ID_END
    <3>1. NextTrackID' = m
      BY <1>4, <2>9 DEF TaskProcess
    <3>2. Mailbox' = <<m>>
      BY <2>3, <3>1, AudioAssumption DEF Mailbox
    <3>3. CASE NextTrackID = MaxTracks
      <4>1. Mailbox = e
        BY <3>3 DEF Mailbox
      <4>2. Waiting = <<m>> \o Contents
        BY <2>5, <2>6, <4>1, ConcatEmptySeq
      <4> QED  BY <2>4, <2>7, <3>2, <4>2, BoxStutters
    <3>4. CASE NextTrackID # MaxTracks
      <4> DEFINE x == NextTrackID
                 t == <<m>> \o Contents
      <4>1. Mailbox = <<x>> /\ x \in Message
        BY <1>1, <3>4 DEF Mailbox, TypeInv, AudioTypeOK, Track, Message
      <4>2. t \in Seq(Message) /\ t # <<>>
        BY <2>3, <2>5, FirstBefore
      <4>3. Waiting = <<x>> \o t
        BY <2>5, <2>6, <4>1, ConcatAssociative
      <4>4. Waiting' = t
        BY <2>7, <3>2
      <4> HIDE DEF x, t
      <4>5. <<x>> \in Seq(Message) /\ e \o <<x>> = <<x>> /\ e \o t = t
        <5>1. <<x>> \in Seq(Message)
          BY <4>1
        <5> QED  BY <4>2, <5>1, ConcatEmptySeq
      <4>6. Waiting = e \o <<x>> \o t /\ Waiting' = e \o t
        BY <4>3, <4>4, <4>5
      <4> HIDE DEF e
      <4> QED  BY <2>4, <2>5, <4>1, <4>2, <4>6, BoxLoses
    <3> QED  BY <3>3, <3>4
  <2> QED  BY <2>8, <2>9
<1> QED  BY <1>2, <1>3, <1>4

\* The steps of a player.
LEMMA BoxPlayer ==
  ASSUME IInv, VoiceInv, NEW k \in Task, PlayerStep(k)
  PROVE  BoxStep
<1>1. TypeInv /\ NextTrackID \in Track /\ CurrTrackID \in [Task -> Track]
  BY DEF IInv, TypeInv, AudioTypeOK
<1>2. UNCHANGED <<queueVars, MyState, bornEarly, remade, created, tpc, received>>
  BY DEF PlayerStep, PlayerCheck, PlayerFetch, PlayerSound, PlayerLeave, PlayerHush,
     atomicVars, clientVars, taskVars
<1>3. /\ Contents' = Contents /\ Taken' = Taken
      /\ (MyState = "Running" /\ Regular)' = (MyState = "Running" /\ Regular)
  BY <1>2 DEF Contents, queueVars, Taken, AudioThread, Regular
<1>4. Mailbox \in Seq(Message) /\ Taken \in Seq(Message) /\ Contents \in Seq(Message)
      /\ Taken \o Contents \in Seq(Message)
  BY <1>1, WaitingParts
<1>5. Waiting = Mailbox \o (Taken \o Contents)
  BY <1>4, ConcatAssociative DEF Waiting
<1>6. NextTrackID' = MaxTracks => Waiting' = Taken \o Contents
  <2> SUFFICES ASSUME NextTrackID' = MaxTracks PROVE Waiting' = Taken \o Contents
    OBVIOUS
  <2>1. Mailbox' = <<>>
    BY DEF Mailbox
  <2> QED  BY <1>3, <1>4, <2>1, ConcatEmptySeq DEF Waiting
<1>7. NextTrackID = MaxTracks => Waiting = Taken \o Contents
  BY <1>4, <1>5, ConcatEmptySeq DEF Mailbox
<1>8. NextTrackID # MaxTracks =>
        /\ NextTrackID \in Tracks /\ NextTrackID \in Message
        /\ Waiting = <<NextTrackID>> \o (Taken \o Contents)
  BY <1>1, <1>5 DEF Mailbox, Track, Message
<1>9. NextTrackID' = NextTrackID => Waiting' = Waiting
  BY <1>2, StillWaiting
<1>10. CASE PlayerCheck(k)
  BY <1>9, <1>10, BoxRuns DEF PlayerCheck, atomicVars, speakerVars
<1>11. CASE PlayerFetch(k)
  <2>1. /\ NextTrackID' = MaxTracks /\ UNCHANGED <<Speaker, pwm, enabled>>
        /\ CurrTrackID' = [CurrTrackID EXCEPT ![k] =
                             IF NextTrackID # MaxTracks THEN NextTrackID ELSE @]
    BY <1>11 DEF PlayerFetch, MailboxTaken, speakerVars
  <2>2. CASE NextTrackID = MaxTracks
    <3>1. CurrTrackID' = CurrTrackID
      BY <1>1, <2>1, <2>2
    <3> QED  BY <1>6, <1>7, <2>1, <2>2, <3>1, BoxRuns
  <2>3. CASE NextTrackID # MaxTracks
    <3>1. Waiting # <<>> /\ Head(Waiting) = NextTrackID /\ Tail(Waiting) = Taken \o Contents
      <4> DEFINE t == Taken \o Contents
      <4>1. t \in Seq(Message) /\ NextTrackID \in Message /\ Waiting = <<NextTrackID>> \o t
        BY <1>4, <1>8, <2>3
      <4> HIDE DEF t
      <4>2. Waiting # <<>> /\ Head(Waiting) = NextTrackID /\ Tail(Waiting) = t
        BY <4>1, FirstBefore
      <4> QED  BY <4>2 DEF t
    <3>2. CurrTrackID' = [CurrTrackID EXCEPT ![k] = Head(Waiting)]
      BY <2>1, <2>3, <3>1
    <3>3. (Speaker = "SPEAKER_INITED")' = (Speaker = "SPEAKER_INITED")
      BY <2>1
    <3>4. Box!Take(k)
      BY <1>3, <1>6, <1>8, <2>1, <2>3, <3>1, <3>2, <3>3 DEF Box!Take, Box!soundVars
    <3> QED  BY <3>4 DEF BoxStep, Box!BoxNext
  <2> QED  BY <2>2, <2>3
<1>12. CASE PlayerLeave(k)
  <2>1. NextTrackID' = MaxTracks /\ UNCHANGED <<CurrTrackID, Speaker, pwm, enabled>> /\ ppc[k] = "leave"
    BY <1>12 DEF PlayerLeave, PlayerGoes, MailboxEmptied, speakerVars
  <2>2. CASE NextTrackID = MaxTracks
    BY <1>6, <1>7, <2>1, <2>2, BoxRuns
  <2>3. CASE NextTrackID # MaxTracks
    <3>1. ~Runs
      <4> SUFFICES ASSUME Runs PROVE FALSE
        OBVIOUS
      <4>1. ServedInv /\ OldInv /\ TasksInv /\ PlayerInv
        BY DEF Runs, VoiceInv, PlaceInv
      <4>2. created \in Task /\ tpc[created] \in LoopPlace
        BY <4>1 DEF Runs, ServedInv
      <4>3. CASE k = created
        BY <2>1, <4>1, <4>2, <4>3 DEF PlayerInv, LoopPlace
      <4>4. CASE k < created
        BY <2>1, <4>1, <4>4 DEF PlayerInv, OldInv
      <4>5. CASE k > created
        BY <2>1, <4>1, <4>5 DEF PlayerInv, TasksInv
      <4> QED  BY <4>2, <4>3, <4>4, <4>5 DEF Task
    <3>2. Rest
      BY <1>2, <2>1 DEF Rest, Runs, Regular
    <3> DEFINE x == NextTrackID
               t == Taken \o Contents
               e == <<>>
    <3>3. <<x>> \in Seq(Message) /\ x \in Message /\ t \in Seq(Message) /\ e \in Seq(Message)
      BY <1>4, <1>8, <2>3
    <3>4. Waiting = <<x>> \o t /\ Waiting' = t
      BY <1>6, <1>8, <2>1, <2>3
    <3> HIDE DEF x, t
    <3>5. e \o <<x>> = <<x>> /\ e \o t = t
      BY <3>3, ConcatEmptySeq
    <3>6. Waiting = e \o <<x>> \o t /\ Waiting' = e \o t
      BY <3>4, <3>5
    <3> HIDE DEF e
    <3> QED  BY <3>1, <3>2, <3>3, <3>6, BoxLoses
  <2> QED  BY <2>2, <2>3
<1>13. CASE PlayerSound(k) \/ PlayerHush(k)
  <2>1. NextTrackID' = NextTrackID
    BY <1>13 DEF PlayerSound, PlayerHush, atomicVars
  <2>2. \/ UNCHANGED CurrTrackID
        \/ CurrTrackID' = [CurrTrackID EXCEPT ![k] = MaxTracks]
    BY <1>13 DEF PlayerSound, PlayerHush
  <2>3. CASE UNCHANGED speakerVars \/ Speaker_PlayPitch(Silence)
    <3>1. /\ (Speaker = "SPEAKER_INITED")' = (Speaker = "SPEAKER_INITED")
          /\ UNCHANGED <<pwm, enabled>> \/ (pwm' = Silence /\ enabled' = FALSE)
      BY <2>3 DEF Speaker_PlayPitch, WritePitch, speakerVars
    <3>2. Box!Pause(k)
      BY <1>3, <1>9, <2>1, <2>2, <3>1 DEF Box!Pause, Box!soundVars, Box!Hush
    <3> QED  BY <3>2 DEF BoxStep, Box!BoxNext
  <2>4. CASE ~(UNCHANGED speakerVars \/ Speaker_PlayPitch(Silence))
    <3>1. PICK f \in Notes[CurrTrackID[k]] : Speaker_PlayPitch(f)
      BY <1>13, <2>4 DEF PlayerSound, PlayerHush
    <3>2. CurrTrackID[k] # MaxTracks /\ UNCHANGED CurrTrackID
      BY <1>13, <2>4 DEF PlayerSound, PlayerHush
    <3>3. f # Silence
      BY <1>1, <3>2, AudioAssumption DEF Track
    <3>4. Speaker = "SPEAKER_INITED" /\ Speaker' = Speaker /\ WritePitch(f)
      BY <2>4, <3>1 DEF Speaker_PlayPitch
    <3>5. Box!Sound(k)
      BY <1>3, <1>9, <2>1, <3>1, <3>2, <3>3, <3>4 DEF WritePitch, Box!Sound
    <3> QED  BY <3>5 DEF BoxStep, Box!BoxNext
  <2> QED  BY <2>3, <2>4
<1> QED  BY <1>10, <1>11, <1>12, <1>13 DEF PlayerStep

\* Every step of the service is one of the box, or none.
LEMMA BoxSteps == VInv /\ [Next]_vars => BoxStep
<1> SUFFICES ASSUME VInv, [Next]_vars PROVE BoxStep
  OBVIOUS
<1>1. IInv /\ LockInv /\ VoiceInv
  BY DEF VInv
<1>2. CASE Next
  BY <1>1, <1>2, BoxClient, BoxTask, BoxPlayer DEF Next
<1>3. CASE UNCHANGED vars
  <2>1. UNCHANGED <<queueVars, NextTrackID, created, tpc, received, CurrTrackID, Speaker, pwm, enabled>>
    BY <1>3 DEF vars, atomicVars, clientVars, taskVars, soundVars, playerVars, speakerVars
  <2> QED  BY <2>1, StillWaiting, BoxRuns
<1> QED  BY <1>2, <1>3

\* The threads, the ring and the mailbox implement Jukebox: what is accepted
\* sounds in its order and at most once (Audio.c:272-305, 341-391, 545-582).
THEOREM RequestsArePlayed == Spec => PlaysRequests
<1>1. Init => Box!BoxInit
  <2> SUFFICES ASSUME Init PROVE Box!BoxInit
    OBVIOUS
  <2>1. Mailbox = <<>> /\ Taken = <<>> /\ Contents = <<>>
    BY ZeroIsEmpty DEF Init, QueueInit, Mailbox, Taken
  <2>2. Waiting = <<>>
    BY <2>1 DEF Waiting
  <2>3. (MyState = "Running" /\ Regular) = FALSE /\ (Speaker = "SPEAKER_INITED") = FALSE
    BY DEF Init
  <2>4. pwm \in Pitches \cup {Silence}
    BY DEF Init, Pitch
  <2> QED  BY <2>2, <2>3, <2>4 DEF Init, Box!BoxInit
<1>2. VInv /\ [Next]_vars => [Box!BoxNext \/ remade']_Box!boxVars
  BY BoxSteps DEF BoxStep
<1> QED
  BY <1>1, <1>2, VoiceAlways, PTL DEF Spec, PlaysRequests
=============================================================================
