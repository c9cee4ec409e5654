------------------------------ MODULE MCAudio ------------------------------
(* Audio for TLC: clients, tracks and pitches are interchangeable model values. *)
EXTENDS Audio, TLC

\* Any track has a note of any pitch.
MCNotes == [t \in Tracks |-> Pitches]

\* Bound: where a held MsgMutex was made anew and the properties of the ring have
\* ended, the sessions whose task got no player are enough for those of the mutex.
Explored == remade => \A k \in Task : ~Alive(k)

Interchangeable ==
  Permutations(Client) \cup Permutations(Tracks) \cup Permutations(Pitches)
=============================================================================
