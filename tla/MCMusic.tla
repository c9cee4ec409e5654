------------------------------ MODULE MCMusic ------------------------------
(* Player for TLC with the tables of Music.h and the clock of the channel. *)
(* A note lasts a 20th of its turns, at least one: all but the first and   *)
(* the last of its turns are alike.                                        *)
EXTENDS Player, Music

MusicTracks   == DOMAIN Tables
MusicMelodies == [t \in MusicTracks |-> Tables[t].Melody]
MusicRhythms  == [t \in MusicTracks |->
                   [i \in DOMAIN Tables[t].Rhythm |-> (Tables[t].Rhythm[i] + 19) \div 20]]
=============================================================================
