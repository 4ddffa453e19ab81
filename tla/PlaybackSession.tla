--------------------------- MODULE PlaybackSession ---------------------------
(***************************************************************************)
(* What the playback session promises of the progress it keeps: nothing is *)
(* recorded but for the book of the session, while the session is active,  *)
(* or once, the last time, while it is closing.  Only that last record can *)
(* finish the book.                                                        *)
(*                                                                         *)
(* The chain of operations, the poll timers, the speakers and the two      *)
(* calls of a read are invisible here.                                     *)
(***************************************************************************)
CONSTANTS Book, NoBook, Position

VARIABLES
  book,      \* the book of the session, NoBook without one
  phase,     \* "none", "active", "closing" or "closed": closing, its record made or given up
  progress   \* of each book: the position recorded, and whether it is finished

vars == <<book, phase, progress>>

Init ==
  /\ book = NoBook
  /\ phase = "none"
  /\ progress = [b \in Book |-> [pos |-> 0, finished |-> FALSE]]

Begin ==
  /\ phase = "none"
  /\ phase' = "active"
  /\ book' \in Book
  /\ UNCHANGED progress

Record ==
  /\ phase = "active"
  /\ \E p \in Position : progress' = [progress EXCEPT ![book] = [pos |-> p, finished |-> FALSE]]
  /\ UNCHANGED <<book, phase>>

(* The session closes on content of its own, or on none. *)
Close ==
  /\ phase = "active"
  /\ phase' \in {"closing", "closed"}
  /\ UNCHANGED <<book, progress>>

RecordLast ==
  /\ phase = "closing"
  /\ phase' = "closed"
  /\ \/ \E p \in Position, finished \in BOOLEAN :
          progress' = [progress EXCEPT ![book] = [pos |-> p, finished |-> finished]]
     \/ UNCHANGED progress
  /\ UNCHANGED book

(* It has closed, has been relinquished, or its server has gone down. *)
End ==
  /\ phase # "none"
  /\ phase' = "none"
  /\ book' = NoBook
  /\ UNCHANGED progress

Next == Begin \/ Record \/ Close \/ RecordLast \/ End

Spec == Init /\ [][Next]_vars
=============================================================================
