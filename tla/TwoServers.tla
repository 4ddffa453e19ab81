----------------------------- MODULE TwoServers -----------------------------
(***************************************************************************)
(* Two servers on one store file: the misconfiguration the store detects   *)
(* rather than supports (sessionStore.ts, "Single writer per file, by      *)
(* deployment").  Each process is a SessionStore of its own; they share    *)
(* the file, and nothing else.                                             *)
(*                                                                         *)
(* The check before a write and the rename that publishes it are two       *)
(* steps, so another process can publish in between; the code says so and  *)
(* accepts it.  `raced` records that this has happened.                    *)
(***************************************************************************)
EXTENDS StoreRows, Naturals, Sequences

CONSTANTS NoFile, WriteAttempts, MaxQueue, MaxRevision   \* as in SessionStore

ASSUME StoreAssumption ==
  /\ WriteAttempts \in Nat \ {0}
  /\ MaxQueue \in Nat
  /\ MaxRevision \in Nat
  /\ NoFile \notin [revision : Nat, rows : Rows]

VARIABLES
  file, issued,
  phaseA, liveA, revisionA, writesA, stageA, nextA, attemptA,
  phaseB, liveB, revisionB, writesB, stageB, nextB, attemptB,
  seenA, seenB,   \* the file as each process's last check found it
  raced           \* a rename has replaced a file its writer had not checked

processA == <<phaseA, liveA, revisionA, writesA, stageA, nextA, attemptA>>
processB == <<phaseB, liveB, revisionB, writesB, stageB, nextB, attemptB>>
vars == <<file, issued, processA, processB, seenA, seenB, raced>>

A == INSTANCE SessionStore WITH
       phase <- phaseA, live <- liveA, revision <- revisionA, writes <- writesA,
       stage <- stageA, next <- nextA, attempt <- attemptA
B == INSTANCE SessionStore WITH
       phase <- phaseB, live <- liveB, revision <- revisionB, writes <- writesB,
       stage <- stageB, next <- nextB, attempt <- attemptB

Init ==
  /\ A!Init
  /\ B!Init
  /\ seenA = NoFile
  /\ seenB = NoFile
  /\ raced = FALSE

(* What a step of one process does to the record of its checks. *)
Observe(stage, stageNext, seen, seenNext) ==
  /\ seenNext = IF stage = "checking" /\ stageNext = "writing" THEN file ELSE seen
  /\ raced' = (raced \/ (stageNext = "landed" /\ stage = "writing" /\ file # seen))

Next ==
  \/ /\ A!Next
     /\ Observe(stageA, stageA', seenA, seenA')
     /\ UNCHANGED <<processB, seenB>>
  \/ /\ B!Next
     /\ Observe(stageB, stageB', seenB, seenB')
     /\ UNCHANGED <<processA, seenA>>

Spec == Init /\ [][Next]_vars

-----------------------------------------------------------------------------
Current(phase, stage, live, revision) ==
  phase = "up" /\ stage = "idle" =>
    /\ file # NoFile
    /\ file.rows = live \/ file.revision # revision

(* "Turning the silent loss of another instance's sessions into a loud     *)
(* SessionStoreConflictError": unless a rename slipped into the window, a  *)
(* server whose sessions are no longer the file's has its next write       *)
(* refused, because a revision names one content only.                     *)
StaleServerIsRefused ==
  ~raced => /\ Current(phaseA, stageA, liveA, revisionA)
            /\ Current(phaseB, stageB, liveB, revisionB)

(* The row one server publishes over the other's is never lost unnoticed:  *)
(* without the race, a rename replaces exactly the rows its writer held.   *)
NoSilentOverwrite ==
  [][/\ ~raced'
     /\ file' # file
     /\ file # NoFile
     => \/ stageA' = "landed" /\ stageA = "writing" /\ file.rows = liveA
        \/ stageB' = "landed" /\ stageB = "writing" /\ file.rows = liveB]_vars
=============================================================================
