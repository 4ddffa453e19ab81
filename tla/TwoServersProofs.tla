-------------------------- MODULE TwoServersProofs --------------------------
(***************************************************************************)
(* Theorems about TwoServers, for any number of bearers, users, pairs,     *)
(* attempts and queued writes of either process.  What is said of one      *)
(* process here is SessionStoreProofs' last part, once for each of them.   *)
(***************************************************************************)
EXTENDS TwoServers, TLAPS

PA == INSTANCE SessionStoreProofs WITH
        phase <- phaseA, live <- liveA, revision <- revisionA, writes <- writesA,
        stage <- stageA, next <- nextA, attempt <- attemptA
PB == INSTANCE SessionStoreProofs WITH
        phase <- phaseB, live <- liveB, revision <- revisionB, writes <- writesB,
        stage <- stageB, next <- nextB, attempt <- attemptB

(* The processes of the specification are those the lemmas are about. *)
LEMMA SameA == (A!Init <=> PA!Init) /\ (A!Next <=> PA!Next)
<1>1. A!Init <=> PA!Init
  BY Zenon DEF A!Init, PA!Init, A!NoRows, PA!NoRows
<1>2. A!Next <=> PA!Next
  BY Zenon
  DEF A!OpenExisting, PA!OpenExisting, A!OpenEmpty, PA!OpenEmpty, A!Enqueue,
       PA!Enqueue, A!RequestAttach, PA!RequestAttach, A!RequestRemove,
       PA!RequestRemove, A!RequestUpdate, PA!RequestUpdate, A!RequestBury,
       PA!RequestBury, A!RequestTouch, PA!RequestTouch, A!Settle, PA!Settle,
       A!MutateNothing, PA!MutateNothing, A!Mutate, PA!Mutate, A!NobodyElseWrote,
       PA!NobodyElseWrote, A!CheckFile, PA!CheckFile, A!Fail, PA!Fail,
       A!CheckThrows, PA!CheckThrows, A!Publish, PA!Publish, A!Retry, PA!Retry,
       A!GiveUp, PA!GiveUp, A!Swap, PA!Swap, A!Crash, PA!Crash, A!Boot, PA!Boot,
       A!Request, PA!Request, A!WriteStep, PA!WriteStep, A!Next, PA!Next, A!NoRows,
       PA!NoRows, A!Rows, PA!Rows, A!Chain, PA!Chain, A!Riders, PA!Riders,
       A!HasLiveChain, PA!HasLiveChain, A!HasDeadChain, PA!HasDeadChain, A!AttachOp,
       PA!AttachOp, A!RemoveOp, PA!RemoveOp, A!UpdateOp, PA!UpdateOp, A!BuryOp,
       PA!BuryOp, A!TouchOp, PA!TouchOp, A!Op, PA!Op, A!Attach, PA!Attach,
       A!RemoveApplies, PA!RemoveApplies, A!Remove, PA!Remove, A!StillHolds,
       PA!StillHolds, A!Update, PA!Update, A!Bury, PA!Bury, A!Applies, PA!Applies,
       A!Change, PA!Change, A!DevicesHaveChains, PA!DevicesHaveChains,
       A!DropOrphans, PA!DropOrphans
<1> QED
  BY <1>1, <1>2

(* The processes of the specification are those the lemmas are about. *)
LEMMA SameB == (B!Init <=> PB!Init) /\ (B!Next <=> PB!Next)
<1>1. B!Init <=> PB!Init
  BY Zenon DEF B!Init, PB!Init, B!NoRows, PB!NoRows
<1>2. B!Next <=> PB!Next
  BY Zenon
  DEF B!OpenExisting, PB!OpenExisting, B!OpenEmpty, PB!OpenEmpty, B!Enqueue,
       PB!Enqueue, B!RequestAttach, PB!RequestAttach, B!RequestRemove,
       PB!RequestRemove, B!RequestUpdate, PB!RequestUpdate, B!RequestBury,
       PB!RequestBury, B!RequestTouch, PB!RequestTouch, B!Settle, PB!Settle,
       B!MutateNothing, PB!MutateNothing, B!Mutate, PB!Mutate, B!NobodyElseWrote,
       PB!NobodyElseWrote, B!CheckFile, PB!CheckFile, B!Fail, PB!Fail,
       B!CheckThrows, PB!CheckThrows, B!Publish, PB!Publish, B!Retry, PB!Retry,
       B!GiveUp, PB!GiveUp, B!Swap, PB!Swap, B!Crash, PB!Crash, B!Boot, PB!Boot,
       B!Request, PB!Request, B!WriteStep, PB!WriteStep, B!Next, PB!Next, B!NoRows,
       PB!NoRows, B!Rows, PB!Rows, B!Chain, PB!Chain, B!Riders, PB!Riders,
       B!HasLiveChain, PB!HasLiveChain, B!HasDeadChain, PB!HasDeadChain, B!AttachOp,
       PB!AttachOp, B!RemoveOp, PB!RemoveOp, B!UpdateOp, PB!UpdateOp, B!BuryOp,
       PB!BuryOp, B!TouchOp, PB!TouchOp, B!Op, PB!Op, B!Attach, PB!Attach,
       B!RemoveApplies, PB!RemoveApplies, B!Remove, PB!Remove, B!StillHolds,
       PB!StillHolds, B!Update, PB!Update, B!Bury, PB!Bury, B!Applies, PB!Applies,
       B!Change, PB!Change, B!DevicesHaveChains, PB!DevicesHaveChains,
       B!DropOrphans, PB!DropOrphans
<1> QED
  BY <1>1, <1>2

LEMMA SameFile ==
  /\ PA!Rows = Rows /\ PB!Rows = Rows
  /\ PA!FileInv' <=> PB!FileInv'
  /\ PA!FileMovesOn <=> PB!FileMovesOn
<1>1. PA!Rows = Rows /\ PB!Rows = Rows
  BY Zenon DEF PA!Rows, PB!Rows, Rows, PA!Chain, PB!Chain, Chain
<1>2. PA!FileInv' <=> PB!FileInv'
  BY Zenon
  DEF PA!FileInv, PB!FileInv, PA!Rows, PB!Rows, PA!Chain, PB!Chain, PA!ReferentialIntegrity,
      PB!ReferentialIntegrity, PA!DevicesHaveChains, PB!DevicesHaveChains, PA!ChainsHaveDevices,
      PB!ChainsHaveDevices, PA!Riders, PB!Riders
<1>3. PA!FileMovesOn <=> PB!FileMovesOn
  BY Zenon DEF PA!FileMovesOn, PB!FileMovesOn
<1> QED
  BY <1>1, <1>2, <1>3

(* What the lemmas about one process assume of the constants. *)
LEMMA Assumptions ==
  /\ NoFile \notin [revision : Nat, rows : PA!Rows]
  /\ NoFile \notin [revision : Nat, rows : PB!Rows]
BY SameFile, StoreAssumption

-----------------------------------------------------------------------------
(* The inductive invariant: each process sees to its own maps and queue,   *)
(* and, unless a rename has replaced a file its writer had not checked,    *)
(* knows what it last left in the file or is behind it.                    *)

SharedInv ==
  /\ PA!OwnInv
  /\ PB!OwnInv
  /\ ~raced => PA!KnowsFile(seenA) /\ PB!KnowsFile(seenB)

LEMMA InitShared == Init => SharedInv
<1> SUFFICES ASSUME Init PROVE SharedInv
  OBVIOUS
<1>1. PA!Init /\ PB!Init
  BY SameA, SameB DEF Init
<1>2. PA!IInv /\ PB!IInv
  BY <1>1, PA!InitInv, PB!InitInv, StoreAssumption, NoRowAssumption, Assumptions
<1>3. PA!KnowsFile(seenA) /\ PB!KnowsFile(seenB)
  BY <1>1 DEF PA!Init, PB!Init, PA!KnowsFile, PB!KnowsFile
<1> QED
  BY <1>2, <1>3 DEF SharedInv, PA!IInv, PB!IInv, PA!WholeInv, PB!WholeInv

(* A step of process A: without a race, it replaces only what it held. *)
MovesA ==
  /\ A!Next
  /\ Observe(stageA, stageA', seenA, seenA')
  /\ UNCHANGED <<processB, seenB>>

LEMMA StepA ==
  ASSUME SharedInv, MovesA
  PROVE  /\ SharedInv'
         /\ ~raced' /\ file' # file /\ file # NoFile =>
              stageA' = "landed" /\ stageA = "writing" /\ file.rows = liveA
<1> USE StoreAssumption, NoRowAssumption, Assumptions
<1>1. PA!Next
  BY SameA DEF MovesA
<1>2. PA!OwnInv'
  BY <1>1, PA!OwnStep DEF SharedInv
<1>3. issued \subseteq issued' /\ issued' \in SUBSET Token
  BY <1>1, <1>2, PA!IssuedGrows DEF PA!OwnInv, PA!TypeOK
<1>4. PA!FileInv'
  BY <1>2 DEF PA!OwnInv, PA!TypeOK, PA!FreshInv, PA!ChainsMatchDevices, PA!FileInv
<1>5. PB!FileInv'
  BY <1>4, SameFile
<1>6. UNCHANGED PB!OwnVars
  BY DEF MovesA, processB, PB!OwnVars
<1>7. PB!OwnInv'
  BY <1>3, <1>5, <1>6, PB!OthersStep DEF SharedInv
<1>8. ASSUME ~raced'
      PROVE  /\ PA!KnowsFile(seenA)'
             /\ PB!KnowsFile(seenB)'
             /\ file' # file /\ file # NoFile =>
                  stageA' = "landed" /\ stageA = "writing" /\ file.rows = liveA
  <2>1. ~raced /\ ~(stageA' = "landed" /\ stageA = "writing" /\ file # seenA)
    BY <1>8 DEF MovesA, Observe
  <2>2. PA!KnowsFile(seenA) /\ PB!KnowsFile(seenB)
    BY <2>1 DEF SharedInv
  <2>3. seenA' = IF stageA = "checking" /\ stageA' = "writing" THEN file ELSE seenA
    BY DEF MovesA, Observe
  <2>4. /\ PA!KnowsFile(seenA)'
        /\ PA!FileMovesOn
        /\ file' # file /\ file # NoFile =>
             stageA' = "landed" /\ stageA = "writing" /\ file.rows = liveA
    BY <1>1, <2>1, <2>2, <2>3, PA!OwnKnown DEF SharedInv
  <2>5. PB!FileMovesOn
    BY <2>4, SameFile
  <2>6. PB!KnowsFile(seenB)'
    <3>1. seenB' = seenB
      BY DEF MovesA
    <3> QED
      BY <1>5, <1>6, <2>2, <2>5, <3>1, PB!OthersKnown DEF SharedInv
  <2> QED
    BY <2>4, <2>6
<1> QED
  BY <1>2, <1>7, <1>8 DEF SharedInv

(* A step of process B: without a race, it replaces only what it held. *)
MovesB ==
  /\ B!Next
  /\ Observe(stageB, stageB', seenB, seenB')
  /\ UNCHANGED <<processA, seenA>>

LEMMA StepB ==
  ASSUME SharedInv, MovesB
  PROVE  /\ SharedInv'
         /\ ~raced' /\ file' # file /\ file # NoFile =>
              stageB' = "landed" /\ stageB = "writing" /\ file.rows = liveB
<1> USE StoreAssumption, NoRowAssumption, Assumptions
<1>1. PB!Next
  BY SameB DEF MovesB
<1>2. PB!OwnInv'
  BY <1>1, PB!OwnStep DEF SharedInv
<1>3. issued \subseteq issued' /\ issued' \in SUBSET Token
  BY <1>1, <1>2, PB!IssuedGrows DEF PB!OwnInv, PB!TypeOK
<1>4. PB!FileInv'
  BY <1>2 DEF PB!OwnInv, PB!TypeOK, PB!FreshInv, PB!ChainsMatchDevices, PB!FileInv
<1>5. PA!FileInv'
  BY <1>4, SameFile
<1>6. UNCHANGED PA!OwnVars
  BY DEF MovesB, processA, PA!OwnVars
<1>7. PA!OwnInv'
  BY <1>3, <1>5, <1>6, PA!OthersStep DEF SharedInv
<1>8. ASSUME ~raced'
      PROVE  /\ PB!KnowsFile(seenB)'
             /\ PA!KnowsFile(seenA)'
             /\ file' # file /\ file # NoFile =>
                  stageB' = "landed" /\ stageB = "writing" /\ file.rows = liveB
  <2>1. ~raced /\ ~(stageB' = "landed" /\ stageB = "writing" /\ file # seenB)
    BY <1>8 DEF MovesB, Observe
  <2>2. PB!KnowsFile(seenB) /\ PA!KnowsFile(seenA)
    BY <2>1 DEF SharedInv
  <2>3. seenB' = IF stageB = "checking" /\ stageB' = "writing" THEN file ELSE seenB
    BY DEF MovesB, Observe
  <2>4. /\ PB!KnowsFile(seenB)'
        /\ PB!FileMovesOn
        /\ file' # file /\ file # NoFile =>
             stageB' = "landed" /\ stageB = "writing" /\ file.rows = liveB
    BY <1>1, <2>1, <2>2, <2>3, PB!OwnKnown DEF SharedInv
  <2>5. PA!FileMovesOn
    BY <2>4, SameFile
  <2>6. PA!KnowsFile(seenA)'
    <3>1. seenA' = seenA
      BY DEF MovesB
    <3> QED
      BY <1>5, <1>6, <2>2, <2>5, <3>1, PA!OthersKnown DEF SharedInv
  <2> QED
    BY <2>4, <2>6
<1> QED
  BY <1>2, <1>7, <1>8 DEF SharedInv

-----------------------------------------------------------------------------
LEMMA StepShared == SharedInv /\ [Next]_vars => SharedInv'
<1> SUFFICES ASSUME SharedInv, [Next]_vars PROVE SharedInv'
  OBVIOUS
<1>1. CASE MovesA
  BY <1>1, StepA
<1>2. CASE MovesB
  BY <1>2, StepB
<1>3. CASE UNCHANGED vars
  <2>1. /\ UNCHANGED <<file, issued, seenA, seenB, raced>>
        /\ UNCHANGED PA!OwnVars /\ UNCHANGED PB!OwnVars
    BY <1>3 DEF vars, processA, processB, PA!OwnVars, PB!OwnVars
  <2>2. PA!vars' = PA!vars /\ PB!vars' = PB!vars
    BY <1>3 DEF vars, processA, processB, PA!vars, PB!vars
  <2>3. PA!OwnInv' /\ PB!OwnInv'
    BY <2>2, PA!OwnStep, PB!OwnStep, StoreAssumption, NoRowAssumption, Assumptions DEF SharedInv
  <2>4. ~raced' => PA!KnowsFile(seenA)' /\ PB!KnowsFile(seenB)'
    BY <2>1 DEF SharedInv, PA!KnowsFile, PB!KnowsFile, PA!OwnVars, PB!OwnVars
  <2> QED
    BY <2>3, <2>4 DEF SharedInv
<1> QED
  BY <1>1, <1>2, <1>3 DEF Next, MovesA, MovesB

(* The invariant the next two theorems follow from. *)
THEOREM SharedInvariant == Spec => []SharedInv
BY InitShared, StepShared, PTL DEF Spec

(* Unless a rename slipped into the window between the check and the       *)
(* rename of another process, a server whose sessions are no longer the    *)
(* file's is not at the file's revision, so its next write is refused.     *)
THEOREM StaleIsRefused == Spec => []StaleServerIsRefused
<1>1. SharedInv => StaleServerIsRefused
  <2> SUFFICES ASSUME SharedInv, ~raced
               PROVE  /\ Current(phaseA, stageA, liveA, revisionA)
                      /\ Current(phaseB, stageB, liveB, revisionB)
    BY DEF StaleServerIsRefused
  <2>1. PA!KnowsFile(seenA) /\ PB!KnowsFile(seenB)
    BY DEF SharedInv
  <2>2. /\ file \in [revision : Nat, rows : Rows] \cup {NoFile}
        /\ revisionA \in Nat /\ revisionB \in Nat
    BY SameFile DEF SharedInv, PA!OwnInv, PA!TypeOK, PB!OwnInv, PB!TypeOK
  <2>3. Current(phaseA, stageA, liveA, revisionA)
    BY <2>1, <2>2 DEF PA!KnowsFile, Current
  <2>4. Current(phaseB, stageB, liveB, revisionB)
    BY <2>1, <2>2 DEF PB!KnowsFile, Current
  <2> QED
    BY <2>3, <2>4
<1> QED
  BY <1>1, SharedInvariant, PTL

(* Without that race a rename replaces exactly the rows its writer held:   *)
(* no row another server has published is lost unnoticed.                  *)
THEOREM NothingLostUnnoticed == Spec => NoSilentOverwrite
<1>1. ASSUME SharedInv, [Next]_vars, ~raced', file' # file, file # NoFile
      PROVE  \/ stageA' = "landed" /\ stageA = "writing" /\ file.rows = liveA
             \/ stageB' = "landed" /\ stageB = "writing" /\ file.rows = liveB
  <2>1. CASE MovesA
    BY <1>1, <2>1, StepA
  <2>2. CASE MovesB
    BY <1>1, <2>2, StepB
  <2>3. CASE UNCHANGED vars
    BY <1>1, <2>3 DEF vars
  <2> QED
    BY <1>1, <2>1, <2>2, <2>3 DEF Next, MovesA, MovesB
<1>2. SharedInv /\ [Next]_vars =>
        [/\ ~raced'
         /\ file' # file
         /\ file # NoFile
         => \/ stageA' = "landed" /\ stageA = "writing" /\ file.rows = liveA
            \/ stageB' = "landed" /\ stageB = "writing" /\ file.rows = liveB]_vars
  BY <1>1
<1> QED
  BY <1>2, SharedInvariant, PTL DEF Spec, NoSilentOverwrite

(* However two servers interleave, and whatever they lose of each other's: *)
(* the file they leave is one the next boot loads, and loses no chain of.  *)
THEOREM SharedFileLoads == Spec => [](file # NoFile => ReferentialIntegrity(file.rows))
<1>1. SharedInv => (file # NoFile => ReferentialIntegrity(file.rows))
  <2>1. file # NoFile /\ SharedInv => PA!ReferentialIntegrity(file.rows)
    BY DEF SharedInv, PA!OwnInv, PA!ChainsMatchDevices
  <2>2. PA!ReferentialIntegrity(file.rows) <=> ReferentialIntegrity(file.rows)
    BY Zenon DEF PA!ReferentialIntegrity, ReferentialIntegrity, PA!DevicesHaveChains, DevicesHaveChains,
                 PA!ChainsHaveDevices, ChainsHaveDevices, PA!Riders, Riders
  <2> QED
    BY <2>1, <2>2
<1> QED
  BY <1>1, SharedInvariant, PTL
=============================================================================
