------------------------- MODULE SessionStoreProofs -------------------------
(***************************************************************************)
(* Theorems about SessionStore, for any number of bearers, users, pairs,   *)
(* attempts and queued writes.                                             *)
(***************************************************************************)
EXTENDS SessionStore, StoreRowsProofs

-----------------------------------------------------------------------------
(* The inductive invariant, in named parts.                                *)

(* A process that is down holds nothing; one creating its file, or writing *)
(* one back before it serves (DeviceRecords), has a flush of its live maps *)
(* under way and no caller yet.                                            *)
PhaseInv ==
  /\ phase = "down" => stage = "idle"
  /\ phase # "up" => writes = <<>>
  /\ phase = "creating" => stage # "idle" /\ next = live

(* The write under way is the head of the queue applied to the live maps.  *)
PendingInv ==
  phase = "up" /\ stage # "idle" =>
    /\ writes # <<>>
    /\ Applies(live, Head(writes))
    /\ next = Change(live, Head(writes))

(* A bearer waiting to be attached names no device yet, and waits once.    *)
Waiting(t) == \E i \in 1..Len(writes) : writes[i].kind = "attach" /\ writes[i].token = t

FreshInv ==
  /\ \A t \in Token : live.devices[t] # NoUser => t \in issued
  /\ \A t \in Token : Waiting(t) => t \in issued
  /\ file # NoFile => \A t \in Token : file.rows.devices[t] # NoUser => t \in issued
  /\ \A i \in 1..Len(writes) : \A j \in 1..Len(writes) :
       writes[i].kind = "attach" /\ writes[j].kind = "attach" /\ i # j
         => writes[i].token # writes[j].token
  /\ \A i \in 1..Len(writes) :
       writes[i].kind = "attach" => live.devices[writes[i].token] = NoUser

(* What a process sees to by itself, whoever else writes whole files: the  *)
(* part that holds of each of two servers on one file (TwoServers).        *)
OwnInv ==
  /\ TypeOK
  /\ PhaseInv
  /\ PendingInv
  /\ FreshInv
  /\ ChainsMatchDevices

(* The flush of a process that is not up yet leaves its copy in the file.  *)
LandedInv ==
  phase = "creating" /\ stage = "landed" => file = [revision |-> revision + 1, rows |-> next]

(* What holds whatever shape the file had (DeviceRecords).                 *)
WholeInv == OwnInv /\ LandedInv /\ MemoryNeverAheadOfFile

(* Until then the file holds what that process has read.                   *)
ReadInv ==
  phase = "creating" /\ stage # "landed" =>
    IF file = NoFile THEN live = NoRows ELSE file.rows = live

IInv == WholeInv /\ ReadInv

-----------------------------------------------------------------------------
(* Type correctness.                                                       *)

LEMMA InitType == Init => TypeOK
BY NoRowsType, StoreAssumption DEF Init, TypeOK

LEMMA RequestType == TypeOK /\ Request => TypeOK'
<1> SUFFICES ASSUME TypeOK, Request PROVE TypeOK'
  OBVIOUS
<1>1. ASSUME NEW op \in Op, Enqueue(op), issued' \in SUBSET Token PROVE TypeOK'
  BY <1>1 DEF TypeOK, Enqueue
<1>2. ASSUME NEW t \in Token, NEW u \in User, NEW p \in Pair, RequestAttach(t, u, p)
      PROVE  TypeOK'
  BY <1>1, <1>2 DEF RequestAttach, TypeOK, Op, AttachOp
<1>3. ASSUME NEW t \in Token, NEW u \in User \cup {NoUser}, RequestRemove(t, u)
      PROVE  TypeOK'
  BY <1>1, <1>3 DEF RequestRemove, TypeOK, Op, RemoveOp
<1>4. ASSUME NEW u \in User, NEW p \in Pair, NEW s \in Pair \cup {NoPair}, RequestUpdate(u, p, s)
      PROVE  TypeOK'
  BY <1>1, <1>4 DEF RequestUpdate, TypeOK, Op, UpdateOp
<1>5. ASSUME NEW u \in User, NEW s \in Pair \cup {NoPair}, RequestBury(u, s)
      PROVE  TypeOK'
  BY <1>1, <1>5 DEF RequestBury, TypeOK, Op, BuryOp
<1>6. CASE RequestTouch
  BY <1>1, <1>6 DEF RequestTouch, TypeOK, Op, TouchOp
<1> QED
  BY <1>2, <1>3, <1>4, <1>5, <1>6 DEF Request

LEMMA WriteType == TypeOK /\ PendingInv /\ WriteStep => TypeOK'
<1> SUFFICES ASSUME TypeOK, PendingInv, WriteStep PROVE TypeOK'
  OBVIOUS
<1> USE StoreAssumption
<1>1. CASE MutateNothing
  BY <1>1, QueueHead DEF MutateNothing, TypeOK
<1>2. CASE Mutate
  <2>1. Head(writes) \in Op /\ Applies(live, Head(writes))
    BY <1>2, QueueHead DEF Mutate, TypeOK
  <2>2. next' \in Rows
    BY <1>2, <2>1, ChangeType DEF Mutate, TypeOK
  <2> QED
    BY <1>2, <2>2 DEF Mutate, TypeOK
<1>3. CASE CheckFile
  BY <1>3 DEF CheckFile, TypeOK
<1>4. ASSUME Fail, stage # "idle" PROVE TypeOK'
  <2>1. phase = "up" => Tail(writes) \in Seq(Op)
    BY <1>4, QueueHead DEF TypeOK, PendingInv
  <2> QED
    BY <1>4, <2>1 DEF Fail, Settle, TypeOK
<1>5. CASE CheckThrows
  BY <1>4, <1>5 DEF CheckThrows
<1>6. CASE Publish
  BY <1>6 DEF Publish, TypeOK
<1>7. CASE Retry
  BY <1>7 DEF Retry, TypeOK
<1>8. CASE GiveUp
  BY <1>4, <1>8 DEF GiveUp
<1>9. CASE Swap
  <2>1. phase = "up" => Tail(writes) \in Seq(Op)
    BY <1>9, QueueHead DEF Swap, TypeOK, PendingInv
  <2> QED
    BY <1>9, <2>1 DEF Swap, Settle, TypeOK
<1> QED
  BY <1>1, <1>2, <1>3, <1>5, <1>6, <1>7, <1>8, <1>9 DEF WriteStep
LEMMA BootType == TypeOK /\ Boot => TypeOK'
<1> SUFFICES ASSUME TypeOK, Boot PROVE TypeOK'
  OBVIOUS
<1>1. CASE OpenExisting
  <2>1. file \in [revision : Nat, rows : Rows]
    BY <1>1 DEF OpenExisting, TypeOK
  <2>2. DropOrphans(file.rows) \in Rows
    BY <2>1 DEF DropOrphans, Rows
  <2> QED
    BY <1>1, <2>1, <2>2 DEF OpenExisting, TypeOK
<1>2. CASE OpenEmpty
  BY <1>2, NoRowsType DEF OpenEmpty, TypeOK
<1> QED
  BY <1>1, <1>2 DEF Boot

LEMMA CrashType == TypeOK /\ Crash => TypeOK'
BY NoRowsType, StoreAssumption DEF Crash, Settle, TypeOK

LEMMA StepType == TypeOK /\ PendingInv /\ [Next]_vars => TypeOK'
<1>1. TypeOK /\ UNCHANGED vars => TypeOK'
  BY DEF TypeOK, vars
<1> QED
  BY <1>1, BootType, RequestType, WriteType, CrashType DEF Next

-----------------------------------------------------------------------------
(* The inductive invariant.                                                *)

LEMMA InitInv == Init => IInv
BY InitType, NoRowsType
DEF Init, IInv, WholeInv, OwnInv, PhaseInv, PendingInv, FreshInv, Waiting, ChainsMatchDevices, LandedInv,
    ReadInv, MemoryNeverAheadOfFile

LEMMA BootInv == OwnInv /\ Boot => OwnInv'
<1> SUFFICES ASSUME OwnInv, Boot PROVE OwnInv'
  OBVIOUS
<1>1. CASE OpenExisting
  <2>1. file \in [revision : Nat, rows : Rows] /\ ReferentialIntegrity(file.rows)
    BY <1>1 DEF OpenExisting, OwnInv, TypeOK, ChainsMatchDevices
  <2>2. live' = file.rows
    BY <1>1, <2>1, LoadWholeRows DEF OpenExisting
  <2>3. TypeOK'
    BY BootType DEF OwnInv
  <2> QED
    BY <1>1, <2>1, <2>2, <2>3
    DEF OpenExisting, OwnInv, PhaseInv, PendingInv, FreshInv, Waiting, ChainsMatchDevices
<1>2. CASE OpenEmpty
  <2>1. TypeOK'
    BY BootType DEF OwnInv
  <2> QED
    BY <1>2, <2>1, NoRowsType
    DEF OpenEmpty, OwnInv, PhaseInv, PendingInv, FreshInv, Waiting, ChainsMatchDevices
<1> QED
  BY <1>1, <1>2 DEF Boot

LEMMA CrashInv == OwnInv /\ Crash => OwnInv'
<1> SUFFICES ASSUME OwnInv, Crash PROVE OwnInv'
  OBVIOUS
<1>1. TypeOK'
  BY CrashType DEF OwnInv
<1> QED
  BY <1>1, NoRowsType
  DEF Crash, Settle, OwnInv, PhaseInv, PendingInv, FreshInv, Waiting, ChainsMatchDevices

(* Queueing a mutation: only a bearer just drawn is ever attached.         *)
LEMMA EnqueueInv ==
  ASSUME OwnInv, TypeOK', NEW op \in Op, Enqueue(op), issued \subseteq issued',
         op.kind = "attach" => op.token \notin issued /\ op.token \in issued'
  PROVE  OwnInv'
<1>1. /\ Len(writes') = Len(writes) + 1
      /\ writes' # <<>>
      /\ \A i \in 1..Len(writes) : writes'[i] = writes[i]
      /\ writes'[Len(writes) + 1] = op
      /\ writes # <<>> => Head(writes') = Head(writes)
      /\ Len(writes) \in Nat
  BY DEF Enqueue, OwnInv, TypeOK
<1>2. PhaseInv'
  BY DEF Enqueue, OwnInv, PhaseInv
<1>3. PendingInv'
  BY <1>1 DEF Enqueue, OwnInv, PendingInv
<1>4. FreshInv'
  <2>1. \A i \in 1..Len(writes') : i \in 1..Len(writes) \/ i = Len(writes) + 1
    BY <1>1
  <2>2. \A t \in Token : Waiting(t)' => t \in issued'
    BY <1>1, <2>1 DEF OwnInv, FreshInv, Waiting
  <2>3. \A i \in 1..Len(writes) : writes[i].kind = "attach" =>
           writes[i].token \in issued
    <3> SUFFICES ASSUME NEW i \in 1..Len(writes), writes[i].kind = "attach"
                 PROVE  writes[i].token \in issued
      OBVIOUS
    <3>1. writes[i].token \in Token
      BY OpFields DEF OwnInv, TypeOK
    <3> QED
      BY <3>1 DEF OwnInv, FreshInv, Waiting
  <2>4. op.kind = "attach" => live.devices[op.token] = NoUser
    BY OpFields DEF OwnInv, FreshInv
  <2>5. \A i \in 1..Len(writes') : writes'[i].kind = "attach" =>
           live'.devices[writes'[i].token] = NoUser
    BY <1>1, <2>1, <2>4 DEF Enqueue, OwnInv, FreshInv
  <2>6. \A i \in 1..Len(writes') : \A j \in 1..Len(writes') :
           writes'[i].kind = "attach" /\ writes'[j].kind = "attach" /\ i # j
             => writes'[i].token # writes'[j].token
    BY <1>1, <2>1, <2>3 DEF OwnInv, FreshInv
  <2> QED
    BY <2>2, <2>5, <2>6 DEF Enqueue, OwnInv, FreshInv
<1> QED
  BY <1>2, <1>3, <1>4 DEF Enqueue, OwnInv, ChainsMatchDevices

LEMMA RequestInv == OwnInv /\ Request => OwnInv'
<1> SUFFICES ASSUME OwnInv, Request PROVE OwnInv'
  OBVIOUS
<1>0. TypeOK'
  BY RequestType DEF OwnInv
<1>1. ASSUME NEW t \in Token, NEW u \in User, NEW p \in Pair, RequestAttach(t, u, p)
      PROVE  OwnInv'
  BY <1>0, <1>1, EnqueueInv DEF RequestAttach, Op, AttachOp
<1>2. ASSUME NEW t \in Token, NEW u \in User \cup {NoUser}, RequestRemove(t, u)
      PROVE  OwnInv'
  BY <1>0, <1>2, EnqueueInv DEF RequestRemove, Op, RemoveOp
<1>3. ASSUME NEW u \in User, NEW p \in Pair, NEW s \in Pair \cup {NoPair}, RequestUpdate(u, p, s)
      PROVE  OwnInv'
  BY <1>0, <1>3, EnqueueInv DEF RequestUpdate, Op, UpdateOp
<1>4. ASSUME NEW u \in User, NEW s \in Pair \cup {NoPair}, RequestBury(u, s)
      PROVE  OwnInv'
  BY <1>0, <1>4, EnqueueInv DEF RequestBury, Op, BuryOp
<1>5. CASE RequestTouch
  BY <1>0, <1>5, EnqueueInv DEF RequestTouch, Op, TouchOp
<1> QED
  BY <1>1, <1>2, <1>3, <1>4, <1>5 DEF Request

(* Taking the head off the queue, with the live maps as they were or with  *)
(* the head applied to them.                                               *)
LEMMA DequeueFresh ==
  ASSUME OwnInv, writes # <<>>, writes' = Tail(writes), UNCHANGED <<file, issued>>,
         \/ UNCHANGED live
         \/ Applies(live, Head(writes)) /\ live' = Change(live, Head(writes))
  PROVE  FreshInv'
<1>1. /\ Head(writes) \in Op /\ Head(writes) = writes[1] /\ 1 \in 1..Len(writes)
      /\ Len(writes') = Len(writes) - 1
      /\ \A i \in 1..Len(writes') : i + 1 \in 1..Len(writes) /\ writes'[i] = writes[i + 1]
      /\ Len(writes) \in Nat
  BY QueueHead DEF OwnInv, TypeOK
<1>2. \A t \in Token : Waiting(t)' => Waiting(t)
  BY <1>1 DEF Waiting
<1>3. \A t \in Token : live'.devices[t] # NoUser =>
         \/ live.devices[t] # NoUser
         \/ Head(writes).kind = "attach" /\ Head(writes).token = t
  BY <1>1, ChangeDevices DEF OwnInv, TypeOK
<1>4. \A i \in 1..Len(writes) : writes[i].kind = "attach" => writes[i].token \in Token
  BY OpFields DEF OwnInv, TypeOK
<1>5. Head(writes).kind = "attach" => Waiting(Head(writes).token) /\ Head(writes).token \in Token
  BY <1>1, <1>4 DEF Waiting
<1>6. \A t \in Token : live'.devices[t] # NoUser => t \in issued'
  BY <1>3, <1>5 DEF OwnInv, FreshInv
<1>7. \A i \in 1..Len(writes') : writes'[i].kind = "attach" =>
         live'.devices[writes'[i].token] = NoUser
  <2> SUFFICES ASSUME NEW i \in 1..Len(writes'), writes'[i].kind = "attach",
                      live'.devices[writes'[i].token] # NoUser
               PROVE  FALSE
    OBVIOUS
  <2>1. i + 1 \in 1..Len(writes) /\ writes'[i] = writes[i + 1] /\ i + 1 # 1
    BY <1>1
  <2>2. live.devices[writes[i + 1].token] = NoUser /\ writes[i + 1].token \in Token
    BY <1>4, <2>1 DEF OwnInv, FreshInv
  <2>3. Head(writes).kind = "attach" /\ Head(writes).token = writes[i + 1].token
    BY <1>3, <2>1, <2>2
  <2> QED
    BY <1>1, <2>1, <2>3 DEF OwnInv, FreshInv
<1>8. \A i \in 1..Len(writes') : \A j \in 1..Len(writes') :
         writes'[i].kind = "attach" /\ writes'[j].kind = "attach" /\ i # j
           => writes'[i].token # writes'[j].token
  BY <1>1 DEF OwnInv, FreshInv
<1> QED
  BY <1>2, <1>6, <1>7, <1>8 DEF OwnInv, FreshInv
(* The copy a write is about to publish, or has published, is whole and    *)
(* names no bearer that has not been drawn.                                *)
LEMMA CopyIsWhole ==
  ASSUME OwnInv, stage # "idle"
  PROVE  /\ ReferentialIntegrity(next)
         /\ \A t \in Token : next.devices[t] # NoUser => t \in issued
<1>1. CASE phase = "up"
  <2> DEFINE op == Head(writes)
  <2>1. op \in Op /\ Applies(live, op) /\ next = Change(live, op) /\ writes # <<>>
    BY <1>1, QueueHead DEF OwnInv, TypeOK, PendingInv
  <2>2. op.kind = "attach" => live.devices[op.token] = NoUser /\ op.token \in issued
    <3>1. op = writes[1] /\ 1 \in 1..Len(writes)
      BY <2>1, QueueHead DEF OwnInv, TypeOK
    <3>2. op.kind = "attach" => Waiting(op.token) /\ op.token \in Token
      BY <2>1, <3>1, OpFields DEF Waiting
    <3> QED
      BY <3>1, <3>2 DEF OwnInv, FreshInv
  <2>3. ReferentialIntegrity(next)
    BY <2>1, <2>2, ChangeIntegrity DEF OwnInv, TypeOK, ChainsMatchDevices
  <2>4. \A t \in Token : next.devices[t] # NoUser => t \in issued
    BY <2>1, <2>2, ChangeDevices DEF OwnInv, TypeOK, FreshInv
  <2> QED
    BY <2>3, <2>4
<1>2. CASE phase # "up"
  <2>1. next = live
    BY <1>2 DEF OwnInv, TypeOK, PhaseInv
  <2> QED
    BY <2>1 DEF OwnInv, FreshInv, ChainsMatchDevices
<1> QED
  BY <1>1, <1>2

LEMMA WriteInv == OwnInv /\ WriteStep => OwnInv'
<1> SUFFICES ASSUME OwnInv, WriteStep PROVE OwnInv'
  OBVIOUS
<1>0. TypeOK'
  BY WriteType DEF OwnInv
<1>1. CASE MutateNothing
  <2>1. FreshInv'
    BY <1>1, DequeueFresh DEF MutateNothing
  <2> QED
    BY <1>0, <1>1, <2>1
    DEF MutateNothing, OwnInv, PhaseInv, PendingInv, ChainsMatchDevices
<1>2. CASE Mutate
  BY <1>0, <1>2
  DEF Mutate, OwnInv, PhaseInv, PendingInv, FreshInv, Waiting, ChainsMatchDevices
<1>3. CASE CheckFile
  <2> QED
    BY <1>0, <1>3
    DEF CheckFile, OwnInv, PhaseInv, PendingInv, FreshInv, Waiting, ChainsMatchDevices
<1>4. ASSUME Fail, stage \in {"checking", "writing"} PROVE OwnInv'
  <2>1. CASE phase = "up"
    <3>1. writes # <<>> /\ writes' = Tail(writes) /\ phase' = "up"
      BY <1>4, <2>1 DEF Fail, OwnInv, PendingInv
    <3>2. FreshInv'
      BY <1>4, <3>1, DequeueFresh DEF Fail
    <3> QED
      BY <1>0, <1>4, <2>1, <3>1, <3>2
      DEF Fail, Settle, OwnInv, PhaseInv, PendingInv, ChainsMatchDevices
  <2>2. CASE phase # "up"
    BY <1>0, <1>4, <2>2
    DEF Fail, Settle, OwnInv, PhaseInv, PendingInv, FreshInv, Waiting, ChainsMatchDevices
  <2> QED
    BY <2>1, <2>2
<1>5. CASE CheckThrows
  BY <1>4, <1>5 DEF CheckThrows
<1>6. CASE Publish
  <2>1. file' = [revision |-> revision + 1, rows |-> next] /\ file' # NoFile /\ stage # "idle"
    BY <1>0, <1>6, StoreAssumption DEF Publish, OwnInv, TypeOK
  <2>2. /\ ReferentialIntegrity(file'.rows)
        /\ \A t \in Token : file'.rows.devices[t] # NoUser => t \in issued
    BY <2>1, CopyIsWhole
  <2> QED
    BY <1>0, <1>6, <2>1, <2>2
    DEF Publish, OwnInv, PhaseInv, PendingInv, FreshInv, Waiting, ChainsMatchDevices
<1>7. CASE Retry
  BY <1>0, <1>7
  DEF Retry, OwnInv, PhaseInv, PendingInv, FreshInv, Waiting, ChainsMatchDevices
<1>8. CASE GiveUp
  BY <1>4, <1>8 DEF GiveUp
<1>9. CASE Swap
  <2>1. live' = next /\ stage # "idle"
    BY <1>9 DEF Swap
  <2>2. ReferentialIntegrity(live')
    BY <2>1, CopyIsWhole
  <2>3. CASE phase = "up"
    <3>1. writes # <<>> /\ writes' = Tail(writes) /\ live' = Change(live, Head(writes))
          /\ Applies(live, Head(writes))
      BY <1>9, <2>3 DEF Swap, OwnInv, PendingInv
    <3>2. FreshInv'
      BY <1>9, <3>1, DequeueFresh DEF Swap
    <3> QED
      BY <1>0, <1>9, <2>2, <3>2
      DEF Swap, Settle, OwnInv, PhaseInv, PendingInv, ChainsMatchDevices
  <2>4. CASE phase # "up"
    <3>1. next = live /\ writes = <<>>
      BY <1>9, <2>4 DEF Swap, OwnInv, TypeOK, PhaseInv
    <3> QED
      BY <1>0, <1>9, <2>2, <2>4, <3>1
      DEF Swap, Settle, OwnInv, PhaseInv, PendingInv, FreshInv, Waiting, ChainsMatchDevices
  <2> QED
    BY <2>3, <2>4
<1> QED
  BY <1>1, <1>2, <1>3, <1>5, <1>6, <1>7, <1>8, <1>9 DEF WriteStep

LEMMA OwnStep == OwnInv /\ [Next]_vars => OwnInv'
<1>1. OwnInv /\ UNCHANGED vars => OwnInv'
  BY DEF vars, OwnInv, TypeOK, PhaseInv, PendingInv, FreshInv, Waiting, ChainsMatchDevices
<1> QED
  BY <1>1, BootInv, RequestInv, WriteInv, CrashInv DEF Next

(* A process alone on its file knows what the file holds. *)
LEMMA FileStep == WholeInv /\ [Next]_vars => LandedInv' /\ MemoryNeverAheadOfFile'
<1> SUFFICES ASSUME WholeInv, [Next]_vars PROVE LandedInv' /\ MemoryNeverAheadOfFile'
  OBVIOUS
<1> USE DEF LandedInv, MemoryNeverAheadOfFile
<1>0. TypeOK /\ PhaseInv /\ LandedInv /\ MemoryNeverAheadOfFile
  BY DEF WholeInv, OwnInv
<1>1. CASE OpenExisting
  <2>1. file \in [revision : Nat, rows : Rows] /\ ReferentialIntegrity(file.rows)
    BY <1>1 DEF OpenExisting, WholeInv, OwnInv, TypeOK, ChainsMatchDevices
  <2>2. live' = file.rows
    BY <1>1, <2>1, LoadWholeRows DEF OpenExisting
  <2> QED
    BY <1>0, <1>1, <2>2 DEF OpenExisting, PhaseInv
<1>2. CASE OpenEmpty
  BY <1>2 DEF OpenEmpty
<1>3. CASE Request
  BY <1>0, <1>3 DEF Request, RequestAttach, RequestRemove, RequestUpdate, RequestBury, RequestTouch,
                    Enqueue
<1>4. CASE MutateNothing \/ Mutate \/ CheckFile \/ Retry
  BY <1>0, <1>4 DEF MutateNothing, Mutate, CheckFile, Retry, PhaseInv
<1>5. CASE CheckThrows \/ GiveUp
  BY <1>0, <1>5 DEF CheckThrows, GiveUp, Fail, Settle
<1>6. CASE Publish
  <2>1. file' = [revision |-> revision + 1, rows |-> next] /\ file' # NoFile
    BY <1>0, <1>6, StoreAssumption DEF Publish, TypeOK
  <2> QED
    BY <1>0, <1>6, <2>1 DEF Publish
<1>7. CASE Swap
  <2>1. file = [revision |-> revision + 1, rows |-> next] \/
        (file # NoFile /\ file.revision = revision + 1 /\ file.rows = next)
    BY <1>0, <1>7 DEF Swap, TypeOK, PhaseInv
  <2>2. file # NoFile /\ file.revision = revision + 1 /\ file.rows = next
    BY <1>0, <2>1, StoreAssumption DEF TypeOK
  <2> QED
    BY <1>7, <2>2 DEF Swap, Settle
<1>8. CASE Crash
  BY <1>8 DEF Crash
<1>9. CASE UNCHANGED vars
  BY <1>0, <1>9 DEF vars
<1> QED
  BY <1>1, <1>2, <1>3, <1>4, <1>5, <1>6, <1>7, <1>8, <1>9 DEF Next, Boot, WriteStep

LEMMA WholeStep == WholeInv /\ [Next]_vars => WholeInv'
BY OwnStep, FileStep DEF WholeInv

LEMMA ReadStep == IInv /\ [Next]_vars => ReadInv'
<1> SUFFICES ASSUME IInv, [Next]_vars PROVE ReadInv'
  OBVIOUS
<1> USE DEF ReadInv
<1>0. PhaseInv /\ ReadInv
  BY DEF IInv, WholeInv, OwnInv
<1>1. CASE Boot \/ Crash
  BY <1>1 DEF Boot, OpenExisting, OpenEmpty, Crash
<1>2. CASE Request
  BY <1>0, <1>2 DEF Request, RequestAttach, RequestRemove, RequestUpdate, RequestBury, RequestTouch,
                    Enqueue
<1>3. CASE MutateNothing \/ Mutate \/ CheckFile \/ Retry \/ Publish
  BY <1>0, <1>3 DEF MutateNothing, Mutate, CheckFile, Retry, Publish
<1>4. CASE CheckThrows \/ GiveUp \/ Swap
  BY <1>4 DEF CheckThrows, GiveUp, Fail, Swap
<1>5. CASE UNCHANGED vars
  BY <1>0, <1>5 DEF vars
<1> QED
  BY <1>1, <1>2, <1>3, <1>4, <1>5 DEF Next, WriteStep

LEMMA StepInv == IInv /\ [Next]_vars => IInv'
BY WholeStep, ReadStep DEF IInv

(* The inductive invariant holds in every state of the store. *)
THEOREM InductiveInvariant == Spec => []IInv
BY InitInv, StepInv, PTL DEF Spec

(* Type correctness of the store. *)
THEOREM TypeCorrect == Spec => []TypeOK
BY InductiveInvariant, PTL DEF IInv, WholeInv, OwnInv

(* Memory never holds a session the file does not: sessionStore.ts, mutate *)
(* and flush, through every failed write, retry and crash.                 *)
THEOREM MemoryFollowsFile == Spec => []MemoryNeverAheadOfFile
BY InductiveInvariant, PTL DEF IInv, WholeInv, OwnInv

(* One chain per user, created and removed with its first and last device, *)
(* in memory and on disk: the invariant ADR-0004 rests on.                 *)
THEOREM OneChainPerUser == Spec => []ChainsMatchDevices
BY InductiveInvariant, PTL DEF IInv, WholeInv, OwnInv

-----------------------------------------------------------------------------
(* The store keeps the promise made to the devices.                        *)

(* One mutation is one step of the promise, or none. *)
LEMMA ChangeIsPromised ==
  ASSUME NEW rows \in Rows, NEW op \in Op, Applies(rows, op), ReferentialIntegrity(rows),
         op.kind = "attach" => rows.devices[op.token] = NoUser,
         Durable = rows, Durable' = Change(rows, op)
  PROVE  [Sessions!Next]_(Sessions!vars)
<1> USE DEF LostUsers
<1>0. Change(rows, op) \in Rows
  BY ChangeType
<1>1. CASE op.kind = "attach"
  <2>1. op \in AttachOp /\ op.user \in User /\ op.token \in Token
        /\ Change(rows, op) = Attach(rows, op)
    BY <1>1, OpFields DEF Change
  <2>2. Durable'.devices = [x \in Token |->
           IF x = op.token THEN op.user
           ELSE IF op.user \in LostUsers(rows) /\ rows.devices[x] = op.user THEN NoUser
           ELSE rows.devices[x]]
    <3> DEFINE after == Attach(rows, op)
    <3>1. after.devices \in [Token -> User \cup {NoUser}]
      BY <1>0, <2>1 DEF Rows
    <3>2. /\ after.devices[op.token] = op.user
          /\ \A x \in Token : x # op.token /\ HasDeadChain(rows, op.user) /\ rows.devices[x] = op.user
               => after.devices[x] = NoUser
          /\ \A x \in Token : x # op.token /\ ~(HasDeadChain(rows, op.user) /\ rows.devices[x] = op.user)
               => after.devices[x] = rows.devices[x]
      BY <2>1, AttachRows
    <3>3. Durable'.devices = after.devices /\ (op.user \in LostUsers(rows) <=> HasDeadChain(rows, op.user))
      BY <2>1
    <3> HIDE DEF after
    <3> QED
      BY <2>1, <3>1, <3>2, <3>3
  <2>3. LostUsers(Durable') = LostUsers(rows) \ {op.user}
    BY <1>1, ChangeLost
  <2>4. Sessions!SignIn(op.token, op.user)
    BY <1>1, <2>2, <2>3 DEF Sessions!SignIn
  <2> QED
    BY <2>1, <2>4 DEF Sessions!Next
<1>2. CASE op.kind = "remove"
  <2>1. op \in RemoveOp /\ op.token \in Token /\ RemoveApplies(rows, op)
        /\ Change(rows, op) = Remove(rows, op)
    BY <1>2, OpFields DEF Change, Applies
  <2>2. Durable'.devices = [rows.devices EXCEPT ![op.token] = NoUser]
    BY <2>1 DEF Remove
  <2>3. LostUsers(Durable') = IF Riders(rows, rows.devices[op.token]) = {op.token}
                              THEN LostUsers(rows) \ {rows.devices[op.token]} ELSE LostUsers(rows)
    BY <1>2, ChangeLost
  <2>4. Sessions!SignOut(op.token)
    BY <2>1, <2>2, <2>3 DEF Sessions!SignOut, Sessions!Devices, Riders, RemoveApplies
  <2> QED
    BY <2>1, <2>4 DEF Sessions!Next
<1>3. CASE op.kind = "bury"
  <2>1. op \in BuryOp /\ op.user \in User /\ StillHolds(rows, op)
    BY <1>3, OpFields DEF Applies
  <2>2. Durable'.devices = rows.devices
    BY <1>3, <2>1, UpdateBuryRows
  <2>3. LostUsers(Durable') = LostUsers(rows) \cup {op.user}
    BY <1>3, ChangeLost
  <2>4. Riders(rows, op.user) # {}
    BY <2>1 DEF StillHolds, ReferentialIntegrity, ChainsHaveDevices
  <2>5. Sessions!Lose(op.user)
    BY <2>2, <2>3, <2>4 DEF Sessions!Lose, Sessions!Devices, Riders
  <2> QED
    BY <2>1, <2>5 DEF Sessions!Next
<1>4. CASE op.kind \in {"update", "touch"}
  <2>1. Durable'.devices = rows.devices
    <3>1. CASE op.kind = "update"
      BY <3>1, OpFields, UpdateBuryRows DEF Applies
    <3>2. CASE op.kind = "touch"
      BY <3>2 DEF Change
    <3> QED
      BY <1>4, <3>1, <3>2
  <2>2. LostUsers(Durable') = LostUsers(rows)
    BY <1>4, ChangeLost
  <2> QED
    BY <2>1, <2>2 DEF Sessions!vars
<1> QED
  BY <1>1, <1>2, <1>3, <1>4, OpFields

(* What the server answers from changes only by the mutation at the head   *)
(* of the queue: at its swap, or at a crash that finds its bytes landed.   *)
LEMMA DurableStep ==
  ASSUME IInv, [Next]_vars, Durable' # Durable
  PROVE  /\ writes # <<>>
         /\ Head(writes) \in Op
         /\ Durable \in Rows
         /\ ReferentialIntegrity(Durable)
         /\ Applies(Durable, Head(writes))
         /\ Durable' = Change(Durable, Head(writes))
         /\ Head(writes).kind = "attach" => Durable.devices[Head(writes).token] = NoUser
<1> SUFFICES ASSUME phase = "up", stage = "landed", Durable' = next PROVE
         /\ writes # <<>>
         /\ Head(writes) \in Op
         /\ Durable \in Rows
         /\ ReferentialIntegrity(Durable)
         /\ Applies(Durable, Head(writes))
         /\ Durable' = Change(Durable, Head(writes))
         /\ Head(writes).kind = "attach" => Durable.devices[Head(writes).token] = NoUser
  <2>1. CASE UNCHANGED vars
    BY <2>1 DEF vars, Durable
  <2>2. CASE OpenExisting
    <3>1. file \in [revision : Nat, rows : Rows] /\ ReferentialIntegrity(file.rows)
      BY <2>2 DEF OpenExisting, IInv, WholeInv, OwnInv, TypeOK, ChainsMatchDevices
    <3>2. live' = file.rows
      BY <2>2, <3>1, LoadWholeRows DEF OpenExisting
    <3> QED
      BY <2>2, <3>2 DEF OpenExisting, Durable
  <2>3. CASE OpenEmpty
    BY <2>3 DEF OpenEmpty, Durable
  <2>4. CASE Request
    BY <2>4 DEF Request, RequestAttach, RequestRemove, RequestUpdate, RequestBury, RequestTouch,
                Enqueue, Durable
  <2>5. CASE MutateNothing \/ Mutate \/ CheckFile \/ Retry
    BY <2>5 DEF MutateNothing, Mutate, CheckFile, Retry, Durable
  <2>6. CASE CheckThrows \/ GiveUp
    BY <2>6 DEF CheckThrows, GiveUp, Fail, Durable, IInv, WholeInv, OwnInv, PhaseInv, LandedInv, ReadInv
  <2>7. CASE Publish
    <3>1. CASE phase = "up"
      BY <2>7, <3>1 DEF Publish, Durable
    <3>2. CASE phase = "creating"
      <4>1. next = live /\ file' = [revision |-> revision + 1, rows |-> live]
        BY <2>7, <3>2 DEF Publish, IInv, WholeInv, OwnInv, PhaseInv, LandedInv, ReadInv
      <4>2. Durable' = live
        <5>1. file' # NoFile /\ file'.rows = live
          BY <4>1, StoreAssumption DEF IInv, WholeInv, OwnInv, TypeOK
        <5>2. phase' # "up"
          BY <2>7, <3>2 DEF Publish
        <5> QED
          BY <5>1, <5>2 DEF Durable
      <4>3. Durable = live
        BY <2>7, <3>2 DEF Publish, Durable, IInv, WholeInv, OwnInv, PhaseInv, LandedInv, ReadInv
      <4> QED
        BY <4>2, <4>3
    <3> QED
      BY <2>7, <3>1, <3>2 DEF Publish, IInv, WholeInv, OwnInv, TypeOK, PhaseInv, LandedInv, ReadInv
  <2>8. CASE Swap
    <3>1. CASE phase = "up"
      BY <2>8, <3>1 DEF Swap, Durable
    <3>2. CASE phase = "creating"
      <4>1. file = [revision |-> revision + 1, rows |-> next]
        BY <2>8, <3>2 DEF Swap, IInv, WholeInv, OwnInv, PhaseInv, LandedInv, ReadInv
      <4>2. file # NoFile
        BY <4>1, StoreAssumption DEF IInv, WholeInv, OwnInv, TypeOK
      <4> QED
        BY <2>8, <3>2, <4>1, <4>2 DEF Swap, Durable
    <3> QED
      BY <2>8, <3>1, <3>2 DEF Swap, IInv, WholeInv, OwnInv, TypeOK, PhaseInv, LandedInv, ReadInv
  <2>9. CASE Crash
    BY <2>9 DEF Crash, Settle, Durable, IInv, WholeInv, OwnInv, TypeOK, MemoryNeverAheadOfFile
  <2> QED
    BY <2>1, <2>2, <2>3, <2>4, <2>5, <2>6, <2>7, <2>8, <2>9 DEF Next, Boot, WriteStep
<1>1. Durable = live
  BY DEF Durable
<1>2. writes # <<>> /\ Applies(live, Head(writes)) /\ next = Change(live, Head(writes))
  BY DEF IInv, WholeInv, OwnInv, PendingInv
<1>3. Head(writes) \in Op /\ Head(writes) = writes[1] /\ 1 \in 1..Len(writes)
  BY <1>2, QueueHead DEF IInv, WholeInv, OwnInv, TypeOK
<1>4. Head(writes).kind = "attach" => live.devices[Head(writes).token] = NoUser
  BY <1>3 DEF IInv, WholeInv, OwnInv, FreshInv
<1> QED
  BY <1>1, <1>2, <1>3, <1>4 DEF IInv, WholeInv, OwnInv, TypeOK, ChainsMatchDevices

LEMMA PromisedInit == Init => Sessions!Init
BY NoRowsType DEF Init, Sessions!Init, Durable, NoRows, HasDeadChain

LEMMA PromisedStep == IInv /\ [Next]_vars => [Sessions!Next]_(Sessions!vars)
<1> SUFFICES ASSUME IInv, [Next]_vars PROVE [Sessions!Next]_(Sessions!vars)
  OBVIOUS
<1>1. CASE Durable' = Durable
  BY <1>1 DEF Sessions!vars
<1>2. CASE Durable' # Durable
  BY <1>2, DurableStep, ChangeIsPromised
<1> QED
  BY <1>1, <1>2

(* The store, with its queue, its file, failed writes and crashes,         *)
(* implements the promise of DeviceSessions: every step is one sign-in,    *)
(* one sign-out, one lost session or nothing a device could see.           *)
THEOREM StoreKeepsPromise == Spec => ImplementsDeviceSessions
BY InductiveInvariant, PromisedInit, PromisedStep, PTL DEF Spec, ImplementsDeviceSessions, Sessions!Spec

(* A device row goes only by a sign-out of that device, or by a sign-in    *)
(* of its user after the chain died: SPEC section 8, attach and delete.    *)
THEOREM SignedInTillSignOut == Spec => SignedInUntilSignOut
<1>1. ASSUME IInv, [Next]_vars, NEW t \in Token, Durable.devices[t] # NoUser, Durable'.devices[t] = NoUser
      PROVE  /\ writes # <<>>
             /\ LET op == Head(writes) IN
                \/ op.kind = "remove" /\ op.token = t
                \/ /\ op.kind = "attach"
                   /\ op.user = Durable.devices[t]
                   /\ HasDeadChain(Durable, op.user)
  <2> DEFINE op == Head(writes)
  <2>0. Durable' # Durable
    BY <1>1
  <2>1. /\ writes # <<>> /\ op \in Op /\ Durable \in Rows /\ Applies(Durable, op)
        /\ Durable' = Change(Durable, op)
    BY <1>1, <2>0, DurableStep
  <2> HIDE DEF op
  <2>2. CASE op.kind = "attach"
    <3>1. op \in AttachOp /\ op.user \in User /\ Durable' = Attach(Durable, op)
      BY <2>1, <2>2, OpFields DEF Change
    <3>2. t # op.token
      <4>1. Attach(Durable, op).devices[op.token] = op.user
        BY <2>1, <3>1, AttachRows
      <4> QED
        BY <1>1, <3>1, <4>1, NoRowAssumption
    <3>3. HasDeadChain(Durable, op.user) /\ Durable.devices[t] = op.user
      <4> SUFFICES ASSUME ~(HasDeadChain(Durable, op.user) /\ Durable.devices[t] = op.user)
                   PROVE  FALSE
        OBVIOUS
      <4>1. Attach(Durable, op).devices[t] = Durable.devices[t]
        BY <2>1, <3>1, <3>2, AttachRows
      <4> QED
        BY <1>1, <3>1, <4>1
    <3> QED
      BY <2>1, <2>2, <3>3 DEF op
  <2>3. CASE op.kind = "remove"
    <3>1. op \in RemoveOp /\ RemoveApplies(Durable, op) /\ Durable' = Remove(Durable, op)
      BY <2>1, <2>3, OpFields DEF Change, Applies
    <3>2. \A x \in Token : x # op.token => Remove(Durable, op).devices[x] = Durable.devices[x]
      BY <2>1, <3>1, RemoveRows
    <3>3. t = op.token
      BY <1>1, <3>1, <3>2
    <3> QED
      BY <2>1, <2>3, <3>3 DEF op
  <2>4. CASE op.kind \in {"update", "bury"}
    <3>1. op \in UpdateOp \cup BuryOp /\ StillHolds(Durable, op)
      BY <2>1, <2>4, OpFields DEF Applies
    <3>2. Change(Durable, op).devices = Durable.devices
      BY <2>1, <3>1, UpdateBuryRows
    <3> QED
      BY <1>1, <2>1, <3>2
  <2>5. CASE op.kind = "touch"
    BY <1>1, <2>1, <2>5 DEF Change
  <2> QED
    BY <2>1, <2>2, <2>3, <2>4, <2>5, OpFields
<1>2. IInv /\ [Next]_vars =>
        [\A t \in Token :
           Durable.devices[t] # NoUser /\ Durable'.devices[t] = NoUser =>
             /\ writes # <<>>
             /\ LET op == Head(writes) IN
                \/ op.kind = "remove" /\ op.token = t
                \/ /\ op.kind = "attach"
                   /\ op.user = Durable.devices[t]
                   /\ HasDeadChain(Durable, op.user)]_vars
  BY <1>1
<1> QED
  BY <1>2, InductiveInvariant, PTL DEF Spec, SignedInUntilSignOut

(* Once its chain has died a device never resolves to a live one: only     *)
(* attach revives a chain, and it retires the devices that rode it.        *)
THEOREM DeadStaysDead == Spec => DeadBearerNeverRearmed
<1>1. ASSUME IInv, [Next]_vars, NEW t \in Token, NEW u \in User,
             Durable.devices[t] = u, HasDeadChain(Durable, u), Durable'.devices[t] = u
      PROVE  HasDeadChain(Durable', u)
  <2> SUFFICES ASSUME Durable' # Durable PROVE HasDeadChain(Durable', u)
    BY <1>1
  <2> DEFINE op == Head(writes)
  <2>1. /\ op \in Op /\ Durable \in Rows /\ Applies(Durable, op)
        /\ Durable' = Change(Durable, op)
        /\ op.kind = "attach" => Durable.devices[op.token] = NoUser
    BY <1>1, DurableStep
  <2> HIDE DEF op
  <2>2. u \in LostUsers(Durable)
    BY <1>1 DEF LostUsers
  <2>3. u \in LostUsers(Durable')
    <3>1. CASE op.kind = "attach"
      <4>1. op \in AttachOp /\ Durable' = Attach(Durable, op)
        BY <2>1, <3>1, OpFields DEF Change
      <4>2. t # op.token
        BY <1>1, <2>1, <3>1, NoRowAssumption
      <4>3. u # op.user
        <5>1. \A x \in Token : x # op.token /\ HasDeadChain(Durable, op.user) /\ Durable.devices[x] = op.user
                => Attach(Durable, op).devices[x] = NoUser
          BY <2>1, <4>1, AttachRows
        <5> QED
          BY <1>1, <4>1, <4>2, <5>1, NoRowAssumption
      <4> QED
        BY <2>1, <2>2, <3>1, <4>3, ChangeLost
    <3>2. CASE op.kind = "remove"
      <4>1. op \in RemoveOp /\ RemoveApplies(Durable, op) /\ Durable' = Remove(Durable, op)
        BY <2>1, <3>2, OpFields DEF Change, Applies
      <4>2. t # op.token
        <5>1. Remove(Durable, op).devices[op.token] = NoUser
          BY <2>1, <4>1, RemoveRows
        <5> QED
          BY <1>1, <4>1, <5>1, NoRowAssumption
      <4>3. t \in Riders(Durable, u)
        BY <1>1 DEF Riders
      <4>4. ~(Riders(Durable, Durable.devices[op.token]) = {op.token} /\ Durable.devices[op.token] = u)
        BY <4>2, <4>3
      <4> QED
        BY <2>1, <2>2, <3>2, <4>4, ChangeLost
    <3>3. CASE op.kind \in {"update", "bury", "touch"}
      BY <2>1, <2>2, <3>3, ChangeLost
    <3> QED
      BY <2>1, <3>1, <3>2, <3>3, OpFields
  <2> QED
    BY <2>3 DEF LostUsers
<1>2. IInv /\ [Next]_vars =>
        [\A t \in Token, u \in User :
           /\ Durable.devices[t] = u
           /\ HasDeadChain(Durable, u)
           /\ Durable'.devices[t] = u
           => HasDeadChain(Durable', u)]_vars
  BY <1>1
<1> QED
  BY <1>2, InductiveInvariant, PTL DEF Spec, DeadBearerNeverRearmed

-----------------------------------------------------------------------------
(* A process that shares its file with other writers (TwoServers).         *)

OwnVars == <<phase, live, revision, writes, stage, next, attempt>>

FileInv ==
  /\ file \in [revision : Nat, rows : Rows] \cup {NoFile}
  /\ file # NoFile => /\ ReferentialIntegrity(file.rows)
                      /\ \A t \in Token : file.rows.devices[t] # NoUser => t \in issued

(* Another process writes the file, and draws bearers. *)
LEMMA OthersStep ==
  ASSUME OwnInv, UNCHANGED OwnVars, FileInv', issued \subseteq issued', issued' \in SUBSET Token
  PROVE  OwnInv'
<1>1. TypeOK'
  BY DEF OwnInv, OwnVars, TypeOK, FileInv
<1>2. PhaseInv' /\ PendingInv'
  BY DEF OwnInv, OwnVars, PhaseInv, PendingInv
<1>3. FreshInv'
  <2>1. \A t \in Token : Waiting(t)' => Waiting(t)
    BY DEF OwnVars, Waiting
  <2> QED
    BY <2>1 DEF OwnInv, OwnVars, FreshInv, FileInv
<1>4. ChainsMatchDevices'
  BY DEF OwnInv, OwnVars, ChainsMatchDevices, FileInv
<1> QED
  BY <1>1, <1>2, <1>3, <1>4 DEF OwnInv

LEMMA IssuedGrows == [Next]_vars => issued \subseteq issued'
BY DEF Next, Boot, OpenExisting, OpenEmpty, Request, RequestAttach, RequestRemove, RequestUpdate,
       RequestBury, RequestTouch, Enqueue, WriteStep, MutateNothing, Mutate, CheckFile, CheckThrows,
       GiveUp, Fail, Publish, Retry, Swap, Crash, vars

(* What a process knows of a file that others write too, as long as every  *)
(* rename replaces the file its writer has checked: what it last wrote or  *)
(* loaded is in the file, or the file has moved on to a later revision.    *)
(* `seen` is the file as its last check found it.                          *)
KnowsFile(seen) ==
  /\ file # NoFile => file.revision # 0
  /\ phase = "creating" => revision = 0
  /\ phase = "up" /\ stage # "landed" =>
       /\ file # NoFile
       /\ revision < file.revision \/ (revision = file.revision /\ file.rows = live)
  /\ stage = "landed" =>
       /\ file # NoFile
       /\ revision + 1 < file.revision \/ (revision + 1 = file.revision /\ file.rows = next)
  /\ stage = "writing" =>
       IF seen = NoFile THEN revision = 0 ELSE seen.revision = revision

(* A rename moves the file on. *)
FileMovesOn ==
  file' # file =>
    /\ file' # NoFile
    /\ file'.revision # 0
    /\ file # NoFile => file.revision < file'.revision

LEMMA OthersKnown ==
  ASSUME NEW seen, OwnInv, KnowsFile(seen), UNCHANGED OwnVars, FileInv', FileMovesOn
  PROVE  KnowsFile(seen)'
<1>1. CASE file' = file
  BY <1>1 DEF OwnVars, KnowsFile
<1>2. CASE file' # file
  <2>1. /\ file' # NoFile /\ file'.revision \in Nat /\ file'.revision # 0
        /\ file # NoFile => file.revision \in Nat /\ file.revision < file'.revision
        /\ revision \in Nat
    BY <1>2 DEF FileMovesOn, OwnInv, TypeOK, FileInv
  <2>2. /\ phase = "up" /\ stage # "landed" => file # NoFile /\ revision <= file.revision
        /\ stage = "landed" => file # NoFile /\ revision + 1 <= file.revision
    BY <2>1 DEF KnowsFile
  <2>3. /\ phase = "up" /\ stage # "landed" => revision < file'.revision
        /\ stage = "landed" => revision + 1 < file'.revision
    BY <2>1, <2>2
  <2> QED
    BY <2>1, <2>3 DEF OwnVars, KnowsFile
<1> QED
  BY <1>1, <1>2

(* The process's own step, where it renames over no file it has not        *)
(* checked: what it replaces is what it held.                              *)
LEMMA OwnKnown ==
  ASSUME NEW seen, NEW seenNext, OwnInv, KnowsFile(seen), [Next]_vars,
         seenNext = (IF stage = "checking" /\ stage' = "writing" THEN file ELSE seen),
         stage' = "landed" /\ stage = "writing" => file = seen
  PROVE  /\ KnowsFile(seenNext)'
         /\ FileMovesOn
         /\ file' # file /\ file # NoFile =>
              stage' = "landed" /\ stage = "writing" /\ file.rows = live
<1> USE DEF KnowsFile
<1>0. TypeOK /\ PhaseInv
  BY DEF OwnInv
<1>1. CASE OpenExisting
  <2>1. file \in [revision : Nat, rows : Rows] /\ ReferentialIntegrity(file.rows)
    BY <1>1 DEF OpenExisting, OwnInv, TypeOK, ChainsMatchDevices
  <2>2. live' = file.rows
    BY <1>1, <2>1, LoadWholeRows DEF OpenExisting
  <2> QED
    BY <1>0, <1>1, <2>1, <2>2 DEF OpenExisting, PhaseInv, FileMovesOn
<1>2. CASE OpenEmpty
  BY <1>2 DEF OpenEmpty, FileMovesOn
<1>3. CASE Request
  <2>1. UNCHANGED <<file, phase, live, revision, stage, next>>
    BY <1>3 DEF Request, RequestAttach, RequestRemove, RequestUpdate, RequestBury, RequestTouch,
                Enqueue
  <2>2. seenNext = seen
    BY <2>1
  <2> QED
    BY <2>1, <2>2 DEF FileMovesOn
<1>4. CASE MutateNothing \/ Mutate \/ Retry
  BY <1>0, <1>4 DEF MutateNothing, Mutate, Retry, PhaseInv, FileMovesOn
<1>5. CASE CheckFile
  <2>1. seenNext = file
    BY <1>5 DEF CheckFile
  <2> QED
    BY <1>0, <1>5, <2>1 DEF CheckFile, NobodyElseWrote, FileMovesOn
<1>6. CASE CheckThrows \/ GiveUp
  BY <1>0, <1>6 DEF CheckThrows, GiveUp, Fail, Settle, FileMovesOn, PhaseInv
<1>7. CASE Publish
  <2>1. /\ file = seen /\ stage = "writing" /\ stage' = "landed"
        /\ UNCHANGED <<phase, live, revision, next>>
        /\ file' = [revision |-> revision + 1, rows |-> next]
    BY <1>7 DEF Publish
  <2>2. file' # NoFile /\ revision \in Nat /\ next \in Rows
    BY <1>0, <2>1, StoreAssumption DEF TypeOK
  <2>3. file # NoFile => file.revision = revision
    BY <2>1
  <2>4. file'.revision = revision + 1 /\ file'.rows = next
    BY <2>1
  <2>5. FileMovesOn
    BY <2>2, <2>3, <2>4 DEF FileMovesOn
  <2>6. file # NoFile => file.rows = live
    <3> SUFFICES ASSUME file # NoFile PROVE file.rows = live
      OBVIOUS
    <3>1. phase = "up"
      BY <1>0, <2>1, <2>3 DEF TypeOK, PhaseInv
    <3>2. ~(revision < file.revision)
      BY <2>2, <2>3
    <3> QED
      BY <2>1, <3>1, <3>2
  <2>7. KnowsFile(seenNext)'
    BY <2>1, <2>2, <2>4
  <2> QED
    BY <2>1, <2>5, <2>6, <2>7
<1>8. CASE Swap
  <2>1. /\ stage = "landed" /\ stage' = "idle" /\ phase' = "up"
        /\ live' = next /\ revision' = revision + 1 /\ file' = file
    BY <1>8 DEF Swap, Settle
  <2> QED
    BY <2>1 DEF FileMovesOn
<1>9. CASE Crash
  BY <1>9 DEF Crash, Settle, FileMovesOn
<1>10. CASE UNCHANGED vars
  BY <1>0, <1>10 DEF vars, FileMovesOn
<1> QED
  BY <1>1, <1>2, <1>3, <1>4, <1>5, <1>6, <1>7, <1>8, <1>9, <1>10 DEF Next, Boot, WriteStep
=============================================================================
