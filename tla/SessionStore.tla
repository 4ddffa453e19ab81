---------------------------- MODULE SessionStore ----------------------------
(***************************************************************************)
(* The persisted session store of the server                               *)
(* (packages/app/src/auth/sessionStore.ts and sessionFile.ts): two maps    *)
(* held in memory for synchronous look-ups, mirrored into one encrypted    *)
(* file, mutated through a queue of one write at a time, each checked      *)
(* against the file's revision, retried a bounded number of times and made *)
(* visible only once its bytes have landed.  The process may die at any    *)
(* step; the file is what the next boot finds.                             *)
(*                                                                         *)
(* A write is the code's mutate -> flush -> swap, cut where the code       *)
(* awaits, because find() reads the live maps between the steps:           *)
(*   Mutate       change() on a copy of both maps                          *)
(*   CheckFile    assertNobodyElseWrote                                    *)
(*   Publish      the rename of writeFileAtomic                            *)
(*   Swap         revision and live maps replaced                          *)
(***************************************************************************)
EXTENDS StoreRows, Naturals, Sequences

CONSTANTS NoFile,          \* "the store file does not exist"
          WriteAttempts,   \* WRITE_ATTEMPTS, 3 in the code
          MaxQueue,        \* bound on the writes queued at once
          MaxRevision      \* bound on the revisions at which writes are asked for

ASSUME StoreAssumption ==
  /\ WriteAttempts \in Nat \ {0}
  /\ MaxQueue \in Nat
  /\ MaxRevision \in Nat
  /\ NoFile \notin [revision : Nat, rows : Rows]

VARIABLES
  file,      \* the store file: its revision and rows, or NoFile
  phase,     \* the process: "down", "creating" its file at boot, or "up"
  live,      \* the live maps (this.devices, this.chains)
  revision,  \* the revision this process left in the file (this.revision)
  writes,    \* the mutations queued behind each other (this.writes)
  stage,     \* where the write at the head of the queue stands
  next,      \* the copy of the maps it has changed
  attempt,   \* the attempts writeWithRetry has begun
  issued     \* the bearers drawn so far: randomBytes draws none twice

vars == <<file, phase, live, revision, writes, stage, next, attempt, issued>>

TypeOK ==
  /\ file \in [revision : Nat, rows : Rows] \cup {NoFile}
  /\ phase \in {"down", "creating", "up"}
  /\ live \in Rows
  /\ revision \in Nat
  /\ writes \in Seq(Op)
  /\ stage \in {"idle", "checking", "writing", "landed"}
  /\ next \in Rows
  /\ attempt \in 0..WriteAttempts
  /\ issued \in SUBSET Token

Init ==
  /\ file = NoFile
  /\ phase = "down"
  /\ live = NoRows
  /\ revision = 0
  /\ writes = <<>>
  /\ stage = "idle"
  /\ next = NoRows
  /\ attempt = 0
  /\ issued = {}

-----------------------------------------------------------------------------
(* Boot.                                                                   *)

(* open() on an existing file: parse it, or refuse to boot.                *)
OpenExisting ==
  /\ phase = "down"
  /\ file # NoFile
  /\ DevicesHaveChains(file.rows)
  /\ phase' = "up"
  /\ live' = DropOrphans(file.rows)
  /\ revision' = file.revision
  /\ UNCHANGED <<file, writes, stage, next, attempt, issued>>

(* open() on an empty volume: flush the empty maps before the server is up. *)
OpenEmpty ==
  /\ phase = "down"
  /\ file = NoFile
  /\ phase' = "creating"
  /\ live' = NoRows
  /\ revision' = 0
  /\ next' = NoRows
  /\ stage' = "checking"
  /\ UNCHANGED <<file, writes, attempt, issued>>

-----------------------------------------------------------------------------
(* The callers: each mutation is queued behind the ones before it.         *)

Enqueue(op) ==
  /\ phase = "up"
  /\ Len(writes) < MaxQueue
  /\ revision < MaxRevision
  /\ writes' = Append(writes, op)
  /\ UNCHANGED <<file, phase, live, revision, stage, next, attempt>>

(* attach (AuthService.signIn): the token has just been drawn.             *)
RequestAttach(t, u, p) ==
  /\ t \notin issued
  /\ issued' = issued \cup {t}
  /\ Enqueue([kind |-> "attach", token |-> t, user |-> u, pair |-> p])

(* delete (sign-out, unscoped) and deleteDeviceSession (scoped to u).      *)
RequestRemove(t, u) ==
  /\ t \in issued
  /\ Enqueue([kind |-> "remove", token |-> t, user |-> u])
  /\ UNCHANGED issued

(* updateChain after a refresh that spent the stored pair s.               *)
RequestUpdate(u, p, s) ==
  /\ HasLiveChain(live, u)
  /\ s \in {NoPair, live.chains[u].pair}
  /\ Enqueue([kind |-> "update", user |-> u, pair |-> p, spent |-> s])
  /\ UNCHANGED issued

(* markDead, after a refused refresh (guarded by the pair it spent) or by  *)
(* loseChain (unguarded).                                                  *)
RequestBury(u, s) ==
  /\ HasLiveChain(live, u)
  /\ s \in {NoPair, live.chains[u].pair}
  /\ Enqueue([kind |-> "bury", user |-> u, spent |-> s])
  /\ UNCHANGED issued

(* touch's throttled write-through and the shutdown flush of "last used".  *)
RequestTouch ==
  /\ Enqueue([kind |-> "touch"])
  /\ UNCHANGED issued

-----------------------------------------------------------------------------
(* The write at the head of the queue.                                     *)

Settle == stage' = "idle" /\ attempt' = 0

(* A write whose turn came: change() runs on copies; false writes nothing. *)
MutateNothing ==
  /\ phase = "up"
  /\ stage = "idle"
  /\ writes # <<>>
  /\ \/ ~Applies(live, Head(writes))
     \/ Head(writes).kind = "touch"
  /\ writes' = Tail(writes)
  /\ UNCHANGED <<file, phase, live, revision, stage, next, attempt, issued>>

Mutate ==
  /\ phase = "up"
  /\ stage = "idle"
  /\ writes # <<>>
  /\ Applies(live, Head(writes))
  /\ next' = Change(live, Head(writes))
  /\ stage' = "checking"
  /\ UNCHANGED <<file, phase, live, revision, writes, attempt, issued>>

(* assertNobodyElseWrote finds the file as this process left it.           *)
NobodyElseWroteUnchecked == TRUE

NobodyElseWrote ==
  IF file = NoFile THEN revision = 0 ELSE file.revision = revision

CheckFile ==
  /\ stage = "checking"
  /\ NobodyElseWrote
  /\ stage' = "writing"
  /\ attempt' = 1
  /\ UNCHANGED <<file, phase, live, revision, writes, next, issued>>

(* A write that throws: the caller sees the error, memory is as it was,    *)
(* and the queue moves on.  While creating the file it fails the boot.     *)
FailKeepingChange ==
  /\ Settle
  /\ live' = next
  /\ writes' = IF phase = "up" THEN Tail(writes) ELSE writes
  /\ phase' = IF phase = "up" THEN "up" ELSE "down"
  /\ UNCHANGED <<file, revision, next, issued>>

FailLeavingItQueued ==
  /\ Settle
  /\ phase' = IF phase = "up" THEN "up" ELSE "down"
  /\ UNCHANGED <<file, live, revision, writes, next, issued>>

Fail ==
  /\ Settle
  /\ writes' = IF phase = "up" THEN Tail(writes) ELSE writes
  /\ phase' = IF phase = "up" THEN "up" ELSE "down"
  /\ UNCHANGED <<file, live, revision, next, issued>>

(* The check cannot read the file, or finds another writer's revision.     *)
CheckThrows ==
  /\ stage = "checking"
  /\ Fail

(* A writer that forgets to count its write. *)
PublishKeepingRevision ==
  /\ stage = "writing"
  /\ file' = [revision |-> revision, rows |-> next]
  /\ stage' = "landed"
  /\ UNCHANGED <<phase, live, revision, writes, next, attempt, issued>>

(* writeFileAtomic renames the new file over the old one.                  *)
Publish ==
  /\ stage = "writing"
  /\ file' = [revision |-> revision + 1, rows |-> next]
  /\ stage' = "landed"
  /\ UNCHANGED <<phase, live, revision, writes, next, attempt, issued>>

(* One attempt fails before the rename and another is left: only the write *)
(* is retried, after a pause.                                              *)
RetryUncounted ==
  /\ stage = "writing"
  /\ attempt' = attempt + 1
  /\ UNCHANGED <<file, phase, live, revision, writes, stage, next, issued>>

Retry ==
  /\ stage = "writing"
  /\ attempt < WriteAttempts
  /\ attempt' = attempt + 1
  /\ UNCHANGED <<file, phase, live, revision, writes, stage, next, issued>>

(* The last attempt fails too. *)
GiveUp ==
  /\ stage = "writing"
  /\ attempt = WriteAttempts
  /\ Fail

(* The write has landed: counter and live maps are replaced together.      *)
Swap ==
  /\ stage = "landed"
  /\ Settle
  /\ live' = next
  /\ revision' = revision + 1
  /\ phase' = "up"
  /\ writes' = IF phase = "up" THEN Tail(writes) ELSE writes
  /\ UNCHANGED <<file, next, issued>>

(* The process dies: memory and queue are gone, the file is not.           *)
Crash ==
  /\ phase # "down"
  /\ phase' = "down"
  /\ live' = NoRows
  /\ revision' = 0
  /\ writes' = <<>>
  /\ Settle
  /\ next' = NoRows
  /\ UNCHANGED <<file, issued>>

-----------------------------------------------------------------------------
Boot == OpenExisting \/ OpenEmpty

Request ==
  \/ \E t \in Token, u \in User, p \in Pair : RequestAttach(t, u, p)
  \/ \E t \in Token, u \in User \cup {NoUser} : RequestRemove(t, u)
  \/ \E u \in User, p \in Pair, s \in Pair \cup {NoPair} : RequestUpdate(u, p, s)
  \/ \E u \in User, s \in Pair \cup {NoPair} : RequestBury(u, s)
  \/ RequestTouch

WriteStep ==
  \/ MutateNothing
  \/ Mutate
  \/ CheckFile
  \/ CheckThrows
  \/ Publish
  \/ Retry
  \/ GiveUp
  \/ Swap

Next == Boot \/ Request \/ WriteStep \/ Crash

Spec == Init /\ [][Next]_vars

(* A write in progress is driven by the event loop and the file system,    *)
(* whose calls return; nothing else in the store is promised to happen.    *)
FairSpec == Spec /\ WF_vars(WriteStep)

-----------------------------------------------------------------------------
(* What the server answers from, or would after a restart.                 *)
Durable ==
  IF phase = "up" THEN live ELSE IF file = NoFile THEN NoRows ELSE file.rows

(* The promise made to the devices (DeviceSessions), read off that.        *)
Sessions == INSTANCE DeviceSessions
  WITH session <- Durable.devices,
       lost <- { u \in User : HasDeadChain(Durable, u) }

(* "Memory must never hold a session the file does not" (mutate): a server *)
(* that is up answers from what the file holds, at the revision it left    *)
(* there, except between the rename and the swap, when the file is one     *)
(* write ahead.                                                            *)
MemoryNeverAheadOfFile ==
  phase = "up" =>
    /\ file # NoFile
    /\ \/ /\ stage # "landed"
          /\ file.revision = revision
          /\ file.rows = live
       \/ /\ stage = "landed"
          /\ file.revision = revision + 1
          /\ file.rows = next

(* "One chain per user, created and removed with the user's first and last *)
(* device": no device without a chain to resolve it, no chain that nobody  *)
(* could ever retire, in memory and in the file the next boot loads.       *)
ChainsMatchDevices ==
  /\ ReferentialIntegrity(live)
  /\ file # NoFile => ReferentialIntegrity(file.rows)

(* "Signed in until explicit sign-out" (SPEC section 8), across failed     *)
(* writes and crashes: a device row goes only by a sign-out of that device *)
(* or by its user signing in again after the chain had died.               *)
SignedInUntilSignOut ==
  [][\A t \in Token :
       Durable.devices[t] # NoUser /\ Durable'.devices[t] = NoUser =>
         /\ writes # <<>>
         /\ LET op == Head(writes) IN
            \/ op.kind = "remove" /\ op.token = t
            \/ /\ op.kind = "attach"
               /\ op.user = Durable.devices[t]
               /\ HasDeadChain(Durable, op.user)]_vars

(* "A bearer that rode the dead chain is not silently re-armed" (signIn):  *)
(* once its user's chain has died, a device never resolves to a live one.  *)
DeadBearerNeverRearmed ==
  [][\A t \in Token, u \in User :
       /\ Durable.devices[t] = u
       /\ HasDeadChain(Durable, u)
       /\ Durable'.devices[t] = u
       => HasDeadChain(Durable', u)]_vars

(* Every step of the store, crashes and failed writes included, is one     *)
(* sign-in, one sign-out, one lost session, or nothing at all to a device. *)
ImplementsDeviceSessions == Sessions!Spec

(* The write at the head is answered, and the one behind it is next. *)
HeadLeaves == writes # <<>> /\ writes' = Tail(writes)

(* "One failed write must not wedge every later one" (enqueue): whatever   *)
(* the disk does, writes leave the queue for as long as there are any.  As *)
(* they leave in the order they came, every one that is queued gets its    *)
(* turn and its answer.  A boot's own write, which nothing is queued       *)
(* behind, comes to an end too.                                            *)
WritesSettle ==
  /\ []<>(writes = <<>>) \/ []<><<HeadLeaves>>_vars
  /\ (phase = "creating") ~> (phase # "creating")
=============================================================================
