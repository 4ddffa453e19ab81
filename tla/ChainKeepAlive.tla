--------------------------- MODULE ChainKeepAlive ---------------------------
(***************************************************************************)
(* The life of a user's Audiobookshelf chain, where four parts of the      *)
(* server meet over it: sign-in and sign-out (auth/authService.ts), the    *)
(* keep-alive loop (auth/keepAlive.ts), the request path with its lost-    *)
(* session wrapper (api/app.ts) and the store's write queue.               *)
(*                                                                         *)
(* The store is used as SessionStore shows it to be: mutations run one at  *)
(* a time in the order they were queued and each either lands whole or     *)
(* changes nothing.  Audiobookshelf is external: a login opens a session   *)
(* with a new pair, a refresh answers the session's current refresh token  *)
(* once and rotates it, a logout that names the current one ends the       *)
(* session.  Names of pairs and bearers nothing refers to any more stand   *)
(* for the unbounded supply of new ones.                                   *)
(***************************************************************************)
EXTENDS StoreRows, Naturals, Sequences, Functions

CONSTANTS Request,    \* calls on a chain in flight at once
          Playback,   \* those of them the playback session makes for itself
          MaxWrites   \* bound on the mutations clients may queue at once

ASSUME PlaybackAssumption == Playback \subseteq Request

VARIABLES
  phase,     \* the process: "up", "draining" (onClose has run stop()), "stopping" (what
             \* it had to drain has settled) or "down"
  rows,      \* the store's rows, in memory and on disk
  writes,    \* the mutations queued on the store
  tasks,     \* the users with a refresh queued; the head's is running (queue, inFlight)
  job,       \* how far the running refresh got, the pair it spends, the pair it was given
  sweep,     \* the users a sweep has still to visit, and the one it awaits
  requests,  \* the requests in flight: what each is doing, and with which pair
  ending,    \* pairs whose best-effort logout has been sent
  root,      \* ABS: the session of a pair, named by the first pair it had
  current,   \* ABS: the pairs whose refresh token it would accept
  near,      \* pairs whose access token is within the margin of its expiry
  excused,   \* spent pairs whose successor was lost on the way to the store
  idle       \* sessions left to expire on their own, with a reason the code names

absVars == <<root, current, near>>
ghosts  == <<excused, idle>>
vars    == <<phase, rows, writes, tasks, job, sweep, requests, ending, absVars, ghosts>>

Job == [stage : {"queued", "sent", "rotated", "storing"},
        spent : Pair \cup {NoPair}, got : Pair \cup {NoPair}]

Queued == [stage |-> "queued", spent |-> NoPair, got |-> NoPair]

NoSweep == [todo |-> {}, at |-> NoUser]

Done == [stage |-> "done"]

TypeOK ==
  /\ phase \in {"up", "draining", "stopping", "down"}
  /\ rows \in Rows
  /\ writes \in Seq(Op)
  /\ tasks \in Seq(User) /\ IsInjective(tasks)
  /\ job \in Job
  /\ sweep \in [todo : SUBSET User, at : User \cup {NoUser}]
  /\ requests \in [Request -> {Done} \cup [stage : {"waiting"}, token : Token, user : User]
                                     \cup [stage : {"calling"}, token : Token, pair : Pair]]
  /\ ending \subseteq Pair
  /\ root \in [Pair -> Pair \cup {NoPair}]
  /\ current \subseteq Pair
  /\ near \subseteq Pair
  /\ excused \subseteq Pair
  /\ idle \subseteq Pair

Init ==
  /\ phase = "down"
  /\ rows = NoRows
  /\ writes = <<>>
  /\ tasks = <<>>
  /\ job = Queued
  /\ sweep = NoSweep
  /\ requests = [r \in Request |-> Done]
  /\ ending = {}
  /\ root = [p \in Pair |-> NoPair]
  /\ current = {}
  /\ near = {}
  /\ excused = {}
  /\ idle = {}

-----------------------------------------------------------------------------
(* Audiobookshelf.                                                         *)

StoredPairs == { rows.chains[u].pair : u \in { v \in User : rows.chains[v] # NoChain } }

PairsQueued ==
  UNION { LET op == writes[i] IN
            CASE op.kind = "attach" -> {op.pair}
              [] op.kind = "update" -> {op.pair, op.spent}
              [] op.kind = "bury"   -> {op.spent}
              [] OTHER              -> {} : i \in 1..Len(writes) }

PairsHeld ==
  StoredPairs \cup PairsQueued \cup ending \cup current \cup {job.spent, job.got}
    \cup { requests[r].pair : r \in { q \in Request : requests[q].stage = "calling" } }

(* A pair nobody can present or compare any more is as good as a new one. *)
NewPairs == { p \in Pair : p \notin PairsHeld /\ \A q \in PairsHeld \cap Pair : root[q] # p }

NewTokens == { t \in Token :
  /\ rows.devices[t] = NoUser
  /\ \A i \in 1..Len(writes) : writes[i].kind \in {"attach", "remove"} => writes[i].token # t
  /\ \A r \in Request : requests[r].stage # "done" => requests[r].token # t }

Alive(s) == \E p \in current : root[p] = s

(* The session of p moves on to the new pair q. *)
Mint(q, s) ==
  /\ root' = [root EXCEPT ![q] = s]
  /\ near' = near \ {q}
  /\ excused' = excused \ {q}

(* ABS ends a session by itself: revoked, account gone, window run out.    *)
Revoke ==
  \E p \in current :
    /\ current' = current \ {p}
    /\ idle' = idle \ {root[p]}
    /\ UNCHANGED <<phase, rows, writes, tasks, job, sweep, requests, ending, root, near, excused>>

(* Time passes: a stored access token comes within its margin. *)
Age ==
  \E p \in StoredPairs \ near :
    /\ near' = near \cup {p}
    /\ UNCHANGED <<phase, rows, writes, tasks, job, sweep, requests, ending, root, current, ghosts>>

-----------------------------------------------------------------------------
(* Sign-in and sign-out.                                                   *)

(* signIn: ABS opens a session for the login, and attach is queued; when   *)
(* the answer is lost the session has nobody to end it.                    *)
SignIn(t, u, p) ==
  /\ phase = "up"
  /\ Len(writes) < MaxWrites
  /\ Mint(p, p)
  /\ current' = current \cup {p}
  /\ \/ /\ writes' = Append(writes, [kind |-> "attach", token |-> t, user |-> u, pair |-> p])
        /\ idle' = idle \ {p}
     \/ /\ idle' = idle \cup {p}
        /\ UNCHANGED writes
  /\ UNCHANGED <<phase, rows, tasks, job, sweep, requests, ending>>

(* signOut, of a session being replaced too: unscoped.  endDeviceSession:  *)
(* scoped to its caller's user, which every id it finds belongs to.        *)
SignOut(t) ==
  /\ phase = "up"
  /\ Len(writes) < MaxWrites
  /\ rows.devices[t] # NoUser
  /\ writes' = Append(writes, [kind |-> "remove", token |-> t, user |-> NoUser])
  /\ UNCHANGED <<phase, rows, tasks, job, sweep, requests, ending, absVars, ghosts>>

(* The best-effort logout: it ends the session its refresh token names, if *)
(* that token is still the session's; it may fail, or never arrive.        *)
LogoutSettles(p) ==
  /\ p \in ending
  /\ ending' = ending \ {p}
  /\ \/ /\ p \in current
        /\ current' = current \ {p}
        /\ UNCHANGED idle
     \/ /\ idle' = IF Alive(root[p]) THEN idle \cup {root[p]} ELSE idle
        /\ UNCHANGED current
  /\ UNCHANGED <<phase, rows, writes, tasks, job, sweep, requests, root, near, excused>>

-----------------------------------------------------------------------------
(* The keep-alive loop.                                                    *)

(* refreshChain: join the refresh queued or running for the user, or queue *)
(* one.                                                                    *)
JoinNobody(u) == tasks' = Append(tasks, u)

Join(u) == tasks' = IF u \in Range(tasks) THEN tasks ELSE Append(tasks, u)

(* A sweep lists the live chains; the boot pass those of them gone stale.  *)
LiveUsers == { u \in User : HasLiveChain(rows, u) }

Sweep ==
  /\ phase = "up"
  /\ sweep = NoSweep
  /\ LiveUsers # {}
  /\ sweep' = [NoSweep EXCEPT !.todo = LiveUsers]
  /\ UNCHANGED <<phase, rows, writes, tasks, job, requests, ending, absVars, ghosts>>

(* refreshEach: one chain after the other, each awaited. *)
SweepNext(u) ==
  /\ u \in sweep.todo
  /\ sweep.at = NoUser
  /\ sweep' = [todo |-> sweep.todo \ {u}, at |-> u]
  /\ Join(u)
  /\ UNCHANGED <<phase, rows, writes, job, requests, ending, absVars, ghosts>>

(* The refresh at the head of the queue settles: everyone who joined it    *)
(* goes on, a request with the pair where there is one, refused or failed  *)
(* where there is none.                                                    *)
Resume(pair) ==
  /\ sweep' = IF sweep.at = Head(tasks) THEN [sweep EXCEPT !.at = NoUser] ELSE sweep
  /\ requests' = [r \in Request |->
       IF requests[r].stage = "waiting" /\ requests[r].user = Head(tasks)
       THEN IF pair = NoPair THEN Done
            ELSE [stage |-> "calling", token |-> requests[r].token, pair |-> pair]
       ELSE requests[r]]

SettleWedging(pair) ==
  /\ tasks' = IF pair = NoPair THEN tasks ELSE Tail(tasks)
  /\ job' = IF pair = NoPair THEN [job EXCEPT !.stage = "storing"] ELSE Queued
  /\ Resume(pair)

Settle(pair) ==
  /\ tasks' = Tail(tasks)
  /\ job' = Queued
  /\ Resume(pair)

(* refreshOnce re-reads the chain before it spends anything: gone or dead  *)
(* there is nothing to spend.                                              *)
RefreshBegins ==
  /\ tasks # <<>>
  /\ job.stage = "queued"
  /\ LET u == Head(tasks) IN
     IF HasLiveChain(rows, u)
     THEN /\ job' = [stage |-> "sent", spent |-> rows.chains[u].pair, got |-> NoPair]
          /\ UNCHANGED <<tasks, sweep, requests>>
     ELSE Settle(NoPair)
  /\ UNCHANGED <<phase, rows, writes, ending, absVars, ghosts>>

(* ABS rotates the refresh token it was presented. *)
AbsRotates(q) ==
  /\ job.stage = "sent"
  /\ job.spent \in current
  /\ current' = (current \ {job.spent}) \cup {q}
  /\ Mint(q, root[job.spent])
  /\ job' = [job EXCEPT !.stage = "rotated", !.got = q]
  /\ UNCHANGED <<phase, rows, writes, tasks, sweep, requests, ending, idle>>

(* The rotated pair arrives: its write is queued, guarded by what it spent. *)
RefreshAnsweredUnguarded ==
  /\ job.stage = "rotated"
  /\ job' = [job EXCEPT !.stage = "storing"]
  /\ writes' = Append(writes, [kind |-> "update", user |-> Head(tasks), pair |-> job.got,
                               spent |-> NoPair])
  /\ UNCHANGED <<phase, rows, tasks, sweep, requests, ending, absVars, ghosts>>

RefreshAnswered ==
  /\ job.stage = "rotated"
  /\ job' = [job EXCEPT !.stage = "storing"]
  /\ writes' = Append(writes, [kind |-> "update", user |-> Head(tasks), pair |-> job.got,
                               spent |-> job.spent])
  /\ UNCHANGED <<phase, rows, tasks, sweep, requests, ending, absVars, ghosts>>

(* ABS answers 401: the death is queued, guarded by what was spent. *)
RefreshRefusedUnguarded ==
  /\ job.stage = "sent"
  /\ job.spent \notin current
  /\ job' = [job EXCEPT !.stage = "storing"]
  /\ writes' = Append(writes, [kind |-> "bury", user |-> Head(tasks), spent |-> NoPair])
  /\ UNCHANGED <<phase, rows, tasks, sweep, requests, ending, absVars, ghosts>>

RefreshRefused ==
  /\ job.stage = "sent"
  /\ job.spent \notin current
  /\ job' = [job EXCEPT !.stage = "storing"]
  /\ writes' = Append(writes, [kind |-> "bury", user |-> Head(tasks), spent |-> job.spent])
  /\ UNCHANGED <<phase, rows, tasks, sweep, requests, ending, absVars, ghosts>>

(* No usable answer within the timeout: an outage, not a death.  A pair    *)
(* that was rotated is lost on the way.                                    *)
RefreshTimesOut ==
  /\ job.stage \in {"sent", "rotated"}
  /\ excused' = IF job.stage = "rotated" THEN excused \cup {job.spent} ELSE excused
  /\ Settle(NoPair)
  /\ UNCHANGED <<phase, rows, writes, ending, absVars, idle>>

-----------------------------------------------------------------------------
(* The request path.                                                       *)

(* The bearer names a device whose chain lives; else the guard refuses it. *)
Resolves(t) == rows.devices[t] # NoUser /\ HasLiveChain(rows, rows.devices[t])

(* usableChain returns the pair of the bearer's chain, or refreshes it     *)
(* first where the access token is about to expire.  The playback session  *)
(* asks again for each of its writes, until it is stopped.                 *)
RequestBegins(r, t) ==
  /\ phase = "up" \/ (r \in Playback /\ phase # "down")
  /\ requests[r] = Done
  /\ Resolves(t)
  /\ LET u == rows.devices[t]
         pair == rows.chains[u].pair
     IN IF pair \in near
        THEN /\ requests' = [requests EXCEPT ![r] = [stage |-> "waiting", token |-> t, user |-> u]]
             /\ Join(u)
        ELSE /\ requests' = [requests EXCEPT ![r] = [stage |-> "calling", token |-> t, pair |-> pair]]
             /\ UNCHANGED tasks
  /\ UNCHANGED <<phase, rows, writes, job, sweep, ending, absVars, ghosts>>

(* The upstream call succeeds, or fails as anything but a 401. *)
RequestSucceeds(r) ==
  /\ requests[r].stage = "calling"
  /\ requests' = [requests EXCEPT ![r] = Done]
  /\ UNCHANGED <<phase, rows, writes, tasks, job, sweep, ending, absVars, ghosts>>

(* ABS has ended the session and refuses its access token: the bearer is   *)
(* resolved again, and where it still names a live chain loseChain queues  *)
(* that chain's death, unguarded.  The client gets a 401 either way, once  *)
(* the write has settled; nothing but that answer waits for it.  The       *)
(* playback session has no wrapper: its refused write is one that failed.  *)
RequestRefused(r) ==
  /\ r \notin Playback
  /\ requests[r].stage = "calling"
  /\ ~Alive(root[requests[r].pair])
  /\ IF Resolves(requests[r].token)
     THEN /\ Len(writes) < MaxWrites
          /\ writes' = Append(writes, [kind |-> "bury", user |-> rows.devices[requests[r].token],
                                       spent |-> NoPair])
     ELSE UNCHANGED writes
  /\ requests' = [requests EXCEPT ![r] = Done]
  /\ UNCHANGED <<phase, rows, tasks, job, sweep, ending, absVars, ghosts>>

-----------------------------------------------------------------------------
(* The store.                                                              *)

(* The pairs a caller ends upstream once its mutation has landed: the one  *)
(* a sign-in did not need, the one the last device left behind.            *)
ReleasedBySignOut(op) ==
  IF op.kind = "remove" /\ RemoveApplies(rows, op) /\ Riders(rows, rows.devices[op.token]) = {op.token}
  THEN {rows.chains[rows.devices[op.token]].pair}
  ELSE {}

Released(op) ==
  CASE op.kind = "attach" /\ HasLiveChain(rows, op.user) -> {op.pair}
    [] op.kind = "remove" /\ RemoveApplies(rows, op)
         /\ Riders(rows, rows.devices[op.token]) = {op.token}
         -> {rows.chains[rows.devices[op.token]].pair}
    [] OTHER -> {}

(* The sessions a landed mutation leaves to themselves: a dead chain that  *)
(* a sign-in replaces is not ended upstream.                               *)
Abandoned(op) ==
  IF op.kind = "attach" /\ HasDeadChain(rows, op.user)
  THEN { root[p] : p \in {rows.chains[op.user].pair} \cap excused }
  ELSE {}

(* Whether a mutation is the running refresh's: the loop has one at most.  *)
OfJob(op) == op.kind = "update" \/ (op.kind = "bury" /\ op.spent # NoPair)

(* The pair a refresh hands its callers once its write has settled well -  *)
(* landed, or passed over because the chain has moved on.                  *)
WriteLands ==
  /\ writes # <<>>
  /\ LET op == Head(writes) IN
     /\ rows' = IF Applies(rows, op) THEN Change(rows, op) ELSE rows
     /\ ending' = ending \cup Released(op)
     /\ idle' = idle \cup Abandoned(op)
     /\ IF OfJob(op) THEN Settle(job.got) ELSE UNCHANGED <<tasks, job, sweep, requests>>
  /\ writes' = Tail(writes)
  /\ UNCHANGED <<phase, absVars, excused>>

(* Every attempt failed: a sign-in throws and leaves its session behind, a *)
(* refresh throws and loses the pair it was given.                         *)
WriteFails ==
  /\ writes # <<>>
  /\ LET op == Head(writes) IN
     /\ Applies(rows, op)
     /\ idle' = IF op.kind = "attach" /\ Alive(op.pair) THEN idle \cup {op.pair} ELSE idle
     /\ excused' = IF op.kind = "update" THEN excused \cup {op.spent} ELSE excused
     /\ IF OfJob(op) THEN Settle(NoPair) ELSE UNCHANGED <<tasks, job, sweep, requests>>
  /\ writes' = Tail(writes)
  /\ UNCHANGED <<phase, rows, ending, absVars>>

-----------------------------------------------------------------------------
(* The process.                                                            *)

(* Everything in memory goes; sessions a sign-in had in hand are nobody's. *)
Halt ==
  /\ phase' = "down"
  /\ writes' = <<>>
  /\ tasks' = <<>>
  /\ job' = Queued
  /\ sweep' = NoSweep
  /\ requests' = [r \in Request |-> Done]
  /\ ending' = {}
  /\ idle' = idle \cup { s \in Pair : Alive(s) /\
       \/ \E p \in ending : root[p] = s
       \/ \E i \in 1..Len(writes) : writes[i].kind = "attach" /\ writes[i].pair = s }
  /\ UNCHANGED <<rows, absVars>>

(* A crash, or a drain that ran out of time: a rotated pair not yet stored *)
(* is lost.                                                                *)
Crash ==
  /\ phase # "down"
  /\ Halt
  /\ excused' = IF job.got # NoPair THEN excused \cup {job.spent} ELSE excused

(* onClose runs once Fastify has answered every request: stop() ends the   *)
(* sweep after the refresh it awaits.                                      *)
Quiet ==
  /\ \A r \in Request \ Playback : requests[r] = Done
  /\ ending = {}
  /\ \A i \in 1..Len(writes) : OfJob(writes[i])

Stop ==
  /\ phase = "up"
  /\ Quiet
  /\ phase' = "draining"
  /\ sweep' = [sweep EXCEPT !.todo = {}]
  /\ UNCHANGED <<rows, writes, tasks, job, requests, ending, absVars, ghosts>>

(* drained() resolves: no refresh is left but what the playback session    *)
(* has asked for, before or since.                                         *)
Drained ==
  /\ phase = "draining"
  /\ \A u \in Range(tasks) : \E r \in Playback : requests[r].stage = "waiting" /\ requests[r].user = u
  /\ phase' = "stopping"
  /\ UNCHANGED <<rows, writes, tasks, job, sweep, requests, ending, absVars, ghosts>>

(* sessions.stop() has run behind whatever the playback session was doing, *)
(* and the process exits.                                                  *)
ExitUndrained ==
  /\ phase = "draining"
  /\ Halt
  /\ UNCHANGED excused

ExitOverPlayback ==
  /\ phase = "stopping"
  /\ Halt
  /\ UNCHANGED excused

Exit ==
  /\ phase = "stopping"
  /\ \A r \in Playback : requests[r] = Done
  /\ Halt
  /\ UNCHANGED excused

(* start(): the boot pass visits the chains that missed a sweep, whichever *)
(* those are.                                                              *)
Boot ==
  /\ phase = "down"
  /\ phase' = "up"
  /\ \E stale \in SUBSET LiveUsers : sweep' = [NoSweep EXCEPT !.todo = stale]
  /\ UNCHANGED <<rows, writes, tasks, job, requests, ending, absVars, ghosts>>

-----------------------------------------------------------------------------
External == Revoke \/ Age

Clients ==
  \/ \E t \in NewTokens, u \in User, p \in NewPairs : SignIn(t, u, p)
  \/ \E t \in Token : SignOut(t)
  \/ \E r \in Request, t \in Token : RequestBegins(r, t)

Refreshing ==
  \/ RefreshBegins
  \/ \E q \in NewPairs : AbsRotates(q)
  \/ RefreshAnswered
  \/ RefreshRefused
  \/ RefreshTimesOut

Answering ==
  \/ \E r \in Request : RequestSucceeds(r)
  \/ \E p \in Pair : LogoutSettles(p)

Writing == WriteLands \/ WriteFails

Process == Crash \/ Stop \/ Drained \/ Exit \/ Boot

NextUnrefused ==
  \/ External
  \/ Clients
  \/ Sweep
  \/ \E u \in User : SweepNext(u)
  \/ Refreshing
  \/ Answering
  \/ Writing
  \/ Process

Next ==
  \/ NextUnrefused
  \/ \E r \in Request : RequestRefused(r)

Spec == Init /\ [][Next]_vars

(* The same server while ABS refuses no access token ahead of its expiry.  *)
SpecUnrefused == Init /\ [][NextUnrefused]_vars

(* ABS calls are bounded by a timeout and the store's writes settle        *)
(* (SessionStore: WritesSettle), so a refresh goes on once it can.         *)
FairSpec == Spec /\ WF_vars(Refreshing) /\ WF_vars(Writing)

-----------------------------------------------------------------------------
(* "Presenting the spent token would mark a live chain dead, the exact     *)
(* restart-sign-out this loop exists to prevent" (drained, refreshOnce):   *)
(* while ABS keeps the session, a stored pair is one it would renew,       *)
(* unless its refresh is under way or its successor was lost to a failed   *)
(* write, a lost answer or a crash - never to a sweep meeting a request,   *)
(* to a sign-in, or to a graceful stop, whatever is still playing.         *)
SpentPairsAreAccountedFor ==
  \A u \in LiveUsers :
    LET p == rows.chains[u].pair IN
    Alive(root[p]) => p \in current \cup excused \/ (job.spent = p /\ job.got # NoPair)

(* "Burying it would kill a live chain over stale news, sending a freshly  *)
(* signed-in device to UPSTREAM_SESSION_LOST" (markDead): a chain dies     *)
(* only once ABS would no longer renew it.                                 *)
NoDeathOverStaleNews ==
  [][\A u \in User :
       HasLiveChain(rows, u) /\ HasDeadChain(rows', u)
         => rows.chains[u].pair \notin current]_vars

(* "Neither clobbers the successor" (refreshOnce), "re-adding it would     *)
(* resurrect a revoked session" (updateChain): which upstream session a    *)
(* user's chain belongs to is decided by sign-ins and sign-outs alone.     *)
OnlySignInsChangeSession ==
  [][\A u \in User :
       /\ rows'.chains[u] # NoChain
       /\ \/ rows.chains[u] = NoChain
          \/ root[rows.chains[u].pair] # root'[rows'.chains[u].pair]
       => Head(writes).kind = "attach"]_vars

(* "So no idle ABS session is left behind" (signIn): every session ABS     *)
(* keeps is some user's, on its way to be, on its way to its end, or was   *)
(* left over for a reason the code names.                                  *)
NoIdleSession ==
  \A s \in Pair :
    Alive(s) =>
      \/ \E p \in StoredPairs \cup ending : root[p] = s
      \/ \E i \in 1..Len(writes) : writes[i].kind = "attach" /\ writes[i].pair = s
      \/ s \in idle

(* "One failure cannot wedge the rest" (enqueue): every refresh asked for  *)
(* settles, and every request that waits for one goes on.                  *)
RefreshesSettle ==
  /\ \A u \in User : (u \in Range(tasks)) ~> (u \notin Range(tasks))
  /\ \A r \in Request : (requests[r].stage = "waiting") ~> (requests[r].stage # "waiting")
=============================================================================
