------------------------ MODULE ChainKeepAliveProofs ------------------------
(***************************************************************************)
(* Theorems about ChainKeepAlive, for any number of bearers, users, pairs, *)
(* requests in flight and mutations queued.                                *)
(***************************************************************************)
EXTENDS ChainKeepAlive, StoreRowsProofs

-----------------------------------------------------------------------------
(* The inductive invariant, in named parts.                                *)

Chained(u) == rows.chains[u] # NoChain

PairOf(u) == rows.chains[u].pair

(* One refresh at a time: it is the head of the queue's, it spends a pair  *)
(* and holds the one it was given until it is stored.                      *)
JobInv ==
  /\ job.stage = "queued" => job = Queued
  /\ job.stage # "queued" => tasks # <<>> /\ job.spent \in Pair
  /\ job.stage = "sent" => job.got = NoPair
  /\ job.stage = "rotated" => job.got \in Pair
  /\ job.stage = "storing" /\ job.got = NoPair => job.spent \notin current

(* Its write is in the store's queue once, and says what it did. *)
JobWriteInv ==
  /\ \A i \in 1..Len(writes) :
       OfJob(writes[i]) =>
         /\ job.stage = "storing"
         /\ writes[i].user = Head(tasks)
         /\ writes[i].spent = job.spent
         /\ writes[i].kind = "update" => job.got # NoPair /\ writes[i].pair = job.got
         /\ writes[i].kind = "bury" => job.got = NoPair
  /\ \A i \in 1..Len(writes) : \A j \in 1..Len(writes) :
       OfJob(writes[i]) /\ OfJob(writes[j]) => i = j

(* A sign-in on its way to the store brings a bearer and a pair nothing    *)
(* else knows, the first pair of its session.                              *)
FreshInv ==
  /\ \A i \in 1..Len(writes) :
       writes[i].kind = "attach" =>
         /\ rows.devices[writes[i].token] = NoUser
         /\ root[writes[i].pair] = writes[i].pair
         /\ Alive(writes[i].pair) => writes[i].pair \in current
         /\ writes[i].pair \notin StoredPairs \cup {job.spent, job.got}
  /\ \A i \in 1..Len(writes) : \A j \in 1..Len(writes) :
       writes[i].kind = "attach" /\ writes[j].kind = "attach" /\ i # j =>
         /\ writes[i].token # writes[j].token
         /\ writes[i].pair # writes[j].pair

(* A pair is one user's, and the pair a refresh was given is stored by     *)
(* nobody yet.                                                             *)
OwnerInv ==
  /\ \A u \in User : \A v \in User :
       Chained(u) /\ Chained(v) /\ PairOf(u) = PairOf(v) => u = v
  /\ \A u \in User : Chained(u) /\ PairOf(u) = job.spent => u = Head(tasks)
  /\ job.got \notin StoredPairs

(* A session renews by one pair only, its latest; a refresh stays within   *)
(* the session of the pair it spends.                                      *)
UpstreamInv ==
  /\ \A p \in StoredPairs \cup current : root[p] \in Pair
  /\ \A p \in current : \A q \in current : root[p] = root[q] => p = q
  /\ job.spent # NoPair => root[job.spent] \in Pair
  /\ job.got # NoPair =>
       /\ root[job.got] = root[job.spent]
       /\ Alive(root[job.got]) => job.got \in current

(* A server that is stopping has only its playback session's refreshes to  *)
(* wait for.                                                               *)
StopInv ==
  /\ phase \in {"draining", "stopping"} => sweep.todo = {}
  /\ phase = "stopping" =>
       \A u \in Range(tasks) :
         \E r \in Playback : requests[r].stage = "waiting" /\ requests[r].user = u

IInv ==
  /\ TypeOK
  /\ ReferentialIntegrity(rows)
  /\ JobInv
  /\ JobWriteInv
  /\ FreshInv
  /\ OwnerInv
  /\ UpstreamInv
  /\ StopInv
  /\ SpentPairsAreAccountedFor

(* What holds besides while ABS refuses no access token ahead of its       *)
(* expiry: a chain dies only of a refused refresh, so neither the one      *)
(* being refreshed nor one whose session is alive is dead.                 *)
GuardedInv ==
  /\ \A i \in 1..Len(writes) : writes[i].kind = "bury" => OfJob(writes[i])
  /\ \A u \in User : Chained(u) /\ PairOf(u) = job.spent => ~rows.chains[u].dead
  /\ \A u \in User :
       HasDeadChain(rows, u) /\ Alive(root[PairOf(u)]) => PairOf(u) \in excused

UInv == IInv /\ GuardedInv /\ NoIdleSession

-----------------------------------------------------------------------------
(* Pairs and queues.                                                       *)

LEMMA Stored ==
  /\ \A u \in User : Chained(u) => PairOf(u) \in StoredPairs
  /\ \A p \in StoredPairs : \E u \in User : Chained(u) /\ PairOf(u) = p
BY DEF StoredPairs, Chained, PairOf

LEMMA StoredType == TypeOK =>
  /\ StoredPairs \subseteq Pair
  /\ \A u \in User : Chained(u) => PairOf(u) \in Pair /\ rows.chains[u] \in Chain
BY DEF TypeOK, StoredPairs, Chained, PairOf, Rows, Chain

(* A pair that is minted is known to nobody, and names no session that is. *)
LEMMA NewPair ==
  ASSUME NEW q \in NewPairs
  PROVE  /\ q \in Pair
         /\ q \notin StoredPairs /\ q \notin current /\ q \notin ending /\ q # job.spent /\ q # job.got
         /\ \A p \in Pair : p \in StoredPairs \cup current \cup ending \cup {job.spent, job.got} => root[p] # q
         /\ \A i \in 1..Len(writes) :
              /\ writes[i].kind = "attach" =>
                   writes[i].pair # q /\ (writes[i].pair \in Pair => root[writes[i].pair] # q)
              /\ writes[i].kind = "update" => writes[i].pair # q /\ writes[i].spent # q
              /\ writes[i].kind = "bury" => writes[i].spent # q
<1>1. /\ q \in Pair /\ q \notin PairsHeld
      /\ \A p \in Pair : p \in PairsHeld => root[p] # q
  BY DEF NewPairs
<1>2. StoredPairs \cup current \cup ending \cup {job.spent, job.got} \subseteq PairsHeld
  BY DEF PairsHeld
<1>3. PairsQueued \subseteq PairsHeld
  BY DEF PairsHeld
<1>4. ASSUME NEW i \in 1..Len(writes)
      PROVE  /\ writes[i].kind = "attach" => writes[i].pair \in PairsQueued
             /\ writes[i].kind = "update" => writes[i].pair \in PairsQueued /\ writes[i].spent \in PairsQueued
             /\ writes[i].kind = "bury" => writes[i].spent \in PairsQueued
  BY DEF PairsQueued
<1> QED
  BY <1>1, <1>2, <1>3, <1>4

LEMMA NewToken ==
  ASSUME NEW t \in NewTokens
  PROVE  /\ t \in Token /\ rows.devices[t] = NoUser
         /\ \A i \in 1..Len(writes) : writes[i].kind = "attach" => writes[i].token # t
BY DEF NewTokens

LEMMA QueueTail ==
  ASSUME NEW queue \in Seq(Op), queue # <<>>
  PROVE  /\ \A i \in 1..Len(Tail(queue)) :
              i + 1 \in 1..Len(queue) /\ i + 1 # 1 /\ Tail(queue)[i] = queue[i + 1]
         /\ \A i \in 1..Len(Tail(queue)) : \A j \in 1..Len(Tail(queue)) : i + 1 = j + 1 => i = j
OBVIOUS

LEMMA QueueAppend ==
  ASSUME NEW queue \in Seq(Op), NEW op \in Op
  PROVE  /\ Append(queue, op) \in Seq(Op)
         /\ Append(queue, op) # <<>>
         /\ \A i \in 1..Len(queue) :
              i \in 1..Len(Append(queue, op)) /\ Append(queue, op)[i] = queue[i] /\ i # Len(queue) + 1
         /\ Append(queue, op)[Len(queue) + 1] = op
         /\ \A i \in 1..Len(Append(queue, op)) : i \in 1..Len(queue) \/ i = Len(queue) + 1
<1>1. Append(queue, op) \in Seq(Op) /\ Append(queue, op) # <<>> /\ Len(queue) \in Nat
  OBVIOUS
<1>2. Len(Append(queue, op)) = Len(queue) + 1
  OBVIOUS
<1>3. \A i \in 1..Len(queue) : Append(queue, op)[i] = queue[i]
  OBVIOUS
<1>4. Append(queue, op)[Len(queue) + 1] = op
  OBVIOUS
<1> QED
  BY <1>1, <1>2, <1>3, <1>4

(* Joining a refresh keeps the one that runs. *)
LEMMA JoinTasks ==
  ASSUME TypeOK, NEW u \in User, Join(u)
  PROVE  /\ tasks' \in Seq(User) /\ IsInjective(tasks)'
         /\ tasks # <<>> => tasks' # <<>> /\ Head(tasks') = Head(tasks)
         /\ Range(tasks') = Range(tasks) \cup {u}
<1>1. tasks \in Seq(User) /\ IsInjective(tasks) /\ Len(tasks) \in Nat
  BY DEF TypeOK
<1>2. CASE u \in Range(tasks)
  BY <1>1, <1>2 DEF Join
<1>3. CASE u \notin Range(tasks)
  <2>1. tasks' = Append(tasks, u)
    BY <1>3 DEF Join
  <2>2. /\ tasks' \in Seq(User) /\ Len(tasks') = Len(tasks) + 1
        /\ \A i \in 1..Len(tasks) : tasks'[i] = tasks[i]
        /\ tasks'[Len(tasks) + 1] = u
        /\ DOMAIN tasks' = 1..(Len(tasks) + 1) /\ DOMAIN tasks = 1..Len(tasks)
    BY <1>1, <2>1
  <2>3. \A i \in 1..(Len(tasks) + 1) : i \in 1..Len(tasks) \/ i = Len(tasks) + 1
    BY <1>1
  <2>4. IsInjective(tasks)'
    BY <1>1, <1>3, <2>2, <2>3 DEF IsInjective, Range
  <2>5. Range(tasks') = Range(tasks) \cup {u}
    <3>1. 1..Len(tasks) \subseteq 1..(Len(tasks) + 1) /\ Len(tasks) + 1 \in 1..(Len(tasks) + 1)
      BY <1>1
    <3> QED
      BY <2>2, <2>3, <3>1 DEF Range
  <2>6. tasks # <<>> => tasks' # <<>> /\ Head(tasks') = Head(tasks)
    BY <1>1, <2>1
  <2> QED
    BY <2>2, <2>4, <2>5, <2>6
<1> QED
  BY <1>2, <1>3

LEMMA TasksTail ==
  ASSUME TypeOK, tasks # <<>>
  PROVE  /\ Head(tasks) \in User
         /\ Tail(tasks) \in Seq(User) /\ IsInjective(Tail(tasks))
         /\ Range(Tail(tasks)) = Range(tasks) \ {Head(tasks)}
<1>1. /\ tasks \in Seq(User) /\ IsInjective(tasks) /\ Len(tasks) \in Nat /\ Len(tasks) # 0
      /\ DOMAIN tasks = 1..Len(tasks)
  BY DEF TypeOK
<1>2. /\ Head(tasks) = tasks[1] /\ Tail(tasks) \in Seq(User) /\ Len(Tail(tasks)) = Len(tasks) - 1
      /\ DOMAIN Tail(tasks) = 1..(Len(tasks) - 1)
      /\ \A i \in 1..(Len(tasks) - 1) : Tail(tasks)[i] = tasks[i + 1]
  BY <1>1
<1>3. \A i \in 1..(Len(tasks) - 1) : i + 1 \in 1..Len(tasks) /\ i + 1 # 1
  BY <1>1
<1>4. \A i \in 1..Len(tasks) : i = 1 \/ (i - 1 \in 1..(Len(tasks) - 1) /\ (i - 1) + 1 = i)
  BY <1>1
<1>5. 1 \in 1..Len(tasks)
  BY <1>1
<1>6. IsInjective(Tail(tasks))
  <2> SUFFICES ASSUME NEW i \in 1..(Len(tasks) - 1), NEW j \in 1..(Len(tasks) - 1),
                      Tail(tasks)[i] = Tail(tasks)[j]
               PROVE  i = j
    BY <1>2 DEF IsInjective
  <2>1. tasks[i + 1] = tasks[j + 1]
    BY <1>2
  <2>2. i + 1 = j + 1
    BY <1>1, <1>3, <2>1 DEF IsInjective
  <2> QED
    BY <1>1, <2>2
<1>7. Range(Tail(tasks)) = Range(tasks) \ {Head(tasks)}
  <2>1. ASSUME NEW x \in Range(Tail(tasks)) PROVE x \in Range(tasks) /\ x # Head(tasks)
    <3>1. PICK i \in 1..(Len(tasks) - 1) : x = tasks[i + 1]
      BY <1>2 DEF Range
    <3> QED
      BY <1>1, <1>2, <1>3, <1>5, <3>1 DEF Range, IsInjective
  <2>2. ASSUME NEW x \in Range(tasks), x # Head(tasks) PROVE x \in Range(Tail(tasks))
    <3>1. PICK i \in 1..Len(tasks) : x = tasks[i] /\ i # 1
      BY <1>1, <1>2, <2>2 DEF Range
    <3>2. i - 1 \in 1..(Len(tasks) - 1) /\ Tail(tasks)[i - 1] = x
      BY <1>2, <1>4, <3>1
    <3> QED
      BY <1>2, <3>2 DEF Range
  <2> QED
    BY <2>1, <2>2
<1>8. Head(tasks) \in User
  BY <1>1
<1> QED
  BY <1>2, <1>6, <1>7, <1>8

-----------------------------------------------------------------------------
(* Type correctness.                                                       *)

LEMMA InitType == Init => TypeOK
<1>1. NoSweep \in [todo : SUBSET User, at : User \cup {NoUser}] /\ Queued \in Job
  BY DEF NoSweep, Queued, Job
<1>2. <<>> \in Seq(User) /\ IsInjective(<<>>) /\ <<>> \in Seq(Op)
  BY DEF IsInjective
<1> QED
  BY <1>1, <1>2, NoRowsType DEF Init, TypeOK

(* A refresh that settles, well or not. *)
LEMMA SettleType ==
  ASSUME TypeOK, tasks # <<>>, NEW pair \in Pair \cup {NoPair}, Settle(pair)
  PROVE  /\ tasks' \in Seq(User) /\ IsInjective(tasks)'
         /\ job' \in Job
         /\ sweep' \in [todo : SUBSET User, at : User \cup {NoUser}]
         /\ requests' \in [Request -> {Done} \cup [stage : {"waiting"}, token : Token, user : User]
                                     \cup [stage : {"calling"}, token : Token, pair : Pair]]
<1>1. tasks' \in Seq(User) /\ IsInjective(tasks)'
  BY TasksTail DEF Settle
<1>2. job' \in Job
  BY DEF Settle, Queued, Job
<1>3. sweep' \in [todo : SUBSET User, at : User \cup {NoUser}]
  BY DEF Settle, Resume, TypeOK
<1>4. ASSUME NEW r \in Request, requests[r].stage = "waiting", pair # NoPair
      PROVE  [stage |-> "calling", token |-> requests[r].token, pair |-> pair]
               \in [stage : {"calling"}, token : Token, pair : Pair]
  <2>1. requests[r] \in {Done} \cup [stage : {"waiting"}, token : Token, user : User]
                               \cup [stage : {"calling"}, token : Token, pair : Pair]
    BY DEF TypeOK
  <2>2. requests[r].token \in Token
    BY <1>4, <2>1 DEF Done
  <2> QED
    BY <1>4, <2>2
<1>5. requests' \in [Request -> {Done} \cup [stage : {"waiting"}, token : Token, user : User]
                                    \cup [stage : {"calling"}, token : Token, pair : Pair]]
  BY <1>4 DEF Settle, Resume, TypeOK
<1> QED
  BY <1>1, <1>2, <1>3, <1>5

LEMMA HeadOp ==
  ASSUME TypeOK, writes # <<>>
  PROVE  Head(writes) \in Op /\ Head(writes) = writes[1] /\ 1 \in 1..Len(writes) /\ Tail(writes) \in Seq(Op)
BY QueueHead DEF TypeOK

(* The refresh whose write is at the head of the queue. *)
LEMMA HeadOfJob ==
  ASSUME TypeOK, JobInv, JobWriteInv, writes # <<>>, OfJob(Head(writes))
  PROVE  /\ job.stage = "storing" /\ tasks # <<>> /\ job.spent \in Pair /\ job.got \in Pair \cup {NoPair}
         /\ Head(writes).user = Head(tasks) /\ Head(writes).spent = job.spent
         /\ Head(writes).kind = "update" => job.got # NoPair /\ Head(writes).pair = job.got
         /\ Head(writes).kind = "bury" => job.got = NoPair
<1>1. job.stage = "storing"
  BY HeadOp DEF JobWriteInv
<1> QED
  BY <1>1, HeadOp DEF JobInv, JobWriteInv, TypeOK, Job

(* What a caller ends upstream, or leaves behind, are pairs and sessions. *)
LEMMA ReleasedType ==
  ASSUME TypeOK, ReferentialIntegrity(rows), NEW op \in Op
  PROVE  Released(op) \subseteq Pair
<1>1. CASE op.kind = "attach"
  <2>1. op.pair \in Pair
    BY <1>1, OpFields DEF AttachOp
  <2> QED
    BY <1>1, <2>1 DEF Released
<1>2. CASE op.kind = "remove" /\ RemoveApplies(rows, op)
  <2> DEFINE u == rows.devices[op.token]
  <2>1. op.token \in Token /\ u # NoUser
    BY <1>2, OpFields DEF RemoveApplies
  <2>2. u \in User /\ rows.chains[u] # NoChain
    BY <2>1 DEF TypeOK, Rows, ReferentialIntegrity, DevicesHaveChains
  <2>3. rows.chains[u].pair \in Pair
    BY <2>2, StoredType DEF Chained, PairOf
  <2> QED
    BY <1>2, <2>3 DEF Released
<1>3. CASE op.kind # "attach" /\ ~(op.kind = "remove" /\ RemoveApplies(rows, op))
  BY <1>3 DEF Released
<1> QED
  BY <1>1, <1>2, <1>3

LEMMA AbandonedType ==
  ASSUME TypeOK, UpstreamInv, NEW op \in Op
  PROVE  Abandoned(op) \subseteq Pair
<1>1. CASE op.kind = "attach" /\ HasDeadChain(rows, op.user)
  <2>1. op.user \in User /\ Chained(op.user)
    BY <1>1, OpFields DEF HasDeadChain, Chained
  <2>2. root[PairOf(op.user)] \in Pair
    BY <2>1, Stored DEF UpstreamInv
  <2> QED
    BY <1>1, <2>2 DEF Abandoned, PairOf
<1>2. CASE ~(op.kind = "attach" /\ HasDeadChain(rows, op.user))
  BY <1>2 DEF Abandoned
<1> QED
  BY <1>1, <1>2

LEMMA StepType ==
  TypeOK /\ ReferentialIntegrity(rows) /\ JobInv /\ JobWriteInv /\ UpstreamInv /\ [Next]_vars => TypeOK'
<1> SUFFICES ASSUME TypeOK, ReferentialIntegrity(rows), JobInv, JobWriteInv, UpstreamInv, [Next]_vars
             PROVE  TypeOK'
  OBVIOUS
<1>0. CASE UNCHANGED vars
  BY <1>0 DEF vars, absVars, ghosts, TypeOK
<1>1. CASE Revoke \/ Age
  BY <1>1, StoredType DEF Revoke, Age, absVars, ghosts, TypeOK
<1>2. ASSUME NEW t \in NewTokens, NEW u \in User, NEW p \in NewPairs, SignIn(t, u, p) PROVE TypeOK'
  <2>1. t \in Token /\ p \in Pair
    BY NewToken, NewPair
  <2>2. [kind |-> "attach", token |-> t, user |-> u, pair |-> p] \in Op
    BY <2>1 DEF Op, AttachOp
  <2>3. writes' \in Seq(Op)
    BY <1>2, <2>2, QueueAppend DEF SignIn, TypeOK
  <2>4. root' \in [Pair -> Pair \cup {NoPair}] /\ near' \subseteq Pair /\ excused' \subseteq Pair
    BY <1>2, <2>1 DEF SignIn, Mint, TypeOK
  <2> QED
    BY <1>2, <2>1, <2>3, <2>4 DEF SignIn, TypeOK
<1>3. ASSUME NEW t \in Token, SignOut(t) PROVE TypeOK'
  <2>1. [kind |-> "remove", token |-> t, user |-> NoUser] \in Op
    BY DEF Op, RemoveOp
  <2>2. writes' \in Seq(Op)
    BY <1>3, <2>1, QueueAppend DEF SignOut, TypeOK
  <2> QED
    BY <1>3, <2>2 DEF SignOut, absVars, ghosts, TypeOK
<1>4. ASSUME NEW r \in Request, NEW t \in Token, RequestBegins(r, t) PROVE TypeOK'
  <2> DEFINE u == rows.devices[t]
             pair == rows.chains[u].pair
  <2>1. u \in User /\ pair \in Pair
    <3>1. u \in User /\ Chained(u)
      BY <1>4 DEF RequestBegins, Resolves, HasLiveChain, Chained, TypeOK, Rows
    <3> QED
      BY <3>1, StoredType DEF PairOf
  <2>2. tasks' \in Seq(User) /\ IsInjective(tasks)'
    <3>1. Join(u) \/ UNCHANGED tasks
      BY <1>4 DEF RequestBegins
    <3> QED
      BY <2>1, <3>1, JoinTasks DEF TypeOK
  <2>3. requests' \in [Request -> {Done} \cup [stage : {"waiting"}, token : Token, user : User]
                                      \cup [stage : {"calling"}, token : Token, pair : Pair]]
    BY <1>4, <2>1 DEF RequestBegins, TypeOK
  <2> QED
    BY <1>4, <2>2, <2>3 DEF RequestBegins, absVars, ghosts, TypeOK
<1>5. CASE Sweep
  <2>1. sweep' \in [todo : SUBSET User, at : User \cup {NoUser}]
    BY <1>5 DEF Sweep, NoSweep, LiveUsers
  <2> QED
    BY <1>5, <2>1 DEF Sweep, absVars, ghosts, TypeOK
<1>6. ASSUME NEW u \in User, SweepNext(u) PROVE TypeOK'
  <2>1. tasks' \in Seq(User) /\ IsInjective(tasks)'
    BY <1>6, JoinTasks DEF SweepNext
  <2>2. sweep' \in [todo : SUBSET User, at : User \cup {NoUser}]
    BY <1>6 DEF SweepNext, TypeOK
  <2> QED
    BY <1>6, <2>1, <2>2 DEF SweepNext, absVars, ghosts, TypeOK
<1>7. CASE RefreshBegins
  <2>1. CASE HasLiveChain(rows, Head(tasks))
    <3>1. Head(tasks) \in User /\ Chained(Head(tasks))
      BY <1>7, <2>1, TasksTail DEF RefreshBegins, HasLiveChain, Chained
    <3>2. job' \in Job
      BY <1>7, <2>1, <3>1, StoredType DEF RefreshBegins, Job, PairOf
    <3> QED
      BY <1>7, <2>1, <3>2 DEF RefreshBegins, absVars, ghosts, TypeOK
  <2>2. CASE ~HasLiveChain(rows, Head(tasks))
    <3>1. tasks # <<>> /\ Settle(NoPair) /\ UNCHANGED <<phase, rows, writes, ending, absVars, ghosts>>
      BY <1>7, <2>2 DEF RefreshBegins
    <3> QED
      BY <3>1, SettleType DEF absVars, ghosts, TypeOK
  <2> QED
    BY <2>1, <2>2
<1>8. ASSUME NEW q \in NewPairs, AbsRotates(q) PROVE TypeOK'
  <2>1. q \in Pair
    BY NewPair
  <2>2. root' \in [Pair -> Pair \cup {NoPair}] /\ near' \subseteq Pair /\ excused' \subseteq Pair
    BY <1>8, <2>1 DEF AbsRotates, Mint, TypeOK
  <2>3. job' \in Job /\ current' \subseteq Pair
    BY <1>8, <2>1 DEF AbsRotates, TypeOK, Job
  <2> QED
    BY <1>8, <2>2, <2>3 DEF AbsRotates, TypeOK
<1>9. CASE RefreshAnswered \/ RefreshRefused
  <2>1. tasks # <<>> /\ job.spent \in Pair /\ (job.stage = "rotated" => job.got \in Pair)
    BY <1>9 DEF RefreshAnswered, RefreshRefused, JobInv
  <2>2. Head(tasks) \in User
    BY <2>1, TasksTail
  <2>3. /\ job.stage = "rotated" =>
             [kind |-> "update", user |-> Head(tasks), pair |-> job.got, spent |-> job.spent] \in Op
        /\ [kind |-> "bury", user |-> Head(tasks), spent |-> job.spent] \in Op
    BY <2>1, <2>2 DEF Op, UpdateOp, BuryOp
  <2>4. writes' \in Seq(Op)
    <3>1. \A op \in Op : Append(writes, op) \in Seq(Op)
      BY DEF TypeOK
    <3>2. CASE RefreshAnswered
      BY <2>3, <3>1, <3>2, Zenon DEF RefreshAnswered
    <3>3. CASE RefreshRefused
      BY <2>3, <3>1, <3>3, Zenon DEF RefreshRefused
    <3> QED
      BY <1>9, <3>2, <3>3
  <2>5. job' \in Job
    BY <1>9 DEF RefreshAnswered, RefreshRefused, TypeOK, Job
  <2> QED
    BY <1>9, <2>4, <2>5 DEF RefreshAnswered, RefreshRefused, absVars, ghosts, TypeOK
<1>10. CASE RefreshTimesOut
  <2>1. tasks # <<>> /\ job.spent \in Pair
    BY <1>10 DEF RefreshTimesOut, JobInv
  <2>2. Settle(NoPair) /\ UNCHANGED <<phase, rows, writes, ending, absVars, idle>>
        /\ excused' \subseteq Pair
    BY <1>10, <2>1 DEF RefreshTimesOut, TypeOK
  <2> QED
    BY <2>1, <2>2, SettleType DEF absVars, TypeOK
<1>11. ASSUME NEW r \in Request, RequestSucceeds(r) PROVE TypeOK'
  BY <1>11 DEF RequestSucceeds, absVars, ghosts, TypeOK
<1>12. ASSUME NEW r \in Request, RequestRefused(r) PROVE TypeOK'
  <2>1. writes' \in Seq(Op)
    <3>1. CASE Resolves(requests[r].token)
      <4>1. requests[r].token \in Token
        BY <1>12 DEF RequestRefused, TypeOK, Done
      <4>2. rows.devices[requests[r].token] \in User
        BY <3>1, <4>1 DEF Resolves, TypeOK, Rows
      <4>3. [kind |-> "bury", user |-> rows.devices[requests[r].token], spent |-> NoPair] \in Op
        BY <4>2 DEF Op, BuryOp
      <4>4. \A op \in Op : Append(writes, op) \in Seq(Op)
        BY DEF TypeOK
      <4> QED
        BY <1>12, <3>1, <4>3, <4>4, Zenon DEF RequestRefused
    <3>2. CASE ~Resolves(requests[r].token)
      BY <1>12, <3>2 DEF RequestRefused, TypeOK
    <3> QED
      BY <3>1, <3>2
  <2>2. requests' = [requests EXCEPT ![r] = Done]
    BY <1>12 DEF RequestRefused
  <2> QED
    BY <1>12, <2>1, <2>2 DEF RequestRefused, absVars, ghosts, TypeOK
<1>13. ASSUME NEW p \in Pair, LogoutSettles(p) PROVE TypeOK'
  <2>1. Alive(root[p]) => root[p] \in Pair
    BY DEF Alive, UpstreamInv
  <2>2. current' \subseteq Pair /\ idle' \subseteq Pair /\ ending' \subseteq Pair
    BY <1>13, <2>1 DEF LogoutSettles, TypeOK
  <2> QED
    BY <1>13, <2>2 DEF LogoutSettles, TypeOK
<1>14. CASE WriteLands
  <2> DEFINE op == Head(writes)
  <2>1. writes # <<>> /\ op \in Op /\ writes' \in Seq(Op)
    BY <1>14, HeadOp DEF WriteLands
  <2>2. rows' \in Rows
    <3>1. rows' = IF Applies(rows, op) THEN Change(rows, op) ELSE rows
      BY <1>14 DEF WriteLands
    <3> QED
      BY <2>1, <3>1, ChangeType DEF TypeOK
  <2>3. ending' \subseteq Pair
    BY <1>14, <2>1, ReleasedType DEF WriteLands, TypeOK
  <2>4. idle' \subseteq Pair
    BY <1>14, <2>1, AbandonedType DEF WriteLands, TypeOK
  <2>5. /\ tasks' \in Seq(User) /\ IsInjective(tasks)'
        /\ job' \in Job
        /\ sweep' \in [todo : SUBSET User, at : User \cup {NoUser}]
        /\ requests' \in [Request -> {Done} \cup [stage : {"waiting"}, token : Token, user : User]
                                     \cup [stage : {"calling"}, token : Token, pair : Pair]]
    <3>1. CASE OfJob(op)
      <4>1. Settle(job.got)
        BY <1>14, <3>1 DEF WriteLands
      <4> QED
        BY <2>1, <3>1, <4>1, HeadOfJob, SettleType
    <3>2. CASE ~OfJob(op)
      BY <1>14, <3>2 DEF WriteLands, TypeOK
    <3> QED
      BY <3>1, <3>2
  <2>6. UNCHANGED <<phase, root, current, near, excused>>
    BY <1>14 DEF WriteLands, absVars
  <2> QED
    BY <2>1, <2>2, <2>3, <2>4, <2>5, <2>6 DEF TypeOK
<1>15. CASE WriteFails
  <2> DEFINE op == Head(writes)
  <2>1. writes # <<>> /\ op \in Op /\ writes' \in Seq(Op)
    BY <1>15, HeadOp DEF WriteFails
  <2>3. excused' \subseteq Pair
    <3>1. op.kind = "update" => op.spent \in Pair
      BY <2>1, HeadOfJob DEF OfJob
    <3> QED
      BY <1>15, <3>1 DEF WriteFails, TypeOK
  <2>4. idle' \subseteq Pair
    <3>1. op.kind = "attach" => op.pair \in Pair
      BY <2>1, OpFields DEF AttachOp
    <3> QED
      BY <1>15, <3>1 DEF WriteFails, TypeOK
  <2>5. /\ tasks' \in Seq(User) /\ IsInjective(tasks)'
        /\ job' \in Job
        /\ sweep' \in [todo : SUBSET User, at : User \cup {NoUser}]
        /\ requests' \in [Request -> {Done} \cup [stage : {"waiting"}, token : Token, user : User]
                                     \cup [stage : {"calling"}, token : Token, pair : Pair]]
    <3>1. CASE OfJob(op)
      <4>1. Settle(NoPair)
        BY <1>15, <3>1 DEF WriteFails
      <4> QED
        BY <2>1, <3>1, <4>1, HeadOfJob, SettleType
    <3>2. CASE ~OfJob(op)
      BY <1>15, <3>2 DEF WriteFails, TypeOK
    <3> QED
      BY <3>1, <3>2
  <2>6. UNCHANGED <<phase, rows, ending, root, current, near>>
    BY <1>15 DEF WriteFails, absVars
  <2> QED
    BY <2>1, <2>3, <2>4, <2>5, <2>6 DEF TypeOK
<1>16. CASE Crash \/ Exit
  <2>1. Halt
    BY <1>16 DEF Crash, Exit
  <2>2. excused' \subseteq Pair
    <3>1. job.got # NoPair => job.spent \in Pair
      BY DEF JobInv, Queued
    <3> QED
      BY <1>16, <3>1 DEF Crash, Exit, TypeOK
  <2>3. NoSweep \in [todo : SUBSET User, at : User \cup {NoUser}] /\ Queued \in Job
    BY DEF NoSweep, Queued, Job
  <2>4. <<>> \in Seq(User) /\ IsInjective(<<>>) /\ <<>> \in Seq(Op)
    BY DEF IsInjective
  <2>5. /\ phase' = "down" /\ writes' = <<>> /\ tasks' = <<>> /\ job' = Queued /\ sweep' = NoSweep
        /\ requests' = [r \in Request |-> Done] /\ ending' = {}
        /\ idle' \subseteq idle \cup Pair /\ UNCHANGED <<rows, root, current, near>>
    BY <2>1 DEF Halt, absVars
  <2> QED
    BY <2>2, <2>3, <2>4, <2>5 DEF TypeOK
<1>17. CASE Stop \/ Drained
  BY <1>17 DEF Stop, Drained, absVars, ghosts, TypeOK
<1>18. CASE Boot
  <2>1. sweep' \in [todo : SUBSET User, at : User \cup {NoUser}]
    BY <1>18 DEF Boot, NoSweep, LiveUsers
  <2> QED
    BY <1>18, <2>1 DEF Boot, absVars, ghosts, TypeOK
<1> QED
  BY <1>0, <1>1, <1>2, <1>3, <1>4, <1>5, <1>6, <1>7, <1>8, <1>9, <1>10, <1>11, <1>12, <1>13, <1>14,
     <1>15, <1>16, <1>17, <1>18
  DEF Next, NextUnrefused, External, Clients, Refreshing, Answering, Writing, Process

-----------------------------------------------------------------------------
(* What the steps share.  Most of them take nothing from Audiobookshelf,   *)
(* and from the server's state only: the queue of mutations shrinks, a     *)
(* mutation brings one pair at most into the rows, and the running refresh *)
(* goes on as it is or ends.                                               *)

Core ==
  /\ JobInv
  /\ JobWriteInv
  /\ FreshInv
  /\ OwnerInv
  /\ UpstreamInv
  /\ SpentPairsAreAccountedFor

(* Every chain of the new rows is one of the old, or holds a pair of W. *)
RowsBring(W) ==
  /\ \A u \in User : Chained(u)' =>
       \/ /\ Chained(u) /\ PairOf(u)' = PairOf(u)
          /\ HasLiveChain(rows', u) => HasLiveChain(rows, u)
       \/ PairOf(u)' \in W
  /\ \A u \in User : \A v \in User :
       Chained(u)' /\ Chained(v)' /\ PairOf(u)' \in W /\ PairOf(v)' \in W => u = v
  /\ \A w \in W : /\ root[w] \in Pair
                  /\ Alive(root[w]) => w \in current
                  /\ w \notin StoredPairs

(* Mutations leave the queue at its head, or all at once. *)
QueueShrinks(W) ==
  /\ writes' \in {writes, <<>>} \/ (writes # <<>> /\ writes' = Tail(writes))
  /\ \A i \in 1..Len(writes') : writes'[i].kind = "attach" =>
       rows'.devices[writes'[i].token] = NoUser /\ writes'[i].pair \notin W

RefreshGoesOn(W) ==
  /\ job' = job
  /\ tasks # <<>> => tasks' # <<>> /\ Head(tasks') = Head(tasks)
  /\ job.spent \notin W /\ job.got \notin W

RefreshEnds(W) ==
  /\ job' = Queued
  /\ \A i \in 1..Len(writes') : ~OfJob(writes'[i])
  /\ job.got # NoPair =>
       \A u \in User : HasLiveChain(rows', u) /\ PairOf(u)' = job.spent =>
         job.spent \in W \cup current \cup excused'

LEMMA Shrunk ==
  ASSUME TypeOK, NEW W, QueueShrinks(W)
  PROVE  \E d \in {0, 1} : \A i \in 1..Len(writes') :
           i + d \in 1..Len(writes) /\ writes'[i] = writes[i + d]
<1>1. CASE writes' = writes
  <2>1. \A i \in 1..Len(writes') : i + 0 \in 1..Len(writes) /\ writes'[i] = writes[i + 0]
    BY <1>1 DEF TypeOK
  <2> QED
    BY <2>1
<1>2. CASE writes' = <<>>
  <2>1. \A i \in 1..Len(writes') : FALSE
    BY <1>2
  <2> QED
    BY <2>1
<1>3. CASE writes # <<>> /\ writes' = Tail(writes)
  <2>1. \A i \in 1..Len(writes') : i + 1 \in 1..Len(writes) /\ writes'[i] = writes[i + 1]
    BY <1>3, QueueTail DEF TypeOK
  <2> QED
    BY <2>1
<1> QED
  BY <1>1, <1>2, <1>3 DEF QueueShrinks

LEMMA Landing ==
  ASSUME TypeOK, TypeOK', Core, NEW W \in SUBSET Pair,
         UNCHANGED <<root, current>>, excused \subseteq excused',
         RowsBring(W), QueueShrinks(W), RefreshGoesOn(W) \/ RefreshEnds(W)
  PROVE  Core'
<1>q. PICK d \in {0, 1} : \A i \in 1..Len(writes') : i + d \in 1..Len(writes) /\ writes'[i] = writes[i + d]
  BY Shrunk
<1>d. \A i \in 1..Len(writes') : \A j \in 1..Len(writes') : i + d = j + d => i = j
  OBVIOUS
<1>p. /\ NoPair \notin Pair /\ NoPair \notin W
      /\ \A u \in User : Chained(u)' => PairOf(u)' \in Pair
      /\ Queued.stage = "queued" /\ Queued.spent = NoPair /\ Queued.got = NoPair
  <2>1. \A u \in User : Chained(u)' => PairOf(u)' \in Pair
    BY DEF TypeOK, Chained, PairOf, Rows, Chain
  <2> QED
    BY <2>1, NoRowAssumption DEF Queued
<1>s. \A p \in StoredPairs' : p \in StoredPairs \cup W
  <2>1. \A p \in StoredPairs' : \E u \in User : Chained(u)' /\ PairOf(u)' = p
    BY DEF StoredPairs, Chained, PairOf
  <2> QED
    BY <2>1, Stored DEF RowsBring
<1>1. JobInv'
  <2>1. CASE RefreshGoesOn(W)
    BY <2>1 DEF Core, JobInv, RefreshGoesOn
  <2>2. CASE RefreshEnds(W)
    BY <2>2, <1>p DEF JobInv, RefreshEnds
  <2> QED
    BY <2>1, <2>2
<1>2. JobWriteInv'
  <2>1. CASE RefreshGoesOn(W)
    <3>0. job' = job /\ (job.stage = "storing" => Head(tasks') = Head(tasks))
      BY <2>1 DEF RefreshGoesOn, Core, JobInv
    <3>1. ASSUME NEW i \in 1..Len(writes'), OfJob(writes'[i])
          PROVE  /\ job'.stage = "storing"
                 /\ writes'[i].user = Head(tasks')
                 /\ writes'[i].spent = job'.spent
                 /\ writes'[i].kind = "update" => job'.got # NoPair /\ writes'[i].pair = job'.got
                 /\ writes'[i].kind = "bury" => job'.got = NoPair
      <4>1. i + d \in 1..Len(writes) /\ writes'[i] = writes[i + d] /\ OfJob(writes[i + d])
        BY <3>1, <1>q DEF OfJob
      <4> QED
        BY <3>0, <4>1 DEF Core, JobWriteInv
    <3>2. ASSUME NEW i \in 1..Len(writes'), NEW j \in 1..Len(writes'),
                 OfJob(writes'[i]), OfJob(writes'[j])
          PROVE  i = j
      <4>1. /\ i + d \in 1..Len(writes) /\ j + d \in 1..Len(writes)
            /\ OfJob(writes[i + d]) /\ OfJob(writes[j + d])
        BY <3>2, <1>q
      <4>2. i + d = j + d
        BY <4>1 DEF Core, JobWriteInv
      <4> QED
        BY <4>2, <1>d
    <3> QED
      BY <3>1, <3>2 DEF JobWriteInv, OfJob
  <2>2. CASE RefreshEnds(W)
    BY <2>2 DEF JobWriteInv, RefreshEnds, OfJob
  <2> QED
    BY <2>1, <2>2
<1>3. FreshInv'
  <2>1. ASSUME NEW i \in 1..Len(writes'), writes'[i].kind = "attach"
        PROVE  /\ rows'.devices[writes'[i].token] = NoUser
               /\ root'[writes'[i].pair] = writes'[i].pair
               /\ Alive(writes[i].pair)' => writes'[i].pair \in current'
               /\ writes'[i].pair \notin StoredPairs' \cup {job'.spent, job'.got}
    <3>1. i + d \in 1..Len(writes) /\ writes'[i] = writes[i + d]
      BY <1>q
    <3>2. /\ root[writes'[i].pair] = writes'[i].pair
          /\ Alive(writes'[i].pair) => writes'[i].pair \in current
          /\ writes'[i].pair \notin StoredPairs \cup {job.spent, job.got}
      BY <2>1, <3>1 DEF Core, FreshInv
    <3>3. rows'.devices[writes'[i].token] = NoUser /\ writes'[i].pair \notin W
      BY <2>1 DEF QueueShrinks
    <3>4. writes'[i].pair \in Pair
      <4>1. writes'[i] \in Op
        BY DEF TypeOK
      <4> QED
        BY <2>1, <4>1, OpFields DEF AttachOp
    <3>5. writes'[i].pair \notin {job'.spent, job'.got}
      BY <3>2, <3>4, <1>p DEF RefreshGoesOn, RefreshEnds
    <3> QED
      BY <3>2, <3>3, <3>5, <1>s DEF Alive
  <2>2. ASSUME NEW i \in 1..Len(writes'), NEW j \in 1..Len(writes'),
               writes'[i].kind = "attach", writes'[j].kind = "attach", i # j
        PROVE  writes'[i].token # writes'[j].token /\ writes'[i].pair # writes'[j].pair
    <3>1. /\ i + d \in 1..Len(writes) /\ writes'[i] = writes[i + d]
          /\ j + d \in 1..Len(writes) /\ writes'[j] = writes[j + d]
      BY <1>q
    <3>2. i + d # j + d
      BY <1>d, <2>2
    <3>3. \A k \in 1..Len(writes) : \A l \in 1..Len(writes) :
             writes[k].kind = "attach" /\ writes[l].kind = "attach" /\ k # l =>
               writes[k].token # writes[l].token /\ writes[k].pair # writes[l].pair
      BY DEF Core, FreshInv
    <3> QED
      BY <2>2, <3>1, <3>2, <3>3, Zenon
  <2> QED
    BY <2>1, <2>2 DEF FreshInv
<1>4. OwnerInv'
  <2>1. ASSUME NEW u \in User, NEW v \in User, Chained(u)', Chained(v)', PairOf(u)' = PairOf(v)'
        PROVE  u = v
    <3>1. CASE PairOf(u)' \in W
      BY <2>1, <3>1 DEF RowsBring
    <3>2. CASE PairOf(u)' \notin W
      BY <2>1, <3>2 DEF RowsBring, Core, OwnerInv
    <3> QED
      BY <3>1, <3>2
  <2>2. ASSUME NEW u \in User, Chained(u)', PairOf(u)' = job'.spent
        PROVE  u = Head(tasks')
    <3>1. job'.spent # NoPair
      BY <2>2, <1>p
    <3>2. RefreshGoesOn(W) /\ job.stage # "queued"
      BY <3>1, <1>p DEF RefreshEnds, RefreshGoesOn, Core, JobInv
    <3>3. Head(tasks') = Head(tasks) /\ PairOf(u)' \notin W
      BY <2>2, <3>2 DEF RefreshGoesOn, Core, JobInv
    <3>4. Chained(u) /\ PairOf(u) = job.spent
      BY <2>2, <3>2, <3>3 DEF RowsBring, RefreshGoesOn
    <3> QED
      BY <3>3, <3>4 DEF Core, OwnerInv
  <2>3. job'.got \notin StoredPairs'
    <3>1. NoPair \notin StoredPairs
      BY <1>p, StoredType
    <3> QED
      BY <3>1, <1>s, <1>p DEF RefreshEnds, RefreshGoesOn, Core, OwnerInv
  <2> QED
    BY <2>1, <2>2, <2>3 DEF OwnerInv
<1>5. UpstreamInv'
  <2>1. \A p \in StoredPairs' \cup current' : root'[p] \in Pair
    BY <1>s DEF Core, UpstreamInv, RowsBring
  <2>2. \A p \in current' : \A q \in current' : root'[p] = root'[q] => p = q
    BY DEF Core, UpstreamInv
  <2>3. /\ job'.spent # NoPair => root'[job'.spent] \in Pair
        /\ job'.got # NoPair => /\ root'[job'.got] = root'[job'.spent]
                                /\ Alive(root[job.got])' => job'.got \in current'
    BY <1>p DEF RefreshEnds, RefreshGoesOn, Core, UpstreamInv, Alive
  <2> QED
    BY <2>1, <2>2, <2>3 DEF UpstreamInv
<1>6. SpentPairsAreAccountedFor'
  <2> SUFFICES ASSUME NEW u \in User, HasLiveChain(rows', u), Alive(root[PairOf(u)'])
               PROVE  \/ PairOf(u)' \in current \cup excused'
                      \/ job'.spent = PairOf(u)' /\ job'.got # NoPair
    BY DEF SpentPairsAreAccountedFor, LiveUsers, PairOf, Alive
  <2>1. CASE PairOf(u)' \in W
    BY <2>1 DEF RowsBring
  <2>2. CASE PairOf(u)' \notin W
    <3>1. HasLiveChain(rows, u) /\ PairOf(u)' = PairOf(u)
      BY <2>2 DEF RowsBring, HasLiveChain, Chained
    <3>2. \/ PairOf(u) \in current \cup excused
          \/ job.spent = PairOf(u) /\ job.got # NoPair
      BY <3>1 DEF Core, SpentPairsAreAccountedFor, LiveUsers, PairOf
    <3> QED
      BY <2>2, <3>1, <3>2 DEF RefreshGoesOn, RefreshEnds
  <2> QED
    BY <2>1, <2>2
<1> QED
  BY <1>1, <1>2, <1>3, <1>4, <1>5, <1>6 DEF Core

(* The steps that leave the rows alone. *)
LEMMA RowsStay ==
  ASSUME TypeOK, TypeOK', Core, UNCHANGED <<rows, root, current>>, excused \subseteq excused',
         writes' \in {writes, <<>>} \/ (writes # <<>> /\ writes' = Tail(writes)),
         RefreshGoesOn({}) \/ RefreshEnds({})
  PROVE  Core'
<1>1. RowsBring({})
  BY DEF RowsBring, Chained, PairOf
<1>2. ASSUME NEW i \in 1..Len(writes'), writes'[i].kind = "attach"
      PROVE  rows'.devices[writes'[i].token] = NoUser
  <2>1. PICK j \in 1..Len(writes) : writes'[i] = writes[j]
    <3>1. CASE writes' = writes
      BY <3>1
    <3>2. CASE writes' = <<>>
      BY <3>2
    <3>3. CASE writes # <<>> /\ writes' = Tail(writes)
      BY <3>3, QueueTail DEF TypeOK
    <3> QED
      BY <3>1, <3>2, <3>3
  <2> QED
    BY <1>2, <2>1 DEF Core, FreshInv
<1>3. QueueShrinks({})
  BY <1>2 DEF QueueShrinks
<1> QED
  BY <1>1, <1>3, Landing

(* A session loses its pair: it is alive no longer, and only it. *)
LEMMA Ended ==
  ASSUME UpstreamInv, NEW p \in current, current' = current \ {p}, root' = root
  PROVE  \A s : Alive(s)' => Alive(s) /\ s # root[p]
BY DEF UpstreamInv, Alive

LEMMA SessionEnds ==
  ASSUME TypeOK, Core, NEW p \in current, current' = current \ {p},
         UNCHANGED <<rows, writes, tasks, job, root, excused>>
  PROVE  Core'
<1>a. \A s : Alive(s)' => Alive(s) /\ s # root[p]
  BY Ended DEF Core
<1>1. JobInv'
  BY DEF Core, JobInv
<1>2. JobWriteInv'
  BY DEF Core, JobWriteInv, OfJob
<1>3. FreshInv'
  <2>1. ASSUME NEW i \in 1..Len(writes), writes[i].kind = "attach", Alive(writes[i].pair)'
        PROVE  writes[i].pair \in current'
    BY <1>a, <2>1 DEF Core, FreshInv
  <2>2. StoredPairs' = StoredPairs
    BY DEF StoredPairs
  <2> QED
    BY <2>1, <2>2 DEF Core, FreshInv
<1>4. OwnerInv'
  BY DEF Core, OwnerInv, StoredPairs, Chained, PairOf
<1>5. UpstreamInv'
  <2>1. StoredPairs' = StoredPairs
    BY DEF StoredPairs
  <2>2. job.got # NoPair /\ Alive(root[job.got])' => job.got \in current'
    BY <1>a DEF Core, UpstreamInv
  <2> QED
    BY <2>1, <2>2 DEF Core, UpstreamInv
<1>6. SpentPairsAreAccountedFor'
  <2> SUFFICES ASSUME NEW u \in User, HasLiveChain(rows, u), Alive(root[PairOf(u)])'
               PROVE  \/ PairOf(u) \in current' \cup excused
                      \/ job.spent = PairOf(u) /\ job.got # NoPair
    BY DEF SpentPairsAreAccountedFor, LiveUsers, PairOf
  <2>1. Alive(root[PairOf(u)]) /\ PairOf(u) # p
    BY <1>a DEF PairOf
  <2> QED
    BY <2>1 DEF Core, SpentPairsAreAccountedFor, LiveUsers, PairOf
<1> QED
  BY <1>1, <1>2, <1>3, <1>4, <1>5, <1>6 DEF Core

(* A mutation that brings no bearer is queued: the running refresh's, or   *)
(* one that is not its.                                                    *)
LEMMA Queueing ==
  ASSUME TypeOK, Core, NEW op \in Op, op.kind # "attach", writes' = Append(writes, op),
         UNCHANGED <<rows, tasks, root, current, excused>>,
         \/ ~OfJob(op) /\ job' = job
         \/ /\ job.stage \in {"sent", "rotated"}
            /\ job' = [job EXCEPT !.stage = "storing"]
            /\ op.user = Head(tasks) /\ op.spent = job.spent
            /\ op.kind = "update" => job.stage = "rotated" /\ op.pair = job.got
            /\ op.kind = "bury" => job.stage = "sent" /\ job.spent \notin current
            /\ op.kind \in {"update", "bury"}
  PROVE  Core'
<1> DEFINE n == Len(writes) + 1
<1>q. /\ \A i \in 1..Len(writes) : i \in 1..Len(writes') /\ writes'[i] = writes[i] /\ i # n
      /\ writes'[n] = op
      /\ \A i \in 1..Len(writes') : i \in 1..Len(writes) \/ i = n
  BY QueueAppend DEF TypeOK
<1>j. /\ job'.spent = job.spent /\ job'.got = job.got
      /\ \/ job' = job /\ ~OfJob(op)
         \/ job.stage \in {"sent", "rotated"} /\ job'.stage = "storing"
  BY DEF TypeOK, Job
<1>a. \A s : Alive(s)' <=> Alive(s)
  BY DEF Alive
<1>s. StoredPairs' = StoredPairs
  BY DEF StoredPairs
<1>1. JobInv'
  <2>1. CASE job' = job
    BY <2>1 DEF Core, JobInv
  <2>2. CASE job.stage \in {"sent", "rotated"} /\ job'.stage = "storing"
    <3>1. job.stage = "sent" /\ op.kind = "bury" => job.spent \notin current
      BY <2>2 DEF OfJob
    <3>2. job.got = NoPair => job.spent \notin current
      BY <2>2, <3>1, NoRowAssumption DEF Core, JobInv, OfJob
    <3> QED
      BY <2>2, <3>2, <1>j DEF Core, JobInv
  <2> QED
    BY <2>1, <2>2, <1>j
<1>2. JobWriteInv'
  <2>1. CASE job' = job /\ ~OfJob(op)
    <3>1. \A i \in 1..Len(writes') : OfJob(writes'[i]) => i \in 1..Len(writes) /\ writes'[i] = writes[i]
      BY <2>1, <1>q
    <3> QED
      BY <2>1, <3>1 DEF Core, JobWriteInv, OfJob
  <2>2. CASE job.stage \in {"sent", "rotated"} /\ job'.stage = "storing"
    <3>1. \A i \in 1..Len(writes') : OfJob(writes'[i]) => i = n /\ writes'[i] = op
      BY <2>2, <1>q DEF Core, JobWriteInv
    <3>2. op.kind = "update" => job.got # NoPair
      BY <2>2, NoRowAssumption DEF Core, JobInv, OfJob
    <3>3. op.kind = "bury" => job.got = NoPair
      BY <2>2 DEF Core, JobInv, OfJob
    <3>4. OfJob(op) => op.user = Head(tasks) /\ op.spent = job.spent
                       /\ (op.kind = "update" => op.pair = job.got)
      BY <2>2
    <3> QED
      BY <2>2, <3>1, <3>2, <3>3, <3>4, <1>j DEF JobWriteInv, OfJob
  <2> QED
    BY <2>1, <2>2, <1>j
<1>3. FreshInv'
  <2>1. \A i \in 1..Len(writes') : writes'[i].kind = "attach" => i \in 1..Len(writes) /\ writes'[i] = writes[i]
    BY <1>q
  <2> QED
    BY <2>1, <1>j, <1>s, <1>a DEF Core, FreshInv, Alive
<1>4. OwnerInv'
  BY <1>j, <1>s DEF Core, OwnerInv, Chained, PairOf
<1>5. UpstreamInv'
  BY <1>j, <1>s, <1>a DEF Core, UpstreamInv, Alive
<1>6. SpentPairsAreAccountedFor'
  BY <1>j DEF Core, SpentPairsAreAccountedFor, LiveUsers, Alive
<1> QED
  BY <1>1, <1>2, <1>3, <1>4, <1>5, <1>6 DEF Core

-----------------------------------------------------------------------------
(* Steps of Audiobookshelf: a session opens, or moves on to a new pair.    *)

(* Whatever is held is another pair, of another session, and stays so. *)
LEMMA Minted ==
  ASSUME TypeOK, NEW q \in NewPairs, NEW s, Mint(q, s)
  PROVE  /\ q \in Pair /\ root'[q] = s
         /\ \A p \in Pair : p \in StoredPairs \cup current \cup ending \cup {job.spent, job.got} =>
              p # q /\ root'[p] = root[p] /\ root[p] # q
         /\ \A i \in 1..Len(writes) : writes[i].kind = "attach" =>
              /\ writes[i].pair # q /\ writes[i].pair \in Pair
              /\ root'[writes[i].pair] = root[writes[i].pair] /\ root[writes[i].pair] # q
         /\ \A p \in Pair \ {q} : p \in excused => p \in excused'
<1>1. root \in [Pair -> Pair \cup {NoPair}] /\ root' = [root EXCEPT ![q] = s] /\ excused' = excused \ {q}
  BY DEF TypeOK, Mint
<1>2. \A p \in Pair : p # q => root'[p] = root[p]
  BY <1>1
<1>3. q \in Pair /\ root'[q] = s
  BY <1>1, NewPair
<1>4. \A i \in 1..Len(writes) : writes[i].kind = "attach" => writes[i].pair \in Pair
  BY OpFields DEF TypeOK, AttachOp
<1> QED
  BY <1>1, <1>2, <1>3, <1>4, NewPair

LEMMA SessionOpens ==
  ASSUME TypeOK, NEW p \in NewPairs, Mint(p, p), current' = current \cup {p}
  PROVE  \A s : Alive(s)' <=> Alive(s) \/ s = p
<1>1. \A x \in current : root'[x] = root[x]
  BY Minted DEF TypeOK
<1>2. root'[p] = p
  BY Minted
<1> QED
  BY <1>1, <1>2 DEF Alive

LEMMA SignInCore ==
  ASSUME TypeOK, Core, NEW t \in NewTokens, NEW u \in User, NEW p \in NewPairs, SignIn(t, u, p)
  PROVE  Core'
<1> DEFINE op == [kind |-> "attach", token |-> t, user |-> u, pair |-> p]
           n  == Len(writes) + 1
<1>u. /\ Mint(p, p) /\ current' = current \cup {p} /\ UNCHANGED <<rows, tasks, job>>
      /\ writes' = Append(writes, op) \/ writes' = writes
  BY DEF SignIn
<1>m. /\ p \in Pair /\ root'[p] = p
      /\ \A x \in Pair : x \in StoredPairs \cup current \cup {job.spent, job.got} =>
           x # p /\ root'[x] = root[x] /\ root[x] # p
      /\ \A i \in 1..Len(writes) : writes[i].kind = "attach" =>
           /\ writes[i].pair # p /\ writes[i].pair \in Pair
           /\ root'[writes[i].pair] = root[writes[i].pair] /\ root[writes[i].pair] # p
      /\ \A x \in Pair \ {p} : x \in excused => x \in excused'
  BY <1>u, Minted
<1>n. /\ p \notin StoredPairs /\ p # job.spent /\ p # job.got
      /\ t \in Token /\ rows.devices[t] = NoUser
      /\ \A i \in 1..Len(writes) : writes[i].kind = "attach" => writes[i].token # t
  BY NewPair, NewToken
<1>a. \A s : Alive(s)' <=> Alive(s) \/ s = p
  BY <1>u, SessionOpens
<1>s. StoredPairs' = StoredPairs /\ StoredPairs \subseteq Pair /\ current \subseteq Pair
  BY <1>u, StoredType DEF StoredPairs, TypeOK
<1>q. /\ \A i \in 1..Len(writes') : \/ i \in 1..Len(writes) /\ writes'[i] = writes[i]
                                    \/ i = n /\ i \notin 1..Len(writes) /\ writes'[i] = op
  <2>1. op \in Op
    BY <1>m, <1>n DEF Op, AttachOp
  <2>2. Len(writes) \in Nat
    BY DEF TypeOK
  <2>3. n \notin 1..Len(writes)
    BY <2>2
  <2>4. CASE writes' = writes
    BY <2>4
  <2>5. CASE writes' = Append(writes, op)
    BY <2>1, <2>3, <2>5, QueueAppend DEF TypeOK
  <2> QED
    BY <1>u, <2>4, <2>5
<1>o. ~OfJob(op) /\ op.kind = "attach" /\ op.token = t /\ op.pair = p
  BY DEF OfJob
<1>1. JobInv'
  BY <1>u, <1>n DEF Core, JobInv
<1>2. JobWriteInv'
  <2>1. \A i \in 1..Len(writes') : OfJob(writes'[i]) => i \in 1..Len(writes) /\ writes'[i] = writes[i]
    BY <1>q, <1>o
  <2> QED
    BY <1>u, <2>1 DEF Core, JobWriteInv, OfJob
<1>3. FreshInv'
  <2>1. ASSUME NEW i \in 1..Len(writes'), writes'[i].kind = "attach"
        PROVE  /\ rows'.devices[writes'[i].token] = NoUser
               /\ root'[writes'[i].pair] = writes'[i].pair
               /\ Alive(writes[i].pair)' => writes'[i].pair \in current'
               /\ writes'[i].pair \notin StoredPairs' \cup {job'.spent, job'.got}
    <3>1. CASE i \in 1..Len(writes) /\ writes'[i] = writes[i]
      <4>1. /\ rows.devices[writes[i].token] = NoUser /\ root[writes[i].pair] = writes[i].pair
            /\ Alive(writes[i].pair) => writes[i].pair \in current
            /\ writes[i].pair \notin StoredPairs \cup {job.spent, job.got}
        BY <2>1, <3>1 DEF Core, FreshInv
      <4>2. writes[i].pair # p /\ root'[writes[i].pair] = root[writes[i].pair]
        BY <2>1, <3>1, <1>m
      <4>3. Alive(writes[i].pair)' => Alive(writes[i].pair)
        BY <3>1, <4>2, <1>a
      <4> QED
        BY <3>1, <4>1, <4>2, <4>3, <1>u, <1>s
    <3>2. CASE writes'[i] = op
      BY <3>2, <1>o, <1>u, <1>m, <1>n, <1>s
    <3> QED
      BY <3>1, <3>2, <1>q
  <2>2. ASSUME NEW i \in 1..Len(writes'), NEW j \in 1..Len(writes'),
               writes'[i].kind = "attach", writes'[j].kind = "attach", i # j
        PROVE  writes'[i].token # writes'[j].token /\ writes'[i].pair # writes'[j].pair
    <3>1. CASE i \in 1..Len(writes) /\ j \in 1..Len(writes) /\ writes'[i] = writes[i] /\ writes'[j] = writes[j]
      BY <2>2, <3>1 DEF Core, FreshInv
    <3>2. CASE i = n /\ writes'[i] = op /\ writes'[j] = writes[j] /\ j \in 1..Len(writes)
      BY <2>2, <3>2, <1>o, <1>m, <1>n
    <3>3. CASE j = n /\ writes'[j] = op /\ writes'[i] = writes[i] /\ i \in 1..Len(writes)
      BY <2>2, <3>3, <1>o, <1>m, <1>n
    <3> QED
      BY <3>1, <3>2, <3>3, <2>2, <1>q
  <2> QED
    BY <2>1, <2>2 DEF FreshInv
<1>4. OwnerInv'
  BY <1>u, <1>s DEF Core, OwnerInv, Chained, PairOf
<1>5. UpstreamInv'
  <2>1. \A x \in StoredPairs \cup current : root'[x] \in Pair
    BY <1>m, <1>s DEF Core, UpstreamInv
  <2>2. \A x \in current' : \A y \in current' : root'[x] = root'[y] => x = y
    BY <1>u, <1>m, <1>s DEF Core, UpstreamInv
  <2>3. /\ job.spent # NoPair => root'[job.spent] = root[job.spent] /\ root[job.spent] \in Pair
        /\ job.got # NoPair => root'[job.got] = root[job.got] /\ root[job.got] # p
    BY <1>m DEF Core, UpstreamInv, TypeOK, Job
  <2>4. job.got # NoPair => job.spent # NoPair
    BY NoRowAssumption DEF Core, JobInv, Queued
  <2>5. job.got # NoPair /\ Alive(root[job.got])' => job.got \in current'
    BY <1>a, <1>u, <2>3 DEF Core, UpstreamInv
  <2> QED
    BY <1>u, <1>s, <1>m, <2>1, <2>2, <2>3, <2>4, <2>5 DEF Core, UpstreamInv
<1>6. SpentPairsAreAccountedFor'
  <2> SUFFICES ASSUME NEW v \in User, HasLiveChain(rows, v), Alive(root[PairOf(v)])'
               PROVE  \/ PairOf(v) \in current' \cup excused'
                      \/ job.spent = PairOf(v) /\ job.got # NoPair
    BY <1>u DEF SpentPairsAreAccountedFor, LiveUsers, PairOf
  <2>1. PairOf(v) \in StoredPairs /\ PairOf(v)' = PairOf(v)
    BY <1>u, Stored DEF HasLiveChain, Chained, PairOf
  <2>2. PairOf(v) \in Pair /\ PairOf(v) # p /\ root'[PairOf(v)] = root[PairOf(v)] /\ root[PairOf(v)] # p
    BY <2>1, <1>m, <1>s
  <2>3. Alive(root[PairOf(v)])
    BY <1>a, <2>1, <2>2
  <2> QED
    BY <2>2, <2>3, <1>u, <1>m DEF Core, SpentPairsAreAccountedFor, LiveUsers, PairOf
<1> QED
  BY <1>1, <1>2, <1>3, <1>4, <1>5, <1>6 DEF Core

(* The refresh rotates its session's pair. *)
LEMMA SessionRenews ==
  ASSUME TypeOK, UpstreamInv, NEW q \in NewPairs, AbsRotates(q)
  PROVE  \A s : Alive(s)' <=> Alive(s)
<1>1. /\ job.spent \in current /\ current' = (current \ {job.spent}) \cup {q}
      /\ Mint(q, root[job.spent])
  BY DEF AbsRotates
<1>2. \A x \in current : root'[x] = root[x]
  BY <1>1, Minted DEF TypeOK
<1>3. root'[q] = root[job.spent]
  BY <1>1, Minted
<1> QED
  BY <1>1, <1>2, <1>3 DEF Alive

LEMMA RotateCore ==
  ASSUME TypeOK, Core, NEW q \in NewPairs, AbsRotates(q)
  PROVE  Core'
<1>u. /\ job.stage = "sent" /\ job.spent \in current /\ current' = (current \ {job.spent}) \cup {q}
      /\ Mint(q, root[job.spent]) /\ UNCHANGED <<rows, writes, tasks>>
  BY DEF AbsRotates
<1>j. job'.stage = "rotated" /\ job'.spent = job.spent /\ job'.got = q
  BY DEF AbsRotates, TypeOK, Job
<1>m. /\ q \in Pair /\ root'[q] = root[job.spent]
      /\ \A x \in Pair : x \in StoredPairs \cup current \cup {job.spent, job.got} =>
           x # q /\ root'[x] = root[x] /\ root[x] # q
      /\ \A i \in 1..Len(writes) : writes[i].kind = "attach" =>
           /\ writes[i].pair # q /\ root'[writes[i].pair] = root[writes[i].pair]
      /\ \A x \in Pair \ {q} : x \in excused => x \in excused'
  BY <1>u, Minted
<1>n. q \notin StoredPairs
  BY NewPair
<1>a. \A s : Alive(s)' <=> Alive(s)
  BY SessionRenews DEF Core
<1>s. StoredPairs' = StoredPairs /\ StoredPairs \subseteq Pair /\ current \subseteq Pair
  BY <1>u, StoredType DEF StoredPairs, TypeOK
<1>1. JobInv'
  BY <1>u, <1>j, <1>m DEF Core, JobInv
<1>2. JobWriteInv'
  BY <1>u DEF Core, JobWriteInv, OfJob
<1>3. FreshInv'
  <2>1. ASSUME NEW i \in 1..Len(writes), writes[i].kind = "attach"
        PROVE  /\ root'[writes[i].pair] = writes[i].pair
               /\ Alive(writes[i].pair)' => writes[i].pair \in current'
               /\ writes[i].pair \notin StoredPairs' \cup {job'.spent, job'.got}
    <3>1. /\ root[writes[i].pair] = writes[i].pair
          /\ Alive(writes[i].pair) => writes[i].pair \in current
          /\ writes[i].pair \notin StoredPairs \cup {job.spent, job.got}
      BY <2>1 DEF Core, FreshInv
    <3>2. Alive(writes[i].pair)' => Alive(writes[i].pair)
      BY <1>u, <1>a
    <3> QED
      BY <2>1, <3>1, <3>2, <1>u, <1>j, <1>m, <1>s
  <2> QED
    BY <2>1, <1>u DEF Core, FreshInv
<1>4. OwnerInv'
  BY <1>u, <1>j, <1>s, <1>n DEF Core, OwnerInv, Chained, PairOf
<1>5. UpstreamInv'
  <2>1. root[job.spent] \in Pair /\ root'[job.spent] = root[job.spent]
    BY <1>u, <1>m, <1>s DEF Core, UpstreamInv
  <2>2. \A x \in StoredPairs \cup current : root'[x] \in Pair
    BY <1>m, <1>s DEF Core, UpstreamInv
  <2>3. \A x \in current' : \A y \in current' : root'[x] = root'[y] => x = y
    BY <1>u, <1>m, <1>s DEF Core, UpstreamInv
  <2>4. q \in current'
    BY <1>u
  <2> QED
    BY <1>u, <1>j, <1>s, <1>m, <2>1, <2>2, <2>3, <2>4 DEF UpstreamInv
<1>6. SpentPairsAreAccountedFor'
  <2> SUFFICES ASSUME NEW v \in User, HasLiveChain(rows, v), Alive(root[PairOf(v)])'
               PROVE  PairOf(v) \in current' \cup excused' \/ job.spent = PairOf(v)
    BY <1>u, <1>j, <1>m, NoRowAssumption DEF SpentPairsAreAccountedFor, LiveUsers, PairOf
  <2>1. PairOf(v) \in StoredPairs /\ PairOf(v)' = PairOf(v)
    BY <1>u, Stored DEF HasLiveChain, Chained, PairOf
  <2>2. PairOf(v) \in Pair /\ PairOf(v) # q /\ root'[PairOf(v)] = root[PairOf(v)]
    BY <2>1, <1>m, <1>s
  <2>3. Alive(root[PairOf(v)])
    BY <1>a, <2>1, <2>2
  <2> QED
    BY <2>2, <2>3, <1>u, <1>m DEF Core, SpentPairsAreAccountedFor, LiveUsers, PairOf
<1> QED
  BY <1>1, <1>2, <1>3, <1>4, <1>5, <1>6 DEF Core

-----------------------------------------------------------------------------
(* The refresh, the store and the process.                                 *)

LEMMA BeginCore ==
  ASSUME TypeOK, TypeOK', Core, RefreshBegins
  PROVE  Core'
<1>u. /\ job.stage = "queued" /\ job = Queued /\ tasks # <<>> /\ Head(tasks) \in User
      /\ UNCHANGED <<rows, writes, root, current, excused>>
  BY TasksTail DEF RefreshBegins, Core, JobInv, absVars, ghosts
<1>g. job.got = NoPair /\ job.spent = NoPair
  BY <1>u DEF Queued
<1>1. CASE ~HasLiveChain(rows, Head(tasks))
  <2>1. job' = Queued
    BY <1>1 DEF RefreshBegins, Settle
  <2>2. \A i \in 1..Len(writes) : ~OfJob(writes[i])
    BY <1>u DEF Core, JobWriteInv
  <2>3. RefreshEnds({})
    BY <1>u, <1>g, <2>1, <2>2 DEF RefreshEnds
  <2> QED
    BY <1>u, <2>3, RowsStay
<1>2. CASE HasLiveChain(rows, Head(tasks))
  <2> DEFINE p == PairOf(Head(tasks))
  <2>1. /\ job'.stage = "sent" /\ job'.spent = p /\ job'.got = NoPair /\ tasks' = tasks
    BY <1>2 DEF RefreshBegins, PairOf
  <2>2. Chained(Head(tasks)) /\ p \in StoredPairs /\ p \in Pair
    BY <1>2, <1>u, Stored, StoredType DEF HasLiveChain, Chained
  <2>3. StoredPairs' = StoredPairs /\ NoPair \notin StoredPairs
    BY <1>u, StoredType, NoRowAssumption DEF StoredPairs
  <2>4. JobInv'
    BY <1>u, <2>1, <2>2 DEF JobInv
  <2>5. JobWriteInv'
    BY <1>u DEF Core, JobWriteInv, OfJob
  <2>6. FreshInv'
    <3>1. \A i \in 1..Len(writes) : writes[i].kind = "attach" => writes[i].pair \notin {p, NoPair}
      BY <2>2, <1>g DEF Core, FreshInv
    <3> QED
      BY <3>1, <1>u, <2>1, <2>3 DEF Core, FreshInv, Alive
  <2>7. OwnerInv'
    <3>1. \A u \in User : Chained(u) /\ PairOf(u) = p => u = Head(tasks)
      BY <1>u, <2>2 DEF Core, OwnerInv
    <3> QED
      BY <3>1, <1>u, <2>1, <2>3 DEF Core, OwnerInv, Chained, PairOf
  <2>8. UpstreamInv'
    BY <1>u, <2>1, <2>2, <2>3 DEF Core, UpstreamInv
  <2>9. SpentPairsAreAccountedFor'
    BY <1>u, <1>g DEF Core, SpentPairsAreAccountedFor, LiveUsers, Alive
  <2> QED
    BY <2>4, <2>5, <2>6, <2>7, <2>8, <2>9 DEF Core
<1> QED
  BY <1>1, <1>2

LEMMA TimeoutCore ==
  ASSUME TypeOK, TypeOK', Core, RefreshTimesOut
  PROVE  Core'
<1>1. /\ job.stage \in {"sent", "rotated"} /\ job' = Queued
      /\ excused' = IF job.stage = "rotated" THEN excused \cup {job.spent} ELSE excused
      /\ UNCHANGED <<rows, writes, root, current>>
  BY DEF RefreshTimesOut, Settle, absVars
<1>2. \A i \in 1..Len(writes) : ~OfJob(writes[i])
  BY <1>1 DEF Core, JobWriteInv
<1>3. job.got # NoPair => job.spent \in excused'
  BY <1>1 DEF Core, JobInv
<1>4. RefreshEnds({})
  BY <1>1, <1>2, <1>3 DEF RefreshEnds
<1> QED
  BY <1>1, <1>4, RowsStay

LEMMA HaltCore ==
  ASSUME TypeOK, TypeOK', Core, Halt,
         excused' = IF job.got # NoPair THEN excused \cup {job.spent} ELSE excused
  PROVE  Core'
<1>1. /\ job' = Queued /\ writes' = <<>> /\ UNCHANGED <<rows, root, current>>
  BY DEF Halt, absVars
<1>2. RefreshEnds({})
  <2>1. \A i \in 1..Len(writes') : FALSE
    BY <1>1
  <2> QED
    BY <1>1, <2>1 DEF RefreshEnds
<1> QED
  BY <1>1, <1>2, RowsStay

(* The mutation at the head of the queue, and what is left of the queue. *)
LEMMA HeadLeaves ==
  ASSUME TypeOK, Core, writes # <<>>, writes' = Tail(writes)
  PROVE  /\ OfJob(Head(writes)) => \A i \in 1..Len(writes') : ~OfJob(writes'[i])
         /\ \A i \in 1..Len(writes') : writes'[i].kind = "attach" =>
              /\ rows.devices[writes'[i].token] = NoUser
              /\ writes'[i].pair \notin StoredPairs \cup {job.spent, job.got}
              /\ writes'[i].token \in Token
              /\ Head(writes).kind = "attach" =>
                   writes'[i].token # Head(writes).token /\ writes'[i].pair # Head(writes).pair
<1>1. \A i \in 1..Len(writes') : i + 1 \in 1..Len(writes) /\ i + 1 # 1 /\ writes'[i] = writes[i + 1]
  BY QueueTail DEF TypeOK
<1>2. Head(writes) = writes[1] /\ 1 \in 1..Len(writes)
  BY HeadOp
<1>3. ASSUME OfJob(Head(writes)), NEW i \in 1..Len(writes'), OfJob(writes'[i]) PROVE FALSE
  <2>1. OfJob(writes[1]) /\ OfJob(writes[i + 1]) /\ i + 1 \in 1..Len(writes) /\ i + 1 # 1
    BY <1>1, <1>2, <1>3
  <2> QED
    BY <2>1, <1>2 DEF Core, JobWriteInv
<1>4. ASSUME NEW i \in 1..Len(writes'), writes'[i].kind = "attach"
      PROVE  /\ rows.devices[writes'[i].token] = NoUser
             /\ writes'[i].pair \notin StoredPairs \cup {job.spent, job.got}
             /\ writes'[i].token \in Token
             /\ Head(writes).kind = "attach" =>
                  writes'[i].token # Head(writes).token /\ writes'[i].pair # Head(writes).pair
  <2>1. i + 1 \in 1..Len(writes) /\ i + 1 # 1 /\ writes'[i] = writes[i + 1] /\ writes[i + 1] \in Op
    BY <1>1 DEF TypeOK
  <2> QED
    BY <1>2, <1>4, <2>1, OpFields DEF Core, FreshInv
<1> QED
  BY <1>3, <1>4

LEMMA FailCore ==
  ASSUME TypeOK, TypeOK', Core, WriteFails
  PROVE  Core'
<1> DEFINE op == Head(writes)
<1>u. /\ writes # <<>> /\ writes' = Tail(writes) /\ UNCHANGED <<rows, root, current>>
      /\ excused' = IF op.kind = "update" THEN excused \cup {op.spent} ELSE excused
      /\ op \in Op
  BY HeadOp DEF WriteFails, absVars
<1>1. CASE OfJob(op)
  <2>1. job' = Queued
    BY <1>1 DEF WriteFails, Settle
  <2>2. \A i \in 1..Len(writes') : ~OfJob(writes'[i])
    BY <1>1, <1>u, HeadLeaves
  <2>3. op.kind \in {"update", "bury"} /\ op.spent = job.spent /\ (op.kind = "bury" => job.got = NoPair)
    BY <1>1, <1>u, HeadOfJob DEF OfJob, Core
  <2>4. job.got # NoPair => job.spent \in excused'
    BY <1>u, <2>3
  <2>5. RefreshEnds({})
    BY <2>1, <2>2, <2>4 DEF RefreshEnds
  <2> QED
    BY <1>u, <2>5, RowsStay
<1>2. CASE ~OfJob(op)
  <2>1. UNCHANGED <<tasks, job, excused>>
    BY <1>2, <1>u DEF WriteFails, OfJob
  <2>2. RefreshGoesOn({})
    BY <2>1 DEF RefreshGoesOn
  <2> QED
    BY <1>u, <2>1, <2>2, RowsStay
<1> QED
  BY <1>1, <1>2

(* A mutation that applies to the rows, by what it is. *)
LEMMA LandCore ==
  ASSUME TypeOK, TypeOK', Core, WriteLands
  PROVE  Core'
<1> DEFINE op == Head(writes)
<1>u. /\ writes # <<>> /\ writes' = Tail(writes) /\ UNCHANGED <<root, current, excused>>
      /\ rows' = IF Applies(rows, op) THEN Change(rows, op) ELSE rows
      /\ op \in Op
      /\ OfJob(op) => job' = Queued
      /\ ~OfJob(op) => UNCHANGED <<tasks, job>>
  BY HeadOp DEF WriteLands, Settle, absVars
<1>r. rows \in Rows
  BY DEF TypeOK
<1>f. op.kind \in {"attach", "remove", "update", "bury", "touch"}
  BY <1>u, OpFields
<1>h. /\ OfJob(op) => \A i \in 1..Len(writes') : ~OfJob(writes'[i])
      /\ \A i \in 1..Len(writes') : writes'[i].kind = "attach" =>
           /\ rows.devices[writes'[i].token] = NoUser
           /\ writes'[i].pair \notin StoredPairs \cup {job.spent, job.got}
           /\ writes'[i].token \in Token
           /\ op.kind = "attach" => writes'[i].token # op.token /\ writes'[i].pair # op.pair
  BY <1>u, HeadLeaves
<1>j. OfJob(op) => /\ op.kind \in {"update", "bury"} /\ op.user \in User
                   /\ op.user = Head(tasks) /\ op.spent = job.spent /\ job.spent \in Pair
                   /\ op.kind = "update" => job.got \in Pair /\ op.pair = job.got
                   /\ op.kind = "bury" => job.got = NoPair
  BY <1>u, HeadOfJob, OpFields, NoRowAssumption DEF OfJob, Core
<1>1. CASE rows' = rows /\ ~(Applies(rows, op) /\ op.kind \in {"update", "bury"})
  <2>1. CASE OfJob(op)
    <3>1. ~StillHolds(rows, op)
      BY <1>1, <1>j, <2>1 DEF Applies
    <3>2. ASSUME NEW v \in User, HasLiveChain(rows', v), PairOf(v)' = job.spent PROVE FALSE
      <4>1. Chained(v) /\ PairOf(v) = job.spent
        BY <1>1, <3>2 DEF HasLiveChain, Chained, PairOf
      <4>2. v = op.user
        BY <4>1, <1>j, <2>1 DEF Core, OwnerInv
      <4> QED
        BY <3>1, <4>1, <4>2, <1>j, <2>1 DEF StillHolds, Chained, PairOf
    <3>3. RefreshEnds({})
      BY <1>u, <1>h, <2>1, <3>2 DEF RefreshEnds
    <3> QED
      BY <1>u, <1>1, <3>3, RowsStay
  <2>2. CASE ~OfJob(op)
    <3>1. RefreshGoesOn({})
      BY <1>u, <2>2 DEF RefreshGoesOn
    <3> QED
      BY <1>u, <1>1, <3>1, RowsStay
  <2> QED
    BY <2>1, <2>2
<1>2. CASE Applies(rows, op) /\ op.kind = "attach"
  <2>1. /\ op \in AttachOp /\ op.user \in User /\ op.token \in Token /\ op.pair \in Pair
        /\ rows' = Attach(rows, op) /\ ~OfJob(op)
    BY <1>u, <1>2, OpFields DEF Change, AttachOp, OfJob
  <2>2. /\ root[op.pair] = op.pair
        /\ Alive(op.pair) => op.pair \in current
        /\ op.pair \notin StoredPairs \cup {job.spent, job.got}
    BY <1>2, <1>u, HeadOp DEF Core, FreshInv
  <2>3. /\ \A u \in User : u # op.user => rows'.chains[u] = rows.chains[u]
        /\ HasLiveChain(rows, op.user) => rows'.chains = rows.chains
        /\ ~HasLiveChain(rows, op.user) => rows'.chains[op.user] = [pair |-> op.pair, dead |-> FALSE]
    BY <2>1, <1>r, AttachRows
  <2>4. RowsBring({op.pair})
    <3>1. \A u \in User : Chained(u)' =>
            \/ Chained(u) /\ PairOf(u)' = PairOf(u) /\ (HasLiveChain(rows', u) => HasLiveChain(rows, u))
            \/ PairOf(u)' = op.pair
      BY <2>1, <2>3 DEF Chained, PairOf, HasLiveChain
    <3>2. \A u \in User : Chained(u)' /\ PairOf(u)' = op.pair => u = op.user
      <4>1. \A u \in User : Chained(u) => PairOf(u) # op.pair
        BY <2>2, Stored
      <4> QED
        BY <4>1, <2>3 DEF Chained, PairOf
    <3> QED
      BY <2>1, <2>2, <3>1, <3>2 DEF RowsBring
  <2>5. QueueShrinks({op.pair})
    <3>1. \A t \in Token : t # op.token /\ rows.devices[t] = NoUser => rows'.devices[t] = NoUser
      <4>1. \A t \in Token : t # op.token =>
              rows'.devices[t] = NoUser \/ rows'.devices[t] = rows.devices[t]
        BY <2>1, <1>r, AttachRows
      <4> QED
        BY <4>1
    <3> QED
      BY <1>u, <1>h, <1>2, <3>1 DEF QueueShrinks
  <2>6. RefreshGoesOn({op.pair})
    BY <1>u, <2>1, <2>2 DEF RefreshGoesOn
  <2> QED
    BY <1>u, <2>1, <2>4, <2>5, <2>6, Landing
<1>3. CASE Applies(rows, op) /\ op.kind = "remove"
  <2>1. op \in RemoveOp /\ op.token \in Token /\ rows' = Remove(rows, op) /\ RemoveApplies(rows, op) /\ ~OfJob(op)
    BY <1>u, <1>3, OpFields DEF Applies, Change, OfJob
  <2>2. /\ \A t \in Token : rows'.devices[t] \in {NoUser, rows.devices[t]}
        /\ \A u \in User : rows'.chains[u] \in {NoChain, rows.chains[u]}
    BY <2>1, <1>r, RemoveRows
  <2>3. RowsBring({})
    BY <2>2 DEF RowsBring, Chained, PairOf, HasLiveChain
  <2>4. QueueShrinks({})
    BY <1>u, <1>h, <2>2 DEF QueueShrinks
  <2>5. RefreshGoesOn({})
    BY <1>u, <2>1 DEF RefreshGoesOn
  <2> QED
    BY <1>u, <2>3, <2>4, <2>5, Landing
<1>4. CASE Applies(rows, op) /\ op.kind = "bury"
  <2>1. /\ op \in BuryOp /\ op.user \in User /\ rows' = Change(rows, op) /\ StillHolds(rows, op)
    BY <1>u, <1>4, OpFields DEF Applies
  <2>2. rows'.devices = rows.devices
    BY <2>1, <1>r, UpdateBuryRows
  <2>3. /\ \A u \in User : u # op.user => rows'.chains[u] = rows.chains[u]
        /\ rows'.chains[op.user].pair = rows.chains[op.user].pair /\ rows'.chains[op.user].dead
        /\ rows.chains[op.user] \in Chain /\ rows.chains[op.user] # NoChain
    <3>1. rows.chains[op.user] \in Chain /\ rows.chains[op.user] # NoChain
      BY <2>1, <1>r, UpdateBuryRows DEF StillHolds
    <3>2. rows'.chains = [rows.chains EXCEPT ![op.user] = [rows.chains[op.user] EXCEPT !.dead = TRUE]]
      BY <2>1, <1>4, <1>r DEF Change, Bury, Rows
    <3> QED
      BY <2>1, <3>1, <3>2, <1>r DEF Rows, Chain
  <2>4. RowsBring({})
    BY <2>3 DEF RowsBring, Chained, PairOf, HasLiveChain, Chain
  <2>5. QueueShrinks({})
    BY <1>u, <1>h, <2>2 DEF QueueShrinks
  <2>6. RefreshGoesOn({}) \/ RefreshEnds({})
    BY <1>u, <1>h, <1>j, <1>4 DEF RefreshGoesOn, RefreshEnds
  <2> QED
    BY <1>u, <2>4, <2>5, <2>6, Landing
<1>5. CASE Applies(rows, op) /\ op.kind = "update"
  <2> DEFINE q == job.got
  <2>1. /\ op \in UpdateOp /\ op.user \in User /\ rows' = Change(rows, op) /\ StillHolds(rows, op) /\ OfJob(op)
        /\ q \in Pair /\ op.pair = q
    BY <1>u, <1>5, <1>j, OpFields DEF Applies, OfJob
  <2>2. rows'.devices = rows.devices
    BY <2>1, <1>r, UpdateBuryRows
  <2>3. /\ \A u \in User : u # op.user => rows'.chains[u] = rows.chains[u]
        /\ rows'.chains[op.user].pair = q
        /\ rows.chains[op.user] \in Chain /\ rows.chains[op.user] # NoChain
    <3>1. rows.chains[op.user] \in Chain /\ rows.chains[op.user] # NoChain
      BY <2>1, <1>r, UpdateBuryRows DEF StillHolds
    <3>2. rows'.chains = [rows.chains EXCEPT ![op.user] = [rows.chains[op.user] EXCEPT !.pair = q]]
      BY <2>1, <1>5, <1>r DEF Change, Update, Rows
    <3> QED
      BY <2>1, <3>1, <3>2, <1>r DEF Rows, Chain
  <2>4. q \notin StoredPairs /\ PairOf(op.user) = job.spent
    <3>2. PairOf(op.user) = job.spent
      BY <2>1, <1>j, NoRowAssumption DEF StillHolds, PairOf
    <3> QED
      BY <3>2 DEF Core, OwnerInv
  <2>5. RowsBring({q})
    <3>1. \A u \in User : u # op.user /\ Chained(u)' => Chained(u) /\ PairOf(u)' = PairOf(u) /\ PairOf(u) # q
                            /\ (HasLiveChain(rows', u) => HasLiveChain(rows, u))
      BY <2>3, <2>4, Stored DEF Chained, PairOf, HasLiveChain
    <3>2. root[q] = root[job.spent] /\ root[job.spent] \in Pair /\ (Alive(root[q]) => q \in current)
      BY <1>j, <2>1, NoRowAssumption DEF Core, UpstreamInv
    <3>3. \A u \in User : u = op.user => PairOf(u)' = q
      BY <2>3 DEF PairOf
    <3> QED
      BY <2>4, <3>1, <3>2, <3>3 DEF RowsBring
  <2>6. QueueShrinks({q})
    BY <1>u, <1>h, <2>2 DEF QueueShrinks
  <2>7. RefreshEnds({q})
    <3>1. ASSUME NEW v \in User, HasLiveChain(rows', v), PairOf(v)' = job.spent
          PROVE  job.spent = q
      <4>1. CASE v = op.user
        BY <3>1, <4>1, <2>3 DEF PairOf
      <4>2. CASE v # op.user
        <5>1. Chained(v) /\ PairOf(v) = job.spent
          BY <3>1, <4>2, <2>3 DEF HasLiveChain, Chained, PairOf
        <5> QED
          BY <5>1, <4>2, <1>j, <2>1 DEF Core, OwnerInv
      <4> QED
        BY <4>1, <4>2
    <3> QED
      BY <1>u, <1>h, <2>1, <3>1 DEF RefreshEnds
  <2> QED
    BY <1>u, <2>1, <2>5, <2>6, <2>7, Landing
<1>6. CASE op.kind = "touch"
  BY <1>1, <1>6, <1>u DEF Change
<1> QED
  BY <1>1, <1>2, <1>3, <1>4, <1>5, <1>6, <1>f, <1>u

(* A graceful stop exits only once no refresh is left. *)
LEMMA ExitsDrained ==
  ASSUME TypeOK, JobInv, StopInv, Exit
  PROVE  job = Queued /\ tasks = <<>>
<1>1. phase = "stopping" /\ \A r \in Playback : requests[r] = Done
  BY DEF Exit
<1>2. Range(tasks) = {}
  BY <1>1 DEF StopInv, Done
<1>3. ASSUME tasks # <<>> PROVE FALSE
  <2>1. tasks \in Seq(User) /\ 1 \in DOMAIN tasks
    BY <1>3 DEF TypeOK
  <2> QED
    BY <1>2, <2>1 DEF Range
<1> QED
  BY <1>3 DEF JobInv

LEMMA StepCore ==
  ASSUME TypeOK, TypeOK', Core, StopInv, [Next]_vars
  PROVE  Core'
<1> DEFINE Calm == UNCHANGED <<rows, writes, job, root, current, excused>>
<1>q. ASSUME Calm, tasks # <<>> => tasks' # <<>> /\ Head(tasks') = Head(tasks)
      PROVE  Core'
  BY <1>q, RowsStay DEF RefreshGoesOn
<1>0. CASE UNCHANGED vars
  BY <1>0, <1>q DEF vars, absVars, ghosts
<1>1. CASE Revoke
  BY <1>1, SessionEnds DEF Revoke
<1>2. CASE Age \/ Sweep \/ Stop \/ Drained \/ Boot
  BY <1>2, <1>q DEF Age, Sweep, Stop, Drained, Boot, absVars, ghosts
<1>3. ASSUME NEW t \in NewTokens, NEW u \in User, NEW p \in NewPairs, SignIn(t, u, p) PROVE Core'
  BY <1>3, SignInCore
<1>4. ASSUME NEW t \in Token, SignOut(t) PROVE Core'
  <2> DEFINE op == [kind |-> "remove", token |-> t, user |-> NoUser]
  <2>1. op \in Op /\ ~OfJob(op) /\ op.kind # "attach"
    BY DEF Op, RemoveOp, OfJob
  <2>2. writes' = Append(writes, op) /\ UNCHANGED <<rows, tasks, job, root, current, excused>>
    BY <1>4 DEF SignOut, absVars, ghosts
  <2> HIDE DEF op
  <2> QED
    BY <2>1, <2>2, Queueing
<1>5. ASSUME NEW r \in Request, NEW t \in Token, RequestBegins(r, t) PROVE Core'
  <2>1. rows.devices[t] \in User
    BY <1>5 DEF RequestBegins, Resolves, TypeOK, Rows
  <2>2. tasks # <<>> => tasks' # <<>> /\ Head(tasks') = Head(tasks)
    <3>1. Join(rows.devices[t]) \/ tasks' = tasks
      BY <1>5 DEF RequestBegins
    <3> QED
      BY <2>1, <3>1, JoinTasks
  <2> QED
    BY <1>5, <2>2, <1>q DEF RequestBegins, absVars, ghosts
<1>6. ASSUME NEW u \in User, SweepNext(u) PROVE Core'
  <2>1. tasks # <<>> => tasks' # <<>> /\ Head(tasks') = Head(tasks)
    BY <1>6, JoinTasks DEF SweepNext
  <2> QED
    BY <1>6, <2>1, <1>q DEF SweepNext, absVars, ghosts
<1>7. CASE RefreshBegins
  BY <1>7, BeginCore
<1>8. ASSUME NEW q \in NewPairs, AbsRotates(q) PROVE Core'
  BY <1>8, RotateCore
<1>9. CASE RefreshAnswered \/ RefreshRefused
  <2>1. tasks # <<>> /\ job.spent \in Pair /\ (job.stage = "rotated" => job.got \in Pair)
    BY <1>9 DEF RefreshAnswered, RefreshRefused, Core, JobInv
  <2>2. Head(tasks) \in User
    BY <2>1, TasksTail
  <2>3. UNCHANGED <<rows, tasks, root, current, excused>> /\ job' = [job EXCEPT !.stage = "storing"]
    BY <1>9 DEF RefreshAnswered, RefreshRefused, absVars, ghosts
  <2>4. CASE RefreshAnswered
    <3> DEFINE op == [kind |-> "update", user |-> Head(tasks), pair |-> job.got, spent |-> job.spent]
    <3>1. job.stage = "rotated" /\ writes' = Append(writes, op)
      BY <2>4 DEF RefreshAnswered
    <3>2. op \in Op
      BY <2>1, <2>2, <3>1 DEF Op, UpdateOp
    <3>3. op.kind = "update" /\ op.user = Head(tasks) /\ op.spent = job.spent /\ op.pair = job.got
      OBVIOUS
    <3> HIDE DEF op
    <3> QED
      BY <2>3, <3>1, <3>2, <3>3, Queueing
  <2>5. CASE RefreshRefused
    <3> DEFINE op == [kind |-> "bury", user |-> Head(tasks), spent |-> job.spent]
    <3>1. job.stage = "sent" /\ job.spent \notin current /\ writes' = Append(writes, op)
      BY <2>5 DEF RefreshRefused
    <3>2. op \in Op
      BY <2>1, <2>2 DEF Op, BuryOp
    <3>3. op.kind = "bury" /\ op.user = Head(tasks) /\ op.spent = job.spent
      OBVIOUS
    <3> HIDE DEF op
    <3> QED
      BY <2>3, <3>1, <3>2, <3>3, Queueing
  <2> QED
    BY <1>9, <2>4, <2>5
<1>10. CASE RefreshTimesOut
  BY <1>10, TimeoutCore
<1>11. ASSUME NEW r \in Request, RequestSucceeds(r) PROVE Core'
  BY <1>11, <1>q DEF RequestSucceeds, absVars, ghosts
<1>12. ASSUME NEW r \in Request, RequestRefused(r) PROVE Core'
  <2>1. UNCHANGED <<rows, tasks, job, root, current, excused>>
    BY <1>12 DEF RequestRefused, absVars, ghosts
  <2>2. CASE Resolves(requests[r].token)
    <3> DEFINE op == [kind |-> "bury", user |-> rows.devices[requests[r].token], spent |-> NoPair]
    <3>1. writes' = Append(writes, op)
      BY <1>12, <2>2 DEF RequestRefused
    <3>2. requests[r].token \in Token
      BY <1>12 DEF RequestRefused, TypeOK, Done
    <3>3. rows.devices[requests[r].token] \in User
      BY <2>2, <3>2 DEF Resolves, TypeOK, Rows
    <3>4. op \in Op /\ ~OfJob(op) /\ op.kind # "attach"
      BY <3>3 DEF Op, BuryOp, OfJob
    <3> HIDE DEF op
    <3> QED
      BY <2>1, <3>1, <3>4, Queueing
  <2>3. CASE ~Resolves(requests[r].token)
    <3>1. writes' = writes
      BY <1>12, <2>3 DEF RequestRefused
    <3> QED
      BY <2>1, <3>1, <1>q
  <2> QED
    BY <2>2, <2>3
<1>13. ASSUME NEW p \in Pair, LogoutSettles(p) PROVE Core'
  <2>1. UNCHANGED <<rows, writes, tasks, job, root, excused>>
    BY <1>13 DEF LogoutSettles
  <2>2. (p \in current /\ current' = current \ {p}) \/ current' = current
    BY <1>13 DEF LogoutSettles
  <2> QED
    BY <2>1, <2>2, <1>q, SessionEnds
<1>14. CASE WriteLands
  BY <1>14, LandCore
<1>15. CASE WriteFails
  BY <1>15, FailCore
<1>16. CASE Crash
  BY <1>16, HaltCore DEF Crash
<1>17. CASE Exit
  <2>1. job.got = NoPair
    BY <1>17, ExitsDrained DEF Core, Queued
  <2> QED
    BY <1>17, <2>1, HaltCore DEF Exit
<1> QED
  BY <1>0, <1>1, <1>2, <1>3, <1>4, <1>5, <1>6, <1>7, <1>8, <1>9, <1>10, <1>11, <1>12, <1>13, <1>14,
     <1>15, <1>16, <1>17
  DEF Next, NextUnrefused, External, Clients, Refreshing, Answering, Writing, Process

(* Resuming those who wait for the refresh at the head leaves the others   *)
(* waiting, and the sweep with no more to visit than it had.               *)
LEMMA SettleStops ==
  ASSUME TypeOK, StopInv, tasks # <<>>, NEW pair, Settle(pair), phase' = phase
  PROVE  StopInv'
<1>1. sweep'.todo = sweep.todo
  BY DEF Settle, Resume, TypeOK
<1>2. ASSUME phase = "stopping", NEW u \in Range(tasks')
      PROVE  \E r \in Playback : requests'[r].stage = "waiting" /\ requests'[r].user = u
  <2>1. u \in Range(tasks) /\ u # Head(tasks)
    BY <1>2, TasksTail DEF Settle
  <2>2. PICK r \in Playback : requests[r].stage = "waiting" /\ requests[r].user = u
    BY <1>2, <2>1 DEF StopInv
  <2>3. r \in Request
    BY PlaybackAssumption
  <2>4. requests'[r] = requests[r]
    BY <2>1, <2>2, <2>3 DEF Settle, Resume
  <2> QED
    BY <2>2, <2>4
<1> QED
  BY <1>1, <1>2 DEF StopInv

LEMMA StepStops ==
  ASSUME TypeOK, Core, StopInv, [Next]_vars
  PROVE  StopInv'
<1>0. CASE UNCHANGED vars
  BY <1>0 DEF vars, StopInv
<1>q. ASSUME UNCHANGED <<phase, sweep, tasks>>,
             \A r \in Request : requests[r].stage = "waiting" => requests'[r] = requests[r]
      PROVE  StopInv'
  BY <1>q, PlaybackAssumption DEF StopInv
<1>1. CASE External
  BY <1>1, <1>q DEF External, Revoke, Age
<1>2. ASSUME NEW t, NEW u, NEW p, SignIn(t, u, p) PROVE StopInv'
  BY <1>2, <1>q DEF SignIn
<1>3. ASSUME NEW t, SignOut(t) PROVE StopInv'
  BY <1>3, <1>q DEF SignOut
<1>4. ASSUME NEW r \in Request, NEW t \in Token, RequestBegins(r, t) PROVE StopInv'
  <2> DEFINE u == rows.devices[t]
  <2>1. u \in User
    BY <1>4 DEF RequestBegins, Resolves, TypeOK, Rows
  <2>2. UNCHANGED <<phase, sweep>>
    BY <1>4 DEF RequestBegins
  <2>3. ASSUME phase = "stopping", NEW v \in Range(tasks')
        PROVE  \E s \in Playback : requests'[s].stage = "waiting" /\ requests'[s].user = v
    <3>1. r \in Playback
      BY <1>4, <2>3 DEF RequestBegins
    <3>2. CASE v \in Range(tasks)
      <4>1. PICK s \in Playback : requests[s].stage = "waiting" /\ requests[s].user = v
        BY <2>3, <3>2 DEF StopInv
      <4>2. s # r /\ s \in Request
        BY <1>4, <4>1, PlaybackAssumption DEF RequestBegins, Done
      <4>3. requests'[s] = requests[s]
        BY <1>4, <4>2 DEF RequestBegins, TypeOK
      <4> QED
        BY <4>1, <4>3
    <3>3. CASE v \notin Range(tasks)
      <4>1. /\ requests' = [requests EXCEPT ![r] = [stage |-> "waiting", token |-> t, user |-> u]]
            /\ Join(u)
        BY <1>4, <2>3, <3>3 DEF RequestBegins
      <4>2. v = u
        BY <2>1, <2>3, <3>3, <4>1, JoinTasks
      <4>3. requests'[r].stage = "waiting" /\ requests'[r].user = u
        BY <4>1 DEF TypeOK
      <4> QED
        BY <3>1, <4>2, <4>3
    <3> QED
      BY <3>2, <3>3
  <2> QED
    BY <2>2, <2>3 DEF StopInv
<1>5. CASE Sweep
  BY <1>5 DEF Sweep, StopInv
<1>6. ASSUME NEW u \in User, SweepNext(u) PROVE StopInv'
  BY <1>6 DEF SweepNext, StopInv
<1>7. CASE RefreshBegins
  <2>1. CASE HasLiveChain(rows, Head(tasks))
    BY <1>7, <2>1, <1>q DEF RefreshBegins
  <2>2. CASE ~HasLiveChain(rows, Head(tasks))
    BY <1>7, <2>2, SettleStops DEF RefreshBegins
  <2> QED
    BY <2>1, <2>2
<1>8. ASSUME NEW q, AbsRotates(q) PROVE StopInv'
  BY <1>8, <1>q DEF AbsRotates
<1>9. CASE RefreshAnswered \/ RefreshRefused
  BY <1>9, <1>q DEF RefreshAnswered, RefreshRefused
<1>10. CASE RefreshTimesOut
  <2>1. tasks # <<>>
    BY <1>10 DEF RefreshTimesOut, Core, JobInv
  <2> QED
    BY <1>10, <2>1, SettleStops DEF RefreshTimesOut
<1>11. ASSUME NEW r \in Request, RequestSucceeds(r) PROVE StopInv'
  BY <1>11, <1>q DEF RequestSucceeds, TypeOK
<1>12. ASSUME NEW r \in Request, RequestRefused(r) PROVE StopInv'
  BY <1>12, <1>q DEF RequestRefused, TypeOK
<1>13. ASSUME NEW p, LogoutSettles(p) PROVE StopInv'
  BY <1>13, <1>q DEF LogoutSettles
<1>14. CASE Writing
  <2> DEFINE op == Head(writes)
  <2>1. phase' = phase /\ writes # <<>>
    BY <1>14 DEF Writing, WriteLands, WriteFails
  <2>2. CASE OfJob(op)
    <3>1. tasks # <<>>
      BY <2>1, <2>2, HeadOfJob DEF Core
    <3>2. Settle(job.got) \/ Settle(NoPair)
      BY <1>14, <2>2 DEF Writing, WriteLands, WriteFails
    <3> QED
      BY <2>1, <3>1, <3>2, SettleStops
  <2>3. CASE ~OfJob(op)
    BY <1>14, <2>3, <1>q DEF Writing, WriteLands, WriteFails
  <2> QED
    BY <2>2, <2>3
<1>15. CASE Crash \/ Exit
  BY <1>15 DEF Crash, Exit, Halt, StopInv
<1>16. CASE Stop
  BY <1>16 DEF Stop, StopInv, TypeOK
<1>17. CASE Drained
  BY <1>17 DEF Drained, StopInv
<1>18. CASE Boot
  BY <1>18 DEF Boot, StopInv
<1> QED
  BY <1>0, <1>1, <1>2, <1>3, <1>4, <1>5, <1>6, <1>7, <1>8, <1>9, <1>10, <1>11, <1>12, <1>13, <1>14,
     <1>15, <1>16, <1>17, <1>18
  DEF Next, NextUnrefused, Clients, Refreshing, Answering, Process

LEMMA StepIntegrity ==
  ASSUME TypeOK, Core, ReferentialIntegrity(rows), [Next]_vars
  PROVE  ReferentialIntegrity(rows')
<1>1. CASE WriteLands /\ Applies(rows, Head(writes))
  <2>1. rows' = Change(rows, Head(writes)) /\ writes # <<>> /\ Head(writes) \in Op
    BY <1>1, HeadOp DEF WriteLands
  <2>2. Head(writes).kind = "attach" => rows.devices[Head(writes).token] = NoUser
    BY <2>1, HeadOp DEF Core, FreshInv
  <2>3. rows \in Rows
    BY DEF TypeOK
  <2> QED
    BY <1>1, <2>1, <2>2, <2>3, ChangeIntegrity
<1>2. CASE ~(WriteLands /\ Applies(rows, Head(writes)))
  <2>1. rows' = rows
    <3>1. CASE UNCHANGED vars
      BY <3>1 DEF vars
    <3>2. CASE WriteLands
      BY <1>2, <3>2 DEF WriteLands
    <3>3. CASE Next /\ ~WriteLands
      BY <3>3 DEF Next, NextUnrefused, External, Clients, Refreshing, Answering, Writing, Process,
        Revoke, Age, SignIn, SignOut, RequestBegins, Sweep, SweepNext, RefreshBegins, AbsRotates,
        RefreshAnswered, RefreshRefused, RefreshTimesOut, RequestSucceeds, RequestRefused,
        LogoutSettles, WriteFails, Crash, Exit, Halt, Stop, Drained, Boot
    <3> QED
      BY <3>1, <3>2, <3>3
  <2> QED
    BY <2>1
<1> QED
  BY <1>1, <1>2

-----------------------------------------------------------------------------
(* The invariant, and what follows from it.                                *)

LEMMA InitInv == Init => IInv /\ GuardedInv /\ NoIdleSession
<1> SUFFICES ASSUME Init PROVE IInv /\ GuardedInv /\ NoIdleSession
  OBVIOUS
<1>1. TypeOK
  BY InitType
<1>2. /\ rows = NoRows /\ job = Queued /\ current = {} /\ phase = "down"
      /\ Len(writes) = 0 /\ \A i \in 1..Len(writes) : FALSE
      /\ \A u \in User : rows.chains[u] = NoChain
      /\ job.stage = "queued" /\ job.spent = NoPair /\ job.got = NoPair
  BY DEF Init, NoRows, Queued
<1>3. StoredPairs = {} /\ \A s : ~Alive(s)
  BY <1>2 DEF StoredPairs, Alive
<1>4. JobInv /\ JobWriteInv /\ FreshInv
  BY <1>2 DEF JobInv, JobWriteInv, FreshInv
<1>5. OwnerInv /\ UpstreamInv /\ StopInv
  BY <1>2, <1>3 DEF OwnerInv, UpstreamInv, StopInv, Chained
<1>6. SpentPairsAreAccountedFor /\ NoIdleSession
  BY <1>3 DEF SpentPairsAreAccountedFor, NoIdleSession
<1>7. GuardedInv
  BY <1>2 DEF GuardedInv, Chained, HasDeadChain
<1> QED
  BY <1>1, <1>2, <1>4, <1>5, <1>6, <1>7, NoRowsType DEF IInv

LEMMA StepInv == IInv /\ [Next]_vars => IInv'
<1> SUFFICES ASSUME IInv, [Next]_vars PROVE IInv'
  OBVIOUS
<1>1. TypeOK /\ Core /\ StopInv /\ ReferentialIntegrity(rows)
  BY DEF IInv, Core
<1>2. TypeOK'
  BY <1>1, StepType DEF Core
<1>3. Core'
  BY <1>1, <1>2, StepCore
<1>4. StopInv'
  BY <1>1, StepStops
<1>5. ReferentialIntegrity(rows)'
  BY <1>1, StepIntegrity
<1> QED
  BY <1>2, <1>3, <1>4, <1>5 DEF IInv, Core

(* IInv holds in every reachable state, whatever ABS refuses.              *)
THEOREM InductiveInvariant == Spec => []IInv
BY InitInv, StepInv, PTL DEF Spec

(* The state has its types, for any bearers, users, pairs, requests and    *)
(* any bound on the mutations queued.                                      *)
THEOREM TypeCorrect == Spec => []TypeOK
BY InductiveInvariant, PTL DEF IInv

(* No live chain holds a spent pair of a session ABS keeps, but for those  *)
(* being refreshed and those whose successor a failed write, a lost answer *)
(* or a crash took (refreshOnce, drained).                                 *)
THEOREM SpentPairsAccounted == Spec => []SpentPairsAreAccountedFor
BY InductiveInvariant, PTL DEF IInv

(* A graceful stop exits with no refresh queued or running and so loses no *)
(* rotated pair, whatever the playback session asks for while it ends      *)
(* (drained, onClose).                                                     *)
THEOREM StopLosesNoPair == Spec => [][Exit => job = Queued /\ tasks = <<>>]_vars
<1>1. IInv /\ [Next]_vars => [Exit => job = Queued /\ tasks = <<>>]_vars
  BY ExitsDrained DEF IInv
<1> QED
  BY <1>1, InductiveInvariant, PTL DEF Spec

(* Only a mutation that lands changes the rows.                            *)
LEMMA RowsChange ==
  ASSUME [Next]_vars
  PROVE  \/ rows' = rows
         \/ /\ WriteLands /\ Applies(rows, Head(writes)) /\ rows' = Change(rows, Head(writes))
            /\ UNCHANGED <<root, current>>
<1>1. CASE UNCHANGED vars
  BY <1>1 DEF vars
<1>2. CASE WriteLands
  BY <1>2 DEF WriteLands, absVars
<1>3. CASE Next /\ ~WriteLands
  BY <1>3 DEF Next, NextUnrefused, External, Clients, Refreshing, Answering, Writing, Process,
    Revoke, Age, SignIn, SignOut, RequestBegins, Sweep, SweepNext, RefreshBegins, AbsRotates,
    RefreshAnswered, RefreshRefused, RefreshTimesOut, RequestSucceeds, RequestRefused,
    LogoutSettles, WriteFails, Crash, Exit, Halt, Stop, Drained, Boot
<1> QED
  BY <1>1, <1>2, <1>3

(* What a mutation makes of a chain there was, or makes one of.            *)
LEMMA ChainChange ==
  ASSUME TypeOK, Core, WriteLands, Applies(rows, Head(writes)), rows' = Change(rows, Head(writes)),
         NEW u \in User, rows'.chains[u] # NoChain, rows'.chains[u] # rows.chains[u]
  PROVE  LET op == Head(writes) IN
         /\ op.kind \in {"attach", "update", "bury"} /\ op.user = u
         /\ op.kind = "attach" => ~HasLiveChain(rows, u)
              /\ rows'.chains[u] = [pair |-> op.pair, dead |-> FALSE]
         /\ op.kind \in {"update", "bury"} => rows.chains[u] \in Chain /\ StillHolds(rows, op)
         /\ op.kind = "update" =>
              rows'.chains[u].dead = rows.chains[u].dead /\ rows'.chains[u].pair = job.got
              /\ rows.chains[u].pair = job.spent /\ root[job.got] = root[job.spent]
         /\ op.kind = "bury" => rows'.chains[u].pair = rows.chains[u].pair
<1> DEFINE op == Head(writes)
<1>u. writes # <<>> /\ op \in Op /\ rows \in Rows
  BY HeadOp DEF WriteLands, TypeOK
<1>f. op.kind \in {"attach", "remove", "update", "bury", "touch"}
  BY <1>u, OpFields
<1>1. CASE op.kind = "attach"
  <2>1. op \in AttachOp /\ rows' = Attach(rows, op)
    BY <1>1, <1>u, OpFields DEF Change
  <2>2. /\ \A v \in User : v # op.user => rows'.chains[v] = rows.chains[v]
        /\ HasLiveChain(rows, op.user) => rows'.chains = rows.chains
        /\ ~HasLiveChain(rows, op.user) => rows'.chains[op.user] = [pair |-> op.pair, dead |-> FALSE]
    BY <2>1, <1>u, AttachRows
  <2>3. op.user = u
    BY <2>2
  <2> QED
    BY <1>1, <2>2, <2>3
<1>2. CASE op.kind = "remove"
  <2>1. op \in RemoveOp /\ rows' = Remove(rows, op) /\ RemoveApplies(rows, op)
    BY <1>2, <1>u, OpFields DEF Change, Applies
  <2>2. rows'.chains[u] \in {NoChain, rows.chains[u]}
    BY <2>1, <1>u, RemoveRows
  <2> QED
    BY <2>2
<1>3. CASE op.kind \in {"update", "bury"}
  <2>1. op \in UpdateOp \cup BuryOp /\ StillHolds(rows, op) /\ op.user \in User
    BY <1>3, <1>u, OpFields DEF Applies
  <2>2. op.user = u /\ rows.chains[u] \in Chain
    <3>1. \A v \in User \ {op.user} : rows'.chains[v] = rows.chains[v]
      BY <2>1, <1>u, UpdateBuryRows
    <3>2. rows.chains[op.user] \in Chain
      BY <2>1, <1>u, UpdateBuryRows
    <3> QED
      BY <3>1, <3>2
  <2>3. CASE op.kind = "update"
    <3>1. OfJob(op) /\ job.got \in Pair /\ op.pair = job.got /\ op.spent = job.spent /\ job.spent \in Pair
      BY <2>3, <1>u, HeadOfJob, NoRowAssumption DEF OfJob, Core
    <3>2. rows'.chains = [rows.chains EXCEPT ![u] = [rows.chains[u] EXCEPT !.pair = job.got]]
      BY <2>2, <2>3, <3>1, <1>u DEF Change, Update, Rows
    <3>3. rows'.chains[u].pair = job.got /\ rows'.chains[u].dead = rows.chains[u].dead
      BY <2>2, <3>2, <1>u DEF Rows, Chain
    <3>4. rows.chains[u].pair = job.spent
      BY <2>1, <2>2, <3>1, NoRowAssumption DEF StillHolds
    <3>5. root[job.got] = root[job.spent]
      BY <3>1, NoRowAssumption DEF Core, UpstreamInv
    <3> QED
      BY <2>1, <2>2, <2>3, <3>3, <3>4, <3>5
  <2>4. CASE op.kind = "bury"
    <3>1. rows'.chains = [rows.chains EXCEPT ![u] = [rows.chains[u] EXCEPT !.dead = TRUE]]
      BY <2>2, <2>4, <1>u DEF Change, Bury, Rows
    <3>2. rows'.chains[u].pair = rows.chains[u].pair
      BY <2>2, <3>1, <1>u DEF Rows, Chain
    <3> QED
      BY <2>1, <2>2, <2>4, <3>2
  <2> QED
    BY <1>3, <2>3, <2>4
<1>4. CASE op.kind = "touch"
  BY <1>4 DEF Change
<1> QED
  BY <1>1, <1>2, <1>3, <1>4, <1>f

(* What is minted is not a stored pair, so that a stored pair stays its    *)
(* session's.                                                              *)
LEMMA StoredKeepRoot ==
  ASSUME TypeOK, [Next]_vars
  PROVE  \A p \in StoredPairs : root'[p] = root[p]
<1>0. StoredPairs \subseteq Pair
  BY StoredType
<1>1. ASSUME NEW t, NEW u, NEW q \in NewPairs, SignIn(t, u, q) PROVE \A p \in StoredPairs : root'[p] = root[p]
  BY <1>0, <1>1, Minted DEF SignIn
<1>2. ASSUME NEW q \in NewPairs, AbsRotates(q) PROVE \A p \in StoredPairs : root'[p] = root[p]
  BY <1>0, <1>2, Minted DEF AbsRotates
<1>3. CASE UNCHANGED vars
  BY <1>3 DEF vars, absVars
<1>4. CASE /\ Next
           /\ ~(\E t \in NewTokens, u \in User, p \in NewPairs : SignIn(t, u, p))
           /\ ~(\E q \in NewPairs : AbsRotates(q))
  BY <1>4 DEF Next, NextUnrefused, External, Clients, Refreshing, Answering, Writing, Process, absVars,
    Revoke, Age, SignOut, RequestBegins, Sweep, SweepNext, RefreshBegins,
    RefreshAnswered, RefreshRefused, RefreshTimesOut, RequestSucceeds, RequestRefused,
    LogoutSettles, WriteLands, WriteFails, Crash, Exit, Halt, Stop, Drained, Boot
<1> QED
  BY <1>1, <1>2, <1>3, <1>4

(* Which upstream session a user's chain belongs to is decided by sign-ins *)
(* and sign-outs alone: no refresh, heal or sweep moves a chain to another *)
(* session or brings back one that is gone (refreshOnce, updateChain).     *)
THEOREM OnlySignInsChange == Spec => OnlySignInsChangeSession
<1>1. IInv /\ [Next]_vars =>
        [\A u \in User :
           /\ rows'.chains[u] # NoChain
           /\ \/ rows.chains[u] = NoChain
              \/ root[rows.chains[u].pair] # root'[rows'.chains[u].pair]
           => Head(writes).kind = "attach"]_vars
  <2> SUFFICES ASSUME IInv, [Next]_vars, NEW u \in User,
                      rows'.chains[u] # NoChain,
                      \/ rows.chains[u] = NoChain
                      \/ root[rows.chains[u].pair] # root'[rows'.chains[u].pair]
               PROVE  Head(writes).kind = "attach"
    OBVIOUS
  <2>0. TypeOK /\ Core
    BY DEF IInv, Core
  <2>1. CASE rows'.chains[u] = rows.chains[u]
    <3>1. rows.chains[u].pair \in StoredPairs
      BY <2>1, Stored DEF Chained, PairOf
    <3> QED
      BY <2>0, <2>1, <3>1, StoredKeepRoot
  <2>2. CASE rows'.chains[u] # rows.chains[u]
    <3>1. /\ WriteLands /\ Applies(rows, Head(writes)) /\ rows' = Change(rows, Head(writes))
          /\ root' = root
      BY <2>2, RowsChange
    <3>2. Head(writes).kind # "attach" => root[rows.chains[u].pair] = root[rows'.chains[u].pair]
                                          /\ rows.chains[u] \in Chain
      BY <2>0, <2>2, <3>1, ChainChange
    <3> QED
      BY <3>1, <3>2, NoRowAssumption DEF Chain
  <2> QED
    BY <2>1, <2>2
<1> QED
  BY <1>1, InductiveInvariant, PTL DEF Spec, OnlySignInsChangeSession

-----------------------------------------------------------------------------
(* While ABS refuses no access token ahead of its expiry.                  *)

LEMMA UnrefusedStep == [NextUnrefused]_vars => [Next]_vars
BY DEF Next

(* A chain that dies is the running refresh's, which was refused.          *)
LEMMA DeathIsRefused ==
  ASSUME TypeOK, Core, GuardedInv, [Next]_vars, NEW u \in User,
         ~HasDeadChain(rows, u), HasDeadChain(rows', u)
  PROVE  /\ HasLiveChain(rows, u) /\ rows.chains[u].pair = job.spent /\ job.spent \notin current
         /\ job.got = NoPair /\ rows'.chains[u].pair = rows.chains[u].pair
         /\ UNCHANGED <<root, current, excused>> /\ job' = Queued
<1> DEFINE op == Head(writes)
<1>1. rows'.chains[u] # NoChain /\ rows'.chains[u] # rows.chains[u] /\ rows'.chains[u].dead
  BY DEF HasDeadChain
<1>2. /\ WriteLands /\ Applies(rows, op) /\ rows' = Change(rows, op)
      /\ UNCHANGED <<root, current>>
  BY <1>1, RowsChange
<1>3. writes # <<>> /\ op \in Op /\ op = writes[1] /\ 1 \in 1..Len(writes)
  BY <1>2, HeadOp DEF WriteLands
<1>4. op.kind = "bury" /\ op.user = u /\ rows'.chains[u].pair = rows.chains[u].pair /\ StillHolds(rows, op)
  <2>1. op.kind \in {"attach", "update", "bury"} /\ op.user = u
    BY <1>1, <1>2, ChainChange
  <2>2. op.kind # "attach"
    <3>1. op.kind = "attach" => rows'.chains[u] = [pair |-> op.pair, dead |-> FALSE]
      BY <1>1, <1>2, ChainChange
    <3> QED
      BY <1>1, <3>1
  <2>3. op.kind \in {"update", "bury"} => rows.chains[u] \in Chain /\ StillHolds(rows, op)
    BY <1>1, <1>2, ChainChange
  <2>4. op.kind = "update" => rows'.chains[u].dead = rows.chains[u].dead
    BY <1>1, <1>2, ChainChange
  <2>5. op.kind = "bury" => rows'.chains[u].pair = rows.chains[u].pair
    BY <1>1, <1>2, ChainChange
  <2>6. op.kind # "update"
    BY <1>1, <2>1, <2>3, <2>4 DEF HasDeadChain, StillHolds
  <2> QED
    BY <2>1, <2>2, <2>3, <2>5, <2>6
<1>5. OfJob(op)
  BY <1>3, <1>4 DEF GuardedInv
<1>6. op.spent = job.spent /\ job.spent \in Pair /\ job.got = NoPair /\ job.stage = "storing"
  BY <1>3, <1>4, <1>5, HeadOfJob DEF Core
<1>7. rows.chains[u] # NoChain /\ rows.chains[u].pair = job.spent
  BY <1>4, <1>6, NoRowAssumption DEF StillHolds
<1>8. job.spent \notin current
  BY <1>6 DEF Core, JobInv
<1>9. excused' = excused /\ job' = Queued
  BY <1>2, <1>5 DEF WriteLands, Settle
<1> QED
  BY <1>2, <1>4, <1>6, <1>7, <1>8, <1>9 DEF HasLiveChain, HasDeadChain

(* A chain dies only once ABS would no longer renew it: never over news of *)
(* a pair it has moved on from (markDead).                                 *)
LEMMA NoDeathStep ==
  ASSUME TypeOK, Core, GuardedInv, [Next]_vars, NEW u \in User,
         HasLiveChain(rows, u), HasDeadChain(rows', u)
  PROVE  rows.chains[u].pair \notin current
<1>1. ~HasDeadChain(rows, u)
  BY DEF HasLiveChain, HasDeadChain
<1> QED
  BY <1>1, DeathIsRefused

(* What happens to the queue, to the refresh that runs, and to the         *)
(* sessions and excuses of stored pairs.                                   *)
LEMMA QueueChange ==
  ASSUME TypeOK, JobInv, [NextUnrefused]_vars
  PROVE  \/ writes' \in {writes, <<>>}
         \/ writes # <<>> /\ writes' = Tail(writes)
         \/ \E op \in Op : writes' = Append(writes, op) /\ (op.kind = "bury" => OfJob(op))
<1> DEFINE Goal == \/ writes' \in {writes, <<>>}
                   \/ writes # <<>> /\ writes' = Tail(writes)
                   \/ \E op \in Op : writes' = Append(writes, op) /\ (op.kind = "bury" => OfJob(op))
<1>1. ASSUME NEW t \in NewTokens, NEW u \in User, NEW p \in NewPairs, SignIn(t, u, p) PROVE Goal
  <2> DEFINE op == [kind |-> "attach", token |-> t, user |-> u, pair |-> p]
  <2>1. op \in Op /\ op.kind # "bury"
    BY NewToken, NewPair DEF Op, AttachOp
  <2>2. writes' = writes \/ writes' = Append(writes, op)
    BY <1>1 DEF SignIn
  <2> HIDE DEF op
  <2> QED
    BY <2>1, <2>2
<1>2. ASSUME NEW t \in Token, SignOut(t) PROVE Goal
  <2> DEFINE op == [kind |-> "remove", token |-> t, user |-> NoUser]
  <2>1. op \in Op /\ op.kind # "bury"
    BY DEF Op, RemoveOp
  <2>2. writes' = Append(writes, op)
    BY <1>2 DEF SignOut
  <2> HIDE DEF op
  <2> QED
    BY <2>1, <2>2
<1>3. CASE RefreshAnswered
  <2> DEFINE op == [kind |-> "update", user |-> Head(tasks), pair |-> job.got, spent |-> job.spent]
  <2>1. op.kind # "bury" /\ writes' = Append(writes, op)
    BY <1>3 DEF RefreshAnswered
  <2>2. job.got \in Pair /\ job.spent \in Pair /\ Head(tasks) \in User
    BY <1>3, TasksTail DEF RefreshAnswered, JobInv
  <2>3. op \in Op
    BY <2>2 DEF Op, UpdateOp
  <2> HIDE DEF op
  <2> QED
    BY <2>1, <2>3
<1>4. CASE RefreshRefused
  <2> DEFINE op == [kind |-> "bury", user |-> Head(tasks), spent |-> job.spent]
  <2>1. writes' = Append(writes, op)
    BY <1>4 DEF RefreshRefused
  <2>2. job.spent \in Pair /\ Head(tasks) \in User
    BY <1>4, TasksTail DEF RefreshRefused, JobInv
  <2>3. op \in Op /\ OfJob(op)
    BY <2>2, NoRowAssumption DEF Op, BuryOp, OfJob
  <2> HIDE DEF op
  <2> QED
    BY <2>1, <2>3
<1>5. CASE Writing \/ Crash \/ Exit
  BY <1>5 DEF Writing, WriteLands, WriteFails, Crash, Exit, Halt
<1>6. CASE UNCHANGED vars
  BY <1>6 DEF vars
<1>7. CASE /\ NextUnrefused
           /\ ~(\E t \in NewTokens, u \in User, p \in NewPairs : SignIn(t, u, p))
           /\ ~(\E t \in Token : SignOut(t))
           /\ ~(RefreshAnswered \/ RefreshRefused \/ Writing \/ Crash \/ Exit)
  BY <1>7 DEF NextUnrefused, External, Clients, Refreshing, Answering, Process, Revoke, Age,
    RequestBegins, Sweep, SweepNext, RefreshBegins, AbsRotates, RefreshTimesOut, RequestSucceeds,
    LogoutSettles, Stop, Drained, Boot
<1> QED
  BY <1>1, <1>2, <1>3, <1>4, <1>5, <1>6, <1>7

LEMMA JobChange ==
  ASSUME TypeOK, [Next]_vars
  PROVE  \/ job'.spent = job.spent
         \/ job' = Queued
         \/ /\ tasks # <<>> /\ HasLiveChain(rows, Head(tasks)) /\ job'.spent = PairOf(Head(tasks))
            /\ rows' = rows
<1>1. CASE RefreshBegins
  BY <1>1 DEF RefreshBegins, Settle, PairOf
<1>2. ASSUME NEW q \in NewPairs, AbsRotates(q) PROVE job'.spent = job.spent
  BY <1>2 DEF AbsRotates, TypeOK, Job
<1>3. CASE RefreshAnswered \/ RefreshRefused
  BY <1>3 DEF RefreshAnswered, RefreshRefused, TypeOK, Job
<1>4. CASE RefreshTimesOut \/ Writing \/ Crash \/ Exit
  BY <1>4 DEF RefreshTimesOut, Writing, WriteLands, WriteFails, Settle, Crash, Exit, Halt
<1>5. CASE UNCHANGED vars
  BY <1>5 DEF vars
<1>6. CASE /\ Next
           /\ ~(\E q \in NewPairs : AbsRotates(q))
           /\ ~(RefreshBegins \/ RefreshAnswered \/ RefreshRefused \/ RefreshTimesOut \/ Writing \/ Crash \/ Exit)
  BY <1>6 DEF Next, NextUnrefused, External, Clients, Refreshing, Answering, Process, Revoke, Age,
    SignIn, SignOut, RequestBegins, Sweep, SweepNext, RequestSucceeds, RequestRefused, LogoutSettles,
    Stop, Drained, Boot
<1> QED
  BY <1>1, <1>2, <1>3, <1>4, <1>5, <1>6

LEMMA StoredStay ==
  ASSUME TypeOK, UpstreamInv, [Next]_vars
  PROVE  \A p \in StoredPairs :
           /\ Alive(root[p])' => Alive(root[p])
           /\ p \in excused => p \in excused'
<1> SUFFICES ASSUME NEW p \in StoredPairs
             PROVE  /\ Alive(root[p])' => Alive(root[p])
                    /\ p \in excused => p \in excused'
  OBVIOUS
<1>0. p \in Pair /\ root'[p] = root[p]
  BY StoredType, StoredKeepRoot
<1>1. ASSUME NEW t, NEW u, NEW q \in NewPairs, SignIn(t, u, q)
      PROVE  (Alive(root[p])' => Alive(root[p])) /\ (p \in excused => p \in excused')
  <2>1. Mint(q, q) /\ current' = current \cup {q}
    BY <1>1 DEF SignIn
  <2>2. \A s : Alive(s)' <=> Alive(s) \/ s = q
    BY <2>1, SessionOpens
  <2>3. p # q /\ root[p] # q /\ (p \in excused => p \in excused')
    BY <2>1, <1>0, Minted
  <2> QED
    BY <2>2, <2>3, <1>0
<1>2. ASSUME NEW q \in NewPairs, AbsRotates(q)
      PROVE  (Alive(root[p])' => Alive(root[p])) /\ (p \in excused => p \in excused')
  <2>1. \A s : Alive(s)' <=> Alive(s)
    BY <1>2, SessionRenews
  <2>2. p \in excused => p \in excused'
    BY <1>2, <1>0, Minted DEF AbsRotates
  <2> QED
    BY <2>1, <2>2, <1>0
<1>3. CASE root' = root /\ current' \subseteq current /\ excused \subseteq excused'
  BY <1>3 DEF Alive
<1>4. CASE UNCHANGED vars
  BY <1>3, <1>4 DEF vars, absVars, ghosts
<1>5. CASE /\ Next
           /\ ~(\E t \in NewTokens, u \in User, q \in NewPairs : SignIn(t, u, q))
           /\ ~(\E q \in NewPairs : AbsRotates(q))
  <2>1. root' = root /\ current' \subseteq current /\ excused \subseteq excused'
    BY <1>5 DEF Next, NextUnrefused, External, Clients, Refreshing, Answering, Writing, Process, absVars,
      ghosts, Revoke, Age, SignOut, RequestBegins, Sweep, SweepNext, RefreshBegins, RefreshAnswered,
      RefreshRefused, RefreshTimesOut, RequestSucceeds, RequestRefused, LogoutSettles, WriteLands,
      WriteFails, Crash, Exit, Halt, Stop, Drained, Boot
  <2> QED
    BY <2>1, <1>3
<1> QED
  BY <1>1, <1>2, <1>4, <1>5

LEMMA StepGuarded ==
  ASSUME TypeOK, TypeOK', Core, GuardedInv, [NextUnrefused]_vars
  PROVE  GuardedInv'
<1>n. [Next]_vars
  BY UnrefusedStep
<1>p. /\ NoPair \notin Pair /\ Queued.spent = NoPair
      /\ \A u \in User : Chained(u)' => PairOf(u)' \in Pair
  <2>1. \A u \in User : Chained(u)' => PairOf(u)' \in Pair
    BY DEF TypeOK, Chained, PairOf, Rows, Chain
  <2> QED
    BY <2>1, NoRowAssumption DEF Queued
<1>1. ASSUME NEW i \in 1..Len(writes'), writes'[i].kind = "bury" PROVE OfJob(writes'[i])
  <2>1. CASE \E j \in 1..Len(writes) : writes'[i] = writes[j]
    BY <1>1, <2>1 DEF GuardedInv
  <2>2. CASE writes' \in {writes, <<>>}
    BY <2>1, <2>2
  <2>3. CASE writes # <<>> /\ writes' = Tail(writes)
    BY <2>1, <2>3, QueueTail DEF TypeOK
  <2>4. ASSUME NEW op \in Op, writes' = Append(writes, op), op.kind = "bury" => OfJob(op)
        PROVE  OfJob(writes'[i])
    <3>1. writes'[i] = op \/ (i \in 1..Len(writes) /\ writes'[i] = writes[i])
      BY <2>4, QueueAppend DEF TypeOK
    <3> QED
      BY <3>1, <2>1, <2>4, <1>1
  <2> QED
    BY <2>2, <2>3, <2>4, QueueChange DEF Core
<1>2. ASSUME NEW u \in User, HasDeadChain(rows, u), HasDeadChain(rows', u)
      PROVE  PairOf(u)' = PairOf(u) /\ PairOf(u) # job.spent
  <2>1. PairOf(u) # job.spent /\ rows.chains[u].dead /\ rows'.chains[u].dead
    BY <1>2 DEF GuardedInv, HasDeadChain, Chained
  <2>2. CASE rows'.chains[u] # rows.chains[u]
    <3>1. /\ WriteLands /\ Applies(rows, Head(writes)) /\ rows' = Change(rows, Head(writes))
      BY <2>2, <1>n, RowsChange
    <3>2. rows'.chains[u] # NoChain
      BY <1>2 DEF HasDeadChain
    <3>3. /\ Head(writes).kind \in {"attach", "update", "bury"}
          /\ Head(writes).kind = "attach" => ~HasLiveChain(rows, u)
               /\ rows'.chains[u] = [pair |-> Head(writes).pair, dead |-> FALSE]
          /\ Head(writes).kind = "update" => rows.chains[u].pair = job.spent
          /\ Head(writes).kind = "bury" => rows'.chains[u].pair = rows.chains[u].pair
      BY <2>2, <3>1, <3>2, ChainChange
    <3>4. Head(writes).kind # "attach"
      BY <3>3, <2>1
    <3> QED
      BY <3>3, <3>4, <2>1 DEF PairOf
  <2> QED
    BY <2>1, <2>2 DEF PairOf
<1>3. ASSUME NEW u \in User, Chained(u)', PairOf(u)' = job'.spent, HasDeadChain(rows', u) PROVE FALSE
  <2>1. job' # Queued
    BY <1>p, <1>3
  <2>2. HasDeadChain(rows, u)
    BY <2>1, <1>n, <1>3, DeathIsRefused
  <2>3. PairOf(u)' = PairOf(u) /\ PairOf(u) # job.spent
    BY <1>2, <1>3, <2>2
  <2>4. tasks # <<>> /\ HasLiveChain(rows, Head(tasks)) /\ PairOf(u) = PairOf(Head(tasks))
    BY <2>1, <2>3, <1>n, <1>3, JobChange
  <2>5. u = Head(tasks)
    BY <2>2, <2>4, TasksTail DEF Core, OwnerInv, HasLiveChain, HasDeadChain, Chained
  <2> QED
    BY <2>2, <2>4, <2>5 DEF HasLiveChain, HasDeadChain
<1>4. ASSUME NEW u \in User, HasDeadChain(rows', u), Alive(root[PairOf(u)])' PROVE PairOf(u)' \in excused'
  <2>1. CASE ~HasDeadChain(rows, u)
    <3>1. /\ HasLiveChain(rows, u) /\ PairOf(u) = job.spent /\ job.spent \notin current /\ job.got = NoPair
          /\ PairOf(u)' = PairOf(u) /\ UNCHANGED <<root, current, excused>>
      BY <2>1, <1>n, <1>4, DeathIsRefused DEF PairOf
    <3>2. Alive(root[PairOf(u)])
      BY <3>1, <1>4 DEF Alive
    <3> QED
      BY <3>1, <3>2 DEF Core, SpentPairsAreAccountedFor, LiveUsers, PairOf
  <2>2. CASE HasDeadChain(rows, u)
    <3>1. PairOf(u)' = PairOf(u) /\ PairOf(u) \in StoredPairs
      BY <2>2, <1>2, <1>4, Stored DEF HasDeadChain, Chained
    <3>2. root'[PairOf(u)] = root[PairOf(u)]
      BY <1>n, <3>1, StoredKeepRoot
    <3>3. \A p \in StoredPairs : (Alive(root[p])' => Alive(root[p])) /\ (p \in excused => p \in excused')
      BY <1>n, StoredStay DEF Core
    <3>4. Alive(root[PairOf(u)])
      BY <3>1, <3>2, <3>3, <1>4 DEF Alive
    <3> QED
      BY <2>2, <3>1, <3>3, <3>4 DEF GuardedInv
  <2> QED
    BY <2>1, <2>2
<1>5. \A i \in 1..Len(writes') : writes'[i].kind = "bury" => OfJob(writes'[i])
  BY <1>1
<1> QED
  BY <1>5, <1>3, <1>4 DEF GuardedInv, HasDeadChain, Chained, OfJob

(* A session somebody has, or nobody for a reason the code names. *)
Kept(s) ==
  \/ \E p \in StoredPairs \cup ending : root[p] = s
  \/ \E i \in 1..Len(writes) : writes[i].kind = "attach" /\ writes[i].pair = s
  \/ s \in idle

(* No session ABS keeps is let go of. *)
LEMMA KeptAll ==
  ASSUME NoIdleSession,
         \A s \in Pair : Alive(s)' => Alive(s),
         \A s \in Pair : Alive(s)' /\ Kept(s) => Kept(s)'
  PROVE  NoIdleSession'
<1> SUFFICES ASSUME NEW s \in Pair, Alive(s)' PROVE Kept(s)'
  BY DEF NoIdleSession, Kept
<1> QED
  BY DEF NoIdleSession, Kept

(* The session a mutation at the head of the queue takes from its owner is *)
(* another's, on its way to its end, or excused.                           *)
LEMMA LandKeeps ==
  ASSUME TypeOK, Core, GuardedInv, WriteLands, NEW s \in Pair, Alive(s), Kept(s)
  PROVE  Kept(s)'
<1> DEFINE op == Head(writes)
<1>u. /\ writes # <<>> /\ writes' = Tail(writes) /\ UNCHANGED <<root, current>>
      /\ rows' = IF Applies(rows, op) THEN Change(rows, op) ELSE rows
      /\ ending' = ending \cup Released(op)
      /\ idle' = idle \cup Abandoned(op)
      /\ op \in Op /\ op = writes[1] /\ rows \in Rows
  BY HeadOp DEF WriteLands, absVars, TypeOK
<1>s. \A u \in User : Chained(u)' => PairOf(u)' \in StoredPairs'
  BY DEF StoredPairs, Chained, PairOf
<1>1. CASE \E i \in 1..Len(writes) : writes[i].kind = "attach" /\ writes[i].pair = s
  <2>1. PICK i \in 1..Len(writes) : writes[i].kind = "attach" /\ writes[i].pair = s
    BY <1>1
  <2>2. CASE i # 1
    <3>1. i - 1 \in 1..Len(Tail(writes)) /\ Tail(writes)[i - 1] = writes[i]
      BY <2>2, <1>u DEF TypeOK
    <3> QED
      BY <1>u, <2>1, <3>1 DEF Kept
  <2>3. CASE i = 1
    <3>1. /\ op.kind = "attach" /\ op.pair = s /\ op.user \in User /\ op \in AttachOp
          /\ root[s] = s /\ rows' = Attach(rows, op)
      BY <1>u, <2>1, <2>3, OpFields DEF Core, FreshInv, Applies, Change
    <3>2. CASE HasLiveChain(rows, op.user)
      <4>1. s \in ending'
        BY <1>u, <3>1, <3>2 DEF Released
      <4> QED
        BY <1>u, <3>1, <4>1 DEF Kept
    <3>3. CASE ~HasLiveChain(rows, op.user)
      <4>1. rows'.chains[op.user] = [pair |-> s, dead |-> FALSE]
        BY <1>u, <3>1, <3>3, AttachRows
      <4>2. rows'.chains[op.user] # NoChain
        <5>1. [pair |-> s, dead |-> FALSE] \in Chain /\ NoChain \notin Chain
          BY NoRowAssumption DEF Chain
        <5> QED
          BY <4>1, <5>1
      <4>3. s \in StoredPairs'
        BY <3>1, <4>1, <4>2 DEF StoredPairs
      <4> QED
        BY <1>u, <3>1, <4>3 DEF Kept
    <3> QED
      BY <3>2, <3>3
  <2> QED
    BY <2>2, <2>3
<1>2. CASE \E p \in ending : root[p] = s
  BY <1>2, <1>u DEF Kept
<1>3. CASE s \in idle
  BY <1>3, <1>u DEF Kept
<1>4. ASSUME NEW u \in User, Chained(u), root[PairOf(u)] = s PROVE Kept(s)'
  <2>1. CASE rows'.chains[u] = rows.chains[u]
    <3>1. PairOf(u) \in StoredPairs'
      BY <1>4, <2>1, <1>s DEF Chained, PairOf
    <3> QED
      BY <1>4, <1>u, <3>1 DEF Kept
  <2>2. CASE rows'.chains[u] = NoChain /\ rows'.chains[u] # rows.chains[u]
    <3>1. op.kind = "remove" /\ RemoveApplies(rows, op) /\ op \in RemoveOp /\ rows' = Remove(rows, op)
      <4>1. Applies(rows, op) /\ rows' = Change(rows, op)
        BY <1>u, <2>2
      <4>2. CASE op.kind = "attach"
        <5>1. op \in AttachOp /\ rows' = Attach(rows, op)
          BY <1>u, <4>1, <4>2, OpFields DEF Change
        <5>2. /\ \A v \in User : v # op.user => rows'.chains[v] = rows.chains[v]
              /\ HasLiveChain(rows, op.user) => rows'.chains = rows.chains
              /\ ~HasLiveChain(rows, op.user) => rows'.chains[op.user] = [pair |-> op.pair, dead |-> FALSE]
          BY <5>1, <1>u, AttachRows
        <5>3. [pair |-> op.pair, dead |-> FALSE] \in Chain /\ NoChain \notin Chain
          BY <5>1, NoRowAssumption DEF AttachOp, Chain
        <5> QED
          BY <2>2, <5>2, <5>3
      <4>3. CASE op.kind \in {"update", "bury"}
        <5>1. op \in UpdateOp \cup BuryOp /\ StillHolds(rows, op)
          BY <1>u, <4>1, <4>3, OpFields DEF Applies
        <5>2. /\ \A v \in User \ {op.user} : rows'.chains[v] = rows.chains[v]
              /\ rows'.chains[op.user] \in Chain
          BY <5>1, <4>1, <1>u, UpdateBuryRows
        <5> QED
          BY <2>2, <5>2, NoRowAssumption DEF Chain
      <4>4. CASE op.kind = "touch"
        BY <2>2, <4>1, <4>4 DEF Change
      <4>5. CASE op.kind = "remove"
        BY <1>u, <4>1, <4>5, OpFields DEF Applies, Change
      <4> QED
        BY <4>2, <4>3, <4>4, <4>5, <1>u, OpFields
    <3>2. u = rows.devices[op.token] /\ Riders(rows, u) = {op.token}
      BY <1>u, <2>2, <3>1, RemoveRows
    <3>3. PairOf(u) \in ending'
      BY <1>u, <3>1, <3>2 DEF Released, PairOf
    <3> QED
      BY <1>4, <1>u, <3>3 DEF Kept
  <2>3. CASE rows'.chains[u] # NoChain /\ rows'.chains[u] # rows.chains[u]
    <3>1. Applies(rows, op) /\ rows' = Change(rows, op)
      BY <1>u, <2>3
    <3>2. /\ op.kind \in {"attach", "update", "bury"} /\ op.user = u
          /\ op.kind = "attach" => ~HasLiveChain(rows, u)
          /\ op.kind = "update" =>
               rows'.chains[u].pair = job.got /\ rows.chains[u].pair = job.spent /\ root[job.got] = root[job.spent]
          /\ op.kind = "bury" => rows'.chains[u].pair = rows.chains[u].pair
      BY <2>3, <3>1, ChainChange
    <3>3. CASE op.kind = "attach"
      <4>1. HasDeadChain(rows, u) /\ PairOf(u) \in excused
        <5>1. HasDeadChain(rows, u)
          BY <1>4, <3>2, <3>3 DEF HasDeadChain, HasLiveChain, Chained
        <5> QED
          BY <1>4, <5>1 DEF GuardedInv
      <4>2. s \in idle'
        BY <1>4, <1>u, <3>2, <3>3, <4>1 DEF Abandoned, PairOf
      <4> QED
        BY <4>2 DEF Kept
    <3>4. CASE op.kind \in {"update", "bury"}
      <4>1. root'[PairOf(u)'] = s
        BY <1>4, <1>u, <3>2, <3>4 DEF PairOf
      <4>2. PairOf(u)' \in StoredPairs'
        BY <1>s, <2>3 DEF Chained
      <4> QED
        BY <4>1, <4>2 DEF Kept
    <3> QED
      BY <3>2, <3>3, <3>4
  <2> QED
    BY <2>1, <2>2, <2>3
<1> QED
  BY <1>1, <1>2, <1>3, <1>4, Stored DEF Kept

LEMMA FailKeeps ==
  ASSUME TypeOK, WriteFails, NEW s \in Pair, Alive(s), Kept(s)
  PROVE  Kept(s)'
<1> DEFINE op == Head(writes)
<1>u. /\ writes # <<>> /\ writes' = Tail(writes) /\ UNCHANGED <<rows, root, current, ending>>
      /\ idle' = IF op.kind = "attach" /\ Alive(op.pair) THEN idle \cup {op.pair} ELSE idle
      /\ op = writes[1]
  BY HeadOp DEF WriteFails, absVars
<1>1. CASE \E i \in 1..Len(writes) : writes[i].kind = "attach" /\ writes[i].pair = s
  <2>1. PICK i \in 1..Len(writes) : writes[i].kind = "attach" /\ writes[i].pair = s
    BY <1>1
  <2>2. CASE i # 1
    <3>1. i - 1 \in 1..Len(Tail(writes)) /\ Tail(writes)[i - 1] = writes[i]
      BY <2>2, <1>u DEF TypeOK
    <3> QED
      BY <1>u, <2>1, <3>1 DEF Kept
  <2>3. CASE i = 1
    BY <2>1, <2>3, <1>u DEF Kept
  <2> QED
    BY <2>2, <2>3
<1>2. CASE s \in idle \/ \E p \in StoredPairs \cup ending : root[p] = s
  BY <1>2, <1>u DEF Kept, StoredPairs
<1> QED
  BY <1>1, <1>2 DEF Kept

LEMMA HaltKeeps ==
  ASSUME Halt, NEW s \in Pair, Alive(s), Kept(s)
  PROVE  Kept(s)'
<1>1. StoredPairs' = StoredPairs /\ root' = root
  BY DEF Halt, StoredPairs, absVars
<1>2. CASE \E p \in StoredPairs : root[p] = s
  BY <1>1, <1>2 DEF Kept
<1>3. CASE ~(\E p \in StoredPairs : root[p] = s)
  BY <1>3 DEF Kept, Halt
<1> QED
  BY <1>2, <1>3

LEMMA StepKeeps ==
  ASSUME TypeOK, Core, GuardedInv, NoIdleSession, [NextUnrefused]_vars
  PROVE  NoIdleSession'
<1>q. ASSUME UNCHANGED <<rows, root, current, ending, idle>>,
             writes' = writes \/ \E op : writes' = Append(writes, op)
      PROVE  NoIdleSession'
  <2>1. \A i \in 1..Len(writes) : i \in 1..Len(writes') /\ writes'[i] = writes[i]
    BY <1>q DEF TypeOK
  <2>2. \A s \in Pair : Kept(s) => Kept(s)'
    BY <1>q, <2>1 DEF Kept, StoredPairs
  <2>3. \A s \in Pair : Alive(s)' => Alive(s)
    BY <1>q DEF Alive
  <2> QED
    BY <2>2, <2>3, KeptAll
<1>0. CASE UNCHANGED vars
  BY <1>0, <1>q DEF vars, absVars, ghosts
<1>1. CASE Revoke
  <2>1. PICK p \in current : /\ current' = current \ {p} /\ idle' = idle \ {root[p]}
                             /\ UNCHANGED <<rows, writes, ending, root>>
    BY <1>1 DEF Revoke
  <2>2. \A s : Alive(s)' => Alive(s) /\ s # root[p]
    BY <2>1, Ended DEF Core
  <2>3. \A s \in Pair : Alive(s)' /\ Kept(s) => Kept(s)'
    BY <2>1, <2>2 DEF Kept, StoredPairs
  <2> QED
    BY <2>2, <2>3, KeptAll
<1>2. CASE Age \/ Sweep \/ Stop \/ Drained \/ Boot \/ RefreshBegins \/ RefreshAnswered \/ RefreshRefused
           \/ RefreshTimesOut
  BY <1>2, <1>q DEF Age, Sweep, Stop, Drained, Boot, RefreshBegins, RefreshAnswered, RefreshRefused,
    RefreshTimesOut, absVars, ghosts
<1>3. ASSUME NEW t \in NewTokens, NEW u \in User, NEW q \in NewPairs, SignIn(t, u, q) PROVE NoIdleSession'
  <2> DEFINE op == [kind |-> "attach", token |-> t, user |-> u, pair |-> q]
  <2>1. /\ Mint(q, q) /\ current' = current \cup {q} /\ UNCHANGED <<rows, ending>>
        /\ \/ writes' = Append(writes, op) /\ idle' = idle \ {q}
           \/ writes' = writes /\ idle' = idle \cup {q}
    BY <1>3 DEF SignIn
  <2>2. \A s : Alive(s)' <=> Alive(s) \/ s = q
    BY <2>1, SessionOpens
  <2>3. op \in Op
    BY NewToken, NewPair DEF Op, AttachOp
  <2>4. StoredPairs' = StoredPairs /\ StoredPairs \subseteq Pair /\ ending \subseteq Pair
    BY <2>1, StoredType DEF StoredPairs, TypeOK
  <2>5. \A p \in StoredPairs \cup ending : root'[p] = root[p]
    BY <2>1, <2>4, Minted
  <2>6. \A i \in 1..Len(writes) : i \in 1..Len(writes') /\ writes'[i] = writes[i]
    BY <2>1, <2>3, QueueAppend DEF TypeOK
  <2>7. \A s \in Pair : s # q /\ Kept(s) => Kept(s)'
    BY <2>1, <2>4, <2>5, <2>6 DEF Kept
  <2>8. Kept(q)'
    <3>1. CASE writes' = Append(writes, op)
      <4>1. writes' \in Seq(Op) /\ writes'[Len(writes) + 1] = op /\ Len(writes) + 1 \in 1..Len(writes')
        BY <2>3, <3>1 DEF TypeOK
      <4>2. op.kind = "attach" /\ op.pair = q
        OBVIOUS
      <4> QED
        BY <4>1, <4>2 DEF Kept
    <3>2. CASE q \in idle'
      BY <3>2 DEF Kept
    <3> QED
      BY <2>1, <3>1, <3>2
  <2>9. ASSUME NEW s \in Pair, Alive(s)' PROVE Kept(s)'
    BY <2>2, <2>7, <2>8, <2>9 DEF NoIdleSession, Kept
  <2> QED
    BY <2>9 DEF NoIdleSession, Kept
<1>4. ASSUME NEW t \in Token, SignOut(t) PROVE NoIdleSession'
  BY <1>4, <1>q DEF SignOut, absVars, ghosts
<1>5. ASSUME NEW r, NEW t, RequestBegins(r, t) PROVE NoIdleSession'
  BY <1>5, <1>q DEF RequestBegins, absVars, ghosts
<1>6. ASSUME NEW u, SweepNext(u) PROVE NoIdleSession'
  BY <1>6, <1>q DEF SweepNext, absVars, ghosts
<1>7. ASSUME NEW r, RequestSucceeds(r) PROVE NoIdleSession'
  BY <1>7, <1>q DEF RequestSucceeds, absVars, ghosts
<1>8. ASSUME NEW q \in NewPairs, AbsRotates(q) PROVE NoIdleSession'
  <2>1. Mint(q, root[job.spent]) /\ UNCHANGED <<rows, writes, ending, idle>>
    BY <1>8 DEF AbsRotates
  <2>2. StoredPairs' = StoredPairs /\ StoredPairs \subseteq Pair /\ ending \subseteq Pair
    BY <2>1, StoredType DEF StoredPairs, TypeOK
  <2>3. \A p \in StoredPairs \cup ending : root'[p] = root[p]
    BY <2>1, <2>2, Minted
  <2>4. \A s \in Pair : Kept(s) => Kept(s)'
    BY <2>1, <2>2, <2>3 DEF Kept
  <2>5. \A s \in Pair : Alive(s)' => Alive(s)
    BY <1>8, SessionRenews DEF Core
  <2> QED
    BY <2>4, <2>5, KeptAll
<1>9. ASSUME NEW p \in Pair, LogoutSettles(p) PROVE NoIdleSession'
  <2>0. /\ ending' = ending \ {p} /\ UNCHANGED <<rows, writes, root>>
        /\ \/ p \in current /\ current' = current \ {p} /\ idle' = idle
           \/ /\ current' = current
              /\ idle' = IF Alive(root[p]) THEN idle \cup {root[p]} ELSE idle
    BY <1>9 DEF LogoutSettles
  <2>1. \A s : Alive(s)' => Alive(s) /\ (s = root[p] => s \in idle')
    <3>1. CASE p \in current /\ current' = current \ {p} /\ root' = root
      BY <3>1, Ended DEF Core
    <3>2. CASE current' = current /\ idle' = IF Alive(root[p]) THEN idle \cup {root[p]} ELSE idle
      BY <2>0, <3>2 DEF Alive
    <3> QED
      BY <2>0, <3>1, <3>2
  <2>2. idle \subseteq idle'
    BY <2>0
  <2>3. \A s \in Pair : Alive(s)' /\ Kept(s) => Kept(s)'
    BY <2>0, <2>1, <2>2 DEF Kept, StoredPairs
  <2> QED
    BY <2>1, <2>3, KeptAll
<1>10. CASE WriteLands
  <2>1. \A s : Alive(s)' => Alive(s)
    BY <1>10 DEF WriteLands, absVars, Alive
  <2> QED
    BY <1>10, <2>1, LandKeeps, KeptAll
<1>11. CASE WriteFails
  <2>1. \A s : Alive(s)' => Alive(s)
    BY <1>11 DEF WriteFails, absVars, Alive
  <2> QED
    BY <1>11, <2>1, FailKeeps, KeptAll
<1>12. CASE Crash \/ Exit
  <2>1. Halt
    BY <1>12 DEF Crash, Exit
  <2>2. \A s : Alive(s)' => Alive(s)
    BY <2>1 DEF Halt, absVars, Alive
  <2> QED
    BY <2>1, <2>2, HaltKeeps, KeptAll
<1> QED
  BY <1>0, <1>1, <1>2, <1>3, <1>4, <1>5, <1>6, <1>7, <1>8, <1>9, <1>10, <1>11, <1>12
  DEF NextUnrefused, External, Clients, Refreshing, Answering, Writing, Process

LEMMA StepUnrefused == UInv /\ [NextUnrefused]_vars => UInv'
<1> SUFFICES ASSUME UInv, [NextUnrefused]_vars PROVE UInv'
  OBVIOUS
<1>1. IInv /\ TypeOK /\ Core /\ GuardedInv /\ NoIdleSession
  BY DEF UInv, IInv, Core
<1>2. IInv' /\ TypeOK'
  <2>1. IInv'
    BY <1>1, StepInv, UnrefusedStep
  <2> QED
    BY <2>1 DEF IInv
<1>3. GuardedInv'
  BY <1>1, <1>2, StepGuarded
<1>4. NoIdleSession'
  BY <1>1, StepKeeps
<1> QED
  BY <1>2, <1>3, <1>4 DEF UInv

(* What holds besides while ABS refuses no access token ahead of its       *)
(* expiry: a chain dies of a refused refresh only (markDead).              *)
THEOREM UnrefusedInvariant == SpecUnrefused => []UInv
<1>1. Init => UInv
  BY InitInv DEF UInv
<1> QED
  BY <1>1, StepUnrefused, PTL DEF SpecUnrefused

(* Every session ABS keeps is some user's, on its way to be, on its way to *)
(* its end, or was left over for a reason the code names, through lost     *)
(* answers, failed writes, rotations and crashes (signIn, signOut).        *)
THEOREM NoIdleSessionLeft == SpecUnrefused => []NoIdleSession
BY UnrefusedInvariant, PTL DEF UInv

(* No chain dies while ABS would still renew it, however refreshes,        *)
(* sign-ins and sign-outs overlap (markDead).                              *)
THEOREM NoStaleDeath == SpecUnrefused => NoDeathOverStaleNews
<1>1. UInv /\ [NextUnrefused]_vars =>
        [\A u \in User :
           HasLiveChain(rows, u) /\ HasDeadChain(rows', u)
             => rows.chains[u].pair \notin current]_vars
  <2> SUFFICES ASSUME UInv, [NextUnrefused]_vars, NEW u \in User,
                      HasLiveChain(rows, u), HasDeadChain(rows', u)
               PROVE  rows.chains[u].pair \notin current
    OBVIOUS
  <2>1. TypeOK /\ Core /\ GuardedInv /\ [Next]_vars
    BY UnrefusedStep DEF UInv, IInv, Core
  <2> QED
    BY <2>1, NoDeathStep
<1> QED
  BY <1>1, UnrefusedInvariant, PTL DEF SpecUnrefused, NoDeathOverStaleNews
=============================================================================
