----------------------------- MODULE StoreRows -----------------------------
(***************************************************************************)
(* What the session store holds, and the change each of its mutations      *)
(* makes to a copy of it (packages/app/src/auth/sessionStore.ts).          *)
(*                                                                         *)
(* One device row per sign-in, keyed by the hash of the bearer; one chain  *)
(* per Audiobookshelf (ABS) user, shared by all of that user's devices     *)
(* (ADR-0004).  A row keeps its user; a chain keeps the access/refresh     *)
(* pair, abstracted to one value because the two are always minted and     *)
(* replaced together, and whether it has died.  Labels, dates and public   *)
(* ids are left out: nothing branches on them.                             *)
(*                                                                         *)
(* The module holds operators only.  SessionStore runs them through the    *)
(* store's write queue; ChainKeepAlive runs them as the atomic mutations   *)
(* that SessionStore shows them to be.                                     *)
(***************************************************************************)
CONSTANTS Token,     \* bearers, one per sign-in (256 random bits: never drawn twice)
          User,      \* ABS users
          Pair,      \* access/refresh pairs ABS has minted
          NoUser,    \* "no device row under this token"
          NoChain,   \* "no chain row for this user"
          NoPair     \* "no spentRefreshToken was given"

ASSUME NoRowAssumption ==
  /\ NoUser \notin User
  /\ NoPair \notin Pair
  /\ NoChain \notin [pair : Pair, dead : BOOLEAN]

Chain == [pair : Pair, dead : BOOLEAN]

Rows == [devices : [Token -> User \cup {NoUser}],
         chains  : [User -> Chain \cup {NoChain}]]

NoRows == [devices |-> [t \in Token |-> NoUser],
           chains  |-> [u \in User |-> NoChain]]

(* The devices of a user that ride its chain. *)
Riders(rows, u) == { t \in Token : rows.devices[t] = u }

(* The chain a user holds, if it holds one that has not died. *)
HasLiveChain(rows, u) == rows.chains[u] # NoChain /\ ~rows.chains[u].dead

HasDeadChain(rows, u) == rows.chains[u] # NoChain /\ rows.chains[u].dead

-----------------------------------------------------------------------------
(* The mutations, as SessionStore's callers queue them.                    *)

AttachOp  == [kind : {"attach"}, token : Token, user : User, pair : Pair]
RemoveOp  == [kind : {"remove"}, token : Token, user : User \cup {NoUser}]
UpdateOp  == [kind : {"update"}, user : User, pair : Pair, spent : Pair \cup {NoPair}]
BuryOp    == [kind : {"bury"}, user : User, spent : Pair \cup {NoPair}]
TouchOp   == [kind : {"touch"}]
Op        == AttachOp \cup RemoveOp \cup UpdateOp \cup BuryOp \cup TouchOp

(* attach: add the device; the supplied pair becomes the user's chain only *)
(* where the user has none that lives.  Replacing a dead one retires the   *)
(* user's other devices, whose tokens rode the chain that died.            *)
AttachKeepingSiblings(rows, op) ==
  [devices |-> [rows.devices EXCEPT ![op.token] = op.user],
   chains  |-> IF HasLiveChain(rows, op.user) THEN rows.chains
               ELSE [rows.chains EXCEPT ![op.user] = [pair |-> op.pair, dead |-> FALSE]]]

AttachReplacingLive(rows, op) ==
  [devices |-> [t \in Token |-> IF t = op.token THEN op.user
                                ELSE IF rows.devices[t] = op.user THEN NoUser
                                ELSE rows.devices[t]],
   chains  |-> [rows.chains EXCEPT ![op.user] = [pair |-> op.pair, dead |-> FALSE]]]

Attach(rows, op) ==
  IF HasLiveChain(rows, op.user)
  THEN [rows EXCEPT !.devices[op.token] = op.user]
  ELSE [devices |-> [t \in Token |->
                       IF t = op.token THEN op.user
                       ELSE IF HasDeadChain(rows, op.user) /\ rows.devices[t] = op.user
                            THEN NoUser
                            ELSE rows.devices[t]],
        chains  |-> [rows.chains EXCEPT ![op.user] = [pair |-> op.pair, dead |-> FALSE]]]

(* delete and deleteDeviceSession: the second is scoped to the caller's    *)
(* user, the first is not.                                                 *)
RemoveApplies(rows, op) ==
  /\ rows.devices[op.token] # NoUser
  /\ op.user \in {NoUser, rows.devices[op.token]}

(* The user's chain goes with the last device that rides it. *)
RemoveKeepingChain(rows, op) == [rows EXCEPT !.devices[op.token] = NoUser]

Remove(rows, op) ==
  LET user == rows.devices[op.token] IN
  [devices |-> [rows.devices EXCEPT ![op.token] = NoUser],
   chains  |-> IF Riders(rows, user) = {op.token}
               THEN [rows.chains EXCEPT ![user] = NoChain]
               ELSE rows.chains]

(* The optimistic guard of updateChain and markDead: the chain is still    *)
(* there and, where the caller named the token it spent, still holds it.   *)
StillHolds(rows, op) ==
  /\ rows.chains[op.user] # NoChain
  /\ op.spent \in {NoPair, rows.chains[op.user].pair}

(* updateChain keeps deadSince: only attach revives a chain. *)
UpdateReviving(rows, op) ==
  [rows EXCEPT !.chains[op.user] = [pair |-> op.pair, dead |-> FALSE]]

Update(rows, op) ==
  [rows EXCEPT !.chains[op.user].pair = op.pair]

(* markDead: the chain dies, its devices stay. *)
Bury(rows, op) ==
  [rows EXCEPT !.chains[op.user].dead = TRUE]

(* Whether a mutation changes anything; one that does not is not written.  *)
(* A touch is written when some "last used" is newer than the file's: that *)
(* value is not kept here, so both answers are possible.                   *)
Applies(rows, op) ==
  CASE op.kind = "attach" -> TRUE
    [] op.kind = "remove" -> RemoveApplies(rows, op)
    [] op.kind \in {"update", "bury"} -> StillHolds(rows, op)
    [] op.kind = "touch"  -> TRUE

Change(rows, op) ==
  CASE op.kind = "attach" -> Attach(rows, op)
    [] op.kind = "remove" -> Remove(rows, op)
    [] op.kind = "update" -> Update(rows, op)
    [] op.kind = "bury"   -> Bury(rows, op)
    [] op.kind = "touch"  -> rows

-----------------------------------------------------------------------------
(* What parsePayload checks or repairs when a file is loaded.              *)

DevicesHaveChains(rows) ==
  \A t \in Token : rows.devices[t] # NoUser => rows.chains[rows.devices[t]] # NoChain

ChainsHaveDevices(rows) ==
  \A u \in User : rows.chains[u] # NoChain => Riders(rows, u) # {}

ReferentialIntegrity(rows) == DevicesHaveChains(rows) /\ ChainsHaveDevices(rows)

(* Loading drops the chains no device references. *)
DropOrphans(rows) ==
  [rows EXCEPT !.chains = [u \in User |-> IF Riders(rows, u) = {} THEN NoChain ELSE rows.chains[u]]]
=============================================================================
