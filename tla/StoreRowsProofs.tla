--------------------------- MODULE StoreRowsProofs ---------------------------
(***************************************************************************)
(* What the mutations of StoreRows do to the rows, for any rows of their   *)
(* type: the lemmas the proofs about the modules that queue them share.    *)
(***************************************************************************)
EXTENDS StoreRows, Naturals, Sequences, TLAPS

-----------------------------------------------------------------------------
(* Lemmas about the mutations.                                             *)

(* A mutation that applies yields rows.                                    *)
LEMMA ChangeType ==
  ASSUME NEW rows \in Rows, NEW op \in Op, Applies(rows, op)
  PROVE  Change(rows, op) \in Rows
<1>1. CASE op.kind = "attach"
  <2>1. op \in AttachOp
    BY <1>1 DEF Op, AttachOp, RemoveOp, UpdateOp, BuryOp, TouchOp
  <2> QED
    BY <1>1, <2>1 DEF Change, Attach, AttachOp, Rows, Chain
<1>2. CASE op.kind = "remove"
  <2>1. op \in RemoveOp
    BY <1>2 DEF Op, AttachOp, RemoveOp, UpdateOp, BuryOp, TouchOp
  <2> QED
    BY <1>2, <2>1 DEF Change, Remove, RemoveOp, Rows, Chain
<1>3. CASE op.kind = "update"
  <2>1. op \in UpdateOp /\ StillHolds(rows, op)
    BY <1>3 DEF Op, AttachOp, RemoveOp, UpdateOp, BuryOp, TouchOp, Applies
  <2>2. rows.chains[op.user] \in Chain
    BY <2>1 DEF StillHolds, UpdateOp, Rows
  <2> QED
    BY <1>3, <2>1, <2>2 DEF Change, Update, UpdateOp, Rows, Chain
<1>4. CASE op.kind = "bury"
  <2>1. op \in BuryOp /\ StillHolds(rows, op)
    BY <1>4 DEF Op, AttachOp, RemoveOp, UpdateOp, BuryOp, TouchOp, Applies
  <2>2. rows.chains[op.user] \in Chain
    BY <2>1 DEF StillHolds, BuryOp, Rows
  <2> QED
    BY <1>4, <2>1, <2>2 DEF Change, Bury, BuryOp, Rows, Chain
<1>5. CASE op.kind = "touch"
  BY <1>5 DEF Change
<1> QED
  BY <1>1, <1>2, <1>3, <1>4, <1>5 DEF Op, AttachOp, RemoveOp, UpdateOp, BuryOp, TouchOp

(* The rows each mutation leaves, spelt out map by map. *)
LEMMA AttachRows ==
  ASSUME NEW rows \in Rows, NEW op \in AttachOp
  PROVE  /\ Attach(rows, op).devices[op.token] = op.user
         /\ \A t \in Token : t # op.token /\ HasDeadChain(rows, op.user) /\ rows.devices[t] = op.user
              => Attach(rows, op).devices[t] = NoUser
         /\ \A t \in Token : t # op.token /\ ~(HasDeadChain(rows, op.user) /\ rows.devices[t] = op.user)
              => Attach(rows, op).devices[t] = rows.devices[t]
         /\ \A u \in User : u # op.user => Attach(rows, op).chains[u] = rows.chains[u]
         /\ HasLiveChain(rows, op.user) => Attach(rows, op).chains = rows.chains
         /\ ~HasLiveChain(rows, op.user)
              => Attach(rows, op).chains[op.user] = [pair |-> op.pair, dead |-> FALSE]
BY DEF Attach, AttachOp, Rows, HasLiveChain, HasDeadChain

LEMMA RemoveRows ==
  ASSUME NEW rows \in Rows, NEW op \in RemoveOp, RemoveApplies(rows, op)
  PROVE  /\ rows.devices[op.token] \in User
         /\ Remove(rows, op).devices[op.token] = NoUser
         /\ \A t \in Token : t # op.token => Remove(rows, op).devices[t] = rows.devices[t]
         /\ \A u \in User : u # rows.devices[op.token] => Remove(rows, op).chains[u] = rows.chains[u]
         /\ Riders(rows, rows.devices[op.token]) = {op.token}
              => Remove(rows, op).chains[rows.devices[op.token]] = NoChain
         /\ Riders(rows, rows.devices[op.token]) # {op.token}
              => Remove(rows, op).chains = rows.chains
BY DEF Remove, RemoveApplies, RemoveOp, Rows

LEMMA UpdateBuryRows ==
  ASSUME NEW rows \in Rows, NEW op \in UpdateOp \cup BuryOp, StillHolds(rows, op)
  PROVE  /\ rows.chains[op.user] \in Chain
         /\ Change(rows, op).devices = rows.devices
         /\ \A u \in User \ {op.user} : Change(rows, op).chains[u] = rows.chains[u]
         /\ Change(rows, op).chains[op.user] \in Chain
         /\ rows.chains[op.user].dead => Change(rows, op).chains[op.user].dead
         /\ op \in UpdateOp =>
              Change(rows, op).chains[op.user].dead = rows.chains[op.user].dead
         /\ op \in BuryOp => Change(rows, op).chains[op.user].dead
<1>1. rows.chains[op.user] \in Chain
  BY DEF StillHolds, UpdateOp, BuryOp, Rows
<1>2. CASE op \in UpdateOp
  BY <1>1, <1>2 DEF Change, Update, UpdateOp, BuryOp, Rows, Chain
<1>3. CASE op \in BuryOp
  BY <1>1, <1>3 DEF Change, Bury, UpdateOp, BuryOp, Rows, Chain
<1> QED
  BY <1>1, <1>2, <1>3

(* A mutation keeps every device on a chain and every chain on a device:   *)
(* attach because its bearer is new and is added with a chain, remove      *)
(* because the chain goes exactly with its last rider.                     *)
LEMMA ChangeIntegrity ==
  ASSUME NEW rows \in Rows, NEW op \in Op, Applies(rows, op), ReferentialIntegrity(rows),
         op.kind = "attach" => rows.devices[op.token] = NoUser
  PROVE  ReferentialIntegrity(Change(rows, op))
<1> DEFINE after == Change(rows, op)
<1> USE NoRowAssumption
<1>0. NoChain \notin Chain
  BY DEF Chain
<1>1. CASE op.kind = "attach"
  <2>1. op \in AttachOp /\ after = Attach(rows, op) /\ op.user \in User /\ op.token \in Token
    BY <1>1 DEF Op, AttachOp, RemoveOp, UpdateOp, BuryOp, TouchOp, Change
  <2>r. /\ after.devices[op.token] = op.user
        /\ \A t \in Token : t # op.token /\ HasDeadChain(rows, op.user) /\ rows.devices[t] = op.user
             => after.devices[t] = NoUser
        /\ \A t \in Token : t # op.token /\ ~(HasDeadChain(rows, op.user) /\ rows.devices[t] = op.user)
             => after.devices[t] = rows.devices[t]
        /\ \A u \in User : u # op.user => after.chains[u] = rows.chains[u]
        /\ HasLiveChain(rows, op.user) => after.chains = rows.chains
        /\ ~HasLiveChain(rows, op.user)
             => after.chains[op.user] = [pair |-> op.pair, dead |-> FALSE]
    BY <2>1, AttachRows
  <2> HIDE DEF after
  <2>2. after.chains[op.user] # NoChain
    <3>1. [pair |-> op.pair, dead |-> FALSE] \in Chain
      BY <2>1 DEF AttachOp, Chain
    <3> QED
      BY <1>0, <2>1, <3>1, AttachRows DEF HasLiveChain
  <2>3. DevicesHaveChains(after)
    <3> SUFFICES ASSUME NEW t \in Token, after.devices[t] # NoUser
                 PROVE  after.chains[after.devices[t]] # NoChain
      BY DEF DevicesHaveChains
    <3>1. CASE t = op.token
      BY <2>1, <2>2, <3>1, <2>r
    <3>2. CASE t # op.token
      <4>1. after.devices[t] = rows.devices[t]
        BY <2>1, <3>2, <2>r
      <4>2. rows.devices[t] \in User
        BY <4>1 DEF Rows
      <4>3. rows.chains[rows.devices[t]] # NoChain
        BY <4>1 DEF ReferentialIntegrity, DevicesHaveChains
      <4> QED
        BY <2>1, <2>2, <4>1, <4>2, <4>3, <2>r
    <3> QED
      BY <3>1, <3>2
  <2>4. ChainsHaveDevices(after)
    <3> SUFFICES ASSUME NEW u \in User, after.chains[u] # NoChain
                 PROVE  \E t \in Token : after.devices[t] = u
      BY DEF ChainsHaveDevices, Riders
    <3>1. CASE u = op.user
      BY <2>1, <3>1, <2>r
    <3>2. CASE u # op.user
      <4>1. rows.chains[u] # NoChain
        BY <2>1, <3>2, <2>r
      <4>2. PICK t \in Token : rows.devices[t] = u
        BY <4>1 DEF ReferentialIntegrity, ChainsHaveDevices, Riders
      <4>3. t # op.token
        BY <1>1, <4>2
      <4> QED
        BY <2>1, <3>2, <4>2, <4>3, <2>r
    <3> QED
      BY <3>1, <3>2
  <2> QED
    BY <2>3, <2>4 DEF ReferentialIntegrity, after
<1>2. CASE op.kind = "remove"
  <2>1. op \in RemoveOp /\ RemoveApplies(rows, op) /\ after = Remove(rows, op)
    BY <1>2 DEF Op, AttachOp, RemoveOp, UpdateOp, BuryOp, TouchOp, Applies, Change
  <2> DEFINE user == rows.devices[op.token]
  <2>2. user \in User /\ op.token \in Token
    BY <2>1, RemoveRows DEF RemoveOp
  <2>3. DevicesHaveChains(after)
    <3> SUFFICES ASSUME NEW t \in Token, after.devices[t] # NoUser
                 PROVE  after.chains[after.devices[t]] # NoChain
      BY DEF DevicesHaveChains
    <3>1. t # op.token /\ after.devices[t] = rows.devices[t] /\ rows.devices[t] \in User
      BY <2>1, <2>2, RemoveRows DEF Rows
    <3>2. rows.chains[rows.devices[t]] # NoChain
      BY <3>1 DEF ReferentialIntegrity, DevicesHaveChains
    <3>3. rows.devices[t] = user => Riders(rows, user) # {op.token}
      BY <3>1 DEF Riders
    <3> QED
      BY <2>1, <2>2, <3>1, <3>2, <3>3, RemoveRows
  <2>4. ChainsHaveDevices(after)
    <3> SUFFICES ASSUME NEW u \in User, after.chains[u] # NoChain
                 PROVE  \E t \in Token : after.devices[t] = u
      BY DEF ChainsHaveDevices, Riders
    <3>1. rows.chains[u] # NoChain
      BY <2>1, <2>2, RemoveRows
    <3>2. PICK t \in Token : rows.devices[t] = u
      BY <3>1 DEF ReferentialIntegrity, ChainsHaveDevices, Riders
    <3>3. CASE t # op.token
      BY <2>1, <3>2, <3>3, RemoveRows
    <3>4. CASE t = op.token
      <4>1. Riders(rows, user) # {op.token}
        BY <2>1, <2>2, <3>2, <3>4, RemoveRows
      <4>2. PICK x \in Token \ {op.token} : rows.devices[x] = user
        BY <2>2, <4>1 DEF Riders
      <4> QED
        BY <2>1, <3>2, <3>4, <4>2, RemoveRows
    <3> QED
      BY <3>3, <3>4
  <2> QED
    BY <2>3, <2>4 DEF ReferentialIntegrity
<1>3. CASE op.kind \in {"update", "bury"}
  <2>1. op \in UpdateOp \cup BuryOp /\ StillHolds(rows, op)
    BY <1>3 DEF Op, AttachOp, RemoveOp, UpdateOp, BuryOp, TouchOp, Applies
  <2>2. after.devices = rows.devices
    BY <2>1, UpdateBuryRows
  <2>3. \A u \in User : after.chains[u] # NoChain <=> rows.chains[u] # NoChain
    BY <1>0, <2>1, UpdateBuryRows
  <2> QED
    BY <2>2, <2>3 DEF ReferentialIntegrity, DevicesHaveChains, ChainsHaveDevices, Riders, Rows
<1>4. CASE op.kind = "touch"
  BY <1>4 DEF Change
<1> QED
  BY <1>1, <1>2, <1>3, <1>4 DEF Op, AttachOp, RemoveOp, UpdateOp, BuryOp, TouchOp
(* A kind names the record an operation is. *)
LEMMA OpFields ==
  ASSUME NEW op \in Op
  PROVE  /\ op.kind \in {"attach", "remove", "update", "bury", "touch"}
         /\ op.kind = "attach" => op \in AttachOp /\ op.token \in Token /\ op.user \in User
         /\ op.kind = "remove" => op \in RemoveOp /\ op.token \in Token
         /\ op.kind = "update" => op \in UpdateOp /\ op.user \in User
         /\ op.kind = "bury" => op \in BuryOp /\ op.user \in User
BY DEF Op, AttachOp, RemoveOp, UpdateOp, BuryOp, TouchOp

(* The only device a mutation can add is the one attach names. *)
LEMMA ChangeDevices ==
  ASSUME NEW rows \in Rows, NEW op \in Op, Applies(rows, op)
  PROVE  \A t \in Token : Change(rows, op).devices[t] # NoUser =>
           \/ rows.devices[t] # NoUser
           \/ op.kind = "attach" /\ op.token = t
<1>1. CASE op.kind = "attach"
  <2>1. op \in AttachOp /\ Change(rows, op) = Attach(rows, op)
    BY <1>1, OpFields DEF Change
  <2>2. TAKE t \in Token
  <2>3. CASE t = op.token
    BY <1>1, <2>3
  <2>4. CASE t # op.token
    <3>1. CASE HasDeadChain(rows, op.user) /\ rows.devices[t] = op.user
      <4>1. Attach(rows, op).devices[t] = NoUser
        BY <2>1, <2>4, <3>1, AttachRows
      <4> QED
        BY <2>1, <4>1
    <3>2. CASE ~(HasDeadChain(rows, op.user) /\ rows.devices[t] = op.user)
      <4>1. Attach(rows, op).devices[t] = rows.devices[t]
        BY <2>1, <2>4, <3>2, AttachRows
      <4> QED
        BY <2>1, <4>1
    <3> QED
      BY <3>1, <3>2
  <2> QED
    BY <2>3, <2>4
<1>2. CASE op.kind = "remove"
  <2>1. op \in RemoveOp /\ RemoveApplies(rows, op) /\ Change(rows, op) = Remove(rows, op)
    BY <1>2, OpFields DEF Change, Applies
  <2> QED
    BY <2>1, RemoveRows
<1>3. CASE op.kind \in {"update", "bury"}
  <2>1. op \in UpdateOp \cup BuryOp /\ StillHolds(rows, op)
    BY <1>3, OpFields DEF Applies
  <2>2. Change(rows, op).devices = rows.devices
    BY <2>1, UpdateBuryRows
  <2> QED
    BY <2>2, Zenon
<1>4. CASE op.kind = "touch"
  BY <1>4 DEF Change
<1> QED
  BY <1>1, <1>2, <1>3, <1>4, OpFields

(* What the head and the tail of a queue of mutations are. *)
LEMMA QueueHead ==
  ASSUME NEW queue \in Seq(Op), queue # <<>>
  PROVE  /\ Head(queue) \in Op
         /\ Head(queue) = queue[1]
         /\ 1 \in 1..Len(queue)
         /\ Tail(queue) \in Seq(Op)
         /\ Len(Tail(queue)) = Len(queue) - 1
         /\ \A i \in 1..Len(Tail(queue)) :
              i + 1 \in 1..Len(queue) /\ Tail(queue)[i] = queue[i + 1]
OBVIOUS

LEMMA NoRowsType ==
  /\ NoRows \in Rows
  /\ ReferentialIntegrity(NoRows)
  /\ \A t \in Token : NoRows.devices[t] = NoUser
BY DEF NoRows, Rows, ReferentialIntegrity, DevicesHaveChains, ChainsHaveDevices

(* Loading rows that are whole changes nothing. *)
LEMMA LoadWholeRows ==
  ASSUME NEW rows \in Rows, ReferentialIntegrity(rows)
  PROVE  DropOrphans(rows) = rows
<1>1. \A u \in User : Riders(rows, u) = {} => rows.chains[u] = NoChain
  BY DEF ReferentialIntegrity, ChainsHaveDevices
<1> QED
  BY <1>1 DEF DropOrphans, Rows

(* The users whose chain has died. *)
LostUsers(rows) == { u \in User : HasDeadChain(rows, u) }

(* The users a mutation leaves with a dead chain. *)
LEMMA ChangeLost ==
  ASSUME NEW rows \in Rows, NEW op \in Op, Applies(rows, op)
  PROVE  /\ op.kind = "attach" => LostUsers(Change(rows, op)) = LostUsers(rows) \ {op.user}
         /\ op.kind = "remove" => LostUsers(Change(rows, op)) =
              IF Riders(rows, rows.devices[op.token]) = {op.token}
              THEN LostUsers(rows) \ {rows.devices[op.token]} ELSE LostUsers(rows)
         /\ op.kind = "bury" => LostUsers(Change(rows, op)) = LostUsers(rows) \cup {op.user}
         /\ op.kind \in {"update", "touch"} => LostUsers(Change(rows, op)) = LostUsers(rows)
<1>1. CASE op.kind = "attach"
  <2>1. op \in AttachOp /\ op.user \in User /\ Change(rows, op) = Attach(rows, op)
    BY <1>1, OpFields DEF Change
  <2>2. CASE HasLiveChain(rows, op.user)
    <3>1. Attach(rows, op).chains = rows.chains
      BY <2>1, <2>2, AttachRows
    <3> QED
      BY <1>1, <2>1, <2>2, <3>1 DEF LostUsers, HasDeadChain, HasLiveChain
  <2>3. CASE ~HasLiveChain(rows, op.user)
    <3>1. ~HasDeadChain(Attach(rows, op), op.user)
      <4>1. Attach(rows, op).chains[op.user] = [pair |-> op.pair, dead |-> FALSE]
        BY <2>1, <2>3, AttachRows
      <4> QED
        BY <4>1 DEF HasDeadChain
    <3>2. \A u \in User : u # op.user => (HasDeadChain(Attach(rows, op), u) <=> HasDeadChain(rows, u))
      <4>1. \A u \in User : u # op.user => Attach(rows, op).chains[u] = rows.chains[u]
        BY <2>1, AttachRows
      <4> QED
        BY <4>1, Zenon DEF HasDeadChain
    <3> QED
      BY <1>1, <2>1, <3>1, <3>2 DEF LostUsers
  <2> QED
    BY <2>2, <2>3
<1>2. CASE op.kind = "remove"
  <2>1. op \in RemoveOp /\ RemoveApplies(rows, op) /\ Change(rows, op) = Remove(rows, op)
    BY <1>2, OpFields DEF Change, Applies
  <2>2. CASE Riders(rows, rows.devices[op.token]) = {op.token}
    <3>1. ~HasDeadChain(Remove(rows, op), rows.devices[op.token])
      BY <2>1, <2>2, RemoveRows DEF HasDeadChain
    <3>2. \A u \in User : u # rows.devices[op.token] =>
             (HasDeadChain(Remove(rows, op), u) <=> HasDeadChain(rows, u))
      BY <2>1, RemoveRows DEF HasDeadChain
    <3> QED
      BY <1>2, <2>1, <2>2, <3>1, <3>2 DEF LostUsers
  <2>3. CASE Riders(rows, rows.devices[op.token]) # {op.token}
    <3>1. Remove(rows, op).chains = rows.chains
      BY <2>1, <2>3, RemoveRows
    <3> QED
      BY <1>2, <2>1, <2>3, <3>1 DEF LostUsers, HasDeadChain
  <2> QED
    BY <2>2, <2>3
<1>3. CASE op.kind = "update"
  <2>1. op \in UpdateOp /\ StillHolds(rows, op) /\ Change(rows, op) = Update(rows, op)
    BY <1>3, OpFields DEF Change, Applies
  <2>2. \A u \in User : HasDeadChain(Update(rows, op), u) <=> HasDeadChain(rows, u)
    BY <2>1, NoRowAssumption DEF Update, HasDeadChain, StillHolds, Rows, Chain, UpdateOp
  <2> QED
    BY <1>3, <2>1, <2>2 DEF LostUsers
<1>4. CASE op.kind = "bury"
  <2>1. op \in BuryOp /\ StillHolds(rows, op) /\ Change(rows, op) = Bury(rows, op)
    BY <1>4, OpFields DEF Change, Applies
  <2>2. /\ \A u \in User \ {op.user} : Bury(rows, op).chains[u] = rows.chains[u]
        /\ Bury(rows, op).chains[op.user] \in Chain
        /\ Bury(rows, op).chains[op.user].dead
    BY <2>1, UpdateBuryRows
  <2>3. \A u \in User : HasDeadChain(Bury(rows, op), u) <=> (HasDeadChain(rows, u) \/ u = op.user)
    BY <2>2, NoRowAssumption DEF HasDeadChain, Chain
  <2> QED
    BY <1>4, <2>1, <2>3 DEF LostUsers, BuryOp
<1>5. CASE op.kind = "touch"
  BY <1>5 DEF Change
<1> QED
  BY <1>1, <1>2, <1>3, <1>4, <1>5, OpFields
=============================================================================
