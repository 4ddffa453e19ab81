-------------------------- MODULE SonosClientProofs --------------------------
(***************************************************************************)
(* Theorems about SonosClient, for any number of readers and managers.     *)
(***************************************************************************)
EXTENDS SonosClient, TLAPS

(* An initialization that somebody awaits is under way, so one of its ends *)
(* is possible: no failure of another reader takes it away from under its  *)
(* waiters.                                                                *)
WaitersAreAnswered ==
  \A r \in Reader : readers[r].at = "initializing" => life[readers[r].of] = "initializing"

(* The flag that suppresses the next probe stands only while the probe has *)
(* a read under way.                                                       *)
ProbeIsUnderWay == refreshing => readers[Probe] # IdleReader

IInv ==
  /\ TypeOK
  /\ NothingDeadIsCached
  /\ ClosedForGood
  /\ WaitersAreAnswered
  /\ ProbeIsUnderWay

-----------------------------------------------------------------------------
LEMMA InitIInv == Init => IInv
<1> SUFFICES ASSUME Init
             PROVE  IInv
  OBVIOUS
<1> USE ReaderAssumption DEF Init
<1>1. IdleReader.at = "idle"
  BY DEF IdleReader
<1>2. TypeOK
  BY DEF TypeOK
<1>3. NothingDeadIsCached /\ ClosedForGood /\ ProbeIsUnderWay
  BY DEF NothingDeadIsCached, ClosedForGood, ProbeIsUnderWay
<1>4. WaitersAreAnswered
  BY <1>1 DEF WaitersAreAnswered
<1> QED
  BY <1>2, <1>3, <1>4 DEF IInv

(* ReadBegins, as a request and as the probe. *)
LEMMA ReadBeginsIInv ==
  ASSUME IInv, NEW r \in Reader, ReadBegins(r),
         refreshing' \in BOOLEAN,
         refreshing' => refreshing \/ r = Probe
  PROVE  IInv'
<1> USE ReaderAssumption DEF IInv, TypeOK
<1>0. /\ readers' \in [Reader -> {IdleReader} \cup [at : {"initializing", "reading"}, of : Manager]]
      /\ initPromise' \in Manager \cup {NoManager}
      /\ life' \in [Manager -> {"gone", "initializing", "ready"}]
      /\ UNCHANGED <<manager, reachable, closed>>
      /\ readers'[r] # IdleReader
      /\ \A q \in Reader \ {r} : readers'[q] = readers[q]
  BY DEF ReadBegins, NewManagers, IdleReader
<1>1. TypeOK'
  BY <1>0
<1>2. NothingDeadIsCached'
  BY <1>0 DEF ReadBegins, NewManagers, NothingDeadIsCached
<1>3. ClosedForGood'
  BY <1>0 DEF ClosedForGood
<1>4. WaitersAreAnswered'
  BY <1>0 DEF ReadBegins, NewManagers, WaitersAreAnswered, NothingDeadIsCached, IdleReader
<1>5. ProbeIsUnderWay'
  BY <1>0 DEF ProbeIsUnderWay
<1> QED
  BY <1>1, <1>2, <1>3, <1>4, <1>5

(* Some readers are through. *)
LEMMA EndReaders ==
  ASSUME TypeOK, ProbeIsUnderWay, NEW rs, End(rs)
  PROVE  /\ readers' \in [Reader -> {IdleReader} \cup [at : {"initializing", "reading"}, of : Manager]]
         /\ refreshing' \in BOOLEAN
         /\ \A r \in Reader : readers'[r] = IF r \in rs THEN IdleReader ELSE readers[r]
         /\ ProbeIsUnderWay'
BY ReaderAssumption DEF End, TypeOK, ProbeIsUnderWay

LEMMA NextIInv == IInv /\ [Next]_vars => IInv'
<1> SUFFICES ASSUME IInv, [Next]_vars
             PROVE  IInv'
  OBVIOUS
<1> USE ReaderAssumption DEF IInv
<1>0. IdleReader.at = "idle" /\ IdleReader.of = NoManager
  BY DEF IdleReader
<1>1. ASSUME NEW r \in Reader, RequestReads(r)
      PROVE  IInv'
  BY <1>1, ReadBeginsIInv DEF RequestReads, TypeOK
<1>2. CASE ProbeBegins
  BY <1>2, ReadBeginsIInv DEF ProbeBegins
<1>3. ASSUME NEW r \in Reader, ReadSucceeds(r)
      PROVE  IInv'
  <2>1. /\ readers' \in [Reader -> {IdleReader} \cup [at : {"initializing", "reading"}, of : Manager]]
        /\ refreshing' \in BOOLEAN
        /\ \A q \in Reader : readers'[q] = IF q \in {r} THEN IdleReader ELSE readers[q]
        /\ ProbeIsUnderWay'
    BY <1>3, EndReaders DEF ReadSucceeds
  <2>2. UNCHANGED <<manager, initPromise, life, closed>> /\ reachable' = "yes"
    BY <1>3 DEF ReadSucceeds
  <2> QED
    BY <1>0, <2>1, <2>2 DEF TypeOK, NothingDeadIsCached, ClosedForGood, WaitersAreAnswered
<1>4. ASSUME NEW r \in Reader, ReadFails(r)
      PROVE  IInv'
  <2>1. /\ readers' \in [Reader -> {IdleReader} \cup [at : {"initializing", "reading"}, of : Manager]]
        /\ refreshing' \in BOOLEAN
        /\ \A q \in Reader : readers'[q] = IF q \in {r} THEN IdleReader ELSE readers[q]
        /\ ProbeIsUnderWay'
    BY <1>4, EndReaders DEF ReadFails
  <2>2. Reset /\ UNCHANGED closed /\ reachable' = "no"
    BY <1>4 DEF ReadFails
  <2> QED
    BY <1>0, <2>1, <2>2 DEF Reset, TypeOK, NothingDeadIsCached, ClosedForGood, WaitersAreAnswered
<1>5. ASSUME NEW m \in Manager, InitSucceeds(m)
      PROVE  IInv'
  <2>1. /\ manager' = m
        /\ life' = [life EXCEPT ![m] = "ready"]
        /\ \A q \in Reader : readers'[q] = IF readers[q] = [at |-> "initializing", of |-> m]
                                           THEN [at |-> "reading", of |-> m] ELSE readers[q]
        /\ ~closed
        /\ UNCHANGED <<initPromise, reachable, refreshing, closed>>
    BY <1>5 DEF InitSucceeds, WaitersFor
  <2>2. TypeOK'
    BY <1>5 DEF InitSucceeds, TypeOK
  <2>3. NothingDeadIsCached' /\ ClosedForGood'
    BY <2>1 DEF TypeOK, NothingDeadIsCached, ClosedForGood
  <2>4. WaitersAreAnswered'
    <3> SUFFICES ASSUME NEW q \in Reader, readers'[q].at = "initializing"
                 PROVE  life'[readers'[q].of] = "initializing"
      BY DEF WaitersAreAnswered
    <3>1. readers'[q] = readers[q] /\ readers[q] # [at |-> "initializing", of |-> m]
      BY <2>1
    <3>2. readers[q] \in [at : {"initializing", "reading"}, of : Manager]
      BY <1>0, <3>1 DEF TypeOK
    <3>3. readers[q].of # m
      BY <3>1, <3>2
    <3> QED
      BY <2>1, <3>1, <3>2, <3>3 DEF WaitersAreAnswered, TypeOK
  <2>5. ProbeIsUnderWay'
    BY <2>1, <1>0 DEF ProbeIsUnderWay
  <2> QED
    BY <2>2, <2>3, <2>4, <2>5
<1>6. ASSUME NEW m \in Manager, InitSucceedsLate(m) \/ InitFails(m)
      PROVE  IInv'
  <2>1. /\ readers' \in [Reader -> {IdleReader} \cup [at : {"initializing", "reading"}, of : Manager]]
        /\ refreshing' \in BOOLEAN
        /\ \A q \in Reader : readers'[q] = IF q \in WaitersFor(m) THEN IdleReader ELSE readers[q]
        /\ ProbeIsUnderWay'
    BY <1>6, EndReaders DEF InitSucceedsLate, InitFails
  <2>2. /\ manager' = NoManager /\ initPromise' = NoManager
        /\ life' = [n \in Manager |-> IF n \in {m, manager} THEN "gone" ELSE life[n]]
        /\ reachable' = "no" /\ UNCHANGED closed
    BY <1>6 DEF InitSucceedsLate, InitFails
  <2>3. TypeOK' /\ NothingDeadIsCached' /\ ClosedForGood'
    BY <2>1, <2>2 DEF TypeOK, NothingDeadIsCached, ClosedForGood
  <2>4. WaitersAreAnswered'
    <3> SUFFICES ASSUME NEW q \in Reader, readers'[q].at = "initializing"
                 PROVE  life'[readers'[q].of] = "initializing"
      BY DEF WaitersAreAnswered
    <3>1. readers'[q] = readers[q] /\ readers[q] # [at |-> "initializing", of |-> m]
      BY <1>0, <2>1 DEF WaitersFor
    <3>2. readers[q] \in [at : {"initializing", "reading"}, of : Manager]
      BY <1>0, <3>1 DEF TypeOK
    <3>3. readers[q].of # m /\ life[readers[q].of] = "initializing"
      BY <3>1, <3>2 DEF WaitersAreAnswered
    <3>4. readers[q].of # manager
      BY <3>2, <3>3 DEF NothingDeadIsCached
    <3> QED
      BY <2>2, <3>1, <3>2, <3>3, <3>4
  <2> QED
    BY <2>1, <2>3, <2>4
<1>7. CASE Close
  <2>1. Reset /\ UNCHANGED <<readers, reachable, refreshing>> /\ closed' = TRUE
    BY <1>7 DEF Close
  <2> QED
    BY <1>0, <2>1 DEF Reset, TypeOK, NothingDeadIsCached, ClosedForGood, WaitersAreAnswered,
       ProbeIsUnderWay
<1>8. CASE UNCHANGED vars
  BY <1>8 DEF vars, TypeOK, NothingDeadIsCached, ClosedForGood, WaitersAreAnswered, ProbeIsUnderWay
<1> QED
  BY <1>1, <1>2, <1>3, <1>4, <1>5, <1>6, <1>7, <1>8 DEF Next, Reads, Answers

(* Every reachable state satisfies the inductive invariant. *)
THEOREM InductiveInvariant == Spec => []IInv
<1> QED
  BY InitIInv, NextIInv, PTL DEF Spec

(* The state of the client has its types. *)
THEOREM TypeCorrect == Spec => []TypeOK
<1>1. IInv => TypeOK
  BY DEF IInv
<1> QED
  BY <1>1, InductiveInvariant, PTL

(* Whatever reads, resets and initializations overlap, no call is handed a *)
(* manager that was cancelled or never built.                              *)
THEOREM DeadIsForgotten == Spec => []NothingDeadIsCached
<1>1. IInv => NothingDeadIsCached
  BY DEF IInv
<1> QED
  BY <1>1, InductiveInvariant, PTL

(* A closed client has no manager again, however late an initialization    *)
(* that was in flight succeeds.                                            *)
THEOREM StaysClosed == Spec => []ClosedForGood
<1>1. IInv => ClosedForGood
  BY DEF IInv
<1> QED
  BY <1>1, InductiveInvariant, PTL

(* Nobody waits for nothing: an awaited initialization is under way, and   *)
(* the probe's flag stands only while its read is.  This is the safety     *)
(* half of ProbesComeToAnEnd.                                              *)
THEOREM NobodyWaitsForNothing == Spec => [](WaitersAreAnswered /\ ProbeIsUnderWay)
<1>1. IInv => WaitersAreAnswered /\ ProbeIsUnderWay
  BY DEF IInv
<1> QED
  BY <1>1, InductiveInvariant, PTL
=============================================================================
