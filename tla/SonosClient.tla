---------------------------- MODULE SonosClient ----------------------------
(***************************************************************************)
(* How the server holds on to its Sonos household                          *)
(* (packages/app/src/sonos/client.ts): one library manager, built by       *)
(* whoever needs it first and shared by every concurrent reader, dropped   *)
(* by any read that fails so that the next one discovers again.  Playback  *)
(* commands, the speaker list and the health probe all pass through a      *)
(* read of the live topology.                                              *)
(*                                                                         *)
(* The code between two awaits is one step: where several readers wait for *)
(* the same initialization, they all go on before anything else happens.   *)
(***************************************************************************)
EXTENDS FiniteSets

CONSTANTS
  Reader,      \* the calls that read the topology at once
  Probe,       \* the one of them that is the background probe of /health
  Manager,     \* library managers
  NoManager

ASSUME ReaderAssumption == Probe \in Reader /\ NoManager \notin Manager

VARIABLES
  manager,      \* this.manager
  initPromise,  \* this.initPromise, named by the manager it is to become
  life,         \* what has become of each manager: a "ready" one renews its subscription
  readers,      \* what each reader awaits, and of which manager
  reachable,    \* this.reachable
  refreshing,   \* this.refreshing
  closed        \* this.closed

vars == <<manager, initPromise, life, readers, reachable, refreshing, closed>>

IdleReader == [at |-> "idle", of |-> NoManager]

TypeOK ==
  /\ manager \in Manager \cup {NoManager}
  /\ initPromise \in Manager \cup {NoManager}
  /\ life \in [Manager -> {"gone", "initializing", "ready"}]
  /\ readers \in [Reader -> {IdleReader} \cup [at : {"initializing", "reading"}, of : Manager]]
  /\ reachable \in {"unknown", "yes", "no"}
  /\ refreshing \in BOOLEAN
  /\ closed \in BOOLEAN

Init ==
  /\ manager = NoManager
  /\ initPromise = NoManager
  /\ life = [m \in Manager |-> "gone"]
  /\ readers = [r \in Reader |-> IdleReader]
  /\ reachable = "unknown"
  /\ refreshing = FALSE
  /\ closed = FALSE

(* A manager nothing refers to any more is as good as a new one. *)
NewManagers ==
  { m \in Manager \ {manager, initPromise} : \A r \in Reader : readers[r].of # m }

WaitersFor(m) == { r \in Reader : readers[r] = [at |-> "initializing", of |-> m] }

-----------------------------------------------------------------------------
(* Beginning a read: ensureManager up to its first await.                  *)

ReadBegins(r) ==
  /\ readers[r] = IdleReader
  /\ \/ /\ manager # NoManager
        /\ readers' = [readers EXCEPT ![r] = [at |-> "reading", of |-> manager]]
        /\ UNCHANGED <<initPromise, life>>
     \/ /\ manager = NoManager
        /\ initPromise # NoManager
        /\ readers' = [readers EXCEPT ![r] = [at |-> "initializing", of |-> initPromise]]
        /\ UNCHANGED <<initPromise, life>>
     \/ /\ manager = NoManager
        /\ initPromise = NoManager
        /\ \E m \in NewManagers :
             /\ initPromise' = m
             /\ life' = [life EXCEPT ![m] = "initializing"]
             /\ readers' = [readers EXCEPT ![r] = [at |-> "initializing", of |-> m]]
  /\ UNCHANGED <<manager, reachable, closed>>

RequestReads(r) ==
  /\ r # Probe
  /\ ReadBegins(r)
  /\ UNCHANGED refreshing

(* isReachable answers at once, and probes in the background. *)
ProbeBegins ==
  /\ ~refreshing
  /\ ~closed
  /\ refreshing' = TRUE
  /\ ReadBegins(Probe)

-----------------------------------------------------------------------------
(* How a read ends.                                                        *)

(* reset: cancel the manager there is, forget it and the initialization.   *)
ResetManagerOnly ==
  /\ life' = IF manager = NoManager THEN life ELSE [life EXCEPT ![manager] = "gone"]
  /\ manager' = NoManager
  /\ UNCHANGED initPromise

Reset ==
  /\ life' = IF manager = NoManager THEN life ELSE [life EXCEPT ![manager] = "gone"]
  /\ manager' = NoManager
  /\ initPromise' = NoManager

(* The readers that are through; the probe clears its flag either way.     *)
EndUnlessFailed(rs) ==
  /\ readers' = [r \in Reader |-> IF r \in rs THEN IdleReader ELSE readers[r]]
  /\ refreshing' = (refreshing /\ ~(Probe \in rs /\ reachable' = "yes"))

End(rs) ==
  /\ readers' = [r \in Reader |-> IF r \in rs THEN IdleReader ELSE readers[r]]
  /\ refreshing' = (refreshing /\ Probe \notin rs)

ReadSucceeds(r) ==
  /\ readers[r].at = "reading"
  /\ reachable' = "yes"
  /\ End({r})
  /\ UNCHANGED <<manager, initPromise, life, closed>>

(* An error, or no answer within the timeout: this reader's manager may    *)
(* not be the one there is by now.                                         *)
ReadFails(r) ==
  /\ readers[r].at = "reading"
  /\ reachable' = "no"
  /\ Reset
  /\ End({r})
  /\ UNCHANGED closed

-----------------------------------------------------------------------------
(* How an initialization ends.                                             *)

InitSucceedsUnchecked(m) ==
  /\ life[m] = "initializing"
  /\ WaitersFor(m) # {}
  /\ manager' = m
  /\ life' = [life EXCEPT ![m] = "ready"]
  /\ readers' = [r \in Reader |->
                   IF r \in WaitersFor(m) THEN [at |-> "reading", of |-> m] ELSE readers[r]]
  /\ UNCHANGED <<initPromise, reachable, refreshing, closed>>

InitSucceedsReadingTheField(m) ==
  /\ life[m] = "initializing"
  /\ WaitersFor(m) # {}
  /\ ~closed
  /\ manager' = m
  /\ life' = [life EXCEPT ![m] = "ready"]
  /\ readers' = [r \in Reader |->
                   IF r \in WaitersFor(m) THEN [at |-> "reading", of |-> manager] ELSE readers[r]]
  /\ UNCHANGED <<initPromise, reachable, refreshing, closed>>

(* Its waiters make it the manager and go on to read. *)
InitSucceeds(m) ==
  /\ life[m] = "initializing"
  /\ WaitersFor(m) # {}
  /\ ~closed
  /\ manager' = m
  /\ life' = [life EXCEPT ![m] = "ready"]
  /\ readers' = [r \in Reader |->
                   IF r \in WaitersFor(m) THEN [at |-> "reading", of |-> m] ELSE readers[r]]
  /\ UNCHANGED <<initPromise, reachable, refreshing, closed>>

(* The client was closed meanwhile: the manager is cancelled, not kept,    *)
(* and its readers fail.                                                   *)
InitSucceedsLate(m) ==
  /\ life[m] = "initializing"
  /\ WaitersFor(m) # {}
  /\ closed
  /\ manager' = NoManager
  /\ initPromise' = NoManager
  /\ life' = [n \in Manager |-> IF n \in {m, manager} THEN "gone" ELSE life[n]]
  /\ reachable' = "no"
  /\ End(WaitersFor(m))
  /\ UNCHANGED closed

(* A failed initialization is not cached, and fails all its readers; what  *)
(* one that timed out may still do is left out.                            *)
InitFails(m) ==
  /\ life[m] = "initializing"
  /\ WaitersFor(m) # {}
  /\ manager' = NoManager
  /\ initPromise' = NoManager
  /\ life' = [n \in Manager |-> IF n \in {m, manager} THEN "gone" ELSE life[n]]
  /\ reachable' = "no"
  /\ End(WaitersFor(m))
  /\ UNCHANGED closed

-----------------------------------------------------------------------------
(* close, from the server's onClose hook. *)
Close ==
  /\ ~closed
  /\ closed' = TRUE
  /\ Reset
  /\ UNCHANGED <<readers, reachable, refreshing>>

Reads == ProbeBegins \/ \E r \in Reader : RequestReads(r)

Answers ==
  \/ \E r \in Reader : ReadSucceeds(r) \/ ReadFails(r)
  \/ \E m \in Manager : InitSucceeds(m) \/ InitSucceedsLate(m) \/ InitFails(m)

Next == Reads \/ Answers \/ Close

Spec == Init /\ [][Next]_vars

(* Every call to the household is raced against a timeout but discovery,   *)
(* which "already self-bounds" (initialize): that is the library's promise *)
(* and taken from there.                                                   *)
FairSpec ==
  /\ Spec
  /\ \A r \in Reader : WF_vars(ReadSucceeds(r) \/ ReadFails(r))
  /\ \A m \in Manager : WF_vars(InitSucceeds(m) \/ InitSucceedsLate(m) \/ InitFails(m))

-----------------------------------------------------------------------------
(* "A failed read drops the manager so the next call re-discovers"         *)
(* (SonosClient), "a failed init is not cached" (ensureManager): whatever  *)
(* reads, resets and initializations overlap, a call that begins is never  *)
(* handed a manager that was cancelled or could not be built.              *)
NothingDeadIsCached ==
  /\ manager # NoManager => life[manager] = "ready"
  /\ manager = NoManager /\ initPromise # NoManager => life[initPromise] = "initializing"

(* "If the client was closed while init was in flight, cancel the freshly  *)
(* built manager's subscription rather than caching a live one"            *)
(* (ensureManager): a closed client never has a manager again.             *)
ClosedForGood == closed => manager = NoManager

(* "Avoids a leaked renew timer" (ensureManager): a manager that renews    *)
(* its subscription is the client's own, and will be cancelled with it.    *)
NoLeakedManager == \A m \in Manager : life[m] = "ready" => m = manager

(* "reachable: undefined only until the first live read settles"           *)
(* (isReachable): a probe in flight always comes to its end, so the flag   *)
(* that suppresses the next one is not left standing.                      *)
ProbesComeToAnEnd == refreshing ~> ~refreshing
=============================================================================
