--------------------------- MODULE DeviceRecords ---------------------------
(***************************************************************************)
(* What SessionStore leaves out of a device row, added to its steps        *)
(* (packages/app/src/auth/sessionStore.ts): the public id a client lists   *)
(* its device sessions by, and when the device was last used.              *)
(*                                                                         *)
(* "Last used" is exact in memory and written to the file only when the    *)
(* file's value is older than an interval, at most once per interval,      *)
(* whether that write succeeds or not; a clean stop writes out the rest.   *)
(* An id is drawn with the row.  The file may be one an older release      *)
(* wrote: rows without ids, which get theirs while the server boots, or    *)
(* one entry per device with a chain of its own (ADR-0004), which every    *)
(* boot brings to today's shape as it reads it, until a write replaces it. *)
(***************************************************************************)
EXTENDS SessionStore

CONSTANTS Interval,   \* LAST_USED_PERSIST_INTERVAL_MS
          MaxTime,    \* bound on the clock
          NoEntry     \* "the old file has no entry of this device"

ASSUME IntervalAssumption == Interval \in Nat \ {0} /\ MaxTime \in Nat \ {0}

VARIABLES
  clock,        \* the time, counted from 1
  kept,         \* id and "last used" of each row: in the file, live, and in the copy changed
  lastUsed,     \* this.lastUsed: the exact values, in memory only
  lastAttempt,  \* this.lastAttempt: when each device last asked for a write-through
  closing,      \* the onClose hook's flushLastUsed: not begun, awaited, or how it
                \* settled; and whether the hook was through when the process ended
  entries       \* the file's single list, where an older release wrote one: such a
                \* file has none of today's rows

details == <<clock, kept, lastUsed, lastAttempt, closing, entries>>
allVars == <<vars, details>>

Never == 0
Time  == 1..MaxTime
NoId  == 0
Id    == {1, 2}   \* an id is named by its row and by which draw it was

Blank   == [id |-> NoId, used |-> Never]
Details == [Token -> [id : Id \cup {NoId}, used : Time \cup {Never}]]
NoDetails == [t \in Token |-> Blank]
NoTimes   == [t \in Token |-> Never]

(* An entry of the single-list shape, and how its chain's age compares.    *)
Entry == [user : User, pair : Pair, refreshed : {1, 2}, dead : BOOLEAN]
NoEntries == [t \in Token |-> NoEntry]

Living(old, u) == { t \in Token : old[t] # NoEntry /\ old[t].user = u /\ ~old[t].dead }

(* The last of a user's entries that none was refreshed after.             *)
IsFreshest(old, u, t) ==
  /\ t \in Living(old, u)
  /\ \A other \in Living(old, u) \ {t} : old[other].refreshed < old[t].refreshed

(* A file lists its entries in order: one of each user's is the freshest.  *)
SingleList ==
  { old \in [Token -> Entry \cup {NoEntry}] :
      \A u \in User : Living(old, u) # {} => \E t \in Token : IsFreshest(old, u, t) }

DetailsTypeOK ==
  /\ TypeOK
  /\ clock \in Time
  /\ kept \in [file : Details, live : Details, next : Details]
  /\ lastUsed \in [Token -> Time \cup {Never}]
  /\ lastAttempt \in [Token -> Time \cup {Never}]
  /\ closing \in {"no", "flushing", "flushed", "failed", "exited"}
  /\ entries \in SingleList

-----------------------------------------------------------------------------
(* Reading the old shape: migrateLegacyEntries.                            *)

Freshest(old, u) == CHOOSE t \in Token : IsFreshest(old, u, t)

(* A dead device is retired, the others share the freshest of their        *)
(* user's chains.                                                          *)
MigratedKeepingTheDead(old) ==
  [devices |-> [t \in Token |-> IF old[t] = NoEntry THEN NoUser ELSE old[t].user],
   chains  |-> [u \in User |->
                  IF Living(old, u) = {} THEN NoChain
                  ELSE [pair |-> old[Freshest(old, u)].pair, dead |-> FALSE]]]

Migrated(old) ==
  [devices |-> [t \in Token |->
                  IF old[t] = NoEntry \/ old[t].dead THEN NoUser ELSE old[t].user],
   chains  |-> [u \in User |->
                  IF Living(old, u) = {} THEN NoChain
                  ELSE [pair |-> old[Freshest(old, u)].pair, dead |-> FALSE]]]

(* parsePayload, of a file of either shape. *)
ParsedRows == IF entries = NoEntries THEN DropOrphans(file.rows) ELSE Migrated(entries)

(* No file yet, one whose rows have no ids, or one of the single-list shape. *)
FileLeftBehind ==
  \/ /\ file = NoFile
     /\ entries = NoEntries
  \/ \E rows \in Rows :
       /\ file = [revision |-> 0, rows |-> rows]
       /\ \/ ReferentialIntegrity(rows) /\ entries = NoEntries
          \/ rows = NoRows /\ entries \in SingleList

DetailsInit ==
  /\ FileLeftBehind
  /\ issued = { t \in Token : \/ entries[t] # NoEntry
                              \/ file # NoFile /\ file.rows.devices[t] # NoUser }
  /\ phase = "down"
  /\ live = NoRows
  /\ revision = 0
  /\ writes = <<>>
  /\ stage = "idle"
  /\ next = NoRows
  /\ attempt = 0
  /\ clock = 1
  /\ kept = [file |-> NoDetails, live |-> NoDetails, next |-> NoDetails]
  /\ lastUsed = NoTimes
  /\ lastAttempt = NoTimes
  /\ closing = "no"

-----------------------------------------------------------------------------
(* Boot.                                                                   *)

(* idsGenerated: some row that is read has no id yet, as no row that is    *)
(* made of an old entry has.                                               *)
IdsGenerated ==
  /\ file # NoFile
  /\ \E t \in Token : ParsedRows.devices[t] # NoUser /\ kept.file[t].id = NoId

(* No row is given an id: what is in the file stays there, as does an old  *)
(* list of nothing but dead devices, which leaves the maps empty.          *)
BootAsIs ==
  /\ ~IdsGenerated
  /\ Boot
  /\ kept' = [kept EXCEPT !.live = kept.file, !.next = kept.file]
  /\ closing' = "no"
  /\ UNCHANGED <<clock, lastUsed, lastAttempt, entries>>

(* Rows from before the ids are given some by the parse, and written back  *)
(* before the server is up.                                                *)
Drawn(t) == IF ParsedRows.devices[t] = NoUser THEN {NoId}
            ELSE IF kept.file[t].id = NoId THEN Id ELSE {kept.file[t].id}

ParseRows ==
  /\ phase = "down"
  /\ IdsGenerated
  /\ live' = ParsedRows
  /\ revision' = file.revision
  /\ \E ids \in [Token -> Id \cup {NoId}] :
       /\ \A t \in Token : ids[t] \in Drawn(t)
       /\ LET read == [t \in Token |-> [kept.file[t] EXCEPT !.id = ids[t]]] IN
          kept' = [kept EXCEPT !.live = read, !.next = read]
  /\ closing' = "no"
  /\ UNCHANGED <<file, writes, attempt, issued, clock, lastUsed, lastAttempt, entries>>

BootWithoutWritingIdsBack ==
  /\ ParseRows
  /\ phase' = "up"
  /\ UNCHANGED <<stage, next>>

BootWritingIdsBack ==
  /\ ParseRows
  /\ phase' = "creating"
  /\ stage' = "checking"
  /\ next' = live'

-----------------------------------------------------------------------------
(* The callers.                                                            *)

(* Sign-ins, sign-outs and the keep-alive loop's mutations; after the hook *)
(* has begun only the final write of a playback session still needs one.   *)
Ask ==
  /\ \/ /\ closing = "no"
        /\ \/ \E t \in Token, u \in User, p \in Pair : RequestAttach(t, u, p)
           \/ \E t \in Token, u \in User \cup {NoUser} : RequestRemove(t, u)
     \/ \E u \in User, p \in Pair, s \in Pair \cup {NoPair} : RequestUpdate(u, p, s)
     \/ \E u \in User, s \in Pair \cup {NoPair} : RequestBury(u, s)
  /\ UNCHANGED details

(* The file's value is older than the interval, or missing. *)
Stale(t) == kept.live[t].used = Never \/ clock - kept.live[t].used > Interval

AskedLately(t) == lastAttempt[t] # Never /\ clock - lastAttempt[t] < Interval

(* touch: the guard has proved the bearer of t. *)
TouchOnceOnly(t) ==
  /\ phase = "up"
  /\ closing = "no"
  /\ live.devices[t] # NoUser
  /\ HasLiveChain(live, live.devices[t])
  /\ lastUsed' = [lastUsed EXCEPT ![t] = clock]
  /\ IF Stale(t) /\ lastAttempt[t] = Never
     THEN lastAttempt' = [lastAttempt EXCEPT ![t] = clock] /\ RequestTouch
     ELSE UNCHANGED <<vars, lastAttempt>>
  /\ UNCHANGED <<clock, kept, closing, entries>>

Touch(t) ==
  /\ phase = "up"
  /\ closing = "no"
  /\ live.devices[t] # NoUser
  /\ HasLiveChain(live, live.devices[t])
  /\ lastUsed' = [lastUsed EXCEPT ![t] = clock]
  /\ IF Stale(t) /\ ~AskedLately(t)
     THEN lastAttempt' = [lastAttempt EXCEPT ![t] = clock] /\ RequestTouch
     ELSE UNCHANGED <<vars, lastAttempt>>
  /\ UNCHANGED <<clock, kept, closing, entries>>

(* onClose: the requests have been answered; flushLastUsed is queued.      *)
Close ==
  /\ phase = "up"
  /\ closing = "no"
  /\ \A i \in 1..Len(writes) : writes[i].kind \notin {"attach", "remove"}
  /\ RequestTouch
  /\ closing' = "flushing"
  /\ UNCHANGED <<clock, kept, lastUsed, lastAttempt, entries>>

-----------------------------------------------------------------------------
(* The write at the head of the queue.                                     *)

(* writeLastUsed: the exact values the rows do not have yet. *)
Unsaved == { t \in Token : live.devices[t] # NoUser /\ lastUsed[t] \notin {Never, kept.live[t].used} }

(* The rows a mutation leaves, with what is kept of each. *)
KeptOf(rows, op) ==
  [t \in Token |->
     IF rows.devices[t] = NoUser THEN Blank
     ELSE IF live.devices[t] = NoUser THEN [id |-> 1, used |-> Never]
     ELSE IF op.kind = "touch" /\ t \in Unsaved THEN [kept.live[t] EXCEPT !.used = lastUsed[t]]
     ELSE kept.live[t]]

(* flushLastUsed settles with the last of the touches queued. *)
HookSettles(how) ==
  closing' = IF closing = "flushing" /\ \A i \in 1..Len(writes') : writes'[i].kind # "touch"
             THEN how ELSE closing

WriteChanges ==
  /\ Mutate
  /\ Head(writes).kind = "touch" => Unsaved # {}
  /\ kept' = [kept EXCEPT !.next = KeptOf(next', Head(writes))]
  /\ UNCHANGED <<lastUsed, lastAttempt, closing, entries>>

WriteChangesNothing ==
  /\ MutateNothing
  /\ Head(writes).kind = "touch" => Unsaved = {}
  /\ HookSettles("flushed")
  /\ UNCHANGED <<kept, lastUsed, lastAttempt, entries>>

(* The renamed file, which has today's shape; and the swap, by which a     *)
(* device that is gone takes its times with it.                            *)
WriteLands ==
  /\ Publish
  /\ kept' = [kept EXCEPT !.file = kept.next]
  /\ entries' = NoEntries
  /\ UNCHANGED <<lastUsed, lastAttempt, closing>>

TimesOf(rows, times) == [t \in Token |-> IF rows.devices[t] = NoUser THEN Never ELSE times[t]]

WriteIsSwappedInUnpruned ==
  /\ Swap
  /\ kept' = [kept EXCEPT !.live = kept.next]
  /\ HookSettles("flushed")
  /\ UNCHANGED <<lastUsed, lastAttempt, entries>>

WriteIsSwappedIn ==
  /\ Swap
  /\ kept' = [kept EXCEPT !.live = kept.next]
  /\ lastUsed' = TimesOf(next, lastUsed)
  /\ lastAttempt' = TimesOf(next, lastAttempt)
  /\ HookSettles("flushed")
  /\ UNCHANGED entries

WriteFails ==
  /\ CheckThrows \/ GiveUp
  /\ kept' = [kept EXCEPT !.next = kept.live]
  /\ HookSettles("failed")
  /\ UNCHANGED <<lastUsed, lastAttempt, entries>>

WriteGoesOn ==
  /\ CheckFile \/ Retry
  /\ UNCHANGED <<kept, lastUsed, lastAttempt, closing, entries>>

Write ==
  /\ \/ WriteChanges
     \/ WriteChangesNothing
     \/ WriteLands
     \/ WriteIsSwappedIn
     \/ WriteFails
     \/ WriteGoesOn
  /\ UNCHANGED clock

-----------------------------------------------------------------------------
(* The process, and time.                                                  *)

ForgetMemory ==
  /\ kept' = [kept EXCEPT !.live = NoDetails, !.next = NoDetails]
  /\ lastUsed' = NoTimes
  /\ lastAttempt' = NoTimes
  /\ UNCHANGED <<clock, entries>>

Dies == Crash /\ ForgetMemory /\ closing' = "no"

(* The hook is through, and what it awaited after the flush has settled. *)
ExitWithoutFlush ==
  /\ closing # "no"
  /\ stage = "idle"
  /\ Crash
  /\ ForgetMemory
  /\ closing' = "exited"

Exit ==
  /\ closing \in {"flushed", "failed"}
  /\ writes = <<>>
  /\ Crash
  /\ ForgetMemory
  /\ closing' = "exited"

TimePasses ==
  /\ clock < MaxTime
  /\ clock' = clock + 1
  /\ UNCHANGED <<vars, kept, lastUsed, lastAttempt, closing, entries>>

DetailsNext ==
  \/ BootAsIs
  \/ BootWritingIdsBack
  \/ Ask
  \/ \E t \in Token : Touch(t)
  \/ Close
  \/ Write
  \/ Dies
  \/ Exit
  \/ TimePasses

DetailsSpec == DetailsInit /\ [][DetailsNext]_allVars /\ WF_allVars(Write)

-----------------------------------------------------------------------------
(* "A crash loses at most this much precision"                             *)
(* (LAST_USED_PERSIST_INTERVAL_MS), with what the throttle on attempts     *)
(* adds to it: the file is further behind a device's last use than the     *)
(* interval only when a write-through was asked for at that use or less    *)
(* than an interval before it, whether it is on its way or has failed.     *)
CrashLosesAtMostTheInterval ==
  \A t \in Token :
    /\ lastUsed[t] # Never
    /\ file.rows.devices[t] # NoUser
    /\ kept.file[t].used = Never \/ lastUsed[t] - kept.file[t].used > Interval
    => lastAttempt[t] # Never /\ lastUsed[t] - lastAttempt[t] < Interval

(* "A device that is gone takes its in-memory last used with it" (mutate): *)
(* whatever sign-outs, heals and requests overlap, nothing is remembered   *)
(* of a device that has no row.                                            *)
NothingKeptOfTheDeparted ==
  \A t \in Token : live.devices[t] = NoUser => lastUsed[t] = Never /\ lastAttempt[t] = Never

(* "The shutdown flush closes the gap on a clean stop": unless its write   *)
(* failed, the file an orderly exit leaves has every last use.             *)
CleanStopLosesNothing ==
  [][closing # "failed" /\ closing # "exited" /\ closing' = "exited"
       => \A t \in Token : lastUsed[t] \in {Never, kept.file[t].used}]_allVars

(* "Writing them back now keeps an id a client has listed valid across a   *)
(* restart" (open): the id under which a running server lists a device     *)
(* names it until its row goes, whatever crashes and boots come between.   *)
IdListed(t) ==
  IF phase = "up" THEN kept.live[t].id ELSE kept.file[t].id

ListedIdsStayValid ==
  [][\A t \in Token :
       IdListed(t) # NoId /\ Durable'.devices[t] # NoUser => IdListed(t)' = IdListed(t)]_allVars

(* Whether a request with the bearer of t is answered by the server that   *)
(* runs, or would be by the next one to get through its boot: by its row   *)
(* and chain or, where the file has the single list still, by its entry.   *)
Accepted(t) ==
  IF phase # "up" /\ entries # NoEntries
  THEN entries[t] # NoEntry /\ ~entries[t].dead
  ELSE Durable.devices[t] # NoUser /\ HasLiveChain(Durable, Durable.devices[t])

(* "Upgrading a deployed server keeps its devices signed in"               *)
(* (parsePayload), and "a dead device is retired by the migration", not    *)
(* "carried onto a live chain" (migrateLegacyEntries).  Across boots that  *)
(* draw ids anew, rewrites that fail or that a crash cuts off, and an old  *)
(* list no write has replaced yet, a bearer comes to be accepted by its    *)
(* own sign-in alone, and ceases to be by its sign-out or its chain's      *)
(* death alone.                                                            *)
UpgradeChangesNobodysStanding ==
  [][\A t \in Token :
       /\ ~Accepted(t) /\ Accepted(t)' =>
            /\ writes # <<>>
            /\ Head(writes).kind = "attach" /\ Head(writes).token = t
       /\ Accepted(t) /\ ~Accepted(t)' =>
            /\ writes # <<>>
            /\ \/ Head(writes).kind = "remove" /\ Head(writes).token = t
               \/ Head(writes).kind = "bury" /\ Head(writes).user = Durable.devices[t]]_allVars
=============================================================================
