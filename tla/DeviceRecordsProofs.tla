------------------------- MODULE DeviceRecordsProofs -------------------------
(***************************************************************************)
(* Theorems about DeviceRecords, for any number of bearers, users, pairs,  *)
(* attempts and queued writes, any interval and any clock.                 *)
(***************************************************************************)
EXTENDS DeviceRecords, SessionStoreProofs

-----------------------------------------------------------------------------
(* The inductive invariant, in named parts.                                *)

DetailsType ==
  /\ clock \in Time
  /\ kept \in [file : Details, live : Details, next : Details]
  /\ lastUsed \in [Token -> Time \cup {Never}]
  /\ lastAttempt \in [Token -> Time \cup {Never}]
  /\ closing \in {"no", "flushing", "flushed", "failed", "exited"}
  /\ entries \in SingleList

(* Only a server that is up has seen a device, and of a device that has no *)
(* row it remembers nothing.                                               *)
TimesInv ==
  /\ phase # "up" => lastUsed = NoTimes /\ lastAttempt = NoTimes
  /\ NothingKeptOfTheDeparted

(* What is kept follows the rows: in the file, live, and in the copy the   *)
(* write under way has changed, which renames no row.                      *)
KeptInv ==
  /\ \A t \in Token : file = NoFile \/ file.rows.devices[t] = NoUser => kept.file[t] = Blank
  /\ \A t \in Token : live.devices[t] = NoUser => kept.live[t] = Blank
  /\ stage = "landed" => kept.file = kept.next
  /\ phase = "up" /\ stage # "landed" => kept.file = kept.live
  /\ phase = "up" /\ stage # "idle" =>
       \A t \in Token :
         /\ next.devices[t] = NoUser => kept.next[t] = Blank
         /\ next.devices[t] # NoUser /\ live.devices[t] # NoUser => kept.next[t].id = kept.live[t].id
  /\ phase = "creating" => kept.next = kept.live
  /\ phase = "creating" /\ stage # "landed" =>
       \A t \in Token : kept.file[t].id # NoId => kept.next[t].id = kept.file[t].id

(* No value is ahead of the clock, nor a kept one of what memory knows.    *)
UsedInv ==
  /\ \A t \in Token :
       /\ kept.file[t].used <= clock
       /\ kept.live[t].used <= clock
       /\ kept.next[t].used <= clock
       /\ lastUsed[t] <= clock
       /\ lastUsed[t] # Never => kept.live[t].used <= lastUsed[t]
  /\ phase = "up" /\ stage # "idle" =>
       \A t \in Token :
         next.devices[t] # NoUser =>
           /\ kept.live[t].used <= kept.next[t].used
           /\ lastUsed[t] # Never => kept.next[t].used <= lastUsed[t]

(* CrashLosesAtMostTheInterval, of the values a running server compares.   *)
Behind(t) ==
  /\ lastUsed[t] # Never
  /\ kept.live[t].used = Never \/ lastUsed[t] - kept.live[t].used > Interval

BehindInv ==
  \A t \in Token : Behind(t) => lastAttempt[t] # Never /\ lastUsed[t] - lastAttempt[t] < Interval

(* The hook awaits a touch that is queued; once the last of them has run,  *)
(* every last use is where its write put it.                               *)
Saved(values) == \A t \in Token : lastUsed[t] \in {Never, values[t].used}

TouchQueued == \E i \in 1..Len(writes) : writes[i].kind = "touch"

LastTouchRuns ==
  /\ stage # "idle"
  /\ \A i \in 1..Len(writes) : i # 1 => writes[i].kind # "touch"

FlushInv ==
  /\ closing \in {"flushing", "flushed", "failed"} =>
       /\ phase = "up"
       /\ \A i \in 1..Len(writes) : writes[i].kind \notin {"attach", "remove"}
  /\ closing = "flushing" => TouchQueued
  /\ closing = "flushing" /\ LastTouchRuns => Saved(kept.next)
  /\ closing = "flushed" =>
       /\ ~TouchQueued
       /\ Saved(kept.live)
       /\ stage # "idle" => Saved(kept.next)

(* The list of an older release stays until a write replaces it.  A        *)
(* process creating its file with it holds what the list says; one that is *)
(* up has found nothing but dead devices in it.                            *)
EntriesInv ==
  /\ \A t \in Token : entries[t] # NoEntry => t \in issued
  /\ IF entries = NoEntries
     THEN ReadInv
     ELSE /\ file # NoFile /\ file.rows = NoRows
          /\ stage # "landed"
          /\ phase = "creating" => live = Migrated(entries)
          /\ phase = "up" => \A t \in Token : entries[t] # NoEntry => entries[t].dead

DInv ==
  /\ WholeInv
  /\ DetailsType
  /\ TimesInv
  /\ KeptInv
  /\ UsedInv
  /\ BehindInv
  /\ FlushInv
  /\ EntriesInv

-----------------------------------------------------------------------------
(* The steps of the store under the details.                               *)

(* What migrateLegacyEntries leaves is whole, and has a row with a live    *)
(* chain for every device of the list that is not dead, and no other.      *)
LEMMA MigratedFacts ==
  ASSUME NEW old \in SingleList
  PROVE  /\ Migrated(old) \in Rows
         /\ ReferentialIntegrity(Migrated(old))
         /\ \A t \in Token :
              /\ Migrated(old).devices[t] # NoUser <=> old[t] # NoEntry /\ ~old[t].dead
              /\ Migrated(old).devices[t] # NoUser =>
                   HasLiveChain(Migrated(old), Migrated(old).devices[t])
<1> DEFINE rows == Migrated(old)
<1>1. \A t \in Token : old[t] # NoEntry => old[t] \in Entry
  BY DEF SingleList
<1>2. \A t \in Token :
        /\ rows.devices[t] = IF old[t] = NoEntry \/ old[t].dead THEN NoUser ELSE old[t].user
        /\ old[t] # NoEntry => old[t].user \in User
  BY <1>1 DEF Migrated, Entry
<1>3. \A u \in User : Living(old, u) # {} => old[Freshest(old, u)].pair \in Pair
  <2> SUFFICES ASSUME NEW u \in User, Living(old, u) # {}
               PROVE  old[Freshest(old, u)].pair \in Pair
    OBVIOUS
  <2>1. \E t \in Token : IsFreshest(old, u, t)
    BY DEF SingleList
  <2>2. Freshest(old, u) \in Token /\ IsFreshest(old, u, Freshest(old, u))
    BY <2>1 DEF Freshest
  <2> QED
    BY <1>1, <2>2 DEF IsFreshest, Living, Entry
<1>4. \A u \in User :
        rows.chains[u] = IF Living(old, u) = {} THEN NoChain
                         ELSE [pair |-> old[Freshest(old, u)].pair, dead |-> FALSE]
  BY DEF Migrated
<1>5. \A u \in User :
        /\ Living(old, u) = {} => rows.chains[u] = NoChain
        /\ Living(old, u) # {} => rows.chains[u] \in Chain /\ ~rows.chains[u].dead
  <2> SUFFICES ASSUME NEW u \in User, Living(old, u) # {}
               PROVE  rows.chains[u] \in Chain /\ ~rows.chains[u].dead
    BY <1>4
  <2> DEFINE pair == old[Freshest(old, u)].pair
  <2>1. rows.chains[u] = [pair |-> pair, dead |-> FALSE] /\ pair \in Pair
    BY <1>3, <1>4
  <2> HIDE DEF pair, rows
  <2> QED
    BY <2>1 DEF Chain
<1>6. rows \in Rows
  <2>1. rows.devices \in [Token -> User \cup {NoUser}]
    BY <1>2 DEF Migrated
  <2>2. rows.chains \in [User -> Chain \cup {NoChain}]
    BY <1>5 DEF Migrated
  <2>3. rows = [devices |-> rows.devices, chains |-> rows.chains]
    BY DEF Migrated
  <2> HIDE DEF rows
  <2> QED
    BY <2>1, <2>2, <2>3 DEF Rows
<1> HIDE DEF rows
<1>7. \A u \in User : \A t \in Token : rows.devices[t] = u <=> t \in Living(old, u)
  BY <1>2, NoRowAssumption DEF Living
<1>8. \A u \in User : rows.chains[u] # NoChain <=> Living(old, u) # {}
  BY <1>5, NoRowAssumption DEF Chain
<1>9. DevicesHaveChains(rows)
  BY <1>6, <1>7, <1>8 DEF DevicesHaveChains, Rows
<1>10. ChainsHaveDevices(rows)
  <2> SUFFICES ASSUME NEW u \in User, rows.chains[u] # NoChain PROVE Riders(rows, u) # {}
    BY DEF ChainsHaveDevices
  <2>1. PICK t \in Token : t \in Living(old, u)
    BY <1>8 DEF Living
  <2> QED
    BY <1>7, <2>1 DEF Riders
<1>11. ASSUME NEW t \in Token
       PROVE  /\ rows.devices[t] # NoUser <=> old[t] # NoEntry /\ ~old[t].dead
              /\ rows.devices[t] # NoUser => HasLiveChain(rows, rows.devices[t])
  <2>1. rows.devices[t] # NoUser <=> old[t] # NoEntry /\ ~old[t].dead
    BY <1>2, NoRowAssumption
  <2>2. ASSUME rows.devices[t] # NoUser PROVE HasLiveChain(rows, rows.devices[t])
    <3>1. rows.devices[t] \in User
      BY <1>6, <2>2 DEF Rows
    <3>2. Living(old, rows.devices[t]) # {}
      BY <1>7, <3>1
    <3> QED
      BY <1>5, <1>8, <3>1, <3>2 DEF HasLiveChain
  <2> QED
    BY <2>1, <2>2
<1> QED
  BY <1>6, <1>9, <1>10, <1>11 DEF rows, ReferentialIntegrity

(* A list without entries leaves no rows. *)
LEMMA NoEntriesFacts ==
  /\ NoEntries \in SingleList
  /\ \A t \in Token : NoEntries[t] = NoEntry
BY DEF NoEntries, SingleList, Living

LEMMA NoFileIsNoRows ==
  \A n \in Nat : \A rows \in Rows : [revision |-> n, rows |-> rows] # NoFile
BY StoreAssumption

(* What a boot reads, of either shape, is whole and names issued bearers. *)
LEMMA ParsedFacts ==
  ASSUME OwnInv, entries \in SingleList, EntriesInv, file # NoFile
  PROVE  /\ ParsedRows \in Rows
         /\ ReferentialIntegrity(ParsedRows)
         /\ \A t \in Token : ParsedRows.devices[t] # NoUser => t \in issued
         /\ entries = NoEntries => ParsedRows = file.rows
<1>1. CASE entries = NoEntries
  <2>1. file \in [revision : Nat, rows : Rows] /\ ReferentialIntegrity(file.rows)
    BY DEF OwnInv, TypeOK, ChainsMatchDevices
  <2>2. ParsedRows = file.rows
    BY <1>1, <2>1, LoadWholeRows DEF ParsedRows
  <2> QED
    BY <1>1, <2>1, <2>2 DEF OwnInv, FreshInv
<1>2. CASE entries # NoEntries
  <2>1. ParsedRows = Migrated(entries)
    BY <1>2 DEF ParsedRows
  <2> QED
    BY <1>2, <2>1, MigratedFacts DEF EntriesInv
<1> QED
  BY <1>1, <1>2

LEMMA DetailsInitStore == DetailsInit => WholeInv /\ EntriesInv /\ entries \in SingleList
<1> SUFFICES ASSUME DetailsInit PROVE WholeInv /\ EntriesInv /\ entries \in SingleList
  OBVIOUS
<1>1. /\ phase = "down" /\ live = NoRows /\ revision = 0 /\ writes = <<>> /\ stage = "idle"
      /\ next = NoRows /\ attempt = 0
      /\ issued = { t \in Token : entries[t] # NoEntry \/ (file # NoFile /\ file.rows.devices[t] # NoUser) }
  BY DEF DetailsInit
<1>2. /\ file = NoFile => entries = NoEntries
      /\ file # NoFile =>
           /\ file \in [revision : Nat, rows : Rows]
           /\ ReferentialIntegrity(file.rows)
           /\ entries # NoEntries => file.rows = NoRows
      /\ entries \in SingleList
  <2>1. CASE file = NoFile /\ entries = NoEntries
    BY <2>1, NoEntriesFacts
  <2>2. ASSUME NEW rows \in Rows, file = [revision |-> 0, rows |-> rows],
               \/ ReferentialIntegrity(rows) /\ entries = NoEntries
               \/ rows = NoRows /\ entries \in SingleList
        PROVE  /\ file # NoFile
               /\ file \in [revision : Nat, rows : Rows]
               /\ ReferentialIntegrity(file.rows)
               /\ entries # NoEntries => file.rows = NoRows
               /\ entries \in SingleList
    BY <2>2, NoFileIsNoRows, NoEntriesFacts, NoRowsType
  <2> QED
    BY <2>1, <2>2 DEF DetailsInit, FileLeftBehind
<1>3. TypeOK
  BY <1>1, <1>2, NoRowsType, StoreAssumption DEF TypeOK
<1>4. WholeInv
  BY <1>1, <1>2, <1>3, NoRowsType
  DEF WholeInv, OwnInv, PhaseInv, LandedInv, PendingInv, FreshInv, Waiting, ChainsMatchDevices,
      MemoryNeverAheadOfFile
<1>5. EntriesInv
  BY <1>1, <1>2 DEF EntriesInv, ReadInv
<1> QED
  BY <1>2, <1>4, <1>5

(* Only the boot that writes ids back is a step the store itself has not. *)
LEMMA DetailsStepIsStoreStep == [DetailsNext]_allVars => [Next]_vars \/ BootWritingIdsBack
<1>1. UNCHANGED allVars => UNCHANGED vars
  BY DEF allVars
<1>2. BootAsIs => Next
  BY DEF BootAsIs, Next
<1>3. Ask => Next
  BY DEF Ask, Next, Request
<1>4. ASSUME NEW t \in Token, Touch(t) PROVE [Next]_vars
  BY <1>4 DEF Touch, Next, Request
<1>5. Close => Next
  BY DEF Close, Next, Request
<1>6. Write => Next
  BY DEF Write, WriteChanges, WriteChangesNothing, WriteLands, WriteIsSwappedIn, WriteFails,
         WriteGoesOn, Next, WriteStep
<1>7. Dies \/ Exit => Next
  BY DEF Dies, Exit, Next
<1>8. TimePasses => UNCHANGED vars
  BY DEF TimePasses
<1> QED
  BY <1>1, <1>2, <1>3, <1>4, <1>5, <1>6, <1>7, <1>8 DEF DetailsNext

LEMMA WriteBackStore ==
  ASSUME WholeInv, entries \in SingleList, EntriesInv, BootWritingIdsBack
  PROVE  /\ WholeInv'
         /\ file # NoFile
         /\ live' = ParsedRows
         /\ phase = "down" /\ phase' = "creating" /\ stage' = "checking"
         /\ UNCHANGED <<file, issued, entries>>
<1>1. /\ phase = "down" /\ phase' = "creating" /\ stage' = "checking"
      /\ live' = ParsedRows /\ next' = live' /\ revision' = file.revision
      /\ UNCHANGED <<file, writes, attempt, issued, entries>>
      /\ file # NoFile
  BY DEF BootWritingIdsBack, ParseRows, IdsGenerated
<1>2. /\ file \in [revision : Nat, rows : Rows]
      /\ live' \in Rows /\ ReferentialIntegrity(live')
      /\ \A t \in Token : live'.devices[t] # NoUser => t \in issued
  BY <1>1, ParsedFacts DEF WholeInv, OwnInv, TypeOK
<1>3. TypeOK'
  BY <1>1, <1>2 DEF WholeInv, OwnInv, TypeOK
<1>4. FreshInv' /\ ChainsMatchDevices'
  BY <1>1, <1>2 DEF WholeInv, OwnInv, PhaseInv, FreshInv, Waiting, ChainsMatchDevices
<1>5. WholeInv'
  BY <1>1, <1>3, <1>4
  DEF WholeInv, OwnInv, PhaseInv, LandedInv, PendingInv, MemoryNeverAheadOfFile
<1> QED
  BY <1>1, <1>5

LEMMA DetailsStepStore ==
  WholeInv /\ entries \in SingleList /\ EntriesInv /\ [DetailsNext]_allVars => WholeInv'
BY DetailsStepIsStoreStep, WriteBackStore, WholeStep

-----------------------------------------------------------------------------
(* Type correctness of the details.                                        *)

(* No clock shows 0, which stands for "never", and no draw is id 0.        *)
LEMMA DetailsFacts ==
  /\ 1 \in Time
  /\ Time \subseteq Nat \ {0}
  /\ NoDetails \in Details
  /\ NoTimes \in [Token -> Time \cup {Never}]
  /\ Blank \in [id : Id \cup {NoId}, used : Time \cup {Never}]
BY IntervalAssumption DEF Time, NoDetails, NoTimes, Blank, Details, Id, NoId, Never

LEMMA DetailsInitType == DetailsInit => DetailsType
BY DetailsInitStore, DetailsFacts DEF DetailsInit, DetailsType

(* What a mutation keeps of each row is of the type of what was kept. *)
LEMMA KeptOfType ==
  ASSUME DetailsType, NEW rows, NEW op
  PROVE  KeptOf(rows, op) \in Details
<1>1. \A t \in Token : /\ kept.live[t] \in [id : Id \cup {NoId}, used : Time \cup {Never}]
                       /\ lastUsed[t] \in Time \cup {Never}
  BY DEF DetailsType, Details
<1>2. [id |-> 1, used |-> Never] \in [id : Id \cup {NoId}, used : Time \cup {Never}]
  BY DEF Id
<1>3. ASSUME NEW t \in Token
      PROVE  [kept.live[t] EXCEPT !.used = lastUsed[t]] \in [id : Id \cup {NoId}, used : Time \cup {Never}]
  BY <1>1, <1>3
<1> QED
  BY <1>1, <1>2, <1>3, DetailsFacts DEF KeptOf, Details

LEMMA TimesOfType ==
  ASSUME NEW rows, NEW times \in [Token -> Time \cup {Never}]
  PROVE  TimesOf(rows, times) \in [Token -> Time \cup {Never}]
BY DEF TimesOf

(* The ids a boot draws leave the rest of a row as it was. *)
LEMMA ParseRowsKept ==
  ASSUME DetailsType, ParseRows
  PROVE  /\ kept'.file = kept.file
         /\ kept'.next = kept'.live
         /\ kept'.live \in Details
         /\ kept' = [kept EXCEPT !.live = kept'.live, !.next = kept'.live]
         /\ \A t \in Token :
              /\ kept'.live[t].used = kept.file[t].used
              /\ kept'.live[t].id \in Drawn(t)
<1>1. PICK ids \in [Token -> Id \cup {NoId}] :
        /\ \A t \in Token : ids[t] \in Drawn(t)
        /\ LET read == [t \in Token |-> [kept.file[t] EXCEPT !.id = ids[t]]] IN
           kept' = [kept EXCEPT !.live = read, !.next = read]
  BY DEF ParseRows
<1> DEFINE read == [t \in Token |-> [kept.file[t] EXCEPT !.id = ids[t]]]
<1>2. kept \in [file : Details, live : Details, next : Details]
  BY DEF DetailsType
<1>3. kept' = [kept EXCEPT !.live = read, !.next = read]
  BY <1>1
<1>4. \A t \in Token : /\ read[t] \in [id : Id \cup {NoId}, used : Time \cup {Never}]
                       /\ read[t].used = kept.file[t].used
                       /\ read[t].id = ids[t]
  BY <1>2 DEF Details
<1>5. read \in Details
  BY <1>4 DEF Details
<1> HIDE DEF read
<1>6. kept'.file = kept.file /\ kept'.next = read /\ kept'.live = read
  BY <1>2, <1>3
<1> QED
  BY <1>1, <1>3, <1>4, <1>5, <1>6

LEMMA DetailsTypeStep == WholeInv /\ DetailsType /\ [DetailsNext]_allVars => DetailsType'
<1> SUFFICES ASSUME WholeInv, DetailsType, [DetailsNext]_allVars PROVE DetailsType'
  OBVIOUS
<1> USE DEF DetailsType
<1>1. CASE UNCHANGED allVars
  BY <1>1 DEF allVars, details
<1>2. CASE BootAsIs
  BY <1>2 DEF BootAsIs
<1>3. CASE BootWritingIdsBack
  <2>1. kept' \in [file : Details, live : Details, next : Details]
    BY <1>3, ParseRowsKept DEF BootWritingIdsBack
  <2> QED
    BY <1>3, <2>1 DEF BootWritingIdsBack, ParseRows
<1>4. CASE Ask
  BY <1>4 DEF Ask, details
<1>5. ASSUME NEW t \in Token, Touch(t) PROVE DetailsType'
  BY <1>5 DEF Touch
<1>6. CASE Close
  BY <1>6 DEF Close
<1>7. CASE Write
  <2>0. UNCHANGED clock
    BY <1>7 DEF Write
  <2>1. ASSUME NEW how \in {"flushed", "failed"}, HookSettles(how)
        PROVE  closing' \in {"no", "flushing", "flushed", "failed", "exited"}
    BY <2>1 DEF HookSettles
  <2>2. CASE WriteChanges
    <3>1. KeptOf(next', Head(writes)) \in Details
      BY KeptOfType
    <3> QED
      BY <2>0, <2>2, <3>1 DEF WriteChanges
  <2>3. CASE WriteChangesNothing
    BY <2>0, <2>1, <2>3 DEF WriteChangesNothing
  <2>4. CASE WriteLands
    BY <2>0, <2>4, NoEntriesFacts DEF WriteLands
  <2>5. CASE WriteIsSwappedIn
    BY <2>0, <2>1, <2>5, TimesOfType DEF WriteIsSwappedIn
  <2>6. CASE WriteFails
    BY <2>0, <2>1, <2>6 DEF WriteFails
  <2>7. CASE WriteGoesOn
    BY <2>0, <2>7 DEF WriteGoesOn
  <2> QED
    BY <1>7, <2>2, <2>3, <2>4, <2>5, <2>6, <2>7 DEF Write
<1>8. CASE Dies \/ Exit
  BY <1>8, DetailsFacts DEF Dies, Exit, ForgetMemory
<1>9. CASE TimePasses
  <2>1. clock' \in Time
    BY <1>9, IntervalAssumption DEF TimePasses, Time
  <2> QED
    BY <1>9, <2>1 DEF TimePasses
<1> QED
  BY <1>1, <1>2, <1>3, <1>4, <1>5, <1>6, <1>7, <1>8, <1>9 DEF DetailsNext

-----------------------------------------------------------------------------
(* What memory knows of the devices.                                       *)

LEMMA TimesStep == WholeInv /\ DetailsType /\ TimesInv /\ [DetailsNext]_allVars => TimesInv'
<1> SUFFICES ASSUME WholeInv, DetailsType, TimesInv, [DetailsNext]_allVars PROVE TimesInv'
  OBVIOUS
<1> USE DEF TimesInv, NothingKeptOfTheDeparted
<1>0. \A t \in Token : NoTimes[t] = Never
  BY DEF NoTimes
<1>1. CASE UNCHANGED allVars
  BY <1>1 DEF allVars, details, vars
<1>2. CASE BootAsIs \/ BootWritingIdsBack
  <2>1. phase = "down" /\ UNCHANGED <<lastUsed, lastAttempt>>
    BY <1>2 DEF BootAsIs, BootWritingIdsBack, ParseRows, Boot, OpenExisting, OpenEmpty
  <2> QED
    BY <1>0, <2>1
<1>3. CASE Ask
  <2>1. UNCHANGED <<live, phase, lastUsed, lastAttempt>>
    BY <1>3 DEF Ask, details, RequestAttach, RequestRemove, RequestUpdate, RequestBury, Enqueue
  <2> QED
    BY <2>1
<1>4. ASSUME NEW t \in Token, Touch(t) PROVE TimesInv'
  <2>1. /\ UNCHANGED <<live, phase>> /\ phase = "up" /\ live.devices[t] # NoUser
        /\ lastUsed' = [lastUsed EXCEPT ![t] = clock]
        /\ lastAttempt' \in {lastAttempt, [lastAttempt EXCEPT ![t] = clock]}
    BY <1>4 DEF Touch, RequestTouch, Enqueue, vars
  <2>2. \A x \in Token \ {t} : lastUsed'[x] = lastUsed[x] /\ lastAttempt'[x] = lastAttempt[x]
    BY <2>1 DEF DetailsType
  <2> QED
    BY <2>1, <2>2
<1>5. CASE Close
  BY <1>5 DEF Close, RequestTouch, Enqueue
<1>6. CASE Write
  <2>1. CASE WriteChanges \/ WriteChangesNothing \/ WriteLands \/ WriteGoesOn
    BY <2>1 DEF WriteChanges, Mutate, WriteChangesNothing, MutateNothing, WriteLands, Publish,
                WriteGoesOn, CheckFile, Retry
  <2>2. CASE WriteFails
    <3>1. UNCHANGED <<live, lastUsed, lastAttempt>> /\ (phase' # "up" => phase # "up")
      BY <2>2 DEF WriteFails, CheckThrows, GiveUp, Fail
    <3> QED
      BY <3>1
  <2>3. CASE WriteIsSwappedIn
    <3>1. phase' = "up" /\ live' = next /\ lastUsed' = TimesOf(next, lastUsed)
          /\ lastAttempt' = TimesOf(next, lastAttempt)
      BY <2>3 DEF WriteIsSwappedIn, Swap
    <3> QED
      BY <3>1 DEF TimesOf
  <2> QED
    BY <1>6, <2>1, <2>2, <2>3 DEF Write
<1>7. CASE Dies \/ Exit
  <2>1. lastUsed' = NoTimes /\ lastAttempt' = NoTimes
    BY <1>7 DEF Dies, Exit, ForgetMemory
  <2> QED
    BY <1>0, <2>1
<1>8. CASE TimePasses
  BY <1>8 DEF TimePasses, vars
<1> QED
  BY <1>1, <1>2, <1>3, <1>4, <1>5, <1>6, <1>7, <1>8 DEF DetailsNext

LEMMA TimesInit == DetailsInit => TimesInv
BY DEF DetailsInit, TimesInv, NothingKeptOfTheDeparted, NoTimes

-----------------------------------------------------------------------------
(* What is kept of the rows.                                               *)

LEMMA KeptFields ==
  ASSUME DetailsType
  PROVE  /\ kept.file \in Details /\ kept.live \in Details /\ kept.next \in Details
         /\ \A x : /\ [kept EXCEPT !.file = x].file = x
                   /\ [kept EXCEPT !.file = x].live = kept.live
                   /\ [kept EXCEPT !.file = x].next = kept.next
                   /\ [kept EXCEPT !.live = x].file = kept.file
                   /\ [kept EXCEPT !.live = x].live = x
                   /\ [kept EXCEPT !.live = x].next = kept.next
                   /\ [kept EXCEPT !.next = x].file = kept.file
                   /\ [kept EXCEPT !.next = x].live = kept.live
                   /\ [kept EXCEPT !.next = x].next = x
                   /\ [kept EXCEPT !.live = x, !.next = x].file = kept.file
                   /\ [kept EXCEPT !.live = x, !.next = x].live = x
                   /\ [kept EXCEPT !.live = x, !.next = x].next = x
BY DEF DetailsType

(* The copy a write has changed keeps nothing of a row it removed. *)
LEMMA NextKeepsRows ==
  ASSUME WholeInv, KeptInv, stage # "idle"
  PROVE  \A t \in Token : next.devices[t] = NoUser => kept.next[t] = Blank
<1>1. CASE phase = "up"
  BY <1>1 DEF KeptInv
<1>2. CASE phase = "creating"
  BY <1>2 DEF KeptInv, WholeInv, OwnInv, PhaseInv, LandedInv
<1> QED
  BY <1>1, <1>2 DEF WholeInv, OwnInv, TypeOK, PhaseInv, LandedInv

LEMMA KeptInit == DetailsInit => KeptInv
BY DEF DetailsInit, KeptInv, NoDetails

LEMMA KeptStep ==
  WholeInv /\ DetailsType /\ EntriesInv /\ KeptInv /\ [DetailsNext]_allVars => KeptInv'
<1> SUFFICES ASSUME WholeInv, DetailsType, EntriesInv, KeptInv, [DetailsNext]_allVars PROVE KeptInv'
  OBVIOUS
<1>0. ASSUME UNCHANGED <<file, phase, live, stage, next, kept>> PROVE KeptInv'
  BY <1>0 DEF KeptInv
<1>1. CASE UNCHANGED allVars
  BY <1>0, <1>1 DEF allVars, details, vars
<1>2. CASE BootAsIs
  <2>1. kept'.file = kept.file /\ kept'.live = kept.file /\ kept'.next = kept.file
    BY <1>2, KeptFields DEF BootAsIs
  <2>2. CASE OpenExisting
    <3>1. /\ phase' = "up" /\ stage' = "idle" /\ file' = file /\ file # NoFile
          /\ live'.devices = file.rows.devices
      BY <2>2 DEF OpenExisting, WholeInv, OwnInv, TypeOK, PhaseInv, LandedInv, DropOrphans, Rows
    <3> QED
      BY <2>1, <3>1 DEF KeptInv
  <2>3. CASE OpenEmpty
    <3>1. phase' = "creating" /\ stage' = "checking" /\ file' = file /\ file = NoFile
      BY <2>3 DEF OpenEmpty
    <3> QED
      BY <2>1, <3>1 DEF KeptInv
  <2> QED
    BY <1>2, <2>2, <2>3 DEF BootAsIs, Boot
<1>3. CASE BootWritingIdsBack
  <2>1. /\ kept'.file = kept.file /\ kept'.next = kept'.live /\ kept'.live \in Details
        /\ \A t \in Token : /\ kept'.live[t].used = kept.file[t].used
                            /\ kept'.live[t].id \in Drawn(t)
    BY <1>3, ParseRowsKept DEF BootWritingIdsBack
  <2>2. /\ file # NoFile /\ live' = ParsedRows
        /\ entries = NoEntries => ParsedRows = file.rows
        /\ entries # NoEntries => file.rows = NoRows
    BY <1>3, WriteBackStore, ParsedFacts DEF DetailsType, EntriesInv, WholeInv
  <2>3. phase' = "creating" /\ stage' = "checking" /\ file' = file
    BY <1>3 DEF BootWritingIdsBack, ParseRows
  <2>4. ASSUME NEW t \in Token, ParsedRows.devices[t] = NoUser PROVE kept'.live[t] = Blank
    <3>1. kept'.live[t].id = NoId
      BY <2>1, <2>4 DEF Drawn
    <3>2. file.rows.devices[t] = NoUser
      BY <2>2, <2>4, NoRowsType
    <3>3. kept'.live[t].used = Never
      BY <2>1, <3>2 DEF KeptInv, Blank
    <3> QED
      BY <2>1, <3>1, <3>3 DEF Details, Blank
  <2>5. ASSUME NEW t \in Token, kept.file[t].id # NoId PROVE kept'.live[t].id = kept.file[t].id
    <3>1. file.rows.devices[t] # NoUser
      BY <2>5 DEF KeptInv, Blank
    <3>2. ParsedRows.devices[t] # NoUser
      BY <2>2, <3>1, NoRowsType
    <3> QED
      BY <2>1, <2>5, <3>2 DEF Drawn
  <2> QED
    BY <2>1, <2>2, <2>3, <2>4, <2>5 DEF KeptInv
<1>4. CASE Ask
  BY <1>0, <1>4 DEF Ask, details, RequestAttach, RequestRemove, RequestUpdate, RequestBury, Enqueue
<1>5. ASSUME NEW t \in Token, Touch(t) PROVE KeptInv'
  BY <1>0, <1>5 DEF Touch, RequestTouch, Enqueue, vars
<1>6. CASE Close
  BY <1>0, <1>6 DEF Close, RequestTouch, Enqueue
<1>7. CASE Write
  <2>1. CASE WriteChanges
    <3>1. /\ phase = "up" /\ stage = "idle" /\ phase' = "up" /\ stage' = "checking"
          /\ UNCHANGED <<file, live>>
      BY <2>1 DEF WriteChanges, Mutate
    <3>2. kept'.file = kept.file /\ kept'.live = kept.live /\ kept'.next = KeptOf(next', Head(writes))
      BY <2>1, KeptFields DEF WriteChanges
    <3>3. ASSUME NEW t \in Token
          PROVE  /\ next'.devices[t] = NoUser => kept'.next[t] = Blank
                 /\ next'.devices[t] # NoUser /\ live.devices[t] # NoUser => kept'.next[t].id = kept.live[t].id
      <4>1. kept.live[t] \in [id : Id \cup {NoId}, used : Time \cup {Never}]
        BY KeptFields DEF Details
      <4>2. [kept.live[t] EXCEPT !.used = lastUsed[t]].id = kept.live[t].id
        BY <4>1
      <4> QED
        BY <3>2, <4>2 DEF KeptOf
    <3> QED
      BY <3>1, <3>2, <3>3 DEF KeptInv
  <2>2. CASE WriteChangesNothing
    BY <1>0, <2>2 DEF WriteChangesNothing, MutateNothing
  <2>3. CASE WriteLands
    <3>1. /\ stage = "writing" /\ stage' = "landed" /\ file'.rows = next /\ UNCHANGED <<live, next, phase>>
      BY <2>3 DEF WriteLands, Publish
    <3>2. kept'.file = kept.next /\ kept'.live = kept.live /\ kept'.next = kept.next
      BY <2>3, KeptFields DEF WriteLands
    <3>3. file' # NoFile
      BY <2>3, NoFileIsNoRows DEF WriteLands, Publish, WholeInv, OwnInv, TypeOK
    <3> QED
      BY <3>1, <3>2, <3>3, NextKeepsRows DEF KeptInv
  <2>4. CASE WriteIsSwappedIn
    <3>1. /\ stage = "landed" /\ stage' = "idle" /\ live' = next /\ phase' = "up" /\ UNCHANGED file
      BY <2>4 DEF WriteIsSwappedIn, Swap, Settle
    <3>2. kept'.file = kept.file /\ kept'.live = kept.next /\ kept'.next = kept.next
      BY <2>4, KeptFields DEF WriteIsSwappedIn
    <3> QED
      BY <3>1, <3>2, NextKeepsRows DEF KeptInv
  <2>5. CASE WriteFails
    <3>1. /\ stage \in {"checking", "writing"} /\ stage' = "idle" /\ UNCHANGED <<file, live>>
          /\ phase' \in {"up", "down"} /\ (phase' = "up" => phase = "up")
      BY <2>5 DEF WriteFails, CheckThrows, GiveUp, Fail, Settle
    <3>2. kept'.file = kept.file /\ kept'.live = kept.live
      BY <2>5, KeptFields DEF WriteFails
    <3> QED
      BY <3>1, <3>2 DEF KeptInv
  <2>6. CASE WriteGoesOn
    <3>1. /\ stage \in {"checking", "writing"} /\ stage' = "writing"
          /\ UNCHANGED <<file, live, next, phase, kept>>
      BY <2>6 DEF WriteGoesOn, CheckFile, Retry
    <3> QED
      BY <3>1 DEF KeptInv
  <2> QED
    BY <1>7, <2>1, <2>2, <2>3, <2>4, <2>5, <2>6 DEF Write
<1>8. CASE Dies \/ Exit
  <2>1. phase' = "down" /\ stage' = "idle" /\ UNCHANGED file
    BY <1>8 DEF Dies, Exit, Crash, Settle
  <2>2. kept'.file = kept.file /\ kept'.live = NoDetails
    <3>1. kept' = [kept EXCEPT !.live = NoDetails, !.next = NoDetails]
      BY <1>8 DEF Dies, Exit, ForgetMemory
    <3> QED
      BY <3>1 DEF DetailsType
  <2> QED
    BY <2>1, <2>2 DEF KeptInv, NoDetails
<1>9. CASE TimePasses
  BY <1>0, <1>9 DEF TimePasses, vars
<1> QED
  BY <1>1, <1>2, <1>3, <1>4, <1>5, <1>6, <1>7, <1>8, <1>9 DEF DetailsNext

-----------------------------------------------------------------------------
(* How far the file is behind.                                             *)

LEMMA DetailsNat ==
  ASSUME DetailsType
  PROVE  /\ clock \in Nat /\ clock # Never
         /\ \A t \in Token :
              /\ lastUsed[t] \in Nat
              /\ lastAttempt[t] \in Nat
              /\ kept.file[t].used \in Nat
              /\ kept.live[t].used \in Nat
              /\ kept.next[t].used \in Nat
<1>1. \A n \in Time \cup {Never} : n \in Nat
  BY DetailsFacts DEF Never
<1>2. clock \in Nat /\ clock # Never
  BY DetailsFacts DEF DetailsType, Never
<1> QED
  BY <1>1, <1>2, KeptFields DEF DetailsType, Details

(* The value a mutation keeps of a row: none, the old one or the newest.   *)
LEMMA KeptOfUsed ==
  ASSUME DetailsType, NEW rows, NEW op, NEW t \in Token
  PROVE  /\ KeptOf(rows, op)[t].used \in {Never, lastUsed[t], kept.live[t].used}
         /\ rows.devices[t] # NoUser /\ live.devices[t] # NoUser =>
              KeptOf(rows, op)[t].used =
                IF op.kind = "touch" /\ t \in Unsaved THEN lastUsed[t] ELSE kept.live[t].used
<1>1. kept.live[t] \in [id : Id \cup {NoId}, used : Time \cup {Never}]
  BY KeptFields DEF Details
<1>2. [kept.live[t] EXCEPT !.used = lastUsed[t]].used = lastUsed[t]
  BY <1>1
<1>3. Blank.used = Never
  BY DEF Blank
<1> QED
  BY <1>2, <1>3 DEF KeptOf

LEMMA UsedInit == DetailsInit => UsedInv /\ BehindInv
<1> SUFFICES ASSUME DetailsInit PROVE UsedInv /\ BehindInv
  OBVIOUS
<1>1. /\ clock = 1 /\ stage = "idle"
      /\ \A t \in Token : /\ lastUsed[t] = 0
                          /\ kept.file[t].used = 0
                          /\ kept.live[t].used = 0
                          /\ kept.next[t].used = 0
  BY DEF DetailsInit, NoDetails, NoTimes, Blank, Never
<1> QED
  BY <1>1 DEF UsedInv, BehindInv, Behind, Never

LEMMA UsedStep ==
  WholeInv /\ DetailsType /\ TimesInv /\ KeptInv /\ UsedInv /\ [DetailsNext]_allVars => UsedInv'
<1> SUFFICES ASSUME WholeInv, DetailsType, TimesInv, KeptInv, UsedInv, [DetailsNext]_allVars
             PROVE  UsedInv'
  OBVIOUS
<1>0. ASSUME UNCHANGED <<phase, stage, next, kept, clock, lastUsed>> PROVE UsedInv'
  BY <1>0 DEF UsedInv
<1>n. /\ clock \in Nat
      /\ \A t \in Token : /\ lastUsed[t] \in Nat
                          /\ kept.file[t].used \in Nat
                          /\ kept.live[t].used \in Nat
                          /\ kept.next[t].used \in Nat
  BY DetailsNat
<1>d. phase # "up" => \A t \in Token : lastUsed[t] = Never
  BY DEF TimesInv, NoTimes
<1>1. CASE UNCHANGED allVars
  BY <1>0, <1>1 DEF allVars, details, vars
<1>2. CASE BootAsIs
  <2>1. kept'.file = kept.file /\ kept'.live = kept.file /\ kept'.next = kept.file
    BY <1>2, KeptFields DEF BootAsIs
  <2>2. phase = "down" /\ UNCHANGED <<clock, lastUsed>> /\ (phase' = "up" => stage' = "idle")
    BY <1>2 DEF BootAsIs, Boot, OpenExisting, OpenEmpty, WholeInv, OwnInv, PhaseInv, LandedInv
  <2> QED
    BY <1>d, <2>1, <2>2 DEF UsedInv
<1>3. CASE BootWritingIdsBack
  <2>1. /\ kept'.file = kept.file /\ kept'.next = kept'.live
        /\ \A t \in Token : kept'.live[t].used = kept.file[t].used
    BY <1>3, ParseRowsKept DEF BootWritingIdsBack
  <2>2. phase = "down" /\ phase' = "creating" /\ UNCHANGED <<clock, lastUsed>>
    BY <1>3 DEF BootWritingIdsBack, ParseRows
  <2> QED
    BY <1>d, <2>1, <2>2 DEF UsedInv
<1>4. CASE Ask
  BY <1>0, <1>4 DEF Ask, details, RequestAttach, RequestRemove, RequestUpdate, RequestBury, Enqueue
<1>5. ASSUME NEW t \in Token, Touch(t) PROVE UsedInv'
  <2>1. UNCHANGED <<phase, stage, next, kept, clock>> /\ lastUsed' = [lastUsed EXCEPT ![t] = clock]
    BY <1>5 DEF Touch, RequestTouch, Enqueue, vars
  <2>2. lastUsed'[t] = clock /\ \A x \in Token \ {t} : lastUsed'[x] = lastUsed[x]
    BY <2>1 DEF DetailsType
  <2>3. ASSUME NEW x \in Token PROVE lastUsed'[x] <= clock /\ lastUsed[x] <= lastUsed'[x]
    <3>1. lastUsed[x] <= clock
      BY DEF UsedInv
    <3> QED
      BY <1>n, <2>2, <3>1
  <2>4. ASSUME NEW x \in Token, lastUsed'[x] # Never PROVE kept.live[x].used <= lastUsed'[x]
    <3>1. kept.live[x].used <= clock /\ (lastUsed[x] # Never => kept.live[x].used <= lastUsed[x])
      BY DEF UsedInv
    <3> QED
      BY <1>n, <2>2, <2>4, <3>1
  <2>5. ASSUME phase = "up", stage # "idle", NEW x \in Token, lastUsed'[x] # Never, next.devices[x] # NoUser
        PROVE  kept.next[x].used <= lastUsed'[x]
    <3>1. kept.next[x].used <= clock /\ (lastUsed[x] # Never => kept.next[x].used <= lastUsed[x])
      BY <2>5 DEF UsedInv
    <3> QED
      BY <1>n, <2>2, <2>5, <3>1
  <2> QED
    BY <2>1, <2>3, <2>4, <2>5 DEF UsedInv
<1>6. CASE Close
  BY <1>0, <1>6 DEF Close, RequestTouch, Enqueue
<1>7. CASE Write
  <2>0. UNCHANGED clock
    BY <1>7 DEF Write
  <2>1. CASE WriteChanges
    <3>1. phase = "up" /\ stage = "idle" /\ phase' = "up" /\ UNCHANGED <<live, lastUsed>>
      BY <2>1 DEF WriteChanges, Mutate
    <3>2. kept'.file = kept.file /\ kept'.live = kept.live /\ kept'.next = KeptOf(next', Head(writes))
      BY <2>1, KeptFields DEF WriteChanges
    <3>3. ASSUME NEW t \in Token PROVE kept'.next[t].used <= clock
      BY <1>n, <3>2, KeptOfUsed DEF UsedInv, Never
    <3>4. ASSUME NEW t \in Token, next'.devices[t] # NoUser
          PROVE  /\ kept.live[t].used <= kept'.next[t].used
                 /\ lastUsed[t] # Never => kept'.next[t].used <= lastUsed[t]
      <4>1. CASE live.devices[t] = NoUser
        <5>1. kept.live[t].used = 0 /\ lastUsed[t] = Never
          BY <4>1 DEF KeptInv, Blank, Never, TimesInv, NothingKeptOfTheDeparted
        <5>2. kept'.next[t].used \in Nat
          BY <1>n, <3>2, KeptOfUsed DEF Never
        <5> QED
          BY <5>1, <5>2
      <4>2. CASE live.devices[t] # NoUser
        <5>1. kept'.next[t].used = IF Head(writes).kind = "touch" /\ t \in Unsaved
                                   THEN lastUsed[t] ELSE kept.live[t].used
          BY <3>2, <3>4, <4>2, KeptOfUsed
        <5>2. t \in Unsaved => lastUsed[t] # Never
          BY DEF Unsaved
        <5>3. lastUsed[t] # Never => kept.live[t].used <= lastUsed[t]
          BY DEF UsedInv
        <5> QED
          BY <1>n, <5>1, <5>2, <5>3
      <4> QED
        BY <4>1, <4>2
    <3> QED
      BY <2>0, <3>1, <3>2, <3>3, <3>4 DEF UsedInv
  <2>2. CASE WriteChangesNothing
    BY <1>0, <2>0, <2>2 DEF WriteChangesNothing, MutateNothing
  <2>3. CASE WriteLands
    <3>1. stage # "idle" /\ UNCHANGED <<phase, next, lastUsed>>
      BY <2>3 DEF WriteLands, Publish
    <3>2. kept'.file = kept.next /\ kept'.live = kept.live /\ kept'.next = kept.next
      BY <2>3, KeptFields DEF WriteLands
    <3> QED
      BY <2>0, <3>1, <3>2 DEF UsedInv
  <2>4. CASE WriteIsSwappedIn
    <3>1. stage = "landed" /\ stage' = "idle" /\ lastUsed' = TimesOf(next, lastUsed)
      BY <2>4 DEF WriteIsSwappedIn, Swap, Settle
    <3>2. kept'.file = kept.file /\ kept'.live = kept.next /\ kept'.next = kept.next
      BY <2>4, KeptFields DEF WriteIsSwappedIn
    <3>3. \A t \in Token : lastUsed'[t] \in {Never, lastUsed[t]}
      BY <3>1 DEF TimesOf
    <3>4. ASSUME NEW t \in Token, lastUsed'[t] # Never PROVE kept.next[t].used <= lastUsed'[t]
      <4>1. next.devices[t] # NoUser /\ lastUsed'[t] = lastUsed[t]
        BY <3>1, <3>4 DEF TimesOf
      <4>2. phase = "up"
        BY <1>d, <3>4, <4>1
      <4> QED
        BY <3>1, <3>4, <4>1, <4>2 DEF UsedInv
    <3> QED
      BY <1>n, <2>0, <3>1, <3>2, <3>3, <3>4 DEF UsedInv, Never
  <2>5. CASE WriteFails
    <3>1. stage' = "idle" /\ UNCHANGED lastUsed
      BY <2>5 DEF WriteFails, CheckThrows, GiveUp, Fail, Settle
    <3>2. kept'.file = kept.file /\ kept'.live = kept.live /\ kept'.next = kept.live
      BY <2>5, KeptFields DEF WriteFails
    <3> QED
      BY <2>0, <3>1, <3>2 DEF UsedInv
  <2>6. CASE WriteGoesOn
    <3>1. stage # "idle" /\ UNCHANGED <<phase, next, lastUsed, kept>>
      BY <2>6 DEF WriteGoesOn, CheckFile, Retry
    <3> QED
      BY <2>0, <3>1 DEF UsedInv
  <2> QED
    BY <1>7, <2>1, <2>2, <2>3, <2>4, <2>5, <2>6 DEF Write
<1>8. CASE Dies \/ Exit
  <2>1. phase' = "down" /\ UNCHANGED clock /\ lastUsed' = NoTimes
    BY <1>8 DEF Dies, Exit, Crash, ForgetMemory
  <2>2. kept'.file = kept.file /\ kept'.live = NoDetails /\ kept'.next = NoDetails
    <3>1. kept' = [kept EXCEPT !.live = NoDetails, !.next = NoDetails]
      BY <1>8 DEF Dies, Exit, ForgetMemory
    <3> QED
      BY <3>1 DEF DetailsType
  <2>3. \A t \in Token : NoTimes[t] = 0 /\ NoDetails[t].used = 0
    BY DEF NoTimes, NoDetails, Blank, Never
  <2> QED
    BY <1>n, <2>1, <2>2, <2>3 DEF UsedInv, Never
<1>9. CASE TimePasses
  <2>1. UNCHANGED <<phase, stage, next, kept, lastUsed>> /\ clock' = clock + 1
    BY <1>9 DEF TimePasses, vars
  <2> QED
    BY <1>n, <2>1 DEF UsedInv
<1> QED
  BY <1>1, <1>2, <1>3, <1>4, <1>5, <1>6, <1>7, <1>8, <1>9 DEF DetailsNext

LEMMA BehindStep ==
  WholeInv /\ DetailsType /\ TimesInv /\ UsedInv /\ BehindInv /\ [DetailsNext]_allVars => BehindInv'
<1> SUFFICES ASSUME WholeInv, DetailsType, TimesInv, UsedInv, BehindInv, [DetailsNext]_allVars
             PROVE  BehindInv'
  OBVIOUS
<1>0. ASSUME kept'.live = kept.live, UNCHANGED <<lastUsed, lastAttempt>> PROVE BehindInv'
  BY <1>0 DEF BehindInv, Behind
<1>d. phase # "up" => \A t \in Token : lastUsed[t] = Never
  BY DEF TimesInv, NoTimes
<1>1. CASE UNCHANGED allVars
  BY <1>0, <1>1 DEF allVars, details
<1>2. CASE BootAsIs \/ BootWritingIdsBack
  <2>1. phase = "down" /\ UNCHANGED lastUsed
    BY <1>2 DEF BootAsIs, Boot, OpenExisting, OpenEmpty, BootWritingIdsBack, ParseRows
  <2> QED
    BY <1>d, <2>1 DEF BehindInv, Behind
<1>3. CASE Ask
  BY <1>0, <1>3 DEF Ask, details
<1>4. ASSUME NEW t \in Token, Touch(t) PROVE BehindInv'
  <2>1. UNCHANGED kept /\ lastUsed' = [lastUsed EXCEPT ![t] = clock]
        /\ IF Stale(t) /\ ~AskedLately(t)
           THEN lastAttempt' = [lastAttempt EXCEPT ![t] = clock]
           ELSE lastAttempt' = lastAttempt
    BY <1>4 DEF Touch
  <2>2. lastUsed'[t] = clock /\ \A x \in Token \ {t} : lastUsed'[x] = lastUsed[x] /\ lastAttempt'[x] = lastAttempt[x]
    BY <2>1 DEF DetailsType
  <2>3. Behind(t)' => Stale(t)
    BY <2>1, <2>2 DEF Behind, Stale
  <2>4. ASSUME Stale(t) PROVE lastAttempt'[t] # Never /\ clock - lastAttempt'[t] < Interval
    <3>1. CASE AskedLately(t)
      BY <2>1, <3>1 DEF AskedLately
    <3>2. CASE ~AskedLately(t)
      <4>1. lastAttempt'[t] = clock
        BY <2>1, <2>4, <3>2 DEF DetailsType
      <4> QED
        BY <4>1, DetailsNat, IntervalAssumption
    <3> QED
      BY <3>1, <3>2
  <2>5. ASSUME NEW x \in Token, Behind(x)'
        PROVE  lastAttempt'[x] # Never /\ lastUsed'[x] - lastAttempt'[x] < Interval
    <3>1. CASE x = t
      BY <2>2, <2>3, <2>4, <2>5, <3>1
    <3>2. CASE x # t
      <4>1. Behind(x)
        BY <2>1, <2>2, <2>5, <3>2 DEF Behind
      <4> QED
        BY <2>2, <3>2, <4>1 DEF BehindInv
    <3> QED
      BY <3>1, <3>2
  <2> QED
    BY <2>5 DEF BehindInv
<1>5. CASE Close
  BY <1>0, <1>5 DEF Close
<1>6. CASE Write
  <2>1. CASE WriteChanges \/ WriteChangesNothing \/ WriteLands \/ WriteFails \/ WriteGoesOn
    <3>1. UNCHANGED <<lastUsed, lastAttempt>>
      BY <2>1 DEF WriteChanges, WriteChangesNothing, WriteLands, WriteFails, WriteGoesOn
    <3>2. kept'.live = kept.live
      BY <2>1 DEF WriteChanges, WriteChangesNothing, WriteLands, WriteFails, WriteGoesOn, DetailsType
    <3> QED
      BY <1>0, <3>1, <3>2
  <2>2. CASE WriteIsSwappedIn
    <3>1. stage = "landed" /\ lastUsed' = TimesOf(next, lastUsed) /\ lastAttempt' = TimesOf(next, lastAttempt)
          /\ kept'.live = kept.next
      BY <2>2, KeptFields DEF WriteIsSwappedIn, Swap
    <3>2. ASSUME NEW t \in Token, Behind(t)'
          PROVE  lastAttempt'[t] # Never /\ lastUsed'[t] - lastAttempt'[t] < Interval
      <4>1. next.devices[t] # NoUser /\ lastUsed'[t] = lastUsed[t] /\ lastAttempt'[t] = lastAttempt[t]
            /\ lastUsed[t] # Never
        BY <3>1, <3>2 DEF TimesOf, Behind
      <4>2. kept.live[t].used <= kept.next[t].used
        BY <1>d, <3>1, <4>1 DEF UsedInv
      <4>3. kept.next[t].used = Never \/ lastUsed[t] - kept.next[t].used > Interval
        BY <3>1, <3>2, <4>1 DEF Behind
      <4>4. kept.live[t].used = Never \/ lastUsed[t] - kept.live[t].used > Interval
        BY <4>2, <4>3, DetailsNat, IntervalAssumption DEF Never
      <4>5. Behind(t)
        BY <4>1, <4>4 DEF Behind
      <4> QED
        BY <4>1, <4>5 DEF BehindInv
    <3> QED
      BY <3>2 DEF BehindInv
  <2> QED
    BY <1>6, <2>1, <2>2 DEF Write
<1>7. CASE Dies \/ Exit
  <2>1. \A t \in Token : lastUsed'[t] = Never
    BY <1>7 DEF Dies, Exit, ForgetMemory, NoTimes
  <2> QED
    BY <2>1 DEF BehindInv, Behind
<1>8. CASE TimePasses
  BY <1>0, <1>8 DEF TimePasses
<1> QED
  BY <1>1, <1>2, <1>3, <1>4, <1>5, <1>6, <1>7, <1>8 DEF DetailsNext

-----------------------------------------------------------------------------
(* The flush of a clean stop.                                              *)

(* The rest of the queue, once its head has been taken off. *)
LEMMA QueueRest ==
  ASSUME WholeInv, writes # <<>>, writes' = Tail(writes)
  PROVE  /\ \A i \in 1..Len(writes') : i + 1 \in 1..Len(writes) /\ i + 1 # 1 /\ writes'[i] = writes[i + 1]
         /\ \A i \in 1..Len(writes) : i # 1 => i - 1 \in 1..Len(writes') /\ writes'[i - 1] = writes[i]
<1>1. writes \in Seq(Op)
  BY DEF WholeInv, OwnInv, TypeOK
<1>2. /\ Len(writes') = Len(writes) - 1 /\ Len(writes) \in Nat
      /\ \A i \in 1..Len(writes') : i + 1 \in 1..Len(writes) /\ writes'[i] = writes[i + 1]
  BY <1>1, QueueHead
<1>3. \A i \in 1..Len(writes) : i # 1 => i - 1 \in 1..Len(writes') /\ (i - 1) + 1 = i
  BY <1>2
<1> QED
  BY <1>2, <1>3

(* Whether the head was the last touch. *)
LEMMA LastTouch ==
  ASSUME WholeInv, writes # <<>>, writes' = Tail(writes)
  PROVE  /\ (\A i \in 1..Len(writes') : writes'[i].kind # "touch")
              <=> (\A i \in 1..Len(writes) : i # 1 => writes[i].kind # "touch")
         /\ \A k : (\A i \in 1..Len(writes) : writes[i].kind # k)
                     => (\A i \in 1..Len(writes') : writes'[i].kind # k)
<1>1. /\ \A i \in 1..Len(writes') : i + 1 \in 1..Len(writes) /\ i + 1 # 1 /\ writes'[i] = writes[i + 1]
      /\ \A i \in 1..Len(writes) : i # 1 => i - 1 \in 1..Len(writes') /\ writes'[i - 1] = writes[i]
  BY QueueRest
<1>2. (\A i \in 1..Len(writes') : writes'[i].kind # "touch")
        => (\A i \in 1..Len(writes) : i # 1 => writes[i].kind # "touch")
  BY <1>1
<1>3. (\A i \in 1..Len(writes) : i # 1 => writes[i].kind # "touch")
        => (\A i \in 1..Len(writes') : writes'[i].kind # "touch")
  BY <1>1
<1>4. ASSUME NEW k, \A i \in 1..Len(writes) : writes[i].kind # k
      PROVE  \A i \in 1..Len(writes') : writes'[i].kind # k
  BY <1>1, <1>4
<1> QED
  BY <1>2, <1>3, <1>4

(* What a mutation asked of the queue adds to it. *)
LEMMA QueueEnd ==
  ASSUME WholeInv, NEW op, writes' = Append(writes, op)
  PROVE  /\ \A i \in 1..Len(writes) : i \in 1..Len(writes') /\ writes'[i] = writes[i]
         /\ Len(writes) + 1 \in 1..Len(writes') /\ writes'[Len(writes) + 1] = op
         /\ \A i \in 1..Len(writes') : i \in 1..Len(writes) \/ i = Len(writes) + 1
         /\ writes # <<>> => Len(writes) + 1 # 1
<1>1. writes \in Seq(Op) /\ Len(writes) \in Nat
  BY DEF WholeInv, OwnInv, TypeOK
<1>2. Len(writes') = Len(writes) + 1
  BY <1>1
<1>3. \A i \in 1..Len(writes) : writes'[i] = writes[i]
  BY <1>1
<1>4. writes'[Len(writes) + 1] = op
  BY <1>1
<1>5. writes # <<>> => Len(writes) # 0
  BY <1>1
<1> QED
  BY <1>1, <1>2, <1>3, <1>4, <1>5

LEMMA FlushInit == DetailsInit => FlushInv
BY DEF DetailsInit, FlushInv

LEMMA AskFlush ==
  ASSUME WholeInv, FlushInv, Ask
  PROVE  FlushInv'
<1>1. UNCHANGED <<phase, stage, kept, lastUsed, closing>>
  BY DEF Ask, details, RequestAttach, RequestRemove, RequestUpdate, RequestBury, Enqueue
<1>2. CASE closing \in {"no", "exited"}
  BY <1>1, <1>2 DEF FlushInv
<1>3. CASE closing \in {"flushing", "flushed", "failed"}
  <2>1. PICK op \in UpdateOp \cup BuryOp : writes' = Append(writes, op)
    <3>1. ASSUME NEW u \in User, NEW p \in Pair, NEW s \in Pair \cup {NoPair}, RequestUpdate(u, p, s)
          PROVE  \E op \in UpdateOp \cup BuryOp : writes' = Append(writes, op)
      BY <3>1 DEF RequestUpdate, Enqueue, UpdateOp
    <3>2. ASSUME NEW u \in User, NEW s \in Pair \cup {NoPair}, RequestBury(u, s)
          PROVE  \E op \in UpdateOp \cup BuryOp : writes' = Append(writes, op)
      BY <3>2 DEF RequestBury, Enqueue, BuryOp
    <3> QED
      BY <1>3, <3>1, <3>2 DEF Ask
  <2>2. op.kind \in {"update", "bury"}
    BY DEF UpdateOp, BuryOp
  <2>3. /\ \A i \in 1..Len(writes) : i \in 1..Len(writes') /\ writes'[i] = writes[i]
        /\ \A i \in 1..Len(writes') : i \in 1..Len(writes) \/ writes'[i] = op
    BY <2>1, QueueEnd
  <2>4. \A i \in 1..Len(writes') : i \in 1..Len(writes) \/ writes'[i].kind \in {"update", "bury"}
    BY <2>2, <2>3
  <2>5. TouchQueued' <=> TouchQueued
    BY <2>3, <2>4 DEF TouchQueued
  <2>6. LastTouchRuns' => LastTouchRuns
    BY <1>1, <2>3 DEF LastTouchRuns
  <2>7. \A i \in 1..Len(writes') : writes'[i].kind \notin {"attach", "remove"}
    BY <1>3, <2>3, <2>4 DEF FlushInv
  <2> QED
    BY <1>1, <2>5, <2>6, <2>7 DEF FlushInv, Saved
<1> QED
  BY <1>2, <1>3, <1>1 DEF FlushInv

LEMMA CloseFlush ==
  ASSUME WholeInv, FlushInv, Close
  PROVE  FlushInv'
<1>1. /\ phase = "up" /\ closing = "no" /\ closing' = "flushing" /\ UNCHANGED <<phase, stage>>
      /\ \A i \in 1..Len(writes) : writes[i].kind \notin {"attach", "remove"}
      /\ writes' = Append(writes, [kind |-> "touch"])
  BY DEF Close, RequestTouch, Enqueue
<1>2. /\ \A i \in 1..Len(writes) : writes'[i] = writes[i]
      /\ Len(writes) + 1 \in 1..Len(writes') /\ writes'[Len(writes) + 1] = [kind |-> "touch"]
      /\ \A i \in 1..Len(writes') : i \in 1..Len(writes) \/ i = Len(writes) + 1
      /\ writes # <<>> => Len(writes) + 1 # 1
  BY <1>1, QueueEnd
<1>3. writes'[Len(writes) + 1].kind = "touch"
  BY <1>2
<1>4. TouchQueued'
  BY <1>2, <1>3 DEF TouchQueued
<1>5. ~LastTouchRuns'
  <2>1. stage # "idle" => writes # <<>>
    BY <1>1 DEF WholeInv, OwnInv, PendingInv
  <2> QED
    BY <1>1, <1>2, <1>3, <2>1 DEF LastTouchRuns
<1>6. \A i \in 1..Len(writes') : writes'[i].kind \notin {"attach", "remove"}
  BY <1>1, <1>2, <1>3
<1> QED
  BY <1>1, <1>4, <1>5, <1>6 DEF FlushInv

(* What a write begun after the hook has begun leaves in the copy. *)
LEMMA FlushMutate ==
  ASSUME WholeInv, DetailsType, TimesInv, FlushInv, WriteChanges,
         closing \in {"flushing", "flushed"}, closing = "flushing" => LastTouchRuns'
  PROVE  Saved(KeptOf(next', Head(writes)))
<1> DEFINE op == Head(writes)
<1>1. /\ phase = "up" /\ writes # <<>> /\ Applies(live, op) /\ next' = Change(live, op) /\ UNCHANGED writes
  BY DEF WriteChanges, Mutate
<1>2. op \in Op /\ op = writes[1] /\ 1 \in 1..Len(writes)
  BY <1>1, QueueHead DEF WholeInv, OwnInv, TypeOK
<1>3. op.kind \in {"update", "bury", "touch"}
  BY <1>2, OpFields DEF FlushInv
<1>4. closing = "flushing" => op.kind = "touch"
  <2>1. closing = "flushing" => TouchQueued
    BY DEF FlushInv
  <2> QED
    BY <1>1, <1>2, <2>1 DEF TouchQueued, LastTouchRuns
<1>5. closing = "flushed" => Saved(kept.live)
  BY DEF FlushInv
<1>6. next'.devices = live.devices
  <2>1. CASE op.kind = "touch"
    BY <1>1, <2>1 DEF Change
  <2>2. CASE op.kind \in {"update", "bury"}
    <3>1. op \in UpdateOp \cup BuryOp /\ StillHolds(live, op)
      BY <1>1, <1>2, <2>2, OpFields DEF Applies
    <3> QED
      BY <1>1, <3>1, UpdateBuryRows DEF WholeInv, OwnInv, TypeOK
  <2> QED
    BY <1>3, <2>1, <2>2
<1> HIDE DEF op
<1> SUFFICES ASSUME NEW t \in Token, lastUsed[t] # Never PROVE lastUsed[t] = KeptOf(next', op)[t].used
  BY DEF Saved, op
<1>7. live.devices[t] # NoUser
  BY DEF TimesInv, NothingKeptOfTheDeparted
<1>8. KeptOf(next', op)[t].used = IF op.kind = "touch" /\ t \in Unsaved THEN lastUsed[t] ELSE kept.live[t].used
  BY <1>6, <1>7, KeptOfUsed
<1>9. CASE op.kind = "touch"
  BY <1>7, <1>8, <1>9 DEF Unsaved
<1>10. CASE op.kind # "touch"
  BY <1>4, <1>5, <1>8, <1>10 DEF Saved
<1> QED
  BY <1>9, <1>10

LEMMA WriteFlush ==
  ASSUME WholeInv, DetailsType, TimesInv, FlushInv, Write
  PROVE  FlushInv'
<1>1. CASE closing \in {"no", "exited"}
  <2>1. closing' = closing
    BY <1>1 DEF Write, WriteChanges, WriteChangesNothing, WriteLands, WriteIsSwappedIn, WriteFails,
                WriteGoesOn, HookSettles
  <2> QED
    BY <1>1, <2>1 DEF FlushInv
<1>2. CASE closing \in {"flushing", "flushed", "failed"}
  <2>0. /\ phase = "up"
        /\ \A i \in 1..Len(writes) : writes[i].kind \notin {"attach", "remove"}
    BY <1>2 DEF FlushInv
  <2>1. CASE WriteChanges
    <3>1. UNCHANGED <<phase, writes, lastUsed, closing>> /\ kept'.live = kept.live
          /\ kept'.next = KeptOf(next', Head(writes))
      BY <2>1, KeptFields DEF WriteChanges, Mutate
    <3>2. closing = "flushed" => Saved(KeptOf(next', Head(writes)))
      BY <2>1, FlushMutate
    <3>3. closing = "flushing" /\ LastTouchRuns' => Saved(KeptOf(next', Head(writes)))
      BY <2>1, FlushMutate
    <3>4. TouchQueued' <=> TouchQueued
      BY <3>1 DEF TouchQueued
    <3> QED
      BY <2>0, <3>1, <3>2, <3>3, <3>4 DEF FlushInv, Saved
  <2>2. ASSUME NEW how \in {"flushed", "failed"}, HookSettles(how), writes # <<>>, writes' = Tail(writes),
               phase' = "up", stage' = "idle",
               closing = "flushed" => Saved(kept.live)',
               /\ closing = "flushing" /\ how = "flushed"
               /\ \A i \in 1..Len(writes) : i # 1 => writes[i].kind # "touch"
               => Saved(kept.live)'
        PROVE  FlushInv'
    <3>1. \A i \in 1..Len(writes') : writes'[i].kind \notin {"attach", "remove"}
      BY <2>0, <2>2, QueueRest
    <3>2. /\ ~TouchQueued' <=> (\A i \in 1..Len(writes) : i # 1 => writes[i].kind # "touch")
          /\ ~TouchQueued => ~TouchQueued'
      BY <2>2, LastTouch DEF TouchQueued
    <3>3. closing' = IF closing = "flushing" /\ ~TouchQueued' THEN how ELSE closing
      BY <2>2 DEF HookSettles, TouchQueued
    <3>4. closing = "flushed" => ~TouchQueued
      BY DEF FlushInv
    <3> QED
      BY <1>2, <2>2, <3>1, <3>2, <3>3, <3>4 DEF FlushInv, LastTouchRuns
  <2>3. CASE WriteChangesNothing
    <3>1. /\ writes # <<>> /\ writes' = Tail(writes) /\ phase' = "up" /\ stage' = "idle"
          /\ UNCHANGED <<kept, lastUsed>> /\ HookSettles("flushed")
          /\ Head(writes).kind = "touch" => Unsaved = {}
      BY <2>0, <2>3 DEF WriteChangesNothing, MutateNothing
    <3>2. ASSUME closing = "flushing", \A i \in 1..Len(writes) : i # 1 => writes[i].kind # "touch"
          PROVE  Saved(kept.live)
      <4>1. Head(writes) = writes[1]
        BY <3>1, QueueHead DEF WholeInv, OwnInv, TypeOK
      <4>2. Unsaved = {}
        BY <3>1, <3>2, <4>1 DEF FlushInv, TouchQueued
      <4> QED
        BY <4>2 DEF Unsaved, Saved, TimesInv, NothingKeptOfTheDeparted
    <3>3. Saved(kept.live)' <=> Saved(kept.live)
      BY <3>1 DEF Saved
    <3>4. closing = "flushed" => Saved(kept.live)
      BY DEF FlushInv
    <3> QED
      BY <2>2, <3>1, <3>2, <3>3, <3>4
  <2>4. CASE WriteLands \/ WriteGoesOn
    <3>1. UNCHANGED <<phase, writes, lastUsed, closing>> /\ stage # "idle" /\ stage' # "idle"
      BY <2>4 DEF WriteLands, Publish, WriteGoesOn, CheckFile, Retry
    <3>2. kept'.live = kept.live /\ kept'.next = kept.next
      <4>1. kept' = kept \/ kept' = [kept EXCEPT !.file = kept.next]
        BY <2>4 DEF WriteLands, WriteGoesOn
      <4> QED
        BY <4>1 DEF DetailsType
    <3>3. TouchQueued' <=> TouchQueued
      BY <3>1 DEF TouchQueued
    <3>4. LastTouchRuns' <=> LastTouchRuns
      BY <3>1 DEF LastTouchRuns
    <3> QED
      BY <2>0, <3>1, <3>2, <3>3, <3>4 DEF FlushInv, Saved
  <2>5. CASE WriteIsSwappedIn
    <3>1. /\ stage = "landed" /\ stage' = "idle" /\ phase' = "up" /\ writes' = Tail(writes)
          /\ lastUsed' = TimesOf(next, lastUsed) /\ HookSettles("flushed")
      BY <2>0, <2>5 DEF WriteIsSwappedIn, Swap, Settle
    <3>2. kept'.live = kept.next /\ writes # <<>>
      BY <2>0, <2>5, <3>1, KeptFields DEF WriteIsSwappedIn, WholeInv, OwnInv, PendingInv
    <3>3. \A t \in Token : lastUsed'[t] \in {Never, lastUsed[t]}
      BY <3>1 DEF TimesOf
    <3>4. Saved(kept.next) => Saved(kept.live)'
      BY <3>2, <3>3 DEF Saved
    <3>5. /\ closing = "flushed" => Saved(kept.next)
          /\ closing = "flushing" /\ (\A i \in 1..Len(writes) : i # 1 => writes[i].kind # "touch")
               => Saved(kept.next)
      BY <3>1 DEF FlushInv, LastTouchRuns
    <3> QED
      BY <2>2, <3>1, <3>2, <3>4, <3>5
  <2>6. CASE WriteFails
    <3>1. /\ stage # "idle" /\ stage' = "idle" /\ phase' = "up" /\ writes' = Tail(writes)
          /\ UNCHANGED lastUsed /\ HookSettles("failed")
      BY <2>0, <2>6 DEF WriteFails, CheckThrows, GiveUp, Fail, Settle
    <3>2. kept'.live = kept.live /\ writes # <<>>
      BY <2>0, <2>6, <3>1, KeptFields DEF WriteFails, WholeInv, OwnInv, PendingInv
    <3>3. closing = "flushed" => Saved(kept.live)'
      BY <3>1, <3>2 DEF FlushInv, Saved
    <3> QED
      BY <2>2, <3>1, <3>2, <3>3
  <2> QED
    BY <2>1, <2>3, <2>4, <2>5, <2>6 DEF Write
<1> QED
  BY <1>1, <1>2, <1>1 DEF DetailsType

LEMMA FlushStep ==
  WholeInv /\ DetailsType /\ TimesInv /\ FlushInv /\ [DetailsNext]_allVars => FlushInv'
<1> SUFFICES ASSUME WholeInv, DetailsType, TimesInv, FlushInv, [DetailsNext]_allVars PROVE FlushInv'
  OBVIOUS
<1>1. CASE UNCHANGED allVars \/ TimePasses
  <2>1. UNCHANGED <<phase, writes, stage, kept, lastUsed, closing>>
    BY <1>1 DEF allVars, details, vars, TimePasses
  <2> QED
    BY <2>1 DEF FlushInv, TouchQueued, LastTouchRuns, Saved
<1>2. CASE BootAsIs \/ BootWritingIdsBack \/ Dies \/ Exit \/ \E t \in Token : Touch(t)
  <2>1. closing' \in {"no", "exited"}
    BY <1>2 DEF BootAsIs, BootWritingIdsBack, ParseRows, Dies, Exit, Touch
  <2> QED
    BY <2>1 DEF FlushInv
<1> QED
  BY <1>1, <1>2, AskFlush, CloseFlush, WriteFlush DEF DetailsNext

-----------------------------------------------------------------------------
(* The list an older release left.                                         *)

(* Only the rename replaces the list, and nothing else writes the file. *)
LEMMA EntriesMove ==
  ASSUME [DetailsNext]_allVars
  PROVE  \/ WriteLands
         \/ UNCHANGED <<entries, file>> /\ (stage' = "landed" => stage = "landed")
<1> DEFINE Same == UNCHANGED <<entries, file>> /\ (stage' = "landed" => stage = "landed")
<1>1. CASE UNCHANGED allVars \/ TimePasses \/ Ask \/ Close
  BY <1>1 DEF allVars, details, vars, TimePasses, Ask, RequestAttach, RequestRemove, RequestUpdate,
              RequestBury, Close, RequestTouch, Enqueue
<1>2. ASSUME NEW t \in Token, Touch(t) PROVE Same
  BY <1>2 DEF Touch, RequestTouch, Enqueue, vars
<1>3. CASE BootAsIs \/ BootWritingIdsBack
  BY <1>3 DEF BootAsIs, Boot, OpenExisting, OpenEmpty, BootWritingIdsBack, ParseRows
<1>4. CASE Write
  <2>1. CASE WriteChanges \/ WriteChangesNothing \/ WriteGoesOn
    BY <2>1 DEF WriteChanges, Mutate, WriteChangesNothing, MutateNothing, WriteGoesOn, CheckFile, Retry
  <2>2. CASE WriteIsSwappedIn \/ WriteFails
    BY <2>2 DEF WriteIsSwappedIn, Swap, WriteFails, CheckThrows, GiveUp, Fail, Settle
  <2> QED
    BY <1>4, <2>1, <2>2 DEF Write
<1>5. CASE Dies \/ Exit
  BY <1>5 DEF Dies, Exit, ForgetMemory, Crash, Settle
<1> QED
  BY <1>1, <1>2, <1>3, <1>4, <1>5 DEF DetailsNext

(* A server that comes up over a list it does not replace has found no     *)
(* device in it that is not dead: one that is not would need an id.        *)
LEMMA UpOverDeadOnly ==
  ASSUME WholeInv, DetailsType, KeptInv, EntriesInv, entries # NoEntries, BootAsIs
  PROVE  /\ \A t \in Token : entries[t] # NoEntry => entries[t].dead
         /\ live' = NoRows
         /\ phase' = "up"
<1>1. file # NoFile /\ file.rows = NoRows
  BY DEF EntriesInv
<1>2. \A t \in Token : kept.file[t].id = NoId
  <2>1. \A t \in Token : file.rows.devices[t] = NoUser
    BY <1>1, NoRowsType
  <2>2. \A t \in Token : kept.file[t] = Blank
    BY <2>1 DEF KeptInv
  <2>3. Blank.id = NoId
    BY DEF Blank
  <2> QED
    BY <2>2, <2>3
<1>3. \A t \in Token : Migrated(entries).devices[t] = NoUser
  BY <1>1, <1>2 DEF BootAsIs, IdsGenerated, ParsedRows
<1>4. phase' = "up" /\ live' = DropOrphans(NoRows)
  BY <1>1 DEF BootAsIs, Boot, OpenExisting, OpenEmpty
<1>5. live' = NoRows
  BY <1>4, NoRowsType, LoadWholeRows
<1> QED
  BY <1>3, <1>4, <1>5, MigratedFacts DEF DetailsType

(* Nothing but such a boot brings a server up where no write has landed,   *)
(* and the maps one answers from change only with a write that has.        *)
LEMMA RunningStaysUp ==
  ASSUME [DetailsNext]_allVars, ~BootAsIs, stage # "landed", phase' = "up"
  PROVE  phase = "up" /\ live' = live
<1>1. ~BootWritingIdsBack
  BY DEF BootWritingIdsBack
<1>2. CASE UNCHANGED allVars \/ TimePasses \/ Ask \/ Close
  BY <1>2 DEF allVars, vars, TimePasses, Ask, RequestAttach, RequestRemove, RequestUpdate,
              RequestBury, Close, RequestTouch, Enqueue
<1>3. ASSUME NEW t \in Token, Touch(t) PROVE phase = "up" /\ live' = live
  BY <1>3 DEF Touch, RequestTouch, Enqueue, vars
<1>4. CASE Write
  <2>1. CASE WriteChanges \/ WriteChangesNothing \/ WriteGoesOn \/ WriteLands
    BY <2>1 DEF WriteChanges, Mutate, WriteChangesNothing, MutateNothing, WriteGoesOn, CheckFile, Retry,
                WriteLands, Publish
  <2>2. CASE WriteIsSwappedIn \/ WriteFails
    BY <2>2 DEF WriteIsSwappedIn, Swap, WriteFails, CheckThrows, GiveUp, Fail
  <2> QED
    BY <1>4, <2>1, <2>2 DEF Write
<1>5. ~(Dies \/ Exit)
  BY DEF Dies, Exit, Crash
<1> QED
  BY <1>1, <1>2, <1>3, <1>4, <1>5 DEF DetailsNext

LEMMA EntriesStep ==
  WholeInv /\ DetailsType /\ KeptInv /\ EntriesInv /\ [DetailsNext]_allVars => EntriesInv'
<1> SUFFICES ASSUME WholeInv, DetailsType, KeptInv, EntriesInv, [DetailsNext]_allVars PROVE EntriesInv'
  OBVIOUS
<1>0. issued \subseteq issued' /\ phase \in {"down", "creating", "up"}
  BY DetailsStepIsStoreStep, IssuedGrows, WriteBackStore DEF DetailsType, WholeInv, OwnInv, TypeOK
<1>1. CASE WriteLands
  <2>1. entries' = NoEntries /\ stage' = "landed"
    BY <1>1 DEF WriteLands, Publish
  <2> QED
    BY <2>1, NoEntriesFacts DEF EntriesInv, ReadInv
<1>2. CASE UNCHANGED <<entries, file>> /\ (stage' = "landed" => stage = "landed")
  <2>1. \A t \in Token : entries'[t] # NoEntry => t \in issued'
    BY <1>0, <1>2 DEF EntriesInv
  <2>2. CASE entries = NoEntries
    <3>1. ReadInv'
      <4>1. CASE BootWritingIdsBack
        <5>1. live' = file.rows /\ file # NoFile
          BY <2>2, <4>1, WriteBackStore, ParsedFacts DEF DetailsType, WholeInv
        <5> QED
          BY <1>2, <5>1 DEF ReadInv
      <4>2. CASE [Next]_vars
        BY <2>2, <4>2, ReadStep DEF WholeInv, IInv, EntriesInv
      <4> QED
        BY <4>1, <4>2, DetailsStepIsStoreStep
    <3> QED
      BY <1>2, <2>1, <2>2, <3>1 DEF EntriesInv
  <2>3. CASE entries # NoEntries
    <3>1. /\ file # NoFile /\ file.rows = NoRows /\ stage # "landed"
          /\ phase = "creating" => live = Migrated(entries)
          /\ phase = "up" => \A t \in Token : entries[t] # NoEntry => entries[t].dead
      BY <2>3 DEF EntriesInv
    <3>2. phase' = "creating" => live' = Migrated(entries)
      <4>1. CASE BootWritingIdsBack
        BY <2>3, <4>1, WriteBackStore DEF DetailsType, ParsedRows
      <4>2. CASE [Next]_vars
        <5>1. phase' = "creating" => phase = "creating" /\ live' = live
          BY <1>0, <3>1, <4>2
          DEF vars, Next, Boot, OpenExisting, OpenEmpty, Request, RequestAttach, RequestRemove,
              RequestUpdate, RequestBury, RequestTouch, Enqueue, WriteStep, MutateNothing, Mutate,
              CheckFile, CheckThrows, Publish, Retry, GiveUp, Fail, Swap, Crash
        <5> QED
          BY <3>1, <5>1
      <4> QED
        BY <4>1, <4>2, DetailsStepIsStoreStep
    <3>3. phase' = "up" => \A t \in Token : entries[t] # NoEntry => entries[t].dead
      <4>1. CASE BootAsIs
        BY <2>3, <4>1, UpOverDeadOnly
      <4>2. CASE ~BootAsIs
        BY <3>1, <4>2, RunningStaysUp
      <4> QED
        BY <4>1, <4>2
    <3> QED
      BY <1>2, <2>1, <2>3, <3>1, <3>2, <3>3 DEF EntriesInv
  <2> QED
    BY <2>2, <2>3
<1> QED
  BY <1>1, <1>2, EntriesMove

-----------------------------------------------------------------------------
(* The theorems.                                                           *)

(* The inductive invariant holds in every state of the store with its      *)
(* details.                                                                *)
THEOREM DetailsInvariant == DetailsSpec => []DInv
<1>1. DetailsInit => DInv
  BY DetailsInitStore, DetailsInitType, TimesInit, KeptInit, UsedInit, FlushInit DEF DInv
<1>2. DInv /\ [DetailsNext]_allVars => DInv'
  BY DetailsStepStore, DetailsTypeStep, TimesStep, KeptStep, UsedStep, BehindStep, FlushStep,
     EntriesStep DEF DInv, DetailsType
<1> QED
  BY <1>1, <1>2, PTL DEF DetailsSpec

(* Type correctness of the store with its details. *)
THEOREM DetailsTypeCorrect == DetailsSpec => []DetailsTypeOK
<1>1. DInv => DetailsTypeOK
  BY DEF DInv, WholeInv, OwnInv, DetailsType, DetailsTypeOK
<1> QED
  BY <1>1, DetailsInvariant, PTL

(* The store keeps its promises also over a file of an older release and   *)
(* with the boot that writes ids back: memory follows the file, and every  *)
(* chain has a device and every device a chain.                            *)
THEOREM UpgradedStoreIsWhole == DetailsSpec => [](MemoryNeverAheadOfFile /\ ChainsMatchDevices)
<1>1. DInv => MemoryNeverAheadOfFile /\ ChainsMatchDevices
  BY DEF DInv, WholeInv, OwnInv
<1> QED
  BY <1>1, DetailsInvariant, PTL

(* A crash loses at most the interval, plus what the throttle on attempts  *)
(* adds to it: touch and writeLastUsed, through every failed write.        *)
THEOREM CrashLosesLittle == DetailsSpec => []CrashLosesAtMostTheInterval
<1>1. DInv => CrashLosesAtMostTheInterval
  <2> SUFFICES ASSUME DInv, NEW t \in Token, lastUsed[t] # Never, file.rows.devices[t] # NoUser,
                      kept.file[t].used = Never \/ lastUsed[t] - kept.file[t].used > Interval
               PROVE  lastAttempt[t] # Never /\ lastUsed[t] - lastAttempt[t] < Interval
    BY DEF CrashLosesAtMostTheInterval
  <2>1. phase = "up"
    BY DEF DInv, TimesInv, NoTimes
  <2>2. kept.live[t].used <= kept.file[t].used
    <3>1. CASE stage # "landed"
      <4>1. kept.live[t].used = kept.file[t].used
        BY <2>1, <3>1 DEF DInv, KeptInv
      <4> QED
        BY <4>1, DetailsNat DEF DInv
    <3>2. CASE stage = "landed"
      <4>1. kept.file = kept.next /\ next.devices[t] # NoUser
        BY <2>1, <3>2 DEF DInv, KeptInv, WholeInv, OwnInv, MemoryNeverAheadOfFile
      <4> QED
        BY <2>1, <3>2, <4>1 DEF DInv, UsedInv
    <3> QED
      BY <3>1, <3>2
  <2>3. kept.live[t].used = Never \/ lastUsed[t] - kept.live[t].used > Interval
    BY <2>2, DetailsNat, IntervalAssumption DEF DInv, Never
  <2> QED
    BY <2>3 DEF DInv, BehindInv, Behind
<1> QED
  BY <1>1, DetailsInvariant, PTL

(* Nothing is remembered of a device that has no row: mutate, touch. *)
THEOREM DepartedAreForgotten == DetailsSpec => []NothingKeptOfTheDeparted
<1>1. DInv => NothingKeptOfTheDeparted
  BY DEF DInv, TimesInv
<1> QED
  BY <1>1, DetailsInvariant, PTL

(* Whether rows accept a bearer. *)
Answered(rows, t) == rows.devices[t] # NoUser /\ HasLiveChain(rows, rows.devices[t])

(* One mutation lets in only the bearer it attaches, and shuts out only    *)
(* the one it removes or those whose chain it buries.                      *)
LEMMA ChangeStanding ==
  ASSUME NEW rows \in Rows, NEW op \in Op, Applies(rows, op), ReferentialIntegrity(rows), NEW t \in Token
  PROVE  /\ ~Answered(rows, t) /\ Answered(Change(rows, op), t) => op.kind = "attach" /\ op.token = t
         /\ Answered(rows, t) /\ ~Answered(Change(rows, op), t) =>
              \/ op.kind = "remove" /\ op.token = t
              \/ op.kind = "bury" /\ op.user = rows.devices[t]
<1> USE DEF Answered
<1>0. /\ rows.devices[t] \in User \cup {NoUser}
      /\ \A u \in User : rows.chains[u] \in Chain \cup {NoChain}
      /\ NoUser \notin User /\ NoChain \notin Chain
  BY NoRowAssumption DEF Rows, Chain
<1>1. CASE op.kind = "attach"
  <2>1. op \in AttachOp /\ op.token \in Token /\ op.user \in User /\ Change(rows, op) = Attach(rows, op)
    BY <1>1, OpFields DEF Change
  <2>2. CASE t = op.token
    <3>1. Attach(rows, op).devices[t] = op.user
      BY <2>1, <2>2, AttachRows
    <3>2. HasLiveChain(Attach(rows, op), op.user)
      <4>1. CASE HasLiveChain(rows, op.user)
        BY <2>1, <4>1, AttachRows DEF HasLiveChain
      <4>2. CASE ~HasLiveChain(rows, op.user)
        <5>1. Attach(rows, op).chains[op.user] = [pair |-> op.pair, dead |-> FALSE] /\ op.pair \in Pair
          BY <2>1, <4>2, AttachRows DEF AttachOp
        <5>2. /\ [pair |-> op.pair, dead |-> FALSE] \in Chain
              /\ ~[pair |-> op.pair, dead |-> FALSE].dead
          BY <5>1 DEF Chain
        <5>3. Attach(rows, op).chains[op.user] # NoChain /\ ~Attach(rows, op).chains[op.user].dead
          BY <1>0, <5>1, <5>2
        <5> QED
          BY <5>3 DEF HasLiveChain
      <4> QED
        BY <4>1, <4>2
    <3> QED
      BY <1>0, <1>1, <2>1, <2>2, <3>1, <3>2
  <2>3. CASE t # op.token /\ HasDeadChain(rows, op.user) /\ rows.devices[t] = op.user
    <3>1. Attach(rows, op).devices[t] = NoUser
      BY <2>1, <2>3, AttachRows
    <3> QED
      BY <2>1, <2>3, <3>1 DEF HasLiveChain, HasDeadChain
  <2>4. CASE t # op.token /\ ~(HasDeadChain(rows, op.user) /\ rows.devices[t] = op.user)
    <3>1. Attach(rows, op).devices[t] = rows.devices[t]
      BY <2>1, <2>4, AttachRows
    <3>2. ASSUME rows.devices[t] # NoUser
          PROVE  Attach(rows, op).chains[rows.devices[t]] = rows.chains[rows.devices[t]]
      <4>1. CASE rows.devices[t] # op.user
        BY <1>0, <2>1, <3>2, <4>1, AttachRows
      <4>2. CASE rows.devices[t] = op.user
        <5>1. rows.chains[op.user] # NoChain
          BY <3>2, <4>2 DEF ReferentialIntegrity, DevicesHaveChains
        <5>2. HasLiveChain(rows, op.user)
          BY <2>4, <4>2, <5>1 DEF HasLiveChain, HasDeadChain
        <5> QED
          BY <2>1, <4>2, <5>2, AttachRows
      <4> QED
        BY <4>1, <4>2
    <3> QED
      BY <2>1, <3>1, <3>2 DEF HasLiveChain
  <2> QED
    BY <2>2, <2>3, <2>4
<1>2. CASE op.kind = "remove"
  <2>1. op \in RemoveOp /\ RemoveApplies(rows, op) /\ Change(rows, op) = Remove(rows, op)
    BY <1>2, OpFields DEF Change, Applies
  <2>2. CASE t = op.token
    BY <1>2, <2>1, <2>2, RemoveRows
  <2>3. CASE t # op.token
    <3>1. Remove(rows, op).devices[t] = rows.devices[t]
      BY <2>1, <2>3, RemoveRows
    <3>2. ASSUME rows.devices[t] # NoUser
          PROVE  Remove(rows, op).chains[rows.devices[t]] = rows.chains[rows.devices[t]]
      <4>1. CASE rows.devices[t] # rows.devices[op.token]
        BY <1>0, <2>1, <3>2, <4>1, RemoveRows
      <4>2. CASE rows.devices[t] = rows.devices[op.token]
        <5>1. Riders(rows, rows.devices[op.token]) # {op.token}
          BY <2>3, <4>2 DEF Riders
        <5> QED
          BY <2>1, <5>1, RemoveRows
      <4> QED
        BY <4>1, <4>2
    <3> QED
      BY <2>1, <3>1, <3>2 DEF HasLiveChain
  <2> QED
    BY <2>2, <2>3
<1>3. CASE op.kind \in {"update", "bury"}
  <2>1. /\ op \in UpdateOp \cup BuryOp /\ StillHolds(rows, op) /\ op.user \in User
        /\ op.kind = "update" => op \in UpdateOp
        /\ op.kind = "bury" => op \in BuryOp
    BY <1>3, OpFields DEF Applies
  <2>2. /\ rows.chains[op.user] \in Chain
        /\ Change(rows, op).devices = rows.devices
        /\ \A u \in User \ {op.user} : Change(rows, op).chains[u] = rows.chains[u]
        /\ Change(rows, op).chains[op.user] \in Chain
        /\ rows.chains[op.user].dead => Change(rows, op).chains[op.user].dead
        /\ op \in UpdateOp => Change(rows, op).chains[op.user].dead = rows.chains[op.user].dead
    BY <2>1, UpdateBuryRows
  <2>3. CASE rows.devices[t] # op.user
    <3>1. rows.devices[t] # NoUser =>
            Change(rows, op).chains[rows.devices[t]] = rows.chains[rows.devices[t]]
      BY <1>0, <2>2, <2>3
    <3> QED
      BY <2>2, <3>1 DEF HasLiveChain
  <2>4. CASE rows.devices[t] = op.user
    <3>1. /\ HasLiveChain(rows, op.user) <=> ~rows.chains[op.user].dead
          /\ HasLiveChain(Change(rows, op), op.user) <=> ~Change(rows, op).chains[op.user].dead
      BY <1>0, <2>2 DEF HasLiveChain
    <3> QED
      BY <1>0, <1>3, <2>1, <2>2, <2>4, <3>1
  <2> QED
    BY <2>3, <2>4
<1>4. CASE op.kind = "touch"
  BY <1>4 DEF Change
<1> QED
  BY <1>1, <1>2, <1>3, <1>4, OpFields

(* While the list is in the file nobody's standing changes: the rows made  *)
(* of it accept those whom the list would.                                 *)
LEMMA StandingOverList ==
  ASSUME WholeInv, DetailsType, KeptInv, EntriesInv, entries # NoEntries, [DetailsNext]_allVars, NEW t \in Token
  PROVE  Accepted(t)' <=> Accepted(t)
<1>0. /\ file # NoFile /\ file.rows = NoRows /\ stage # "landed"
      /\ phase \in {"down", "creating", "up"}
      /\ phase = "up" => live = NoRows /\ \A x \in Token : entries[x] # NoEntry => entries[x].dead
  BY DEF EntriesInv, WholeInv, OwnInv, TypeOK, MemoryNeverAheadOfFile
<1>1. CASE WriteLands
  <2>1. /\ phase' = phase /\ entries' = NoEntries /\ live' = live /\ stage = "writing"
        /\ file' = [revision |-> revision + 1, rows |-> next]
    BY <1>1 DEF WriteLands, Publish
  <2>2. CASE phase = "up"
    BY <2>1, <2>2 DEF Accepted, Durable
  <2>3. CASE phase # "up"
    <3>1. phase = "creating" /\ next = Migrated(entries)
      BY <1>0, <2>1, <2>3 DEF WholeInv, OwnInv, PhaseInv, EntriesInv
    <3>2. file' # NoFile /\ file'.rows = next
      BY <2>1, NoFileIsNoRows DEF WholeInv, OwnInv, TypeOK
    <3>3. Durable' = Migrated(entries)
      BY <2>1, <2>3, <3>1, <3>2 DEF Durable
    <3>4. Accepted(t)' <=> Answered(Migrated(entries), t)
      BY <2>1, <3>3 DEF Accepted, Answered
    <3>5. Accepted(t) <=> entries[t] # NoEntry /\ ~entries[t].dead
      BY <2>3 DEF Accepted
    <3> QED
      BY <3>4, <3>5, MigratedFacts DEF DetailsType, Answered
  <2> QED
    BY <2>2, <2>3
<1>2. CASE UNCHANGED <<entries, file>>
  <2>1. Accepted(t) <=> entries[t] # NoEntry /\ ~entries[t].dead
    <3>1. CASE phase = "up"
      <4>1. Durable = NoRows
        BY <1>0, <3>1 DEF Durable
      <4> QED
        BY <1>0, <3>1, <4>1, NoRowsType DEF Accepted
    <3> QED
      BY <3>1 DEF Accepted
  <2>2. Accepted(t)' <=> entries[t] # NoEntry /\ ~entries[t].dead
    <3>1. CASE phase' # "up"
      BY <1>2, <3>1 DEF Accepted
    <3>2. CASE phase' = "up"
      <4>1. live' = NoRows /\ \A x \in Token : entries[x] # NoEntry => entries[x].dead
        BY <1>0, <3>2, UpOverDeadOnly, RunningStaysUp
      <4>2. Durable' = NoRows
        BY <3>2, <4>1 DEF Durable
      <4>3. Accepted(t)' <=> Answered(NoRows, t)
        BY <3>2, <4>2 DEF Accepted, Answered
      <4> QED
        BY <4>1, <4>3, NoRowsType DEF Answered
    <3> QED
      BY <3>1, <3>2
  <2> QED
    BY <2>1, <2>2
<1> QED
  BY <1>1, <1>2, EntriesMove

(* A bearer comes to be accepted by its own sign-in alone, and ceases to   *)
(* be by its sign-out or its chain's death alone, whichever boots read and *)
(* migrate an older file, and whichever rewrites of it fail or are cut off *)
(* by a crash: migrateLegacyEntries, parsePayload and the write-back in    *)
(* open.                                                                   *)
THEOREM UpgradeKeepsStanding == DetailsSpec => UpgradeChangesNobodysStanding
<1> DEFINE Step(t) ==
      /\ ~Accepted(t) /\ Accepted(t)' =>
           /\ writes # <<>>
           /\ Head(writes).kind = "attach" /\ Head(writes).token = t
      /\ Accepted(t) /\ ~Accepted(t)' =>
           /\ writes # <<>>
           /\ \/ Head(writes).kind = "remove" /\ Head(writes).token = t
              \/ Head(writes).kind = "bury" /\ Head(writes).user = Durable.devices[t]
<1>1. ASSUME DInv, [DetailsNext]_allVars, NEW t \in Token PROVE Step(t)
  <2>0. WholeInv /\ DetailsType /\ KeptInv /\ EntriesInv
    BY <1>1 DEF DInv
  <2>1. CASE entries # NoEntries
    <3>1. Accepted(t)' <=> Accepted(t)
      BY <1>1, <2>0, <2>1, StandingOverList
    <3> QED
      BY <3>1
  <2>2. CASE entries = NoEntries
    <3>1. entries' = NoEntries
      BY <1>1, <2>2, EntriesMove DEF WriteLands
    <3>2. /\ Accepted(t) <=> Answered(Durable, t)
          /\ Accepted(t)' <=> Answered(Durable', t)
      BY <2>2, <3>1 DEF Accepted, Answered
    <3>3. CASE Durable' = Durable
      BY <3>2, <3>3
    <3>4. CASE Durable' # Durable
      <4>1. [Next]_vars
        <5>1. BootWritingIdsBack => Durable' = Durable
          BY <2>0, WriteBackStore DEF DetailsType, Durable
        <5> QED
          BY <1>1, <3>4, <5>1, DetailsStepIsStoreStep
      <4>2. IInv
        BY <2>0, <2>2 DEF EntriesInv, IInv
      <4>3. /\ writes # <<>> /\ Head(writes) \in Op /\ Durable \in Rows
            /\ Applies(Durable, Head(writes)) /\ Durable' = Change(Durable, Head(writes))
            /\ ReferentialIntegrity(Durable)
        BY <3>4, <4>1, <4>2, DurableStep
      <4>4. /\ ~Answered(Durable, t) /\ Answered(Durable', t) =>
                 Head(writes).kind = "attach" /\ Head(writes).token = t
            /\ Answered(Durable, t) /\ ~Answered(Durable', t) =>
                 \/ Head(writes).kind = "remove" /\ Head(writes).token = t
                 \/ Head(writes).kind = "bury" /\ Head(writes).user = Durable.devices[t]
        BY <4>3, ChangeStanding
      <4> QED
        BY <3>2, <4>3, <4>4
    <3> QED
      BY <3>3, <3>4
  <2> QED
    BY <2>1, <2>2
<1>2. DInv /\ [DetailsNext]_allVars => [\A t \in Token : Step(t)]_allVars
  BY <1>1
<1> QED
  BY <1>2, DetailsInvariant, PTL DEF DetailsSpec, UpgradeChangesNobodysStanding

(* The file an orderly exit leaves has every last use, unless the flush    *)
(* failed: flushLastUsed behind the queue, and what follows it.            *)
THEOREM CleanStopIsExact == DetailsSpec => CleanStopLosesNothing
<1>1. ASSUME DInv, [DetailsNext]_allVars, closing # "failed", closing # "exited", closing' = "exited"
      PROVE  \A t \in Token : lastUsed[t] \in {Never, kept.file[t].used}
  <2>1. Exit
    <3>1. ~(UNCHANGED allVars \/ TimePasses \/ Ask \/ \E t \in Token : Touch(t))
      BY <1>1 DEF allVars, details, TimePasses, Ask, Touch
    <3>2. ~(BootAsIs \/ BootWritingIdsBack \/ Dies \/ Close)
      BY <1>1 DEF BootAsIs, BootWritingIdsBack, ParseRows, Dies, Close
    <3>3. ~Write
      BY <1>1 DEF Write, WriteChanges, WriteChangesNothing, WriteLands, WriteIsSwappedIn, WriteFails,
                  WriteGoesOn, HookSettles
    <3> QED
      BY <1>1, <3>1, <3>2, <3>3 DEF DetailsNext
  <2>2. closing = "flushed" /\ writes = <<>>
    BY <1>1, <2>1 DEF Exit
  <2>3. phase = "up" /\ Saved(kept.live)
    BY <1>1, <2>2 DEF DInv, FlushInv
  <2>4. stage = "idle"
    BY <1>1, <2>2, <2>3 DEF DInv, WholeInv, OwnInv, PendingInv
  <2>5. kept.file = kept.live
    BY <1>1, <2>3, <2>4 DEF DInv, KeptInv
  <2> QED
    BY <2>3, <2>5 DEF Saved
<1>2. DInv /\ [DetailsNext]_allVars =>
        [closing # "failed" /\ closing # "exited" /\ closing' = "exited"
           => \A t \in Token : lastUsed[t] \in {Never, kept.file[t].used}]_allVars
  BY <1>1
<1> QED
  BY <1>2, DetailsInvariant, PTL DEF DetailsSpec, CleanStopLosesNothing

(* The id a server lists a device under is its id until its row goes: the  *)
(* boot that draws ids writes them back before it serves, and no write     *)
(* renames a row.                                                          *)
THEOREM ListedIdsAreKept == DetailsSpec => ListedIdsStayValid
<1>1. ASSUME DInv, [DetailsNext]_allVars, NEW t \in Token, IdListed(t) # NoId, Durable'.devices[t] # NoUser
      PROVE  IdListed(t)' = IdListed(t)
  <2>0. DetailsType /\ WholeInv /\ KeptInv /\ phase \in {"down", "creating", "up"}
    BY <1>1 DEF DInv, WholeInv, OwnInv, TypeOK
  <2>1. CASE UNCHANGED <<phase, kept>>
    BY <2>1 DEF IdListed
  <2>2. CASE BootAsIs
    <3>1. kept'.file = kept.file /\ kept'.live = kept.file /\ phase = "down"
      BY <2>0, <2>2, KeptFields DEF BootAsIs, Boot, OpenExisting, OpenEmpty
    <3> QED
      BY <3>1 DEF IdListed
  <2>3. CASE BootWritingIdsBack
    <3>1. kept'.file = kept.file /\ phase = "down" /\ phase' = "creating"
      BY <2>0, <2>3, ParseRowsKept DEF BootWritingIdsBack, ParseRows
    <3> QED
      BY <3>1 DEF IdListed
  <2>4. CASE Ask \/ Close \/ TimePasses \/ UNCHANGED allVars \/ \E x \in Token : Touch(x)
    <3>1. UNCHANGED <<phase, kept>>
      BY <2>4 DEF Ask, details, RequestAttach, RequestRemove, RequestUpdate, RequestBury, Enqueue,
                  Close, RequestTouch, TimePasses, vars, allVars, Touch
    <3> QED
      BY <2>1, <3>1
  <2>5. CASE WriteChanges
    <3>1. UNCHANGED phase /\ kept'.file = kept.file /\ kept'.live = kept.live
      BY <2>0, <2>5, KeptFields DEF WriteChanges, Mutate
    <3> QED
      BY <3>1 DEF IdListed
  <2>6. CASE WriteChangesNothing \/ WriteGoesOn
    BY <2>1, <2>6 DEF WriteChangesNothing, MutateNothing, WriteGoesOn, CheckFile, Retry
  <2>7. CASE WriteLands
    <3>1. UNCHANGED phase /\ stage = "writing"
      BY <2>7 DEF WriteLands, Publish
    <3>2. kept'.file = kept.next /\ kept'.live = kept.live
      BY <2>0, <2>7, KeptFields DEF WriteLands
    <3>3. CASE phase = "up"
      BY <3>1, <3>2, <3>3 DEF IdListed
    <3>4. CASE phase = "creating"
      BY <1>1, <2>0, <3>1, <3>2, <3>4 DEF IdListed, KeptInv
    <3> QED
      BY <2>0, <3>1, <3>3, <3>4 DEF WholeInv, OwnInv, PhaseInv, LandedInv
  <2>8. CASE WriteIsSwappedIn
    <3>1. stage = "landed" /\ phase' = "up" /\ live' = next
      BY <2>8 DEF WriteIsSwappedIn, Swap
    <3>2. kept'.file = kept.file /\ kept'.live = kept.next
      BY <2>0, <2>8, KeptFields DEF WriteIsSwappedIn
    <3>3. CASE phase = "up"
      <4>1. live.devices[t] # NoUser
        BY <1>1, <2>0, <3>3 DEF IdListed, KeptInv, Blank
      <4>2. next.devices[t] # NoUser
        BY <1>1, <3>1 DEF Durable
      <4> QED
        BY <2>0, <3>1, <3>2, <3>3, <4>1, <4>2 DEF IdListed, KeptInv
    <3>4. CASE phase = "creating"
      BY <2>0, <3>1, <3>2, <3>4 DEF IdListed, KeptInv
    <3> QED
      BY <2>0, <3>1, <3>3, <3>4 DEF WholeInv, OwnInv, PhaseInv, LandedInv
  <2>9. CASE WriteFails
    <3>1. phase' = (IF phase = "up" THEN "up" ELSE "down") /\ kept'.file = kept.file /\ kept'.live = kept.live
      BY <2>0, <2>9, KeptFields DEF WriteFails, CheckThrows, GiveUp, Fail
    <3> QED
      BY <3>1 DEF IdListed
  <2>10. CASE Dies \/ Exit
    <3>1. phase' = "down" /\ UNCHANGED file
      BY <2>10 DEF Dies, Exit, Crash
    <3>2. kept'.file = kept.file
      <4>1. kept' = [kept EXCEPT !.live = NoDetails, !.next = NoDetails]
        BY <2>10 DEF Dies, Exit, ForgetMemory
      <4> QED
        BY <2>0, <4>1 DEF DetailsType
    <3>3. CASE phase # "up"
      BY <3>1, <3>2, <3>3 DEF IdListed
    <3>4. CASE phase = "up" /\ stage # "landed"
      BY <2>0, <3>1, <3>2, <3>4 DEF IdListed, KeptInv
    <3>5. CASE phase = "up" /\ stage = "landed"
      <4>1. live.devices[t] # NoUser
        BY <1>1, <2>0, <3>5 DEF IdListed, KeptInv, Blank
      <4>2. file # NoFile /\ file.rows = next
        BY <2>0, <3>5 DEF WholeInv, OwnInv, MemoryNeverAheadOfFile
      <4>3. next.devices[t] # NoUser
        BY <1>1, <3>1, <4>2 DEF Durable
      <4> QED
        BY <2>0, <3>1, <3>2, <3>5, <4>1, <4>3 DEF IdListed, KeptInv
    <3> QED
      BY <3>3, <3>4, <3>5
  <2> QED
    BY <1>1, <2>2, <2>3, <2>4, <2>5, <2>6, <2>7, <2>8, <2>9, <2>10 DEF DetailsNext, Write
<1>2. DInv /\ [DetailsNext]_allVars =>
        [\A t \in Token :
           IdListed(t) # NoId /\ Durable'.devices[t] # NoUser => IdListed(t)' = IdListed(t)]_allVars
  BY <1>1
<1> QED
  BY <1>2, DetailsInvariant, PTL DEF DetailsSpec, ListedIdsStayValid
=============================================================================
