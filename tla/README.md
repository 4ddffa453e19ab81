# Ratatoskr server: TLA+ models, checks and proofs

Ratatoskr plays audiobooks kept in an Audiobookshelf (ABS) server on a Sonos
household. Clients are devices; each signs in once, with its user's ABS
password, and from then on holds a bearer of Ratatoskr's own. Behind the bearers
the server keeps one ABS session per user alive, and it runs one playback session
at a time, whose position it reads from the speaker and writes back to ABS.

This directory models the parts of `packages/app/src` and `packages/position/src`
that hold state or compute positions, checks them with TLC, and proves their safety
properties with TLAPS for every value of the constants; liveness alone is
model-checked only. `PROJECT.json` maps every definition to the lines it models.

## 1. The system

| Component | State it keeps | Operations | Talks to |
|---|---|---|---|
| Session store, `auth/sessionStore.ts`, and its file, `auth/sessionFile.ts` | two maps (device rows by token hash, chains by ABS user), the revision of the file, the promise chain of writes, last-used times | `open`, `find`, `attach`, `delete`, `deleteDeviceSession`, `updateChain`, `markDead`, `touch`, `flushLastUsed` | the file system |
| Sign-in, `auth/authService.ts` | none | `signIn`, `signOut`, `endDeviceSession`, `listDeviceSessions` | the store; ABS `login` and `logout` |
| Keep-alive, `auth/keepAlive.ts` | the queue of refreshes, refreshes in flight by user, the sweeping and stopped flags, timers | `start`, `stop`, `drained`, `sweep`, `usableChain`, `loseChain`, `refreshChain` | the store; ABS `refresh` |
| Request path, `api/app.ts` | none beyond the request | resolve a bearer, call upstream, report a lost session; the `onClose` hook | the store, keep-alive, every service |
| Session manager, `playback/sessionManager.ts` | the active session, the last position written, the generation of the sync loop, its timer, the promise chain of operations | `start`, `pause`, `resume`, `seek`, `stop`, `getCurrent`; the tick | the Sonos client; ABS progress; keep-alive for tokens |
| Sonos client, `sonos/client.ts` | the library's manager, the initialization in flight, reachability, the refreshing and closed flags | `ensureManager`, topology reads, the health probe, playback calls, `seek`, `close` | the household |
| Position package, `packages/position` | none | `absoluteToTrack`, `trackToAbsolute`, `planSeek`, `planPlayback` | - |
| ABS client, `abs/client.ts`, `abs/cursor.ts` | none: a walk through the libraries lives in the client's cursor | `listItems` page by page, search, progress, sign-in, refresh, logout | ABS |
| API services, token guard, rate limit, error mapping, configuration, shutdown | none, or read once | translation and checks | - |

The behaviours that are hard here:

- **The store** is read synchronously between the awaits of a write in progress.
  A write can fail, be retried, or be cut off by a crash before or after its
  rename; a second process may write the same file.
- **A chain** (an access/refresh pair) is shared by all of a user's devices. ABS
  accepts a refresh token once, so a spent pair that is presented again ends the
  session. Sweeps, requests, sign-ins, sign-outs, failing writes and shutdown meet
  over it, each holding a copy across a network call.
- **The speaker** does not belong to the server. The household may pause, stop or
  take it over between any two calls of an operation, ticks run beside user
  operations, and every call may fail with or without its effect.
- **The Sonos manager** is built, shared, dropped and built again by overlapping
  readers, any of which may fail late.
- **An upgrade** meets a file an older release wrote, and a shutdown meets work
  that is still queued: the boot gives rows their ids and folds chains into one,
  the `onClose` hook drains refreshes, flushes last-used times and stops playback,
  in that order, each step racing what came before it.
- **A walk** through the libraries is a series of unrelated requests, answered from
  libraries that change in between.
- **Seeks** are two commands and a read-back, retried, in whole seconds, on tracks
  that end between seconds, while the book plays on.

`PROJECT.json` lists each hazard at its line with the properties that cover it; a
hazard without a property says why.

## 2. The modules

| Module | What it models | Where to start |
|---|---|---|
| `StoreRows` | the rows and what each mutation makes of them: operators only | `Attach`, `Remove`, `Update`, `Bury` |
| `SessionStore` | the store of one process: requests queued, `mutate`, revision check, write with retries, swap, crash, boot | `Mutate`, `CheckFile`, `Publish`, `Swap` are `mutate`/`flush` cut at each await |
| `DeviceRecords` | `SessionStore` with what it leaves out of a device row: ids, last-used times, their throttle and flush, the clock, the file an older release left | `Touch`, `Close`, `FileLeftBehind`, `BootWritingIdsBack` |
| `DeviceSessions` | the abstract promise to the devices: sign in, sign out, lose a session | refined by `SessionStore` through `Durable` |
| `TwoServers` | two `SessionStore`s on one file | `raced` records the window the code accepts |
| `ChainKeepAlive` | sign-in, sign-out, keep-alive, request path, store and ABS around the chains | `RefreshBegins` … `WriteLands` |
| `SessionManager` | the playback session, operations behind the promise chain, the tick, speakers and household | one action per await |
| `PlaybackSession` | the abstract promise about progress: recorded while a session is active, and once while it closes | refined by `SessionManager` through `Promise` |
| `SonosClient` | the manager's life cycle, the probe | `ReadBegins`, `InitSucceeds`, `Reset` |
| `BookPositions` | the position arithmetic: operators only | |
| `SpeakerSeek` | a seek with verification and retries, on a speaker that plays on | `SelectTrack`, `SeekOffset`, `Verify` |
| `LibraryPages` | a client's walk through the libraries behind the cursor | `Browse`, `NextCursor`, `BookComesOrGoes` |
| `StoreRowsProofs` | lemmas about the mutations, shared by the next four | `ChangeIntegrity`, `ChangeDevices`, `ChangeLost` |
| `SessionStoreProofs` | theorems about `SessionStore`, and what a process knows of a file it shares | `IInv`, `OwnInv`, `DurableStep`, `KnowsFile` |
| `DeviceRecordsProofs` | theorems about `DeviceRecords` | `DInv` |
| `TwoServersProofs` | theorems about `TwoServers` | `SharedInv` |
| `ChainKeepAliveProofs` | theorems about `ChainKeepAlive` | `IInv`, `UInv` |
| `SessionManagerProofs` | theorems about `SessionManager` | `IInv` |
| `SonosClientProofs` | theorems about `SonosClient` | `IInv` |
| `CalculationsProofs` | theorems about `BookPositions`, `SpeakerSeek` and `LibraryPages` | `Mapped`, `SeekInv`, `WalkInv` |
| `MC…` | instances for TLC: symmetry sets, views, the books of `SpeakerSeek`, the two kinds of behaviour of `speaker_seek` | |

An action is the code between two awaits. The durable state of a component is
what a restart finds (`file`, `rows`, `progress`, the speakers); `Crash` and
`Restart` reset the rest.

How they compose: `SessionStore` runs `StoreRows` through the write queue in
detail, and `DeviceRecords` adds variables to each of its steps: an action there is
an action of `SessionStore` conjoined with what it does to ids and times.
`ChainKeepAlive` uses the same operators as mutations that land whole or
fail whole, in order; that a store write has this shape is what
`ImplementsDeviceSessions`, `MemoryNeverAheadOfFile` and `WritesSettle` say of
`SessionStore`. `SessionManager` takes a seek as one call to the speaker;
`SpeakerSeek` opens it. The calls of both may fail at any time, which is how
`SonosClient` looks from there. Some requests of `ChainKeepAlive` are those of the
playback session (`Playback`): its sync loop runs until `sessions.stop()`, the last
step of the `onClose` hook, so it may ask for a refresh after `drained()` has
resolved, and `Exit` waits for it.

Abstractions worth knowing:

- A bearer, a user and a pair are values compared for equality. An access/refresh
  pair is one value, since both are always minted and replaced together.
- `SessionStore` leaves last-used times out: `touch` writes the rows there are, or
  nothing. `DeviceRecords` has them. There an id is the number of its draw, a time a
  tick of a clock that never steps back. A file of an older release keeps its raw list
  (`entries`) until a write replaces it, and every boot migrates that list anew, drawing
  ids anew, as the code does; a list of nothing but dead devices is not rewritten by the
  boot. Its chains have one of two ages, and between two entries of one age the list's
  order decides, so one of a user's is always the freshest; its revision is 0. The
  hook's order is that of `app.ts`: once `Close` has begun, requests have been answered,
  and only the keep-alive's own mutations are still asked for.
- In `SessionManager` a household that regroups between two look-ups of an operation
  is a `TakeOver`: either way the session reads another player than the one before.
  Two things a household can do are left out: going back from other content to the
  book's queue, and leaving a former member of the group to play the book on, which
  `NoOrphanedSpeaker` would have to excuse. A seek in a queue that is not ours may
  succeed and its target be written, as in the code.
- A write that has been renamed into place (`Publish`) succeeds. In the code the handle of the directory is
  closed after the rename (`syncDirectory`); a close that fails would make a write that
  has landed look failed, and is left out.
- In `ChainKeepAlive` a pair nobody can refer to any more is as good as a new one
  (`NewPairs`), which keeps the model finite without a bound on refreshes. `root`
  names the ABS session of a pair by its first pair. `excused` and `idle` are
  history: they record why a spent pair, or an ABS session, was left over.
- In `SessionManager` a position is a small number of units, `buffering` counts as
  playing, the boot state of the speakers is silent. `orphaned` is history: the
  speakers that play a book for a reason the code accepts (a failed call, the
  household, a restart).
- `SonosClient` runs all waiters of one initialization in one step: their
  continuations are microtasks with nothing in between. An initialization that fails
  is over; one that timed out may in truth still complete and subscribe, a second way
  to leak a manager beside the one `sonos_client_leak` shows.
- `BookPositions` counts in ticks, `Scale` to a second, so that a duration may end
  between two seconds.
- In `LibraryPages` a book is the number of its title, so that a library in order is
  its numbers in order. `Sorted` says what that order is and not how ABS computes it.

## 3. The runs

All runs use `tlc -workers 2` and end within five minutes. Deadlock is checked.

| Run | Question | Bounds and why they are enough |
|---|---|---|
| `session_store` | Is memory what the file holds, are chains and devices matched, does every step keep the promise to the devices? | three sign-ins of two users: one to heal a chain, one sibling to retire, one bystander; two writes queued, requests up to the fifth revision of the file, which makes six writes in a behaviour, three attempts as in the code |
| `session_store_live` | What does a crash cost of the last-used times, what does a clean stop save, what stays of a device that is gone, does an id stay valid, does an upgrade change who is signed in; does every queued write get its turn? | two bearers of one user, so that one can be dead and the other living in an old file; one pair, an interval of one on a clock of three, so that a use can be within it, at it and past it; two writes queued, two attempts; requests while the file is at its first revision, so that every kind of write can follow the boot's own, and any number of boots, failed rewrites and crashes before and after; no symmetry |
| `two_servers` | Is a server refused once the file is another's? | one user, two bearers, three revisions: two writers and a stale one |
| `chain_keep_alive` | Can a live chain be buried, a spent pair be presented again, a session be left idle? | one user (chains of two share only the queue), two bearers, four pairs: stored, in flight, being minted, being ended; two client mutations queued besides the loop's own |
| `chain_keep_alive_live` | Does every refresh, and every request waiting for one, go on; does a shutdown lose a pair the playback session still refreshed? | one user, two pairs, one request of a client and one of the playback session, no symmetry |
| `chain_lost_late` | Can a refused request bury a chain it does not concern? | violation, see findings |
| `session_manager` | One poll chain per session, no orphaned speaker, no foreign position written; is every step one of `PlaybackSession`? | one book, two speakers to move it between, two operations waiting at once beside a tick; a book of two positions, its start and its end, either of which a start may resume from |
| `session_manager_live` | Do operations finish, does a stopped speaker end its session? | one speaker, a book of three positions with a rewind, two operations waiting, six generations; the types are checked here |
| `session_manager_pause` | Can pause write a foreign position? | violation, see findings |
| `sonos_client` | Is a dead manager ever handed out, does a closed client stay closed, do probes end? | the probe and two requests; a manager for each and one to spare |
| `sonos_client_leak` | Is every manager that renews a subscription the client's own? | violation, see findings |
| `speaker_seek` | Does a seek that returns stand on its track, near its target; does the mapping invert; does a walk lead through every book? | books of one to three tracks, with and without fractional ends; two retries as configured. Four books in two libraries, pages of one to three: empty libraries, full and partial last pages; two books that come or go. Every hand-over from one library to the next is like the first. The two calculations share no state: a behaviour is one or the other (`MCSpec`), never their product |

`MaxQueue`, `MaxRevision` (`SessionStore`), `MaxTime` (`DeviceRecords`),
`MaxChanges` (`LibraryPages`), `MaxWrites` (`ChainKeepAlive`) and
`MaxOps`, `MaxGeneration` (`SessionManager`) are bounds of the models, not of the
code: they stop new requests (and the clock), never a step of a write, an operation or
a walk in progress. In
`session_manager` the view compares generations with the current one only, which
is all the code does with them, so `MaxGeneration` is never reached there.
Symmetry and views are used in safety runs only; `MCSessionManager` and
`MCChainKeepAlive` say what their views leave out.

`chain_keep_alive` checks the specification in which ABS refuses no access token
before it expires (`SpecUnrefused`); the full one, `Spec`, is what
`chain_lost_late` refutes `NoDeathOverStaleNews` with.

**Fairness.** `WF(WriteStep)`: a write in progress is driven by file-system calls
that return and by a timer between attempts; `WF(Write)` of `DeviceRecords` is the
same. `WF(Refreshing)`, `WF(Writing)`: ABS
calls carry a timeout, and store writes settle. `WF(OpStep)`, `WF(Fire)`: speaker
and ABS calls carry a timeout, and a pending timer fires. In `SonosClient` reads and
`InitializeFromDevice` end by their timeout; `InitializeWithDiscovery` has none in this
code, and that it bounds itself is taken from the library, as the comment at
`client.ts:318` does: `ProbesComeToAnEnd` rests on it. Nothing is assumed of clients,
of the household, or of ABS and speakers answering well:
`StoppedSpeakerEndsSession` holds unless reading the speaker fails for ever.
`WritesSettle` speaks of the queue: a head leaves it again and again for as long as
there is one, so, as writes leave in the order they came, each gets its turn.

**Mutants.** For each property of a passing run, `PROJECT.json` names a mutated
definition that breaks it: a guard dropped, a reset forgotten, a failure that
keeps its change, an off-by-one. The mutated operators stand before the originals.

## 4. What is proved

Every safety property a passing run checks, invariant, action property or
refinement, is also a theorem. A theorem holds for any sets of bearers, users, pairs,
books, speakers and managers, any durations, intervals and thresholds, any number of
attempts and of libraries, any page size, and any value of the bounds section 3
names: what the runs leave to their bounds, the proofs do not.

| Module | Theorem | Statement |
|---|---|---|
| `SessionStoreProofs` | `InductiveInvariant`, `TypeCorrect` | `Spec => []IInv`, `[]TypeOK` |
| | `MemoryFollowsFile` | `Spec => []MemoryNeverAheadOfFile` |
| | `OneChainPerUser` | `Spec => []ChainsMatchDevices` |
| | `StoreKeepsPromise` | `Spec => Sessions!Spec`, the refinement of `DeviceSessions` |
| | `SignedInTillSignOut` | `Spec => SignedInUntilSignOut` |
| | `DeadStaysDead` | `Spec => DeadBearerNeverRearmed` |
| `DeviceRecordsProofs` | `DetailsInvariant`, `DetailsTypeCorrect` | `DetailsSpec => []DInv`, `[]DetailsTypeOK` |
| | `UpgradedStoreIsWhole` | `DetailsSpec => [](MemoryNeverAheadOfFile /\ ChainsMatchDevices)`, from an old file too |
| | `CrashLosesLittle` | `DetailsSpec => []CrashLosesAtMostTheInterval` |
| | `DepartedAreForgotten` | `DetailsSpec => []NothingKeptOfTheDeparted` |
| | `UpgradeKeepsStanding` | `DetailsSpec => UpgradeChangesNobodysStanding` |
| | `CleanStopIsExact` | `DetailsSpec => CleanStopLosesNothing` |
| | `ListedIdsAreKept` | `DetailsSpec => ListedIdsStayValid` |
| `TwoServersProofs` | `SharedInvariant` | `Spec => []SharedInv` |
| | `StaleIsRefused` | `Spec => []StaleServerIsRefused` |
| | `NothingLostUnnoticed` | `Spec => NoSilentOverwrite` |
| | `SharedFileLoads` | the file of two servers is always whole, raced or not |
| `ChainKeepAliveProofs` | `InductiveInvariant`, `TypeCorrect` | `Spec => []IInv`, `[]TypeOK` |
| | `SpentPairsAccounted` | `Spec => []SpentPairsAreAccountedFor` |
| | `OnlySignInsChange` | `Spec => OnlySignInsChangeSession` |
| | `StopLosesNoPair` | at `Exit` no refresh runs and none is queued |
| | `UnrefusedInvariant` | `SpecUnrefused => []UInv` |
| | `NoIdleSessionLeft` | `SpecUnrefused => []NoIdleSession` |
| | `NoStaleDeath` | `SpecUnrefused => NoDeathOverStaleNews` |
| `SessionManagerProofs` | `InductiveInvariant`, `TypeCorrect` | `Spec => []IInv`, `[]TypeOK` |
| | `OneChain` | `Spec => []OnePollChain` |
| | `NoneLeftPlaying` | `Spec => []NoOrphanedSpeaker` |
| | `TheBooksPositions` | `Spec => LoopAndTeardownWriteTheBooksPositions` |
| | `ManagerKeepsPromise` | `Spec => Promise!Spec`, the refinement of `PlaybackSession` |
| `SonosClientProofs` | `InductiveInvariant`, `TypeCorrect` | `Spec => []IInv`, `[]TypeOK` |
| | `DeadIsForgotten` | `Spec => []NothingDeadIsCached` |
| | `StaysClosed` | `Spec => []ClosedForGood`: the client's own manager, not one leaked before (section 5) |
| | `NobodyWaitsForNothing` | a reader that awaits an initialization awaits one that is under way |
| `CalculationsProofs` | `InductiveInvariant`, `TypeCorrect` | `Spec => []SeekInv`, `[]TypeOK` |
| | `ReturnsOnTrack` | `Spec => []ReturnsOnlyOnItsTrack` |
| | `SettlesNear` | `Spec => []SettlesNearItsTarget` |
| | `MappingInvertible` | `Spec => []MappingIsHalfOpenAndInvertible` |
| | `ReportsInTrack` | `Spec => []ReportsStayInTheirTrack` |
| | `PositionsSurviveTheSpeaker` | a position sent as a track and a whole second and read back is the position within half a second |
| | `SoughtIsNearEnough` | with a tolerance of half a second or more, an offset the speaker accepts is within the tolerance of the one sought |
| | `WalkInvariant` | `WalkSpec => []WalkInv` |
| | `WalksComplete` | `WalkSpec => []WalksAreComplete` |
| | `ChangeCostsOneBook` | `WalkSpec => []AChangeCostsOneBook` |

The assumptions are those the modules state, and TLC evaluates them in the runs:
`NoRowAssumption` and `StoreAssumption` (the null values are no bearers, users, rows
or files, and there is at least one attempt), `IntervalAssumption` (interval and
clock bound are positive), `PlaybackAssumption` of `ChainKeepAlive` (the playback
session's requests are requests) and of `SessionManager` (a book has a length, the
thresholds are numbers, null values are nobody), `ReaderAssumption` of `SonosClient`
(the probe is a reader, "no manager" is none), `ScaleAssumption` and
`SeekAssumption` (ticks per second and durations are positive, a book has a track),
`LibraryAssumption` (finitely many books, at least one library, positive page sizes:
`browse` answers a server without libraries with an empty page and no cursor, and the
contract's `limit` is at least 1). One theorem has a hypothesis of its own:
`SoughtIsNearEnough` wants a tolerance of at least half a second, where
`SEEK_TOLERANCE_SECONDS` is 3 unless configured.

**The store.** Neither `MemoryNeverAheadOfFile` nor `ChainsMatchDevices` is
inductive: both need to know what the write in progress holds. `IInv` adds

- `PhaseInv`, `LandedInv`, `ReadInv`: which stages, queues and files go with which
  phase of the process, and that one creating its file holds what it has read there,
- `PendingInv`: while a write is under way, `next` is what the head of the queue
  makes of `live`,
- `FreshInv`: the bearers of queued attaches are distinct and no row has them yet,
  which is what makes `SignIn(t, u)` of `DeviceSessions` enabled when the write
  lands.

For the refinement, lemma `DurableStep` shows that `Durable`, the rows the server
answers from or would after a restart, changes only when a write *lands for the
devices*: at `Swap` while the server is up, at a crash between `Publish` and
`Swap`, never at `Publish` itself. There it changes by one `Change(live, head)`, and
`ChangeIsPromised` maps each kind of mutation to a step of `DeviceSessions` or to a
stutter. The two action properties follow from the same lemma.

**Ids, times, upgrade.** Every step of `DeviceRecords` is one of `SessionStore` or
the write-back of ids at boot (`DetailsStepIsStoreStep`), and both keep `WholeInv`, the
store's `IInv` without `ReadInv`: over an old list a boot holds rows the file does not
have. What it reads is whole all the same (`MigratedFacts`, `ParsedFacts`). `DInv` adds
`KeptInv` (ids and times in the file, in memory and in the copy under way are of the
same rows), `UsedInv` (no kept value is ahead of the exact one, nor that of the
clock), `BehindInv` (a value behind by more than the interval was tried lately),
`FlushInv` (what the hook awaits is still queued, and once its touch runs last every
value is in the copy) and `EntriesInv` (an old list in the file: its boot holds what
the list migrates to, and a server that is up beside it has found only dead devices in
it; without one, `ReadInv`). For `UpgradeKeepsStanding`, `StandingOverList` shows that no
step over the list, its replacement included, changes who is accepted, and
`ChangeStanding` what one mutation changes once it is gone. `CrashLosesAtMostTheInterval` says what the throttle really gives: where the
file is behind by more than the interval, a write was asked for less than an
interval before the last use. That this write succeeds is nobody's promise.

**Two servers.** `OwnInv` is the part of `IInv` a process sees to by itself;
`OthersStep` shows that it survives whatever another writes. `KnowsFile` says what
it knows of the file while no rename has raced: what it last wrote or loaded is in
the file, or the file has a later revision. Its own rename moves the revision on
(`OwnKnown`), which is why the other's knowledge goes stale visibly
(`OthersKnown`). `TwoServersProofs` takes these lemmas twice, one instance of
`SessionStoreProofs` for each process.

**Chains.** `IInv` says what each holder of a pair may still do with it: `JobInv`
and `JobWriteInv` (the one refresh, its pair and its one write), `FreshInv` (what a
sign-in brings is known to nobody), `OwnerInv` (a pair is one user's), `UpstreamInv`
(a session of ABS renews by its latest pair only), `StopInv`. The last three
theorems are about `SpecUnrefused`: under `Spec` a refused request buries a chain it
does not concern, which refutes `NoDeathOverStaleNews` (section 5); `GuardedInv` is
where the proof needs the difference.

**The playback session.** `IInv` relates the running operation to the session
(`RunInv`), a write to the read before it (`WritesOurTrack`), timers and queued ticks
to the generation (`LoopInv`, `ChainInv`) and the speaker to the book (`SpeakerInv`).
The bound `MaxGeneration` guards only the asking of an operation (`Ask`), so neither an
operation under way nor the loop is ever cut short by it.

**The Sonos client.** Two facts complete the two invariants: whoever awaits an
initialization awaits one under way, and the probe's flag stands only while the probe
reads.

**Positions and seeks.** `StartOf` is a recursive function; `StartsExist` and
`StartOfSums` show by induction, taken as a fact about subsets of the numbers
(`SetInduction`), that it is the running sum of the durations. From this `Mapped`
gives what `AbsoluteToTrack` returns for any book and any position. `SeekInv` adds to
the types only what a seek that has returned last read back; that an offset within
the tolerance is a position within the tolerance is `ClampBringsCloser`. A speaker is
sent the nearest second (`NearestSecond`), which may lie past the end of the track;
clamping what is read back brings it no further away, hence
`PositionsSurviveTheSpeaker`.

**Walks.** Both properties speak of the end of a walk, so `WalkInv` says what each
cursor stands for. `Passed(books, n)` are the first `n` books of a library in order;
a book is `Due` where the cursor has it behind it, in a library before its own or
passed in its own. Where nothing has changed, `CompleteInv`: the books returned are
the libraries before the cursor's, one after the other, and the pages of the cursor's
library up to its place. `Joined`, a recursive function, is that list of whole
libraries, and `JoinedFlattens` shows it to be the library's `FlattenSeq`.
Where something has, `CostInv`: of the books that have neither come nor gone, no more
are `Amiss` - returned another number of times than they are due - than have.
A page leaves `Amiss` as it is, wherever the cursor stands (`BrowseKeepsStep`); a book
that comes or goes shifts one place in one library, and so moves at most one other
book across the cursor (`OneMovesAcross`, `ChangeMovesOne`).
`Sorted` chooses the ascending list of a set; that there is exactly one, and that it
has every book once, is `SortedListsAll`.

Before a proof was tried, TLC checked each inductive invariant on the bounds of the
run concerned.

**Checked by TLC only.** Liveness (`WritesSettle`, `RefreshesSettle`,
`OperationsFinish`, `StoppedSpeakerEndsSession`, `ProbesComeToAnEnd`): fairness and
ENABLED are out of the prover's reach. That a walk ends is not a property of its own,
since nothing makes a client ask for the next page; but `CompleteInv` keeps the
cursor of an undisturbed walk within the libraries, and every page moves it on.

## 5. Findings

- **A refused request can bury a chain it does not concern**
  (`chain_lost_late`, `keepAlive.ts:195`). A refresh that is refused marks the chain
  dead only if the store still holds the pair it spent; `loseChain` names no pair.
  With a sign-out and the next sign-in queued when a request of the old session is
  refused, its mark lands on the new chain, the very case `markDead`'s comment and
  ADR-0004 rule out. The next sign-in heals it.
- **Pause writes foreign positions** (`session_manager_pause`,
  `sessionManager.ts:147`). The loop and the teardown ask `isOurTrack` before they
  write; pause does not.
- **A late failure leaks a manager** (`sonos_client_leak`, `sonos/client.ts:341`).
  `reset` forgets an initialization in flight; a second one starts beside it, and
  the manager overwritten is never cancelled.

Met while modelling, and not a run's subject:

- `openapi.yaml` says of `nextCursor` "Present when more items are available"; the
  code hands one out before an empty library too, and after a full last page where
  ABS reports no total. The page that follows is empty and costs a walk
  nothing but a request (`WalksAreComplete`).
- `drained()`'s comment says nothing new can enqueue behind it; the playback
  session can. `SpentPairsAreAccountedFor` holds all the same, because
  `sessions.stop()` queues behind whatever that session is doing.
- `main.ts` builds its own `AbsClient` without `ABS_REQUEST_TIMEOUT_MS` and without a
  logger, so the setting has no effect in production.

## 6. Not modelled, and why

Stateless or I/O parts: the ABS client's parsing, search and covers, its TLS
transport, the API services and contract mapping, the token guard, rate limit, error
and sunset handlers, configuration, metadata XML, and the fake speaker of the tests.
Of the modelled components: encryption and permissions of the file, device and user
names, zone parsing, `planPlayback`, and a regrouping between the look-up of a
coordinator and the command sent to it. A wall clock that steps back (last-used
write-throughs then wait until it has caught up), a client that changes its page size
halfway through a walk, and a list of libraries that changes are outside the models.
Node's event loop is taken as it is: code between two awaits is atomic.

## 7. Plan

Done: the store with its refinement, its ids, times and migration; two servers;
chains, with the playback session at shutdown; the session manager with its
refinement; the Sonos client; positions and seeks; walks through the libraries; and
the proofs of every safety property the passing runs check.

Left, should the code come to depend on it:

1. A coordinator that changes between its look-up and the command sent to it
   (`SessionManager` takes a speaker for its own coordinator).
2. The hazards without a property: each waits for a document or a test to say what
   the code owes its caller there.
3. `planPlayback` and the contract mapping, which translate and decide nothing.

Every run slot that a new question needs is made by merging a run into a larger
one, not by dropping a question.
