--------------------------- MODULE SessionManager ---------------------------
(***************************************************************************)
(* The one playback session of the server                                  *)
(* (packages/app/src/playback/sessionManager.ts): user operations and the  *)
(* ticks of the sync loop run one at a time behind a promise chain, while  *)
(* the speakers they drive belong to a household that can pause, stop or   *)
(* take one over between any two of their calls.                           *)
(*                                                                         *)
(* Positions are counted in units small enough to tell the cases apart.    *)
(* Progress lives in Audiobookshelf (ABS).                                 *)
(***************************************************************************)
EXTENDS Integers, Sequences, FiniteSets

CONSTANTS
  Book, Speaker,
  Foreign,         \* content of the household's own
  Cleared,         \* an empty queue
  NoSession,
  Length,          \* the duration of every book
  Threshold,       \* progressWriteThresholdSeconds
  Backoff,         \* writePositionBackoffSeconds
  Rewind,          \* resumeRewindSeconds
  EndTolerance,    \* END_OF_BOOK_TOLERANCE_SECONDS
  MaxOps,          \* bound on the operations waiting at once
  MaxGeneration    \* bound on the sync loops an operation is asked for in

ASSUME PlaybackAssumption ==
  /\ Length \in Nat \ {0}
  /\ {Threshold, Backoff, Rewind, EndTolerance, MaxOps, MaxGeneration} \subseteq Nat
  /\ {Foreign, Cleared} \cap Book = {} /\ Foreign # Cleared
  /\ "unread" \notin Book \cup {Foreign, Cleared}
  /\ NoSession \notin [book : Book, speaker : Speaker]

VARIABLES
  session,      \* the active session, or NoSession
  lastWritten,  \* lastWrittenSeconds
  generation,   \* loopGeneration
  timers,       \* the generations of the poll timers pending
  ops,          \* the operations behind opChain, the running one first
  run,          \* how far that one is: its next step and what it has read
  speakers,     \* what each speaker holds, where and whether it plays
  progress,     \* ABS: the progress stored of each book
  orphaned      \* speakers left playing a book of ours for a reason that is accepted

vars == <<session, lastWritten, generation, timers, ops, run, speakers, progress, orphaned>>

Position == 0..Length
Source   == Book \cup {Foreign, Cleared}
Phase    == {"playing", "paused", "stopped"}

Ops == [kind : {"start"}, book : Book, speaker : Speaker]
  \cup [kind : {"seek"}, target : Position]
  \cup [kind : {"pause", "resume", "stop"}]
  \cup [kind : {"tick"}, generation : Nat]

(* A live read is two calls, of the position and of the transport state;   *)
(* "unread" until each has answered.                                       *)
Run == [at     : {"waiting", "read", "write", "last write", "stop", "play", "seek"},
        source : Source \cup {"unread"},
        phase  : Phase \cup {"unread"},
        pos    : Position,
        resume : Position]

Idle == [at |-> "waiting", source |-> "unread", phase |-> "unread", pos |-> 0, resume |-> 0]

TypeOK ==
  /\ session \in [book : Book, speaker : Speaker] \cup {NoSession}
  /\ lastWritten \in Position
  /\ generation \in Nat
  /\ timers \subseteq Nat
  /\ ops \in Seq(Ops)
  /\ run \in Run
  /\ speakers \in [Speaker -> [source : Source, pos : Position, phase : Phase]]
  /\ progress \in [Book -> [pos : Position, finished : BOOLEAN]]
  /\ orphaned \subseteq Speaker

Init ==
  /\ session = NoSession
  /\ lastWritten = 0
  /\ generation = 0
  /\ timers = {}
  /\ ops = <<>>
  /\ run = Idle
  /\ speakers = [s \in Speaker |-> [source |-> Cleared, pos |-> 0, phase |-> "stopped"]]
  /\ progress = [b \in Book |-> [pos |-> 0, finished |-> FALSE]]
  /\ orphaned = {}

Larger(m, n) == IF m < n THEN n ELSE m

Op == Head(ops)

Running(kind, at) == ops # <<>> /\ Op.kind = kind /\ run.at = at

-----------------------------------------------------------------------------
(* The chain and the loop.                                                 *)

(* serialize: the next operation runs whatever became of this one.         *)
FinishWedging == ops' = (IF run.at = "waiting" THEN ops ELSE Tail(ops)) /\ run' = Idle

Finish == ops' = Tail(ops) /\ run' = Idle

(* stopLoop: a tick or a timer of an earlier generation is superseded. *)
StopLoop ==
  /\ generation' = generation + 1
  /\ timers' = timers \ {generation}

(* startLoop, which stops the loop there was. *)
StartLoop ==
  /\ generation' = generation + 1
  /\ timers' = (timers \ {generation}) \cup {generation + 1}

(* The end of a tick: the loop goes on while it is the current one and its *)
(* session lasts.                                                          *)
RescheduleRegardless == timers' = timers \cup {Op.generation}

Reschedule ==
  timers' = IF Op.generation = generation /\ session # NoSession
            THEN timers \cup {generation} ELSE timers

FinishAs == Finish /\ IF Op.kind = "tick" THEN Reschedule ELSE UNCHANGED timers

(* A poll timer fires: a superseded one ends here, the other one queues.   *)
Fire ==
  /\ \E g \in timers :
       /\ timers' = timers \ {g}
       /\ ops' = IF g = generation THEN Append(ops, [kind |-> "tick", generation |-> g]) ELSE ops
  /\ UNCHANGED <<session, lastWritten, generation, run, speakers, progress, orphaned>>

(* The API asks for an operation. *)
Ask(op) ==
  /\ Len(ops) < MaxOps
  /\ generation < MaxGeneration - 2 * MaxOps
  /\ ops' = Append(ops, op)
  /\ UNCHANGED <<session, lastWritten, generation, timers, run, speakers, progress, orphaned>>

-----------------------------------------------------------------------------
(* How an operation begins.                                                *)

(* Nothing is playing: 404, or a tick with nothing to do. *)
NothingToActOn ==
  /\ ops # <<>>
  /\ run.at = "waiting"
  /\ Op.kind # "start"
  /\ session = NoSession
  /\ FinishAs
  /\ UNCHANGED <<session, lastWritten, generation, speakers, progress, orphaned>>

(* start: token, manifest and progress are read before anything is touched, *)
(* and a refusal of any of them leaves the session that plays alone.       *)
ResumePointUnclamped(b) ==
  IF progress[b].finished THEN 0 ELSE progress[b].pos - Rewind

ResumePoint(b) ==
  IF progress[b].finished THEN 0 ELSE Larger(0, progress[b].pos - Rewind)

StartBeginsBesideTheSession ==
  /\ Running("start", "waiting")
  /\ \/ run' = [Idle EXCEPT !.at = "play", !.resume = ResumePoint(Op.book)] /\ UNCHANGED ops
     \/ Finish
  /\ UNCHANGED <<session, lastWritten, generation, timers, speakers, progress, orphaned>>

StartBegins ==
  /\ Running("start", "waiting")
  /\ \/ run' = [Idle EXCEPT !.at = IF session = NoSession THEN "play" ELSE "read",
                            !.resume = ResumePoint(Op.book)]
        /\ UNCHANGED ops
     \/ Finish
  /\ UNCHANGED <<session, lastWritten, generation, timers, speakers, progress, orphaned>>

(* stop and a tick read the speaker first. *)
ReadBegins ==
  /\ Running("stop", "waiting") \/ Running("tick", "waiting")
  /\ session # NoSession
  /\ run' = [Idle EXCEPT !.at = "read"]
  /\ UNCHANGED <<session, lastWritten, generation, timers, ops, speakers, progress, orphaned>>

(* pause and resume command the speaker, whatever it plays, then read it;  *)
(* nothing is done with what a resume reads.                               *)
Command(s, phase) ==
  speakers' = IF speakers[s].source = Cleared THEN speakers
              ELSE [speakers EXCEPT ![s].phase = phase]

PauseBegins ==
  /\ Running("pause", "waiting")
  /\ session # NoSession
  /\ \/ /\ Command(session.speaker, "paused")
        /\ run' = [Idle EXCEPT !.at = "read"]
        /\ UNCHANGED ops
     \/ Finish /\ UNCHANGED speakers
  /\ UNCHANGED <<session, lastWritten, generation, timers, progress, orphaned>>

ResumeRuns ==
  /\ Running("resume", "waiting")
  /\ session # NoSession
  /\ Command(session.speaker, "playing") \/ UNCHANGED speakers
  /\ Finish
  /\ UNCHANGED <<session, lastWritten, generation, timers, progress, orphaned>>

(* seek moves the speaker and writes the target, not what it reads: also   *)
(* in a queue that is not ours, if that has such a track (where foreign    *)
(* content stands is always 0 here); an empty one has none.                *)
SeekBegins ==
  /\ Running("seek", "waiting")
  /\ session # NoSession
  /\ \/ /\ speakers[session.speaker].source # Cleared
        /\ speakers' = IF speakers[session.speaker].source \in Book
                       THEN [speakers EXCEPT ![session.speaker].pos = Op.target]
                       ELSE speakers
        /\ run' = [Idle EXCEPT !.at = "write", !.source = "unread", !.pos = Op.target]
        /\ UNCHANGED ops
     \/ Finish /\ UNCHANGED speakers
  /\ UNCHANGED <<session, lastWritten, generation, timers, progress, orphaned>>

-----------------------------------------------------------------------------
(* The live read, and what each operation makes of it.                     *)

ReadPosition ==
  /\ run.at = "read"
  /\ run.source = "unread"
  /\ run' = [run EXCEPT !.source = speakers[session.speaker].source,
                        !.pos = speakers[session.speaker].pos]
  /\ UNCHANGED <<session, lastWritten, generation, timers, ops, speakers, progress, orphaned>>

ReadState ==
  /\ run.at = "read"
  /\ run.phase = "unread"
  /\ run' = [run EXCEPT !.phase = speakers[session.speaker].phase]
  /\ UNCHANGED <<session, lastWritten, generation, timers, ops, speakers, progress, orphaned>>

HasRead == run.at = "read" /\ run.source # "unread" /\ run.phase # "unread"

(* What it goes on to do; the position it read is still of use. *)
GoesOnTo(step) == run' = [run EXCEPT !.at = step, !.phase = "unread"]

IsOurTrack == run.source = session.book

(* A read that fails: a tick leaves it to the next, pause answers without  *)
(* a write, a teardown goes on without one.                                *)
ReadFailsUncaught ==
  /\ run.at = "read"
  /\ IF Op.kind \in {"start", "stop"}
     THEN /\ StopLoop
          /\ run' = [Idle EXCEPT !.at = "stop", !.resume = run.resume]
          /\ UNCHANGED ops
     ELSE Finish /\ UNCHANGED <<generation, timers>>
  /\ UNCHANGED <<session, lastWritten, speakers, progress, orphaned>>

ReadFails ==
  /\ run.at = "read"
  /\ IF Op.kind \in {"start", "stop"}
     THEN /\ StopLoop
          /\ run' = [Idle EXCEPT !.at = "stop", !.resume = run.resume]
          /\ UNCHANGED ops
     ELSE FinishAs /\ UNCHANGED generation
  /\ UNCHANGED <<session, lastWritten, speakers, progress, orphaned>>

(* pause writes what it read. *)
PauseHasRead ==
  /\ HasRead
  /\ Op.kind = "pause"
  /\ GoesOnTo("write")
  /\ UNCHANGED <<session, lastWritten, generation, timers, ops, speakers, progress, orphaned>>

(* stopInternal: the final position is written where it is our book's; the *)
(* loop ends and the speaker is stopped all the same.                      *)
TeardownUnguarded ==
  /\ HasRead
  /\ Op.kind \in {"start", "stop"}
  /\ StopLoop
  /\ GoesOnTo("last write")
  /\ UNCHANGED <<session, lastWritten, ops, speakers, progress, orphaned>>

Teardown ==
  /\ HasRead
  /\ Op.kind \in {"start", "stop"}
  /\ StopLoop
  /\ GoesOnTo(IF IsOurTrack THEN "last write" ELSE "stop")
  /\ UNCHANGED <<session, lastWritten, ops, speakers, progress, orphaned>>

(* syncOnce: relinquish foreign content, finalize a stopped transport,     *)
(* write back a position that has moved far enough.                        *)
Moved == Larger(run.pos - lastWritten, lastWritten - run.pos) >= Threshold

Relinquish ==
  /\ HasRead
  /\ Op.kind = "tick"
  /\ ~IsOurTrack
  /\ StopLoop
  /\ session' = NoSession
  /\ Finish
  /\ UNCHANGED <<lastWritten, speakers, progress, orphaned>>

TickFinalizes ==
  /\ HasRead
  /\ Op.kind = "tick"
  /\ IsOurTrack
  /\ run.phase = "stopped"
  /\ StopLoop
  /\ GoesOnTo("last write")
  /\ UNCHANGED <<session, lastWritten, ops, speakers, progress, orphaned>>

TickHasRead ==
  /\ HasRead
  /\ Op.kind = "tick"
  /\ IsOurTrack
  /\ run.phase # "stopped"
  /\ IF Moved THEN GoesOnTo("write") /\ UNCHANGED <<ops, timers>> ELSE FinishAs
  /\ UNCHANGED <<session, lastWritten, generation, speakers, progress, orphaned>>

-----------------------------------------------------------------------------
(* Writing, stopping, starting.                                            *)

Store(pos, finished) ==
  progress' = [progress EXCEPT ![session.book] = [pos |-> pos, finished |-> finished]]

(* progressAt: the exact end of a finished book, backed off otherwise.     *)
StoreFinal(pos) ==
  IF Length - pos <= EndTolerance THEN Store(Length, TRUE) ELSE Store(Larger(0, pos - Backoff), FALSE)

(* writeBack, best-effort: it may fail, or land with its answer lost. *)
WriteBackFinishing ==
  /\ run.at = "write"
  /\ StoreFinal(run.pos) /\ lastWritten' = run.pos
  /\ FinishAs
  /\ UNCHANGED <<session, generation, speakers, orphaned>>

WriteBack ==
  /\ run.at = "write"
  /\ \/ Store(Larger(0, run.pos - Backoff), FALSE) /\ lastWritten' = run.pos
     \/ Store(Larger(0, run.pos - Backoff), FALSE) /\ UNCHANGED lastWritten
     \/ UNCHANGED <<progress, lastWritten>>
  /\ FinishAs
  /\ UNCHANGED <<session, generation, speakers, orphaned>>

(* It may fail, and is not tried again. *)
LastWrite ==
  /\ run.at = "last write"
  /\ StoreFinal(run.pos) \/ UNCHANGED progress
  /\ run' = [Idle EXCEPT !.at = "stop", !.resume = run.resume]
  /\ UNCHANGED <<session, lastWritten, generation, timers, ops, speakers, orphaned>>

(* The end of finalize: the speaker stops, or cannot be reached, and the   *)
(* session is cleared.                                                     *)
StopSpeaker ==
  /\ run.at = "stop"
  /\ \/ /\ speakers' = [speakers EXCEPT ![session.speaker].phase = "stopped"]
        /\ orphaned' = orphaned \ {session.speaker}
     \/ orphaned' = orphaned \cup {session.speaker} /\ UNCHANGED speakers
  /\ session' = NoSession
  /\ IF Op.kind = "start" THEN run' = [run EXCEPT !.at = "play"] /\ UNCHANGED ops ELSE Finish
  /\ UNCHANGED <<lastWritten, generation, timers, progress>>

(* The session exists, its loop runs. *)
Install(resume) ==
  /\ session' = [book |-> Op.book, speaker |-> Op.speaker]
  /\ lastWritten' = resume
  /\ orphaned' = orphaned \ {Op.speaker}
  /\ StartLoop
  /\ Finish

(* startPlayback replaces the queue and plays it from its beginning. *)
PlayStarts ==
  /\ Running("start", "play")
  /\ speakers' = [speakers EXCEPT ![Op.speaker] = [source |-> Op.book, pos |-> 0, phase |-> "playing"]]
  /\ IF run.resume = 0
     THEN Install(0)
     ELSE /\ run' = [run EXCEPT !.at = "seek"]
          /\ UNCHANGED <<session, lastWritten, generation, timers, ops, orphaned>>
  /\ UNCHANGED progress

(* One of its calls fails, before the old queue went, after it went, or    *)
(* with the answer to the last of them: start throws with no session.      *)
PlayFails ==
  /\ Running("start", "play")
  /\ \/ UNCHANGED <<speakers, orphaned>>
     \/ /\ speakers' = [speakers EXCEPT ![Op.speaker] = [source |-> Cleared, pos |-> 0, phase |-> "stopped"]]
        /\ UNCHANGED orphaned
     \/ /\ speakers' = [speakers EXCEPT ![Op.speaker] = [source |-> Op.book, pos |-> 0, phase |-> "playing"]]
        /\ orphaned' = orphaned \cup {Op.speaker}
  /\ Finish
  /\ UNCHANGED <<session, lastWritten, generation, timers, progress>>

(* The seek to the resume position, where there is one. *)
ResumeSought ==
  /\ Running("start", "seek")
  /\ IF speakers[Op.speaker].source = Op.book
     THEN speakers' = [speakers EXCEPT ![Op.speaker].pos = run.resume]
     ELSE UNCHANGED speakers
  /\ Install(run.resume)
  /\ UNCHANGED progress

ResumeFails ==
  /\ Running("start", "seek")
  /\ orphaned' = orphaned \cup {Op.speaker}
  /\ Finish
  /\ UNCHANGED <<session, lastWritten, generation, timers, speakers, progress>>

-----------------------------------------------------------------------------
(* The household, and time.                                                *)

Plays(s) == speakers[s].source \in Book /\ speakers[s].phase = "playing"

BookPlaysOn(s) ==
  /\ Plays(s)
  /\ speakers[s].pos < Length
  /\ speakers' = [speakers EXCEPT ![s].pos = @ + 1]
  /\ UNCHANGED orphaned

(* A pause, a stop, the end of the queue. *)
FallsSilent(s) ==
  /\ speakers[s].source \in Book
  /\ \E phase \in {"paused", "stopped"} :
       /\ speakers[s].phase \notin {"stopped", phase}
       /\ speakers' = [speakers EXCEPT ![s].phase = phase]
  /\ orphaned' = orphaned \ {s}

PressPlay(s) ==
  /\ speakers[s].source \in Book
  /\ speakers[s].phase # "playing"
  /\ speakers' = [speakers EXCEPT ![s].phase = "playing"]
  /\ orphaned' = IF session # NoSession /\ session.speaker = s THEN orphaned ELSE orphaned \cup {s}

(* Somebody starts something else (radio, an alarm, a spoken command) or   *)
(* clears the queue.  A household that regroups between two look-ups of    *)
(* the coordinator looks the same to the session; that the member it left  *)
(* may play on, and that somebody may go back to our queue, is left out.   *)
TakeOver(s) ==
  /\ \/ /\ speakers[s].source # Foreign
        /\ speakers' = [speakers EXCEPT ![s] = [source |-> Foreign, pos |-> 0, phase |-> "playing"]]
     \/ /\ speakers[s].source # Cleared
        /\ speakers' = [speakers EXCEPT ![s] = [source |-> Cleared, pos |-> 0, phase |-> "stopped"]]
  /\ orphaned' = orphaned \ {s}

Household ==
  /\ \E s \in Speaker : BookPlaysOn(s) \/ FallsSilent(s) \/ PressPlay(s) \/ TakeOver(s)
  /\ UNCHANGED <<session, lastWritten, generation, timers, ops, run, progress>>

(* The process dies and comes back: the session is lost, the speaker and   *)
(* the progress in ABS are not.                                            *)
Restart ==
  /\ session' = NoSession
  /\ lastWritten' = 0
  /\ generation' = 0
  /\ timers' = {}
  /\ ops' = <<>>
  /\ run' = Idle
  /\ orphaned' = { s \in Speaker : Plays(s) }
  /\ UNCHANGED <<speakers, progress>>

-----------------------------------------------------------------------------
Begins == NothingToActOn \/ StartBegins \/ ReadBegins \/ PauseBegins \/ ResumeRuns \/ SeekBegins

Reads == ReadPosition \/ ReadState \/ ReadFails \/ PauseHasRead \/ Teardown \/ Relinquish
           \/ TickFinalizes \/ TickHasRead

Writes == WriteBack \/ LastWrite

Drives == StopSpeaker \/ PlayStarts \/ PlayFails \/ ResumeSought \/ ResumeFails

OpStep == Begins \/ Reads \/ Writes \/ Drives

Asked ==
  \/ \E b \in Book, s \in Speaker : Ask([kind |-> "start", book |-> b, speaker |-> s])
  \/ \E p \in Position : Ask([kind |-> "seek", target |-> p])
  \/ \E kind \in {"pause", "resume", "stop"} : Ask([kind |-> kind])

Next == Asked \/ Fire \/ OpStep \/ Household \/ Restart

Spec == Init /\ [][Next]_vars

(* Every call an operation awaits is bounded by a timeout.                 *)
FairSpec == Spec /\ WF_vars(OpStep) /\ WF_vars(Fire)

-----------------------------------------------------------------------------
(* "A tick that fired just before a replace-start()/stop can't spawn a     *)
(* second, orphaned poll chain" (loopGeneration), and none is lost either: *)
(* outside its own teardown a session has exactly one poll chain alive, a  *)
(* pending timer or a tick of its generation, and no session has none.     *)
LiveTicks == { i \in 1..Len(ops) : ops[i].kind = "tick" /\ ops[i].generation = generation }

TearingDown == run.at \in {"last write", "stop"}

OnePollChain ==
  Cardinality(timers) + Cardinality(LiveTicks) = IF session = NoSession \/ TearingDown THEN 0 ELSE 1

(* "Writing would corrupt the book's progress with a foreign position"     *)
(* (relinquish): the position an operation read and then writes to ABS was *)
(* read while the speaker played the book it is written for.               *)
WritesWhatIsOurs(kinds) == progress' # progress /\ Op.kind \in kinds => IsOurTrack

OnlyTheBooksPositions == [][WritesWhatIsOurs({"pause", "start", "stop", "tick"})]_vars

(* The same of every writer but pause. *)
LoopAndTeardownWriteTheBooksPositions ==
  [][WritesWhatIsOurs({"start", "stop", "tick"})]_vars

(* Progress is recorded for the book of the active session only and never  *)
(* after its last record, and only that one finishes a book ("Used only on *)
(* teardown, not for in-progress writes", progressAt), whatever            *)
(* operations, ticks, failures and restarts come between.                  *)
Promise == INSTANCE PlaybackSession WITH
  NoBook <- NoSession,
  book   <- IF session = NoSession THEN NoSession ELSE session.book,
  phase  <- IF session = NoSession THEN "none"
            ELSE IF run.at = "last write" THEN "closing"
            ELSE IF run.at = "stop" THEN "closed" ELSE "active"

ImplementsPlaybackSession == Promise!Spec

(* "Otherwise concurrent starts orphan a playing speaker" (opChain): a     *)
(* speaker plays a book of ours only while the session, or the operation   *)
(* that is starting it, is on it - unless a call to the speaker failed,    *)
(* the household pressed play, or the process died.                        *)
NoOrphanedSpeaker ==
  \A s \in Speaker :
    Plays(s) =>
      \/ session # NoSession /\ session.speaker = s
      \/ ops # <<>> /\ Op.kind = "start" /\ Op.speaker = s /\ run.at = "seek"
      \/ s \in orphaned

(* "One failure does not wedge the manager" (serialize): as long as        *)
(* operations wait, operations finish.                                     *)
OperationsFinish == []<><<Len(ops') < Len(ops)>>_vars \/ <>[](ops = <<>>)

(* "A stopped transport ends the session" (syncOnce), and no failed read,  *)
(* user operation or replaced session makes the loop miss it: a speaker    *)
(* that stays stopped keeps its session only if reading it fails for ever. *)
StoppedSpeakerEndsSession ==
  \/ []<><<ReadFails>>_vars
  \/ []<>(session # NoSession => speakers[session.speaker].phase # "stopped")
=============================================================================
