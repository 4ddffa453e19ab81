------------------------ MODULE SessionManagerProofs ------------------------
(***************************************************************************)
(* Theorems about SessionManager, for any books, speakers, lengths and     *)
(* thresholds, and for queues of any length.                               *)
(***************************************************************************)
EXTENDS SessionManager, FiniteSetTheorems, TLAPS

(* What the running operation may be about at each of its steps.           *)
RunInv ==
  /\ run.at # "waiting" => ops # <<>>
  /\ run.at = "read" => session # NoSession /\ Op.kind \in {"start", "stop", "tick", "pause"}
  /\ run.at = "write" => session # NoSession /\ Op.kind \in {"seek", "pause", "tick"}
  /\ TearingDown => session # NoSession /\ Op.kind \in {"start", "stop", "tick"}
  /\ run.at \in {"play", "seek"} => session = NoSession /\ Op.kind = "start"

(* The loop and the teardown write only what they read of our track.       *)
WritesOurTrack ==
  run.at = "last write" \/ (run.at = "write" /\ Op.kind = "tick") => IsOurTrack

(* No timer and no queued tick is ahead of the loop, or of another one. *)
LoopInv ==
  /\ timers \subseteq {generation}
  /\ \A i \in 1..Len(ops) : ops[i].kind = "tick" => ops[i].generation <= generation
  /\ \A i, j \in LiveTicks : i = j

ChainInv ==
  IF session = NoSession \/ TearingDown
  THEN timers = {} /\ LiveTicks = {}
  ELSE timers = {} <=> LiveTicks # {}

(* Where the session plays, or a start seeks, there is its book or none. *)
SpeakerInv ==
  /\ session # NoSession => speakers[session.speaker].source \in {session.book, Foreign, Cleared}
  /\ run.at = "seek" => speakers[Op.speaker].source \in {Op.book, Foreign, Cleared}
  /\ run.at = "read" /\ run.source \notin {"unread", session.book}
       => speakers[session.speaker].source \notin Book
IInv ==
  /\ TypeOK
  /\ RunInv
  /\ WritesOurTrack
  /\ LoopInv
  /\ ChainInv
  /\ SpeakerInv
  /\ NoOrphanedSpeaker

-----------------------------------------------------------------------------
(* The queue.                                                              *)

(* The running operation, and the queue without it. *)
LEMMA Queue ==
  ASSUME TypeOK, ops # <<>>
  PROVE  /\ Len(ops) \in Nat /\ Len(ops) > 0
         /\ Op = ops[1]
         /\ Op \in Ops
         /\ Tail(ops) \in Seq(Ops)
         /\ Len(Tail(ops)) = Len(ops) - 1
         /\ \A i \in 1..Len(Tail(ops)) : Tail(ops)[i] = ops[i + 1]
<1>1. ops \in Seq(Ops)
  BY DEF TypeOK
<1>2. Len(ops) \in Nat /\ Len(ops) > 0 /\ ops[1] \in Ops
  BY <1>1
<1> QED
  BY <1>1, <1>2 DEF Op

(* What comes with an operation of each kind. *)
LEMMA OpFields ==
  ASSUME NEW op \in Ops
  PROVE  /\ op.kind = "start" => op.book \in Book /\ op.speaker \in Speaker
         /\ op.kind = "seek" => op.target \in Position
         /\ op.kind = "tick" => op.generation \in Nat
BY DEF Ops

LEMMA SessionFields ==
  ASSUME TypeOK, session # NoSession
  PROVE  session.book \in Book /\ session.speaker \in Speaker
BY DEF TypeOK

-----------------------------------------------------------------------------
(* Types.                                                                  *)

Speakers == [Speaker -> [source : Source, pos : Position, phase : Phase]]

Steps == {"waiting", "read", "write", "last write", "stop", "play", "seek"}

(* An operation begins, goes on, or is through. *)
LEMMA RunTypes ==
  ASSUME TypeOK, NEW at \in Steps, NEW p \in Position
  PROVE  /\ Idle \in Run
         /\ [Idle EXCEPT !.at = at] \in Run
         /\ [Idle EXCEPT !.at = at, !.resume = p] \in Run
         /\ [Idle EXCEPT !.at = at, !.source = "unread", !.pos = p] \in Run
         /\ [run EXCEPT !.at = at] \in Run
         /\ [run EXCEPT !.at = at, !.phase = "unread"] \in Run
         /\ run.resume \in Position /\ run.pos \in Position
<1>1. Idle \in Run
  BY PlaybackAssumption DEF Idle, Run, Position
<1>2. run \in Run
  BY DEF TypeOK
<1> QED
  BY <1>1, <1>2 DEF Run, Steps

(* What a command, the household or the book's end makes of a speaker. *)
LEMMA SpeakerTypes ==
  ASSUME TypeOK, NEW s \in Speaker, NEW p \in Position, NEW phase \in Phase, NEW source \in Source
  PROVE  /\ speakers \in Speakers
         /\ [speakers EXCEPT ![s] = [source |-> source, pos |-> p, phase |-> phase]] \in Speakers
         /\ [speakers EXCEPT ![s].phase = phase] \in Speakers
         /\ [speakers EXCEPT ![s].pos = p] \in Speakers
BY DEF TypeOK, Speakers

LEMMA TypeStep == TypeOK /\ RunInv /\ [Next]_vars => TypeOK'
<1> SUFFICES ASSUME TypeOK, RunInv, [Next]_vars
             PROVE  TypeOK'
  OBVIOUS
<1>0. Length \in Nat /\ Backoff \in Nat /\ Rewind \in Nat
  BY PlaybackAssumption
<1>q. ops # <<>> => Op \in Ops /\ Tail(ops) \in Seq(Ops)
  BY Queue
<1>z. 0 \in Position
  BY <1>0 DEF Position
<1>r. /\ Idle \in Run
      /\ \A at \in Steps : /\ [Idle EXCEPT !.at = at] \in Run
                           /\ [run EXCEPT !.at = at] \in Run
                           /\ [run EXCEPT !.at = at, !.phase = "unread"] \in Run
      /\ \A at \in Steps, p \in Position :
           /\ [Idle EXCEPT !.at = at, !.resume = p] \in Run
           /\ [Idle EXCEPT !.at = at, !.source = "unread", !.pos = p] \in Run
      /\ run.resume \in Position /\ run.pos \in Position
  BY <1>z, RunTypes DEF Steps
<1>s. /\ speakers \in Speakers
      /\ \A s \in Speaker, p \in Position, phase \in Phase, source \in Source :
           /\ [speakers EXCEPT ![s] = [source |-> source, pos |-> p, phase |-> phase]] \in Speakers
           /\ [speakers EXCEPT ![s].phase = phase] \in Speakers
           /\ [speakers EXCEPT ![s].pos = p] \in Speakers
  BY SpeakerTypes DEF TypeOK, Speakers
<1>l. StopLoop \/ StartLoop => generation' \in Nat /\ timers' \subseteq Nat
  <2>1. generation \in Nat /\ timers \subseteq Nat
    BY DEF TypeOK
  <2>2. generation + 1 \in Nat
    BY <2>1
  <2> QED
    BY <2>1, <2>2, Zenon DEF StopLoop, StartLoop
<1>k. /\ {"playing", "paused", "stopped"} \subseteq Phase
      /\ Foreign \in Source /\ Cleared \in Source /\ Book \subseteq Source
  BY DEF Phase, Source
<1>f. ASSUME ops # <<>>, FinishAs
      PROVE  ops' \in Seq(Ops) /\ run' \in Run /\ timers' \subseteq Nat
  BY <1>f, <1>q, <1>r DEF FinishAs, Finish, Reschedule, TypeOK
<1>1. ASSUME NEW op \in Ops, Ask(op)
      PROVE  TypeOK'
  BY <1>1 DEF Ask, TypeOK
<1>2. CASE Fire
  <2>1. PICK g \in timers : /\ timers' = timers \ {g}
                            /\ ops' = IF g = generation THEN Append(ops, [kind |-> "tick", generation |-> g])
                                       ELSE ops
    BY <1>2 DEF Fire
  <2>2. [kind |-> "tick", generation |-> g] \in Ops
    BY DEF Ops, TypeOK
  <2> QED
    BY <1>2, <2>1, <2>2 DEF Fire, TypeOK
<1>3. CASE NothingToActOn
  BY <1>3, <1>f DEF NothingToActOn, TypeOK
<1>4. CASE StartBegins
  <2>1. Op.book \in Book
    BY <1>4, <1>q, OpFields DEF StartBegins, Running
  <2>2. ResumePoint(Op.book) \in Position
    BY <1>0, <2>1 DEF ResumePoint, Larger, TypeOK, Position
  <2>4. "play" \in Steps /\ "read" \in Steps
    BY DEF Steps
  <2>3. run' \in Run
    BY <1>4, <1>r, <2>2, <2>4, Zenon DEF StartBegins, Finish
  <2> QED
    BY <1>4, <1>q, <2>3 DEF StartBegins, Running, Finish, TypeOK
<1>5. CASE ReadBegins
  BY <1>5, <1>r DEF ReadBegins, TypeOK, Steps
<1>c. ASSUME NEW phase \in Phase, session # NoSession, Command(session.speaker, phase)
      PROVE  speakers' \in Speakers
  BY <1>c, <1>s, <1>z, SessionFields DEF Command, Source
<1>6. CASE PauseBegins
  <2>1. run' \in Run /\ ops' \in Seq(Ops)
    BY <1>6, <1>q, <1>r DEF PauseBegins, Running, Finish, TypeOK, Steps
  <2>2. speakers' \in Speakers
    BY <1>6, <1>c, <1>s DEF PauseBegins, Phase
  <2> QED
    BY <1>6, <2>1, <2>2 DEF PauseBegins, TypeOK, Speakers
<1>7. CASE ResumeRuns
  <2>1. run' \in Run /\ ops' \in Seq(Ops)
    BY <1>7, <1>q, <1>r DEF ResumeRuns, Running, Finish
  <2>2. speakers' \in Speakers
    BY <1>7, <1>c, <1>s DEF ResumeRuns, Phase
  <2> QED
    BY <1>7, <2>1, <2>2 DEF ResumeRuns, TypeOK, Speakers
<1>8. CASE SeekBegins
  <2>1. Op.target \in Position
    BY <1>8, <1>q, OpFields DEF SeekBegins, Running
  <2>o. ops \in Seq(Ops)
    BY DEF TypeOK
  <2>2. run' \in Run /\ ops' \in Seq(Ops)
    BY <1>8, <2>o, <2>1, <1>q, <1>r DEF SeekBegins, Running, Finish, Steps
  <2>3. speakers' \in Speakers
    <3>1. session.speaker \in Speaker
      BY <1>8, SessionFields DEF SeekBegins
    <3> QED
      BY <1>8, <2>1, <3>1, <1>s, <1>k, Zenon DEF SeekBegins
  <2> QED
    BY <1>8, <2>2, <2>3 DEF SeekBegins, TypeOK, Speakers
<1>9. CASE ReadPosition
  BY <1>9, SessionFields DEF ReadPosition, RunInv, TypeOK, Run
<1>10. CASE ReadState
  BY <1>10, SessionFields DEF ReadState, RunInv, TypeOK, Run
<1>11. CASE ReadFails
  <2>1. ops # <<>> /\ run.at = "read"
    BY <1>11 DEF ReadFails, RunInv
  <2>2. run' \in Run
    BY <1>11, <1>r DEF ReadFails, FinishAs, Finish, Steps
  <2>3. ops' \in Seq(Ops) /\ generation' \in Nat /\ timers' \subseteq Nat
    BY <1>11, <1>f, <1>l, <2>1 DEF ReadFails, TypeOK
  <2> QED
    BY <1>11, <2>2, <2>3 DEF ReadFails, TypeOK
<1>12. CASE PauseHasRead
  BY <1>12, <1>r DEF PauseHasRead, GoesOnTo, TypeOK, Steps
<1>13. CASE Teardown
  BY <1>13, <1>r, <1>l DEF Teardown, GoesOnTo, TypeOK, Steps
<1>14. CASE Relinquish
  BY <1>14, <1>q, <1>r, <1>l DEF Relinquish, HasRead, RunInv, Finish, TypeOK
<1>15. CASE TickFinalizes
  BY <1>15, <1>r, <1>l DEF TickFinalizes, GoesOnTo, TypeOK, Steps
<1>16. CASE TickHasRead
  BY <1>16, <1>f, <1>r DEF TickHasRead, HasRead, RunInv, GoesOnTo, TypeOK, Steps
<1>w. ASSUME session # NoSession, NEW p \in Position, NEW finished \in BOOLEAN, Store(p, finished)
      PROVE  progress' \in [Book -> [pos : Position, finished : BOOLEAN]]
  BY <1>w, SessionFields DEF Store, TypeOK
<1>p. Larger(0, run.pos - Backoff) \in Position /\ Length \in Position
  <2>1. run.pos \in Position
    BY <1>r
  <2> QED
    BY <1>0, <2>1 DEF Larger, Position
<1>17. CASE WriteBack
  <2>1. progress' \in [Book -> [pos : Position, finished : BOOLEAN]]
    BY <1>17, <1>w, <1>p DEF WriteBack, RunInv, TypeOK
  <2>2. lastWritten' \in Position
    BY <1>17, <1>r DEF WriteBack, TypeOK
  <2> QED
    BY <1>17, <1>f, <2>1, <2>2 DEF WriteBack, RunInv, TypeOK
<1>18. CASE LastWrite
  <2>1. progress' \in [Book -> [pos : Position, finished : BOOLEAN]]
    BY <1>18, <1>w, <1>p DEF LastWrite, StoreFinal, RunInv, TearingDown, TypeOK
  <2> QED
    BY <1>18, <1>r, <2>1 DEF LastWrite, TypeOK, Steps
<1>19. CASE StopSpeaker
  <2>1. session # NoSession /\ ops # <<>>
    BY <1>19 DEF StopSpeaker, RunInv, TearingDown
  <2>2. run' \in Run /\ ops' \in Seq(Ops)
    BY <1>19, <2>1, <1>q, <1>r DEF StopSpeaker, Finish, TypeOK, Steps
  <2>3. speakers' \in Speakers /\ orphaned' \subseteq Speaker
    <3>1. session.speaker \in Speaker /\ orphaned \subseteq Speaker
      BY <2>1, SessionFields DEF TypeOK
    <3> QED
      BY <1>19, <3>1, <1>s, <1>k, <1>z DEF StopSpeaker
  <2> QED
    BY <1>19, <2>2, <2>3 DEF StopSpeaker, TypeOK, Speakers
<1>n. ASSUME NEW resume \in Position, Running("start", "play") \/ Running("start", "seek"), Install(resume)
      PROVE  /\ session' \in [book : Book, speaker : Speaker] \cup {NoSession}
             /\ lastWritten' \in Position
             /\ generation' \in Nat /\ timers' \subseteq Nat
             /\ orphaned' \subseteq Speaker
             /\ ops' \in Seq(Ops) /\ run' \in Run
  <2>1. ops # <<>> /\ Op.book \in Book /\ Op.speaker \in Speaker
    BY <1>n, <1>q, OpFields DEF Running
  <2> QED
    BY <1>n, <2>1, <1>q, <1>r, <1>l DEF Install, Finish, TypeOK
<1>20. CASE PlayStarts
  <2>1. ops # <<>> /\ Op.book \in Book /\ Op.speaker \in Speaker
    BY <1>20, <1>q, OpFields DEF PlayStarts, Running
  <2>2. speakers' \in Speakers
    BY <1>20, <2>1, <1>s, <1>k, <1>z DEF PlayStarts
  <2>3. CASE run.resume = 0
    BY <1>20, <2>2, <2>3, <1>n, <1>z DEF PlayStarts, TypeOK, Speakers
  <2>4. CASE run.resume # 0
    BY <1>20, <2>2, <2>4, <1>r DEF PlayStarts, TypeOK, Speakers, Steps
  <2> QED
    BY <2>3, <2>4
<1>21. CASE PlayFails
  <2>1. ops # <<>> /\ Op.book \in Book /\ Op.speaker \in Speaker
    BY <1>21, <1>q, OpFields DEF PlayFails, Running
  <2>2. speakers' \in Speakers /\ orphaned' \subseteq Speaker
    <3>1. orphaned \subseteq Speaker
      BY DEF TypeOK
    <3>2. "playing" \in Phase /\ "stopped" \in Phase /\ Op.book \in Source
      BY <2>1, <1>k
    <3>3. speakers' \in Speakers
      <4>1. \/ speakers' = speakers
            \/ speakers' = [speakers EXCEPT ![Op.speaker] = [source |-> Cleared, pos |-> 0, phase |-> "stopped"]]
            \/ speakers' = [speakers EXCEPT ![Op.speaker] = [source |-> Op.book, pos |-> 0, phase |-> "playing"]]
        BY <1>21 DEF PlayFails
      <4>2. /\ [speakers EXCEPT ![Op.speaker] = [source |-> Cleared, pos |-> 0, phase |-> "stopped"]] \in Speakers
            /\ [speakers EXCEPT ![Op.speaker] = [source |-> Op.book, pos |-> 0, phase |-> "playing"]] \in Speakers
        BY <2>1, <3>2, <1>k, <1>z, SpeakerTypes
      <4> QED
        BY <4>1, <4>2, <1>s
    <3>4. orphaned' \subseteq Speaker
      BY <1>21, <2>1, <3>1 DEF PlayFails
    <3> QED
      BY <3>3, <3>4
  <2> QED
    BY <1>21, <2>1, <2>2, <1>q, <1>r DEF PlayFails, Finish, TypeOK, Speakers
<1>22. CASE ResumeSought
  <2>1. Op.speaker \in Speaker
    BY <1>22, <1>q, OpFields DEF ResumeSought, Running
  <2>2. speakers' \in Speakers
    BY <1>22, <2>1, <1>r, <1>s, <1>k DEF ResumeSought
  <2> QED
    BY <1>22, <2>2, <1>n, <1>r DEF ResumeSought, TypeOK, Speakers
<1>23. CASE ResumeFails
  BY <1>23, <1>q, <1>r, OpFields DEF ResumeFails, Running, Finish, TypeOK
<1>24. CASE Household
  <2>1. speakers' \in Speakers /\ orphaned' \subseteq Speaker
    <3>1. PICK s \in Speaker : BookPlaysOn(s) \/ FallsSilent(s) \/ PressPlay(s) \/ TakeOver(s)
      BY <1>24 DEF Household
    <3>o. orphaned \subseteq Speaker
      BY DEF TypeOK
    <3>2. CASE BookPlaysOn(s)
      <4>1. speakers[s].pos + 1 \in Position
        BY <1>0, <3>2 DEF BookPlaysOn, TypeOK, Position
      <4>2. speakers' = [speakers EXCEPT ![s].pos = speakers[s].pos + 1]
        BY <3>2 DEF BookPlaysOn
      <4> QED
        BY <3>2, <4>1, <4>2 DEF BookPlaysOn, TypeOK, Speakers
    <3>3. CASE FallsSilent(s)
      <4>1. PICK phase \in Phase : speakers' = [speakers EXCEPT ![s].phase = phase]
        BY <3>3, <1>k DEF FallsSilent
      <4>2. speakers' \in Speakers
        BY <4>1, <1>s, <1>k, <1>z
      <4> QED
        BY <3>3, <3>o, <4>2 DEF FallsSilent
    <3>4. CASE PressPlay(s)
      BY <3>4, <3>o, <1>s, <1>k, <1>z DEF PressPlay
    <3>5. CASE TakeOver(s)
      <4>1. "playing" \in Phase /\ "stopped" \in Phase
        BY <1>k
      <4>2. speakers' \in Speakers
        <5>1. \/ speakers' = [speakers EXCEPT ![s] = [source |-> Foreign, pos |-> 0, phase |-> "playing"]]
              \/ speakers' = [speakers EXCEPT ![s] = [source |-> Cleared, pos |-> 0, phase |-> "stopped"]]
          BY <3>5 DEF TakeOver
        <5>2. /\ [speakers EXCEPT ![s] = [source |-> Foreign, pos |-> 0, phase |-> "playing"]] \in Speakers
              /\ [speakers EXCEPT ![s] = [source |-> Cleared, pos |-> 0, phase |-> "stopped"]] \in Speakers
          BY <4>1, <1>k, <1>z, SpeakerTypes
        <5> QED
          BY <5>1, <5>2
      <4> QED
        BY <3>5, <3>o, <4>2 DEF TakeOver
    <3> QED
      BY <3>1, <3>2, <3>3, <3>4, <3>5
  <2> QED
    BY <1>24, <2>1 DEF Household, TypeOK, Speakers
<1>25. CASE Restart
  <2>1. /\ session' = NoSession /\ lastWritten' \in Position /\ generation' \in Nat
        /\ timers' \subseteq Nat /\ ops' \in Seq(Ops) /\ run' \in Run /\ orphaned' \subseteq Speaker
    <3>1. <<>> \in Seq(Ops) /\ 0 \in Nat
      OBVIOUS
    <3> QED
      BY <1>25, <3>1, <1>r, <1>z, Zenon DEF Restart
  <2> QED
    BY <1>25, <2>1 DEF Restart, TypeOK
<1>26. CASE UNCHANGED vars
  BY <1>26 DEF vars, TypeOK
<1>27. CASE Asked
  BY <1>1, <1>27 DEF Asked, Ops
<1> QED
  BY <1>2, <1>3, <1>4, <1>5, <1>6, <1>7, <1>8, <1>9, <1>10, <1>11, <1>12, <1>13, <1>14, <1>15, <1>16,
     <1>17, <1>18, <1>19, <1>20, <1>21, <1>22, <1>23, <1>24, <1>25, <1>26, <1>27
     DEF Next, OpStep, Begins, Reads, Writes, Drives

-----------------------------------------------------------------------------
(* What the running operation is about.                                    *)

(* A request or a tick queues behind it. *)
LEMMA Queued ==
  ASSUME TypeOK, NEW op \in Ops, ops' = Append(ops, op)
  PROVE  /\ Len(ops') = Len(ops) + 1
         /\ ops' # <<>>
         /\ ops # <<>> => Op' = Op
         /\ \A i \in 1..Len(ops) : ops'[i] = ops[i]
         /\ ops'[Len(ops) + 1] = op
<1>1. ops \in Seq(Ops)
  BY DEF TypeOK
<1>2. Len(ops) \in Nat /\ ops' \in Seq(Ops) /\ Len(ops') = Len(ops) + 1
  BY <1>1
<1>3. \A i \in 1..Len(ops) : ops'[i] = ops[i]
  BY <1>1
<1>4. ops # <<>> => Op' = Op
  <2> SUFFICES ASSUME ops # <<>>
               PROVE  Op' = Op
    OBVIOUS
  <2>1. Len(ops) > 0
    BY <1>1
  <2>2. Head(ops) = ops[1] /\ Head(ops') = ops'[1]
    BY <1>1, <1>2, <2>1
  <2> QED
    BY <1>2, <1>3, <2>1, <2>2 DEF Op
<1> QED
  BY <1>1, <1>2, <1>3, <1>4

LEMMA GoesOn ==
  ASSUME TypeOK, NEW at, GoesOnTo(at)
  PROVE  /\ run'.at = at /\ run'.source = run.source
         /\ run'.pos = run.pos /\ run'.resume = run.resume
BY DEF TypeOK, Run, GoesOnTo

LEMMA RunStep == TypeOK /\ RunInv /\ WritesOurTrack /\ [Next]_vars => RunInv' /\ WritesOurTrack'
<1> SUFFICES ASSUME TypeOK, RunInv, WritesOurTrack, [Next]_vars
             PROVE  RunInv' /\ WritesOurTrack'
  OBVIOUS
<1>r. DOMAIN run = {"at", "source", "phase", "pos", "resume"}
  BY DEF TypeOK, Run
<1>i. /\ Idle.at = "waiting"
      /\ \A at : [Idle EXCEPT !.at = at].at = at
      /\ \A at, p : /\ [Idle EXCEPT !.at = at, !.resume = p].at = at
                   /\ [Idle EXCEPT !.at = at, !.source = "unread", !.pos = p].at = at
  BY DEF Idle
(* An operation is through. *)
<1>w. run' = Idle => RunInv' /\ WritesOurTrack'
  BY <1>i DEF RunInv, WritesOurTrack, TearingDown
(* It stays where it is, whatever queues behind it. *)
<1>k. ASSUME UNCHANGED <<run, session>>, ops # <<>> => ops' # <<>> /\ Op' = Op
      PROVE  RunInv' /\ WritesOurTrack'
  BY <1>k DEF RunInv, WritesOurTrack, TearingDown, IsOurTrack
<1>o. ops' = ops => (ops # <<>> => ops' # <<>> /\ Op' = Op)
  BY DEF Op
<1>1. ASSUME NEW op \in Ops, Ask(op)
      PROVE  RunInv' /\ WritesOurTrack'
  BY <1>1, <1>k, Queued DEF Ask
<1>2. CASE Fire
  <2>1. PICK g \in timers : ops' = IF g = generation THEN Append(ops, [kind |-> "tick", generation |-> g])
                                    ELSE ops
    BY <1>2 DEF Fire
  <2>2. [kind |-> "tick", generation |-> g] \in Ops
    BY DEF Ops, TypeOK
  <2>3. ops # <<>> => ops' # <<>> /\ Op' = Op
    BY <2>1, <2>2, <1>o, Queued
  <2> QED
    BY <1>2, <2>3, <1>k DEF Fire
<1>3. CASE NothingToActOn
  BY <1>3, <1>w DEF NothingToActOn, FinishAs, Finish
<1>4. CASE StartBegins
  <2>1. CASE run' = Idle
    BY <2>1, <1>w
  <2>2. CASE run' # Idle
    <3>1. /\ ops # <<>> /\ Op.kind = "start" /\ UNCHANGED <<session, ops>>
          /\ run'.at = IF session = NoSession THEN "play" ELSE "read"
      BY <1>4, <2>2 DEF StartBegins, Running, Finish, Idle
    <3> QED
      BY <3>1, <1>o DEF RunInv, WritesOurTrack, TearingDown
  <2> QED
    BY <2>1, <2>2
<1>5. CASE ReadBegins
  <2>1. /\ ops # <<>> /\ Op.kind \in {"stop", "tick"} /\ UNCHANGED <<session, ops>>
        /\ session # NoSession /\ run'.at = "read"
    BY <1>5, <1>i DEF ReadBegins, Running
  <2> QED
    BY <2>1, <1>o DEF RunInv, WritesOurTrack, TearingDown
<1>6. CASE PauseBegins
  <2>1. CASE run' = Idle
    BY <2>1, <1>w
  <2>2. CASE run' # Idle
    <3>1. /\ ops # <<>> /\ Op.kind = "pause" /\ UNCHANGED <<session, ops>>
          /\ session # NoSession /\ run'.at = "read"
      BY <1>6, <1>i, <2>2 DEF PauseBegins, Running, Finish
    <3> QED
      BY <3>1, <1>o DEF RunInv, WritesOurTrack, TearingDown
  <2> QED
    BY <2>1, <2>2
<1>7. CASE ResumeRuns
  BY <1>7, <1>w DEF ResumeRuns, Finish
<1>8. CASE SeekBegins
  <2>1. CASE run' = Idle
    BY <2>1, <1>w
  <2>2. CASE run' # Idle
    <3>1. /\ ops # <<>> /\ Op.kind = "seek" /\ UNCHANGED <<session, ops>>
          /\ session # NoSession /\ run'.at = "write"
      BY <1>8, <2>2 DEF SeekBegins, Running, Finish, Idle
    <3> QED
      BY <3>1, <1>o DEF RunInv, WritesOurTrack, TearingDown
  <2> QED
    BY <2>1, <2>2
<1>9. CASE ReadPosition \/ ReadState
  <2>1. run.at = "read" /\ run'.at = "read" /\ UNCHANGED <<session, ops>>
    BY <1>9, <1>r DEF ReadPosition, ReadState
  <2> QED
    BY <2>1, <1>o DEF RunInv, WritesOurTrack, TearingDown
<1>10. CASE ReadFails
  <2>1. CASE run' = Idle
    BY <2>1, <1>w
  <2>2. CASE run' # Idle
    <3>1. /\ ops # <<>> /\ session # NoSession /\ Op.kind \in {"start", "stop"}
          /\ UNCHANGED <<session, ops>> /\ run'.at = "stop"
      BY <1>10, <2>2 DEF ReadFails, RunInv, FinishAs, Finish, Idle
    <3> QED
      BY <3>1, <1>o DEF RunInv, WritesOurTrack, TearingDown
  <2> QED
    BY <2>1, <2>2
<1>11. CASE PauseHasRead
  <2>1. /\ ops # <<>> /\ session # NoSession /\ Op.kind = "pause"
        /\ UNCHANGED <<session, ops>> /\ run'.at = "write"
    BY <1>11, GoesOn DEF PauseHasRead, HasRead, RunInv
  <2> QED
    BY <2>1, <1>o DEF RunInv, WritesOurTrack, TearingDown
<1>12. CASE Teardown \/ TickFinalizes
  <2>1. /\ ops # <<>> /\ session # NoSession /\ Op.kind \in {"start", "stop", "tick"}
        /\ UNCHANGED <<session, ops>> /\ run'.source = run.source
        /\ run'.at = IF IsOurTrack THEN "last write" ELSE "stop"
    BY <1>12, GoesOn DEF Teardown, TickFinalizes, HasRead, RunInv
  <2> QED
    BY <2>1, <1>o DEF RunInv, WritesOurTrack, TearingDown, IsOurTrack
<1>13. CASE Relinquish
  BY <1>13, <1>w DEF Relinquish, Finish
<1>14. CASE TickHasRead
  <2>1. CASE run' = Idle
    BY <2>1, <1>w
  <2>2. CASE run' # Idle
    <3>1. /\ ops # <<>> /\ session # NoSession /\ Op.kind = "tick" /\ IsOurTrack
          /\ UNCHANGED <<session, ops>> /\ run'.at = "write" /\ run'.source = run.source
      BY <1>14, <2>2, GoesOn DEF TickHasRead, HasRead, RunInv, FinishAs, Finish
    <3> QED
      BY <3>1, <1>o DEF RunInv, WritesOurTrack, TearingDown, IsOurTrack
  <2> QED
    BY <2>1, <2>2
<1>15. CASE WriteBack
  BY <1>15, <1>w DEF WriteBack, FinishAs, Finish
<1>16. CASE LastWrite
  <2>1. /\ ops # <<>> /\ session # NoSession /\ Op.kind \in {"start", "stop", "tick"}
        /\ UNCHANGED <<session, ops>> /\ run'.at = "stop"
    BY <1>16, <1>i DEF LastWrite, RunInv, TearingDown
  <2> QED
    BY <2>1, <1>o DEF RunInv, WritesOurTrack, TearingDown
<1>17. CASE StopSpeaker
  <2>1. CASE Op.kind = "start"
    <3>1. ops # <<>> /\ session' = NoSession /\ UNCHANGED ops /\ run'.at = "play"
      BY <1>17, <2>1, <1>r DEF StopSpeaker, RunInv
    <3> QED
      BY <2>1, <3>1, <1>o DEF RunInv, WritesOurTrack, TearingDown
  <2>2. CASE Op.kind # "start"
    BY <1>17, <2>2, <1>w DEF StopSpeaker, Finish
  <2> QED
    BY <2>1, <2>2
<1>18. CASE PlayStarts
  <2>1. CASE run.resume = 0
    BY <1>18, <2>1, <1>w DEF PlayStarts, Install, Finish
  <2>2. CASE run.resume # 0
    <3>1. /\ ops # <<>> /\ session = NoSession /\ Op.kind = "start"
          /\ UNCHANGED <<session, ops>> /\ run'.at = "seek"
      BY <1>18, <2>2, <1>r DEF PlayStarts, Running, RunInv
    <3> QED
      BY <3>1, <1>o DEF RunInv, WritesOurTrack, TearingDown
  <2> QED
    BY <2>1, <2>2
<1>19. CASE PlayFails \/ ResumeSought \/ ResumeFails
  BY <1>19, <1>w DEF PlayFails, ResumeSought, ResumeFails, Install, Finish
<1>20. CASE Household
  BY <1>20, <1>k, <1>o DEF Household
<1>21. CASE Restart
  BY <1>21, <1>w DEF Restart
<1>22. CASE UNCHANGED vars
  BY <1>22, <1>k, <1>o DEF vars
<1>23. CASE Asked
  BY <1>1, <1>23 DEF Asked, Ops
<1> QED
  BY <1>2, <1>3, <1>4, <1>5, <1>6, <1>7, <1>8, <1>9, <1>10, <1>11, <1>12, <1>13, <1>14, <1>15, <1>16,
     <1>17, <1>18, <1>19, <1>20, <1>21, <1>22, <1>23
     DEF Next, OpStep, Begins, Reads, Writes, Drives

-----------------------------------------------------------------------------
(* The poll chain.                                                         *)

(* The head of the queue goes. *)
LEMMA TicksBehind ==
  ASSUME TypeOK, LoopInv, ops # <<>>, ops' = Tail(ops), UNCHANGED generation
  PROVE  /\ \A i \in 1..Len(ops') : ops'[i].kind = "tick" => ops'[i].generation <= generation'
         /\ \A i, j \in LiveTicks' : i = j
         /\ 1 \in LiveTicks => LiveTicks' = {}
         /\ 1 \notin LiveTicks => (LiveTicks' = {} <=> LiveTicks = {})
<1>1. /\ Len(ops) \in Nat /\ Len(ops) > 0 /\ Len(ops') = Len(ops) - 1
      /\ \A i \in 1..Len(ops') : ops'[i] = ops[i + 1]
  BY Queue
<1>2. \A i : i \in LiveTicks' <=> i \in 1..Len(ops') /\ i + 1 \in LiveTicks
  BY <1>1 DEF LiveTicks
<1>3. \A i \in LiveTicks : i = 1 \/ i - 1 \in LiveTicks'
  BY <1>1, <1>2 DEF LiveTicks
<1>4. \A i, j \in LiveTicks' : i = j
  <2> SUFFICES ASSUME NEW i \in LiveTicks', NEW j \in LiveTicks'
               PROVE  i = j
    OBVIOUS
  <2>1. i \in Int /\ j \in Int /\ i + 1 = j + 1
    BY <1>1, <1>2 DEF LoopInv
  <2> QED
    BY <2>1
<1>5. 1 \in LiveTicks => LiveTicks' = {}
  <2> SUFFICES ASSUME 1 \in LiveTicks, NEW i \in LiveTicks'
               PROVE  FALSE
    OBVIOUS
  <2>1. i \in 1..Len(ops') /\ i + 1 = 1
    BY <1>2 DEF LoopInv
  <2> QED
    BY <1>1, <2>1
<1>6. 1 \notin LiveTicks => (LiveTicks' = {} <=> LiveTicks = {})
  BY <1>2, <1>3
<1>7. \A i \in 1..Len(ops') : ops'[i].kind = "tick" => ops'[i].generation <= generation'
  BY <1>1 DEF LoopInv
<1> QED
  BY <1>4, <1>5, <1>6, <1>7

(* The loop is stopped or replaced: every tick is superseded. *)
LEMMA Superseded ==
  ASSUME TypeOK, LoopInv, generation' = generation + 1, ops' = ops \/ (ops # <<>> /\ ops' = Tail(ops))
  PROVE  /\ \A i \in 1..Len(ops') : ops'[i].kind = "tick" => ops'[i].generation <= generation'
         /\ LiveTicks' = {}
<1>1. Len(ops) \in Nat /\ ops \in Seq(Ops) /\ generation \in Nat
  BY DEF TypeOK
<1>2. \A i \in 1..Len(ops') : \E j \in 1..Len(ops) : ops'[i] = ops[j]
  <2>1. CASE ops' = ops
    BY <2>1
  <2>2. CASE ops # <<>> /\ ops' = Tail(ops)
    <3>1. /\ Len(ops') = Len(ops) - 1
          /\ \A i \in 1..Len(ops') : ops'[i] = ops[i + 1]
      BY <2>2, Queue
    <3> QED
      BY <1>1, <3>1
  <2> QED
    BY <2>1, <2>2
<1>3. \A j \in 1..Len(ops) : ops[j].kind = "tick" => ops[j].generation \in Nat /\ ops[j].generation <= generation
  BY <1>1, OpFields DEF LoopInv
<1>4. \A i \in 1..Len(ops') :
        ops'[i].kind = "tick" => ops'[i].generation \in Nat /\ ops'[i].generation <= generation
  BY <1>2, <1>3
<1> QED
  BY <1>1, <1>4 DEF LiveTicks

(* A live tick at the head. *)
LEMMA HeadIsLive ==
  ASSUME TypeOK, ops # <<>>
  PROVE  1 \in LiveTicks <=> Op.kind = "tick" /\ Op.generation = generation
BY Queue DEF LiveTicks

Closed == session = NoSession \/ TearingDown

(* The loop as an operation finds and leaves it. *)
LEMMA LoopKept ==
  ASSUME LoopInv, ChainInv, UNCHANGED <<ops, timers, generation>>, Closed' <=> Closed
  PROVE  LoopInv' /\ ChainInv'
<1>1. LiveTicks' = LiveTicks
  BY DEF LiveTicks
<1> QED
  BY <1>1 DEF LoopInv, ChainInv, Closed

(* An operation ends, and the tick that was alive polls again. *)
LEMMA LoopResumed ==
  ASSUME TypeOK, LoopInv, ChainInv, ops # <<>>, FinishAs, ~TearingDown, UNCHANGED <<session, generation>>
  PROVE  LoopInv' /\ ChainInv'
<1>1. ops' = Tail(ops) /\ ~TearingDown'
  BY DEF FinishAs, Finish, TearingDown, Idle
<1>2. /\ \A i \in 1..Len(ops') : ops'[i].kind = "tick" => ops'[i].generation <= generation'
      /\ \A i, j \in LiveTicks' : i = j
      /\ 1 \in LiveTicks => LiveTicks' = {}
      /\ 1 \notin LiveTicks => (LiveTicks' = {} <=> LiveTicks = {})
  BY <1>1, TicksBehind
<1>3. CASE 1 \in LiveTicks
  <2>1. session # NoSession /\ timers = {}
    BY <1>3 DEF ChainInv
  <2>2. timers' = {generation} /\ LiveTicks' = {}
    BY <1>2, <1>3, <2>1, HeadIsLive DEF FinishAs, Reschedule
  <2> QED
    BY <1>1, <1>2, <2>1, <2>2 DEF LoopInv, ChainInv
<1>4. CASE 1 \notin LiveTicks
  <2>1. timers' = timers
    BY <1>4, HeadIsLive DEF FinishAs, Reschedule
  <2> QED
    BY <1>1, <1>2, <1>4, <2>1 DEF LoopInv, ChainInv
<1> QED
  BY <1>3, <1>4

(* The session closes, and its loop with it. *)
LEMMA LoopStopped ==
  ASSUME TypeOK, LoopInv, StopLoop, ops' = ops \/ (ops # <<>> /\ ops' = Tail(ops)), Closed'
  PROVE  LoopInv' /\ ChainInv'
<1>1. timers' = {}
  BY DEF StopLoop, LoopInv
<1> QED
  BY <1>1, Superseded DEF StopLoop, LoopInv, ChainInv, Closed

(* The session begins, and its loop with it. *)
LEMMA LoopStarted ==
  ASSUME TypeOK, LoopInv, ops # <<>>, NEW resume, Install(resume), Op \in Ops, Op.kind = "start"
  PROVE  LoopInv' /\ ChainInv'
<1>1. timers' = {generation'} /\ ops' = Tail(ops) /\ generation' = generation + 1
  BY DEF Install, StartLoop, Finish, LoopInv
<1>2. ~Closed'
  <2>1. session' \in [book : Book, speaker : Speaker]
    BY OpFields DEF Install
  <2> QED
    BY <2>1, PlaybackAssumption DEF Install, Finish, Closed, TearingDown, Idle
<1> QED
  BY <1>1, <1>2, Superseded DEF LoopInv, ChainInv, Closed

LEMMA LoopStep ==
  TypeOK /\ RunInv /\ LoopInv /\ ChainInv /\ [Next]_vars => LoopInv' /\ ChainInv'
<1> SUFFICES ASSUME TypeOK, RunInv, LoopInv, ChainInv, [Next]_vars
             PROVE  LoopInv' /\ ChainInv'
  OBVIOUS
<1>r. DOMAIN run = {"at", "source", "phase", "pos", "resume"}
  BY DEF TypeOK, Run
<1>q. ops # <<>> => Op \in Ops
  BY Queue
(* An operation that is no tick, and has no session to close, ends. *)
<1>f. ASSUME ops # <<>>, Op.kind # "tick", Finish, ~TearingDown, UNCHANGED <<session, generation, timers>>
      PROVE  LoopInv' /\ ChainInv'
  BY <1>f, LoopResumed DEF FinishAs
<1>1. CASE Asked
  <2>1. PICK op \in Ops : op.kind # "tick" /\ Ask(op)
    BY <1>1 DEF Asked, Ops
  <2>2. LiveTicks' = LiveTicks
    BY <2>1, Queued DEF Ask, LiveTicks, TypeOK
  <2>3. \A i \in 1..Len(ops') : ops'[i].kind = "tick" => ops'[i].generation <= generation'
    BY <2>1, Queued DEF Ask, LoopInv, TypeOK
  <2> QED
    BY <2>1, <2>2, <2>3 DEF Ask, LoopInv, ChainInv, TearingDown
<1>2. CASE Fire
  <2>1. /\ timers = {generation} /\ timers' = {}
        /\ ops' = Append(ops, [kind |-> "tick", generation |-> generation])
        /\ UNCHANGED <<session, generation, run>>
    BY <1>2 DEF Fire, LoopInv
  <2>2. ~Closed /\ LiveTicks = {}
    BY <2>1 DEF ChainInv, Closed
  <2>3. [kind |-> "tick", generation |-> generation] \in Ops /\ generation \in Nat
    BY DEF Ops, TypeOK
  <2>4. LiveTicks' = {Len(ops) + 1}
    BY <2>1, <2>2, <2>3, Queued DEF LiveTicks, TypeOK
  <2>5. \A i \in 1..Len(ops') : ops'[i].kind = "tick" => ops'[i].generation <= generation'
    BY <2>1, <2>3, Queued DEF LoopInv, TypeOK
  <2> QED
    BY <2>1, <2>2, <2>4, <2>5 DEF LoopInv, ChainInv, Closed, TearingDown
<1>3. CASE NothingToActOn
  BY <1>3, LoopResumed DEF NothingToActOn, TearingDown
<1>4. CASE StartBegins
  <2>1. ops # <<>> /\ Op.kind = "start" /\ run.at = "waiting" /\ UNCHANGED <<session, generation, timers>>
    BY <1>4 DEF StartBegins, Running
  <2>2. CASE Finish
    BY <2>1, <2>2, <1>f DEF TearingDown
  <2>3. CASE ~Finish
    <3>1. UNCHANGED ops /\ run'.at \in {"play", "read"}
      BY <1>4, <2>3 DEF StartBegins, Idle
    <3> QED
      BY <2>1, <3>1, LoopKept DEF Closed, TearingDown
  <2> QED
    BY <2>2, <2>3
<1>5. CASE ReadBegins
  BY <1>5, LoopKept DEF ReadBegins, Running, Closed, TearingDown, Idle
<1>6. CASE PauseBegins \/ SeekBegins
  <2>1. /\ ops # <<>> /\ Op.kind \in {"pause", "seek"} /\ run.at = "waiting"
        /\ UNCHANGED <<session, generation, timers>>
    BY <1>6 DEF PauseBegins, SeekBegins, Running
  <2>2. CASE Finish
    BY <2>1, <2>2, <1>f DEF TearingDown
  <2>3. CASE ~Finish
    <3>1. UNCHANGED ops /\ run'.at \in {"read", "write"}
      BY <1>6, <2>3 DEF PauseBegins, SeekBegins, Idle
    <3> QED
      BY <2>1, <3>1, LoopKept DEF Closed, TearingDown
  <2> QED
    BY <2>2, <2>3
<1>7. CASE ResumeRuns
  BY <1>7, <1>f DEF ResumeRuns, Running, TearingDown
<1>8. CASE ReadPosition \/ ReadState
  <2>1. /\ run.at = "read" /\ run'.at = "read"
        /\ UNCHANGED <<session, ops, generation, timers>>
    BY <1>8, <1>r DEF ReadPosition, ReadState
  <2> QED
    BY <2>1, LoopKept DEF Closed, TearingDown
<1>9. CASE ReadFails
  <2>1. ops # <<>> /\ run.at = "read" /\ UNCHANGED session
    BY <1>9 DEF ReadFails, RunInv
  <2>2. CASE Op.kind \in {"start", "stop"}
    <3>1. StopLoop /\ UNCHANGED ops /\ run'.at = "stop"
      BY <1>9, <2>2 DEF ReadFails, Idle
    <3>2. Closed'
      BY <3>1 DEF Closed, TearingDown
    <3> QED
      BY <3>1, <3>2, LoopStopped
  <2>3. CASE Op.kind \notin {"start", "stop"}
    BY <1>9, <2>1, <2>3, LoopResumed DEF ReadFails, TearingDown
  <2> QED
    BY <2>2, <2>3
<1>10. CASE PauseHasRead
  <2>1. /\ run.at = "read" /\ run'.at = "write" /\ UNCHANGED <<session, ops, generation, timers>>
    BY <1>10, GoesOn DEF PauseHasRead, HasRead
  <2> QED
    BY <2>1, LoopKept DEF Closed, TearingDown
<1>11. CASE Teardown \/ TickFinalizes
  <2>1. StopLoop /\ UNCHANGED ops /\ run'.at \in {"last write", "stop"}
    BY <1>11, GoesOn DEF Teardown, TickFinalizes
  <2>2. Closed'
    BY <2>1 DEF Closed, TearingDown
  <2> QED
    BY <2>1, <2>2, LoopStopped
<1>12. CASE Relinquish
  BY <1>12, LoopStopped DEF Relinquish, HasRead, RunInv, Finish, Closed
<1>13. CASE TickHasRead
  <2>1. ops # <<>> /\ run.at = "read" /\ UNCHANGED <<session, generation>>
    BY <1>13 DEF TickHasRead, HasRead, RunInv
  <2>2. CASE Moved
    <3>1. run'.at = "write" /\ UNCHANGED <<ops, timers>>
      BY <1>13, <2>2, GoesOn DEF TickHasRead
    <3> QED
      BY <2>1, <3>1, LoopKept DEF Closed, TearingDown
  <2>3. CASE ~Moved
    BY <1>13, <2>1, <2>3, LoopResumed DEF TickHasRead, TearingDown
  <2> QED
    BY <2>2, <2>3
<1>14. CASE WriteBack
  BY <1>14, LoopResumed DEF WriteBack, RunInv, TearingDown
<1>15. CASE LastWrite
  BY <1>15, LoopKept DEF LastWrite, Closed, TearingDown, Idle
<1>16. CASE StopSpeaker
  <2>1. /\ ops # <<>> /\ Closed /\ Closed' /\ UNCHANGED <<generation, timers>>
        /\ timers = {} /\ LiveTicks = {}
    BY <1>16 DEF StopSpeaker, RunInv, ChainInv, Closed, TearingDown
  <2>2. CASE Op.kind = "start"
    BY <1>16, <2>1, <2>2, LoopKept DEF StopSpeaker
  <2>3. CASE Op.kind # "start"
    <3>1. ops' = Tail(ops)
      BY <1>16, <2>3 DEF StopSpeaker, Finish
    <3>2. /\ \A i \in 1..Len(ops') : ops'[i].kind = "tick" => ops'[i].generation <= generation'
          /\ LiveTicks' = {}
      BY <2>1, <3>1, TicksBehind
    <3> QED
      BY <2>1, <3>2 DEF LoopInv, ChainInv, Closed
  <2> QED
    BY <2>2, <2>3
<1>17. CASE PlayStarts
  <2>1. ops # <<>> /\ Op \in Ops /\ Op.kind = "start" /\ run.at = "play"
    BY <1>17, <1>q DEF PlayStarts, Running
  <2>2. CASE run.resume = 0
    BY <1>17, <2>1, <2>2, LoopStarted DEF PlayStarts
  <2>3. CASE run.resume # 0
    <3>1. run'.at = "seek" /\ UNCHANGED <<session, ops, generation, timers>>
      BY <1>17, <2>3, <1>r DEF PlayStarts
    <3> QED
      BY <2>1, <3>1, LoopKept DEF Closed, TearingDown
  <2> QED
    BY <2>2, <2>3
<1>18. CASE PlayFails \/ ResumeFails
  BY <1>18, <1>f DEF PlayFails, ResumeFails, Running, TearingDown
<1>19. CASE ResumeSought
  BY <1>19, <1>q, LoopStarted DEF ResumeSought, Running
<1>20. CASE Household
  BY <1>20, LoopKept DEF Household, Closed, TearingDown
<1>21. CASE Restart
  BY <1>21 DEF Restart, LoopInv, ChainInv, LiveTicks
<1>22. CASE UNCHANGED vars
  BY <1>22, LoopKept DEF vars, Closed, TearingDown
<1> QED
  BY <1>1, <1>2, <1>3, <1>4, <1>5, <1>6, <1>7, <1>8, <1>9, <1>10, <1>11, <1>12, <1>13, <1>14, <1>15, <1>16,
     <1>17, <1>18, <1>19, <1>20, <1>21, <1>22
     DEF Next, OpStep, Begins, Reads, Writes, Drives

-----------------------------------------------------------------------------
(* The speakers.                                                           *)

(* Nothing of ours comes to a speaker that has something else. *)
SourceFades(s) ==
  speakers'[s].source = speakers[s].source \/ speakers'[s].source \in {Foreign, Cleared}

(* A step that brings no book to a speaker, begins no session and has read *)
(* nothing.                                                                *)
LEMMA SourcesKept ==
  ASSUME TypeOK, RunInv, SpeakerInv, UNCHANGED session, \A s \in Speaker : SourceFades(s),
         run'.at = "seek" => run.at = "seek" /\ Op' = Op,
         run'.at = "read" => run'.source = "unread" \/ (run.at = "read" /\ run'.source = run.source)
  PROVE  SpeakerInv'
<1>1. {Foreign, Cleared} \cap Book = {}
  BY PlaybackAssumption
<1>2. session # NoSession => speakers'[session.speaker].source \in {session.book, Foreign, Cleared}
  BY SessionFields DEF SpeakerInv, SourceFades
<1>3. run'.at = "seek" => speakers'[Op'.speaker].source \in {Op'.book, Foreign, Cleared}
  <2> SUFFICES ASSUME run'.at = "seek"
               PROVE  speakers'[Op'.speaker].source \in {Op'.book, Foreign, Cleared}
    OBVIOUS
  <2>1. Op.speaker \in Speaker /\ Op' = Op /\ run.at = "seek"
    BY Queue, OpFields DEF RunInv
  <2> QED
    BY <2>1 DEF SpeakerInv, SourceFades
<1>4. run'.at = "read" /\ run'.source \notin {"unread", session'.book}
        => speakers'[session'.speaker].source \notin Book
  BY <1>1, SessionFields DEF SpeakerInv, SourceFades, RunInv
<1> QED
  BY <1>2, <1>3, <1>4 DEF SpeakerInv

(* The session ends. *)
LEMMA NoSpeaker ==
  ASSUME session' = NoSession, run'.at \notin {"seek", "read"}
  PROVE  SpeakerInv'
BY DEF SpeakerInv

(* It begins, on a speaker that has its book or none of ours. *)
LEMMA SessionSpeaker ==
  ASSUME NEW resume, Install(resume), speakers'[Op.speaker].source \in {Op.book, Foreign, Cleared}
  PROVE  SpeakerInv'
BY DEF Install, Finish, Idle, SpeakerInv

LEMMA HouseholdFades ==
  ASSUME TypeOK, Household
  PROVE  \A s \in Speaker : SourceFades(s)
<1>1. PICK s \in Speaker : BookPlaysOn(s) \/ FallsSilent(s) \/ PressPlay(s) \/ TakeOver(s)
  BY DEF Household
<1> QED
  BY <1>1 DEF BookPlaysOn, FallsSilent, PressPlay, TakeOver, SourceFades, TypeOK

LEMMA SpeakerStep == TypeOK /\ RunInv /\ SpeakerInv /\ [Next]_vars => SpeakerInv'
<1> SUFFICES ASSUME TypeOK, RunInv, SpeakerInv, [Next]_vars
             PROVE  SpeakerInv'
  OBVIOUS
<1>r. DOMAIN run = {"at", "source", "phase", "pos", "resume"}
  BY DEF TypeOK, Run
<1>i. Idle.at = "waiting"
  BY DEF Idle
<1>u. UNCHANGED speakers => \A s \in Speaker : SourceFades(s)
  BY DEF SourceFades
<1>c. ASSUME NEW phase, session # NoSession, Command(session.speaker, phase)
      PROVE  \A s \in Speaker : SourceFades(s)
  BY <1>c DEF Command, SourceFades, TypeOK
<1>q. run.at # "waiting" => Op \in Ops
  BY Queue DEF RunInv
<1>1. CASE Asked \/ Fire
  <2>1. UNCHANGED <<session, run, speakers>>
    BY <1>1 DEF Asked, Ask, Fire
  <2>2. run.at # "waiting" => Op' = Op
    <3>1. CASE Asked
      <4>1. PICK op \in Ops : Ask(op)
        BY <3>1 DEF Asked, Ops
      <4> QED
        BY <4>1, Queued DEF Ask, RunInv
    <3>2. CASE Fire
      <4>1. PICK g \in timers : ops' = IF g = generation THEN Append(ops, [kind |-> "tick", generation |-> g])
                                        ELSE ops
        BY <3>2 DEF Fire
      <4>2. [kind |-> "tick", generation |-> g] \in Ops
        BY DEF Ops, TypeOK
      <4> QED
        BY <4>1, <4>2, Queued DEF RunInv, Op
    <3> QED
      BY <1>1, <3>1, <3>2
  <2> QED
    BY <2>1, <2>2, <1>u, SourcesKept
<1>2. CASE NothingToActOn
  BY <1>2, <1>u, <1>i, SourcesKept DEF NothingToActOn, FinishAs, Finish
<1>3. CASE StartBegins \/ ReadBegins
  <2>1. UNCHANGED <<session, speakers>> /\ run'.at # "seek" /\ run'.source = "unread"
    <3>1. CASE StartBegins
      <4>1. CASE run' = Idle
        BY <3>1, <4>1 DEF StartBegins, Idle
      <4>2. CASE run' # Idle
        BY <3>1, <4>2 DEF StartBegins, Finish, Idle
      <4> QED
        BY <4>1, <4>2
    <3>2. CASE ReadBegins
      BY <3>2 DEF ReadBegins, Idle
    <3> QED
      BY <1>3, <3>1, <3>2
  <2> QED
    BY <2>1, <1>u, SourcesKept
<1>4. CASE PauseBegins \/ ResumeRuns
  <2>1. UNCHANGED session /\ run'.at # "seek" /\ run'.source = "unread"
    BY <1>4 DEF PauseBegins, ResumeRuns, Finish, Idle
  <2>2. \A s \in Speaker : SourceFades(s)
    BY <1>4, <1>c, <1>u DEF PauseBegins, ResumeRuns
  <2> QED
    BY <2>1, <2>2, SourcesKept
<1>5. CASE SeekBegins
  <2>1. UNCHANGED session /\ run'.at \notin {"seek", "read"}
    <3>1. CASE run' = Idle
      BY <1>5, <3>1, <1>i DEF SeekBegins
    <3>2. CASE run' # Idle
      BY <1>5, <3>2 DEF SeekBegins, Finish, Idle
    <3> QED
      BY <3>1, <3>2
  <2>2. \A s \in Speaker : SourceFades(s)
    <3>1. speakers \in Speakers
      BY DEF TypeOK, Speakers
    <3>2. \A s \in Speaker : speakers'[s].source = speakers[s].source
      BY <1>5, <3>1 DEF SeekBegins, Speakers
    <3> QED
      BY <3>2 DEF SourceFades
  <2> QED
    BY <2>1, <2>2, SourcesKept
<1>6. CASE ReadPosition
  <2>1. /\ UNCHANGED <<session, speakers>> /\ session # NoSession
        /\ run'.at = "read" /\ run'.source = speakers[session.speaker].source
    BY <1>6, <1>r DEF ReadPosition, RunInv
  <2>2. run'.source \notin {"unread", session.book} => speakers[session.speaker].source \notin Book
    BY <2>1, PlaybackAssumption DEF SpeakerInv
  <2> QED
    BY <2>1, <2>2 DEF SpeakerInv
<1>7. CASE ReadState
  BY <1>7, <1>r, <1>u, SourcesKept DEF ReadState
<1>8. CASE ReadFails
  <2>1. UNCHANGED <<session, speakers>> /\ run'.at \notin {"seek", "read"}
    <3>1. CASE run' = Idle
      BY <1>8, <3>1, <1>i DEF ReadFails
    <3>2. CASE run' # Idle
      BY <1>8, <3>2 DEF ReadFails, FinishAs, Finish, Idle
    <3> QED
      BY <3>1, <3>2
  <2> QED
    BY <2>1, <1>u, SourcesKept
<1>9. CASE PauseHasRead \/ Teardown \/ TickFinalizes
  <2>1. UNCHANGED <<session, speakers>> /\ run'.at \notin {"seek", "read"}
    <3>1. PICK at \in {"write", "last write", "stop"} : GoesOnTo(at)
      BY <1>9 DEF PauseHasRead, Teardown, TickFinalizes
    <3>2. run'.at = at
      BY <3>1, GoesOn
    <3> QED
      BY <1>9, <3>2 DEF PauseHasRead, Teardown, TickFinalizes
  <2> QED
    BY <2>1, <1>u, SourcesKept
<1>10. CASE Relinquish
  BY <1>10, <1>i, NoSpeaker DEF Relinquish, Finish
<1>11. CASE TickHasRead
  <2>1. UNCHANGED <<session, speakers>> /\ run'.at \notin {"seek", "read"}
    BY <1>11, <1>i, GoesOn DEF TickHasRead, FinishAs, Finish
  <2> QED
    BY <2>1, <1>u, SourcesKept
<1>12. CASE WriteBack \/ LastWrite
  <2>1. UNCHANGED <<session, speakers>> /\ run'.at \notin {"seek", "read"}
    <3>1. CASE WriteBack
      BY <3>1, <1>i DEF WriteBack, FinishAs, Finish
    <3>2. CASE LastWrite
      BY <3>2 DEF LastWrite, Idle
    <3> QED
      BY <1>12, <3>1, <3>2
  <2> QED
    BY <2>1, <1>u, SourcesKept
<1>13. CASE StopSpeaker
  BY <1>13, <1>r, <1>i, NoSpeaker DEF StopSpeaker, Finish
<1>14. CASE PlayStarts
  <2>1. Op.speaker \in Speaker /\ session = NoSession
    BY <1>14, <1>q, OpFields DEF PlayStarts, Running, RunInv
  <2>2. speakers'[Op.speaker].source = Op.book
    BY <1>14, <2>1 DEF PlayStarts, TypeOK
  <2>3. CASE run.resume = 0
    BY <1>14, <2>2, <2>3, SessionSpeaker DEF PlayStarts
  <2>4. CASE run.resume # 0
    <3>1. run'.at = "seek" /\ UNCHANGED <<session, ops>>
      BY <1>14, <2>4, <1>r DEF PlayStarts
    <3> QED
      BY <2>1, <2>2, <3>1 DEF SpeakerInv, Op
  <2> QED
    BY <2>3, <2>4
<1>15. CASE PlayFails \/ ResumeFails
  <2>1. session' = NoSession /\ run' = Idle
    BY <1>15 DEF PlayFails, ResumeFails, Running, RunInv, Finish
  <2> QED
    BY <2>1, <1>i, NoSpeaker
<1>16. CASE ResumeSought
  <2>1. run.at = "seek" /\ Install(run.resume)
    BY <1>16 DEF ResumeSought, Running
  <2>2. speakers'[Op.speaker].source = speakers[Op.speaker].source
    BY <1>16 DEF ResumeSought, TypeOK
  <2> QED
    BY <2>1, <2>2, SessionSpeaker DEF SpeakerInv
<1>17. CASE Household
  <2>1. UNCHANGED <<session, run, ops>>
    BY <1>17 DEF Household
  <2> QED
    BY <1>17, <2>1, HouseholdFades, SourcesKept DEF Op
<1>18. CASE Restart
  BY <1>18, <1>i, NoSpeaker DEF Restart
<1>19. CASE UNCHANGED vars
  BY <1>19, <1>u, SourcesKept DEF vars, Op
<1> QED
  BY <1>1, <1>2, <1>3, <1>4, <1>5, <1>6, <1>7, <1>8, <1>9, <1>10, <1>11, <1>12, <1>13, <1>14, <1>15, <1>16,
     <1>17, <1>18, <1>19
     DEF Next, OpStep, Begins, Reads, Writes, Drives

-----------------------------------------------------------------------------
(* No speaker is orphaned.                                                  *)

(* A step under which no speaker takes up a book, and none is let go. *)
LEMMA NoneOrphaned ==
  ASSUME NoOrphanedSpeaker, UNCHANGED session,
         \A s \in Speaker : Plays(s)' => Plays(s) /\ (s \in orphaned => s \in orphaned'),
         run.at = "seek" => run'.at = "seek" /\ ops' # <<>> /\ Op' = Op
  PROVE  NoOrphanedSpeaker'
BY DEF NoOrphanedSpeaker

LEMMA OrphanStep ==
  TypeOK /\ RunInv /\ SpeakerInv /\ NoOrphanedSpeaker /\ [Next]_vars => NoOrphanedSpeaker'
<1> SUFFICES ASSUME TypeOK, RunInv, SpeakerInv, NoOrphanedSpeaker, [Next]_vars
             PROVE  NoOrphanedSpeaker'
  OBVIOUS
<1>b. Foreign \notin Book /\ Cleared \notin Book
  BY PlaybackAssumption
<1>r. DOMAIN run = {"at", "source", "phase", "pos", "resume"}
  BY DEF TypeOK, Run
<1>t. speakers \in Speakers
  BY DEF TypeOK, Speakers
<1>q. run.at # "waiting" => Op \in Ops
  BY Queue DEF RunInv
(* A step that leaves the session and the speakers alone. *)
<1>u. ASSUME UNCHANGED <<session, speakers, orphaned>>, run.at # "seek"
      PROVE  NoOrphanedSpeaker'
  BY <1>u, NoneOrphaned DEF Plays
(* Where there is no session and no seek to resume, what plays is orphaned. *)
<1>o. ASSUME NEW s \in Speaker, Plays(s), run.at # "seek"
      PROVE  s \in orphaned \/ (session # NoSession /\ session.speaker = s)
  BY <1>o DEF NoOrphanedSpeaker
<1>1. CASE Asked \/ Fire
  <2>1. UNCHANGED <<session, run, speakers, orphaned>>
    BY <1>1 DEF Asked, Ask, Fire
  <2>2. run.at # "waiting" => ops' # <<>> /\ Op' = Op
    <3>1. CASE Asked
      <4>1. PICK op \in Ops : Ask(op)
        BY <3>1 DEF Asked, Ops
      <4> QED
        BY <4>1, Queued DEF Ask, RunInv
    <3>2. CASE Fire
      <4>1. PICK g \in timers : ops' = IF g = generation THEN Append(ops, [kind |-> "tick", generation |-> g])
                                        ELSE ops
        BY <3>2 DEF Fire
      <4>2. [kind |-> "tick", generation |-> g] \in Ops
        BY DEF Ops, TypeOK
      <4> QED
        BY <4>1, <4>2, Queued DEF RunInv, Op
    <3> QED
      BY <1>1, <3>1, <3>2
  <2> QED
    BY <2>1, <2>2, NoneOrphaned DEF Plays
<1>2. CASE NothingToActOn \/ StartBegins \/ ReadBegins
  BY <1>2, <1>u DEF NothingToActOn, StartBegins, ReadBegins, Running
<1>c. ASSUME NEW phase, session # NoSession, Command(session.speaker, phase) \/ UNCHANGED speakers,
             run.at = "waiting", UNCHANGED <<session, orphaned>>
      PROVE  NoOrphanedSpeaker'
  <2> SUFFICES ASSUME NEW s \in Speaker, Plays(s)', s # session.speaker
               PROVE  s \in orphaned'
    BY <1>c DEF NoOrphanedSpeaker
  <2>1. speakers'[s] = speakers[s]
    BY <1>c, <1>t DEF Command, Speakers
  <2> QED
    BY <1>c, <1>o, <2>1 DEF Plays
<1>3. CASE PauseBegins
  BY <1>3, <1>c DEF PauseBegins, Running
<1>4. CASE ResumeRuns
  BY <1>4, <1>c DEF ResumeRuns, Running
<1>5. CASE SeekBegins
  <2>1. /\ UNCHANGED <<session, orphaned>> /\ run.at = "waiting"
        /\ \/ speakers' = [speakers EXCEPT ![session.speaker].pos = Op.target]
           \/ UNCHANGED speakers
    BY <1>5 DEF SeekBegins, Running
  <2>2. \A s \in Speaker : Plays(s)' => Plays(s)
    BY <2>1, <1>t DEF Plays, Speakers
  <2> QED
    BY <2>1, <2>2, NoneOrphaned
<1>6. CASE ReadPosition \/ ReadState \/ ReadFails
  BY <1>6, <1>u DEF ReadPosition, ReadState, ReadFails
<1>7. CASE PauseHasRead \/ Teardown \/ TickFinalizes \/ TickHasRead
  BY <1>7, <1>u DEF PauseHasRead, Teardown, TickFinalizes, TickHasRead, HasRead
<1>8. CASE Relinquish
  <2>1. /\ run.at = "read" /\ run.source \notin {"unread", session.book}
        /\ session # NoSession /\ UNCHANGED <<speakers, orphaned>>
    BY <1>8 DEF Relinquish, HasRead, IsOurTrack, RunInv
  <2>2. ~Plays(session.speaker)
    BY <2>1 DEF SpeakerInv, Plays
  <2>3. ASSUME NEW s \in Speaker, Plays(s)'
        PROVE  s \in orphaned'
    BY <2>1, <2>2, <2>3, <1>o DEF Plays
  <2> QED
    BY <2>3 DEF NoOrphanedSpeaker
<1>9. CASE WriteBack \/ LastWrite
  BY <1>9, <1>u DEF WriteBack, LastWrite
<1>10. CASE StopSpeaker
  <2> SUFFICES ASSUME NEW s \in Speaker, Plays(s)'
               PROVE  s \in orphaned'
    BY DEF NoOrphanedSpeaker
  <2>1. run.at = "stop" /\ session.speaker \in Speaker
    BY <1>10, SessionFields DEF StopSpeaker, RunInv, TearingDown
  <2>2. CASE s = session.speaker
    <3>1. ~(speakers' = [speakers EXCEPT ![session.speaker].phase = "stopped"])
      BY <1>t, <2>1, <2>2 DEF Plays, Speakers
    <3> QED
      BY <1>10, <2>2, <3>1 DEF StopSpeaker
  <2>3. CASE s # session.speaker
    <3>1. speakers'[s] = speakers[s]
      BY <1>10, <1>t, <2>3 DEF StopSpeaker, Speakers
    <3> QED
      BY <1>10, <1>o, <2>1, <2>3, <3>1 DEF StopSpeaker, Plays
  <2> QED
    BY <2>2, <2>3
<1>11. CASE PlayStarts
  <2>1. /\ Op.speaker \in Speaker /\ session = NoSession /\ run.at = "play" /\ ops # <<>>
        /\ Op.kind = "start"
    BY <1>11, <1>q, OpFields DEF PlayStarts, Running, RunInv
  <2>2. \A s \in Speaker \ {Op.speaker} : speakers'[s] = speakers[s]
    BY <1>11, <1>t DEF PlayStarts, Speakers
  <2>3. \A s \in Speaker \ {Op.speaker} : Plays(s)' => s \in orphaned'
    BY <1>11, <1>o, <2>1, <2>2 DEF PlayStarts, Plays, Install
  <2>4. CASE run.resume = 0
    <3>1. session' = [book |-> Op.book, speaker |-> Op.speaker]
      BY <1>11, <2>4 DEF PlayStarts, Install
    <3>2. session' # NoSession /\ session'.speaker = Op.speaker
      BY <1>11, <3>1, <1>q, OpFields, PlaybackAssumption DEF PlayStarts, Running
    <3> QED
      BY <2>3, <3>2 DEF NoOrphanedSpeaker
  <2>5. CASE run.resume # 0
    <3>1. run'.at = "seek" /\ UNCHANGED ops
      BY <1>11, <2>5, <1>r DEF PlayStarts
    <3> QED
      BY <2>1, <2>3, <3>1 DEF NoOrphanedSpeaker, Op
  <2> QED
    BY <2>4, <2>5
<1>12. CASE PlayFails
  <2> SUFFICES ASSUME NEW s \in Speaker, Plays(s)'
               PROVE  s \in orphaned'
    BY DEF NoOrphanedSpeaker
  <2>1. session = NoSession /\ run.at = "play"
    BY <1>12 DEF PlayFails, Running, RunInv
  <2>2. CASE s # Op.speaker \/ speakers' = speakers
    <3>1. speakers'[s] = speakers[s] /\ orphaned \subseteq orphaned'
      BY <1>12, <1>t, <2>2 DEF PlayFails, Speakers
    <3> QED
      BY <1>o, <2>1, <3>1 DEF Plays
  <2>3. CASE s = Op.speaker /\ speakers' # speakers
    <3>1. ~(speakers' = [speakers EXCEPT ![Op.speaker] = [source |-> Cleared, pos |-> 0, phase |-> "stopped"]])
      BY <1>b, <1>t, <2>3 DEF Plays, Speakers
    <3> QED
      BY <1>12, <2>3, <3>1 DEF PlayFails
  <2> QED
    BY <2>2, <2>3
<1>13. CASE ResumeSought
  <2>1. /\ session' = [book |-> Op.book, speaker |-> Op.speaker]
        /\ orphaned' = orphaned \ {Op.speaker}
        /\ session = NoSession
    BY <1>13 DEF ResumeSought, Install, Running, RunInv
  <2>2. session' # NoSession /\ session'.speaker = Op.speaker
    BY <1>13, <2>1, <1>q, OpFields, PlaybackAssumption DEF ResumeSought, Running
  <2>3. ASSUME NEW s \in Speaker \ {Op.speaker}, Plays(s)'
        PROVE  s \in orphaned'
    <3>1. speakers'[s] = speakers[s]
      BY <1>13, <1>t DEF ResumeSought, Speakers
    <3> QED
      BY <2>1, <2>3, <3>1 DEF NoOrphanedSpeaker, Plays
  <2> QED
    BY <2>2, <2>3 DEF NoOrphanedSpeaker
<1>14. CASE ResumeFails
  <2>1. session = NoSession /\ orphaned' = orphaned \cup {Op.speaker} /\ UNCHANGED speakers
    BY <1>14 DEF ResumeFails, Running, RunInv
  <2> QED
    BY <2>1 DEF NoOrphanedSpeaker, Plays
<1>15. CASE Household
  <2>1. UNCHANGED <<session, run, ops>>
    BY <1>15 DEF Household
  <2>o. run.at = "seek" => run'.at = "seek" /\ ops' # <<>> /\ Op' = Op
    BY <2>1 DEF RunInv, Op
  <2>2. PICK p \in Speaker : BookPlaysOn(p) \/ FallsSilent(p) \/ PressPlay(p) \/ TakeOver(p)
    BY <1>15 DEF Household
  <2>3. \A s \in Speaker \ {p} : speakers'[s] = speakers[s] /\ (s \in orphaned => s \in orphaned')
    BY <1>t, <2>2 DEF BookPlaysOn, FallsSilent, PressPlay, TakeOver, Speakers
  <2>4. CASE PressPlay(p)
    <3>1. (session # NoSession /\ session.speaker = p) \/ p \in orphaned'
      BY <2>4 DEF PressPlay
    <3> QED
      BY <2>1, <2>3, <3>1 DEF NoOrphanedSpeaker, Plays, Op
  <2>5. CASE BookPlaysOn(p)
    <3>1. Plays(p) /\ (p \in orphaned => p \in orphaned')
      BY <2>5 DEF BookPlaysOn
    <3> QED
      BY <2>o, <2>1, <2>3, <3>1, NoneOrphaned DEF Plays
  <2>6. CASE FallsSilent(p) \/ TakeOver(p)
    <3>1. ~Plays(p)'
      BY <1>b, <1>t, <2>6 DEF FallsSilent, TakeOver, Plays, Speakers
    <3> QED
      BY <2>o, <2>1, <2>3, <3>1, NoneOrphaned DEF Plays
  <2> QED
    BY <2>2, <2>4, <2>5, <2>6
<1>16. CASE Restart
  BY <1>16 DEF Restart, NoOrphanedSpeaker, Plays
<1>17. CASE UNCHANGED vars
  BY <1>17, NoneOrphaned DEF vars, Plays, Op, NoOrphanedSpeaker
<1> QED
  BY <1>1, <1>2, <1>3, <1>4, <1>5, <1>6, <1>7, <1>8, <1>9, <1>10, <1>11, <1>12, <1>13, <1>14, <1>15, <1>16,
     <1>17
     DEF Next, OpStep, Begins, Reads, Writes, Drives

-----------------------------------------------------------------------------
(* The invariant of every reachable state.                                  *)

LEMMA InitIInv == Init => IInv
<1> SUFFICES ASSUME Init
             PROVE  IInv
  OBVIOUS
<1> USE DEF Init
<1>1. Idle.at = "waiting"
  BY DEF Idle
<1>2. TypeOK
  <2>1. 0 \in Position
    BY PlaybackAssumption DEF Position
  <2>2. Idle \in Run
    BY <2>1 DEF Idle, Run
  <2> QED
    BY <2>1, <2>2 DEF TypeOK, Source, Phase
<1>3. RunInv /\ WritesOurTrack
  BY <1>1 DEF RunInv, WritesOurTrack, TearingDown
<1>4. LoopInv /\ ChainInv
  BY DEF LoopInv, ChainInv, LiveTicks
<1>5. SpeakerInv
  BY <1>1 DEF SpeakerInv
<1>6. NoOrphanedSpeaker
  BY DEF NoOrphanedSpeaker, Plays
<1> QED
  BY <1>2, <1>3, <1>4, <1>5, <1>6 DEF IInv

LEMMA NextIInv == IInv /\ [Next]_vars => IInv'
BY TypeStep, RunStep, LoopStep, SpeakerStep, OrphanStep DEF IInv

(* Every reachable state satisfies the inductive invariant.                *)
THEOREM InductiveInvariant == Spec => []IInv
<1> QED
  BY InitIInv, NextIInv, PTL DEF Spec

(* The session, the chain of operations and the speakers have their types. *)
THEOREM TypeCorrect == Spec => []TypeOK
<1>1. IInv => TypeOK
  BY DEF IInv
<1> QED
  BY <1>1, InductiveInvariant, PTL

(* A session that is not closing has one poll chain, a timer or a tick in  *)
(* the queue, and otherwise there is none: neither a replaced start nor a  *)
(* stop, however it meets a tick, leaves a second one (loopGeneration).    *)
THEOREM OneChain == Spec => []OnePollChain
<1>1. IInv => OnePollChain
  <2> SUFFICES ASSUME IInv
               PROVE  OnePollChain
    OBVIOUS
  <2>1. Cardinality({}) = 0
    BY FS_EmptySet
  <2>2. \A x : Cardinality({x}) = 1
    BY FS_Singleton
  <2>3. CASE Closed
    <3>1. timers = {} /\ LiveTicks = {}
      BY <2>3 DEF IInv, ChainInv, Closed
    <3> QED
      BY <2>1, <2>3, <3>1 DEF OnePollChain, Closed
  <2>4. CASE ~Closed /\ timers = {}
    <3>1. LiveTicks # {} /\ \A i, j \in LiveTicks : i = j
      BY <2>4 DEF IInv, LoopInv, ChainInv, Closed
    <3>2. PICK i : LiveTicks = {i}
      BY <3>1
    <3> QED
      BY <2>1, <2>2, <2>4, <3>2 DEF OnePollChain, Closed
  <2>5. CASE ~Closed /\ timers # {}
    <3>1. timers = {generation} /\ LiveTicks = {}
      BY <2>5 DEF IInv, LoopInv, ChainInv, Closed
    <3>2. Cardinality(timers) = 1 /\ Cardinality(LiveTicks) = 0
      BY <2>1, <2>2, <3>1
    <3> QED
      BY <2>5, <3>2 DEF OnePollChain, Closed
  <2> QED
    BY <2>3, <2>4, <2>5
<1> QED
  BY <1>1, InductiveInvariant, PTL

(* A speaker plays a book of ours only with the session, or the start of   *)
(* one, on it, whatever concurrent starts, stops and ticks do to each      *)
(* other: otherwise a call failed, the household pressed play, or the      *)
(* process died.                                                           *)
THEOREM NoneLeftPlaying == Spec => []NoOrphanedSpeaker
<1>1. IInv => NoOrphanedSpeaker
  BY DEF IInv
<1> QED
  BY <1>1, InductiveInvariant, PTL

-----------------------------------------------------------------------------
(* What is written.                                                        *)

(* The steps that write. *)
LEMMA OnlyWritesChangeProgress ==
  ASSUME [Next]_vars, progress' # progress
  PROVE  WriteBack \/ LastWrite
BY DEF Next, OpStep, Begins, Reads, Writes, Drives, Asked, Ask, Fire, Household, Restart, vars,
   NothingToActOn, StartBegins, ReadBegins, PauseBegins, ResumeRuns, SeekBegins, ReadPosition, ReadState,
   ReadFails, PauseHasRead, Teardown, Relinquish, TickFinalizes, TickHasRead, StopSpeaker, PlayStarts,
   PlayFails, ResumeSought, ResumeFails

(* A tick and a teardown write a position they read while the speaker had  *)
(* the book it is written for ("writing would corrupt the book's progress  *)
(* with a foreign position", relinquish).                                  *)
THEOREM TheBooksPositions == Spec => LoopAndTeardownWriteTheBooksPositions
<1>1. IInv /\ [Next]_vars => [WritesWhatIsOurs({"start", "stop", "tick"})]_vars
  <2> SUFFICES ASSUME IInv, [Next]_vars, progress' # progress, Op.kind \in {"start", "stop", "tick"}
               PROVE  IsOurTrack
    BY DEF WritesWhatIsOurs
  <2>1. WriteBack \/ LastWrite
    BY OnlyWritesChangeProgress
  <2>2. run.at = "last write" \/ (run.at = "write" /\ Op.kind = "tick")
    BY <2>1 DEF WriteBack, LastWrite, IInv, RunInv
  <2> QED
    BY <2>2 DEF IInv, WritesOurTrack
<1> QED
  BY <1>1, InductiveInvariant, PTL DEF Spec, LoopAndTeardownWriteTheBooksPositions

-----------------------------------------------------------------------------
(* The refinement of PlaybackSession.                                      *)

BookBar == IF session = NoSession THEN NoSession ELSE session.book

PhaseBar ==
  IF session = NoSession THEN "none"
  ELSE IF run.at = "last write" THEN "closing"
  ELSE IF run.at = "stop" THEN "closed" ELSE "active"

(* The last record, or giving it up. *)
LEMMA LastWriteRefines ==
  ASSUME IInv, LastWrite
  PROVE  Promise!RecordLast
<1>1. session # NoSession /\ UNCHANGED session /\ run.at = "last write" /\ run'.at = "stop"
  BY DEF LastWrite, IInv, RunInv, TearingDown, Idle
<1>2. run.pos \in Position /\ Length \in Nat /\ Backoff \in Nat
  BY PlaybackAssumption DEF IInv, TypeOK, Run
<1>3. Larger(0, run.pos - Backoff) \in Position /\ Length \in Position
  BY <1>2 DEF Larger, Position
<1>4. \/ \E p \in Position, finished \in BOOLEAN :
           progress' = [progress EXCEPT ![session.book] = [pos |-> p, finished |-> finished]]
      \/ UNCHANGED progress
  BY <1>3 DEF LastWrite, StoreFinal, Store
<1> QED
  BY <1>1, <1>4 DEF Promise!RecordLast

LEMMA WriteBackRefines ==
  ASSUME IInv, WriteBack
  PROVE  Promise!Record \/ UNCHANGED <<BookBar, PhaseBar, progress>>
<1>1. session # NoSession /\ UNCHANGED session /\ run.at = "write" /\ run'.at = "waiting"
  BY DEF WriteBack, IInv, RunInv, FinishAs, Finish, Idle
<1>2. run.pos \in Position /\ Length \in Nat /\ Backoff \in Nat
  BY PlaybackAssumption DEF IInv, TypeOK, Run
<1>3. Larger(0, run.pos - Backoff) \in Position
  BY <1>2 DEF Larger, Position
<1>4. CASE UNCHANGED progress
  BY <1>1, <1>4 DEF BookBar, PhaseBar
<1>5. CASE \E p \in Position : progress' = [progress EXCEPT ![session.book] = [pos |-> p, finished |-> FALSE]]
  BY <1>1, <1>5 DEF Promise!Record
<1> QED
  BY <1>3, <1>4, <1>5 DEF WriteBack, Store

(* A step that records nothing, by what becomes of the session. *)
LEMMA SilentStep ==
  ASSUME UNCHANGED progress,
         \/ UNCHANGED <<BookBar, PhaseBar>>
         \/ session = NoSession /\ session' # NoSession /\ session'.book \in Book
               /\ run'.at \notin {"last write", "stop"}
         \/ session # NoSession /\ session' = NoSession
         \/ session # NoSession /\ UNCHANGED session
               /\ run.at \notin {"last write", "stop"} /\ run'.at \in {"last write", "stop"}
  PROVE  Promise!Next \/ UNCHANGED <<BookBar, PhaseBar, progress>>
<1>1. CASE session = NoSession /\ session' # NoSession /\ session'.book \in Book
             /\ run'.at \notin {"last write", "stop"}
  BY <1>1 DEF Promise!Next, Promise!Begin
<1>2. CASE session # NoSession /\ session' = NoSession
  BY <1>2 DEF Promise!Next, Promise!End
<1>3. CASE session # NoSession /\ UNCHANGED session
             /\ run.at \notin {"last write", "stop"} /\ run'.at \in {"last write", "stop"}
  BY <1>3 DEF Promise!Next, Promise!Close
<1> QED
  BY <1>1, <1>2, <1>3

LEMMA StepRefines == IInv /\ [Next]_vars => [Promise!Next]_(Promise!vars)
<1> SUFFICES ASSUME IInv, [Next]_vars
             PROVE  Promise!Next \/ UNCHANGED <<BookBar, PhaseBar, progress>>
  BY DEF Promise!vars, BookBar, PhaseBar
<1>r. DOMAIN run = {"at", "source", "phase", "pos", "resume"}
  BY DEF IInv, TypeOK, Run
<1>y. TypeOK /\ RunInv
  BY DEF IInv
<1>q. run.at # "waiting" => Op \in Ops
  BY <1>y, Queue DEF RunInv
<1>i. Idle.at = "waiting"
  BY DEF Idle
(* The session stays open. *)
<1>s. ASSUME UNCHANGED <<session, progress>>, run.at \notin {"last write", "stop"},
             run'.at \notin {"last write", "stop"}
      PROVE  UNCHANGED <<BookBar, PhaseBar, progress>>
  BY <1>s DEF BookBar, PhaseBar
<1>e. UNCHANGED <<session, run, progress>> => UNCHANGED <<BookBar, PhaseBar, progress>>
  BY DEF BookBar, PhaseBar
<1>1. CASE Asked \/ Fire \/ Household \/ UNCHANGED vars
  BY <1>1, <1>e DEF Asked, Ask, Fire, Household, vars
<1>2. CASE NothingToActOn \/ ResumeRuns
  BY <1>2, <1>s, <1>i DEF NothingToActOn, ResumeRuns, Running, FinishAs, Finish
<1>3. CASE StartBegins
  <2>1. run' = Idle \/ run'.at \in {"play", "read"}
    BY <1>3 DEF StartBegins, Finish, Idle
  <2> QED
    BY <1>3, <2>1, <1>i, <1>s DEF StartBegins, Running
<1>4. CASE ReadBegins
  BY <1>4, <1>s DEF ReadBegins, Running, Idle
<1>5. CASE PauseBegins \/ SeekBegins
  <2>1. run' = Idle \/ run'.at \in {"read", "write"}
    BY <1>5 DEF PauseBegins, SeekBegins, Finish, Idle
  <2> QED
    BY <1>5, <2>1, <1>i, <1>s DEF PauseBegins, SeekBegins, Running
<1>6. CASE ReadPosition \/ ReadState
  <2>1. run.at = "read" /\ run'.at = "read"
    BY <1>6, <1>r DEF ReadPosition, ReadState
  <2> QED
    BY <1>6, <2>1, <1>s DEF ReadPosition, ReadState
<1>7. CASE ReadFails
  <2>1. run.at = "read" /\ session # NoSession /\ UNCHANGED <<session, progress>>
    BY <1>7, <1>y DEF ReadFails, RunInv
  <2>2. CASE run' = Idle
    BY <2>1, <2>2, <1>i, <1>s
  <2>3. CASE run' # Idle
    <3>1. run'.at = "stop"
      BY <1>7, <2>3 DEF ReadFails, FinishAs, Finish, Idle
    <3> QED
      BY <2>1, <3>1, SilentStep
  <2> QED
    BY <2>2, <2>3
<1>8. CASE PauseHasRead
  <2>1. run.at = "read" /\ run'.at = "write"
    BY <1>8, <1>y, GoesOn DEF PauseHasRead, HasRead
  <2> QED
    BY <1>8, <2>1, <1>s DEF PauseHasRead
<1>9. CASE Teardown \/ TickFinalizes
  <2>1. /\ run.at = "read" /\ session # NoSession /\ UNCHANGED <<session, progress>>
        /\ run'.at \in {"last write", "stop"}
    BY <1>9, <1>y, GoesOn DEF Teardown, TickFinalizes, HasRead, RunInv
  <2> QED
    BY <2>1, SilentStep
<1>10. CASE Relinquish
  BY <1>10, <1>y, SilentStep DEF Relinquish, HasRead, RunInv
<1>11. CASE TickHasRead
  <2>1. run.at = "read" /\ run'.at \in {"write", "waiting"}
    BY <1>11, <1>y, <1>i, GoesOn DEF TickHasRead, HasRead, FinishAs, Finish
  <2> QED
    BY <1>11, <2>1, <1>s DEF TickHasRead
<1>12. CASE WriteBack
  BY <1>12, WriteBackRefines DEF Promise!Next
<1>13. CASE LastWrite
  BY <1>13, LastWriteRefines DEF Promise!Next
<1>14. CASE StopSpeaker
  BY <1>14, <1>y, SilentStep DEF StopSpeaker, RunInv, TearingDown
<1>n. ASSUME NEW resume, Install(resume), Running("start", "play") \/ Running("start", "seek"), UNCHANGED progress
      PROVE  Promise!Next \/ UNCHANGED <<BookBar, PhaseBar, progress>>
  <2>1. session = NoSession /\ Op.book \in Book /\ Op.speaker \in Speaker
    BY <1>n, <1>y, <1>q, OpFields DEF Running, RunInv
  <2>2. session' # NoSession /\ session'.book \in Book /\ run'.at = "waiting"
    BY <1>n, <1>i, <2>1, PlaybackAssumption DEF Install, Finish
  <2> QED
    BY <1>n, <2>1, <2>2, SilentStep
<1>15. CASE PlayStarts
  <2>1. CASE run.resume = 0
    BY <1>15, <2>1, <1>n DEF PlayStarts
  <2>2. CASE run.resume # 0
    <3>1. run.at = "play" /\ run'.at = "seek"
      BY <1>15, <2>2, <1>r DEF PlayStarts, Running
    <3> QED
      BY <1>15, <2>2, <3>1, <1>s DEF PlayStarts
  <2> QED
    BY <2>1, <2>2
<1>16. CASE PlayFails \/ ResumeFails
  BY <1>16, <1>i, <1>s DEF PlayFails, ResumeFails, Running, Finish
<1>17. CASE ResumeSought
  BY <1>17, <1>n DEF ResumeSought
<1>18. CASE Restart
  <2>1. session' = NoSession /\ UNCHANGED progress /\ run'.at = "waiting"
    BY <1>18, <1>i DEF Restart
  <2>2. CASE session = NoSession
    BY <2>1, <2>2 DEF BookBar, PhaseBar
  <2>3. CASE session # NoSession
    BY <2>1, <2>3, SilentStep
  <2> QED
    BY <2>2, <2>3
<1> QED
  BY <1>1, <1>2, <1>3, <1>4, <1>5, <1>6, <1>7, <1>8, <1>9, <1>10, <1>11, <1>12, <1>13, <1>14, <1>15, <1>16,
     <1>17, <1>18
     DEF Next, OpStep, Begins, Reads, Writes, Drives

(* Whatever operations, ticks, failures and restarts come between: progress *)
(* is recorded for the book of the active session only, never after its    *)
(* last record, and only that one finishes a book (progressAt).            *)
THEOREM ManagerKeepsPromise == Spec => ImplementsPlaybackSession
<1>1. Init => Promise!Init
  BY DEF Init, Promise!Init
<1> QED
  BY <1>1, InductiveInvariant, StepRefines, PTL DEF Spec, ImplementsPlaybackSession, Promise!Spec
=============================================================================
