---------------------------- MODULE SpeakerSeek ----------------------------
(***************************************************************************)
(* The seeks of a speaker to positions of the book it plays                *)
(* (SessionManager.seek and start, planSeek, SonosClient.seek): select the *)
(* track, seek within it, read back where the speaker is, and try again a  *)
(* bounded number of times.  Between any two of these calls the book plays *)
(* on, or the household skips; any call may fail, with or without effect.  *)
(***************************************************************************)
EXTENDS BookPositions

CONSTANTS
  Books,       \* the durations of the tracks, book by book
  Beyond,      \* how far outside the book a client asks
  Tolerance,   \* toleranceSeconds, in ticks
  Retries      \* retries

ASSUME SeekAssumption ==
  /\ Books \subseteq Seq(Nat \ {0})
  /\ <<>> \notin Books
  /\ {Beyond, Tolerance, Retries} \subseteq Nat

VARIABLES
  book,      \* the durations of the playing book
  asked,     \* the position asked for
  speaker,   \* the track it is on and the seconds it is into it
  step,      \* the call the attempt makes next, or the outcome
  attempt,   \* attempts before this one
  reached,   \* reachedTrack
  seen       \* the last read-back, and the attempt that made it

vars == <<book, asked, speaker, step, attempt, reached, seen>>

Tracks == 1..Len(book)

Target == Clamp(0, asked, TotalDuration(book))

Plan == AbsoluteToTrack(book, Target)

TypeOK ==
  /\ book \in Books
  /\ asked \in -Beyond..(TotalDuration(book) + Beyond)
  /\ speaker \in [track : Tracks, rel : Nat]
  /\ step \in {"track", "offset", "verify", "settled", "accepted", "failed"}
  /\ attempt \in 0..Retries
  /\ reached \in BOOLEAN
  /\ seen \in [track : Tracks, rel : Nat, attempt : -1..Retries]

Init ==
  /\ book \in Books
  /\ asked \in -Beyond..(TotalDuration(book) + Beyond)
  /\ speaker = [track |-> 1, rel |-> 0]
  /\ step = "track"
  /\ attempt = 0
  /\ reached = FALSE
  /\ seen = [track |-> 1, rel |-> 0, attempt |-> -1]

-----------------------------------------------------------------------------
(* The next seek, to anywhere a client may ask for. *)
SeekAgain ==
  /\ step \in {"settled", "accepted", "failed"}
  /\ asked' \in -Beyond..(TotalDuration(book) + Beyond)
  /\ step' = "track"
  /\ attempt' = 0
  /\ reached' = FALSE
  /\ seen' = [seen EXCEPT !.attempt = -1]
  /\ UNCHANGED <<book, speaker>>

(* The speaker: a track selected, an offset within the track it is on.     *)
SelectedTrack == speaker' = [track |-> Plan.trackIndex + 1, rel |-> 0]

SoughtOffset ==
  /\ TicksOf(SecondsOf(Plan.offset)) <= book[speaker.track]
  /\ speaker' = [speaker EXCEPT !.rel = SecondsOf(Plan.offset)]

SelectTrack ==
  /\ step = "track"
  /\ SelectedTrack
  /\ step' = "offset"
  /\ UNCHANGED <<book, asked, attempt, reached, seen>>

SeekOffset ==
  /\ step = "offset"
  /\ SoughtOffset
  /\ step' = "verify"
  /\ UNCHANGED <<book, asked, attempt, reached, seen>>

(* The attempt was not good enough: another one, or what the last one      *)
(* reached decides.                                                        *)
TryAgainOnce ==
  IF attempt <= Retries
  THEN attempt' = attempt + 1 /\ step' = "track"
  ELSE UNCHANGED attempt /\ step' = IF reached' THEN "accepted" ELSE "failed"

TryAgain ==
  IF attempt < Retries
  THEN attempt' = attempt + 1 /\ step' = "track"
  ELSE UNCHANGED attempt /\ step' = IF reached' THEN "accepted" ELSE "failed"

VerifyAnyTrack ==
  /\ step = "verify"
  /\ seen' = [track |-> speaker.track, rel |-> speaker.rel, attempt |-> attempt]
  /\ reached' = (speaker.track = Plan.trackIndex + 1)
  /\ IF Distance(TicksOf(speaker.rel), Plan.offset) <= Tolerance
     THEN step' = "settled" /\ UNCHANGED attempt
     ELSE TryAgain
  /\ UNCHANGED <<book, asked, speaker>>

Verify ==
  /\ step = "verify"
  /\ seen' = [track |-> speaker.track, rel |-> speaker.rel, attempt |-> attempt]
  /\ reached' = (speaker.track = Plan.trackIndex + 1)
  /\ IF reached' /\ Distance(TicksOf(speaker.rel), Plan.offset) <= Tolerance
     THEN step' = "settled" /\ UNCHANGED attempt
     ELSE TryAgain
  /\ UNCHANGED <<book, asked, speaker>>

(* A call of the attempt throws: refused mid-transition, or timed out with *)
(* its effect done all the same.                                           *)
AttemptThrowsRemembering ==
  /\ step \in {"track", "offset", "verify"}
  /\ UNCHANGED reached
  /\ UNCHANGED speaker \/ (step = "track" /\ SelectedTrack) \/ (step = "offset" /\ SoughtOffset)
  /\ TryAgain
  /\ UNCHANGED <<book, asked, seen>>

AttemptThrows ==
  /\ step \in {"track", "offset", "verify"}
  /\ reached' = FALSE
  /\ UNCHANGED speaker \/ (step = "track" /\ SelectedTrack) \/ (step = "offset" /\ SoughtOffset)
  /\ TryAgain
  /\ UNCHANGED <<book, asked, seen>>

-----------------------------------------------------------------------------
(* The book plays on, into the next track too; a second past the end of a  *)
(* track may be reported before that.                                      *)
PlaysOn ==
  /\ \/ /\ TicksOf(speaker.rel) <= book[speaker.track]
        /\ speaker' = [speaker EXCEPT !.rel = @ + 1]
     \/ /\ TicksOf(speaker.rel + 1) >= book[speaker.track]
        /\ speaker.track < Len(book)
        /\ speaker' = [track |-> speaker.track + 1, rel |-> 0]
  /\ UNCHANGED <<book, asked, step, attempt, reached, seen>>

(* The household skips to another track. *)
Skip ==
  /\ \E t \in Tracks \ {speaker.track} : speaker' = [track |-> t, rel |-> 0]
  /\ UNCHANGED <<book, asked, step, attempt, reached, seen>>

Next == SeekAgain \/ SelectTrack \/ SeekOffset \/ Verify \/ AttemptThrows \/ PlaysOn \/ Skip

Spec == Init /\ [][Next]_vars

-----------------------------------------------------------------------------
(* "If we never reached the track, throw - a resume in the wrong track is  *)
(* hours off and the sync loop would record it as truth" (seek): a seek    *)
(* that returns has just read the target track back, in its last attempt.  *)
ReturnsOnlyOnItsTrack ==
  step \in {"settled", "accepted"} =>
    seen.attempt = attempt /\ seen.track = Plan.trackIndex + 1

(* What a settled seek read back is, as the sync loop would compute it and *)
(* write it to ABS, the position asked for within the tolerance - across   *)
(* the track mapping, the clamping and the rounding to whole seconds.      *)
SettlesNearItsTarget ==
  step = "settled" => Distance(Reported(book, seen.track, seen.rel), Target) <= Tolerance

(* "A position exactly on a boundary belongs to the start of the next      *)
(* track", "the exact end of the book maps to the last track at its full   *)
(* duration and is NOT considered clamped" (positionMapper), and mapping   *)
(* back recovers every position of the book.                               *)
MappingIsHalfOpenAndInvertible ==
  \A a \in -Beyond..(TotalDuration(book) + Beyond) :
    LET p == AbsoluteToTrack(book, a) IN
    /\ p.clamped = (Clamp(0, a, TotalDuration(book)) # a)
    /\ TrackToAbsolute(book, p.trackIndex, p.offset) = Clamp(0, a, TotalDuration(book))
    /\ p.offset = book[p.trackIndex + 1] => p.trackIndex + 1 = Len(book)

(* "Sonos can momentarily report a value slightly past the track's end"    *)
(* (trackToAbsolute): no report of a speaker is read as a position outside *)
(* the track it names.                                                     *)
ReportsStayInTheirTrack ==
  LET here == Reported(book, speaker.track, speaker.rel) IN
  here \in StartOf(book, speaker.track - 1)..StartOf(book, speaker.track)
=============================================================================
