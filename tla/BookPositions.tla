--------------------------- MODULE BookPositions ---------------------------
(***************************************************************************)
(* The arithmetic between a position in a book, as Audiobookshelf stores   *)
(* it, and a track with an offset, as a speaker reports and accepts it     *)
(* (packages/position/src, packages/app/src/sonos/time.ts).  A book is the *)
(* sequence of the durations of its tracks; times are counted in ticks,    *)
(* Scale of them to the whole second a speaker counts in.  A track index   *)
(* counts from 0, a speaker's track number from 1.                         *)
(***************************************************************************)
EXTENDS Integers, Sequences

CONSTANT Scale

ASSUME ScaleAssumption == Scale \in Nat \ {0}

Clamp(low, x, high) == IF x < low THEN low ELSE IF x > high THEN high ELSE x

Distance(x, y) == IF x < y THEN y - x ELSE x - y

(* Where track i starts, which is also how much of the book precedes it. *)
StartOf(durations, i) ==
  LET starts[k \in 0..Len(durations)] == IF k = 0 THEN 0 ELSE starts[k - 1] + durations[k]
  IN starts[i]

TotalDuration(durations) == StartOf(durations, Len(durations))

(* The first track that ends behind the position; the end of the book, and *)
(* anything beyond it, is the full duration of the last.                   *)
AbsoluteToTrackClosed(durations, absolute) ==
  IF absolute <= 0 THEN [trackIndex |-> 0, offset |-> 0, clamped |-> absolute < 0]
  ELSE LET behind == { i \in 0..(Len(durations) - 1) : absolute <= StartOf(durations, i + 1) }
           last   == Len(durations) - 1
       IN IF behind = {}
          THEN [trackIndex |-> last, offset |-> durations[last + 1],
                clamped |-> absolute > TotalDuration(durations)]
          ELSE LET i == CHOOSE j \in behind : \A k \in behind : j <= k
               IN [trackIndex |-> i, offset |-> absolute - StartOf(durations, i), clamped |-> FALSE]

AbsoluteToTrack(durations, absolute) ==
  IF absolute <= 0 THEN [trackIndex |-> 0, offset |-> 0, clamped |-> absolute < 0]
  ELSE LET behind == { i \in 0..(Len(durations) - 1) : absolute < StartOf(durations, i + 1) }
           last   == Len(durations) - 1
       IN IF behind = {}
          THEN [trackIndex |-> last, offset |-> durations[last + 1],
                clamped |-> absolute > TotalDuration(durations)]
          ELSE LET i == CHOOSE j \in behind : \A k \in behind : j <= k
               IN [trackIndex |-> i, offset |-> absolute - StartOf(durations, i), clamped |-> FALSE]

(* An offset a speaker reports past the end of its track counts as the end. *)
TrackToAbsolutePastItsTrack(durations, trackIndex, offset) ==
  StartOf(durations, trackIndex) + offset

TrackToAbsolute(durations, trackIndex, offset) ==
  StartOf(durations, trackIndex) + Clamp(0, offset, durations[trackIndex + 1])

(* secondsToHms rounds to the nearest second, halves up; hmsToSeconds. *)
SecondsOf(ticks) == IF ticks > 0 THEN (2 * ticks + Scale) \div (2 * Scale) ELSE 0

TicksOf(seconds) == seconds * Scale

(* What getPosition and toAbsolute make of a speaker's report. *)
Reported(durations, track, seconds) ==
  TrackToAbsolute(durations, Clamp(0, track - 1, Len(durations) - 1), TicksOf(seconds))
=============================================================================
