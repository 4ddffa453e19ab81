------------------------- MODULE CalculationsProofs -------------------------
(***************************************************************************)
(* Theorems about the two calculations of the server: positions and seeks  *)
(* (BookPositions, SpeakerSeek), for books of any number of tracks of any  *)
(* length, any scale, tolerance and number of retries; and walks through   *)
(* the libraries (LibraryPages), for any number of libraries with any      *)
(* books, any page size and any number of changes.                         *)
(***************************************************************************)
EXTENDS SpeakerSeek, LibraryPages, FiniteSetTheorems, SequenceTheorems, WellFoundedInduction, TLAPS

-----------------------------------------------------------------------------
(* Induction over the numbers, as a fact about sets.                       *)

LEMMA Least ==
  ASSUME NEW T \in SUBSET Nat, T # {}
  PROVE  \E n \in T : \A k \in T : n <= k
<1>1. IsWellFoundedOn(OpToRel(<, Nat), Nat)
  BY NatLessThanWellFounded
<1>2. PICK n \in T : \A k \in T : ~ (<<k, n>> \in OpToRel(<, Nat))
  BY <1>1, WFMin
<1>3. \A k \in T : ~(k < n)
  BY <1>2 DEF OpToRel
<1>4. \A k \in T : n \in Nat /\ k \in Nat /\ n <= k
  BY <1>3
<1> QED
  BY <1>4

LEMMA SetInduction ==
  ASSUME NEW T \in SUBSET Nat, 0 \in T, \A n \in T : n + 1 \in T
  PROVE  T = Nat
<1> SUFFICES ASSUME Nat \ T # {} PROVE FALSE
  OBVIOUS
<1>1. PICK n \in Nat \ T : \A k \in Nat \ T : n <= k
  BY Least
<1>2. n # 0
  OBVIOUS
<1>3. n - 1 \in T
  BY <1>1, <1>2
<1> QED
  BY <1>1, <1>3

-----------------------------------------------------------------------------
(* Where the tracks of a book start.                                       *)

Durations == { d \in Seq(Nat \ {0}) : d # <<>> }

(* The starts of the first n tracks, and of what follows them. *)
StartsUpTo(d, n) ==
  { g \in [0..n -> Nat] : \A k \in 0..n : g[k] = IF k = 0 THEN 0 ELSE g[k - 1] + d[k] }

LEMMA StartsExist ==
  ASSUME NEW d \in Durations
  PROVE  StartsUpTo(d, Len(d)) # {}
<1> DEFINE T == { n \in Nat : n <= Len(d) => StartsUpTo(d, n) # {} }
<1>1. Len(d) \in Nat /\ \A k \in 1..Len(d) : d[k] \in Nat
  BY DEF Durations
<1>2. 0 \in T
  <2>1. [k \in 0..0 |-> 0] \in StartsUpTo(d, 0)
    BY DEF StartsUpTo
  <2> QED
    BY <2>1
<1>3. ASSUME NEW n \in T PROVE n + 1 \in T
  <2> SUFFICES ASSUME n + 1 <= Len(d) PROVE StartsUpTo(d, n + 1) # {}
    OBVIOUS
  <2>1. PICK g \in StartsUpTo(d, n) : TRUE
    BY <1>1
  <2> DEFINE h == [k \in 0..(n + 1) |-> IF k = n + 1 THEN g[n] + d[n + 1] ELSE g[k]]
  <2>2. g \in [0..n -> Nat] /\ \A k \in 0..n : g[k] = IF k = 0 THEN 0 ELSE g[k - 1] + d[k]
    BY <2>1 DEF StartsUpTo
  <2>3. n + 1 \in 1..Len(d) /\ n \in 0..n /\ \A k \in 0..(n + 1) : k = n + 1 \/ k \in 0..n
    BY <1>1
  <2>4. h \in [0..(n + 1) -> Nat]
    BY <2>2, <2>3, <1>1
  <2>5. ASSUME NEW k \in 0..(n + 1) PROVE h[k] = IF k = 0 THEN 0 ELSE h[k - 1] + d[k]
    <3>1. CASE k = n + 1
      <4>1. k # 0 /\ k - 1 = n /\ n \in 0..(n + 1) /\ n # n + 1
        BY <3>1
      <4> QED
        BY <3>1, <4>1
    <3>2. CASE k # n + 1
      <4>1. k \in 0..n /\ h[k] = g[k]
        BY <3>2, <2>3
      <4>2. k # 0 => k - 1 \in 0..(n + 1) /\ k - 1 # n + 1
        BY <3>2
      <4>3. k # 0 => h[k - 1] = g[k - 1]
        BY <4>2
      <4> QED
        BY <4>1, <4>3, <2>2
    <3> QED
      BY <3>1, <3>2
  <2>6. h \in StartsUpTo(d, n + 1)
    BY <2>4, <2>5 DEF StartsUpTo
  <2> QED
    BY <2>6
<1>4. T = Nat
  <2> HIDE DEF T
  <2>1. T \in SUBSET Nat
    BY DEF T
  <2> QED
    BY <1>2, <1>3, <2>1, SetInduction
<1> QED
  BY <1>1, <1>4

(* The starts of the tracks are what the loop adds up.                     *)
LEMMA StartOfSums ==
  ASSUME NEW d \in Durations
  PROVE  /\ StartOf(d, 0) = 0
         /\ \A i \in 0..Len(d) : StartOf(d, i) \in Nat
         /\ \A i \in 1..Len(d) : StartOf(d, i) = StartOf(d, i - 1) + d[i]
<1> DEFINE n == Len(d)
           F(f) == [k \in 0..n |-> IF k = 0 THEN 0 ELSE f[k - 1] + d[k]]
           starts == CHOOSE f : f = F(f)
<1>1. PICK g \in StartsUpTo(d, n) : TRUE
  BY StartsExist
<1>2. g = F(g)
  BY <1>1 DEF StartsUpTo
<1>3. starts = F(starts)
  BY <1>2
<1>4. \A i : StartOf(d, i) = starts[i]
  BY DEF StartOf
<1> HIDE DEF starts
<1>5. n \in Nat /\ \A k \in 1..n : d[k] \in Nat
  BY DEF Durations
<1>6. starts[0] = 0
  <2>1. 0 \in 0..n
    BY <1>5
  <2>2. F(starts)[0] = 0
    BY <2>1
  <2> QED
    BY <1>3, <2>2
<1>7. \A i \in 1..n : starts[i] = starts[i - 1] + d[i]
  <2> TAKE i \in 1..n
  <2>1. i \in 0..n /\ i # 0
    BY <1>5
  <2>2. F(starts)[i] = starts[i - 1] + d[i]
    BY <2>1
  <2> QED
    BY <1>3, <2>2
<1> HIDE DEF F
<1>8. \A i \in 0..n : starts[i] \in Nat
  <2> DEFINE T == { k \in Nat : k <= n => starts[k] \in Nat }
  <2>1. 0 \in T
    BY <1>6
  <2>2. ASSUME NEW k \in T PROVE k + 1 \in T
    <3> SUFFICES ASSUME k + 1 <= n PROVE starts[k + 1] \in Nat
      OBVIOUS
    <3>1. k + 1 \in 1..n /\ (k + 1) - 1 = k /\ starts[k] \in Nat
      BY <1>5
    <3>2. starts[k + 1] = starts[k] + d[k + 1]
      BY <1>7, <3>1
    <3> QED
      BY <1>5, <3>1, <3>2
  <2>3. T \in SUBSET Nat
    OBVIOUS
  <2> HIDE DEF T
  <2>4. T = Nat
    BY <2>1, <2>2, <2>3, SetInduction
  <2> USE DEF T
  <2> QED
    BY <1>5, <2>4
<1> QED
  BY <1>4, <1>6, <1>7, <1>8

LEMMA DurationsOf ==
  ASSUME NEW d \in Durations
  PROVE  Len(d) \in Nat \ {0} /\ \A i \in 1..Len(d) : d[i] \in Nat \ {0}
BY DEF Durations

(* Tracks start one behind the other. *)
LEMMA StartsAscend ==
  ASSUME NEW d \in Durations, NEW i \in 0..Len(d), NEW j \in 0..Len(d), i <= j
  PROVE  StartOf(d, i) <= StartOf(d, j)
<1> DEFINE n == Len(d)
           S(k) == StartOf(d, k)
           T == { k \in Nat : i + k <= n => S(i) <= S(i + k) }
<1>0. n \in Nat /\ i \in Nat /\ j \in Nat /\ i + 0 = i
  BY DurationsOf
<1>1. 0 \in T
  BY <1>0, StartOfSums
<1>2. ASSUME NEW k \in T PROVE k + 1 \in T
  <2> SUFFICES ASSUME i + (k + 1) <= n PROVE S(i) <= S(i + (k + 1))
    OBVIOUS
  <2>1. i + (k + 1) \in 1..n /\ (i + (k + 1)) - 1 = i + k /\ i + k \in 0..n
    BY <1>0
  <2>2. S(i) <= S(i + k)
    BY <2>1
  <2>3. S(i + (k + 1)) = S(i + k) + d[i + (k + 1)]
    BY <2>1, StartOfSums
  <2>4. S(i) \in Nat /\ S(i + k) \in Nat /\ d[i + (k + 1)] \in Nat
    BY <2>1, StartOfSums, DurationsOf
  <2> HIDE DEF S
  <2> QED
    BY <2>2, <2>3, <2>4
<1>3. T \in SUBSET Nat
  OBVIOUS
<1> HIDE DEF T
<1>4. T = Nat
  BY <1>1, <1>2, <1>3, SetInduction
<1> USE DEF T
<1>5. j - i \in Nat /\ i + (j - i) = j
  BY <1>0
<1>6. j - i \in T
  BY <1>4, <1>5
<1> QED
  BY <1>5, <1>6

(* What a position of the book is mapped to: the last track that starts at *)
(* or before it, the last track for the end, clamped where it is outside.  *)
LEMMA Mapped ==
  ASSUME NEW d \in Durations, NEW a \in Int
  PROVE  LET p == AbsoluteToTrack(d, a) IN
         /\ p.trackIndex \in 0..(Len(d) - 1)
         /\ p.offset \in 0..d[p.trackIndex + 1]
         /\ StartOf(d, p.trackIndex) + p.offset = Clamp(0, a, TotalDuration(d))
         /\ p.clamped = (Clamp(0, a, TotalDuration(d)) # a)
         /\ p.offset = d[p.trackIndex + 1] => p.trackIndex + 1 = Len(d)
<1> DEFINE n == Len(d)
           S(k) == StartOf(d, k)
           p == AbsoluteToTrack(d, a)
<1>1. /\ n \in Nat \ {0} /\ S(0) = 0
      /\ \A i \in 1..n : d[i] \in Nat \ {0}
      /\ \A i \in 0..n : S(i) \in Nat
      /\ \A i \in 1..n : S(i) = S(i - 1) + d[i]
      /\ TotalDuration(d) = S(n)
  BY StartOfSums, DurationsOf DEF TotalDuration
<1>2. \A i \in 0..n : S(i) <= S(n)
  BY <1>1, StartsAscend
<1>3. CASE a <= 0
  <2>1. p = [trackIndex |-> 0, offset |-> 0, clamped |-> a < 0]
    BY <1>3 DEF AbsoluteToTrack
  <2>2. 0 \in 0..(n - 1) /\ 0 + 1 = 1 /\ 1 \in 1..n /\ 0 \in 0..d[1] /\ d[1] # 0 /\ S(n) \in Nat
    BY <1>1
  <2>3. Clamp(0, a, S(n)) = 0
    BY <1>3, <2>2 DEF Clamp
  <2> QED
    BY <1>1, <1>3, <2>1, <2>2, <2>3
<1>4. CASE a > 0
  <2> DEFINE behind == { i \in 0..(n - 1) : a < S(i + 1) }
             first  == CHOOSE j \in behind : \A k \in behind : j <= k
  <2>1. p = IF behind = {}
            THEN [trackIndex |-> n - 1, offset |-> d[(n - 1) + 1], clamped |-> a > S(n)]
            ELSE [trackIndex |-> first, offset |-> a - S(first), clamped |-> FALSE]
    BY <1>1, <1>4 DEF AbsoluteToTrack
  <2>2. CASE behind = {}
    <3>1. n - 1 \in 0..(n - 1) /\ (n - 1) + 1 = n /\ n \in 1..n /\ n \in 0..n
      BY <1>1
    <3>2. a >= S(n)
      <4>1. ~(a < S((n - 1) + 1))
        BY <2>2, <3>1
      <4> QED
        BY <1>1, <3>1, <4>1
    <3>3. p = [trackIndex |-> n - 1, offset |-> d[n], clamped |-> a > S(n)]
      BY <2>1, <2>2, <3>1
    <3>4. Clamp(0, a, S(n)) = S(n)
      BY <1>1, <1>4, <3>1, <3>2 DEF Clamp
    <3>5. S(n - 1) + d[n] = S(n) /\ d[n] \in 0..d[n]
      BY <1>1, <3>1
    <3>6. (a > S(n)) = (S(n) # a)
      BY <1>1, <3>1, <3>2
    <3> QED
      BY <1>1, <3>1, <3>3, <3>4, <3>5, <3>6
  <2>3. CASE behind # {}
    <3>1. \E j \in behind : \A k \in behind : j <= k
      <4>1. behind \in SUBSET Nat
        BY <1>1
      <4> HIDE DEF behind
      <4> QED
        BY <2>3, <4>1, Least
    <3>2. first \in behind /\ \A k \in behind : first <= k
      BY <3>1
    <3> HIDE DEF first
    <3>3. first \in 0..(n - 1) /\ a < S(first + 1)
      BY <3>2
    <3>4. S(first) <= a
      <4>1. CASE first = 0
        BY <1>1, <1>4, <4>1
      <4>2. CASE first # 0
        <5>1. first - 1 \in 0..(n - 1) /\ ~(first <= first - 1) /\ (first - 1) + 1 = first /\ first \in 0..n
          BY <1>1, <3>3, <4>2
        <5>2. first - 1 \notin behind
          BY <3>2, <5>1
        <5>3. ~(a < S((first - 1) + 1))
          BY <5>1, <5>2
        <5> QED
          BY <1>1, <5>1, <5>3
      <4> QED
        BY <4>1, <4>2
    <3>5. /\ first + 1 \in 1..n /\ first \in 0..n /\ first + 1 \in 0..n /\ (first + 1) - 1 = first
      BY <1>1, <3>3
    <3>6. /\ S(first + 1) = S(first) + d[first + 1] /\ S(first + 1) <= S(n)
          /\ S(first) \in Nat /\ S(first + 1) \in Nat /\ d[first + 1] \in Nat /\ S(n) \in Nat
      BY <1>1, <1>2, <3>5
    <3>7. p = [trackIndex |-> first, offset |-> a - S(first), clamped |-> FALSE]
      BY <2>1, <2>3
    <3>8. Clamp(0, a, S(n)) = a
      BY <1>4, <3>3, <3>6 DEF Clamp
    <3>9. a - S(first) \in 0..d[first + 1] /\ a - S(first) # d[first + 1] /\ S(first) + (a - S(first)) = a
      BY <1>4, <3>3, <3>4, <3>6
    <3>10. p.trackIndex = first /\ p.offset = a - S(first) /\ p.clamped = FALSE
      BY <3>7
    <3>11. p.trackIndex \in 0..(n - 1)
      BY <3>3, <3>10
    <3>12. p.offset \in 0..d[p.trackIndex + 1] /\ p.offset # d[p.trackIndex + 1]
      BY <3>9, <3>10
    <3>13. S(p.trackIndex) + p.offset = Clamp(0, a, TotalDuration(d))
      BY <1>1, <3>8, <3>9, <3>10
    <3>14. p.clamped = (Clamp(0, a, TotalDuration(d)) # a)
      BY <1>1, <3>8, <3>10
    <3> QED
      BY <3>11, <3>12, <3>13, <3>14
  <2> QED
    BY <2>2, <2>3
<1> QED
  BY <1>3, <1>4

-----------------------------------------------------------------------------
(* The inductive invariant: a seek that has returned read the target track *)
(* back in its last attempt, and one that settled was near its offset.     *)

LastReadBack == seen.attempt = attempt /\ seen.track = Plan.trackIndex + 1

SettledInv ==
  step = "settled" =>
    LastReadBack /\ Distance(TicksOf(seen.rel), Plan.offset) <= Tolerance

AcceptedInv == step = "accepted" => LastReadBack

SeekInv == TypeOK /\ SettledInv /\ AcceptedInv

LEMMA BooksAreDurations == ASSUME NEW d \in Books PROVE d \in Durations
  BY SeekAssumption DEF Durations

LEMMA TotalIsNat == ASSUME NEW d \in Books PROVE TotalDuration(d) \in Nat
<1>1. d \in Durations /\ Len(d) \in 0..Len(d)
  BY BooksAreDurations, DurationsOf
<1> QED
  BY <1>1, StartOfSums DEF TotalDuration

LEMMA QuotientIsNat ==
  ASSUME NEW x \in Nat, NEW y \in Nat \ {0}
  PROVE  x \div y \in Nat
OBVIOUS

LEMMA SecondsAreNat == ASSUME NEW x \in Int PROVE SecondsOf(x) \in Nat
<1>1. CASE x > 0
  <2>1. 2 * x + Scale \in Nat /\ 2 * Scale \in Nat \ {0}
    BY <1>1, ScaleAssumption
  <2>2. (2 * x + Scale) \div (2 * Scale) \in Nat
    BY <2>1, QuotientIsNat
  <2> QED
    BY <1>1, <2>2 DEF SecondsOf
<1>2. CASE ~(x > 0)
  BY <1>2 DEF SecondsOf
<1> QED
  BY <1>1, <1>2

LEMMA TicksAreNat == ASSUME NEW x \in Nat PROVE TicksOf(x) \in Nat
  BY ScaleAssumption DEF TicksOf

(* What is sought is a track of the book and an offset within it. *)
LEMMA PlanTyped ==
  ASSUME TypeOK
  PROVE  /\ Target \in 0..TotalDuration(book)
         /\ Plan.trackIndex \in 0..(Len(book) - 1)
         /\ Plan.trackIndex + 1 \in Tracks
         /\ Plan.offset \in 0..book[Plan.trackIndex + 1]
         /\ Plan.offset \in Nat
         /\ StartOf(book, Plan.trackIndex) + Plan.offset = Target
<1>1. book \in Durations /\ TotalDuration(book) \in Nat /\ Beyond \in Nat
  BY BooksAreDurations, TotalIsNat, SeekAssumption DEF TypeOK
<1>2. asked \in Int
  BY <1>1 DEF TypeOK
<1>3. Target \in 0..TotalDuration(book) /\ Clamp(0, Target, TotalDuration(book)) = Target
  BY <1>1, <1>2 DEF Target, Clamp
<1>4. Target \in Int
  BY <1>3, <1>1
<1> DEFINE i == Plan.trackIndex
<1>5. /\ i \in 0..(Len(book) - 1)
      /\ Plan.offset \in 0..book[i + 1]
      /\ StartOf(book, i) + Plan.offset = Target
  BY <1>1, <1>3, <1>4, Mapped DEF Plan
<1>6. Len(book) \in Nat \ {0} /\ \A k \in Tracks : book[k] \in Nat
  BY <1>1, DurationsOf DEF Tracks
<1> HIDE DEF i
<1>7. i + 1 \in Tracks
  BY <1>5, <1>6 DEF Tracks
<1>8. book[i + 1] \in Nat
  BY <1>6, <1>7
<1>9. Plan.offset \in Nat
  BY <1>5, <1>8
<1> QED
  BY <1>3, <1>5, <1>7, <1>9 DEF i

-----------------------------------------------------------------------------
LEMMA PlanStays ==
  ASSUME UNCHANGED <<book, asked>>
  PROVE  Plan' = Plan /\ Tracks' = Tracks /\ TotalDuration(book)' = TotalDuration(book)
BY DEF Plan, Target, Tracks

LEMMA InitEstablishes == Init => SeekInv
<1> SUFFICES ASSUME Init PROVE SeekInv
  OBVIOUS
<1>1. book \in Durations /\ Retries \in Nat
  BY BooksAreDurations, SeekAssumption DEF Init
<1>2. 1 \in Tracks
  BY <1>1, DurationsOf DEF Tracks
<1>3. 0 \in 0..Retries /\ -1 \in -1..Retries
  BY <1>1
<1>4. TypeOK
  BY <1>2, <1>3 DEF Init, TypeOK
<1>5. step = "track"
  BY DEF Init
<1> QED
  BY <1>4, <1>5 DEF SeekInv, SettledInv, AcceptedInv

(* Where a call leaves the speaker is a place in the book. *)
LEMMA SpeakerStays ==
  ASSUME TypeOK,
         \/ UNCHANGED speaker
         \/ SelectedTrack
         \/ SoughtOffset
         \/ speaker' = [speaker EXCEPT !.rel = @ + 1]
         \/ speaker.track < Len(book) /\ speaker' = [track |-> speaker.track + 1, rel |-> 0]
         \/ \E t \in Tracks : speaker' = [track |-> t, rel |-> 0]
  PROVE  speaker' \in [track : Tracks, rel : Nat]
<1>1. speaker \in [track : Tracks, rel : Nat] /\ 0 \in Nat
  BY DEF TypeOK
<1>2. CASE UNCHANGED speaker
  BY <1>1, <1>2
<1>3. CASE SelectedTrack
  BY <1>1, <1>3, PlanTyped DEF SelectedTrack
<1>4. CASE SoughtOffset
  <2>1. SecondsOf(Plan.offset) \in Nat
    BY PlanTyped, SecondsAreNat
  <2> QED
    BY <1>1, <1>4, <2>1 DEF SoughtOffset
<1>5. CASE speaker' = [speaker EXCEPT !.rel = @ + 1]
  <2>1. speaker.rel + 1 \in Nat
    BY <1>1
  <2> QED
    BY <1>1, <1>5, <2>1
<1>6. CASE speaker.track < Len(book) /\ speaker' = [track |-> speaker.track + 1, rel |-> 0]
  <2>1. Len(book) \in Nat
    BY BooksAreDurations, DurationsOf DEF TypeOK
  <2>2. speaker.track + 1 \in Tracks
    BY <1>1, <1>6, <2>1 DEF Tracks
  <2> QED
    BY <1>1, <1>6, <2>2
<1>7. CASE \E t \in Tracks : speaker' = [track |-> t, rel |-> 0]
  BY <1>1, <1>7
<1> QED
  BY <1>2, <1>3, <1>4, <1>5, <1>6, <1>7

(* Another attempt, or the verdict of the last: accepted where it reached  *)
(* the track.                                                              *)
LEMMA AfterAnAttempt ==
  ASSUME TypeOK, TryAgain
  PROVE  /\ attempt' \in 0..Retries
         /\ step' \in {"track", "accepted", "failed"}
         /\ step' = "accepted" => attempt' = attempt /\ reached'
<1>1. attempt \in 0..Retries /\ Retries \in Nat
  BY SeekAssumption DEF TypeOK
<1>2. CASE attempt < Retries
  <2>1. attempt' = attempt + 1 /\ step' = "track"
    BY <1>2 DEF TryAgain
  <2>2. attempt + 1 \in 0..Retries
    BY <1>1, <1>2
  <2> QED
    BY <2>1, <2>2
<1>3. CASE ~(attempt < Retries)
  <2>1. attempt' = attempt /\ step' = IF reached' THEN "accepted" ELSE "failed"
    BY <1>3 DEF TryAgain
  <2> QED
    BY <1>1, <2>1
<1> QED
  BY <1>2, <1>3

LEMMA NextPreserves == SeekInv /\ [Next]_vars => SeekInv'
<1> SUFFICES ASSUME SeekInv, [Next]_vars PROVE SeekInv'
  OBVIOUS
<1>0. /\ TypeOK /\ SettledInv /\ AcceptedInv
      /\ book \in Books /\ book \in Durations
      /\ speaker \in [track : Tracks, rel : Nat]
      /\ seen \in [track : Tracks, rel : Nat, attempt : -1..Retries]
      /\ attempt \in 0..Retries /\ Retries \in Nat
  BY BooksAreDurations, SeekAssumption DEF SeekInv, TypeOK
<1>1. CASE SeekAgain
  <2>1. book' = book /\ speaker' = speaker /\ step' = "track" /\ attempt' = 0 /\ reached' = FALSE
        /\ asked' \in -Beyond..(TotalDuration(book) + Beyond)
        /\ seen' = [seen EXCEPT !.attempt = -1]
    BY <1>1 DEF SeekAgain
  <2>2. Tracks' = Tracks
    BY <2>1 DEF Tracks
  <2>3. 0 \in 0..Retries /\ -1 \in -1..Retries
    BY <1>0
  <2>4. seen' \in [track : Tracks, rel : Nat, attempt : -1..Retries]
    BY <1>0, <2>1, <2>3
  <2>5. TypeOK'
    BY <1>0, <2>1, <2>2, <2>3, <2>4 DEF TypeOK
  <2> QED
    BY <2>1, <2>5 DEF SeekInv, SettledInv, AcceptedInv
<1>2. CASE SelectTrack
  <2>1. speaker' \in [track : Tracks, rel : Nat]
    BY <1>0, <1>2, SpeakerStays DEF SelectTrack
  <2>2. step' = "offset" /\ UNCHANGED <<book, asked, attempt, reached, seen>>
    BY <1>2 DEF SelectTrack
  <2>3. TypeOK'
    BY <1>0, <2>1, <2>2, PlanStays DEF TypeOK
  <2> QED
    BY <2>2, <2>3 DEF SeekInv, SettledInv, AcceptedInv
<1>3. CASE SeekOffset
  <2>1. speaker' \in [track : Tracks, rel : Nat]
    BY <1>0, <1>3, SpeakerStays DEF SeekOffset
  <2>2. step' = "verify" /\ UNCHANGED <<book, asked, attempt, reached, seen>>
    BY <1>3 DEF SeekOffset
  <2>3. TypeOK'
    BY <1>0, <2>1, <2>2, PlanStays DEF TypeOK
  <2> QED
    BY <2>2, <2>3 DEF SeekInv, SettledInv, AcceptedInv
<1>4. CASE Verify
  <2> DEFINE here == Plan.trackIndex + 1
             near == Distance(TicksOf(speaker.rel), Plan.offset) <= Tolerance
  <2>1. /\ seen' = [track |-> speaker.track, rel |-> speaker.rel, attempt |-> attempt]
        /\ reached' = (speaker.track = here)
        /\ UNCHANGED <<book, asked, speaker>>
        /\ IF reached' /\ near THEN step' = "settled" /\ UNCHANGED attempt ELSE TryAgain
    BY <1>4 DEF Verify
  <2>2. Plan' = Plan /\ Tracks' = Tracks /\ TotalDuration(book)' = TotalDuration(book)
    BY <2>1, PlanStays
  <2>3. seen' \in [track : Tracks, rel : Nat, attempt : -1..Retries]
    <3>1. attempt \in -1..Retries
      BY <1>0
    <3> QED
      BY <1>0, <2>1, <3>1
  <2>4. /\ attempt' \in 0..Retries
        /\ step' \in {"settled", "track", "accepted", "failed"}
        /\ step' = "settled" => attempt' = attempt /\ reached' /\ near
        /\ step' = "accepted" => attempt' = attempt /\ reached'
    <3>1. CASE reached' /\ near
      BY <1>0, <2>1, <3>1
    <3>2. CASE ~(reached' /\ near)
      BY <1>0, <2>1, <3>2, AfterAnAttempt
    <3> QED
      BY <3>1, <3>2
  <2>5. TypeOK'
    <3>1. reached' \in BOOLEAN
      BY <2>1
    <3> QED
      BY <1>0, <2>1, <2>2, <2>3, <2>4, <3>1 DEF TypeOK
  <2>6. attempt' = attempt /\ reached' => LastReadBack'
    BY <2>1, <2>2 DEF LastReadBack
  <2>7. near => Distance(TicksOf(seen.rel), Plan.offset)' <= Tolerance
    BY <2>1, <2>2
  <2> QED
    BY <2>4, <2>5, <2>6, <2>7 DEF SeekInv, SettledInv, AcceptedInv
<1>5. CASE AttemptThrows
  <2>1. /\ reached' = FALSE /\ TryAgain /\ UNCHANGED <<book, asked, seen>>
        /\ UNCHANGED speaker \/ SelectedTrack \/ SoughtOffset
    BY <1>5 DEF AttemptThrows
  <2>2. speaker' \in [track : Tracks, rel : Nat]
    BY <1>0, <2>1, SpeakerStays
  <2>3. attempt' \in 0..Retries /\ step' \in {"track", "failed"}
    BY <1>0, <2>1, AfterAnAttempt
  <2>4. TypeOK'
    BY <1>0, <2>1, <2>2, <2>3, PlanStays DEF TypeOK
  <2> QED
    BY <2>3, <2>4 DEF SeekInv, SettledInv, AcceptedInv
<1>6. CASE PlaysOn \/ Skip \/ UNCHANGED vars
  <2>1. UNCHANGED <<book, asked, step, attempt, reached, seen>>
    BY <1>6 DEF PlaysOn, Skip, vars
  <2>2. \/ UNCHANGED speaker
        \/ speaker' = [speaker EXCEPT !.rel = @ + 1]
        \/ speaker.track < Len(book) /\ speaker' = [track |-> speaker.track + 1, rel |-> 0]
        \/ \E t \in Tracks : speaker' = [track |-> t, rel |-> 0]
    BY <1>6 DEF PlaysOn, Skip, vars
  <2>3. speaker' \in [track : Tracks, rel : Nat]
    BY <1>0, <2>2, SpeakerStays
  <2>4. Plan' = Plan /\ Tracks' = Tracks /\ TotalDuration(book)' = TotalDuration(book)
    BY <2>1, PlanStays
  <2>5. TypeOK'
    BY <1>0, <2>1, <2>3, <2>4 DEF TypeOK
  <2>6. SettledInv' /\ AcceptedInv'
    BY <1>0, <2>1, <2>4 DEF SettledInv, AcceptedInv, LastReadBack
  <2> QED
    BY <2>5, <2>6 DEF SeekInv
<1> QED
  BY <1>1, <1>2, <1>3, <1>4, <1>5, <1>6 DEF Next

(* The invariant the next three theorems follow from. *)
THEOREM InductiveInvariant == Spec => []SeekInv
BY InitEstablishes, NextPreserves, PTL DEF Spec

(* Type correctness, for books of any length and any tolerance. *)
THEOREM TypeCorrect == Spec => []TypeOK
<1>1. SeekInv => TypeOK
  BY DEF SeekInv
<1> QED
  BY <1>1, InductiveInvariant, PTL

(* A seek that returns has just read the target track back, in its last    *)
(* attempt: no earlier attempt's success outlives it.                      *)
THEOREM ReturnsOnTrack == Spec => []ReturnsOnlyOnItsTrack
<1>1. SeekInv => ReturnsOnlyOnItsTrack
  BY DEF SeekInv, SettledInv, AcceptedInv, LastReadBack, ReturnsOnlyOnItsTrack
<1> QED
  BY <1>1, InductiveInvariant, PTL

(* What a speaker reports, read as a position of the book. *)
LEMMA ReportedIs ==
  ASSUME NEW d \in Durations, NEW t \in 1..Len(d), NEW s \in Nat
  PROVE  Reported(d, t, s) = StartOf(d, t - 1) + Clamp(0, TicksOf(s), d[t])
<1>1. Len(d) \in Nat
  BY DurationsOf
<1>2. Clamp(0, t - 1, Len(d) - 1) = t - 1
  BY <1>1 DEF Clamp
<1>3. (t - 1) + 1 = t
  BY <1>1
<1> QED
  BY <1>2, <1>3 DEF Reported, TrackToAbsolute

(* No report is read as a position outside the track it names. *)
THEOREM ReportsInTrack == Spec => []ReportsStayInTheirTrack
<1>1. SeekInv => ReportsStayInTheirTrack
  <2> SUFFICES ASSUME SeekInv PROVE ReportsStayInTheirTrack
    OBVIOUS
  <2> DEFINE t == speaker.track
             x == TicksOf(speaker.rel)
  <2>1. book \in Durations /\ t \in 1..Len(book) /\ speaker.rel \in Nat
    BY BooksAreDurations DEF SeekInv, TypeOK, Tracks
  <2>2. x \in Nat /\ Len(book) \in Nat /\ book[t] \in Nat
    BY <2>1, TicksAreNat, DurationsOf
  <2>3. t - 1 \in 0..Len(book) /\ t \in 0..Len(book)
    BY <2>1, <2>2
  <2>4. /\ StartOf(book, t) = StartOf(book, t - 1) + book[t]
        /\ StartOf(book, t) \in Nat /\ StartOf(book, t - 1) \in Nat
    BY <2>1, <2>3, StartOfSums
  <2>5. Reported(book, t, speaker.rel) = StartOf(book, t - 1) + Clamp(0, x, book[t])
    BY <2>1, ReportedIs
  <2>6. Clamp(0, x, book[t]) \in 0..book[t]
    BY <2>2 DEF Clamp
  <2> HIDE DEF t, x
  <2>7. Reported(book, t, speaker.rel) \in StartOf(book, t - 1)..StartOf(book, t)
    BY <2>2, <2>4, <2>5, <2>6
  <2> QED
    BY <2>7 DEF ReportsStayInTheirTrack, t
<1> QED
  BY <1>1, InductiveInvariant, PTL

(* Clamping both of two positions brings them no further apart. *)
LEMMA ClampBringsCloser ==
  ASSUME NEW x \in Nat, NEW d \in Nat, NEW o \in 0..d, NEW s \in Nat
  PROVE  Distance(s + Clamp(0, x, d), s + o) <= Distance(x, o)
BY DEF Clamp, Distance

(* A settled seek is within the tolerance of the position asked for, once  *)
(* its read-back is mapped to the book and clamped to its track.           *)
THEOREM SettlesNear == Spec => []SettlesNearItsTarget
<1>1. SeekInv => SettlesNearItsTarget
  <2> SUFFICES ASSUME SeekInv, step = "settled"
               PROVE  Distance(Reported(book, seen.track, seen.rel), Target) <= Tolerance
    BY DEF SettlesNearItsTarget
  <2> DEFINE t == seen.track
             x == TicksOf(seen.rel)
             o == Plan.offset
             from == StartOf(book, Plan.trackIndex)
  <2>1. TypeOK /\ book \in Durations /\ t \in 1..Len(book) /\ seen.rel \in Nat /\ Tolerance \in Nat
    BY BooksAreDurations, SeekAssumption DEF SeekInv, TypeOK, Tracks
  <2>2. t = Plan.trackIndex + 1 /\ Distance(x, o) <= Tolerance
    BY DEF SeekInv, SettledInv, LastReadBack
  <2>3. /\ Plan.trackIndex \in 0..(Len(book) - 1)
        /\ o \in 0..book[Plan.trackIndex + 1]
        /\ from + o = Target
    BY <2>1, PlanTyped
  <2>4. x \in Nat /\ Len(book) \in Nat /\ book[t] \in Nat
    BY <2>1, TicksAreNat, DurationsOf
  <2>5. t - 1 = Plan.trackIndex /\ Plan.trackIndex \in 0..Len(book)
    BY <2>2, <2>3, <2>4
  <2>6. from \in Nat /\ o \in 0..book[t]
    BY <2>1, <2>2, <2>3, <2>5, StartOfSums
  <2>7. Reported(book, t, seen.rel) = from + Clamp(0, x, book[t])
    BY <2>1, <2>5, ReportedIs
  <2>8. Distance(from + Clamp(0, x, book[t]), from + o) <= Distance(x, o)
    BY <2>4, <2>6, ClampBringsCloser
  <2>9. from + Clamp(0, x, book[t]) \in Int /\ from + o \in Int /\ o \in Int
    BY <2>4, <2>6 DEF Clamp
  <2>10. /\ Distance(from + Clamp(0, x, book[t]), from + o) \in Int
         /\ Distance(x, o) \in Int
    BY <2>4, <2>9 DEF Distance
  <2>11. Distance(from + Clamp(0, x, book[t]), from + o) <= Tolerance
    BY <2>1, <2>2, <2>8, <2>10
  <2> QED
    BY <2>3, <2>7, <2>11
<1> QED
  BY <1>1, InductiveInvariant, PTL

(* The mapping of positions to tracks and back, at every position in and   *)
(* around the book: boundaries belong to the next track, the end to the    *)
(* last, and mapping back recovers the position.                           *)
THEOREM MappingInvertible == Spec => []MappingIsHalfOpenAndInvertible
<1>1. SeekInv => MappingIsHalfOpenAndInvertible
  <2> SUFFICES ASSUME SeekInv, NEW a \in -Beyond..(TotalDuration(book) + Beyond)
               PROVE  LET p == AbsoluteToTrack(book, a) IN
                      /\ p.clamped = (Clamp(0, a, TotalDuration(book)) # a)
                      /\ TrackToAbsolute(book, p.trackIndex, p.offset)
                           = Clamp(0, a, TotalDuration(book))
                      /\ p.offset = book[p.trackIndex + 1] => p.trackIndex + 1 = Len(book)
    BY DEF MappingIsHalfOpenAndInvertible
  <2> DEFINE p == AbsoluteToTrack(book, a)
  <2>1. book \in Books /\ book \in Durations /\ Beyond \in Nat
    BY BooksAreDurations, SeekAssumption DEF SeekInv, TypeOK
  <2>2. a \in Int
    BY <2>1, TotalIsNat
  <2>3. /\ p.trackIndex \in 0..(Len(book) - 1)
        /\ p.offset \in 0..book[p.trackIndex + 1]
        /\ StartOf(book, p.trackIndex) + p.offset = Clamp(0, a, TotalDuration(book))
        /\ p.clamped = (Clamp(0, a, TotalDuration(book)) # a)
        /\ p.offset = book[p.trackIndex + 1] => p.trackIndex + 1 = Len(book)
    BY <2>1, <2>2, Mapped
  <2>4. Clamp(0, p.offset, book[p.trackIndex + 1]) = p.offset
    <3> DEFINE o == p.offset
               end == book[p.trackIndex + 1]
    <3>1. p.trackIndex + 1 \in 1..Len(book)
      BY <2>1, <2>3, DurationsOf
    <3>2. o \in 0..end /\ end \in Nat
      BY <2>1, <2>3, <3>1, DurationsOf
    <3> HIDE DEF o, end
    <3>3. Clamp(0, o, end) = o
      BY <3>2 DEF Clamp
    <3> QED
      BY <3>3 DEF o, end
  <2>5. TrackToAbsolute(book, p.trackIndex, p.offset) = Clamp(0, a, TotalDuration(book))
    BY <2>3, <2>4 DEF TrackToAbsolute
  <2> QED
    BY <2>3, <2>5
<1> QED
  BY <1>1, InductiveInvariant, PTL

(* Math.round: a speaker is sent the nearest second.                       *)
LEMMA NearestSecond ==
  ASSUME NEW t \in Nat
  PROVE  /\ SecondsOf(t) \in Nat
         /\ TicksOf(SecondsOf(t)) \in Nat
         /\ 2 * Distance(TicksOf(SecondsOf(t)), t) <= Scale
<1>1. Scale \in Nat \ {0}
  BY ScaleAssumption
<1> DEFINE q == (2 * t + Scale) \div (2 * Scale)
<1>2. \A x \in Nat, y \in Nat \ {0} : x \div y \in Nat /\ y * (x \div y) <= x /\ x < y * (x \div y) + y
  OBVIOUS
<1>3. 2 * t + Scale \in Nat /\ 2 * Scale \in Nat \ {0}
  BY <1>1
<1>4. q \in Nat /\ (2 * Scale) * q <= 2 * t + Scale /\ 2 * t + Scale < (2 * Scale) * q + 2 * Scale
  BY <1>2, <1>3
<1> HIDE DEF q
<1>5. \A a, b \in Nat : (2 * a) * b = 2 * (b * a) /\ b * a \in Nat
  OBVIOUS
<1>6. (2 * Scale) * q = 2 * (q * Scale) /\ q * Scale \in Nat
  BY <1>1, <1>4, <1>5
<1>7. CASE t = 0
  <2>1. SecondsOf(t) = 0 /\ 0 * Scale = 0
    BY <1>1, <1>7 DEF SecondsOf
  <2> QED
    BY <1>1, <1>7, <2>1 DEF TicksOf, Distance
<1>8. CASE t > 0
  <2>1. SecondsOf(t) = q
    BY <1>8 DEF SecondsOf, q
  <2> DEFINE w == q * Scale
  <2>2. w \in Nat /\ 2 * w <= 2 * t + Scale /\ 2 * t + Scale < 2 * w + 2 * Scale
    BY <1>1, <1>4, <1>6
  <2> HIDE DEF w
  <2>3. 2 * Distance(w, t) <= Scale
    BY <1>1, <2>2 DEF Distance
  <2> QED
    BY <1>4, <2>1, <2>2, <2>3 DEF TicksOf, w
<1> QED
  BY <1>7, <1>8

(* A position sent to a speaker and read back, as the sync loop reads it,  *)
(* is the position within half a second - across the track mapping and the *)
(* rounding, also where the nearest second lies past the end of its track. *)
THEOREM PositionsSurviveTheSpeaker ==
  ASSUME NEW d \in Durations, NEW a \in Int
  PROVE  LET p == AbsoluteToTrack(d, a) IN
         2 * Distance(Reported(d, p.trackIndex + 1, SecondsOf(p.offset)), Clamp(0, a, TotalDuration(d))) <= Scale
<1> DEFINE p == AbsoluteToTrack(d, a)
           i == p.trackIndex
           o == p.offset
           w == TicksOf(SecondsOf(o))
           here == Clamp(0, a, TotalDuration(d))
<1>1. /\ i \in 0..(Len(d) - 1)
      /\ o \in 0..d[i + 1]
      /\ StartOf(d, i) + o = here
  BY Mapped
<1>2. Len(d) \in Nat \ {0} /\ i + 1 \in 1..Len(d) /\ i \in 0..Len(d) /\ d[i + 1] \in Nat \ {0}
  <2> HIDE DEF i
  <2> QED
    BY <1>1, DurationsOf
<1>3. StartOf(d, i) \in Nat
  BY <1>2, StartOfSums
<1>4. w \in Nat /\ 2 * Distance(w, o) <= Scale
  <2>1. o \in Nat
    BY <1>1, <1>2
  <2> QED
    BY <2>1, NearestSecond
<1>5. Reported(d, i + 1, SecondsOf(o)) = StartOf(d, i) + Clamp(0, w, d[i + 1])
  <2>1. Clamp(0, (i + 1) - 1, Len(d) - 1) = i
    <3> HIDE DEF i
    <3> QED
      BY <1>1, <1>2 DEF Clamp
  <2> QED
    BY <2>1 DEF Reported, TrackToAbsolute
<1> HIDE DEF i, o, w, here
<1>6. 2 * Distance(StartOf(d, i) + Clamp(0, w, d[i + 1]), StartOf(d, i) + o) <= Scale
  <2> DEFINE S == StartOf(d, i)
             D == d[i + 1]
  <2>1. S \in Nat /\ D \in Nat /\ o \in 0..D /\ w \in Nat /\ 2 * Distance(w, o) <= Scale /\ Scale \in Nat
    BY <1>1, <1>2, <1>3, <1>4, ScaleAssumption
  <2> HIDE DEF S, D
  <2>2. 2 * Distance(S + Clamp(0, w, D), S + o) <= Scale
    BY <2>1 DEF Distance, Clamp
  <2> QED
    BY <2>2 DEF S, D
<1> QED
  BY <1>1, <1>5, <1>6 DEF i, o, here

(* An offset the speaker accepts is within the tolerance of the one sought *)
(* where that is half a second or more (SEEK_TOLERANCE_SECONDS is 3 unless *)
(* configured): no attempt is repeated on account of the rounding alone.   *)
THEOREM SoughtIsNearEnough ==
  ASSUME Scale <= 2 * Tolerance
  PROVE  Spec => [][SeekOffset => Distance(TicksOf(speaker'.rel), Plan.offset) <= Tolerance]_vars
<1>1. TypeOK /\ SeekOffset => Distance(TicksOf(speaker'.rel), Plan.offset) <= Tolerance
  <2> SUFFICES ASSUME TypeOK, SeekOffset
               PROVE  Distance(TicksOf(speaker'.rel), Plan.offset) <= Tolerance
    OBVIOUS
  <2> DEFINE o == Plan.offset
             w == TicksOf(SecondsOf(o))
  <2>1. o \in Nat
    BY PlanTyped
  <2>2. w \in Nat /\ 2 * Distance(w, o) <= Scale
    BY <2>1, NearestSecond
  <2>3. speaker'.rel = SecondsOf(o)
    BY DEF SeekOffset, SoughtOffset, TypeOK
  <2> HIDE DEF o
  <2>4. Distance(w, o) \in Nat
    BY <2>1, <2>2 DEF Distance
  <2>5. Tolerance \in Nat /\ Scale \in Nat
    BY SeekAssumption, ScaleAssumption
  <2>6. Distance(w, o) <= Tolerance
    <3> HIDE DEF w
    <3> QED
      BY <2>2, <2>4, <2>5
  <2> QED
    BY <2>3, <2>6 DEF o
<1>2. TypeOK /\ [Next]_vars => [SeekOffset => Distance(TicksOf(speaker'.rel), Plan.offset) <= Tolerance]_vars
  BY <1>1
<1> QED
  BY <1>2, TypeCorrect, PTL DEF Spec

-----------------------------------------------------------------------------
(* Sorting a library.                                                      *)

(* The ways to list n of the books in the order of their titles. *)
Ascending(S, n) ==
  { s \in [1..n -> S] : \A k, m \in 1..n : k < m => s[k] < s[m] }

LEMMA AscendingExist ==
  ASSUME NEW S \in SUBSET Nat, IsFiniteSet(S)
  PROVE  Ascending(S, Cardinality(S)) # {}
<1> DEFINE Listable(n) == \A B \in SUBSET S : Cardinality(B) = n => Ascending(B, n) # {}
           T == { n \in Nat : Listable(n) }
<1>0. \A B \in SUBSET S : IsFiniteSet(B) /\ Cardinality(B) \in Nat
  BY FS_Subset, FS_CardinalityType
<1>1. 0 \in T
  <2>1. ASSUME NEW B \in SUBSET S PROVE [k \in 1..0 |-> k] \in Ascending(B, 0)
    BY DEF Ascending
  <2> QED
    BY <2>1
<1>2. ASSUME NEW n \in T PROVE n + 1 \in T
  <2> SUFFICES ASSUME NEW B \in SUBSET S, Cardinality(B) = n + 1
               PROVE  Ascending(B, n + 1) # {}
    OBVIOUS
  <2>0. n \in Nat /\ Listable(n)
    OBVIOUS
  <2>1. B # {}
    BY <1>0, <2>0, FS_EmptySet
  <2>2. PICK first \in B : \A k \in B : first <= k
    BY <2>1, Least
  <2>3. Cardinality(B \ {first}) = n
    <3>1. IsFiniteSet(B) /\ first \in B
      BY <1>0
    <3>2. Cardinality(B \ {first}) = Cardinality(B) - 1
      BY <3>1, FS_RemoveElement
    <3> QED
      BY <2>0, <3>2
  <2>4. PICK s \in Ascending(B \ {first}, n) : TRUE
    BY <2>0, <2>3
  <2> DEFINE t == [k \in 1..(n + 1) |-> IF k = 1 THEN first ELSE s[k - 1]]
  <2>5. \A k \in 2..(n + 1) : k - 1 \in 1..n /\ s[k - 1] \in B \ {first}
    BY <2>0, <2>4 DEF Ascending
  <2>6. \A k \in 2..(n + 1) : first < s[k - 1]
    <3>1. \A i \in B \ {first} : first <= i /\ i # first /\ i \in Nat /\ first \in Nat
      BY <2>2
    <3>2. \A i \in B \ {first} : first < i
      BY <3>1
    <3> QED
      BY <2>5, <3>2
  <2>7. t \in [1..(n + 1) -> B]
    BY <2>0, <2>5
  <2>8. ASSUME NEW k \in 1..(n + 1), NEW m \in 1..(n + 1), k < m PROVE t[k] < t[m]
    <3>1. m \in 2..(n + 1) /\ t[m] = s[m - 1]
      BY <2>0, <2>8
    <3>2. CASE k = 1
      BY <2>6, <3>1, <3>2
    <3>3. CASE k # 1
      <4>1. k \in 2..(n + 1) /\ t[k] = s[k - 1] /\ k - 1 < m - 1
        BY <2>0, <2>8, <3>3
      <4> QED
        BY <2>4, <2>5, <3>1, <4>1 DEF Ascending
    <3> QED
      BY <3>2, <3>3
  <2>9. t \in Ascending(B, n + 1)
    BY <2>7, <2>8 DEF Ascending
  <2> QED
    BY <2>9
<1>3. T = Nat
  <2> HIDE DEF T
  <2>1. T \in SUBSET Nat
    BY DEF T
  <2> QED
    BY <1>1, <1>2, <2>1, SetInduction
<1>4. Cardinality(S) \in T
  BY <1>0, <1>3
<1> QED
  BY <1>4

(* Every book of a library is listed, once, in the order of the titles.    *)
LEMMA SortedListsAll ==
  ASSUME NEW S \in SUBSET Nat, IsFiniteSet(S)
  PROVE  /\ Cardinality(S) \in Nat
         /\ Sorted(S) \in [1..Cardinality(S) -> S]
         /\ \A k, m \in 1..Cardinality(S) : k < m => Sorted(S)[k] < Sorted(S)[m]
         /\ \A k, m \in 1..Cardinality(S) : Sorted(S)[k] = Sorted(S)[m] => k = m
         /\ \A i \in S : \E k \in 1..Cardinality(S) : Sorted(S)[k] = i
<1> DEFINE n == Cardinality(S)
           s == Sorted(S)
<1>1. n \in Nat
  BY FS_CardinalityType
<1>2. \E f \in [1..n -> S] : \A k, m \in DOMAIN f : k < m => f[k] < f[m]
  BY AscendingExist DEF Ascending
<1>3. s \in [1..n -> S] /\ \A k, m \in 1..n : k < m => s[k] < s[m]
  BY <1>2 DEF Sorted
<1> HIDE DEF s
<1>4. \A k, m \in 1..n : s[k] = s[m] => k = m
  <2> SUFFICES ASSUME NEW k \in 1..n, NEW m \in 1..n, s[k] = s[m] PROVE k = m
    OBVIOUS
  <2>1. s[k] \in Nat /\ s[m] \in Nat
    BY <1>3
  <2>2. ~(k < m) /\ ~(m < k)
    BY <1>3, <2>1
  <2> QED
    BY <1>1, <2>2
<1>5. s \in Injection(1..n, S)
  BY <1>3, <1>4 DEF Injection, IsInjective
<1>6. Cardinality(1..n) = n
  BY <1>1, FS_Interval
<1>7. s \in Surjection(1..n, S)
  BY <1>5, <1>6, FS_Injection
<1>8. \A i \in S : \E k \in 1..n : s[k] = i
  BY <1>7 DEF Surjection
<1> QED
  BY <1>1, <1>3, <1>4, <1>8 DEF s

-----------------------------------------------------------------------------
(* What a library has before a place in it.                                *)

(* The first n books, or all of them where there are not as many. *)
Passed(books, n) == { Sorted(books)[k] : k \in { m \in 1..Cardinality(books) : m <= n } }

LEMMA PassedIsALeadingPart ==
  ASSUME NEW S \in SUBSET Nat, IsFiniteSet(S), NEW n \in Nat
  PROVE  /\ Passed(S, n) \in SUBSET S
         /\ Cardinality(Passed(S, n)) = IF n <= Cardinality(S) THEN n ELSE Cardinality(S)
         /\ \A i \in Passed(S, n), j \in S : j < i => j \in Passed(S, n)
         /\ Cardinality(S) <= n => Passed(S, n) = S
         /\ Passed(S, 0) = {}
<1> DEFINE c == Cardinality(S)
           s == Sorted(S)
           l == IF n <= c THEN n ELSE c
           P == Passed(S, n)
<1>1. /\ c \in Nat
      /\ s \in [1..c -> S]
      /\ \A k, m \in 1..c : k < m => s[k] < s[m]
      /\ \A k, m \in 1..c : s[k] = s[m] => k = m
      /\ \A i \in S : \E k \in 1..c : s[k] = i
  BY SortedListsAll
<1> HIDE DEF c, s
<1>2. l \in Nat /\ l <= c /\ { m \in 1..c : m <= n } = 1..l
  BY <1>1
<1>3. P = { s[k] : k \in 1..l }
  BY <1>2 DEF Passed, s, c
<1> HIDE DEF l, P
<1>4. P \in SUBSET S
  BY <1>1, <1>2, <1>3
<1>5. Cardinality(P) = l
  <2> DEFINE f == [k \in 1..l |-> s[k]]
  <2>1. f \in [1..l -> P]
    BY <1>3
  <2>2. \A i \in P : \E k \in 1..l : f[k] = i
    BY <1>3
  <2>3. \A k, m \in 1..l : f[k] = f[m] => k = m
    BY <1>1, <1>2
  <2> HIDE DEF f
  <2>4. f \in Surjection(1..l, P)
    BY <2>1, <2>2 DEF Surjection
  <2>5. f \in Injection(1..l, P)
    BY <2>1, <2>3 DEF Injection, IsInjective
  <2>6. IsFiniteSet(1..l) /\ Cardinality(1..l) = l
    BY <1>2, FS_Interval
  <2> QED
    BY <2>4, <2>5, <2>6, FS_Surjection
<1>6. ASSUME NEW i \in P, NEW j \in S, j < i PROVE j \in P
  <2>1. PICK k \in 1..l : i = s[k]
    BY <1>3
  <2>2. PICK m \in 1..c : s[m] = j
    BY <1>1
  <2>3. k \in 1..c /\ i \in Nat /\ j \in Nat
    BY <1>1, <1>2, <1>4, <2>1
  <2>4. ~(k < m) /\ k # m
    BY <1>1, <1>6, <2>1, <2>2, <2>3
  <2>5. m \in 1..l
    BY <1>1, <1>2, <2>2, <2>4
  <2> QED
    BY <1>3, <2>2, <2>5
<1>7. c <= n => P = S
  <2> SUFFICES ASSUME c <= n PROVE S \subseteq P
    BY <1>4
  <2>1. l = c
    BY <1>1 DEF l
  <2> QED
    BY <1>1, <1>3, <2>1
<1>8. Passed(S, 0) = {}
  <2>1. { m \in 1..c : m <= 0 } = {}
    BY <1>1
  <2> QED
    BY <2>1 DEF Passed, c
<1> QED
  BY <1>4, <1>5, <1>6, <1>7, <1>8 DEF P, l, c

(* A book that is added, or removed, moves at most one other across a      *)
(* place in its library.                                                   *)
LEMMA OneMovesAcross ==
  ASSUME NEW S \in SUBSET Nat, IsFiniteSet(S), NEW x \in Nat \ S, NEW n \in Nat
  PROVE  \E y \in Nat : \A i \in S \ {y} : i \in Passed(S, n) <=> i \in Passed(S \cup {x}, n)
<1> DEFINE c == Cardinality(S)
           P == Passed(S, n)
           Q == Passed(S \cup {x}, n) \ {x}
           p == Cardinality(P)
           q == Cardinality(Q)
<1>1. c \in Nat /\ IsFiniteSet(S \cup {x}) /\ Cardinality(S \cup {x}) = c + 1
  BY FS_CardinalityType, FS_AddElement
<1>2. /\ P \in SUBSET S
      /\ p = IF n <= c THEN n ELSE c
      /\ \A i \in P, j \in S : j < i => j \in P
  BY PassedIsALeadingPart
<1>3. /\ Passed(S \cup {x}, n) \in SUBSET (S \cup {x})
      /\ Cardinality(Passed(S \cup {x}, n)) = IF n <= c + 1 THEN n ELSE c + 1
      /\ \A i \in Passed(S \cup {x}, n), j \in S \cup {x} : j < i => j \in Passed(S \cup {x}, n)
      /\ c + 1 <= n => Passed(S \cup {x}, n) = S \cup {x}
  <2> DEFINE U == S \cup {x}
  <2>1. U \in SUBSET Nat /\ IsFiniteSet(U) /\ Cardinality(U) = c + 1
    BY <1>1
  <2> HIDE DEF U, c
  <2>2. /\ Passed(U, n) \in SUBSET U
        /\ Cardinality(Passed(U, n)) = IF n <= Cardinality(U) THEN n ELSE Cardinality(U)
        /\ \A i \in Passed(U, n), j \in U : j < i => j \in Passed(U, n)
        /\ Cardinality(U) <= n => Passed(U, n) = U
    BY <2>1, PassedIsALeadingPart
  <2>3. /\ Passed(U, n) \in SUBSET U
        /\ Cardinality(Passed(U, n)) = IF n <= c + 1 THEN n ELSE c + 1
        /\ \A i \in Passed(U, n), j \in U : j < i => j \in Passed(U, n)
        /\ c + 1 <= n => Passed(U, n) = U
    BY <2>1, <2>2
  <2> QED
    BY <2>3 DEF U
<1>4. /\ Q \in SUBSET S
      /\ \A i \in Q, j \in S : j < i => j \in Q
  BY <1>3
<1>5. IsFiniteSet(P) /\ IsFiniteSet(Q) /\ IsFiniteSet(Passed(S \cup {x}, n)) /\ p \in Nat /\ q \in Nat
  <2>1. IsFiniteSet(P) /\ IsFiniteSet(Q)
    BY <1>2, <1>4, FS_Subset
  <2>2. IsFiniteSet(Passed(S \cup {x}, n))
    BY <1>1, <1>3, FS_Subset
  <2> QED
    BY <2>1, <2>2, FS_CardinalityType
<1>6. q \in {p - 1, p, p + 1}
  <2>1. q = IF x \in Passed(S \cup {x}, n) THEN Cardinality(Passed(S \cup {x}, n)) - 1
            ELSE Cardinality(Passed(S \cup {x}, n))
    BY <1>5, FS_RemoveElement
  <2> HIDE DEF q, p, Q, P
  <2>2. c + 1 <= n => x \in Passed(S \cup {x}, n)
    BY <1>3
  <2> QED
    BY <1>1, <1>2, <1>3, <2>1, <2>2
<1> HIDE DEF c, P, Q, p, q
<1>7. P \subseteq Q \/ Q \subseteq P
  <2> SUFFICES ASSUME NEW i \in P, NEW j \in Q, i \notin Q, j \notin P PROVE FALSE
    OBVIOUS
  <2>1. i \in S /\ j \in S /\ i \in Nat /\ j \in Nat /\ i # j
    BY <1>2, <1>4
  <2>2. i < j \/ j < i
    BY <2>1
  <2> QED
    BY <1>2, <1>4, <2>1, <2>2
<1>8. ASSUME NEW A, NEW B, A \subseteq B, IsFiniteSet(A), IsFiniteSet(B), B \subseteq Nat,
             Cardinality(B) \in {Cardinality(A), Cardinality(A) + 1}
      PROVE  \E y \in Nat : B \ {y} \subseteq A
  <2>1. Cardinality(A) \in Nat /\ Cardinality(B) \in Nat
    BY <1>8, FS_CardinalityType
  <2>2. IsFiniteSet(B \ A) /\ Cardinality(B \ A) = Cardinality(B) - Cardinality(B \cap A)
    BY <1>8, FS_Difference
  <2>3. B \cap A = A
    BY <1>8
  <2>4. Cardinality(B \ A) = 0 \/ Cardinality(B \ A) = 1
    <3>1. Cardinality(B \ A) = Cardinality(B) - Cardinality(A)
      BY <2>2, <2>3
    <3>2. Cardinality(B) = Cardinality(A) \/ Cardinality(B) = Cardinality(A) + 1
      BY <1>8
    <3> QED
      BY <2>1, <3>1, <3>2
  <2>5. B \ A = {} \/ \E y : B \ A = {y}
    BY <2>2, <2>4, FS_EmptySet, FS_Singleton
  <2> QED
    BY <1>8, <2>5
<1>9. \E y \in Nat : \A i \in S \ {y} : i \in P <=> i \in Q
  <2>1. CASE P \subseteq Q
    <3>1. q \in {p, p + 1}
      <4>1. p <= q
        BY <1>5, <2>1, FS_Subset DEF p, q
      <4> QED
        BY <1>5, <1>6, <4>1
    <3>2. Q \subseteq Nat
      BY <1>4
    <3>3. PICK y \in Nat : Q \ {y} \subseteq P
      BY <1>5, <1>8, <2>1, <3>1, <3>2 DEF p, q
    <3> QED
      BY <2>1, <3>3
  <2>2. CASE Q \subseteq P
    <3>1. p \in {q, q + 1}
      <4>1. q <= p
        BY <1>5, <2>2, FS_Subset DEF p, q
      <4> QED
        BY <1>5, <1>6, <4>1
    <3>2. P \subseteq Nat
      BY <1>2
    <3>3. PICK y \in Nat : P \ {y} \subseteq Q
      BY <1>5, <1>8, <2>2, <3>1, <3>2 DEF p, q
    <3> QED
      BY <2>2, <3>3
  <2> QED
    BY <1>7, <2>1, <2>2
<1>10. \A i \in S : i \in Q <=> i \in Passed(S \cup {x}, n)
  BY DEF Q
<1> QED
  BY <1>9, <1>10 DEF P

-----------------------------------------------------------------------------
(* Pages.                                                                  *)

LEMMA NextPlace ==
  ASSUME NEW p \in Nat, NEW n \in Nat
  PROVE  p * n \in Nat /\ (p + 1) * n = p * n + n
<1>1. \A a, k \in Nat : a * k \in Nat
  OBVIOUS
<1>2. \A a, k \in Nat : (a + 1) * k = a * k + k
  OBVIOUS
<1> QED
  BY <1>1, <1>2

(* A page is the books between two places of its library, in order.        *)
LEMMA PageOfALibrary ==
  ASSUME NEW S \in SUBSET Nat, IsFiniteSet(S), NEW page \in Nat, limit \in Nat \ {0}
  PROVE  LET c == Cardinality(S)
             b == page * limit
             r == Results(S, page)
         IN /\ r \in Seq(S)
            /\ Len(r) = IF c <= b THEN 0 ELSE IF c <= b + limit THEN c - b ELSE limit
            /\ \A k \in 1..Len(r) : b + k \in 1..c /\ r[k] = Sorted(S)[b + k]
<1> DEFINE c == Cardinality(S)
           b == page * limit
           s == Sorted(S)
           rest == SubSeq(s, b + 1, c)
           r == Results(S, page)
<1>1. c \in Nat /\ b \in Nat /\ s \in [1..c -> S]
  BY SortedListsAll, NextPlace
<1>2. r = IF Len(rest) <= limit THEN rest ELSE SubSeq(rest, 1, limit)
  BY DEF Results, UpTo
<1> HIDE DEF c, b, s, r
<1>3. /\ rest \in Seq(S)
      /\ Len(rest) = IF b + 1 <= c THEN c - b ELSE 0
      /\ \A k \in 1..(c - b) : rest[k] = s[b + k]
  <2>1. \A k \in (b + 1)..c : s[k] \in S
    BY <1>1
  <2>2. /\ rest \in Seq(S)
        /\ Len(rest) = IF b + 1 <= c THEN c - (b + 1) + 1 ELSE 0
        /\ \A k \in 1..(c - (b + 1) + 1) : rest[k] = s[b + 1 + k - 1]
    BY <1>1, <2>1, SubSeqProperties
  <2>3. c - (b + 1) + 1 = c - b /\ \A k \in 1..(c - b) : b + 1 + k - 1 = b + k
    BY <1>1
  <2> QED
    BY <2>2, <2>3
<1> HIDE DEF rest
<1>4. CASE Len(rest) <= limit
  <2>1. r = rest
    BY <1>2, <1>4
  <2>2. Len(r) = IF c <= b THEN 0 ELSE IF c <= b + limit THEN c - b ELSE limit
    BY <1>1, <1>3, <1>4, <2>1
  <2>3. \A k \in 1..Len(r) : k \in 1..(c - b) /\ b + k \in 1..c
    BY <1>1, <1>3, <2>1
  <2> QED
    BY <1>3, <2>1, <2>2, <2>3 DEF c, b, s, r
<1>5. CASE ~(Len(rest) <= limit)
  <2>1. r = SubSeq(rest, 1, limit)
    BY <1>2, <1>5
  <2>2. limit < c - b /\ Len(rest) = c - b
    BY <1>1, <1>3, <1>5
  <2>3. \A k \in 1..limit : k \in 1..Len(rest) /\ k \in 1..(c - b) /\ b + k \in 1..c
    BY <1>1, <2>2
  <2>4. \A k \in 1..limit : rest[k] \in S
    BY <1>3, <2>3, ElementOfSeq
  <2>5. /\ r \in Seq(S)
        /\ Len(r) = limit
        /\ \A k \in 1..limit : r[k] = rest[k]
    <3>1. /\ r \in Seq(S)
          /\ Len(r) = IF 1 <= limit THEN limit - 1 + 1 ELSE 0
          /\ \A k \in 1..(limit - 1 + 1) : r[k] = rest[1 + k - 1]
      BY <2>1, <2>4, SubSeqProperties
    <3>2. limit - 1 + 1 = limit /\ \A k \in 1..limit : 1 + k - 1 = k
      OBVIOUS
    <3> QED
      BY <3>1, <3>2
  <2>6. ~(c <= b) /\ ~(c <= b + limit)
    BY <1>1, <2>2
  <2> QED
    BY <1>3, <2>3, <2>5, <2>6 DEF c, b, s, r
<1> QED
  BY <1>4, <1>5

(* A page holds each book at most once, those its library has between the  *)
(* place of the cursor and the next one; where no other page of the        *)
(* library follows, it has none behind that.                               *)
LEMMA PageTurned ==
  ASSUME NEW S \in SUBSET Nat, IsFiniteSet(S), NEW page \in Nat, limit \in Nat \ {0},
         total \in BOOLEAN
  PROVE  LET b == page * limit
             r == Results(S, page)
         IN /\ \A k, m \in 1..Len(r) : r[k] = r[m] => k = m
            /\ \A i : (\E k \in 1..Len(r) : r[k] = i) <=>
                        i \in Passed(S, b + limit) /\ i \notin Passed(S, b)
            /\ MoreInThisLibrary(S, page) => b + limit <= Cardinality(S)
            /\ ~MoreInThisLibrary(S, page) => Cardinality(S) <= b + limit
<1> DEFINE c == Cardinality(S)
           b == page * limit
           s == Sorted(S)
           r == Results(S, page)
           n == Len(r)
<1>1. /\ c \in Nat
      /\ s \in [1..c -> S]
      /\ \A k, m \in 1..c : s[k] = s[m] => k = m
  BY SortedListsAll
<1>2. b \in Nat /\ (page + 1) * limit = b + limit
  BY NextPlace
<1>3. /\ n = IF c <= b THEN 0 ELSE IF c <= b + limit THEN c - b ELSE limit
      /\ \A k \in 1..n : b + k \in 1..c /\ r[k] = s[b + k]
  BY PageOfALibrary
<1>4. \A k, i : k \in Nat => (i \in Passed(S, k) <=> \E m \in 1..c : m <= k /\ s[m] = i)
  BY DEF Passed
<1>5. MoreInThisLibrary(S, page) <=> IF total THEN b + limit < c ELSE n = limit
  BY <1>2 DEF MoreInThisLibrary
<1> HIDE DEF c, b, s, n, r
<1>6. \A k, m \in 1..n : r[k] = r[m] => k = m
  <2> SUFFICES ASSUME NEW k \in 1..n, NEW m \in 1..n, r[k] = r[m] PROVE k = m
    OBVIOUS
  <2>1. b + k = b + m
    BY <1>1, <1>3
  <2> QED
    BY <1>2, <2>1
<1>7. ASSUME NEW k \in 1..n
      PROVE  r[k] \in Passed(S, b + limit) /\ r[k] \notin Passed(S, b)
  <2>1. b + k \in 1..c /\ r[k] = s[b + k] /\ k \in Nat /\ k <= limit /\ 1 <= k
    BY <1>1, <1>2, <1>3
  <2>2. b + k <= b + limit /\ b + limit \in Nat
    BY <1>2, <2>1
  <2>3. r[k] \in Passed(S, b + limit)
    BY <1>4, <2>1, <2>2
  <2>4. ASSUME r[k] \in Passed(S, b) PROVE FALSE
    <3>1. PICK m \in 1..c : m <= b /\ s[m] = r[k]
      BY <1>2, <1>4, <2>4
    <3>2. m = b + k
      BY <1>1, <2>1, <3>1
    <3> QED
      BY <1>2, <2>1, <3>1, <3>2
  <2> QED
    BY <2>3, <2>4
<1>8. ASSUME NEW i, i \in Passed(S, b + limit), i \notin Passed(S, b)
      PROVE  \E k \in 1..n : r[k] = i
  <2>1. b + limit \in Nat
    BY <1>2
  <2>2. PICK m \in 1..c : m <= b + limit /\ s[m] = i
    BY <1>4, <1>8, <2>1
  <2>3. ~(m <= b)
    BY <1>2, <1>4, <1>8, <2>2
  <2>4. m - b \in 1..n
    BY <1>1, <1>2, <1>3, <2>2, <2>3
  <2>5. b + (m - b) = m
    BY <1>2
  <2> QED
    BY <1>3, <2>2, <2>4, <2>5
<1>9. MoreInThisLibrary(S, page) => b + limit <= c
  BY <1>1, <1>2, <1>3, <1>5
<1>10. ~MoreInThisLibrary(S, page) => c <= b + limit
  BY <1>1, <1>2, <1>3, <1>5
<1> QED
  BY <1>6, <1>7, <1>8, <1>9, <1>10 DEF c, b, n, r

-----------------------------------------------------------------------------
(* The walk.                                                               *)

WalkTypeOK ==
  /\ libraries \in [1..Libraries -> SUBSET Item]
  /\ \A k, l \in 1..Libraries : k # l => libraries[k] \cap libraries[l] = {}
  /\ limit \in Nat \ {0}
  /\ total \in BOOLEAN
  /\ cursor \in {NoCursor} \cup [libraryIndex : 0..(Libraries - 1), page : Nat]
  /\ gathered \in Seq(Item)
  /\ changed \in SUBSET Item

(* What the cursor has behind it of library l. *)
Behind(l) ==
  IF cursor = NoCursor \/ l <= cursor.libraryIndex THEN libraries[l]
  ELSE IF l = cursor.libraryIndex + 1 THEN Passed(libraries[l], cursor.page * limit)
  ELSE {}

Due(i) == \E l \in 1..Libraries : i \in Behind(l)

(* The books that were not returned once where they are behind the cursor, *)
(* or were returned where they are not.                                    *)
Amiss == { i \in Catalogue \ changed : Times(i) # IF Due(i) THEN 1 ELSE 0 }

(* One for each book that has come or gone, at most. *)
CostInv == Cardinality(Amiss) <= Cardinality(changed)

LEMMA WalkTypes ==
  ASSUME WalkTypeOK
  PROVE  /\ IsFiniteSet(Item) /\ Item \in SUBSET Nat
         /\ \A l \in 1..Libraries : libraries[l] \in SUBSET Nat /\ IsFiniteSet(libraries[l])
         /\ cursor # NoCursor =>
              cursor.libraryIndex + 1 \in 1..Libraries /\ cursor.page \in Nat /\ cursor.libraryIndex \in Nat
         /\ Len(libraries) = Libraries /\ DOMAIN libraries = 1..Libraries
         /\ \A i : i \in Catalogue <=> \E l \in 1..Libraries : i \in libraries[l]
<1>1. IsFiniteSet(Item) /\ Item \in SUBSET Nat /\ Libraries \in Nat \ {0}
  BY LibraryAssumption
<1>2. \A l \in 1..Libraries : libraries[l] \in SUBSET Nat /\ IsFiniteSet(libraries[l])
  BY <1>1, FS_Subset DEF WalkTypeOK
<1>3. cursor # NoCursor =>
        cursor.libraryIndex + 1 \in 1..Libraries /\ cursor.page \in Nat /\ cursor.libraryIndex \in Nat
  BY <1>1 DEF WalkTypeOK
<1>4. DOMAIN libraries = 1..Libraries
  BY DEF WalkTypeOK
<1>5. Len(libraries) = Libraries
  BY <1>1, <1>4, LenProperties, SeqDef DEF WalkTypeOK
<1>6. \A i : i \in Catalogue <=> \E l \in 1..Libraries : i \in libraries[l]
  BY <1>4 DEF Catalogue, Range
<1> QED
  BY <1>1, <1>2, <1>3, <1>4, <1>5, <1>6

LEMMA WalkTypeStep == WalkTypeOK /\ [WalkNext]_walkVars => WalkTypeOK'
<1> SUFFICES ASSUME WalkTypeOK, [WalkNext]_walkVars PROVE WalkTypeOK'
  OBVIOUS
<1>0. /\ IsFiniteSet(Item) /\ Item \in SUBSET Nat
      /\ \A l \in 1..Libraries : libraries[l] \in SUBSET Nat /\ IsFiniteSet(libraries[l])
      /\ cursor # NoCursor =>
           cursor.libraryIndex + 1 \in 1..Libraries /\ cursor.page \in Nat /\ cursor.libraryIndex \in Nat
      /\ Len(libraries) = Libraries /\ DOMAIN libraries = 1..Libraries
      /\ \A i : i \in Catalogue <=> \E l \in 1..Libraries : i \in libraries[l]
  BY WalkTypes
<1>1. CASE Browse
  <2> DEFINE books == libraries[cursor.libraryIndex + 1]
  <2>1. /\ cursor # NoCursor
        /\ gathered' = gathered \o Results(books, cursor.page)
        /\ cursor' = NextCursor(books)
        /\ UNCHANGED <<libraries, limit, total, changed>>
    BY <1>1 DEF Browse
  <2>2. books \in SUBSET Item /\ books \in SUBSET Nat /\ IsFiniteSet(books) /\ cursor.page \in Nat
    BY <1>0, <2>1 DEF WalkTypeOK
  <2>3. Results(books, cursor.page) \in Seq(books)
    BY <2>2, PageOfALibrary DEF WalkTypeOK
  <2>4. Results(books, cursor.page) \in Seq(Item)
    BY <2>2, <2>3, SeqMonotonic
  <2>5. gathered' \in Seq(Item)
    BY <2>1, <2>4, ConcatProperties DEF WalkTypeOK
  <2>6. cursor \in [libraryIndex : 0..(Libraries - 1), page : Nat]
    BY <2>1 DEF WalkTypeOK
  <2>7. cursor' \in {NoCursor} \cup [libraryIndex : 0..(Libraries - 1), page : Nat]
    BY <1>0, <2>1, <2>6, LibraryAssumption DEF NextCursor
  <2> QED
    BY <2>1, <2>5, <2>7 DEF WalkTypeOK
<1>2. CASE WalkAgain
  <2>1. Start \in [libraryIndex : 0..(Libraries - 1), page : Nat]
    BY LibraryAssumption DEF Start
  <2>2. << >> \in Seq(Item)
    BY EmptySeq
  <2> QED
    BY <1>2, <2>1, <2>2 DEF WalkAgain, WalkTypeOK
<1>3. CASE BookComesOrGoes
  <2>1. PICK x \in Item \ changed :
          /\ changed' = changed \cup {x}
          /\ IF x \in Catalogue
             THEN libraries' = [l \in DOMAIN libraries |-> libraries[l] \ {x}]
             ELSE \E l \in DOMAIN libraries : libraries' = [libraries EXCEPT ![l] = @ \cup {x}]
    BY <1>3 DEF BookComesOrGoes
  <2>2. UNCHANGED <<limit, total, cursor, gathered>>
    BY <1>3 DEF BookComesOrGoes
  <2>3. /\ libraries' \in [1..Libraries -> SUBSET Item]
        /\ \A k, l \in 1..Libraries : k # l => libraries'[k] \cap libraries'[l] = {}
    <3>1. CASE x \in Catalogue
      BY <1>0, <2>1, <3>1 DEF WalkTypeOK
    <3>2. CASE x \notin Catalogue
      <4>1. PICK m \in 1..Libraries : libraries' = [libraries EXCEPT ![m] = @ \cup {x}]
        BY <1>0, <2>1, <3>2
      <4>2. \A l \in 1..Libraries : x \notin libraries[l]
        BY <1>0, <3>2
      <4> QED
        BY <2>1, <4>1, <4>2 DEF WalkTypeOK
    <3> QED
      BY <3>1, <3>2
  <2> QED
    BY <2>1, <2>2, <2>3 DEF WalkTypeOK
<1>4. CASE UNCHANGED walkVars
  BY <1>4 DEF walkVars, WalkTypeOK
<1> QED
  BY <1>1, <1>2, <1>3, <1>4 DEF WalkNext

LEMMA WalkTypeInit == WalkInit => WalkTypeOK
<1> SUFFICES ASSUME WalkInit PROVE WalkTypeOK
  OBVIOUS
<1>1. Start \in [libraryIndex : 0..(Libraries - 1), page : Nat]
  BY LibraryAssumption DEF Start
<1>2. << >> \in Seq(Item) /\ DOMAIN libraries = 1..Libraries
  BY EmptySeq DEF WalkInit
<1> QED
  BY <1>1, <1>2, LibraryAssumption DEF WalkInit, WalkTypeOK

-----------------------------------------------------------------------------
(* A book that comes or goes costs one other at most.                      *)

(* How often a book has been returned once another page is. *)
LEMMA TimesAfterAPage ==
  ASSUME NEW g \in Seq(Item), NEW r \in Seq(Item),
         \A k, m \in 1..Len(r) : r[k] = r[m] => k = m,
         NEW i
  PROVE  Cardinality({ n \in DOMAIN (g \o r) : (g \o r)[n] = i }) =
         Cardinality({ n \in DOMAIN g : g[n] = i }) + IF \E k \in 1..Len(r) : r[k] = i THEN 1 ELSE 0
<1> DEFINE A == { n \in DOMAIN g : g[n] = i }
           B == { n \in DOMAIN (g \o r) : (g \o r)[n] = i }
<1>1. /\ Len(g) \in Nat /\ Len(r) \in Nat
      /\ DOMAIN g = 1..Len(g)
      /\ DOMAIN (g \o r) = 1..(Len(g) + Len(r))
      /\ \A n \in 1..(Len(g) + Len(r)) : (g \o r)[n] = IF n <= Len(g) THEN g[n] ELSE r[n - Len(g)]
  <2>1. Len(g) \in Nat /\ Len(r) \in Nat /\ DOMAIN g = 1..Len(g)
    BY LenProperties
  <2>2. g \o r \in Seq(Item) /\ Len(g \o r) = Len(g) + Len(r)
    BY ConcatProperties
  <2>3. DOMAIN (g \o r) = 1..(Len(g) + Len(r))
    BY <2>2, LenProperties
  <2> QED
    BY <2>1, <2>3, ConcatProperties
<1>2. IsFiniteSet(A) /\ Cardinality(A) \in Nat
  <2>1. IsFiniteSet(1..Len(g)) /\ A \in SUBSET (1..Len(g))
    BY <1>1, FS_Interval
  <2> QED
    BY <2>1, FS_Subset, FS_CardinalityType
<1>3. CASE \E k \in 1..Len(r) : r[k] = i
  <2>1. PICK k \in 1..Len(r) : r[k] = i
    BY <1>3
  <2>2. Len(g) + k \notin A
    BY <1>1, <2>1
  <2>3. ASSUME NEW n PROVE n \in B <=> n \in A \cup {Len(g) + k}
    <3>1. CASE n \in 1..Len(g)
      BY <1>1, <2>1, <3>1
    <3>2. CASE n \in (Len(g) + 1)..(Len(g) + Len(r))
      <4>1. n \notin A /\ n - Len(g) \in 1..Len(r) /\ (n - Len(g) = k <=> n = Len(g) + k)
        BY <1>1, <2>1, <3>2
      <4>2. n \in B <=> r[n - Len(g)] = i
        BY <1>1, <3>2
      <4> QED
        BY <2>1, <4>1, <4>2
    <3>3. CASE n \notin 1..(Len(g) + Len(r))
      BY <1>1, <2>1, <3>3
    <3> QED
      BY <1>1, <3>1, <3>2, <3>3
  <2>4. B = A \cup {Len(g) + k}
    BY <2>3
  <2> HIDE DEF A, B
  <2>5. Cardinality(B) = Cardinality(A) + 1
    BY <1>2, <2>2, <2>4, FS_AddElement
  <2> QED
    BY <1>3, <2>5 DEF A, B
<1>4. CASE ~ \E k \in 1..Len(r) : r[k] = i
  <2>1. ASSUME NEW n PROVE n \in B <=> n \in A
    <3>1. CASE n \in 1..Len(g)
      BY <1>1, <3>1
    <3>2. CASE n \in (Len(g) + 1)..(Len(g) + Len(r))
      <4>1. n \notin A /\ n - Len(g) \in 1..Len(r)
        BY <1>1, <3>2
      <4>2. n \in B <=> r[n - Len(g)] = i
        BY <1>1, <3>2
      <4> QED
        BY <1>4, <4>1, <4>2
    <3>3. CASE n \notin 1..(Len(g) + Len(r))
      BY <1>1, <3>3
    <3> QED
      BY <1>1, <3>1, <3>2, <3>3
  <2>2. Cardinality(B) = Cardinality(A)
    BY <2>1
  <2> HIDE DEF A, B
  <2>3. Cardinality(B) = Cardinality(A) + 0
    BY <1>2, <2>2
  <2> QED
    BY <1>4, <2>3 DEF A, B
<1> QED
  BY <1>3, <1>4

(* A page brings what it is due: no book gets out of step with the cursor. *)
LEMMA BrowseKeepsStep == WalkTypeOK /\ Browse => Amiss' = Amiss
<1> SUFFICES ASSUME WalkTypeOK, Browse PROVE Amiss' = Amiss
  OBVIOUS
<1>0. /\ \A l \in 1..Libraries : libraries[l] \in SUBSET Nat /\ IsFiniteSet(libraries[l])
      /\ cursor # NoCursor =>
           cursor.libraryIndex + 1 \in 1..Libraries /\ cursor.page \in Nat /\ cursor.libraryIndex \in Nat
      /\ Len(libraries) = Libraries
      /\ \A i : i \in Catalogue <=> \E l \in 1..Libraries : i \in libraries[l]
  BY WalkTypes
<1> DEFINE here == cursor.libraryIndex + 1
           books == libraries[here]
           page == cursor.page
           b == page * limit
           r == Results(books, page)
           InPage(i) == \E k \in 1..Len(r) : r[k] = i
<1>1. /\ cursor # NoCursor
      /\ gathered' = gathered \o r
      /\ cursor' = IF MoreInThisLibrary(books, page) THEN [cursor EXCEPT !.page = page + 1]
                    ELSE IF here < Len(libraries) THEN [libraryIndex |-> here, page |-> 0]
                    ELSE NoCursor
      /\ UNCHANGED <<libraries, limit, total, changed>>
  BY DEF Browse, NextCursor
<1>2. /\ here \in 1..Libraries /\ cursor.libraryIndex = here - 1
      /\ page \in Nat /\ cursor.page = page
      /\ books = libraries[here]
      /\ books \in SUBSET Nat /\ IsFiniteSet(books) /\ books \in SUBSET Item
      /\ Libraries \in Nat \ {0}
  <2>1. here \in 1..Libraries /\ cursor.libraryIndex \in Nat /\ page \in Nat
    BY <1>0, <1>1
  <2>2. libraries[here] \in SUBSET Item
    BY <2>1 DEF WalkTypeOK
  <2> QED
    BY <1>0, <2>1, <2>2, LibraryAssumption
<1>3. r \in Seq(Item)
  BY <1>2, PageOfALibrary, SeqMonotonic DEF WalkTypeOK
<1>4. /\ \A k, m \in 1..Len(r) : r[k] = r[m] => k = m
      /\ \A i : InPage(i) <=> i \in Passed(books, b + limit) /\ i \notin Passed(books, b)
      /\ ~MoreInThisLibrary(books, page) => Cardinality(books) <= b + limit
  BY <1>2, PageTurned DEF WalkTypeOK
<1>5. b \in Nat /\ (page + 1) * limit = b + limit /\ 0 * limit = 0 /\ limit \in Nat
  BY <1>2, NextPlace DEF WalkTypeOK
<1> HIDE DEF here, books, page
<1>6. /\ \A n \in Nat : Passed(books, n) \in SUBSET books
      /\ Cardinality(books) <= b + limit => Passed(books, b + limit) = books
      /\ \A l \in 1..Libraries : Passed(libraries[l], 0) = {}
  <2> HIDE DEF b
  <2>1. \A n \in Nat : Passed(books, n) \in SUBSET books
    BY <1>2, PassedIsALeadingPart
  <2>2. b + limit \in Nat
    BY <1>5
  <2>3. Cardinality(books) <= b + limit => Passed(books, b + limit) = books
    BY <1>2, <2>2, PassedIsALeadingPart
  <2>4. \A l \in 1..Libraries : Passed(libraries[l], 0) = {}
    BY <1>0, PassedIsALeadingPart
  <2> QED
    BY <2>1, <2>3, <2>4
<1> HIDE DEF r, b
<1>7. \A i : i \in Passed(books, b) => i \in Passed(books, b + limit)
  <2>1. \A i, n : i \in Passed(books, n) <=> \E m \in 1..Cardinality(books) : m <= n /\ Sorted(books)[m] = i
    BY DEF Passed
  <2>2. \A m \in 1..Cardinality(books) : m <= b => m <= b + limit
    BY <1>2, <1>5, FS_CardinalityType
  <2> QED
    BY <2>1, <2>2
<1>8. /\ Behind(here) = Passed(books, b)
      /\ \A l \in 1..Libraries : l < here => Behind(l) = libraries[l]
      /\ \A l \in 1..Libraries : l > here => Behind(l) = {}
  BY <1>1, <1>2 DEF Behind, b
<1>9. ASSUME NEW l \in 1..Libraries
      PROVE  Behind(l)' = IF l = here THEN Passed(books, b + limit) ELSE Behind(l)
  <2>1. Behind(l)' = IF cursor' = NoCursor \/ l <= cursor'.libraryIndex THEN libraries[l]
                     ELSE IF l = cursor'.libraryIndex + 1 THEN Passed(libraries[l], cursor'.page * limit)
                     ELSE {}
    BY <1>1 DEF Behind
  <2>2. /\ l = here => libraries[l] = books
        /\ l < here => Behind(l) = libraries[l]
        /\ l > here => Behind(l) = {}
    BY <1>2, <1>8
  <2>3. CASE MoreInThisLibrary(books, page)
    <3>1. cursor'.libraryIndex = here - 1 /\ cursor'.page = page + 1 /\ cursor' # NoCursor
      BY <1>1, <1>2, <2>3 DEF WalkTypeOK, NoCursor
    <3>2. CASE l < here
      BY <1>2, <2>1, <2>2, <3>1, <3>2
    <3>3. CASE l = here
      BY <1>2, <1>5, <2>1, <2>2, <3>1, <3>3
    <3>4. CASE l > here
      <4>1. ~(l <= cursor'.libraryIndex) /\ l # cursor'.libraryIndex + 1 /\ l # here
        BY <1>2, <3>1, <3>4
      <4>2. Behind(l)' = {}
        BY <2>1, <3>1, <4>1
      <4> QED
        BY <2>2, <3>4, <4>1, <4>2
    <3> QED
      BY <1>2, <3>2, <3>3, <3>4
  <2>4. CASE ~MoreInThisLibrary(books, page) /\ here < Libraries
    <3>1. cursor'.libraryIndex = here /\ cursor'.page = 0 /\ cursor' # NoCursor
      BY <1>0, <1>1, <1>2, <2>4 DEF NoCursor
    <3>2. CASE l < here
      BY <1>2, <2>1, <2>2, <3>1, <3>2
    <3>3. CASE l = here
      <4>1. Behind(l)' = books
        BY <1>2, <2>1, <2>2, <3>1, <3>3
      <4> QED
        BY <1>4, <1>6, <2>4, <3>3, <4>1
    <3>4. CASE l = here + 1
      <4>1. Behind(l)' = Passed(libraries[l], 0)
        BY <1>2, <1>5, <2>1, <3>1, <3>4
      <4>2. l > here /\ l # here
        BY <1>2, <3>4
      <4> QED
        BY <1>6, <2>2, <4>1, <4>2
    <3>5. CASE l > here + 1
      BY <1>2, <2>1, <2>2, <3>1, <3>5
    <3> QED
      BY <1>2, <3>2, <3>3, <3>4, <3>5
  <2>5. CASE ~MoreInThisLibrary(books, page) /\ ~(here < Libraries)
    <3>1. cursor' = NoCursor
      BY <1>0, <1>1, <1>2, <2>5
    <3>2. l <= here
      BY <1>2, <2>5
    <3>3. Behind(l)' = libraries[l]
      BY <2>1, <3>1
    <3> QED
      BY <1>2, <1>4, <1>6, <2>2, <2>5, <3>2, <3>3
  <2> QED
    BY <2>3, <2>4, <2>5
<1>10. ASSUME NEW i PROVE (Due(i)' <=> Due(i) \/ InPage(i)) /\ ~(Due(i) /\ InPage(i))
  <2>1. Due(i)' <=> \E l \in 1..Libraries : i \in Behind(l)'
    BY DEF Due
  <2>2. \A l \in 1..Libraries : l # here /\ i \in Behind(l) => i \in libraries[l]
    BY <1>2, <1>8
  <2>3. InPage(i) => i \in books /\ i \notin Behind(here)
    BY <1>4, <1>5, <1>6, <1>8
  <2>4. InPage(i) => \A l \in 1..Libraries : l # here => i \notin Behind(l)
    BY <1>2, <2>2, <2>3 DEF WalkTypeOK
  <2>5. i \in Passed(books, b + limit) <=> i \in Behind(here) \/ InPage(i)
    BY <1>4, <1>7, <1>8
  <2> HIDE DEF InPage
  <2>6. Due(i)' <=> Due(i) \/ InPage(i)
    <3>1. (\E l \in 1..Libraries : i \in Behind(l)') <=>
            i \in Passed(books, b + limit) \/ \E l \in 1..Libraries : l # here /\ i \in Behind(l)
      BY <1>2, <1>9
    <3> QED
      BY <1>2, <2>1, <2>5, <3>1 DEF Due
  <2>7. ~(Due(i) /\ InPage(i))
    BY <2>3, <2>4 DEF Due
  <2> QED
    BY <2>6, <2>7
<1>11. ASSUME NEW i PROVE Times(i)' = Times(i) + IF InPage(i) THEN 1 ELSE 0
  <2>1. Times(i)' = Cardinality({ n \in DOMAIN (gathered \o r) : (gathered \o r)[n] = i })
    BY <1>1 DEF Times
  <2>2. gathered \in Seq(Item) /\ \A k, m \in 1..Len(r) : r[k] = r[m] => k = m
    BY <1>4 DEF WalkTypeOK
  <2>3. Cardinality({ n \in DOMAIN (gathered \o r) : (gathered \o r)[n] = i }) =
        Cardinality({ n \in DOMAIN gathered : gathered[n] = i }) + IF InPage(i) THEN 1 ELSE 0
    BY <1>3, <2>2, TimesAfterAPage
  <2> HIDE DEF InPage
  <2> QED
    BY <2>1, <2>3 DEF Times
<1>12. \A i : Times(i) \in Nat
  <2> SUFFICES ASSUME NEW i PROVE Times(i) \in Nat
    OBVIOUS
  <2>1. DOMAIN gathered = 1..Len(gathered) /\ Len(gathered) \in Nat
    BY LenProperties DEF WalkTypeOK
  <2>2. IsFiniteSet(1..Len(gathered))
    BY <2>1, FS_Interval
  <2>3. { n \in DOMAIN gathered : gathered[n] = i } \in SUBSET (1..Len(gathered))
    BY <2>1
  <2> QED
    BY <2>2, <2>3, FS_Subset, FS_CardinalityType DEF Times
<1>13. ASSUME NEW i
       PROVE  (Times(i)' # IF Due(i)' THEN 1 ELSE 0) <=> (Times(i) # IF Due(i) THEN 1 ELSE 0)
  <2> HIDE DEF InPage
  <2> QED
    BY <1>10, <1>11, <1>12
<1>14. Catalogue' = Catalogue /\ changed' = changed
  BY <1>1 DEF Catalogue
<1> QED
  BY <1>13, <1>14 DEF Amiss

(* A book that comes or goes puts one other out of step at most: the one   *)
(* it moves across the place of the cursor.                                *)
LEMMA ChangeMovesOne ==
  ASSUME WalkTypeOK, BookComesOrGoes
  PROVE  \E x \in Item \ changed, y \in Nat :
           changed' = changed \cup {x} /\ Amiss' \subseteq Amiss \cup {y}
<1>0. /\ Item \in SUBSET Nat
      /\ \A l \in 1..Libraries : libraries[l] \in SUBSET Nat /\ IsFiniteSet(libraries[l])
      /\ cursor # NoCursor =>
           cursor.libraryIndex + 1 \in 1..Libraries /\ cursor.page \in Nat /\ cursor.libraryIndex \in Nat
      /\ DOMAIN libraries = 1..Libraries
      /\ \A i : i \in Catalogue <=> \E l \in 1..Libraries : i \in libraries[l]
  BY WalkTypes
<1>1. PICK x \in Item \ changed :
        /\ changed' = changed \cup {x}
        /\ IF x \in Catalogue
           THEN libraries' = [l \in DOMAIN libraries |-> libraries[l] \ {x}]
           ELSE \E l \in DOMAIN libraries : libraries' = [libraries EXCEPT ![l] = @ \cup {x}]
  BY DEF BookComesOrGoes
<1>2. cursor # NoCursor /\ UNCHANGED <<limit, total, cursor, gathered>> /\ x \in Nat
  BY <1>0 DEF BookComesOrGoes
<1>3. PICK m \in 1..Libraries :
        /\ \A l \in 1..Libraries : l # m => libraries'[l] = libraries[l]
        /\ \/ x \notin libraries[m] /\ libraries'[m] = libraries[m] \cup {x}
           \/ x \notin libraries'[m] /\ libraries[m] = libraries'[m] \cup {x}
  <2>1. CASE x \in Catalogue
    <3>1. PICK m \in 1..Libraries : x \in libraries[m]
      BY <1>0, <2>1
    <3>2. \A l \in 1..Libraries : libraries'[l] = libraries[l] \ {x}
      BY <1>0, <1>1, <2>1
    <3>3. \A l \in 1..Libraries : l # m => x \notin libraries[l]
      BY <3>1 DEF WalkTypeOK
    <3>4. \A l \in 1..Libraries : l # m => libraries'[l] = libraries[l]
      BY <3>2, <3>3
    <3>5. x \notin libraries'[m] /\ libraries[m] = libraries'[m] \cup {x}
      BY <3>1, <3>2
    <3> QED
      BY <3>4, <3>5
  <2>2. CASE x \notin Catalogue
    <3>1. PICK m \in 1..Libraries : libraries' = [libraries EXCEPT ![m] = @ \cup {x}]
      BY <1>0, <1>1, <2>2
    <3>2. x \notin libraries[m]
      BY <1>0, <2>2
    <3>3. \A l \in 1..Libraries : libraries'[l] = IF l = m THEN libraries[m] \cup {x} ELSE libraries[l]
      BY <1>0, <3>1
    <3> QED
      BY <3>2, <3>3
  <2> QED
    BY <2>1, <2>2
<1>4. DOMAIN libraries' = 1..Libraries /\ libraries'[m] \in SUBSET Nat /\ IsFiniteSet(libraries'[m])
  <2>1. DOMAIN libraries' = 1..Libraries
    BY <1>0, <1>1
  <2>2. libraries'[m] \in SUBSET Nat
    BY <1>0, <1>2, <1>3
  <2>3. IsFiniteSet(libraries[m] \cup {x})
    BY <1>0, FS_AddElement
  <2>4. libraries'[m] \in SUBSET (libraries[m] \cup {x})
    BY <1>3
  <2>5. IsFiniteSet(libraries'[m])
    BY <2>3, <2>4, FS_Subset
  <2> QED
    BY <2>1, <2>2, <2>5
<1>5. \A i : i # x => (i \in libraries'[m] <=> i \in libraries[m])
  BY <1>3
<1>6. \A i : i # x => (i \in Catalogue' <=> i \in Catalogue)
  <2>1. \A i : i \in Catalogue' <=> \E l \in 1..Libraries : i \in libraries'[l]
    BY <1>4 DEF Catalogue, Range
  <2> QED
    BY <1>0, <1>3, <1>5, <2>1
<1>7. \A n \in Nat : \E y \in Nat : \A i : i \notin {x, y} =>
        (i \in Passed(libraries[m], n) <=> i \in Passed(libraries'[m], n))
  <2> SUFFICES ASSUME NEW n \in Nat
               PROVE  \E y \in Nat : \A i : i \notin {x, y} =>
                        (i \in Passed(libraries[m], n) <=> i \in Passed(libraries'[m], n))
    OBVIOUS
  <2> DEFINE A == libraries[m]
             B == libraries'[m]
  <2>1. /\ A \in SUBSET Nat /\ IsFiniteSet(A) /\ B \in SUBSET Nat /\ IsFiniteSet(B)
        /\ x \in Nat
    BY <1>0, <1>2, <1>4
  <2>5. (x \notin A /\ B = A \cup {x}) \/ (x \notin B /\ A = B \cup {x})
    BY <1>3
  <2> HIDE DEF A, B
  <2>2. Passed(A, n) \in SUBSET A /\ Passed(B, n) \in SUBSET B
    BY <2>1, PassedIsALeadingPart
  <2>3. CASE x \notin A /\ B = A \cup {x}
    <3>1. PICK y \in Nat : \A i \in A \ {y} : i \in Passed(A, n) <=> i \in Passed(B, n)
      BY <2>1, <2>3, OneMovesAcross
    <3>2. \A i : i \notin {x, y} => (i \in Passed(A, n) <=> i \in Passed(B, n))
      BY <2>2, <2>3, <3>1
    <3> QED
      BY <3>2 DEF A, B
  <2>4. CASE x \notin B /\ A = B \cup {x}
    <3>1. PICK y \in Nat : \A i \in B \ {y} : i \in Passed(B, n) <=> i \in Passed(A, n)
      BY <2>1, <2>4, OneMovesAcross
    <3>2. \A i : i \notin {x, y} => (i \in Passed(A, n) <=> i \in Passed(B, n))
      BY <2>2, <2>4, <3>1
    <3> QED
      BY <3>2 DEF A, B
  <2> QED
    BY <2>3, <2>4, <2>5
<1>8. PICK y \in Nat : \A i : i \notin {x, y} =>
        (i \in Passed(libraries[m], cursor.page * limit) <=> i \in Passed(libraries'[m], cursor.page * limit))
  <2>1. cursor.page * limit \in Nat
    BY <1>0, <1>2, NextPlace DEF WalkTypeOK
  <2> QED
    BY <1>7, <2>1
<1>9. ASSUME NEW i, i \notin {x, y} PROVE Due(i)' <=> Due(i)
  <2>1. ASSUME NEW l \in 1..Libraries PROVE i \in Behind(l)' <=> i \in Behind(l)
    <3>1. Behind(l)' = IF cursor = NoCursor \/ l <= cursor.libraryIndex THEN libraries'[l]
                       ELSE IF l = cursor.libraryIndex + 1 THEN Passed(libraries'[l], cursor.page * limit)
                       ELSE {}
      BY <1>2 DEF Behind
    <3>2. CASE l = m
      BY <1>5, <1>8, <1>9, <3>1, <3>2 DEF Behind
    <3>3. CASE l # m
      BY <1>3, <3>1, <3>3 DEF Behind
    <3> QED
      BY <3>2, <3>3
  <2>2. Due(i)' <=> \E l \in 1..Libraries : i \in Behind(l)'
    BY DEF Due
  <2> QED
    BY <2>1, <2>2 DEF Due
<1>10. \A i : Times(i)' = Times(i)
  BY <1>2 DEF Times
<1>11. Amiss' \subseteq Amiss \cup {y}
  <2> SUFFICES ASSUME NEW i \in Amiss', i # y PROVE i \in Amiss
    OBVIOUS
  <2>1. i \in Catalogue' /\ i \notin changed' /\ Times(i)' # IF Due(i)' THEN 1 ELSE 0
    BY DEF Amiss
  <2>2. i # x /\ i \notin changed
    BY <1>1, <2>1
  <2>3. i \in Catalogue /\ (Due(i)' <=> Due(i)) /\ Times(i)' = Times(i)
    BY <1>6, <1>9, <1>10, <2>1, <2>2
  <2> QED
    BY <2>1, <2>2, <2>3 DEF Amiss
<1> QED
  BY <1>1, <1>11

(* When a walk begins no book has been returned, and none is due. *)
LEMMA NoneAmissAtFirst ==
  ASSUME WalkTypeOK, cursor = Start, gathered = << >>
  PROVE  Amiss = {}
<1> SUFFICES ASSUME NEW i PROVE Times(i) = 0 /\ ~Due(i)
  BY DEF Amiss
<1>1. Times(i) = 0
  <2>1. { n \in DOMAIN gathered : gathered[n] = i } = {}
    OBVIOUS
  <2> QED
    BY <2>1, FS_EmptySet DEF Times
<1>2. ASSUME NEW l \in 1..Libraries PROVE Behind(l) = {}
  <2>1. Libraries \in Nat /\ limit \in Nat /\ 0 * limit = 0
    BY LibraryAssumption DEF WalkTypeOK
  <2>2. cursor # NoCursor /\ cursor.libraryIndex = 0 /\ cursor.page = 0
    BY DEF Start, NoCursor
  <2>3. Passed(libraries[l], 0) = {}
    BY WalkTypes, PassedIsALeadingPart
  <2> QED
    BY <2>1, <2>2, <2>3 DEF Behind
<1> QED
  BY <1>1, <1>2 DEF Due

LEMMA ChangedIsFinite ==
  ASSUME WalkTypeOK
  PROVE  IsFiniteSet(changed) /\ Cardinality(changed) \in Nat /\ IsFiniteSet(Amiss) /\ Cardinality(Amiss) \in Nat
<1>1. IsFiniteSet(changed)
  BY LibraryAssumption, FS_Subset DEF WalkTypeOK
<1>2. Amiss \in SUBSET Item
  BY WalkTypes DEF Amiss, WalkTypeOK
<1> QED
  BY <1>1, <1>2, LibraryAssumption, FS_Subset, FS_CardinalityType

LEMMA CostStep == WalkTypeOK /\ CostInv /\ [WalkNext]_walkVars => CostInv'
<1> SUFFICES ASSUME WalkTypeOK, CostInv, [WalkNext]_walkVars PROVE CostInv'
  OBVIOUS
<1>0. WalkTypeOK'
  BY WalkTypeStep
<1>1. CASE Browse
  <2>1. Amiss' = Amiss /\ changed' = changed
    BY <1>1, BrowseKeepsStep DEF Browse
  <2> QED
    BY <2>1 DEF CostInv
<1>2. CASE WalkAgain
  <2>1. cursor' = Start /\ gathered' = << >> /\ changed' = {}
    BY <1>2 DEF WalkAgain
  <2>2. (WalkTypeOK /\ cursor = Start /\ gathered = << >> => Amiss = {})'
    BY NoneAmissAtFirst, PTL
  <2>3. Amiss' = {}
    BY <1>0, <2>1, <2>2
  <2>4. Cardinality(Amiss') = 0 /\ Cardinality(changed') = 0
    BY <2>1, <2>3, FS_EmptySet
  <2> QED
    BY <2>4 DEF CostInv
<1>3. CASE BookComesOrGoes
  <2>1. PICK x \in Item \ changed, y \in Nat :
          changed' = changed \cup {x} /\ Amiss' \subseteq Amiss \cup {y}
    BY <1>3, ChangeMovesOne
  <2>2. /\ IsFiniteSet(changed) /\ Cardinality(changed) \in Nat
        /\ IsFiniteSet(Amiss) /\ Cardinality(Amiss) \in Nat
    BY ChangedIsFinite
  <2>3. Cardinality(changed') = Cardinality(changed) + 1
    BY <2>1, <2>2, FS_AddElement
  <2>4. IsFiniteSet(Amiss \cup {y}) /\ Cardinality(Amiss \cup {y}) <= Cardinality(Amiss) + 1
    <3>1. /\ IsFiniteSet(Amiss \cup {y})
          /\ Cardinality(Amiss \cup {y}) = IF y \in Amiss THEN Cardinality(Amiss) ELSE Cardinality(Amiss) + 1
      BY <2>2, FS_AddElement
    <3> QED
      BY <2>2, <3>1
  <2>5. IsFiniteSet(Amiss') /\ Cardinality(Amiss') <= Cardinality(Amiss \cup {y})
    BY <2>1, <2>4, FS_Subset
  <2>6. Cardinality(Amiss') \in Nat /\ Cardinality(Amiss \cup {y}) \in Nat
    BY <2>4, <2>5, FS_CardinalityType
  <2> QED
    BY <2>2, <2>3, <2>4, <2>5, <2>6 DEF CostInv
<1>4. CASE UNCHANGED walkVars
  <2>1. Amiss' = Amiss /\ changed' = changed
    BY <1>4 DEF walkVars, Amiss, Catalogue, Times, Due, Behind
  <2> QED
    BY <2>1 DEF CostInv
<1> QED
  BY <1>1, <1>2, <1>3, <1>4 DEF WalkNext

(* Once the walk is over, every book is behind the cursor.                 *)
LEMMA CostAtTheEnd == WalkTypeOK /\ CostInv => AChangeCostsOneBook
<1> SUFFICES ASSUME WalkTypeOK, CostInv, cursor = NoCursor
             PROVE  Cardinality({ i \in Catalogue \ changed : Times(i) # 1 }) <= Cardinality(changed)
  BY DEF AChangeCostsOneBook
<1>1. \A i \in Catalogue : Due(i)
  BY WalkTypes DEF Due, Behind
<1>2. Amiss = { i \in Catalogue \ changed : Times(i) # 1 }
  BY <1>1 DEF Amiss
<1> QED
  BY <1>2 DEF CostInv

-----------------------------------------------------------------------------
(* What a walk over unchanging libraries returns.                          *)

(* The first n sequences of s, one behind the other. *)
Joined(s, n) ==
  LET joined[k \in 0..Len(s)] == IF k = 0 THEN << >> ELSE joined[k - 1] \o s[k]
  IN joined[n]

JoinsUpTo(s, n) ==
  { g \in [0..n -> Seq(Item)] : \A k \in 0..n : g[k] = IF k = 0 THEN << >> ELSE g[k - 1] \o s[k] }

LEMMA JoinsExist ==
  ASSUME NEW s \in Seq(Seq(Item))
  PROVE  JoinsUpTo(s, Len(s)) # {}
<1> DEFINE T == { n \in Nat : n <= Len(s) => JoinsUpTo(s, n) # {} }
<1>1. Len(s) \in Nat /\ \A k \in 1..Len(s) : s[k] \in Seq(Item)
  BY LenProperties, ElementOfSeq
<1>2. 0 \in T
  <2>1. [k \in 0..0 |-> << >>] \in JoinsUpTo(s, 0)
    BY EmptySeq DEF JoinsUpTo
  <2> QED
    BY <2>1
<1>3. ASSUME NEW n \in T PROVE n + 1 \in T
  <2> SUFFICES ASSUME n + 1 <= Len(s) PROVE JoinsUpTo(s, n + 1) # {}
    OBVIOUS
  <2>1. PICK g \in JoinsUpTo(s, n) : TRUE
    BY <1>1
  <2> DEFINE h == [k \in 0..(n + 1) |-> IF k = n + 1 THEN g[n] \o s[n + 1] ELSE g[k]]
  <2>2. g \in [0..n -> Seq(Item)] /\ \A k \in 0..n : g[k] = IF k = 0 THEN << >> ELSE g[k - 1] \o s[k]
    BY <2>1 DEF JoinsUpTo
  <2>3. n + 1 \in 1..Len(s) /\ n \in 0..n /\ \A k \in 0..(n + 1) : k = n + 1 \/ k \in 0..n
    BY <1>1
  <2>4. g[n] \o s[n + 1] \in Seq(Item)
    BY <1>1, <2>2, <2>3, ConcatProperties
  <2>5. h \in [0..(n + 1) -> Seq(Item)]
    BY <2>2, <2>3, <2>4
  <2>6. ASSUME NEW k \in 0..(n + 1) PROVE h[k] = IF k = 0 THEN << >> ELSE h[k - 1] \o s[k]
    <3>1. CASE k = n + 1
      <4>1. k # 0 /\ k - 1 = n /\ n \in 0..(n + 1) /\ n # n + 1
        BY <3>1
      <4>2. h[k] = g[n] \o s[n + 1] /\ h[n] = g[n]
        BY <3>1, <4>1
      <4> QED
        BY <3>1, <4>1, <4>2
    <3>2. CASE k # n + 1
      <4>1. k \in 0..n /\ h[k] = g[k]
        BY <3>2, <2>3
      <4>2. k # 0 => k - 1 \in 0..(n + 1) /\ k - 1 # n + 1
        BY <3>2
      <4>3. k # 0 => h[k - 1] = g[k - 1]
        BY <4>2
      <4> QED
        BY <4>1, <4>3, <2>2
    <3> QED
      BY <3>1, <3>2
  <2>7. h \in JoinsUpTo(s, n + 1)
    BY <2>5, <2>6 DEF JoinsUpTo
  <2> QED
    BY <2>7
<1>4. T = Nat
  <2> HIDE DEF T
  <2>1. T \in SUBSET Nat
    BY DEF T
  <2> QED
    BY <1>2, <1>3, <2>1, SetInduction
<1> QED
  BY <1>1, <1>4

(* One sequence more. *)
LEMMA JoinedGrows ==
  ASSUME NEW s \in Seq(Seq(Item))
  PROVE  /\ Joined(s, 0) = << >>
         /\ \A k \in 1..Len(s) : Joined(s, k) = Joined(s, k - 1) \o s[k]
         /\ \A k \in 0..Len(s) : Joined(s, k) \in Seq(Item)
<1> DEFINE n == Len(s)
           F(f) == [k \in 0..n |-> IF k = 0 THEN << >> ELSE f[k - 1] \o s[k]]
           joined == CHOOSE f : f = F(f)
<1>1. PICK g \in JoinsUpTo(s, n) : TRUE
  BY JoinsExist
<1>2. g = F(g)
  BY <1>1 DEF JoinsUpTo
<1>3. joined = F(joined)
  BY <1>2
<1>4. \A k : Joined(s, k) = joined[k]
  BY DEF Joined
<1> HIDE DEF joined
<1>5. n \in Nat /\ \A k \in 1..n : s[k] \in Seq(Item)
  BY LenProperties, ElementOfSeq
<1>6. joined[0] = << >>
  <2>1. 0 \in 0..n
    BY <1>5
  <2>2. F(joined)[0] = << >>
    BY <2>1
  <2> QED
    BY <1>3, <2>2
<1>7. \A k \in 1..n : joined[k] = joined[k - 1] \o s[k]
  <2> TAKE k \in 1..n
  <2>1. k \in 0..n /\ k # 0
    BY <1>5
  <2>2. F(joined)[k] = joined[k - 1] \o s[k]
    BY <2>1
  <2> QED
    BY <1>3, <2>2
<1> HIDE DEF F
<1>8. \A k \in 0..n : joined[k] \in Seq(Item)
  <2> DEFINE T == { k \in Nat : k <= n => joined[k] \in Seq(Item) }
  <2>1. 0 \in T
    BY <1>6, EmptySeq
  <2>2. ASSUME NEW k \in T PROVE k + 1 \in T
    <3> SUFFICES ASSUME k + 1 <= n PROVE joined[k + 1] \in Seq(Item)
      OBVIOUS
    <3>1. k + 1 \in 1..n /\ (k + 1) - 1 = k /\ joined[k] \in Seq(Item)
      BY <1>5
    <3>2. joined[k + 1] = joined[k] \o s[k + 1]
      BY <1>7, <3>1
    <3> QED
      BY <1>5, <3>1, <3>2, ConcatProperties
  <2>3. T \in SUBSET Nat
    OBVIOUS
  <2> HIDE DEF T
  <2>4. T = Nat
    BY <2>1, <2>2, <2>3, SetInduction
  <2> USE DEF T
  <2> QED
    BY <1>5, <2>4
<1> QED
  BY <1>4, <1>6, <1>7, <1>8

(* All of them, joined, are the library's FlattenSeq. *)
LEMMA JoinedFlattens ==
  ASSUME NEW s \in Seq(Seq(Item)), s # << >>
  PROVE  FlattenSeq(s) = Joined(s, Len(s))
<1> DEFINE n == Len(s)
           F(f) == [k \in 1..n |-> IF k = 1 THEN s[k] ELSE f[k - 1] \o s[k]]
           flatten == CHOOSE f : f = F(f)
           g == [k \in 1..n |-> Joined(s, k)]
<1>1. /\ n \in Nat \ {0}
      /\ \A k \in 1..n : s[k] \in Seq(Item)
      /\ Joined(s, 0) = << >>
      /\ \A k \in 1..n : Joined(s, k) = Joined(s, k - 1) \o s[k]
  BY EmptySeq, ElementOfSeq, JoinedGrows
<1>2. Joined(s, 1) = s[1]
  <2>1. 1 \in 1..n /\ 1 - 1 = 0
    BY <1>1
  <2> QED
    <3>1. Joined(s, 1) = << >> \o s[1] /\ s[1] \in Seq(Item)
      BY <1>1, <2>1
    <3> QED
      BY <3>1, ConcatEmptySeq
<1>3. g = F(g)
  <2> SUFFICES ASSUME NEW k \in 1..n PROVE g[k] = IF k = 1 THEN s[k] ELSE g[k - 1] \o s[k]
    OBVIOUS
  <2>1. k # 1 => k - 1 \in 1..n
    BY <1>1
  <2> QED
    BY <1>1, <1>2, <2>1
<1>4. flatten = F(flatten)
  BY <1>3
<1>5. FlattenSeq(s) = flatten[n]
  BY <1>1 DEF FlattenSeq
<1> HIDE DEF flatten
<1>6. \A k \in 1..n : flatten[k] = IF k = 1 THEN s[k] ELSE flatten[k - 1] \o s[k]
  <2> TAKE k \in 1..n
  <2>1. F(flatten)[k] = IF k = 1 THEN s[k] ELSE flatten[k - 1] \o s[k]
    OBVIOUS
  <2> QED
    BY <1>4, <2>1
<1> HIDE DEF F, n
<1>7. \A k \in Nat : k + 1 <= n => flatten[k + 1] = Joined(s, k + 1)
  <2> DEFINE T == { k \in Nat : k + 1 <= n => flatten[k + 1] = Joined(s, k + 1) }
  <2>1. 0 \in T
    BY <1>1, <1>2, <1>6
  <2>2. ASSUME NEW k \in T PROVE k + 1 \in T
    <3> SUFFICES ASSUME (k + 1) + 1 <= n PROVE flatten[(k + 1) + 1] = Joined(s, (k + 1) + 1)
      OBVIOUS
    <3>1. (k + 1) + 1 \in 1..n /\ ((k + 1) + 1) - 1 = k + 1 /\ (k + 1) + 1 # 1 /\ k + 1 <= n
      BY <1>1
    <3>2. flatten[(k + 1) + 1] = flatten[k + 1] \o s[(k + 1) + 1]
      BY <1>6, <3>1
    <3>3. Joined(s, (k + 1) + 1) = Joined(s, k + 1) \o s[(k + 1) + 1]
      BY <1>1, <3>1
    <3>4. flatten[k + 1] = Joined(s, k + 1)
      BY <3>1
    <3> QED
      BY <3>2, <3>3, <3>4
  <2>3. T \in SUBSET Nat
    OBVIOUS
  <2> HIDE DEF T
  <2>4. T = Nat
    BY <2>1, <2>2, <2>3, SetInduction
  <2> USE DEF T
  <2> QED
    BY <2>4
<1>8. n - 1 \in Nat /\ (n - 1) + 1 = n /\ n <= n
  BY <1>1
<1>9. flatten[n] = Joined(s, n)
  BY <1>7, <1>8
<1> QED
  BY <1>5, <1>9 DEF n

(* The books of every library, in order. *)
Listing == [l \in DOMAIN libraries |-> Sorted(libraries[l])]

(* Where nothing has changed, the books returned are those of the          *)
(* libraries before the cursor's, and of that one those before the place   *)
(* of the cursor, which is not behind its end.                             *)
CompleteInv ==
  changed = {} =>
    IF cursor = NoCursor THEN gathered = Joined(Listing, Libraries)
    ELSE LET books == libraries[cursor.libraryIndex + 1]
             place == cursor.page * limit
         IN /\ place <= Cardinality(books)
            /\ gathered = Joined(Listing, cursor.libraryIndex) \o SubSeq(Sorted(books), 1, place)

LEMMA ListingIsOfSequences ==
  ASSUME WalkTypeOK
  PROVE  /\ Listing \in Seq(Seq(Item)) /\ Len(Listing) = Libraries /\ Libraries \in Nat \ {0}
         /\ \A l \in 1..Libraries : /\ Listing[l] = Sorted(libraries[l])
                                    /\ Listing[l] \in Seq(Item)
                                    /\ Len(Listing[l]) = Cardinality(libraries[l])
<1>1. Libraries \in Nat \ {0}
  BY LibraryAssumption
<1>2. ASSUME NEW l \in 1..Libraries
      PROVE  /\ Sorted(libraries[l]) \in Seq(Item)
             /\ Len(Sorted(libraries[l])) = Cardinality(libraries[l])
  <2> DEFINE c == Cardinality(libraries[l])
             s == Sorted(libraries[l])
  <2>1. c \in Nat /\ s \in [1..c -> libraries[l]] /\ libraries[l] \in SUBSET Item
    BY WalkTypes, SortedListsAll DEF WalkTypeOK
  <2> HIDE DEF c, s
  <2>2. s \in [1..c -> Item]
    BY <2>1
  <2>3. s \in Seq(Item)
    BY <2>1, <2>2, SeqDef
  <2>4. DOMAIN s = 1..c /\ Len(s) = c
    BY <2>1, <2>2, <2>3, LenProperties
  <2> QED
    BY <2>3, <2>4 DEF c, s
<1>3. Listing \in [1..Libraries -> Seq(Item)] /\ \A l \in 1..Libraries : Listing[l] = Sorted(libraries[l])
  BY <1>2 DEF Listing, WalkTypeOK
<1>4. Listing \in Seq(Seq(Item))
  BY <1>1, <1>3, SeqDef
<1>5. Len(Listing) = Libraries
  BY <1>1, <1>3, <1>4, LenProperties
<1> QED
  BY <1>1, <1>2, <1>3, <1>4, <1>5

(* A page goes on where the one before it ended. *)
LEMMA PageContinues ==
  ASSUME NEW S \in SUBSET Item, IsFiniteSet(S), NEW page \in Nat, limit \in Nat \ {0},
         page * limit <= Cardinality(S)
  PROVE  LET c == Cardinality(S)
             b == page * limit
             s == Sorted(S)
         IN /\ s \in Seq(Item) /\ Len(s) = c
            /\ Results(S, page) \in Seq(Item)
            /\ SubSeq(s, 1, b) \in Seq(Item)
            /\ c <= b + limit => SubSeq(s, 1, b) \o Results(S, page) = s
            /\ b + limit <= c => SubSeq(s, 1, b) \o Results(S, page) = SubSeq(s, 1, b + limit)
<1> DEFINE c == Cardinality(S)
           b == page * limit
           s == Sorted(S)
           r == Results(S, page)
<1>1. c \in Nat /\ b \in Nat /\ s \in [1..c -> S] /\ S \in SUBSET Nat
  BY LibraryAssumption, SortedListsAll, NextPlace
<1>2. /\ r \in Seq(S)
      /\ Len(r) = IF c <= b THEN 0 ELSE IF c <= b + limit THEN c - b ELSE limit
      /\ \A k \in 1..Len(r) : b + k \in 1..c /\ r[k] = s[b + k]
  BY <1>1, PageOfALibrary
<1>3. b <= c
  OBVIOUS
<1> HIDE DEF c, b, s, r
<1>4. r \in Seq(Item)
  BY <1>2, SeqMonotonic
<1>5. s \in Seq(Item) /\ Len(s) = c
  <2>1. s \in [1..c -> Item]
    BY <1>1
  <2>2. s \in Seq(Item) /\ DOMAIN s = 1..c
    BY <1>1, <2>1, SeqDef
  <2> QED
    BY <1>1, <2>2, LenProperties
<1>6. ASSUME NEW n \in 0..c
      PROVE  /\ SubSeq(s, 1, n) \in Seq(Item)
             /\ Len(SubSeq(s, 1, n)) = n
             /\ \A k \in 1..n : SubSeq(s, 1, n)[k] = s[k]
  <2>0. n \in Int /\ 1 \in Int /\ \A k \in 1..n : k \in 1..c
    BY <1>1
  <2>1. \A k \in 1..n : s[k] \in Item
    BY <1>1, <2>0
  <2>2. /\ SubSeq(s, 1, n) \in Seq(Item)
        /\ Len(SubSeq(s, 1, n)) = IF 1 <= n THEN n - 1 + 1 ELSE 0
        /\ \A k \in 1..(n - 1 + 1) : SubSeq(s, 1, n)[k] = s[1 + k - 1]
    BY <2>0, <2>1, SubSeqProperties
  <2>3. n - 1 + 1 = n /\ \A k \in 1..n : 1 + k - 1 = k
    BY <1>1
  <2> QED
    BY <1>1, <2>2, <2>3
<1> DEFINE e == IF c <= b + limit THEN c ELSE b + limit
<1>7. e \in 0..c /\ b \in 0..c /\ Len(r) = e - b
  BY <1>1, <1>2, <1>3
<1> HIDE DEF e
<1>8. SubSeq(s, 1, b) \o r = SubSeq(s, 1, e)
  <2> DEFINE u == SubSeq(s, 1, b)
             v == SubSeq(s, 1, e)
  <2>1. /\ u \in Seq(Item) /\ Len(u) = b /\ \A k \in 1..b : u[k] = s[k]
        /\ v \in Seq(Item) /\ Len(v) = e /\ \A k \in 1..e : v[k] = s[k]
    BY <1>6, <1>7
  <2> HIDE DEF u, v
  <2>2. /\ u \o r \in Seq(Item)
        /\ Len(u \o r) = b + Len(r)
        /\ \A k \in 1..(b + Len(r)) : (u \o r)[k] = IF k <= b THEN u[k] ELSE r[k - b]
    BY <1>4, <2>1, ConcatProperties
  <2>3. Len(u \o r) = e
    BY <1>1, <1>7, <2>2
  <2>4. ASSUME NEW k \in 1..e PROVE (u \o r)[k] = v[k]
    <3>1. k \in 1..(b + Len(r)) /\ v[k] = s[k]
      BY <1>1, <1>7, <2>1
    <3>2. CASE k <= b
      BY <1>1, <2>1, <2>2, <3>1, <3>2
    <3>3. CASE ~(k <= b)
      <4>1. k - b \in 1..Len(r) /\ b + (k - b) = k
        BY <1>1, <1>7, <3>3
      <4> QED
        BY <1>2, <2>2, <3>1, <3>3, <4>1
    <3> QED
      BY <3>2, <3>3
  <2>5. u \o r = v
    BY <2>1, <2>2, <2>3, <2>4, SeqEqual
  <2> QED
    BY <2>5 DEF u, v
<1>9. c <= b + limit => SubSeq(s, 1, b) \o r = s
  <2>1. SubSeq(s, 1, c) = s
    BY <1>5, SubSeqFull
  <2> QED
    BY <1>8, <2>1 DEF e
<1>10. b + limit <= c => SubSeq(s, 1, b) \o r = SubSeq(s, 1, b + limit)
  <2>1. b + limit <= c => e = b + limit
    BY <1>1 DEF e
  <2> QED
    BY <1>8, <2>1
<1>11. SubSeq(s, 1, b) \in Seq(Item)
  BY <1>6, <1>7
<1> QED
  BY <1>4, <1>5, <1>9, <1>10, <1>11 DEF c, b, s, r

(* A walk has returned nothing yet. *)
LEMMA NothingAtFirst ==
  ASSUME WalkTypeOK, cursor = Start, gathered = << >>
  PROVE  CompleteInv
<1> DEFINE books == libraries[1]
<1>1. /\ cursor # NoCursor /\ cursor.libraryIndex = 0 /\ cursor.page = 0
      /\ 0 * limit = 0 /\ Libraries \in Nat \ {0}
  BY LibraryAssumption DEF Start, NoCursor, WalkTypeOK
<1>2. 1 \in 1..Libraries /\ books \in SUBSET Nat /\ IsFiniteSet(books)
  BY <1>1, WalkTypes
<1>3. 0 <= Cardinality(books)
  BY <1>2, FS_CardinalityType
<1>4. SubSeq(Sorted(books), 1, 0) = << >>
  BY SubSeqEmpty
<1>5. Joined(Listing, 0) = << >>
  BY ListingIsOfSequences, JoinedGrows
<1>6. << >> = << >> \o << >>
  BY EmptySeq, ConcatEmptySeq
<1> QED
  BY <1>1, <1>3, <1>4, <1>5, <1>6 DEF CompleteInv

LEMMA BrowseGathers == WalkTypeOK /\ CompleteInv /\ Browse => CompleteInv'
<1> SUFFICES ASSUME WalkTypeOK, CompleteInv, Browse, changed = {} PROVE CompleteInv'
  BY DEF CompleteInv, Browse
<1> DEFINE here == cursor.libraryIndex + 1
           books == libraries[here]
           page == cursor.page
           b == page * limit
           s == Sorted(books)
           r == Results(books, page)
           c == Cardinality(books)
           J(n) == Joined(Listing, n)
<1>1. /\ cursor # NoCursor
      /\ gathered' = gathered \o r
      /\ cursor' = IF MoreInThisLibrary(books, page) THEN [cursor EXCEPT !.page = page + 1]
                   ELSE IF here < Len(libraries) THEN [libraryIndex |-> here, page |-> 0]
                   ELSE NoCursor
      /\ UNCHANGED <<libraries, limit, total, changed>>
  BY DEF Browse, NextCursor
<1>2. here \in 1..Libraries /\ here - 1 = cursor.libraryIndex /\ page \in Nat /\ Len(libraries) = Libraries
  BY <1>1, WalkTypes
<1>3. books \in SUBSET Item /\ IsFiniteSet(books) /\ c \in Nat /\ books \in SUBSET Nat
  <2>1. libraries[here] \in SUBSET Item /\ IsFiniteSet(libraries[here]) /\ libraries[here] \in SUBSET Nat
    BY <1>2, WalkTypes DEF WalkTypeOK
  <2> QED
    BY <2>1, FS_CardinalityType
<1>4. b <= c /\ gathered = J(here - 1) \o SubSeq(s, 1, b)
  BY <1>1, <1>2 DEF CompleteInv
<1>5. /\ s \in Seq(Item) /\ Len(s) = c
      /\ r \in Seq(Item)
      /\ SubSeq(s, 1, b) \in Seq(Item)
      /\ c <= b + limit => SubSeq(s, 1, b) \o r = s
      /\ b + limit <= c => SubSeq(s, 1, b) \o r = SubSeq(s, 1, b + limit)
  BY <1>2, <1>3, <1>4, PageContinues DEF WalkTypeOK
<1>6. /\ MoreInThisLibrary(books, page) => b + limit <= c
      /\ ~MoreInThisLibrary(books, page) => c <= b + limit
  BY <1>2, <1>3, PageTurned DEF WalkTypeOK
<1>7. b \in Nat /\ (page + 1) * limit = b + limit /\ 0 * limit = 0
  BY <1>2, NextPlace DEF WalkTypeOK
<1>8. /\ J(here - 1) \in Seq(Item) /\ J(here) \in Seq(Item)
      /\ J(here) = J(here - 1) \o s
  <2>1. /\ Listing \in Seq(Seq(Item)) /\ Len(Listing) = Libraries /\ Libraries \in Nat \ {0}
        /\ Listing[here] = s
    BY <1>2, ListingIsOfSequences
  <2>2. here - 1 \in 0..Len(Listing) /\ here \in 0..Len(Listing) /\ here \in 1..Len(Listing)
    BY <1>2, <2>1
  <2> HIDE DEF here, s
  <2> QED
    BY <2>1, <2>2, JoinedGrows
<1>9. gathered' = J(here - 1) \o (SubSeq(s, 1, b) \o r)
  <2>1. gathered' = (J(here - 1) \o SubSeq(s, 1, b)) \o r
    BY <1>1, <1>4
  <2> DEFINE u == J(here - 1)
             v == SubSeq(s, 1, b)
  <2>2. u \in Seq(Item) /\ v \in Seq(Item) /\ r \in Seq(Item)
    BY <1>5, <1>8
  <2> HIDE DEF u, v, r
  <2>3. (u \o v) \o r = u \o (v \o r)
    BY <2>2, ConcatAssociative
  <2> QED
    BY <2>1, <2>3 DEF u, v
<1>10. Listing' = Listing /\ changed' = {}
  BY <1>1 DEF Listing
<1>11. CompleteInv' <=>
         IF cursor' = NoCursor THEN gathered' = J(Libraries)
         ELSE /\ cursor'.page * limit <= Cardinality(libraries[cursor'.libraryIndex + 1])
              /\ gathered' = J(cursor'.libraryIndex)
                             \o SubSeq(Sorted(libraries[cursor'.libraryIndex + 1]), 1, cursor'.page * limit)
  BY <1>1, <1>10 DEF CompleteInv
<1>12. CASE MoreInThisLibrary(books, page)
  <2>1. cursor' # NoCursor /\ cursor'.libraryIndex = here - 1 /\ cursor'.page = page + 1
    BY <1>1, <1>2, <1>12 DEF WalkTypeOK, NoCursor
  <2>2. cursor'.libraryIndex + 1 = here
    BY <1>2, <2>1
  <2>3. gathered' = J(here - 1) \o SubSeq(s, 1, b + limit) /\ b + limit <= c
    BY <1>5, <1>6, <1>9, <1>12
  <2> HIDE DEF here, b, page
  <2> QED
    BY <1>7, <1>11, <2>1, <2>2, <2>3
<1>13. CASE ~MoreInThisLibrary(books, page) /\ here < Libraries
  <2>1. cursor' # NoCursor /\ cursor'.libraryIndex = here /\ cursor'.page = 0
    BY <1>1, <1>2, <1>13 DEF NoCursor
  <2>2. gathered' = J(here)
    BY <1>5, <1>6, <1>8, <1>9, <1>13
  <2> DEFINE following == libraries[here + 1]
  <2>3. 0 <= Cardinality(following)
    <3>1. here + 1 \in 1..Libraries
      BY <1>2, <1>13
    <3>2. IsFiniteSet(following)
      BY <3>1, WalkTypes
    <3> QED
      BY <3>2, FS_CardinalityType
  <2>4. SubSeq(Sorted(following), 1, 0) = << >>
    BY SubSeqEmpty
  <2>5. gathered' = J(here) \o << >>
    BY <1>8, <2>2, ConcatEmptySeq
  <2> HIDE DEF here
  <2> QED
    BY <1>7, <1>11, <2>1, <2>3, <2>4, <2>5
<1>14. CASE ~MoreInThisLibrary(books, page) /\ ~(here < Libraries)
  <2>1. cursor' = NoCursor /\ here = Libraries
    BY <1>1, <1>2, <1>14
  <2>2. gathered' = J(here)
    BY <1>5, <1>6, <1>8, <1>9, <1>14
  <2> HIDE DEF here
  <2> QED
    BY <1>11, <2>1, <2>2
<1> QED
  BY <1>12, <1>13, <1>14

LEMMA CompleteStep == WalkTypeOK /\ CompleteInv /\ [WalkNext]_walkVars => CompleteInv'
<1> SUFFICES ASSUME WalkTypeOK, CompleteInv, [WalkNext]_walkVars PROVE CompleteInv'
  OBVIOUS
<1>0. WalkTypeOK'
  BY WalkTypeStep
<1>1. CASE Browse
  BY <1>1, BrowseGathers
<1>2. CASE WalkAgain
  <2>1. cursor' = Start /\ gathered' = << >>
    BY <1>2 DEF WalkAgain
  <2>2. (WalkTypeOK /\ cursor = Start /\ gathered = << >> => CompleteInv)'
    BY NothingAtFirst, PTL
  <2> QED
    BY <1>0, <2>1, <2>2
<1>3. CASE BookComesOrGoes
  BY <1>3 DEF BookComesOrGoes, CompleteInv
<1>4. CASE UNCHANGED walkVars
  BY <1>4 DEF walkVars, CompleteInv, Listing
<1> QED
  BY <1>1, <1>2, <1>3, <1>4 DEF WalkNext

(* The invariant of a walk: the books returned are in step with the        *)
(* cursor, but for one per change.                                         *)
WalkInv == WalkTypeOK /\ CostInv /\ CompleteInv

LEMMA WalkBegins == WalkInit => WalkInv
<1> SUFFICES ASSUME WalkInit PROVE WalkInv
  OBVIOUS
<1>1. WalkTypeOK
  BY WalkTypeInit
<1>2. cursor = Start /\ gathered = << >> /\ changed = {}
  BY DEF WalkInit
<1>3. Amiss = {} /\ CompleteInv
  BY <1>1, <1>2, NoneAmissAtFirst, NothingAtFirst
<1> QED
  BY <1>1, <1>2, <1>3, FS_EmptySet DEF WalkInv, CostInv

(* The inductive invariant of listItems and browse, for any libraries.     *)
THEOREM WalkInvariant == WalkSpec => []WalkInv
<1>1. WalkInv /\ [WalkNext]_walkVars => WalkInv'
  BY WalkTypeStep, CostStep, CompleteStep DEF WalkInv
<1> QED
  BY <1>1, WalkBegins, PTL DEF WalkSpec

(* "So a library is never truncated to its first page" (browse): over      *)
(* libraries that do not change, the cursors lead through every book of    *)
(* every library once, in order.                                           *)
THEOREM WalksComplete == WalkSpec => []WalksAreComplete
<1>1. WalkInv => WalksAreComplete
  <2> SUFFICES ASSUME WalkInv, cursor = NoCursor, changed = {}
               PROVE  gathered = FlattenSeq(Listing)
    BY DEF WalksAreComplete, Listing
  <2>1. Listing \in Seq(Seq(Item)) /\ Len(Listing) = Libraries /\ Libraries \in Nat \ {0}
    BY ListingIsOfSequences DEF WalkInv
  <2>2. Listing # << >>
    BY <2>1
  <2> QED
    BY <2>1, <2>2, JoinedFlattens DEF WalkInv, CompleteInv
<1> QED
  BY <1>1, WalkInvariant, PTL

(* Nothing protects a walk from libraries that change under it (browse     *)
(* keeps no snapshot, its cursor counts pages): of the books that stay     *)
(* where they are, each one that comes or goes makes at most one be        *)
(* skipped or returned twice.                                              *)
THEOREM ChangeCostsOneBook == WalkSpec => []AChangeCostsOneBook
<1>1. WalkInv => AChangeCostsOneBook
  BY CostAtTheEnd DEF WalkInv
<1> QED
  BY <1>1, WalkInvariant, PTL
=============================================================================
