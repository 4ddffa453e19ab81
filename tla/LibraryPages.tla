---------------------------- MODULE LibraryPages ----------------------------
(***************************************************************************)
(* The catalogue of books a client reads page by page (listItems and       *)
(* browse of packages/app/src/abs/client.ts, and cursor.ts): one library   *)
(* of Audiobookshelf (ABS) after the other, behind a cursor the client     *)
(* echoes back.                                                            *)
(*                                                                         *)
(* Every request is answered on its own, from the libraries as they are at *)
(* that moment: nothing ties the pages of a walk together but the cursor,  *)
(* which counts pages and names no book.  Books come and go between any    *)
(* two requests.                                                           *)
(***************************************************************************)
EXTENDS Integers, Sequences, FiniteSets, SequencesExt

CONSTANTS Item,        \* books, numbered in the order of their titles
          Libraries,   \* how many libraries of books there are
          Limits,      \* the page sizes a client may ask for
          MaxChanges   \* bound on the books that come or go during a walk

ASSUME LibraryAssumption ==
  /\ Item \subseteq Nat /\ IsFiniteSet(Item)
  /\ Libraries \in Nat \ {0}
  /\ Limits \subseteq Nat \ {0}
  /\ MaxChanges \in Nat

VARIABLES
  libraries,   \* ABS: the books of each library
  limit,       \* the page size of the walk
  total,       \* whether ABS reports totals
  cursor,      \* what the client sends next, NoCursor at the end of a walk
  gathered,    \* the books it has been given
  changed      \* the books that have come or gone since the walk began

walkVars == <<libraries, limit, total, cursor, gathered, changed>>

Start == [libraryIndex |-> 0, page |-> 0]
NoCursor == [libraryIndex |-> -1, page |-> 0]   \* nextCursor: null

Catalogue == UNION Range(libraries)

(* ABS sorts a library by title. *)
Sorted(books) ==
  CHOOSE s \in [1..Cardinality(books) -> books] : \A m, n \in DOMAIN s : m < n => s[m] < s[n]

(* A book is in one library. *)
WalkInit ==
  /\ libraries \in [1..Libraries -> SUBSET Item]
  /\ \A k, l \in DOMAIN libraries : k # l => libraries[k] \cap libraries[l] = {}
  /\ limit \in Limits
  /\ total \in BOOLEAN
  /\ cursor = Start
  /\ gathered = <<>>
  /\ changed = {}

-----------------------------------------------------------------------------
(* Browsing.                                                               *)

UpTo(n, s) == IF Len(s) <= n THEN s ELSE SubSeq(s, 1, n)

(* A page of a library, as ABS cuts it. *)
Results(books, page) == UpTo(limit, SubSeq(Sorted(books), page * limit + 1, Cardinality(books)))

(* Whether the library has a page after this one: by the total ABS reports *)
(* or, where it reports none, because this one is full.                    *)
MoreInThisLibraryOffByOne(books, page) ==
  IF total THEN (page + 1) * limit < Cardinality(books) - 1 ELSE Len(Results(books, page)) = limit

MoreInThisLibrary(books, page) ==
  IF total THEN (page + 1) * limit < Cardinality(books) ELSE Len(Results(books, page)) = limit

(* On to the next page, or to the first one of the next library. *)
NextCursorKeepingThePage(books) ==
  IF MoreInThisLibrary(books, cursor.page)
  THEN [cursor EXCEPT !.page = @ + 1]
  ELSE IF cursor.libraryIndex + 1 < Len(libraries)
  THEN [cursor EXCEPT !.libraryIndex = @ + 1]
  ELSE NoCursor

NextCursor(books) ==
  IF MoreInThisLibrary(books, cursor.page)
  THEN [cursor EXCEPT !.page = @ + 1]
  ELSE IF cursor.libraryIndex + 1 < Len(libraries)
  THEN [libraryIndex |-> cursor.libraryIndex + 1, page |-> 0]
  ELSE NoCursor

(* browse, with the cursor of the answer before. *)
Browse ==
  /\ cursor # NoCursor
  /\ LET books == libraries[cursor.libraryIndex + 1] IN
     /\ gathered' = gathered \o Results(books, cursor.page)
     /\ cursor' = NextCursor(books)
  /\ UNCHANGED <<libraries, limit, total, changed>>

(* The client starts over. *)
WalkAgain ==
  /\ cursor = NoCursor
  /\ cursor' = Start
  /\ gathered' = <<>>
  /\ changed' = {}
  /\ UNCHANGED <<libraries, limit, total>>

(* A book is removed from the library it is in, or added to one. *)
BookComesOrGoes ==
  /\ cursor # NoCursor
  /\ Cardinality(changed) < MaxChanges
  /\ \E i \in Item \ changed :
       /\ changed' = changed \cup {i}
       /\ IF i \in Catalogue
          THEN libraries' = [l \in DOMAIN libraries |-> libraries[l] \ {i}]
          ELSE \E l \in DOMAIN libraries : libraries' = [libraries EXCEPT ![l] = @ \cup {i}]
  /\ UNCHANGED <<limit, total, cursor, gathered>>

WalkNext == Browse \/ WalkAgain \/ BookComesOrGoes

WalkSpec == WalkInit /\ [][WalkNext]_walkVars

-----------------------------------------------------------------------------
Times(i) == Cardinality({ n \in DOMAIN gathered : gathered[n] = i })

(* "So a library is never truncated to its first page" (browse): where     *)
(* nothing has changed, the cursors have led through every book of every   *)
(* library once, in order, by the time there is none - with totals or      *)
(* without, over empty libraries and full last pages.                      *)
WalksAreComplete ==
  cursor = NoCursor /\ changed = {} =>
    gathered = FlattenSeq([l \in DOMAIN libraries |-> Sorted(libraries[l])])

(* Nothing protects a walk from libraries that change under it; what that  *)
(* can cost is bounded: of the books that stay where they are, each one    *)
(* that comes or goes makes at most one be skipped or returned twice.      *)
AChangeCostsOneBook ==
  cursor = NoCursor =>
    Cardinality({ i \in Catalogue \ changed : Times(i) # 1 }) <= Cardinality(changed)
=============================================================================
