--------------------------- MODULE MCSpeakerSeek ---------------------------
(***************************************************************************)
(* The two calculations of the server, checked over every input of a small *)
(* size: seeks on books of one to three tracks, in half seconds (a track   *)
(* of whole seconds, and tracks that end between two of them), and walks   *)
(* through two libraries.  They share no state: a behaviour is one of      *)
(* seeks, with no library, or one of walks, with no seek begun.            *)
(***************************************************************************)
EXTENDS SpeakerSeek, LibraryPages

MCBooks == { <<3>>, <<4, 3>>, <<3, 5, 2>> }

NoLibrary ==
  /\ libraries = <<>>
  /\ limit = 1
  /\ total = FALSE
  /\ cursor = NoCursor
  /\ gathered = <<>>
  /\ changed = {}

NoSeek == Init /\ book = <<3>> /\ asked = 0

MCInit == (Init /\ NoLibrary) \/ (NoSeek /\ WalkInit)

MCNext ==
  \/ libraries = <<>> /\ Next /\ UNCHANGED walkVars
  \/ libraries # <<>> /\ WalkNext /\ UNCHANGED vars

MCSpec == MCInit /\ [][MCNext]_<<vars, walkVars>>
=============================================================================
