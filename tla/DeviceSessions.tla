--------------------------- MODULE DeviceSessions ---------------------------
(***************************************************************************)
(* What the session store promises the devices of the server's users, with *)
(* no chain, file, queue or restart in sight (SPEC section 8, ADR-0004): a *)
(* device is signed in from its sign-in to its sign-out; a user whose      *)
(* upstream session is lost is asked to sign in again on every device, and *)
(* the first sign-in to do so ends the user's other device sessions.       *)
(***************************************************************************)
CONSTANTS Token, User, NoUser

VARIABLES
  session,   \* the user a device is signed in as, or NoUser
  lost       \* the users whose upstream session is lost

vars == <<session, lost>>

Devices(u) == { t \in Token : session[t] = u }

Init ==
  /\ session = [t \in Token |-> NoUser]
  /\ lost = {}

SignIn(t, u) ==
  /\ session[t] = NoUser
  /\ session' = [x \in Token |->
                   IF x = t THEN u
                   ELSE IF u \in lost /\ session[x] = u THEN NoUser
                   ELSE session[x]]
  /\ lost' = lost \ {u}

SignOut(t) ==
  /\ session[t] # NoUser
  /\ session' = [session EXCEPT ![t] = NoUser]
  /\ lost' = IF Devices(session[t]) = {t} THEN lost \ {session[t]} ELSE lost

Lose(u) ==
  /\ Devices(u) # {}
  /\ lost' = lost \cup {u}
  /\ UNCHANGED session

Next ==
  \/ \E t \in Token, u \in User : SignIn(t, u)
  \/ \E t \in Token : SignOut(t)
  \/ \E u \in User : Lose(u)

Spec == Init /\ [][Next]_vars
=============================================================================
