---------------------------- MODULE SessionLife ----------------------------
(***************************************************************************)
(* What the session handlers of src/plugin.cpp promise about the sessions  *)
(* they make: each is made once, for one sign-in; it is live from then on  *)
(* until it is dropped, by a signout, a timeout, another sign-in or a      *)
(* restart; and once dropped it is never live again.                       *)
(***************************************************************************)
CONSTANT Session      \* the serial numbers of session keys

VARIABLE phase        \* how far each session got

Phase == {"new", "live", "dead"}

TypeOK == phase \in [Session -> Phase]

\* A server that starts finds sessions of earlier runs, live or dropped.
Init == TypeOK

Made(s) == phase[s] = "new" /\ phase'[s] = "live"

Dropped(s) == phase[s] = "live" /\ phase'[s] = "dead"

\* One sign-in, signout, timeout or restart.
Next ==
    /\ TypeOK'
    /\ \A s \in Session : phase'[s] = phase[s] \/ Made(s) \/ Dropped(s)
    /\ \A s, r \in Session : Made(s) /\ Made(r) => s = r

Spec == Init /\ [][Next]_phase
=============================================================================
