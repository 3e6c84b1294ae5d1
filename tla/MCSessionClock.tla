--------------------------- MODULE MCSessionClock ---------------------------
(***************************************************************************)
(* SessionClock for TLC with ints of 4 bits and three ticks to a second.   *)
(***************************************************************************)
EXTENDS SessionClock

\* 1 s and 2 s fit an int; 6 s are 18 ticks, which atoi reads as 2, as it reads
\* 24 hours as 500 s; -1 s is never.
Timeouts == {-1, 1, 2, 6}
=============================================================================
