----------------------------- MODULE MCListing -----------------------------
(***************************************************************************)
(* Listing for TLC: the requests differ in the statement they use, in its  *)
(* arguments, in one of them, and in the user alone.                       *)
(***************************************************************************)
EXTENDS Listing

CONSTANTS s1, s2, v

Lists(site, limit, user) == [kind |-> "comments", site |-> site, limit |-> limit, user |-> user]

Ranks(limit) == [kind |-> "sites", site |-> AnySite, limit |-> limit, user |-> NoUser]

SomeRequests == {Lists(AnySite, 1, v), Lists(s1, 2, v), Lists(AnySite, 2, NoUser), Ranks(1)}

Threads == Permutations(Thread)
=============================================================================
