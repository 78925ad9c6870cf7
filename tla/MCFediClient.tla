----------------------------- MODULE MCFediClient -----------------------------
(* A theme with one account, which may connect a second one to the same       *)
(* server: both show a post by the administrator of that server.  An author   *)
(* of another server may ask to notify them.                                  *)
EXTENDS FediClient

CONSTANTS a1, a2, admin, friend

OneServer == [x \in {a1, a2, admin, friend} |-> IF x = friend THEN "far" ELSE "near"]
AdminOfBoth == [a \in {a1, a2} |-> admin]
SeedPost(h, vis, tl) ==
    [acct |-> a1, author |-> h, vis |-> vis, tl |-> tl, boosted |-> FALSE, boosts |-> 0]
Seed == <<SeedPost(admin, "private", "timeline")>>
===============================================================================
