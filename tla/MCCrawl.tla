------------------------------ MODULE MCCrawl ------------------------------
EXTENDS FrontierCrawl, TLC

\* h links to a1, b1 and z1; the sections a, b and z follow.  xz3 is another writing of
\* z3, b1 is stored as its canonical a2, and a3 redirects to another host.  With rounds
\* of two, z1 (depth 1) waits until a round after one of depth 2, and reading it finds z2
\* again, nearer than that round did.  The last slot is z2's or z3's.
MCIdentities == {"h", "a1", "a2", "a3", "b1", "b2", "z1", "z2", "z3"}
MCReals == MCIdentities \union {"xz3"}
MCId == [r \in MCReals |-> IF r = "xz3" THEN "z3" ELSE r]
MCStart == <<"h">>
MCLinks == [r \in MCReals |->
  CASE r = "h" -> <<"a1", "b1", "z1">>
    [] r = "a1" -> <<"a2", "a3", "b2">>
    [] r = "b1" -> <<"b2", "h">>
    [] r = "a2" -> <<"xz3">>
    [] r = "b2" -> <<"z3", "z2">>
    [] r = "z1" -> <<"z2">>
    [] OTHER -> <<>>]
MCLands == [r \in MCReals |->
  CASE r = "a3" -> Offsite [] r = "b1" -> "a2" [] OTHER -> MCId[r]]
MCTemplate == [u \in MCIdentities |->
  CASE u = "h" -> 0 [] u \in {"a1", "a2", "a3"} -> 1
    [] u \in {"b1", "b2"} -> 2 [] OTHER -> 3]
MCKey == [r \in MCReals |->
  CASE r = "h" -> 1 [] r = "a1" -> 2 [] r = "a2" -> 3 [] r = "a3" -> 4 [] r = "b1" -> 5
    [] r = "b2" -> 6 [] r = "z1" -> 7 [] r = "z3" -> 8 [] r = "z2" -> 9 [] r = "xz3" -> 10]
=============================================================================
