--------------------------- MODULE MCEntitlement ---------------------------
(* The Entitlement run. *)
EXTENDS EntitlementMachine, TLC

\* Handlers are alike, and so are subscriptions.
Symmetry == Permutations(Handlers) \cup Permutations(Subs)
=============================================================================
