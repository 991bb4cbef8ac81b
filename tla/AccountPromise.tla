-------------------------- MODULE AccountPromise --------------------------
(***************************************************************************)
(* What the entitlement of an account promises, whatever events arrive, in *)
(* whatever order, however often and however many at a time.               *)
(*                                                                         *)
(* plan is what the account lives on: nothing ("free"), a trial, a paid    *)
(* subscription, or the days of grace after a payment that failed.         *)
(***************************************************************************)
VARIABLES
  plan,     \* "free", "trial", "paid" or "grace"
  spent,    \* the one trial was used
  disputed  \* a charge was disputed

pvars == <<plan, spent, disputed>>

Start == plan = "free" /\ ~spent /\ ~disputed

\* One trial, from Free, and none after a dispute.
Try == /\ plan = "free" /\ ~spent /\ ~disputed
       /\ plan' = "trial" /\ spent' = TRUE
       /\ UNCHANGED disputed

\* A payment is welcome at any time.
Pay == plan' = "paid" /\ UNCHANGED <<spent, disputed>>

\* Only a plan that was there can fall behind, and it falls behind once.
FallBehind == /\ plan \in {"trial", "paid"}
              /\ plan' = "grace"
              /\ UNCHANGED <<spent, disputed>>

End == plan' = "free" /\ UNCHANGED <<spent, disputed>>

\* A dispute takes the plan at once and is never forgotten.
Dispute == plan' = "free" /\ disputed' = TRUE /\ UNCHANGED spent

Step == Try \/ Pay \/ FallBehind \/ End \/ Dispute

Promise == Start /\ [][Step]_pvars
=============================================================================
