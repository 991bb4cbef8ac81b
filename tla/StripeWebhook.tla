--------------------------- MODULE StripeWebhook ---------------------------
(***************************************************************************)
(* How one user comes by Pro: the checkout page, Stripe's events, the      *)
(* webhook handler (lib/billing/apply-stripe-event.ts) that applies each   *)
(* of them to the user's row, and the manual reconcile run                 *)
(* (inngest/billing-helpers.ts) that compares the row with Stripe's list.  *)
(*                                                                         *)
(* Stripe delivers an event at least once, in any order, several at a      *)
(* time, and again until it is answered 200.  The handler keeps no lock:   *)
(* a ledger of event ids tells a repetition, and every UPDATE overwrites   *)
(* pro_until with what its own event, or its own look at Stripe, says.     *)
(*                                                                         *)
(* A billing period is a number, its end stands for the instant; 0 is a    *)
(* null pro_until.  Nothing here depends on the clock.                     *)
(***************************************************************************)
EXTENDS Naturals, Sequences, FiniteSets

CONSTANTS
  Subs,        \* subscriptions the user buys, one checkout each
  NoCustomer,  \* users.stripe_customer_id is null
  Slots,       \* webhook requests that can be under way at once
  MaxPeriod,   \* bound: billing periods of one subscription
  MaxFaults,   \* bound: faults in one behaviour
  Ordered,     \* Stripe delivers a subscription event after the earlier ones
  MayOmit,     \* a subscription may come without a period end
  MayMisread,  \* the read of the ledger row may fail
  MayReconcile \* the manual reconcile run may be asked for

ASSUME CustomerAssumption == NoCustomer \notin Subs
ASSUME BillingAssumption  == /\ MaxPeriod \in Nat \ {0} /\ MaxFaults \in Nat
                             /\ {Ordered, MayOmit, MayMisread, MayReconcile} \subseteq BOOLEAN

VARIABLES
  user,       \* the users row: customer, pro
  stripe,     \* Stripe's subscriptions
  events,     \* Stripe's events, oldest first; an event is named by its index
  acked,      \* events answered 200
  seen,       \* stripe_events: the ids in the ledger
  processed,  \* stripe_events: those with processed_at set
  applied,    \* history: events whose write was made, or that called for none
  work,       \* the webhook requests under way, by slot
  rec,        \* the reconcile run
  faults      \* faults so far

ledger == <<seen, processed>>
vars   == <<user, stripe, events, acked, seen, processed, applied, work, rec, faults>>

-----------------------------------------------------------------------------
(* Stripe. *)

\* past_due and trialing count as active, unpaid and the rest as canceled.
Statuses == {"none", "session", "incomplete", "active", "canceled"}
Periods  == 0..MaxPeriod

\* proUntilFrom: what a subscription in this state grants.
ProUntil(status, period) == IF status = "active" THEN period ELSE 0

\* deriveProUntil over Stripe's list: the latest period end of the active ones, if any.
ActivePeriods(c) ==
  {stripe[s].period : s \in {t \in Subs : stripe[t].customer = c /\ stripe[t].status = "active"}}
Derives(c, pro) ==
  pro \in ActivePeriods(c) \cup {0} /\ \A p \in ActivePeriods(c) : p <= pro

Event(kind, s, status, period) ==
  [kind |-> kind, sub |-> s, customer |-> stripe[s].customer, status |-> status,
   period |-> period]

\* The period end an event or an answer of Stripe carries, or 0 when it leaves it out.
Told(period) == IF MayOmit THEN {period, 0} ELSE {period}

Fault   == faults < MaxFaults /\ faults' = faults + 1
NoFault == UNCHANGED faults

Idle == [pc |-> "idle", event |-> 0, grant |-> 0]
Rest == [pc |-> "idle", customer |-> NoCustomer, derived |-> 0]

Init ==
  /\ user = [customer |-> NoCustomer, pro |-> 0]
  /\ stripe = [s \in Subs |-> [status |-> "none", period |-> 0, customer |-> NoCustomer]]
  /\ events = <<>>
  /\ acked = {} /\ seen = {} /\ processed = {} /\ applied = {}
  /\ work = [d \in Slots |-> Idle]
  /\ rec = Rest
  /\ faults = 0

\* POST /api/billing/checkout: the session names the user's Stripe customer, or has
\* Stripe make a new one, as it does when the read of the row fails; a new customer goes
\* by the subscription that brought it.
OpenCheckout(s) ==
  /\ stripe[s].status = "none"
  /\ \E customer \in {s, user.customer} \ {NoCustomer} :
       /\ IF customer = user.customer \/ user.customer = NoCustomer THEN NoFault ELSE Fault
       /\ stripe' = [stripe EXCEPT ![s].status = "session", ![s].customer = customer]
  /\ UNCHANGED <<user, events, acked, ledger, applied, work, rec>>

\* The buyer completes it; the payment may still have to be confirmed (3DS).
PayCheckout(s) ==
  /\ stripe[s].status = "session"
  /\ \E status \in {"incomplete", "active"}, told \in Told(1) :
       /\ stripe' = [stripe EXCEPT ![s].status = status, ![s].period = 1]
       /\ events' = events \o << Event("subscription", s, status, told),
                                Event("checkout", s, status, 0) >>
  /\ UNCHANGED <<user, acked, ledger, applied, work, rec, faults>>

\* A confirmation, a renewal, a cancellation; each has its event.
Change(s) ==
  /\ \E status \in {"active", "canceled"}, period \in 1..MaxPeriod :
       /\ \/ stripe[s].status = "incomplete" /\ period = stripe[s].period
          \/ stripe[s].status = "active" /\ status = "active" /\ period = stripe[s].period + 1
          \/ stripe[s].status = "active" /\ status = "canceled" /\ period = stripe[s].period
       /\ stripe' = [stripe EXCEPT ![s].status = status, ![s].period = period]
       /\ \E told \in Told(period) :
            events' = Append(events, Event("subscription", s, status, told))
  /\ UNCHANGED <<user, acked, ledger, applied, work, rec, faults>>

IsSubscription(e) == events[e].kind = "subscription"

\* Stripe posts an event; it does not stop at one that was answered already.
Deliver(d, e) ==
  /\ work[d].pc = "idle" /\ e \in 1..Len(events)
  /\ Ordered /\ IsSubscription(e) => \A f \in 1..(e - 1) : IsSubscription(f) => f \in acked
  /\ work' = [work EXCEPT ![d].pc = "insert", ![d].event = e]
  /\ UNCHANGED <<user, stripe, events, acked, ledger, applied, rec, faults>>

-----------------------------------------------------------------------------
(* applyStripeEvent. *)

At(d, pc)   == work[d].pc = pc
Goto(d, pc) == work' = [work EXCEPT ![d].pc = pc]

\* Where the handler goes once the ledger has let the event through.
Branch(e) == IF IsSubscription(e) THEN "entitle" ELSE "link"

\* INSERT into the ledger; a conflict (23505) says the id is known.
Insert(d) ==
  /\ At(d, "insert")
  /\ IF work[d].event \in seen
       THEN Goto(d, "prior") /\ UNCHANGED seen
       ELSE Goto(d, Branch(work[d].event)) /\ seen' = seen \cup {work[d].event}
  /\ UNCHANGED <<user, stripe, events, acked, processed, applied, rec, faults>>

\* Mutant of Prior: an id that is known is taken for an event that is done.
PriorSeenIsDone(d) ==
  /\ At(d, "prior") /\ Goto(d, "respond")
  /\ UNCHANGED <<user, stripe, events, acked, ledger, applied, rec, faults>>

\* Only processed_at makes it a repetition.  The error of the read is not looked at:
\* a read that fails falls through like a row without processed_at.
Prior(d) ==
  /\ At(d, "prior")
  /\ \/ NoFault /\ Goto(d, IF work[d].event \in processed THEN "respond"
                           ELSE Branch(work[d].event))
     \/ MayMisread /\ Fault /\ Goto(d, Branch(work[d].event))
  /\ UNCHANGED <<user, stripe, events, acked, ledger, applied, rec>>

\* checkout.session.completed: link the customer first ...
Link(d) ==
  /\ At(d, "link")
  /\ user' = [user EXCEPT !.customer = events[work[d].event].customer]
  /\ applied' = applied \cup {work[d].event}
  /\ Goto(d, "retrieve")
  /\ UNCHANGED <<stripe, events, acked, ledger, rec, faults>>

\* Mutant of Retrieve: the grant is taken from the session's event, not from Stripe.
RetrieveFromEvent(d) ==
  /\ At(d, "retrieve") /\ NoFault
  /\ work' = [work EXCEPT ![d].pc = "grant", ![d].grant = 1]
  /\ UNCHANGED <<user, stripe, events, acked, ledger, applied, rec>>

\* ... then ask Stripe how the subscription stands; a failure leaves the grant to the
\* subscription events, and so does one that grants nothing.
Retrieve(d) ==
  /\ At(d, "retrieve")
  /\ LET live   == stripe[events[work[d].event].sub]
         grants == {ProUntil(live.status, period) : period \in Told(live.period)}
     IN \/ /\ NoFault
           /\ \E grant \in grants \ {0} :
                work' = [work EXCEPT ![d].pc = "grant", ![d].grant = grant]
        \/ NoFault /\ 0 \in grants /\ Goto(d, "stamp")
        \/ Fault /\ Goto(d, "stamp")
  /\ UNCHANGED <<user, stripe, events, acked, ledger, applied, rec>>

\* ... and grant, never clear.
Grant(d) ==
  /\ At(d, "grant")
  /\ user' = [user EXCEPT !.pro = work[d].grant]
  /\ Goto(d, "stamp")
  /\ UNCHANGED <<stripe, events, acked, ledger, applied, rec, faults>>

\* Mutant of Entitle: an UPDATE that matches no user is taken for done.
EntitleNobody(d) ==
  /\ At(d, "entitle") /\ Goto(d, "stamp")
  /\ LET e == events[work[d].event] IN
       IF user.customer = e.customer
         THEN /\ user' = [user EXCEPT !.pro = ProUntil(e.status, e.period)]
              /\ applied' = applied \cup {work[d].event}
         ELSE UNCHANGED <<user, applied>>
  /\ UNCHANGED <<stripe, events, acked, ledger, rec, faults>>

\* customer.subscription.*: an active one that omits its period end says nothing; for
\* any other the user who carries the customer id gets what the event grants, and when
\* nobody carries it the handler throws, for Stripe to come again.
Entitle(d) ==
  /\ At(d, "entitle")
  /\ LET e      == events[work[d].event]
         silent == e.status = "active" /\ e.period = 0
     IN \/ /\ silent /\ Goto(d, "stamp") /\ UNCHANGED user
           /\ applied' = applied \cup {work[d].event}
        \/ /\ ~silent /\ user.customer = e.customer /\ Goto(d, "stamp")
           /\ user' = [user EXCEPT !.pro = ProUntil(e.status, e.period)]
           /\ applied' = applied \cup {work[d].event}
        \/ /\ ~silent /\ user.customer # e.customer
           /\ work' = [work EXCEPT ![d] = Idle]
           /\ UNCHANGED <<user, applied>>
  /\ UNCHANGED <<stripe, events, acked, ledger, rec, faults>>

\* processed_at, last.
Stamp(d) ==
  /\ At(d, "stamp")
  /\ processed' = processed \cup {work[d].event}
  /\ Goto(d, "respond")
  /\ UNCHANGED <<user, stripe, events, acked, seen, applied, rec, faults>>

\* 200.
Respond(d) ==
  /\ At(d, "respond")
  /\ acked' = acked \cup {work[d].event}
  /\ work' = [work EXCEPT ![d] = Idle]
  /\ UNCHANGED <<user, stripe, events, ledger, applied, rec, faults>>

\* A database call fails and the handler throws (500), the platform kills it, or its
\* answer is lost: to Stripe the event was not answered, whatever had been written.
Abandon(d) ==
  /\ ~At(d, "idle") /\ Fault
  /\ work' = [work EXCEPT ![d] = Idle]
  /\ UNCHANGED <<user, stripe, events, acked, ledger, applied, rec>>

Handle(d) ==
  Insert(d) \/ Prior(d) \/ Link(d) \/ Retrieve(d) \/ Grant(d) \/ Entitle(d)
    \/ Stamp(d) \/ Respond(d)

-----------------------------------------------------------------------------
(* reconcileBillingManualFn in mode full, over the one user; the daily run in mode   *)
(* dry-run writes nothing.                                                            *)

\* loadCustomers: only a user with a customer id is there to be reconciled.
ReconcileLoad ==
  /\ MayReconcile /\ rec.pc = "idle" /\ user.customer # NoCustomer
  /\ rec' = [Rest EXCEPT !.pc = "list", !.customer = user.customer]
  /\ UNCHANGED <<user, stripe, events, acked, ledger, applied, work, faults>>

\* Mutant of ReconcileList: the list (status 'all') is not reduced to the active ones.
ReconcileListAny ==
  /\ rec.pc = "list"
  /\ \E s \in Subs : /\ stripe[s].customer = rec.customer
                     /\ rec' = [rec EXCEPT !.pc = "write", !.derived = stripe[s].period]
  /\ UNCHANGED <<user, stripe, events, acked, ledger, applied, work, faults>>

\* stripe.subscriptions.list, and what it implies; active ones that all come without a
\* period end imply nothing (skip).
ReconcileList ==
  /\ rec.pc = "list"
  /\ \/ \E pro \in Periods :
          /\ Derives(rec.customer, pro)
          /\ rec' = [rec EXCEPT !.pc = "write", !.derived = pro]
     \/ MayOmit /\ ActivePeriods(rec.customer) # {} /\ rec' = Rest
  /\ UNCHANGED <<user, stripe, events, acked, ledger, applied, work, faults>>

\* The UPDATE by user id, when the row that was read differs; one that does not differ
\* is as good as written at the moment it was read.
ReconcileWrite ==
  /\ rec.pc = "write"
  /\ user' = [user EXCEPT !.pro = rec.derived]
  /\ rec' = Rest
  /\ UNCHANGED <<stripe, events, acked, ledger, applied, work, faults>>

\* An error is thrown again; the step is retried from its start, or given up.
ReconcileAbandon ==
  /\ rec.pc # "idle" /\ Fault
  /\ rec' = Rest
  /\ UNCHANGED <<user, stripe, events, acked, ledger, applied, work>>

Reconcile == ReconcileLoad \/ ReconcileList \/ ReconcileWrite

-----------------------------------------------------------------------------
Buy(s) == OpenCheckout(s) \/ PayCheckout(s) \/ Change(s)

Next ==
  \/ \E s \in Subs : Buy(s)
  \/ \E d \in Slots : (\E e \in 1..Len(events) : Deliver(d, e)) \/ Handle(d) \/ Abandon(d)
  \/ Reconcile \/ ReconcileAbandon

\* What a subscription has events of: two of its purchase, a confirmation, renewals, its end.
MaxEvents == Cardinality(Subs) * (MaxPeriod + 3)

\* Stripe retries an event until it is answered (for three days; here without end),
\* a handler that runs goes on, and whoever asked for a reconcile asks again.
Retry(d, e) == e \in 1..Len(events) /\ e \notin acked /\ Deliver(d, e)
Fairness ==
  /\ \A d \in Slots : WF_vars(Handle(d)) /\ \A e \in 1..MaxEvents : SF_vars(Retry(d, e))
  /\ WF_vars(Reconcile)

Spec     == Init /\ [][Next]_vars
FairSpec == Spec /\ Fairness

-----------------------------------------------------------------------------
(* Properties. *)

\* The type invariant.
Typed ==
  /\ user \in [customer : Subs \cup {NoCustomer}, pro : Periods]
  /\ stripe \in [Subs -> [status : Statuses, period : Periods, customer : Subs \cup {NoCustomer}]]
  /\ events \in Seq([kind : {"checkout", "subscription"}, sub : Subs,
                     customer : Subs \cup {NoCustomer}, status : Statuses, period : Periods])
  /\ {acked, seen, processed, applied} \subseteq SUBSET (1..Len(events))
  /\ work \in [Slots -> [pc : {"idle", "insert", "prior", "link", "retrieve", "grant",
                               "entitle", "stamp", "respond"},
                         event : 0..Len(events), grant : Periods]]
  /\ rec \in [pc : {"idle", "list", "write"}, customer : Subs \cup {NoCustomer},
              derived : Periods]
  /\ faults \in 0..MaxFaults

\* An event Stripe was told is done has been applied: a crash between the ledger row and
\* the write never turns the retry into a skipped duplicate, and one with nobody to apply
\* it to is not acknowledged (apply-stripe-event.ts: processed_at is the "done" gate).
AckedIsApplied == acked \subseteq processed /\ processed \subseteq applied

\* Every event is through and nobody is at work.
Settled ==
  /\ acked = 1..Len(events) /\ events # <<>>
  /\ \A d \in Slots : At(d, "idle")
  /\ rec.pc = "idle"

\* The webhook and the reconcile compute the same Pro (packages/types/src/billing.ts):
\* when all events are through, the row says what a reconcile would say.
SettledAgrees == Settled => Derives(user.customer, user.pro)

\* No event is stuck: each is processed in the end, the ones that came before their
\* checkout included.
EveryEventLands ==
  \A e \in 1..MaxEvents : e \in 1..Len(events) ~> e \in processed

\* Whatever the order of the deliveries, a user whose reconcile is run
\* again and again ends up with what Stripe says, once Stripe has no more to say.
Converges == <>[](user.customer # NoCustomer => Derives(user.customer, user.pro))

=============================================================================
