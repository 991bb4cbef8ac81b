------------------------ MODULE StripeWebhookProofs ------------------------
(***************************************************************************)
(* What Stripe was told is done is done: proofs about StripeWebhook for    *)
(* any number of subscriptions, of requests at once, and of faults.        *)
(***************************************************************************)
EXTENDS StripeWebhook, TLAPS

\* What a request may rely on: past its write the event has been applied, past the stamp
\* it is processed, and no answer is given before.
RequestInv ==
  \A d \in Slots :
    /\ ~At(d, "idle") => work[d].event \in 1..Len(events)
    /\ work[d].pc \in {"retrieve", "grant", "stamp"} => work[d].event \in applied
    /\ At(d, "respond") => work[d].event \in processed

IInv == Typed /\ RequestInv /\ AckedIsApplied

-----------------------------------------------------------------------------
\* The record sets of the type invariant, named so that a step need not look into them.
EventRecords ==
  [kind : {"checkout", "subscription"}, sub : Subs, customer : Subs \cup {NoCustomer},
   status : Statuses, period : Periods]
RequestPcs == {"idle", "insert", "prior", "link", "retrieve", "grant", "entitle", "stamp",
               "respond"}

Requests == [pc : RequestPcs, event : 0..Len(events), grant : Periods]
Users    == [customer : Subs \cup {NoCustomer}, pro : Periods]
Reconciles ==
  [pc : {"idle", "list", "write"}, customer : Subs \cup {NoCustomer}, derived : Periods]
Subscriptions ==
  [status : Statuses, period : Periods, customer : Subs \cup {NoCustomer}]

\* A grant is a period (proUntilFrom).
LEMMA GrantIsPeriod ==
  ASSUME NEW status, NEW period \in Periods PROVE ProUntil(status, period) \in Periods
BY BillingAssumption DEF ProUntil, Periods

\* What is told of a period is a period.
LEMMA ToldIsPeriod ==
  ASSUME NEW period \in Periods, NEW told \in Told(period) PROVE told \in Periods
BY BillingAssumption DEF Told, Periods

\* The initial state: nothing is under way and nothing was answered.
LEMMA InitHolds == Init => IInv
BY CustomerAssumption, BillingAssumption
DEF Init, IInv, Typed, RequestInv, AckedIsApplied, At, Idle, Rest, Periods, Statuses

\* One subscription moves: its status, its period and its customer stay typed.
LEMMA SubscriptionMoves ==
  ASSUME stripe \in [Subs -> Subscriptions], NEW s \in Subs,
         NEW status \in Statuses, NEW period \in Periods,
         NEW customer \in Subs \cup {NoCustomer}
  PROVE  /\ [stripe EXCEPT ![s].status = status, ![s].period = period]
              \in [Subs -> Subscriptions]
         /\ [stripe EXCEPT ![s].status = status, ![s].customer = customer]
              \in [Subs -> Subscriptions]
BY DEF Subscriptions

\* An event that Stripe makes of a typed subscription is typed.
LEMMA EventTyped ==
  ASSUME stripe \in [Subs -> Subscriptions], NEW s \in Subs,
         NEW kind \in {"checkout", "subscription"},
         NEW status \in Statuses, NEW period \in Periods
  PROVE  Event(kind, s, status, period) \in EventRecords
BY DEF Event, EventRecords, Subscriptions

\* Stripe's side: subscriptions move, events are only ever added.
LEMMA StripeStep ==
  ASSUME IInv, \E s \in Subs : Buy(s) PROVE IInv'
<1>1. PICK s \in Subs : Buy(s) OBVIOUS
<1>2. UNCHANGED <<user, acked, seen, processed, applied, work, rec>>
  BY <1>1 DEF Buy, OpenCheckout, PayCheckout, Change, ledger
<1>3. stripe \in [Subs -> Subscriptions] /\ events \in Seq(EventRecords)
  BY DEF IInv, Typed, Subscriptions, EventRecords
<1>4. /\ stripe' \in [Subs -> Subscriptions] /\ events' \in Seq(EventRecords)
      /\ Len(events) <= Len(events') /\ faults' \in 0..MaxFaults
  <2>1. CASE OpenCheckout(s)
    <3>1. PICK customer \in {s, user.customer} \ {NoCustomer} :
            stripe' = [stripe EXCEPT ![s].status = "session", ![s].customer = customer]
      BY <2>1 DEF OpenCheckout
    <3>2. customer \in Subs \cup {NoCustomer} BY DEF IInv, Typed
    <3>3. "session" \in Statuses /\ 0 \in Periods BY BillingAssumption DEF Statuses, Periods
    <3>4. stripe' \in [Subs -> Subscriptions] BY <1>3, <3>1, <3>2, <3>3, SubscriptionMoves
    <3>5. faults' \in 0..MaxFaults
      BY <2>1, BillingAssumption DEF OpenCheckout, Fault, NoFault, IInv, Typed
    <3>6. events' = events BY <2>1 DEF OpenCheckout
    <3> QED BY <1>3, <3>4, <3>5, <3>6
  <2>2. CASE PayCheckout(s)
    <3>1. PICK status \in {"incomplete", "active"}, told \in Told(1) :
            /\ stripe' = [stripe EXCEPT ![s].status = status, ![s].period = 1]
            /\ events' = events \o << Event("subscription", s, status, told),
                                      Event("checkout", s, status, 0) >>
      BY <2>2 DEF PayCheckout
    <3>2. /\ status \in Statuses /\ 1 \in Periods /\ 0 \in Periods
          /\ NoCustomer \in Subs \cup {NoCustomer}
      BY BillingAssumption DEF Periods, Statuses
    <3>3. told \in Periods BY <3>2, ToldIsPeriod
    <3>4. /\ Event("subscription", s, status, told) \in EventRecords
          /\ Event("checkout", s, status, 0) \in EventRecords
      BY <1>3, <3>2, <3>3, EventTyped
    <3>5. events' \in Seq(EventRecords) /\ Len(events') = Len(events) + 2
      BY <1>3, <3>1, <3>4
    <3>6. stripe' \in [Subs -> Subscriptions] BY <1>3, <3>1, <3>2, SubscriptionMoves
    <3>7. faults' \in 0..MaxFaults BY <2>2 DEF PayCheckout, IInv, Typed
    <3> QED BY <1>3, <3>5, <3>6, <3>7
  <2>3. CASE Change(s)
    <3>1. PICK status \in {"active", "canceled"}, period \in 1..MaxPeriod :
            /\ stripe' = [stripe EXCEPT ![s].status = status, ![s].period = period]
            /\ \E told \in Told(period) :
                 events' = Append(events, Event("subscription", s, status, told))
      BY <2>3 DEF Change
    <3>2. PICK told \in Told(period) :
            events' = Append(events, Event("subscription", s, status, told))
      BY <3>1
    <3>3. /\ status \in Statuses /\ period \in Periods
          /\ NoCustomer \in Subs \cup {NoCustomer}
      BY BillingAssumption DEF Periods, Statuses
    <3>4. told \in Periods BY <3>3, ToldIsPeriod
    <3>5. Event("subscription", s, status, told) \in EventRecords
      BY <1>3, <3>3, <3>4, EventTyped
    <3>6. events' \in Seq(EventRecords) /\ Len(events') = Len(events) + 1
      BY <1>3, <3>2, <3>5
    <3>7. stripe' \in [Subs -> Subscriptions] BY <1>3, <3>1, <3>3, SubscriptionMoves
    <3>8. faults' \in 0..MaxFaults BY <2>3 DEF Change, IInv, Typed
    <3> QED BY <1>3, <3>6, <3>7, <3>8
  <2> QED BY <1>1, <2>1, <2>2, <2>3 DEF Buy
<1>5. Len(events) \in Nat /\ Len(events') \in Nat BY <1>3, <1>4
<1> QED
  BY <1>2, <1>4, <1>5
  DEF IInv, Typed, RequestInv, AckedIsApplied, At, EventRecords, Subscriptions

\* A request moves to pc over the same event.
LEMMA RequestMoves ==
  ASSUME work \in [Slots -> Requests], Len(events) \in Nat,
         NEW d \in Slots, NEW pc \in RequestPcs
  PROVE  /\ [work EXCEPT ![d].pc = pc] \in [Slots -> Requests]
         /\ \A grant \in Periods :
              [work EXCEPT ![d].pc = pc, ![d].grant = grant] \in [Slots -> Requests]
         /\ [work EXCEPT ![d] = Idle] \in [Slots -> Requests]
<1>1. Idle \in Requests BY BillingAssumption DEF Idle, Requests, RequestPcs, Periods
<1> QED BY <1>1 DEF Requests

\* The steps of one request: what each leaves behind for the steps after it.
LEMMA RequestStep ==
  ASSUME IInv, NEW d \in Slots, Handle(d) PROVE IInv'
<1>1. UNCHANGED <<stripe, events, rec>>
  BY DEF Handle, Insert, Prior, Link, Retrieve, Grant, Entitle, Stamp, Respond, ledger
<1>2. ~At(d, "idle") /\ work[d].event \in 1..Len(events)
  BY DEF Handle, Insert, Prior, Link, Retrieve, Grant, Entitle, Stamp, Respond, At, IInv,
         RequestInv
<1>3. events \in Seq(EventRecords) BY DEF IInv, Typed, EventRecords
<1>4. /\ work \in [Slots -> Requests] /\ user \in Users /\ Len(events) \in Nat
      /\ events[work[d].event] \in EventRecords
  BY <1>2, <1>3 DEF IInv, Typed, Requests, RequestPcs, Users
<1> DEFINE Kept == /\ user' \in Users /\ work' \in [Slots -> Requests]
                   /\ {acked', seen', processed', applied'} \subseteq SUBSET (1..Len(events))
                   /\ faults' \in 0..MaxFaults
<1>5. Kept /\ RequestInv' /\ AckedIsApplied'
  <2>1. CASE Insert(d)
    <3>1. PICK pc \in RequestPcs \ {"retrieve", "grant", "stamp", "respond"} :
            work' = [work EXCEPT ![d].pc = pc]
      BY <2>1 DEF Insert, Goto, Branch, RequestPcs
    <3>2. work' \in [Slots -> Requests] BY <3>1, <1>4, RequestMoves
    <3> QED BY <2>1, <3>1, <3>2, <1>1, <1>2, <1>4
        DEF Insert, At, IInv, Typed, RequestInv, AckedIsApplied, Requests
  <2>2. CASE Prior(d)
    <3>1. PICK pc \in RequestPcs \ {"retrieve", "grant", "stamp"} :
            /\ work' = [work EXCEPT ![d].pc = pc]
            /\ pc = "respond" => work[d].event \in processed
      BY <2>2 DEF Prior, Goto, Branch, RequestPcs
    <3>2. work' \in [Slots -> Requests] BY <3>1, <1>4, RequestMoves
    <3>3. faults' \in 0..MaxFaults
      BY <2>2, BillingAssumption DEF Prior, Fault, NoFault, IInv, Typed
    <3>4. UNCHANGED <<user, acked, seen, processed, applied>> BY <2>2 DEF Prior, ledger
    <3> QED BY <3>1, <3>2, <3>3, <3>4, <1>1, <1>2, <1>4
        DEF At, IInv, Typed, RequestInv, AckedIsApplied, Requests
  <2>3. CASE Link(d)
    <3>1. work' = [work EXCEPT ![d].pc = "retrieve"] BY <2>3 DEF Link, Goto
    <3>2. work' \in [Slots -> Requests]
      BY <3>1, <1>4, RequestMoves DEF RequestPcs
    <3>3. user' \in Users BY <2>3, <1>4 DEF Link, Users, EventRecords
    <3> QED BY <2>3, <3>1, <3>2, <3>3, <1>1, <1>2, <1>4
        DEF Link, ledger, At, IInv, Typed, RequestInv, AckedIsApplied, Requests
  <2>4. CASE Retrieve(d)
    <3>1. PICK pc \in {"grant", "stamp"}, grant \in Periods :
            \/ work' = [work EXCEPT ![d].pc = pc]
            \/ work' = [work EXCEPT ![d].pc = pc, ![d].grant = grant]
      <4>1. stripe[events[work[d].event].sub].period \in Periods
        BY <1>4 DEF IInv, Typed, EventRecords
      <4>2. 0 \in Periods BY BillingAssumption DEF Periods
      <4> QED BY <2>4, <4>1, <4>2, ToldIsPeriod, GrantIsPeriod DEF Retrieve, Goto
    <3>2. work' \in [Slots -> Requests]
      <4>1. pc \in RequestPcs BY DEF RequestPcs
      <4>2. CASE work' = [work EXCEPT ![d].pc = pc] BY <4>1, <4>2, <1>4, RequestMoves
      <4>3. CASE work' = [work EXCEPT ![d].pc = pc, ![d].grant = grant]
        BY <4>1, <4>3, <1>4, RequestMoves
      <4> QED BY <3>1, <4>2, <4>3
    <3>3. faults' \in 0..MaxFaults
      BY <2>4, BillingAssumption DEF Retrieve, Fault, NoFault, IInv, Typed
    <3>4. /\ UNCHANGED <<user, acked, seen, processed, applied>> /\ At(d, "retrieve")
      BY <2>4 DEF Retrieve, ledger
    <3>5. /\ work'[d].pc = pc /\ work'[d].event = work[d].event
          /\ \A f \in Slots \ {d} : work'[f] = work[f]
      <4>1. CASE work' = [work EXCEPT ![d].pc = pc] BY <4>1, <1>4 DEF Requests
      <4>2. CASE work' = [work EXCEPT ![d].pc = pc, ![d].grant = grant]
        BY <4>2, <1>4 DEF Requests
      <4> QED BY <3>1, <4>1, <4>2
    <3> QED BY <3>2, <3>3, <3>4, <3>5, <1>1, <1>2, <1>4
        DEF At, IInv, Typed, RequestInv, AckedIsApplied, Requests
  <2>5. CASE Grant(d)
    <3>1. work' = [work EXCEPT ![d].pc = "stamp"] BY <2>5 DEF Grant, Goto
    <3>2. work' \in [Slots -> Requests]
      BY <3>1, <1>4, RequestMoves DEF RequestPcs
    <3>3. user' \in Users BY <2>5, <1>4 DEF Grant, Users, Requests
    <3> QED BY <2>5, <3>1, <3>2, <3>3, <1>1, <1>2, <1>4
        DEF Grant, ledger, At, IInv, Typed, RequestInv, AckedIsApplied, Requests
  <2>6. CASE Entitle(d)
    <3>1. \/ /\ work' = [work EXCEPT ![d].pc = "stamp"]
             /\ applied' = applied \cup {work[d].event}
          \/ work' = [work EXCEPT ![d] = Idle] /\ UNCHANGED applied
      BY <2>6 DEF Entitle, Goto
    <3>2. work' \in [Slots -> Requests]
      <4>1. "stamp" \in RequestPcs BY DEF RequestPcs
      <4>2. CASE work' = [work EXCEPT ![d].pc = "stamp"] BY <4>1, <4>2, <1>4, RequestMoves
      <4>3. CASE work' = [work EXCEPT ![d] = Idle] BY <4>1, <4>3, <1>4, RequestMoves
      <4> QED BY <3>1, <4>2, <4>3
    <3>3. user' \in Users
      BY <2>6, <1>4, GrantIsPeriod DEF Entitle, Users, EventRecords
    <3>4. UNCHANGED <<acked, seen, processed, faults>> BY <2>6 DEF Entitle, ledger
    <3> QED BY <3>1, <3>2, <3>3, <3>4, <1>1, <1>2, <1>4
        DEF At, IInv, Typed, RequestInv, AckedIsApplied, Requests, Idle
  <2>7. CASE Stamp(d)
    <3>1. work' = [work EXCEPT ![d].pc = "respond"] BY <2>7 DEF Stamp, Goto
    <3>2. work' \in [Slots -> Requests]
      BY <3>1, <1>4, RequestMoves DEF RequestPcs
    <3> QED BY <2>7, <3>1, <3>2, <1>1, <1>2, <1>4
        DEF Stamp, At, IInv, Typed, RequestInv, AckedIsApplied, Requests
  <2>8. CASE Respond(d)
    <3>1. work' \in [Slots -> Requests]
      BY <2>8, <1>4, RequestMoves DEF Respond, RequestPcs
    <3> QED BY <2>8, <3>1, <1>1, <1>2, <1>4
        DEF Respond, ledger, At, IInv, Typed, RequestInv, AckedIsApplied, Requests, Idle
  <2> QED BY <2>1, <2>2, <2>3, <2>4, <2>5, <2>6, <2>7, <2>8 DEF Handle
<1> QED
  BY <1>1, <1>5 DEF IInv, Typed, Users, Requests, RequestPcs

\* Deliveries, faults and the reconcile run touch neither ledger nor history.
LEMMA OtherStep ==
  ASSUME IInv,
         \/ \E d \in Slots : (\E e \in 1..Len(events) : Deliver(d, e)) \/ Abandon(d)
         \/ Reconcile \/ ReconcileAbandon
  PROVE  IInv'
<1>1. UNCHANGED <<stripe, events, acked, seen, processed, applied>>
  BY DEF Deliver, Abandon, Reconcile, ReconcileLoad, ReconcileList, ReconcileWrite,
         ReconcileAbandon, ledger
<1>2. /\ work \in [Slots -> Requests] /\ user \in Users
      /\ events \in Seq(EventRecords) /\ Len(events) \in Nat
  BY DEF IInv, Typed, Requests, RequestPcs, Users, EventRecords
<1>3. CASE \E d \in Slots : \E e \in 1..Len(events) : Deliver(d, e)
  <2>1. PICK d \in Slots, e \in 1..Len(events) : Deliver(d, e) BY <1>3
  <2>2. work' = [work EXCEPT ![d].pc = "insert", ![d].event = e]
    BY <2>1 DEF Deliver
  <2>3. e \in 0..Len(events) /\ "insert" \in RequestPcs BY <1>2 DEF RequestPcs
  <2>4. work' \in [Slots -> Requests]
    <3>1. \A r \in Requests : [r EXCEPT !.pc = "insert", !.event = e] \in Requests
      BY <2>3 DEF Requests
    <3>2. [work[d] EXCEPT !.pc = "insert", !.event = e] \in Requests BY <1>2, <3>1
    <3>3. work' = [work EXCEPT ![d] = [work[d] EXCEPT !.pc = "insert", !.event = e]]
      BY <2>2, <1>2
    <3> QED BY <1>2, <3>2, <3>3
  <2>5. UNCHANGED <<user, rec, faults>> BY <2>1 DEF Deliver
  <2> QED BY <1>1, <1>2, <2>2, <2>4, <2>5
      DEF IInv, Typed, RequestInv, AckedIsApplied, At, Requests, RequestPcs, Idle
<1>4. CASE \E d \in Slots : Abandon(d)
  <2>1. PICK d \in Slots : Abandon(d) BY <1>4
  <2>2. work' = [work EXCEPT ![d] = Idle] /\ work' \in [Slots -> Requests]
    BY <1>2, <2>1, RequestMoves DEF Abandon, RequestPcs
  <2>3. UNCHANGED <<user, rec>> /\ faults' \in 0..MaxFaults
    BY <2>1, BillingAssumption DEF Abandon, Fault, IInv, Typed
  <2> QED BY <1>1, <1>2, <2>2, <2>3
      DEF IInv, Typed, RequestInv, AckedIsApplied, At, Requests, RequestPcs, Idle
<1>5. CASE Reconcile \/ ReconcileAbandon
  <2>1. UNCHANGED work BY <1>5 DEF Reconcile, ReconcileLoad, ReconcileList, ReconcileWrite,
                                   ReconcileAbandon
  <2>2. faults' \in 0..MaxFaults
    <3>1. faults' = faults \/ Fault
      BY <1>5 DEF Reconcile, ReconcileLoad, ReconcileList, ReconcileWrite, ReconcileAbandon
    <3> QED BY <3>1, BillingAssumption DEF Fault, IInv, Typed
  <2>3. rec' \in Reconciles
    <3>1. rec \in Reconciles /\ Rest \in Reconciles /\ user.customer \in Subs \cup {NoCustomer}
      BY BillingAssumption DEF IInv, Typed, Reconciles, Rest, Periods
    <3>2. CASE ReconcileLoad BY <3>1, <3>2 DEF ReconcileLoad, Reconciles
    <3>3. CASE ReconcileList
      <4>1. \/ rec' = Rest
            \/ \E pro \in Periods : rec' = [rec EXCEPT !.pc = "write", !.derived = pro]
        BY <3>3 DEF ReconcileList
      <4> QED BY <3>1, <4>1 DEF Reconciles
    <3>4. CASE ReconcileWrite BY <3>1, <3>4 DEF ReconcileWrite
    <3>5. CASE ReconcileAbandon BY <3>1, <3>5 DEF ReconcileAbandon
    <3> QED BY <1>5, <3>2, <3>3, <3>4, <3>5 DEF Reconcile
  <2>4. user' \in Users
    <3>1. user' = user \/ user' = [user EXCEPT !.pro = rec.derived]
      BY <1>5 DEF Reconcile, ReconcileLoad, ReconcileList, ReconcileWrite, ReconcileAbandon
    <3> QED BY <1>2, <3>1 DEF Users, IInv, Typed
  <2> QED BY <1>1, <1>2, <2>1, <2>2, <2>3, <2>4
      DEF IInv, Typed, RequestInv, AckedIsApplied, At, Users, Reconciles
<1> QED BY <1>3, <1>4, <1>5

\* Every step keeps the invariant.
LEMMA StepHolds == ASSUME IInv, [Next]_vars PROVE IInv'
<1>1. CASE UNCHANGED vars
  BY <1>1 DEF vars, ledger, IInv, Typed, RequestInv, AckedIsApplied, At
<1> QED BY <1>1, StripeStep, RequestStep, OtherStep DEF Next

-----------------------------------------------------------------------------
\* The inductive invariant holds throughout.
THEOREM Applied == Spec => []IInv
<1> QED BY InitHolds, StepHolds, PTL DEF Spec

\* The state is typed whatever the number of subscriptions, requests and faults.
THEOREM Typing == Spec => []Typed
<1>1. IInv => Typed BY DEF IInv
<1> QED BY <1>1, Applied, PTL

\* No event is answered 200 before it has been applied and stamped, whatever the overlap
\* of the requests and wherever one of them is cut off.
THEOREM AcknowledgedIsApplied == Spec => []AckedIsApplied
<1>1. IInv => AckedIsApplied BY DEF IInv
<1> QED BY <1>1, Applied, PTL

-----------------------------------------------------------------------------
(* The webhook and the reconcile agree, for one subscription whose events come in   *)
(* order, one request at a time.                                                    *)

\* Outside of it the property does not hold: an older snapshot, applied late, overwrites what
\* a newer one said, until a reconcile is asked for.
OneAtATime ==
  /\ Ordered /\ ~MayOmit /\ ~MayMisread /\ ~MayReconcile
  /\ \E s : Subs = {s}
  /\ \E d : Slots = {d}

\* The last event Stripe made of the subscription itself.
LastSub(l) ==
  /\ l \in 1..Len(events) /\ IsSubscription(l)
  /\ \A f \in 1..Len(events) : IsSubscription(f) => f <= l

\* Every event names the customer the checkout made, and the last one says how the
\* subscription stands.
MadeInOrder ==
  /\ events = <<>> <=> \A s \in Subs : stripe[s].status \in {"none", "session"}
  /\ events # <<>> => \E l \in 1..Len(events) : LastSub(l)
  /\ \A s \in Subs :
       /\ stripe[s].customer = IF stripe[s].status = "none" THEN NoCustomer ELSE s
       /\ stripe[s].status = "active" => stripe[s].period > 0
       /\ user.customer \in {NoCustomer, s}
       /\ \A e \in 1..Len(events) : events[e].customer = s
       /\ \A l \in 1..Len(events) : LastSub(l) =>
            events[l].status = stripe[s].status /\ events[l].period = stripe[s].period

\* A subscription event is taken up only when the earlier ones are answered, and written only
\* while it is not stamped.
TakenInOrder ==
  /\ processed \subseteq seen
  /\ \A e, f \in 1..Len(events) :
       IsSubscription(e) /\ IsSubscription(f) /\ e < f =>
         /\ f \in applied => e \in acked
         /\ \A d \in Slots : ~At(d, "idle") /\ work[d].event = f => e \in acked
  /\ \A d \in Slots :
       /\ work[d].pc \notin {"idle", "insert"} => work[d].event \in seen
       /\ At(d, "entitle") => IsSubscription(work[d].event) /\ work[d].event \notin processed
       /\ work[d].pc \in {"link", "retrieve", "grant"} => ~IsSubscription(work[d].event)

\* Once the last event is written the row says what Stripe says, and no grant that was read
\* earlier says anything else.
LastIsHeld ==
  \A l \in applied, s \in Subs : LastSub(l) =>
    /\ user = [customer |-> s, pro |-> ProUntil(stripe[s].status, stripe[s].period)]
    /\ \A d \in Slots :
         At(d, "grant") => work[d].grant = ProUntil(stripe[s].status, stripe[s].period)

AgreeInv == MadeInOrder /\ TakenInOrder /\ LastIsHeld /\ rec.pc = "idle"

\* There is one last event.
LEMMA LastIsOne ==
  ASSUME Typed, NEW l, LastSub(l), NEW m, LastSub(m)
  PROVE  l = m
<1>1. Len(events) \in Nat BY DEF Typed
<1> QED BY <1>1 DEF LastSub

\* Nothing is there to disagree about.
LEMMA AgreeInit == Init => AgreeInv
BY DEF Init, AgreeInv, MadeInOrder, TakenInOrder, LastIsHeld, At, Idle, Rest

\* A new event of the subscription becomes the last one, and nobody has written it yet.
LEMMA AgreeBuys ==
  ASSUME OneAtATime, IInv, AgreeInv, NEW s \in Subs, Buy(s)
  PROVE  AgreeInv'
<1>1. Subs = {s} BY DEF OneAtATime
<1>2. UNCHANGED <<user, acked, seen, processed, applied, work, rec>>
  BY DEF Buy, OpenCheckout, PayCheckout, Change, ledger
<1>3. /\ stripe \in [Subs -> Subscriptions] /\ events \in Seq(EventRecords)
      /\ applied \subseteq 1..Len(events) /\ Len(events) \in Nat
  BY DEF IInv, Typed, Subscriptions, EventRecords
<1>4. stripe[s].customer = (IF stripe[s].status = "none" THEN NoCustomer ELSE s)
  BY DEF AgreeInv, MadeInOrder
<1>5. CASE OpenCheckout(s)
  <2>1. events = <<>> /\ UNCHANGED events
    BY <1>1, <1>5 DEF OpenCheckout, AgreeInv, MadeInOrder
  <2>2. stripe' = [stripe EXCEPT ![s].status = "session", ![s].customer = s]
    BY <1>1, <1>5 DEF OpenCheckout, AgreeInv, MadeInOrder
  <2>3. stripe'[s].status = "session" /\ stripe'[s].customer = s
    BY <1>3, <2>2 DEF Subscriptions
  <2>4. MadeInOrder'
    BY <1>1, <1>2, <2>1, <2>3 DEF AgreeInv, MadeInOrder
  <2>5. TakenInOrder' /\ LastIsHeld'
    BY <1>2, <1>3, <2>1
    DEF AgreeInv, TakenInOrder, LastIsHeld, LastSub, At, IsSubscription
  <2> QED BY <1>2, <2>4, <2>5 DEF AgreeInv
<1>6. ASSUME NEW status \in Statuses \ {"none", "session"}, NEW period \in Periods,
             stripe' = [stripe EXCEPT ![s].status = status, ![s].period = period],
             stripe[s].status # "none", status = "active" => period > 0,
             NEW m \in Nat, m > Len(events), Len(events') \in Nat, m <= Len(events'),
             \A e \in 1..Len(events) : events'[e] = events[e],
             events'[m] = Event("subscription", s, status, period),
             \A e \in 1..Len(events') : e > Len(events) /\ e # m =>
               events'[e] = Event("checkout", s, status, 0)
      PROVE  AgreeInv'
  <2>1. /\ stripe'[s].status = status /\ stripe'[s].period = period
        /\ stripe'[s].customer = stripe[s].customer /\ stripe[s].customer = s
    BY <1>3, <1>4, <1>6 DEF Subscriptions
  <2>2. /\ \A e \in 1..Len(events) : IsSubscription(e)' = IsSubscription(e)
        /\ \A e \in 1..Len(events') : e > Len(events) /\ IsSubscription(e)' => e = m
        /\ IsSubscription(m)'
    BY <1>6 DEF IsSubscription, Event
  <2>3. \A l : LastSub(l)' => l = m
    BY <1>3, <1>6, <2>2 DEF LastSub
  <2>4. LastSub(m)'
    BY <1>3, <1>6, <2>2 DEF LastSub
  <2>5. MadeInOrder'
    <3>1. events' # <<>>
      BY <1>3, <1>6
    <3>2. \A e \in 1..Len(events') : events'[e].customer = s
      BY <1>1, <1>3, <1>6, <2>1 DEF Event, AgreeInv, MadeInOrder
    <3>3. events'[m].status = status /\ events'[m].period = period
      BY <1>6 DEF Event
    <3>4. m \in 1..Len(events')
      BY <1>3, <1>6
    <3>5. stripe'[s].status \notin {"none", "session"} /\ user' = user
      BY <1>2, <1>6, <2>1
    <3>6. user.customer \in {NoCustomer, s}
      BY DEF AgreeInv, MadeInOrder
    <3>7. stripe'[s].status = "active" => stripe'[s].period > 0
      BY <1>6, <2>1
    <3>8. \A l \in 1..Len(events') : LastSub(l)' =>
            events'[l].status = stripe'[s].status /\ events'[l].period = stripe'[s].period
      BY <2>1, <2>3, <3>3
    <3> QED
      BY <1>1, <2>1, <2>4, <3>1, <3>2, <3>4, <3>5, <3>6, <3>7, <3>8 DEF MadeInOrder
  <2>6. TakenInOrder'
    <3>1. \A d \in Slots : ~At(d, "idle") => work[d].event \in 1..Len(events)
      BY DEF IInv, RequestInv
    <3>2. ASSUME NEW e \in 1..Len(events'), NEW f \in 1..Len(events'),
                 IsSubscription(e)', IsSubscription(f)', e < f,
                 f \in applied \/ \E d \in Slots : ~At(d, "idle") /\ work[d].event = f
          PROVE  e \in acked
      <4>1. f \in 1..Len(events) BY <1>3, <3>1, <3>2
      <4>2. e \in 1..Len(events) BY <1>3, <3>2, <4>1
      <4> QED BY <2>2, <3>2, <4>1, <4>2 DEF AgreeInv, TakenInOrder
    <3>3. \A d \in Slots : work[d].pc # "idle" =>
                            IsSubscription(work[d].event)' = IsSubscription(work[d].event)
      BY <1>2, <2>2, <3>1 DEF At
    <3>5. \A d \in Slots :
            /\ work'[d].pc \notin {"idle", "insert"} => work'[d].event \in seen'
            /\ At(d, "entitle")' =>
                IsSubscription(work[d].event)' /\ work'[d].event \notin processed'
            /\ work'[d].pc \in {"link", "retrieve", "grant"} => ~IsSubscription(work[d].event)'
      BY <1>2, <3>3 DEF AgreeInv, TakenInOrder, At
    <3>6. processed' \subseteq seen'
      BY <1>2 DEF AgreeInv, TakenInOrder
    <3>7. \A e, f \in 1..Len(events') :
            IsSubscription(e)' /\ IsSubscription(f)' /\ e < f =>
              /\ f \in applied' => e \in acked'
              /\ \A d \in Slots : ~At(d, "idle")' /\ work'[d].event = f => e \in acked'
      BY <1>2, <3>2 DEF At
    <3> QED BY <3>5, <3>6, <3>7 DEF TakenInOrder
  <2>7. LastIsHeld'
    BY <1>2, <1>3, <1>6, <2>3 DEF LastIsHeld
  <2> QED BY <1>2, <2>5, <2>6, <2>7 DEF AgreeInv
<1>7. CASE PayCheckout(s)
  <2>1. PICK status \in {"incomplete", "active"}, told \in Told(1) :
          /\ stripe' = [stripe EXCEPT ![s].status = status, ![s].period = 1]
          /\ events' = events \o << Event("subscription", s, status, told),
                                    Event("checkout", s, status, 0) >>
    BY <1>7 DEF PayCheckout
  <2>2. told = 1 BY DEF OneAtATime, Told
  <2>3. stripe[s].status = "session" /\ events = <<>>
    BY <1>1, <1>7 DEF PayCheckout, AgreeInv, MadeInOrder
  <2>4. events' = << Event("subscription", s, status, 1), Event("checkout", s, status, 0) >>
    BY <2>1, <2>2, <2>3
  <2>5. status \in Statuses \ {"none", "session"} /\ 1 \in Periods
    BY BillingAssumption DEF Statuses, Periods
  <2>6. stripe' = [stripe EXCEPT ![s].status = status, ![s].period = 1] BY <2>1
  <2>7. /\ Len(events) = 0 /\ Len(events') = 2
        /\ events'[1] = Event("subscription", s, status, 1)
        /\ events'[2] = Event("checkout", s, status, 0)
    BY <2>3, <2>4
  <2>8. \A e \in 1..Len(events') : e > Len(events) /\ e # 1 =>
          events'[e] = Event("checkout", s, status, 0)
    <3>1. \A e \in 1..2 : e = 1 \/ e = 2 OBVIOUS
    <3> QED BY <2>7, <3>1
  <2>9. (1 \in Nat /\ 1 > Len(events) /\ Len(events') \in Nat /\ 1 <= Len(events'))
        /\ \A e \in 1..Len(events) : events'[e] = events[e]
    BY <2>7
  <2>10. stripe[s].status # "none" /\ (status = "active" => 1 > 0) BY <2>3
  <2> QED BY <1>6, <2>5, <2>6, <2>7, <2>8, <2>9, <2>10
<1>8. CASE Change(s)
  <2>1. PICK status \in {"active", "canceled"}, period \in 1..MaxPeriod :
          /\ stripe[s].status \in {"incomplete", "active"}
          /\ stripe' = [stripe EXCEPT ![s].status = status, ![s].period = period]
          /\ \E told \in Told(period) :
               events' = Append(events, Event("subscription", s, status, told))
    BY <1>8 DEF Change
  <2>2. events' = Append(events, Event("subscription", s, status, period))
    BY <2>1 DEF OneAtATime, Told
  <2>3. status \in Statuses \ {"none", "session"} /\ period \in Periods /\ period > 0
    BY BillingAssumption DEF Statuses, Periods
  <2>4. /\ Len(events') = Len(events) + 1
        /\ \A e \in 1..Len(events) : events'[e] = events[e]
        /\ events'[Len(events) + 1] = Event("subscription", s, status, period)
    BY <1>3, <2>2
  <2> DEFINE m == Len(events) + 1
  <2>5. /\ m \in Nat /\ m > Len(events) /\ Len(events') \in Nat /\ m <= Len(events')
        /\ \A e \in 1..Len(events') : e > Len(events) /\ e # m =>
             events'[e] = Event("checkout", s, status, 0)
    BY <1>3, <2>4
  <2>6. stripe[s].status # "none" /\ events'[m] = Event("subscription", s, status, period)
    BY <2>1, <2>4
  <2> HIDE DEF m
  <2> QED BY <1>6, <2>1, <2>3, <2>4, <2>5, <2>6
<1> QED BY <1>5, <1>7, <1>8 DEF Buy

\* What stays of the order of the events when only the database moves.
LEMMA MadeKept ==
  ASSUME MadeInOrder, UNCHANGED <<stripe, events>>,
         \A s \in Subs : user'.customer \in {NoCustomer, s}
  PROVE  MadeInOrder' /\ \A l : LastSub(l)' = LastSub(l)
BY DEF MadeInOrder, LastSub, IsSubscription

\* A subscription event is delivered in its turn; one that is not under way any more leaves
\* nothing behind but what it wrote.
LEMMA AgreeDelivers ==
  ASSUME OneAtATime, IInv, AgreeInv, NEW d \in Slots,
         (\E e \in 1..Len(events) : Deliver(d, e)) \/ Abandon(d)
  PROVE  AgreeInv'
<1>1. UNCHANGED <<user, stripe, events, acked, seen, processed, applied, rec>>
  BY DEF Deliver, Abandon, ledger
<1>2. Slots = {d} /\ work \in [Slots -> Requests]
  BY DEF OneAtATime, IInv, Typed, Requests, RequestPcs
<1>3. MadeInOrder' /\ \A l : LastSub(l)' = LastSub(l)
  BY <1>1, MadeKept DEF AgreeInv, MadeInOrder
<1>4. \/ work'[d].pc = "idle"
      \/ /\ work'[d].pc = "insert" /\ work'[d].event \in 1..Len(events)
         /\ IsSubscription(work'[d].event) =>
              \A f \in 1..(work'[d].event - 1) : IsSubscription(f) => f \in acked
  <2>1. CASE Abandon(d)
    BY <1>2, <2>1 DEF Abandon, Idle
  <2>2. ASSUME NEW e \in 1..Len(events), Deliver(d, e)
        PROVE  /\ work'[d].pc = "insert" /\ work'[d].event = e
               /\ IsSubscription(e) => \A f \in 1..(e - 1) : IsSubscription(f) => f \in acked
    BY <1>2, <2>2 DEF Deliver, Requests, OneAtATime
  <2> QED BY <2>1, <2>2
<1>5. Len(events) \in Nat /\ applied \subseteq 1..Len(events)
  BY DEF IInv, Typed
<1>6. TakenInOrder'
  BY <1>1, <1>2, <1>4, <1>5 DEF AgreeInv, TakenInOrder, At, IsSubscription
<1>7. LastIsHeld'
  BY <1>1, <1>2, <1>3, <1>4 DEF AgreeInv, LastIsHeld, At
<1> QED BY <1>1, <1>3, <1>6, <1>7 DEF AgreeInv

\* The steps of the one request.
LEMMA AgreeHandles ==
  ASSUME OneAtATime, IInv, AgreeInv, NEW d \in Slots, Handle(d)
  PROVE  AgreeInv'
<1> DEFINE ev == work[d].event
<1>1. UNCHANGED <<stripe, events, rec>>
  BY DEF Handle, Insert, Prior, Link, Retrieve, Grant, Entitle, Stamp, Respond, ledger
<1>2. PICK s : Subs = {s}
  BY DEF OneAtATime
<1>3. /\ Slots = {d} /\ work \in [Slots -> Requests] /\ user \in Users
      /\ applied \subseteq 1..Len(events) /\ Len(events) \in Nat /\ acked \subseteq processed
      /\ ~At(d, "idle") /\ ev \in 1..Len(events) /\ events \in Seq(EventRecords)
  BY DEF OneAtATime, IInv, Typed, Requests, RequestPcs, Users, EventRecords, RequestInv,
         AckedIsApplied, Handle, Insert, Prior, Link, Retrieve, Grant, Entitle, Stamp, Respond, At
<1>4. events[ev].customer = s /\ user.customer \in {NoCustomer, s}
  BY <1>2, <1>3 DEF AgreeInv, MadeInOrder
<1>5. ASSUME NEW pc, work'[d].pc = pc, pc = "idle" \/ work'[d].event = ev,
             user'.customer \in {NoCustomer, s}, acked \subseteq acked',
             processed' \subseteq seen', seen \subseteq seen',
             pc \notin {"idle", "insert"} => ev \in seen',
             pc = "entitle" => IsSubscription(ev) /\ ev \notin processed',
             pc \in {"link", "retrieve", "grant"} => ~IsSubscription(ev),
             applied' = applied \/ applied' = applied \cup {ev}
      PROVE  MadeInOrder' /\ TakenInOrder' /\ \A l : LastSub(l)' = LastSub(l)
  <2>1. MadeInOrder' /\ \A l : LastSub(l)' = LastSub(l)
    BY <1>1, <1>2, <1>5, MadeKept DEF AgreeInv
  <2>2. ASSUME NEW e \in 1..Len(events), NEW f \in 1..Len(events),
               IsSubscription(e), IsSubscription(f), e < f,
               f \in applied' \/ (work'[d].pc # "idle" /\ work'[d].event = f)
        PROVE  e \in acked'
    BY <1>3, <1>5, <2>2 DEF AgreeInv, TakenInOrder, At
  <2>3. \A e : IsSubscription(e)' = IsSubscription(e)
    BY <1>1 DEF IsSubscription
  <2>4. TakenInOrder'
    BY <1>1, <1>3, <1>5, <2>2, <2>3 DEF TakenInOrder, At, IsSubscription
  <2> QED BY <2>1, <2>4
<1>6. ASSUME NEW pc \in RequestPcs, Goto(d, pc)
      PROVE  work'[d].pc = pc /\ work'[d].event = ev /\ work'[d].grant = work[d].grant
  BY <1>3, <1>6 DEF Goto, Requests
<1> HIDE DEF ev
<1>7. CASE Insert(d) \/ Prior(d)
  <2>1. PICK pc \in {"prior", "respond", "entitle", "link"} :
          /\ Goto(d, pc)
          /\ pc = "entitle" => IsSubscription(ev) /\ ev \notin processed
          /\ pc = "link" => ~IsSubscription(ev)
    BY <1>7 DEF Insert, Prior, Branch, OneAtATime, AgreeInv, TakenInOrder, ev
  <2>2. /\ UNCHANGED <<user, acked, processed, applied>>
        /\ seen \subseteq seen' /\ ev \in seen'
    BY <1>7 DEF Insert, Prior, ledger, AgreeInv, TakenInOrder, At, ev
  <2>3. pc \in RequestPcs BY DEF RequestPcs
  <2>4. work'[d].pc = pc /\ work'[d].event = ev BY <1>6, <2>1, <2>3
  <2>5. MadeInOrder' /\ TakenInOrder' /\ \A l : LastSub(l)' = LastSub(l)
    BY <1>4, <1>5, <2>1, <2>2, <2>4 DEF AgreeInv, TakenInOrder
  <2>6. LastIsHeld'
    BY <1>1, <1>3, <2>2, <2>4, <2>5 DEF AgreeInv, LastIsHeld, At
  <2> QED BY <1>1, <2>5, <2>6 DEF AgreeInv
<1>8. CASE Link(d)
  <2>1. /\ ~IsSubscription(ev) /\ ev \in seen
        /\ user' = [user EXCEPT !.customer = s] /\ applied' = applied \cup {ev}
        /\ UNCHANGED <<acked, seen, processed>>
    BY <1>4, <1>8 DEF Link, At, ledger, AgreeInv, TakenInOrder, ev
  <2>2. work'[d].pc = "retrieve" /\ work'[d].event = ev
    BY <1>6, <1>8 DEF Link, RequestPcs
  <2>3. user'.customer = s /\ user'.pro = user.pro
    BY <1>3, <2>1 DEF Users
  <2>4. MadeInOrder' /\ TakenInOrder' /\ \A l : LastSub(l)' = LastSub(l)
    BY <1>5, <2>1, <2>2, <2>3 DEF AgreeInv, TakenInOrder
  <2>5. \A l \in applied' : LastSub(l) => l \in applied
    BY <2>1 DEF LastSub
  <2>6. user.customer = s => user' = user
    BY <1>3, <2>1 DEF Users
  <2>7. LastIsHeld'
    <3>1. ASSUME NEW l \in applied', LastSub(l)
          PROVE  user' = user /\ user = [customer |-> s, pro |-> ProUntil(stripe[s].status,
                                                                        stripe[s].period)]
      BY <1>2, <2>5, <2>6, <3>1 DEF AgreeInv, LastIsHeld
    <3> QED BY <1>1, <1>2, <1>3, <2>2, <2>4, <3>1 DEF LastIsHeld, At
  <2> QED BY <1>1, <2>4, <2>7 DEF AgreeInv
<1>9. CASE Retrieve(d)
  <2>1. /\ ~IsSubscription(ev) /\ ev \in seen
        /\ UNCHANGED <<user, acked, seen, processed, applied>>
    BY <1>9 DEF Retrieve, At, ledger, AgreeInv, TakenInOrder, ev
  <2>2. events[ev].sub = s
    <3>1. events[ev] \in EventRecords BY <1>3
    <3> QED BY <1>2, <3>1 DEF EventRecords
  <2>3. \/ /\ work'[d].pc = "grant" /\ work'[d].event = ev
           /\ work'[d].grant = ProUntil(stripe[s].status, stripe[s].period)
        \/ work'[d].pc = "stamp" /\ work'[d].event = ev
    <3>1. CASE Goto(d, "stamp")
      BY <1>6, <3>1 DEF RequestPcs
    <3>2. ASSUME NEW grant, work' = [work EXCEPT ![d].pc = "grant", ![d].grant = grant]
          PROVE  work'[d].pc = "grant" /\ work'[d].event = ev /\ work'[d].grant = grant
      BY <1>3, <3>2 DEF Requests, ev
    <3> QED BY <1>9, <2>2, <3>1, <3>2 DEF Retrieve, Told, OneAtATime, ev
  <2>4. MadeInOrder' /\ TakenInOrder' /\ \A l : LastSub(l)' = LastSub(l)
    BY <1>4, <1>5, <2>1, <2>3 DEF AgreeInv, TakenInOrder
  <2>5. LastIsHeld'
    BY <1>1, <1>2, <1>3, <2>1, <2>3, <2>4 DEF AgreeInv, LastIsHeld, At
  <2> QED BY <1>1, <2>4, <2>5 DEF AgreeInv
<1>10. CASE Grant(d)
  <2>1. /\ ev \in seen /\ user' = [user EXCEPT !.pro = work[d].grant] /\ At(d, "grant")
        /\ UNCHANGED <<acked, seen, processed, applied>>
    BY <1>10 DEF Grant, At, ledger, AgreeInv, TakenInOrder, ev
  <2>2. work'[d].pc = "stamp" /\ work'[d].event = ev
    BY <1>6, <1>10 DEF Grant, RequestPcs
  <2>3. user'.customer = user.customer
    BY <1>3, <2>1 DEF Users
  <2>4. MadeInOrder' /\ TakenInOrder' /\ \A l : LastSub(l)' = LastSub(l)
    BY <1>4, <1>5, <2>1, <2>2, <2>3 DEF AgreeInv, TakenInOrder
  <2>5. user.pro = work[d].grant => user' = user
    BY <1>3, <2>1 DEF Users
  <2>6. LastIsHeld'
    BY <1>1, <1>2, <1>3, <2>1, <2>2, <2>4, <2>5 DEF AgreeInv, LastIsHeld, At
  <2> QED BY <1>1, <2>4, <2>6 DEF AgreeInv
<1>11. CASE Entitle(d)
  <2>1. /\ IsSubscription(ev) /\ ev \notin processed /\ ev \in seen
        /\ UNCHANGED <<acked, seen, processed>>
    BY <1>11 DEF Entitle, At, ledger, AgreeInv, TakenInOrder, ev
  <2>2. \A l \in 1..Len(events) : LastSub(l) /\ l # ev => l \notin applied
    <3>1. ASSUME NEW l \in 1..Len(events), LastSub(l), l # ev, l \in applied
          PROVE  ev \in acked
      BY <1>3, <2>1, <3>1 DEF LastSub, AgreeInv, TakenInOrder
    <3> QED BY <1>3, <2>1, <3>1
  <2>3. CASE work' = [work EXCEPT ![d] = Idle] /\ UNCHANGED <<user, applied>>
    <3>1. work'[d].pc = "idle"
      BY <1>3, <2>3 DEF Idle
    <3>2. MadeInOrder' /\ TakenInOrder' /\ \A l : LastSub(l)' = LastSub(l)
      BY <1>4, <1>5, <2>1, <2>3, <3>1 DEF AgreeInv, TakenInOrder
    <3>3. LastIsHeld'
      BY <1>1, <1>3, <2>3, <3>1, <3>2 DEF AgreeInv, LastIsHeld, At
    <3> QED BY <1>1, <3>2, <3>3 DEF AgreeInv
  <2>4. CASE /\ Goto(d, "stamp") /\ applied' = applied \cup {ev}
             /\ user' = user \/ user'.customer = user.customer
             /\ LastSub(ev) => user' = [customer |-> s, pro |-> ProUntil(stripe[s].status,
                                                                       stripe[s].period)]
    <3>1. work'[d].pc = "stamp" /\ work'[d].event = ev
      BY <1>6, <2>4 DEF RequestPcs
    <3>2. MadeInOrder' /\ TakenInOrder' /\ \A l : LastSub(l)' = LastSub(l)
      BY <1>4, <1>5, <2>1, <2>4, <3>1 DEF AgreeInv, TakenInOrder
    <3>3. \A l \in applied' : LastSub(l) => l = ev
      BY <1>3, <2>2, <2>4
    <3>4. LastIsHeld'
      BY <1>1, <1>2, <1>3, <2>4, <3>1, <3>2, <3>3 DEF LastIsHeld, At
    <3> QED BY <1>1, <3>2, <3>4 DEF AgreeInv
  <2>5. LastSub(ev) => /\ events[ev].status = stripe[s].status
                       /\ events[ev].period = stripe[s].period
                       /\ ~(events[ev].status = "active" /\ events[ev].period = 0)
    BY <1>2, <1>3 DEF AgreeInv, MadeInOrder, IInv, Typed, Periods
  <2>6. user.customer = events[ev].customer =>
          LET new == [user EXCEPT !.pro = ProUntil(events[ev].status, events[ev].period)] IN
            /\ new.customer = user.customer
            /\ new = [customer |-> s, pro |-> ProUntil(events[ev].status, events[ev].period)]
    BY <1>3, <1>4 DEF Users
  <2> QED BY <1>11, <2>3, <2>4, <2>5, <2>6 DEF Entitle, ev
<1>12. CASE Stamp(d)
  <2>1. /\ ev \in seen /\ processed' = processed \cup {ev}
        /\ UNCHANGED <<user, acked, seen, applied>>
    BY <1>12 DEF Stamp, At, AgreeInv, TakenInOrder, ev
  <2>2. work'[d].pc = "respond" /\ work'[d].event = ev
    BY <1>6, <1>12 DEF Stamp, RequestPcs
  <2>3. MadeInOrder' /\ TakenInOrder' /\ \A l : LastSub(l)' = LastSub(l)
    BY <1>4, <1>5, <2>1, <2>2 DEF AgreeInv, TakenInOrder
  <2>4. LastIsHeld'
    BY <1>1, <1>3, <2>1, <2>2, <2>3 DEF AgreeInv, LastIsHeld, At
  <2> QED BY <1>1, <2>3, <2>4 DEF AgreeInv
<1>13. CASE Respond(d)
  <2>1. acked \subseteq acked' /\ UNCHANGED <<user, seen, processed, applied>>
    BY <1>13 DEF Respond, ledger
  <2>2. work'[d].pc = "idle"
    BY <1>3, <1>13 DEF Respond, Idle
  <2>3. MadeInOrder' /\ TakenInOrder' /\ \A l : LastSub(l)' = LastSub(l)
    BY <1>4, <1>5, <2>1, <2>2 DEF AgreeInv, TakenInOrder
  <2>4. LastIsHeld'
    BY <1>1, <1>3, <2>1, <2>2, <2>3 DEF AgreeInv, LastIsHeld, At
  <2> QED BY <1>1, <2>3, <2>4 DEF AgreeInv
<1> QED BY <1>7, <1>8, <1>9, <1>10, <1>11, <1>12, <1>13 DEF Handle

\* Every step keeps the agreement.
LEMMA AgreeKept ==
  ASSUME OneAtATime, IInv, AgreeInv, [Next]_vars
  PROVE  AgreeInv'
<1>1. CASE UNCHANGED vars
  BY <1>1 DEF vars, ledger, AgreeInv, MadeInOrder, TakenInOrder, LastIsHeld, LastSub,
              IsSubscription, At
<1>2. ~(Reconcile \/ ReconcileAbandon)
  BY DEF OneAtATime, AgreeInv, Reconcile, ReconcileLoad, ReconcileList, ReconcileWrite,
         ReconcileAbandon
<1> QED BY <1>1, <1>2, AgreeBuys, AgreeDelivers, AgreeHandles DEF Next

\* When all events are through, the row says what deriveProUntil says of Stripe's list, for any
\* number of renewals and any number of requests cut off and repeated.
THEOREM WebhookAgrees ==
  ASSUME OneAtATime
  PROVE  Spec => []SettledAgrees
<1>1. IInv /\ AgreeInv => SettledAgrees
  <2> SUFFICES ASSUME IInv, AgreeInv, Settled
               PROVE  Derives(user.customer, user.pro)
    BY DEF SettledAgrees
  <2>1. PICK s : Subs = {s}
    BY DEF OneAtATime
  <2>2. PICK l \in 1..Len(events) : LastSub(l)
    BY DEF AgreeInv, MadeInOrder, Settled
  <2>3. l \in applied
    BY DEF Settled, IInv, AckedIsApplied
  <2>4. /\ user.customer = s
        /\ user.pro = ProUntil(stripe[s].status, stripe[s].period)
    BY <2>1, <2>2, <2>3 DEF AgreeInv, LastIsHeld
  <2>5. stripe[s].customer = s \/ stripe[s].status # "active"
    BY <2>1 DEF AgreeInv, MadeInOrder
  <2>6. ActivePeriods(s) = IF stripe[s].status = "active" THEN {stripe[s].period} ELSE {}
    BY <2>1, <2>5 DEF ActivePeriods
  <2>7. stripe[s].period \in Nat
    BY <2>1, BillingAssumption DEF IInv, Typed, Periods
  <2> QED BY <2>4, <2>6, <2>7 DEF Derives, ProUntil
<1> QED BY <1>1, AgreeInit, AgreeKept, Applied, PTL DEF Spec

=============================================================================
