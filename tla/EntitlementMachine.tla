------------------------ MODULE EntitlementMachine ------------------------
(***************************************************************************)
(* The v2 entitlement of one account: the pure decision of                 *)
(* lib/billing/state-machine.ts, and lib/billing/state-machine-apply.ts    *)
(* with the two database functions it calls, which commit a decision only  *)
(* while the account is at the version the decision was made on.           *)
(*                                                                         *)
(* Handlers work at the same time.  Stripe's events come in any order, any *)
(* number of times and as late as they like, so an event is simply handed  *)
(* to a handler; its stamp is any second.  A grant carries the status its  *)
(* subscription has when the event is taken up, an update the one it had   *)
(* when the event was made.  The caller of these modules is not written    *)
(* yet: an event whose handler fails is an event that comes again.         *)
(*                                                                         *)
(* A second is a number from 1, and 0 is a null timestamp.                 *)
(***************************************************************************)
EXTENDS Integers, FiniteSets

CONSTANTS
  Handlers,    \* calls of applyEntitlementTransition that can be under way
  Subs,        \* Stripe subscriptions of the user
  NoSub,       \* current_subscription_id is null
  MaxTime,     \* bound: the seconds events are stamped with
  MaxVersion,  \* bound: commits
  MaxOverlap,  \* bound: below this version a handler begins while another works
  MaxExtras,   \* bound: extra sites on an Agency subscription
  TrialDays,   \* TRIAL_DAYS, in seconds of this clock
  GraceDays    \* PAST_DUE_GRACE_DAYS, in seconds of this clock

ASSUME SubAssumption == NoSub \notin Subs
ASSUME ClockAssumption == /\ MaxTime \in Nat \ {0} /\ MaxVersion \in Nat /\ MaxOverlap \in Nat
                          /\ MaxExtras \in Nat
                          /\ TrialDays \in Nat \ {0} /\ GraceDays \in Nat \ {0}

VARIABLES
  account,  \* the accounts row, as the machine reads it
  version,  \* accounts.entitlement_version
  held,     \* by handler: the event it works on and what it read
  ended,    \* Stripe: subscriptions that are over
  revoked,  \* history: the latest stamp of a revoke settled while it named the current subscription
  gone,     \* history: ended subscriptions whose end was settled
  crossed   \* history: those whose end was settled while a grant was in hand

history == <<revoked, gone, crossed>>
vars    == <<account, version, held, ended, history>>

-----------------------------------------------------------------------------
(* Snapshots. *)

Stamps    == 1..MaxTime
PaidTiers == {"pro", "agency"}
Trials    == {"pro_trial", "agency_trial"}
States    == {"free", "past_due"} \cup Trials \cup PaidTiers
Variants  == {"none", "no_card", "card_required"}

Snapshots ==
  [state: States, tier: {"free"} \cup PaidTiers, variant: Variants,
   trialEnds: Nat, trialUsed: Nat, pastTier: {"none"} \cup PaidTiers,
   pastSince: Nat, disputed: Nat, extras: Nat, sub: Subs \cup {NoSub}, changed: Nat]

FreeStart ==
  [state |-> "free", tier |-> "free", variant |-> "none", trialEnds |-> 0,
   trialUsed |-> 0, pastTier |-> "none", pastSince |-> 0, disputed |-> 0,
   extras |-> 0, sub |-> NoSub, changed |-> 0]

TierOf(s) == CASE s.state = "past_due"                 -> s.pastTier
               [] s.state \in {"pro_trial", "pro"}       -> "pro"
               [] s.state \in {"agency_trial", "agency"} -> "agency"
               [] OTHER                                  -> "free"

FollowsStripe(s) == IF s.state = "pro_trial" THEN s.variant = "card_required"
                                             ELSE s.state # "free"

\* legalityViolations finds nothing; the accounts table has the same checks.
Legal(s) ==
  /\ s.tier = TierOf(s)
  /\ (s.state \in Trials) = (s.trialEnds # 0)
  /\ s.state \in Trials => s.trialUsed # 0
  /\ s.state = "pro_trial" => s.variant # "none"
  /\ (s.state = "past_due") = (s.pastTier # "none")
  /\ (s.state = "past_due") = (s.pastSince # 0)
  /\ FollowsStripe(s) => s.sub # NoSub
  /\ s.state = "pro_trial" /\ s.variant = "no_card" => s.sub = NoSub
  /\ s.tier # "agency" => s.extras = 0

Same(a, b) == [a EXCEPT !.changed = 0] = [b EXCEPT !.changed = 0]

-----------------------------------------------------------------------------
(* Events. *)

Event(type, at, sub, status, plan, extras) ==
  [type |-> type, at |-> at, sub |-> sub, status |-> status, plan |-> plan, extras |-> extras]

Offers == {<<"pro", 0>>} \cup ({"agency"} \X (0..MaxExtras))

\* Our own clock and the user's click; and charges, which name no subscription.
OwnEvents == {Event(t, at, NoSub, "none", "none", 0) :
               t \in {"no_card_trial", "trial_expired", "past_due_lapsed", "dispute_created"},
               at \in Stamps}

Grants(sub, status) ==
  {Event(t, at, sub, status, "none", 0) :
     t \in {"card_trial", "agency_trial"}, at \in Stamps}
  \cup {Event("checkout_completed", at, sub, status, o[1], o[2]) : at \in Stamps, o \in Offers}

Updates(sub, statuses) ==
  {Event("subscription_updated", at, sub, "active", o[1], o[2]) : at \in Stamps, o \in Offers}
  \cup {Event("subscription_updated", at, sub, x, "pro", 0) : at \in Stamps, x \in statuses}

Failures(sub) == {Event("invoice_payment_failed", at, sub, "none", "none", 0) : at \in Stamps}
Deletions(sub) == {Event("subscription_deleted", at, sub, "none", "none", 0) : at \in Stamps}

\* What may be delivered of a subscription that lives, and of one that has ended.
LiveEvents == [sub \in Subs |-> Grants(sub, "active") \cup Grants(sub, "trialing")
                 \cup Updates(sub, {"past_due", "unpaid"}) \cup Failures(sub)]
LateEvents == [sub \in Subs |-> Grants(sub, "canceled") \cup Deletions(sub)
                 \cup Updates(sub, {"past_due", "unpaid", "canceled"}) \cup Failures(sub)]

EventsOf(sub) == IF sub \in ended THEN LateEvents[sub] ELSE LiveEvents[sub]
AllEvents     == OwnEvents \cup UNION {LiveEvents[sub] \cup LateEvents[sub] : sub \in Subs}

StripeStamped(e) == e.type \notin {"no_card_trial", "trial_expired", "past_due_lapsed"}

-----------------------------------------------------------------------------
(* next: the decision, a pure function of the snapshot and the event. *)

Ignored(s) == [kind |-> "ignored", to |-> s]
Thrown(s)  == [kind |-> "thrown", to |-> s]

Latest(a, b) == IF a > b THEN a ELSE b

\* A change a Stripe event made records the event's stamp; what changes nothing does not.
Applied(s, to, e) ==
  IF ~Legal(to) THEN Thrown(s)
  ELSE [kind |-> "applied",
        to |-> IF Same(s, to) THEN s
               ELSE IF StripeStamped(e) THEN [to EXCEPT !.changed = Latest(s.changed, e.at)]
               ELSE [to EXCEPT !.changed = s.changed]]

\* Mutant of RevokeMark: a revoke that finds nothing to revoke leaves no trace.
RevokeMarkNothing(s, e) == Ignored(s)

RevokeMark(s, e) ==
  IF e.at <= s.changed THEN Ignored(s)
                       ELSE [kind |-> "applied", to |-> [s EXCEPT !.changed = e.at]]

\* At least one second before the last change a Stripe event made.
Stale(s, at) == s.changed # 0 /\ at <= s.changed - 1

\* Mutant of ToFree: the past_due fields stay.
ToFreeKeepsPastDue(s, over) ==
  [s EXCEPT !.state = "free", !.tier = "free", !.trialEnds = 0, !.extras = 0,
            !.sub = IF over THEN NoSub ELSE s.sub]

ToFree(s, over) ==
  [s EXCEPT !.state = "free", !.tier = "free", !.trialEnds = 0, !.pastTier = "none",
            !.pastSince = 0, !.extras = 0, !.sub = IF over THEN NoSub ELSE s.sub]

ToPaid(s, e) ==
  [s EXCEPT !.state = e.plan, !.tier = e.plan, !.trialEnds = 0, !.pastTier = "none",
            !.pastSince = 0, !.extras = e.extras, !.sub = e.sub]

ToPastDue(s, at) ==
  [s EXCEPT !.state = "past_due", !.pastTier = s.tier, !.pastSince = at, !.trialEnds = 0]

\* Mutant of TrialRefused: whoever is Free again may try again.
TrialRefusedAgain(s, at) ==
  s.state # "free" \/ s.disputed # 0 \/ s.sub # NoSub \/ Stale(s, at)

TrialRefused(s, at) == \/ s.state # "free"
                       \/ s.trialUsed # 0
                       \/ s.disputed # 0
                       \/ s.sub # NoSub
                       \/ Stale(s, at)

StartTrial(s, e, state, tier, variant) ==
  IF \/ TrialRefused(s, e.at)
     \/ e.type # "no_card_trial" /\ e.status # "trialing"
  THEN Ignored(s)
  ELSE Applied(s, [s EXCEPT !.state = state, !.tier = tier, !.variant = variant,
                            !.trialEnds = e.at + TrialDays, !.trialUsed = e.at, !.sub = e.sub], e)

NoCard(s) == s.state = "pro_trial" /\ s.variant = "no_card"

TrialExpired(s, e) == IF ~NoCard(s) \/ e.at < s.trialEnds THEN Ignored(s)
                                                          ELSE Applied(s, ToFree(s, TRUE), e)

\* Mutant of Checkout: the subscription's live status is not asked for.
CheckoutAnyStatus(s, e) == IF e.sub = s.sub \/ Stale(s, e.at) THEN Ignored(s)
                                                              ELSE Applied(s, ToPaid(s, e), e)

Checkout(s, e) == IF e.sub = s.sub \/ Stale(s, e.at) \/ e.status # "active"
                  THEN Ignored(s)
                  ELSE Applied(s, ToPaid(s, e), e)

\* Mutant of Restored: whoever pays the open invoice is back, dispute or not.
RestoredDisputed(s, e) ==
  IF Stale(s, e.at) \/ (s.state \in PaidTiers /\ s.tier = e.plan /\ s.extras = e.extras)
  THEN Ignored(s)
  ELSE Applied(s, ToPaid(s, e), e)

\* subscription_updated with status active, on the current subscription.
Restored(s, e) ==
  IF \/ Stale(s, e.at)
     \/ s.state = "free" /\ s.disputed # 0
     \/ s.state \in PaidTiers /\ s.tier = e.plan /\ s.extras = e.extras
  THEN Ignored(s)
  ELSE Applied(s, ToPaid(s, e), e)

\* Mutant of FellBehind: every failed payment starts the grace again.
FellBehindAgain(s, e) == IF s.state = "free" THEN RevokeMark(s, e)
                                             ELSE Applied(s, ToPastDue(s, e.at), e)

FellBehind(s, e) == IF s.state \in {"free", "past_due"}
                    THEN RevokeMark(s, e)
                    ELSE Applied(s, ToPastDue(s, e.at), e)

Suspended(s, e) == IF s.state = "free" THEN RevokeMark(s, e) ELSE Applied(s, ToFree(s, FALSE), e)

Updated(s, e) == CASE e.status = "active"   -> Restored(s, e)
                   [] e.status = "past_due" -> FellBehind(s, e)
                   [] e.status = "canceled" -> Applied(s, ToFree(s, TRUE), e)
                   [] OTHER                 -> Suspended(s, e)

\* The first dispute is remembered; a later one on a Free account only marks its time.
Disputed(s, e) ==
  LET to == [ToFree(s, FALSE) EXCEPT !.disputed = IF s.disputed # 0 THEN s.disputed ELSE e.at]
  IN  IF Same(s, to) THEN [kind |-> "applied", to |-> [s EXCEPT !.changed = Latest(s.changed, e.at)]]
                     ELSE Applied(s, to, e)

Lapsed(s, e) == IF s.state # "past_due" \/ e.at < s.pastSince + GraceDays
                THEN Ignored(s)
                ELSE Applied(s, ToFree(s, FALSE), e)

\* Events about another subscription than the account's change nothing.
OnCurrent(s, e, decision) == IF e.sub # s.sub THEN Ignored(s) ELSE decision

Decide(s, e) ==
  CASE e.type = "no_card_trial"          -> StartTrial(s, e, "pro_trial", "pro", "no_card")
    [] e.type = "card_trial"             -> StartTrial(s, e, "pro_trial", "pro", "card_required")
    [] e.type = "agency_trial"           -> StartTrial(s, e, "agency_trial", "agency", s.variant)
    [] e.type = "trial_expired"          -> TrialExpired(s, e)
    [] e.type = "checkout_completed"     -> Checkout(s, e)
    [] e.type = "subscription_updated"   -> OnCurrent(s, e, Updated(s, e))
    [] e.type = "subscription_deleted"   -> OnCurrent(s, e, Applied(s, ToFree(s, TRUE), e))
    [] e.type = "invoice_payment_failed" -> OnCurrent(s, e, FellBehind(s, e))
    [] e.type = "dispute_created"        -> Disputed(s, e)
    [] e.type = "past_due_lapsed"        -> Lapsed(s, e)

-----------------------------------------------------------------------------
(* Stripe and the handlers. *)

Idle == [event |-> "none"]
Busy(h) == held[h] # Idle

Init == /\ account = FreeStart
        /\ version = 0
        /\ held = [h \in Handlers |-> Idle]
        /\ ended = {}
        /\ revoked = 0 /\ gone = {} /\ crossed = {}

\* A subscription is canceled or runs out; it never comes back.
End(sub) == /\ sub \notin ended
            /\ ended' = ended \cup {sub}
            /\ UNCHANGED <<account, version, held, history>>

\* The event is taken up, the row read and the decision made.
Load(h) == /\ ~Busy(h)
           /\ version < MaxOverlap \/ \A g \in Handlers : ~Busy(g)
           /\ \E e \in OwnEvents \cup UNION {EventsOf(sub) : sub \in Subs} :
                held' = [held EXCEPT ![h] = [event |-> e, version |-> version,
                                             decision |-> Decide(account, e), read |-> account]]
           /\ UNCHANGED <<account, version, ended, history>>

\* The handler dies, its decision throws, or its version is no longer the account's:
\* Stripe and the clock bring the event again.
Abandon(h) == /\ Busy(h)
              /\ held' = [held EXCEPT ![h] = Idle]
              /\ UNCHANGED <<account, version, ended, history>>

Decision(h) == held[h].decision

IsRevoke(e) == \/ e.type \in {"subscription_deleted", "invoice_payment_failed", "dispute_created"}
               \/ e.type = "subscription_updated" /\ e.status # "active"
IsEnd(e)    == \/ e.type = "subscription_deleted"
               \/ e.type = "subscription_updated" /\ e.status = "canceled"

\* A decision in hand that would make the account follow the subscription.
GrantInHand(h, sub) == /\ Busy(h)
                       /\ held[h].version = version
                       /\ Decision(h).kind = "applied"
                       /\ Decision(h).to.sub = sub

\* What the settled event leaves in the histories.
Record(h) ==
  LET e == held[h].event IN
  /\ revoked' = IF IsRevoke(e) /\ (e.sub = account.sub \/ e.type = "dispute_created")
                THEN Latest(revoked, e.at) ELSE revoked
  /\ gone' = IF IsEnd(e) THEN gone \cup {e.sub} ELSE gone
  /\ crossed' = IF IsEnd(e) /\ \E g \in Handlers \ {h} : GrantInHand(g, e.sub)
                THEN crossed \cup {e.sub} ELSE crossed

\* Mutant of Unmoved: an older version will do.
UnmovedOrOlder(h) == held[h].version <= version

\* The versions agree (the row is locked while they are compared).
Unmoved(h) == held[h].version = version

\* assert_entitlement_version: a decision to write nothing stands.
Confirm(h) == /\ Busy(h) /\ Unmoved(h)
              /\ Decision(h).kind # "thrown" /\ Decision(h).to = held[h].read
              /\ held' = [held EXCEPT ![h] = Idle]
              /\ Record(h)
              /\ UNCHANGED <<account, version, ended>>

\* The UPDATE of the row: what was set once stays, and the last change does not go back.
Written(to) ==
  [to EXCEPT !.trialUsed = IF account.trialUsed # 0 THEN account.trialUsed ELSE to.trialUsed,
             !.disputed  = IF account.disputed # 0 THEN account.disputed ELSE to.disputed,
             !.changed   = Latest(account.changed, to.changed)]

\* apply_entitlement_transition, in one transaction.
Commit(h) == /\ Busy(h) /\ Unmoved(h)
             /\ Decision(h).kind = "applied" /\ Decision(h).to # held[h].read
             /\ version < MaxVersion
             /\ account' = Written(Decision(h).to)
             /\ version' = version + 1
             /\ held' = [held EXCEPT ![h] = Idle]
             /\ Record(h)
             /\ UNCHANGED ended

Next == \/ \E sub \in Subs : End(sub)
        \/ \E h \in Handlers : Load(h) \/ Abandon(h) \/ Confirm(h) \/ Commit(h)

Spec == Init /\ [][Next]_vars

-----------------------------------------------------------------------------
(* Properties. *)

Held == [event: AllEvents, version: 0..MaxVersion, read: Snapshots,
         decision: [kind: {"applied", "ignored", "thrown"}, to: Snapshots]]

\* The type invariant: the accounts row keeps the checks of its table, whatever was committed.
TypeOK == /\ account \in Snapshots /\ Legal(account)
          /\ version \in 0..MaxVersion
          /\ \A h \in Handlers : Busy(h) => held[h] \in Held
          /\ ended \subseteq Subs /\ gone \subseteq ended /\ crossed \subseteq gone
          /\ revoked \in 0..MaxTime

\* The machine never throws "illegal transition result": whatever came before, every event leads
\* from the snapshot that was read to one the table accepts.
NeverThrows == \A h \in Handlers : Busy(h) => Decision(h).kind # "thrown"

\* Events are applied as if one at a time: a decision that stands, also one to do nothing, is the
\* one the account calls for at that moment, although it was made on an earlier read.
DecidedOnCurrent ==
  [][\A h \in Handlers : (Confirm(h) \/ Commit(h)) => Decision(h) = Decide(account, held[h].event)]_vars

\* A plan is granted or restored only by an event no older than every revoke settled before it,
\* also one that found nothing to revoke.  (Our own clock's events are not compared.)
OldGrantsStayOut ==
  [][\A h \in Handlers :
       Commit(h) /\ account.state \in {"free", "past_due"} /\ account'.state \in Trials \cup PaidTiers
       => held[h].event.at >= revoked]_vars

\* After a dispute the subscription that was disputed never restores the plan by itself.
DisputeHolds ==
  [][account.disputed # 0 /\ account.state = "free" /\ account'.state # "free"
     => account'.sub # account.sub]_vars

\* Failed payments that follow one another do not extend the grace: while the account is past due
\* its since stays, and it leaves grace only to a paid plan or to Free.
GraceNotExtended ==
  [][account.state = "past_due" /\ account' # account /\ account'.state = "past_due"
     => account'.pastSince = account.pastSince /\ account'.tier = account.tier]_vars

\* A subscription whose end was settled is not followed again, unless a grant for it was in hand
\* when its end was settled (an end that is ignored does not move the version).
EndedNotFollowed == \A sub \in gone \ crossed : account.sub # sub

PlanOf(s) == CASE s.state = "free"       -> "free"
               [] s.state \in Trials    -> "trial"
               [] s.state \in PaidTiers -> "paid"
               [] s.state = "past_due"   -> "grace"

Promised == INSTANCE AccountPromise WITH
  plan <- PlanOf(account), spent <- account.trialUsed # 0, disputed <- account.disputed # 0

\* The machine, its versioned commit and its coalesce keep what AccountPromise promises.
KeepsPromise == Promised!Promise
=============================================================================
