------------------------- MODULE EntitlementProofs -------------------------
(***************************************************************************)
(* Proofs about EntitlementMachine, for any number of handlers,            *)
(* subscriptions, commits and seconds.                                     *)
(*                                                                         *)
(* The inductive invariant IInv says what a handler may rely on: what it   *)
(* read was legal, its decision is the machine's on that read, and while   *)
(* its version is the account's, its read still is the account.            *)
(***************************************************************************)
EXTENDS EntitlementMachine, TLAPS

USE SubAssumption, ClockAssumption

Decisions == [kind: {"applied", "ignored", "thrown"}, to: Snapshots]

Types == {"no_card_trial", "trial_expired", "past_due_lapsed", "dispute_created", "card_trial",
          "agency_trial", "checkout_completed", "subscription_updated", "subscription_deleted",
          "invoice_payment_failed"}

OwnTypes == {"no_card_trial", "trial_expired", "past_due_lapsed", "dispute_created"}

GrantTypes == {"card_trial", "agency_trial", "checkout_completed"}

\* What an event is known to carry.
EventOK(e) == /\ e.type \in Types
              /\ e.at \in Nat /\ e.at > 0 /\ e.at <= MaxTime
              /\ IF e.type \in OwnTypes THEN e.sub = NoSub ELSE e.sub \in Subs
              /\ e.type \in {"checkout_completed", "subscription_updated"} /\ e.status = "active"
                 => /\ e.plan \in PaidTiers /\ e.extras \in Nat
                    /\ e.plan = "pro" => e.extras = 0

LEMMA OfferFacts == ASSUME NEW o \in Offers
                    PROVE  /\ o[1] \in PaidTiers /\ o[2] \in Nat
                           /\ o[1] = "pro" => o[2] = 0
BY DEF Offers, PaidTiers

LEMMA OwnEventFacts == ASSUME NEW e \in OwnEvents PROVE EventOK(e)
BY DEF OwnEvents, Event, EventOK, Types, OwnTypes, Stamps

LEMMA GrantFacts == ASSUME NEW sub \in Subs, NEW status, NEW e \in Grants(sub, status)
                    PROVE  EventOK(e)
<1>1. CASE e \in {Event(t, at, sub, status, "none", 0) :
                    t \in {"card_trial", "agency_trial"}, at \in Stamps}
  BY <1>1 DEF Event, EventOK, Types, OwnTypes, Stamps
<1>2. CASE e \in {Event("checkout_completed", at, sub, status, o[1], o[2]) :
                    at \in Stamps, o \in Offers}
  BY <1>2, OfferFacts DEF Event, EventOK, Types, OwnTypes, Stamps
<1> QED BY <1>1, <1>2 DEF Grants

LEMMA UpdateFacts == ASSUME NEW sub \in Subs, NEW statuses, "active" \notin statuses,
                            NEW e \in Updates(sub, statuses)
                     PROVE  EventOK(e)
<1>1. CASE e \in {Event("subscription_updated", at, sub, "active", o[1], o[2]) :
                    at \in Stamps, o \in Offers}
  BY <1>1, OfferFacts DEF Event, EventOK, Types, OwnTypes, Stamps
<1>2. CASE e \in {Event("subscription_updated", at, sub, x, "pro", 0) :
                    at \in Stamps, x \in statuses}
  BY <1>2 DEF Event, EventOK, Types, OwnTypes, Stamps
<1> QED BY <1>1, <1>2 DEF Updates

LEMMA FailureFacts == ASSUME NEW sub \in Subs, NEW e \in Failures(sub) \cup Deletions(sub)
                      PROVE  EventOK(e)
BY DEF Failures, Deletions, Event, EventOK, Types, OwnTypes, Stamps

\* Every event is one the machine understands.
LEMMA EventFacts == ASSUME NEW e \in AllEvents PROVE EventOK(e)
<1>1. CASE e \in OwnEvents BY <1>1, OwnEventFacts
<1>2. ASSUME NEW sub \in Subs, e \in LiveEvents[sub] PROVE EventOK(e)
  BY <1>2, GrantFacts, UpdateFacts, FailureFacts DEF LiveEvents
<1>3. ASSUME NEW sub \in Subs, e \in LateEvents[sub] PROVE EventOK(e)
  BY <1>3, GrantFacts, UpdateFacts, FailureFacts DEF LateEvents
<1> QED BY <1>1, <1>2, <1>3 DEF AllEvents

LEMMA DeliveredAreEvents == ASSUME NEW e \in OwnEvents \cup UNION {EventsOf(sub) : sub \in Subs}
                            PROVE  e \in AllEvents
BY DEF EventsOf, AllEvents

-----------------------------------------------------------------------------
(* The decision. *)

\* A decision on a legal snapshot: never a throw, and a legal snapshot again.
Sound(d) == d \in Decisions /\ d.kind # "thrown" /\ Legal(d.to)

LEMMA IgnoredSound == ASSUME NEW s \in Snapshots, Legal(s) PROVE Sound(Ignored(s))
BY DEF Ignored, Sound, Decisions

LEMMA ChangedTyped ==
  ASSUME NEW s \in Snapshots, Legal(s), NEW n \in Nat
  PROVE  [s EXCEPT !.changed = n] \in Snapshots /\ Legal([s EXCEPT !.changed = n])
BY DEF Snapshots, Legal, TierOf, FollowsStripe, Trials

LEMMA RevokeMarkSound == ASSUME NEW s \in Snapshots, Legal(s), NEW e, EventOK(e)
                         PROVE  Sound(RevokeMark(s, e))
BY ChangedTyped DEF RevokeMark, Ignored, Sound, Decisions, EventOK

LEMMA AppliedSound == ASSUME NEW s \in Snapshots, Legal(s), NEW to \in Snapshots, Legal(to),
                             NEW e, EventOK(e)
                      PROVE  Sound(Applied(s, to, e))
<1>1. s.changed \in Nat /\ Latest(s.changed, e.at) \in Nat
  BY DEF Snapshots, Latest, EventOK
<1>2. /\ [to EXCEPT !.changed = s.changed] \in Snapshots
      /\ Legal([to EXCEPT !.changed = s.changed])
  BY <1>1, ChangedTyped
<1>3. /\ [to EXCEPT !.changed = Latest(s.changed, e.at)] \in Snapshots
      /\ Legal([to EXCEPT !.changed = Latest(s.changed, e.at)])
  BY <1>1, ChangedTyped
<1> QED BY <1>2, <1>3 DEF Applied, Sound, Decisions

LEMMA ToFreeLegal == ASSUME NEW s \in Snapshots, NEW over \in BOOLEAN
                     PROVE  ToFree(s, over) \in Snapshots /\ Legal(ToFree(s, over))
<1> DEFINE t == ToFree(s, over)
<1>1. t \in Snapshots
  <2>1. CASE over BY <2>1 DEF ToFree, Snapshots, States
  <2>2. CASE ~over BY <2>2 DEF ToFree, Snapshots, States
  <2> QED BY <2>1, <2>2
<1>2. /\ t.state = "free" /\ t.tier = "free" /\ t.trialEnds = 0 /\ t.pastTier = "none"
      /\ t.pastSince = 0 /\ t.extras = 0
  BY DEF ToFree, Snapshots
<1> HIDE DEF t
<1>3. Legal(t) BY <1>2 DEF Legal, TierOf, FollowsStripe, Trials
<1> QED BY <1>1, <1>3 DEF t

LEMMA ToPaidLegal == ASSUME NEW s \in Snapshots, NEW e, e.sub \in Subs, e.plan \in PaidTiers,
                            e.extras \in Nat, e.plan = "pro" => e.extras = 0
                     PROVE  ToPaid(s, e) \in Snapshots /\ Legal(ToPaid(s, e))
<1> DEFINE t == ToPaid(s, e)
<1>1. t \in Snapshots BY DEF ToPaid, Snapshots, States, PaidTiers
<1>2. /\ t.state = e.plan /\ t.tier = e.plan /\ t.trialEnds = 0 /\ t.pastTier = "none"
      /\ t.pastSince = 0 /\ t.extras = e.extras /\ t.sub = e.sub
  BY DEF ToPaid, Snapshots
<1> HIDE DEF t
<1>3. Legal(t) BY <1>2 DEF Legal, TierOf, FollowsStripe, Trials, PaidTiers
<1> QED BY <1>1, <1>3 DEF t

LEMMA ToPastDueLegal == ASSUME NEW s \in Snapshots, Legal(s), s.state \notin {"free", "past_due"},
                               s.sub \in Subs, NEW at \in Nat, at > 0
                        PROVE  ToPastDue(s, at) \in Snapshots /\ Legal(ToPastDue(s, at))
<1> DEFINE t == ToPastDue(s, at)
<1>1. s.tier \in PaidTiers BY DEF Snapshots, States, Legal, TierOf, Trials, PaidTiers
<1>2. t \in Snapshots BY <1>1 DEF ToPastDue, Snapshots, States
<1>3. /\ t.state = "past_due" /\ t.tier = s.tier /\ t.trialEnds = 0 /\ t.pastTier = s.tier
      /\ t.pastSince = at /\ t.extras = s.extras /\ t.sub = s.sub
  BY DEF ToPastDue, Snapshots
<1>4. s.tier # "agency" => s.extras = 0 BY DEF Legal
<1> HIDE DEF t
<1>5. Legal(t) BY <1>1, <1>3, <1>4 DEF Legal, TierOf, FollowsStripe, Trials, PaidTiers
<1> QED BY <1>2, <1>5 DEF t

\* A trial of one of the three kinds, begun on an account that may have one.
LEMMA TrialLegal == ASSUME NEW s \in Snapshots, Legal(s), NEW at \in Nat, at > 0,
                           NEW state \in Trials, NEW tier \in PaidTiers, NEW variant \in Variants,
                           NEW sub \in Subs \cup {NoSub},
                           s.state = "free",
                           tier = (IF state = "pro_trial" THEN "pro" ELSE "agency"),
                           state = "pro_trial" => variant # "none",
                           (sub = NoSub) = (state = "pro_trial" /\ variant = "no_card"),
                           NEW t,
                           t = [s EXCEPT !.state = state, !.tier = tier, !.variant = variant,
                                         !.trialEnds = at + TrialDays, !.trialUsed = at, !.sub = sub]
                    PROVE  t \in Snapshots /\ Legal(t)
<1>1. at + TrialDays \in Nat /\ at + TrialDays # 0 OBVIOUS
<1>2. t \in Snapshots BY <1>1 DEF Snapshots, States
<1>3. s.pastTier = "none" /\ s.pastSince = 0 /\ s.extras = 0
  BY DEF Legal, Snapshots, TierOf, Trials
<1>4. /\ t.state = state /\ t.tier = tier /\ t.variant = variant /\ t.trialEnds = at + TrialDays
      /\ t.trialUsed = at /\ t.sub = sub /\ t.pastTier = "none" /\ t.pastSince = 0 /\ t.extras = 0
  BY <1>3 DEF Snapshots
<1>5. Legal(t) BY <1>1, <1>4 DEF Legal, TierOf, FollowsStripe, Trials, Variants
<1> QED BY <1>2, <1>5

LEMMA TrialSound == ASSUME NEW s \in Snapshots, Legal(s), NEW e, EventOK(e),
                           e.type \in {"no_card_trial", "card_trial", "agency_trial"}
                    PROVE  Sound(Decide(s, e))
<1> DEFINE To(state, tier, variant) ==
             [s EXCEPT !.state = state, !.tier = tier, !.variant = variant,
                       !.trialEnds = e.at + TrialDays, !.trialUsed = e.at, !.sub = e.sub]
<1>1. CASE e.type = "no_card_trial"
  <2>1. ~TrialRefused(s, e.at) => /\ To("pro_trial", "pro", "no_card") \in Snapshots
                                  /\ Legal(To("pro_trial", "pro", "no_card"))
    <3> SUFFICES ASSUME ~TrialRefused(s, e.at) PROVE /\ To("pro_trial", "pro", "no_card") \in Snapshots
                                                     /\ Legal(To("pro_trial", "pro", "no_card"))
      OBVIOUS
    <3>1. /\ s.state = "free" /\ s.variant \in Variants /\ e.sub \in Subs \cup {NoSub}
          /\ (e.sub = NoSub) = (e.type = "no_card_trial")
      BY <1>1 DEF TrialRefused, Snapshots, EventOK, OwnTypes
    <3>2. e.at \in Nat /\ e.at > 0
      BY DEF EventOK
    <3>3. "pro_trial" \in Trials /\ "pro" \in PaidTiers /\ "no_card" \in Variants
      BY DEF Trials, PaidTiers, Variants
    <3> QED BY <1>1, <3>1, <3>2, <3>3, TrialLegal
  <2>2. Decide(s, e) = StartTrial(s, e, "pro_trial", "pro", "no_card")
    BY <1>1 DEF Decide
  <2>3. /\ Sound(Ignored(s))
        /\ ~TrialRefused(s, e.at) => Sound(Applied(s, To("pro_trial", "pro", "no_card"), e))
    BY <2>1, IgnoredSound, AppliedSound
  <2> QED BY <2>2, <2>3 DEF StartTrial
<1>2. CASE e.type = "card_trial"
  <2>1. ~TrialRefused(s, e.at) => /\ To("pro_trial", "pro", "card_required") \in Snapshots
                                  /\ Legal(To("pro_trial", "pro", "card_required"))
    <3> SUFFICES ASSUME ~TrialRefused(s, e.at) PROVE /\ To("pro_trial", "pro", "card_required") \in Snapshots
                                                     /\ Legal(To("pro_trial", "pro", "card_required"))
      OBVIOUS
    <3>1. /\ s.state = "free" /\ s.variant \in Variants /\ e.sub \in Subs \cup {NoSub}
          /\ (e.sub = NoSub) = (e.type = "no_card_trial")
      BY <1>2 DEF TrialRefused, Snapshots, EventOK, OwnTypes
    <3>2. e.at \in Nat /\ e.at > 0
      BY DEF EventOK
    <3>3. "pro_trial" \in Trials /\ "pro" \in PaidTiers /\ "card_required" \in Variants
      BY DEF Trials, PaidTiers, Variants
    <3> QED BY <1>2, <3>1, <3>2, <3>3, TrialLegal
  <2>2. Decide(s, e) = StartTrial(s, e, "pro_trial", "pro", "card_required")
    BY <1>2 DEF Decide
  <2>3. /\ Sound(Ignored(s))
        /\ ~TrialRefused(s, e.at) => Sound(Applied(s, To("pro_trial", "pro", "card_required"), e))
    BY <2>1, IgnoredSound, AppliedSound
  <2> QED BY <2>2, <2>3 DEF StartTrial
<1>3. CASE e.type = "agency_trial"
  <2>1. ~TrialRefused(s, e.at) => /\ To("agency_trial", "agency", s.variant) \in Snapshots
                                  /\ Legal(To("agency_trial", "agency", s.variant))
    <3> SUFFICES ASSUME ~TrialRefused(s, e.at) PROVE /\ To("agency_trial", "agency", s.variant) \in Snapshots
                                                     /\ Legal(To("agency_trial", "agency", s.variant))
      OBVIOUS
    <3>1. /\ s.state = "free" /\ s.variant \in Variants /\ e.sub \in Subs \cup {NoSub}
          /\ (e.sub = NoSub) = (e.type = "no_card_trial")
      BY <1>3 DEF TrialRefused, Snapshots, EventOK, OwnTypes
    <3>2. e.at \in Nat /\ e.at > 0
      BY DEF EventOK
    <3>3. "agency_trial" \in Trials /\ "agency" \in PaidTiers
      BY DEF Trials, PaidTiers, Variants
    <3> QED BY <1>3, <3>1, <3>2, <3>3, TrialLegal
  <2>2. Decide(s, e) = StartTrial(s, e, "agency_trial", "agency", s.variant)
    BY <1>3 DEF Decide
  <2>3. /\ Sound(Ignored(s))
        /\ ~TrialRefused(s, e.at) => Sound(Applied(s, To("agency_trial", "agency", s.variant), e))
    BY <2>1, IgnoredSound, AppliedSound
  <2> QED BY <2>2, <2>3 DEF StartTrial
<1> QED BY <1>1, <1>2, <1>3

LEMMA FellBehindSound == ASSUME NEW s \in Snapshots, Legal(s), NEW e, EventOK(e),
                                e.sub \in Subs, e.sub = s.sub
                         PROVE  Sound(FellBehind(s, e))
<1>1. CASE s.state \in {"free", "past_due"} BY <1>1, RevokeMarkSound DEF FellBehind
<1>2. CASE s.state \notin {"free", "past_due"}
  BY <1>2, ToPastDueLegal, AppliedSound DEF FellBehind, EventOK
<1> QED BY <1>1, <1>2

LEMMA UpdatedSound == ASSUME NEW s \in Snapshots, Legal(s), NEW e, EventOK(e),
                             e.type = "subscription_updated", e.sub = s.sub
                      PROVE  Sound(Updated(s, e))
<1>0. e.sub \in Subs BY DEF EventOK, OwnTypes
<1>1. CASE e.status = "active"
  <2>1. ToPaid(s, e) \in Snapshots /\ Legal(ToPaid(s, e)) BY <1>0, <1>1, ToPaidLegal DEF EventOK
  <2> QED BY <1>1, <2>1, IgnoredSound, AppliedSound DEF Updated, Restored
<1>2. CASE e.status = "past_due" BY <1>0, <1>2, FellBehindSound DEF Updated
<1>3. CASE e.status = "canceled" BY <1>3, ToFreeLegal, AppliedSound DEF Updated
<1>4. CASE e.status \notin {"active", "past_due", "canceled"}
  BY <1>4, ToFreeLegal, AppliedSound, RevokeMarkSound DEF Updated, Suspended
<1> QED BY <1>1, <1>2, <1>3, <1>4

LEMMA DisputedSound == ASSUME NEW s \in Snapshots, Legal(s), NEW e, EventOK(e)
                       PROVE  Sound(Disputed(s, e))
<1> DEFINE to == [ToFree(s, FALSE) EXCEPT !.disputed = IF s.disputed # 0 THEN s.disputed ELSE e.at]
<1>1. to \in Snapshots /\ Legal(to)
  <2> DEFINE f == ToFree(s, FALSE)
  <2>1. f \in Snapshots /\ Legal(f) BY ToFreeLegal
  <2>2. (IF s.disputed # 0 THEN s.disputed ELSE e.at) \in Nat BY DEF EventOK, Snapshots
  <2> HIDE DEF f
  <2>3. /\ [f EXCEPT !.disputed = IF s.disputed # 0 THEN s.disputed ELSE e.at] \in Snapshots
        /\ Legal([f EXCEPT !.disputed = IF s.disputed # 0 THEN s.disputed ELSE e.at])
    BY <2>1, <2>2 DEF Snapshots, Legal, TierOf, FollowsStripe, Trials
  <2> QED BY <2>3 DEF f
<1>2. /\ [s EXCEPT !.changed = Latest(s.changed, e.at)] \in Snapshots
      /\ Legal([s EXCEPT !.changed = Latest(s.changed, e.at)])
  <2>1. Latest(s.changed, e.at) \in Nat BY DEF Snapshots, Latest, EventOK
  <2> QED BY <2>1, ChangedTyped
<1>3. Sound(Applied(s, to, e)) BY <1>1, AppliedSound
<1> QED BY <1>2, <1>3 DEF Disputed, Sound, Decisions

\* Whatever the snapshot and the event: no throw, and a snapshot the accounts table accepts.
LEMMA DecideSound == ASSUME NEW s \in Snapshots, Legal(s), NEW e, EventOK(e)
                     PROVE  Sound(Decide(s, e))
<1>1. CASE e.type \in {"no_card_trial", "card_trial", "agency_trial"} BY <1>1, TrialSound
<1>2. CASE e.type = "trial_expired"
  BY <1>2, IgnoredSound, ToFreeLegal, AppliedSound DEF Decide, TrialExpired
<1>3. CASE e.type = "checkout_completed"
  <2>1. e.status = "active" => ToPaid(s, e) \in Snapshots /\ Legal(ToPaid(s, e))
    BY <1>3, ToPaidLegal DEF EventOK, OwnTypes
  <2> QED BY <1>3, <2>1, IgnoredSound, AppliedSound DEF Decide, Checkout
<1>4. CASE e.type = "subscription_updated"
  BY <1>4, IgnoredSound, UpdatedSound DEF Decide, OnCurrent
<1>5. CASE e.type = "subscription_deleted"
  BY <1>5, IgnoredSound, ToFreeLegal, AppliedSound DEF Decide, OnCurrent
<1>6. CASE e.type = "invoice_payment_failed"
  <2>1. e.sub \in Subs BY <1>6 DEF EventOK, OwnTypes
  <2> QED BY <1>6, <2>1, IgnoredSound, FellBehindSound DEF Decide, OnCurrent
<1>7. CASE e.type = "dispute_created" BY <1>7, DisputedSound DEF Decide
<1>8. CASE e.type = "past_due_lapsed"
  BY <1>8, IgnoredSound, ToFreeLegal, AppliedSound DEF Decide, Lapsed
<1> QED BY <1>1, <1>2, <1>3, <1>4, <1>5, <1>6, <1>7, <1>8 DEF EventOK, Types

-----------------------------------------------------------------------------
(* The inductive invariant. *)

HeldOK(h) ==
  Busy(h) => /\ held[h] \in Held
             /\ Legal(held[h].read)
             /\ held[h].decision = Decide(held[h].read, held[h].event)
             /\ held[h].version <= version
             /\ held[h].version = version => held[h].read = account

\* A subscription whose end was settled, no grant for it being in hand, is not followed, and no
\* decision that would stand follows it.
EndStands(sub) == account.sub # sub /\ \A h \in Handlers : ~GrantInHand(h, sub)

IInv == /\ account \in Snapshots /\ Legal(account)
        /\ version \in 0..MaxVersion
        /\ held = [h \in Handlers |-> held[h]]
        /\ \A h \in Handlers : HeldOK(h)
        /\ ended \subseteq Subs /\ gone \subseteq ended /\ crossed \subseteq gone
        /\ \A h \in Handlers : Busy(h) /\ IsEnd(held[h].event) => held[h].event.sub \in ended
        /\ revoked \in 0..MaxTime /\ revoked <= account.changed
        /\ \A sub \in gone \ crossed : EndStands(sub)

\* Only an ended subscription's end is delivered.
LEMMA EndsAreLate == ASSUME NEW e \in OwnEvents \cup UNION {EventsOf(sub) : sub \in Subs}, IsEnd(e)
                     PROVE  e.sub \in ended
<1>1. e \notin OwnEvents BY DEF OwnEvents, Event, IsEnd
<1>2. PICK sub \in Subs : e \in EventsOf(sub) BY <1>1
<1>3. CASE sub \in ended
  <2>1. e.sub = sub
    BY <1>2, <1>3 DEF EventsOf, LateEvents, Grants, Updates, Failures, Deletions, Event
  <2> QED BY <1>3, <2>1
<1>4. CASE sub \notin ended
  <2>1. e \in LiveEvents[sub] BY <1>2, <1>4 DEF EventsOf
  <2>2. FALSE BY <2>1 DEF LiveEvents, Grants, Updates, Failures, Event, IsEnd
  <2> QED BY <2>2
<1> QED BY <1>3, <1>4

\* No grant that is delivered for an ended subscription finds it alive.
LEMMA LateGrants == ASSUME NEW e \in OwnEvents \cup UNION {EventsOf(sub) : sub \in Subs},
                           e.sub \in ended, ended \subseteq Subs, e.type \in GrantTypes
                    PROVE  e.status \notin {"active", "trialing"}
<1>1. e \notin OwnEvents BY DEF OwnEvents, Event, GrantTypes
<1>2. PICK sub \in Subs : e \in EventsOf(sub) BY <1>1
<1>3. e.sub = sub
  BY <1>2 DEF EventsOf, LiveEvents, LateEvents, Grants, Updates, Failures, Deletions, Event
<1>4. e \in LateEvents[sub] BY <1>2, <1>3 DEF EventsOf
<1> QED BY <1>4 DEF LateEvents, Grants, Updates, Failures, Deletions, Event, GrantTypes

LEMMA FreeStartLegal == FreeStart \in Snapshots /\ Legal(FreeStart)
BY DEF FreeStart, Snapshots, States, Trials, PaidTiers, Variants, Legal, TierOf, FollowsStripe

-----------------------------------------------------------------------------
(* What one decision may do. *)

\* t has the fields of u, the last change apart.
Fields(t, u) == /\ t.state = u.state /\ t.tier = u.tier /\ t.trialUsed = u.trialUsed
                /\ t.pastSince = u.pastSince /\ t.disputed = u.disputed /\ t.sub = u.sub

LEMMA SameFields == ASSUME NEW s \in Snapshots, NEW t \in Snapshots, Same(s, t) PROVE Fields(s, t)
<1> DEFINE a == [s EXCEPT !.changed = 0]
           b == [t EXCEPT !.changed = 0]
<1>1. a = b BY DEF Same
<1>2. Fields(s, a) /\ Fields(b, t) BY DEF Fields, Snapshots
<1> HIDE DEF a, b
<1> QED BY <1>1, <1>2 DEF Fields

LEMMA AppliedFields == ASSUME NEW s \in Snapshots, NEW to \in Snapshots, Legal(to), NEW e, EventOK(e)
                       PROVE  LET t == Applied(s, to, e).to IN
                              /\ Fields(t, to)
                              /\ t.changed >= s.changed
                              /\ StripeStamped(e) /\ ~Same(s, to) => t.changed >= e.at
<1>1. CASE Same(s, to) BY <1>1, SameFields DEF Applied, Fields, Snapshots
<1>2. CASE ~Same(s, to) BY <1>2 DEF Applied, Fields, Snapshots, Latest, EventOK
<1> QED BY <1>1, <1>2

LEMMA ToFreeFields == ASSUME NEW s \in Snapshots, NEW over \in BOOLEAN
                      PROVE  LET t == ToFree(s, over) IN
                             /\ t.state = "free" /\ t.trialUsed = s.trialUsed
                             /\ t.disputed = s.disputed
                             /\ t.sub = IF over THEN NoSub ELSE s.sub
BY DEF ToFree, Snapshots

LEMMA ToPaidFields == ASSUME NEW s \in Snapshots, NEW e, e.plan \in PaidTiers
                      PROVE  LET t == ToPaid(s, e) IN
                             /\ t.state = e.plan /\ t.trialUsed = s.trialUsed
                             /\ t.disputed = s.disputed /\ t.sub = e.sub
BY DEF ToPaid, Snapshots

LEMMA ToPastDueFields == ASSUME NEW s \in Snapshots, NEW at \in Nat
                         PROVE  LET t == ToPastDue(s, at) IN
                                /\ t.state = "past_due" /\ t.trialUsed = s.trialUsed
                                /\ t.disputed = s.disputed /\ t.sub = s.sub
BY DEF ToPastDue, Snapshots

\* The moves of AccountPromise, on snapshots.
Promises(s, t) ==
  /\ s.disputed # 0 => t.disputed = s.disputed
  /\ \/ /\ t.trialUsed = s.trialUsed
        /\ \/ /\ t.disputed = s.disputed
              /\ \/ t.state = s.state
                 \/ t.state \in PaidTiers \cup {"free"}
                 \/ s.state \in Trials \cup PaidTiers /\ t.state = "past_due"
           \/ t.state = "free" /\ t.disputed # 0
     \/ /\ s.state = "free" /\ s.trialUsed = 0 /\ s.disputed = 0
        /\ t.state \in Trials /\ t.trialUsed # 0 /\ t.disputed = s.disputed

\* The subscription the decision t follows: another than before only by a grant of a
\* subscription that lives, and none once the one it followed has ended.
Follows(s, e, t) ==
  /\ \/ t.sub \in {s.sub, NoSub}
     \/ t.sub = e.sub /\ e.type \in GrantTypes /\ e.status \in {"active", "trialing"}
  /\ IsEnd(e) /\ e.sub = s.sub => t.sub = NoSub

\* What the decision t on event e may do to s.
MoveOK(s, e, t) ==
  /\ Promises(s, t)
  /\ Follows(s, e, t)
  /\ t.changed >= s.changed
  /\ s.state = "past_due" /\ t.state = "past_due" => t.pastSince = s.pastSince /\ t.tier = s.tier
  /\ s.disputed # 0 /\ s.state = "free" /\ t.state # "free" => t.sub # s.sub
  /\ s.state \in {"free", "past_due"} /\ t.state \in Trials \cup PaidTiers => e.at >= s.changed
  /\ IsRevoke(e) /\ (e.sub = s.sub \/ e.type = "dispute_created") => t.changed >= e.at

LEMMA StutterOK == ASSUME NEW s \in Snapshots, NEW e, EventOK(e),
                          ~IsRevoke(e) \/ (e.sub # s.sub /\ e.type # "dispute_created")
                   PROVE  MoveOK(s, e, Ignored(s).to)
<1>1. Follows(s, e, s) BY DEF Follows, IsEnd, IsRevoke
<1> QED BY <1>1 DEF Ignored, MoveOK, Promises, Snapshots, Trials, PaidTiers

LEMMA RevokeMarkOK == ASSUME NEW s \in Snapshots, NEW e, EventOK(e), ~IsEnd(e),
                             s.state \in {"free", "past_due"}
                      PROVE  MoveOK(s, e, RevokeMark(s, e).to)
<1>1. Follows(s, e, RevokeMark(s, e).to) BY DEF RevokeMark, Ignored, Follows, Snapshots
<1> QED BY <1>1 DEF RevokeMark, Ignored, MoveOK, Promises, Snapshots, Trials, PaidTiers, EventOK

\* A move to Free of an account that is not there yet, or that follows a subscription that ends.
LEMMA FreeOK == ASSUME NEW s \in Snapshots, NEW e, EventOK(e), NEW over \in BOOLEAN,
                       IsRevoke(e) => /\ StripeStamped(e)
                                      /\ s.state # "free" \/ (over /\ s.sub # NoSub),
                       IsEnd(e) => over
                PROVE  MoveOK(s, e, Applied(s, ToFree(s, over), e).to)
<1> DEFINE to == ToFree(s, over)
           t  == Applied(s, to, e).to
<1>1. to \in Snapshots /\ Legal(to) BY ToFreeLegal
<1>2. /\ to.state = "free" /\ to.trialUsed = s.trialUsed /\ to.disputed = s.disputed
      /\ to.sub = IF over THEN NoSub ELSE s.sub
  BY ToFreeFields
<1> HIDE DEF to
<1>3. Fields(t, to) /\ t.changed >= s.changed
      /\ (StripeStamped(e) /\ ~Same(s, to) => t.changed >= e.at)
  BY <1>1, AppliedFields
<1>4. IsRevoke(e) => ~Same(s, to) BY <1>1, <1>2, SameFields DEF Fields
<1> HIDE DEF t
<1>5. Follows(s, e, t) BY <1>2, <1>3 DEF Follows, Fields
<1> QED BY <1>2, <1>3, <1>4, <1>5 DEF to, t, MoveOK, Promises, Fields, Trials, PaidTiers

LEMMA PaidOK == ASSUME NEW s \in Snapshots, NEW e, EventOK(e),
                       e.type \in {"checkout_completed", "subscription_updated"},
                       e.status = "active", ~Stale(s, e.at),
                       e.type = "subscription_updated" => e.sub = s.sub,
                       e.sub = s.sub => s.state # "free" \/ s.disputed = 0
                PROVE  MoveOK(s, e, Applied(s, ToPaid(s, e), e).to)
<1> DEFINE to == ToPaid(s, e)
           t  == Applied(s, to, e).to
<1>0. e.sub \in Subs /\ e.plan \in PaidTiers /\ e.extras \in Nat /\ (e.plan = "pro" => e.extras = 0)
  BY DEF EventOK, OwnTypes
<1>1. to \in Snapshots /\ Legal(to) BY <1>0, ToPaidLegal
<1>2. /\ to.state = e.plan /\ to.trialUsed = s.trialUsed /\ to.disputed = s.disputed /\ to.sub = e.sub
  BY <1>0, ToPaidFields
<1> HIDE DEF to
<1>3. Fields(t, to) /\ t.changed >= s.changed BY <1>1, AppliedFields
<1>4. e.at >= s.changed BY DEF Stale, EventOK, Snapshots
<1>5. ~IsRevoke(e) BY DEF IsRevoke
<1> HIDE DEF t
<1>6. Follows(s, e, t)
  BY <1>2, <1>3, <1>5 DEF Follows, Fields, GrantTypes, IsEnd, IsRevoke
<1> QED BY <1>0, <1>2, <1>3, <1>4, <1>5, <1>6 DEF to, t, MoveOK, Promises, Fields, Trials, PaidTiers

LEMMA FellBehindOK == ASSUME NEW s \in Snapshots, Legal(s), NEW e, EventOK(e), e.sub \in Subs,
                             e.sub = s.sub, StripeStamped(e), ~IsEnd(e)
                      PROVE  MoveOK(s, e, FellBehind(s, e).to)
<1>1. CASE s.state \in {"free", "past_due"} BY <1>1, RevokeMarkOK DEF FellBehind
<1>2. CASE s.state \notin {"free", "past_due"}
  <2> DEFINE to == ToPastDue(s, e.at)
             t  == Applied(s, to, e).to
  <2>0. e.at \in Nat /\ e.at > 0 BY DEF EventOK
  <2>1. to \in Snapshots /\ Legal(to) BY <1>2, <2>0, ToPastDueLegal
  <2>2. /\ to.state = "past_due" /\ to.trialUsed = s.trialUsed /\ to.disputed = s.disputed
        /\ to.sub = s.sub
    BY <2>0, ToPastDueFields
  <2>3. FellBehind(s, e).to = t BY <1>2 DEF FellBehind
  <2> HIDE DEF to
  <2>4. /\ Fields(t, to) /\ t.changed >= s.changed
        /\ (StripeStamped(e) /\ ~Same(s, to) => t.changed >= e.at)
    BY <2>1, AppliedFields
  <2>5. ~Same(s, to) BY <1>2, <2>1, <2>2, SameFields DEF Fields
  <2>6. s.state \in Trials \cup PaidTiers BY <1>2 DEF Snapshots, States
  <2> HIDE DEF t
  <2>7. Follows(s, e, t) BY <2>2, <2>4 DEF Follows, Fields
  <2>8. MoveOK(s, e, t)
    BY <1>2, <2>2, <2>4, <2>5, <2>6, <2>7 DEF MoveOK, Promises, Fields, Trials, PaidTiers
  <2> QED BY <2>3, <2>8
<1> QED BY <1>1, <1>2

LEMMA UpdatedOK == ASSUME NEW s \in Snapshots, Legal(s), NEW e, EventOK(e),
                          e.type = "subscription_updated", e.sub = s.sub
                   PROVE  MoveOK(s, e, Updated(s, e).to)
<1>0. e.sub \in Subs /\ StripeStamped(e) BY DEF EventOK, OwnTypes, StripeStamped
<1>1. CASE e.status = "active"
  <2>1. ~IsRevoke(e) BY <1>1 DEF IsRevoke
  <2> QED BY <1>1, <2>1, StutterOK, PaidOK DEF Updated, Restored
<1>2. CASE e.status = "past_due" BY <1>0, <1>2, FellBehindOK DEF Updated, IsEnd
<1>3. CASE e.status = "canceled" BY <1>0, <1>3, FreeOK DEF Updated
<1>4. CASE e.status \notin {"active", "past_due", "canceled"}
  BY <1>0, <1>4, FreeOK, RevokeMarkOK DEF Updated, Suspended, IsEnd
<1> QED BY <1>1, <1>2, <1>3, <1>4

LEMMA DisputedOK == ASSUME NEW s \in Snapshots, Legal(s), NEW e, EventOK(e),
                           e.type = "dispute_created"
                    PROVE  MoveOK(s, e, Disputed(s, e).to)
<1> DEFINE to == [ToFree(s, FALSE) EXCEPT !.disputed = IF s.disputed # 0 THEN s.disputed ELSE e.at]
           t  == Disputed(s, e).to
<1>1. to \in Snapshots /\ Legal(to)
  <2> DEFINE f == ToFree(s, FALSE)
  <2>1. f \in Snapshots /\ Legal(f) BY ToFreeLegal
  <2>2. (IF s.disputed # 0 THEN s.disputed ELSE e.at) \in Nat BY DEF EventOK, Snapshots
  <2> HIDE DEF f
  <2>3. /\ [f EXCEPT !.disputed = IF s.disputed # 0 THEN s.disputed ELSE e.at] \in Snapshots
        /\ Legal([f EXCEPT !.disputed = IF s.disputed # 0 THEN s.disputed ELSE e.at])
    BY <2>1, <2>2 DEF Snapshots, Legal, TierOf, FollowsStripe, Trials
  <2> QED BY <2>3 DEF f
<1>2. /\ to.state = "free" /\ to.trialUsed = s.trialUsed /\ to.disputed # 0
      /\ (s.disputed # 0 => to.disputed = s.disputed) /\ to.sub = s.sub
  BY DEF ToFree, Snapshots, EventOK
<1>3. t = IF Same(s, to) THEN [s EXCEPT !.changed = Latest(s.changed, e.at)]
                         ELSE Applied(s, to, e).to
  BY DEF Disputed
<1>4. StripeStamped(e) BY DEF StripeStamped
<1>5. ~IsEnd(e) BY DEF IsEnd
<1> HIDE DEF to, t
<1>6. CASE Same(s, to)
  <2>1. Fields(s, to) BY <1>1, <1>6, SameFields
  <2>2. Fields(t, s) /\ t.changed >= s.changed /\ t.changed >= e.at
    BY <1>3, <1>6 DEF Fields, Snapshots, Latest, EventOK
  <2>3. Follows(s, e, t) BY <1>5, <2>2 DEF Follows, Fields
  <2>4. MoveOK(s, e, t) BY <1>2, <2>1, <2>2, <2>3 DEF MoveOK, Promises, Fields, Trials, PaidTiers
  <2> QED BY <2>4 DEF t
<1>7. CASE ~Same(s, to)
  <2>1. Fields(t, to) /\ t.changed >= s.changed /\ t.changed >= e.at
    BY <1>1, <1>3, <1>4, <1>7, AppliedFields
  <2>2. Follows(s, e, t) BY <1>2, <1>5, <2>1 DEF Follows, Fields
  <2>3. MoveOK(s, e, t) BY <1>2, <2>1, <2>2 DEF MoveOK, Promises, Fields, Trials, PaidTiers
  <2> QED BY <2>3 DEF t
<1> QED BY <1>6, <1>7

LEMMA TrialOK == ASSUME NEW s \in Snapshots, Legal(s), NEW e, EventOK(e),
                        e.type \in {"no_card_trial", "card_trial", "agency_trial"},
                        NEW state \in Trials, NEW tier \in PaidTiers, NEW variant \in Variants,
                        tier = (IF state = "pro_trial" THEN "pro" ELSE "agency"),
                        state = "pro_trial" => variant # "none",
                        (e.type = "no_card_trial") = (state = "pro_trial" /\ variant = "no_card")
                 PROVE  MoveOK(s, e, StartTrial(s, e, state, tier, variant).to)
<1> DEFINE to == [s EXCEPT !.state = state, !.tier = tier, !.variant = variant,
                           !.trialEnds = e.at + TrialDays, !.trialUsed = e.at, !.sub = e.sub]
           t == Applied(s, to, e).to
<1>0. ~IsRevoke(e) BY DEF IsRevoke
<1>1. CASE TrialRefused(s, e.at) \/ (e.type # "no_card_trial" /\ e.status # "trialing")
  BY <1>0, <1>1, StutterOK DEF StartTrial
<1>2. CASE ~(TrialRefused(s, e.at) \/ (e.type # "no_card_trial" /\ e.status # "trialing"))
  <2>1. StartTrial(s, e, state, tier, variant).to = t BY <1>2 DEF StartTrial
  <2>2. /\ s.state = "free" /\ s.trialUsed = 0 /\ s.disputed = 0 /\ ~Stale(s, e.at)
    BY <1>2 DEF TrialRefused
  <2>3. e.sub \in Subs \cup {NoSub} /\ (e.sub = NoSub) = (e.type = "no_card_trial")
    BY DEF EventOK, OwnTypes
  <2>4. to \in Snapshots /\ Legal(to)
    BY <2>2, <2>3, TrialLegal DEF EventOK
  <2>5. to.state = state /\ to.trialUsed = e.at /\ to.disputed = s.disputed /\ to.sub = e.sub
    BY DEF Snapshots
  <2>6. e.at >= s.changed BY <2>2 DEF Stale, EventOK, Snapshots
  <2> HIDE DEF to
  <2>7. Fields(t, to) /\ t.changed >= s.changed BY <2>4, AppliedFields
  <2> HIDE DEF t
  <2>8. Follows(s, e, t)
    <3>1. e.type = "no_card_trial" \/ (e.type \in GrantTypes /\ e.status = "trialing")
      BY <1>2 DEF GrantTypes
    <3> QED BY <1>0, <2>3, <2>5, <2>7, <3>1 DEF Follows, Fields, IsEnd, IsRevoke
  <2>9. MoveOK(s, e, t)
    BY <1>0, <2>2, <2>5, <2>6, <2>7, <2>8 DEF MoveOK, Promises, Fields, Trials, PaidTiers, EventOK
  <2> QED BY <2>1, <2>9
<1> QED BY <1>1, <1>2

\* Every decision is one of the promised moves.
LEMMA DecideOK == ASSUME NEW s \in Snapshots, Legal(s), NEW e, EventOK(e)
                  PROVE  MoveOK(s, e, Decide(s, e).to)
<1>0. s.variant \in Variants BY DEF Snapshots
<1>1. CASE e.type = "no_card_trial" BY <1>1, TrialOK DEF Decide, Trials, PaidTiers, Variants
<1>2. CASE e.type = "card_trial" BY <1>2, TrialOK DEF Decide, Trials, PaidTiers, Variants
<1>3. CASE e.type = "agency_trial" BY <1>0, <1>3, TrialOK DEF Decide, Trials, PaidTiers
<1>4. CASE e.type = "trial_expired"
  <2>1. ~IsRevoke(e) BY <1>4 DEF IsRevoke
  <2> QED BY <1>4, <2>1, StutterOK, FreeOK DEF Decide, TrialExpired
<1>5. CASE e.type = "checkout_completed"
  <2>1. ~IsRevoke(e) BY <1>5 DEF IsRevoke
  <2> QED BY <1>5, <2>1, StutterOK, PaidOK DEF Decide, Checkout
<1>6. CASE e.type = "subscription_updated"
  BY <1>6, StutterOK, UpdatedOK DEF Decide, OnCurrent
<1>7. CASE e.type = "subscription_deleted"
  <2>1. e.sub \in Subs /\ StripeStamped(e) BY <1>7 DEF EventOK, OwnTypes, StripeStamped
  <2> QED BY <1>7, <2>1, StutterOK, FreeOK DEF Decide, OnCurrent
<1>8. CASE e.type = "invoice_payment_failed"
  <2>1. e.sub \in Subs /\ StripeStamped(e) BY <1>8 DEF EventOK, OwnTypes, StripeStamped
  <2> QED BY <1>8, <2>1, StutterOK, FellBehindOK DEF Decide, OnCurrent, IsEnd
<1>9. CASE e.type = "dispute_created" BY <1>9, DisputedOK DEF Decide
<1>10. CASE e.type = "past_due_lapsed"
  <2>1. ~IsRevoke(e) /\ ~IsEnd(e) BY <1>10 DEF IsRevoke, IsEnd
  <2> QED BY <1>10, <2>1, StutterOK, FreeOK DEF Decide, Lapsed
<1> QED BY <1>1, <1>2, <1>3, <1>4, <1>5, <1>6, <1>7, <1>8, <1>9, <1>10 DEF EventOK, Types

-----------------------------------------------------------------------------
(* The inductive invariant holds. *)

LEMMA InitIInv == Init => IInv
BY FreeStartLegal DEF Init, IInv, HeldOK, Busy, Idle, FreeStart

\* What is known of a handler whose decision is settled on an unmoved version.
LEMMA SettledFacts == ASSUME IInv, NEW h \in Handlers, Busy(h), Unmoved(h)
                      PROVE  /\ EventOK(held[h].event) /\ held[h].event \in AllEvents
                             /\ held[h].read = account
                             /\ Decision(h) = Decide(account, held[h].event)
                             /\ Sound(Decision(h))
                             /\ MoveOK(account, held[h].event, Decision(h).to)
<1>1. /\ held[h].read = account /\ held[h].decision = Decide(account, held[h].event)
      /\ held[h].event \in AllEvents
  BY DEF IInv, HeldOK, Held, Unmoved
<1>2. EventOK(held[h].event) BY <1>1, EventFacts
<1> QED BY <1>1, <1>2, DecideSound, DecideOK DEF IInv, Decision

\* The coalesce of the UPDATE changes nothing the decision says.
LEMMA WrittenIsDecided == ASSUME NEW to \in Snapshots, account \in Snapshots,
                                 account.trialUsed # 0 => to.trialUsed = account.trialUsed,
                                 account.disputed # 0 => to.disputed = account.disputed,
                                 to.changed >= account.changed
                          PROVE  Written(to) = to
<1>1. (IF account.trialUsed # 0 THEN account.trialUsed ELSE to.trialUsed) = to.trialUsed OBVIOUS
<1>2. (IF account.disputed # 0 THEN account.disputed ELSE to.disputed) = to.disputed OBVIOUS
<1>3. Latest(account.changed, to.changed) = to.changed BY DEF Latest, Snapshots
<1>4. [to EXCEPT !.trialUsed = to.trialUsed, !.disputed = to.disputed, !.changed = to.changed] = to
  BY DEF Snapshots
<1> QED BY <1>1, <1>2, <1>3, <1>4 DEF Written

LEMMA CommitWrites == ASSUME IInv, NEW h \in Handlers, Commit(h)
                      PROVE  /\ account' = Decision(h).to
                             /\ MoveOK(account, held[h].event, account')
                             /\ account' \in Snapshots /\ Legal(account')
<1>1. Sound(Decision(h)) /\ MoveOK(account, held[h].event, Decision(h).to)
  BY SettledFacts DEF Commit
<1>2. /\ Decision(h).to \in Snapshots /\ Legal(Decision(h).to) BY <1>1 DEF Sound, Decisions
<1>3. account \in Snapshots BY DEF IInv
<1>4. /\ account.trialUsed # 0 => Decision(h).to.trialUsed = account.trialUsed
      /\ account.disputed # 0 => Decision(h).to.disputed = account.disputed
      /\ Decision(h).to.changed >= account.changed
  BY <1>1, <1>3 DEF MoveOK, Promises
<1>5. Written(Decision(h).to) = Decision(h).to BY <1>2, <1>3, <1>4, WrittenIsDecided
<1>6. account' = Decision(h).to BY <1>5 DEF Commit
<1> QED BY <1>1, <1>2, <1>6

LEMMA RecordFacts == ASSUME IInv, NEW h \in Handlers, Busy(h), Unmoved(h), Record(h),
                            account'.changed >= account.changed,
                            account'.changed = Decision(h).to.changed
                     PROVE  /\ gone' \subseteq ended /\ crossed' \subseteq gone'
                            /\ revoked' \in 0..MaxTime /\ revoked' <= account'.changed
<1> DEFINE e == held[h].event
<1>1. EventOK(e) /\ MoveOK(account, e, Decision(h).to) BY SettledFacts
<1>2. IsEnd(e) => e.sub \in ended BY DEF IInv
<1>3. gone' \subseteq ended /\ crossed' \subseteq gone' BY <1>2 DEF IInv, Record
<1>4. IsRevoke(e) /\ (e.sub = account.sub \/ e.type = "dispute_created") => e.at <= account'.changed
  BY <1>1 DEF MoveOK, EventOK
<1>5. /\ e.at \in 0..MaxTime /\ revoked \in 0..MaxTime /\ revoked <= account'.changed
  <2>1. account.changed \in Nat /\ account'.changed \in Nat
    BY SettledFacts DEF IInv, Snapshots, Sound, Decisions
  <2> QED BY <1>1, <2>1 DEF IInv, EventOK
<1> HIDE DEF e
<1>6. revoked' \in 0..MaxTime /\ revoked' <= account'.changed
  BY <1>4, <1>5 DEF Record, Latest, e
<1> QED BY <1>3, <1>6

\* A decision taken now does not follow a subscription whose end was settled.
LEMMA LoadKeepsEnds ==
  ASSUME IInv, NEW h \in Handlers, Load(h), NEW sub \in gone \ crossed
  PROVE  EndStands(sub)'
<1>1. PICK e \in OwnEvents \cup UNION {EventsOf(x) : x \in Subs} :
        held' = [held EXCEPT ![h] = [event |-> e, version |-> version,
                                     decision |-> Decide(account, e), read |-> account]]
  BY DEF Load
<1>2. UNCHANGED <<account, version>> BY DEF Load
<1>3. MoveOK(account, e, Decide(account, e).to)
  BY DeliveredAreEvents, EventFacts, DecideOK DEF IInv
<1>4. account.sub # sub /\ sub \in ended /\ sub # NoSub BY DEF IInv, EndStands
<1>5. Decide(account, e).to.sub # sub
  <2>1. ended \subseteq Subs BY DEF IInv
  <2> QED BY <1>3, <1>4, <2>1, LateGrants DEF MoveOK, Follows
<1>6. held'[h].decision = Decide(account, e) /\ \A g \in Handlers \ {h} : held'[g] = held[g]
  BY <1>1 DEF IInv
<1>7. ASSUME NEW g \in Handlers PROVE ~GrantInHand(g, sub)'
  <2>1. CASE g = h BY <1>5, <1>6, <2>1 DEF GrantInHand, Decision
  <2>2. CASE g # h
    <3>1. ~GrantInHand(g, sub) BY DEF IInv, EndStands
    <3> QED BY <1>2, <1>6, <2>2, <3>1 DEF GrantInHand, Busy, Decision
  <2> QED BY <2>1, <2>2
<1> QED BY <1>2, <1>4, <1>7 DEF EndStands

\* What a settled event leaves followed: not what it ended, nor what had ended before.
LEMMA SettledKeepsEnds ==
  ASSUME IInv, NEW h \in Handlers, Busy(h), Unmoved(h), Record(h),
         \/ Decision(h).kind = "applied"
         \/ Decision(h).to = account,
         NEW sub \in gone' \ crossed'
  PROVE  /\ Decision(h).to.sub # sub
         /\ \A g \in Handlers \ {h} : ~GrantInHand(g, sub)
<1> DEFINE e == held[h].event
<1>1. MoveOK(account, e, Decision(h).to) /\ Decision(h).to \in Snapshots
  BY SettledFacts DEF Sound, Decisions
<1>2. CASE sub \in gone \ crossed
  <2>1. EndStands(sub) BY <1>2 DEF IInv
  <2>2. Decision(h).to.sub # sub BY <2>1 DEF EndStands, GrantInHand, Unmoved
  <2> QED BY <2>1, <2>2 DEF EndStands
<1>3. CASE sub \notin gone \ crossed
  <2>1. IsEnd(e) /\ sub = e.sub /\ ~\E g \in Handlers \ {h} : GrantInHand(g, e.sub)
    BY <1>3 DEF Record
  <2>2. sub \in Subs /\ sub # NoSub BY <2>1 DEF IInv
  <2>3. e.type \notin GrantTypes BY <2>1 DEF IsEnd, GrantTypes
  <2>4. Decision(h).to.sub # sub BY <1>1, <2>1, <2>2, <2>3 DEF MoveOK, Follows
  <2> QED BY <2>1, <2>4
<1> QED BY <1>2, <1>3

LEMMA NextKeepsEnds == ASSUME IInv, Next, NEW sub \in gone' \ crossed' PROVE EndStands(sub)'
<1>1. ASSUME NEW x \in Subs, End(x) PROVE EndStands(sub)'
  <2>1. UNCHANGED <<account, version, held, gone, crossed>> BY <1>1 DEF End, history
  <2>2. EndStands(sub) BY <2>1 DEF IInv
  <2> QED BY <2>1, <2>2 DEF EndStands, GrantInHand, Busy, Decision
<1>2. ASSUME NEW h \in Handlers, Load(h) PROVE EndStands(sub)'
  <2>1. sub \in gone \ crossed BY <1>2 DEF Load, history
  <2> QED BY <1>2, <2>1, LoadKeepsEnds
<1>3. ASSUME NEW h \in Handlers, Abandon(h) PROVE EndStands(sub)'
  <2>1. UNCHANGED <<account, version, gone, crossed>> BY <1>3 DEF Abandon, history
  <2>2. held'[h] = Idle /\ \A g \in Handlers \ {h} : held'[g] = held[g]
    BY <1>3 DEF Abandon, IInv
  <2>3. EndStands(sub) BY <2>1 DEF IInv
  <2> QED BY <2>1, <2>2, <2>3 DEF EndStands, GrantInHand, Busy, Decision
<1>4. ASSUME NEW h \in Handlers, Confirm(h) PROVE EndStands(sub)'
  <2>1. /\ Busy(h) /\ Unmoved(h) /\ Record(h) /\ Decision(h).to = account
        /\ UNCHANGED <<account, version>>
    BY <1>4, SettledFacts DEF Confirm
  <2>2. account.sub # sub /\ \A g \in Handlers \ {h} : ~GrantInHand(g, sub)
    BY <2>1, SettledKeepsEnds
  <2>3. held'[h] = Idle /\ \A g \in Handlers \ {h} : held'[g] = held[g]
    BY <1>4 DEF Confirm, IInv
  <2> QED BY <2>1, <2>2, <2>3 DEF EndStands, GrantInHand, Busy, Decision
<1>5. ASSUME NEW h \in Handlers, Commit(h) PROVE EndStands(sub)'
  <2>1. Busy(h) /\ Unmoved(h) /\ Record(h) /\ Decision(h).kind = "applied" /\ version' = version + 1
    BY <1>5 DEF Commit
  <2>2. account'.sub # sub BY <1>5, <2>1, SettledKeepsEnds, CommitWrites
  <2>3. held'[h] = Idle /\ \A g \in Handlers \ {h} : held'[g] = held[g]
    BY <1>5 DEF Commit, IInv
  <2>4. ASSUME NEW g \in Handlers PROVE ~GrantInHand(g, sub)'
    <3>1. g # h /\ Busy(g) => held[g].version \in Nat /\ held[g].version <= version
      BY DEF IInv, HeldOK, Held
    <3>2. version \in Nat BY DEF IInv
    <3> QED BY <2>1, <2>3, <3>1, <3>2 DEF GrantInHand, Busy
  <2> QED BY <2>2, <2>4 DEF EndStands
<1> QED BY <1>1, <1>2, <1>3, <1>4, <1>5 DEF Next

LEMMA NextIInv == ASSUME IInv, [Next]_vars PROVE IInv'
<1>0. Next => \A sub \in gone' \ crossed' : EndStands(sub)' BY NextKeepsEnds
<1>1. ASSUME NEW sub \in Subs, End(sub) PROVE IInv'
  <2>1. UNCHANGED <<account, version, held, history>> /\ ended' = ended \cup {sub} BY <1>1 DEF End
  <2> QED BY <1>0, <1>1, <2>1 DEF IInv, HeldOK, Busy, history, Next
<1>2. ASSUME NEW h \in Handlers, Load(h) PROVE IInv'
  <2>1. PICK e \in OwnEvents \cup UNION {EventsOf(sub) : sub \in Subs} :
          held' = [held EXCEPT ![h] = [event |-> e, version |-> version,
                                       decision |-> Decide(account, e), read |-> account]]
    BY <1>2 DEF Load
  <2>2. UNCHANGED <<account, version, ended, history>> BY <1>2 DEF Load
  <2>3. e \in AllEvents /\ EventOK(e) BY DeliveredAreEvents, EventFacts
  <2>4. Decide(account, e) \in Decisions BY <2>3, DecideSound DEF IInv, Sound
  <2>5. IsEnd(e) => e.sub \in ended BY EndsAreLate
  <2>6. held' = [g \in Handlers |-> held'[g]] /\ \A g \in Handlers \ {h} : held'[g] = held[g]
    BY <2>1 DEF IInv
  <2>7. held'[h] = [event |-> e, version |-> version, decision |-> Decide(account, e), read |-> account]
    BY <2>1 DEF IInv
  <2>8. HeldOK(h)' BY <2>2, <2>3, <2>4, <2>7 DEF IInv, HeldOK, Held, Decisions
  <2>9. \A g \in Handlers \ {h} : HeldOK(g)' BY <2>2, <2>6 DEF IInv, HeldOK, Busy
  <2>10. \A g \in Handlers : Busy(g)' /\ IsEnd(held[g].event)' => (held[g].event.sub)' \in ended'
    BY <2>2, <2>5, <2>6, <2>7 DEF IInv, Busy, IsEnd
  <2> QED BY <1>0, <1>2, <2>2, <2>6, <2>8, <2>9, <2>10 DEF IInv, history, Next
<1>3. ASSUME NEW h \in Handlers, Abandon(h) PROVE IInv'
  <2>1. held' = [held EXCEPT ![h] = Idle] /\ UNCHANGED <<account, version, ended, history>>
    BY <1>3 DEF Abandon
  <2>2. held' = [g \in Handlers |-> held'[g]] /\ held'[h] = Idle
        /\ \A g \in Handlers \ {h} : held'[g] = held[g]
    BY <2>1 DEF IInv
  <2> QED BY <1>0, <1>3, <2>1, <2>2 DEF IInv, HeldOK, Busy, IsEnd, history, Next
<1>4. ASSUME NEW h \in Handlers, Confirm(h) PROVE IInv'
  <2>1. /\ held' = [held EXCEPT ![h] = Idle] /\ UNCHANGED <<account, version, ended>>
        /\ Record(h) /\ Busy(h) /\ Unmoved(h) /\ Decision(h).to = held[h].read
    BY <1>4 DEF Confirm
  <2>2. held' = [g \in Handlers |-> held'[g]] /\ held'[h] = Idle
        /\ \A g \in Handlers \ {h} : held'[g] = held[g]
    BY <2>1 DEF IInv
  <2>3. account' = Decision(h).to BY <2>1, SettledFacts
  <2>4. /\ gone' \subseteq ended /\ crossed' \subseteq gone'
        /\ revoked' \in 0..MaxTime /\ revoked' <= account'.changed
    <3>1. account'.changed >= account.changed BY <2>1 DEF IInv, Snapshots
    <3> QED BY <2>1, <2>3, <3>1, RecordFacts
  <2> QED BY <1>0, <1>4, <2>1, <2>2, <2>4 DEF IInv, HeldOK, Busy, IsEnd, Next
<1>5. ASSUME NEW h \in Handlers, Commit(h) PROVE IInv'
  <2>1. /\ held' = [held EXCEPT ![h] = Idle] /\ UNCHANGED ended /\ version' = version + 1
        /\ version < MaxVersion /\ Record(h) /\ Busy(h) /\ Unmoved(h)
    BY <1>5 DEF Commit
  <2>2. held' = [g \in Handlers |-> held'[g]] /\ held'[h] = Idle
        /\ \A g \in Handlers \ {h} : held'[g] = held[g]
    BY <2>1 DEF IInv
  <2>3. /\ account' = Decision(h).to /\ account' \in Snapshots /\ Legal(account')
        /\ account'.changed >= account.changed
    BY <1>5, CommitWrites DEF MoveOK
  <2>4. /\ gone' \subseteq ended /\ crossed' \subseteq gone'
        /\ revoked' \in 0..MaxTime /\ revoked' <= account'.changed
    BY <2>1, <2>3, RecordFacts
  <2>5. version' \in 0..MaxVersion BY <2>1 DEF IInv
  <2>6. ASSUME NEW g \in Handlers PROVE HeldOK(g)'
    <3>1. CASE g = h BY <2>2, <3>1 DEF HeldOK, Busy
    <3>2. CASE g # h
      <4>1. held'[g] = held[g] BY <2>2, <3>2
      <4>2. Busy(g) => held[g].version \in Nat /\ held[g].version <= version BY DEF IInv, HeldOK, Held
      <4> QED BY <2>1, <4>1, <4>2 DEF IInv, HeldOK, Busy
    <3> QED BY <3>1, <3>2
  <2> QED BY <1>0, <1>5, <2>1, <2>2, <2>3, <2>4, <2>5, <2>6 DEF IInv, Busy, IsEnd, Next
<1>6. CASE UNCHANGED vars
  BY <1>6 DEF IInv, HeldOK, Busy, EndStands, GrantInHand, Decision, vars, history
<1> QED BY <1>1, <1>2, <1>3, <1>4, <1>5, <1>6 DEF Next

THEOREM Invariant == Spec => []IInv
BY InitIInv, NextIInv, PTL DEF Spec

\* The row keeps the checks of its table, and the handlers what they read.
THEOREM Typing == Spec => []TypeOK
<1>1. IInv => TypeOK BY DEF IInv, TypeOK, HeldOK
<1> QED BY <1>1, Invariant, PTL

\* No event, on no snapshot that can be read, makes the machine throw.
THEOREM MachineNeverThrows == Spec => []NeverThrows
<1>1. IInv => NeverThrows
  BY EventFacts, DecideSound DEF IInv, HeldOK, Held, NeverThrows, Decision, Sound
<1> QED BY <1>1, Invariant, PTL

\* A subscription whose end was settled while no grant for it was in hand is not followed again,
\* whatever is delivered late and however handlers overlap (apply_entitlement_transition).
THEOREM EndedIsNotFollowed == Spec => []EndedNotFollowed
<1>1. IInv => EndedNotFollowed BY DEF IInv, EndStands, EndedNotFollowed
<1> QED BY <1>1, Invariant, PTL

\* Events are applied as if one at a time.
THEOREM DecisionsAreCurrent == Spec => DecidedOnCurrent
<1>1. ASSUME IInv, NEW h \in Handlers, Confirm(h) \/ Commit(h)
      PROVE  Decision(h) = Decide(account, held[h].event)
  BY <1>1, SettledFacts DEF Confirm, Commit
<1>2. IInv /\ [Next]_vars
      => [\A h \in Handlers : (Confirm(h) \/ Commit(h)) => Decision(h) = Decide(account, held[h].event)]_vars
  BY <1>1
<1> QED BY <1>2, Invariant, PTL DEF Spec, DecidedOnCurrent

\* A step that changes the account is the commit of a promised move.
LEMMA AccountMoves == ASSUME IInv, Next, account' # account
                      PROVE  \E h \in Handlers : /\ Commit(h)
                                                  /\ MoveOK(account, held[h].event, account')
BY CommitWrites DEF Next, End, Load, Abandon, Confirm

\* No grant older than a settled revoke, for any number of handlers and events.
THEOREM OldGrantsAreRefused == Spec => OldGrantsStayOut
<1>1. ASSUME IInv, NEW h \in Handlers, Commit(h), account.state \in {"free", "past_due"},
             account'.state \in Trials \cup PaidTiers
      PROVE  held[h].event.at >= revoked
  <2>1. MoveOK(account, held[h].event, account') /\ EventOK(held[h].event)
    BY <1>1, CommitWrites, SettledFacts DEF Commit
  <2>2. held[h].event.at >= account.changed BY <1>1, <2>1 DEF MoveOK
  <2> QED BY <1>1, <2>1, <2>2 DEF IInv, EventOK, Snapshots
<1>2. IInv /\ [Next]_vars
      => [\A h \in Handlers :
            Commit(h) /\ account.state \in {"free", "past_due"} /\ account'.state \in Trials \cup PaidTiers
            => held[h].event.at >= revoked]_vars
  BY <1>1
<1> QED BY <1>2, Invariant, PTL DEF Spec, OldGrantsStayOut

\* A disputed subscription does not restore the plan.
THEOREM DisputesHold == Spec => DisputeHolds
<1>1. IInv /\ [Next]_vars => [account.disputed # 0 /\ account.state = "free" /\ account'.state # "free"
                              => account'.sub # account.sub]_vars
  BY AccountMoves DEF MoveOK, vars
<1> QED BY <1>1, Invariant, PTL DEF Spec, DisputeHolds

\* The days of grace are counted from the first payment that failed.
THEOREM GraceIsNotExtended == Spec => GraceNotExtended
<1>1. IInv /\ [Next]_vars
      => [account.state = "past_due" /\ account' # account /\ account'.state = "past_due"
          => account'.pastSince = account.pastSince /\ account'.tier = account.tier]_vars
  BY AccountMoves DEF MoveOK, vars
<1> QED BY <1>1, Invariant, PTL DEF Spec, GraceNotExtended

\* The machine with its store implements AccountPromise.
THEOREM MachineKeepsPromise == Spec => KeepsPromise
<1>1. Init => Promised!Start
  <2> SUFFICES ASSUME Init PROVE Promised!Start OBVIOUS
  <2>1. account.state = "free" /\ account.trialUsed = 0 /\ account.disputed = 0
    BY DEF Init, FreeStart
  <2>2. PlanOf(account) = "free"
    <3>1. "free" \notin Trials /\ "free" \notin PaidTiers BY DEF Trials, PaidTiers
    <3> QED BY <2>1, <3>1, SMT DEF PlanOf
  <2> QED BY <2>1, <2>2 DEF Promised!Start
<1>2. ASSUME IInv, [Next]_vars PROVE [Promised!Step]_Promised!pvars
  <2>1. CASE account' = account BY <2>1 DEF Promised!pvars
  <2>2. CASE account' # account
    <3>1. Next BY <1>2, <2>2 DEF vars
    <3>2. Promises(account, account') BY <1>2, <2>2, <3>1, AccountMoves DEF MoveOK
    <3>3. account.state \in States /\ account'.state \in States
      BY <1>2, NextIInv DEF IInv, Snapshots
    <3> QED BY <3>2, <3>3
          DEF Promises, Promised!pvars, Promised!Step, Promised!Try, Promised!Pay,
              Promised!FallBehind, Promised!End, Promised!Dispute, PlanOf, States, Trials, PaidTiers
  <2> QED BY <2>1, <2>2
<1> QED BY <1>1, <1>2, Invariant, PTL DEF Spec, KeepsPromise, Promised!Promise
=============================================================================
