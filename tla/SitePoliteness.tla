--------------------------- MODULE SitePoliteness ---------------------------
(***************************************************************************)
(* Request pacing for one site, as every batch of a worker process shares  *)
(* it: SiteLimiter (politeness/limiter.ts), Sites (politeness/sites.ts),   *)
(* a request of a batch (batch/polite-fetch.ts, batch/budget.ts), the      *)
(* Crawl-delay a batch reads (batch/site-rules.ts) and the lanes of a      *)
(* crawl batch (batch/crawl.ts).                                           *)
(*                                                                         *)
(* Every time the code keeps as an instant is kept here as what is left of *)
(* it, or as how long ago it was, so that the state is finite without an   *)
(* end of time.  What runs between two awaits is one action; Pump is a     *)
(* function of the state because several handlers end in a call of it.     *)
(***************************************************************************)
EXTENDS Integers, Sequences, FiniteSets

CONSTANTS
  Batches,      \* the batches that crawl this site
  Lanes,        \* <<b, w>>: lane w of batch b (CONCURRENT_PAGES of them each)
  Floor,        \* FLOOR_GAP_MS
  Delays,       \* the Crawl-delays robots.txt may declare, all at most the limit
  SlowMs,       \* SLOW_MEDIAN_MS
  SlowWindow,   \* SLOW_WINDOW
  Forget,       \* SITE_IDLE_FORGET_MS
  Cooldown,     \* STOP_COOLDOWN_MS
  After429s,    \* STOP_AFTER_429S
  AfterChallenged, \* STOP_AFTER_CHALLENGED_PAGES
  Long          \* beyond it, what is kept as "how long ago" is not told apart

Gaps == {Floor} \union Delays

ASSUME PaceAssumption ==
  /\ \A l \in Lanes : l[1] \in Batches
  /\ Floor \in Nat \ {0} /\ Delays \subseteq Nat /\ IsFiniteSet(Delays)
  /\ SlowMs \in Nat /\ SlowWindow \in Nat \ {0}
  /\ Forget \in Nat \ {0} /\ Cooldown \in Nat \ {0}
  /\ \A d \in Gaps : d <= Forget       \* MAX_CRAWL_DELAY_S is half of it
  /\ Long \in Nat /\ Forget <= Long
  /\ After429s \in Nat \ {0} /\ AfterChallenged \in Nat \ {0}

BatchOf(l) == l[1]
Larger(a, b) == IF a >= b THEN a ELSE b
Smaller(a, b) == IF a <= b THEN a ELSE b
Less(n) == Larger(n - 1, 0)

\* A limiter asks how long ago its last start was only to push the next start
\* out, and of a site whether it has been idle long enough: beyond Long, all
\* ages are alike.
More(n) == Smaller(n + 1, Long)

VARIABLES
  held,    \* the site is in the map: a forgotten one starts afresh
  lim,     \* its SiteLimiter
  site,    \* its counters and its stop
  lane,    \* what each lane is doing
  age,     \* how long the lane's request has taken
  batch,   \* each batch's budget, abort signal and rules
  quiet    \* how long ago a request to the site was started, by any limiter

vars == <<held, lim, site, lane, age, batch, quiet>>

Awake == -1     \* the pump is not asleep
NoStop == -1

NewLimiter == [gap |-> Floor, wait |-> 0, since |-> Long, inFlight |-> 0,
               queue |-> <<>>, nap |-> Awake, lats |-> <<>>, idle |-> 0]
NewSite == [n429 |-> 0, challenged |-> 0, stop |-> NoStop]
NewBatch == [on |-> TRUE, rules |-> "unread", delay |-> 0,
             spent |-> FALSE, aborted |-> FALSE]
Ended == [NewBatch EXCEPT !.on = FALSE]

InForce(s) == s.stop > 0

\* stopOf: an expired stop is cleared with its counters by whoever asks.
StopRead(s) == IF s.stop = 0 THEN NewSite ELSE s

\* medianOf the window exceeds SLOW_MEDIAN_MS; nothing is slow before the
\* window is full.  Two times the median is the sum of the middle two.
Slow(lats) ==
  LET rank(i) == Cardinality({j \in DOMAIN lats :
                   lats[j] < lats[i] \/ (lats[j] = lats[i] /\ j < i)})
      at(k) == lats[CHOOSE i \in DOMAIN lats : rank(i) = k]
      mid == Len(lats) \div 2
  IN  /\ Len(lats) >= SlowWindow
      /\ IF Len(lats) % 2 = 1 THEN at(mid) > SlowMs
                              ELSE at(mid - 1) + at(mid) > 2 * SlowMs

MaxConcurrent(l) == IF Slow(l.lats) /\ l.gap <= Floor THEN 2 ELSE 1

Running(l) == lane[l] \in {"sent", "refused"}

-----------------------------------------------------------------------------
(***************************************************************************)
(* What the handlers are built from: functions of x, a record of lim,      *)
(* site, lane and batch.                                                   *)
(***************************************************************************)

World(m, s, ln, bt) == [lim |-> m, site |-> s, lane |-> ln, batch |-> bt]

\* A queue without the tasks of batch b.
Dropped(q, b) ==
  LET kept[n \in 0..Len(q)] ==
        IF n = 0 THEN <<>>
        ELSE IF BatchOf(q[n]) = b THEN kept[n - 1] ELSE Append(kept[n - 1], q[n])
  IN  kept[Len(q)]

LeaveQueue(ln, b) ==
  [l \in Lanes |-> IF BatchOf(l) = b /\ ln[l] = "queued" THEN "idle" ELSE ln[l]]

\* An aborted batch's queued tasks leave the queue without using a start.
Abort(x, b) ==
  World([x.lim EXCEPT !.queue = Dropped(@, b)], x.site, LeaveQueue(x.lane, b),
        [x.batch EXCEPT ![b].aborted = TRUE])

Spend(x, b) ==
  Abort(World(x.lim, x.site, x.lane, [x.batch EXCEPT ![b].spent = TRUE]), b)

\* A task is taken off the queue: its start, the next one's and its slot.
UseStart(m) ==
  [m EXCEPT !.queue = Tail(@), !.since = 0, !.idle = 0, !.wait = m.gap,
            !.inFlight = @ + 1]

\* Mutant of Start: the stop and the budget are looked at only before queueing.
MutantStart(x, over) ==
  LET l == Head(x.lim.queue)
      to(phase) == World(UseStart(x.lim), x.site, [x.lane EXCEPT ![l] = phase], x.batch)
  IN  IF over THEN Spend(to("refused"), BatchOf(l)) ELSE to("sent")

\* The task at the head of the queue is started.  It looks again at the stop
\* and at the budget before it sends: a task that is refused here has used the
\* start.  over: the batch's requests, time or bytes are found to be spent,
\* which may be at any request (the counts themselves are left out).
Start(x, over) ==
  LET l == Head(x.lim.queue)
      b == BatchOf(l)
      s == StopRead(x.site)
      to(phase) == World(UseStart(x.lim), s, [x.lane EXCEPT ![l] = phase], x.batch)
  IN  IF InForce(s) \/ x.batch[b].spent THEN to("refused")
      ELSE IF over THEN Spend(to("refused"), b) ELSE to("sent")

MayStart(l) ==
  l.nap = Awake /\ l.queue # <<>> /\ l.inFlight < MaxConcurrent(l)

\* Mutant of Sleep: a pump that finds the next start still ahead returns.
MutantSleep(x) == x

Sleep(x) ==
  IF MayStart(x.lim)
  THEN World([x.lim EXCEPT !.nap = x.lim.wait], x.site, x.lane, x.batch)
  ELSE x

\* The loop of pump(): after one start the next is a gap away, so a call starts
\* at most one task, and sleeps if it could start another.
Starts(l) == MayStart(l) /\ l.wait = 0
Pump(x, over) == IF Starts(x.lim) THEN Sleep(Start(x, over)) ELSE Sleep(x)

Stopping(s, due) ==
  IF due /\ ~InForce(s) THEN [s EXCEPT !.stop = Cooldown] ELSE s

Record429(s) ==
  LET n == Smaller(s.n429 + 1, After429s)
  IN  Stopping([s EXCEPT !.n429 = n], n >= After429s)

RecordChallenge(s, challenged) ==
  LET n == IF challenged THEN Smaller(s.challenged + 1, AfterChallenged) ELSE 0
  IN  Stopping([s EXCEPT !.challenged = n], n >= AfterChallenged)

RecordLatency(lats, ms) ==
  LET all == Append(lats, ms)
  IN  IF Len(all) > SlowWindow THEN Tail(all) ELSE all

RaiseGap(l, ms) ==
  IF ms <= l.gap THEN l
  ELSE [l EXCEPT !.gap = ms, !.wait = Larger(@, ms - l.since)]

IdleFor(l, ms) == l.queue = <<>> /\ l.inFlight = 0 /\ l.idle >= ms

\* Mutants of Forgettable: any idle site, and a stopped one too.
MutantForgettableSoon(l, s) == ~InForce(s) /\ IdleFor(l, 0)
MutantForgettableStopped(l, s) == IdleFor(l, Larger(Forget, l.gap))

Forgettable(l, s) == ~InForce(s) /\ IdleFor(l, Larger(Forget, l.gap))

-----------------------------------------------------------------------------
TypeOK ==
  /\ held \in BOOLEAN
  /\ lim \in [gap : Gaps, wait : 0..Long, since : 0..Long, inFlight : Nat,
              queue : Seq(Lanes), nap : {Awake} \union 0..Long,
              lats : Seq(0..(SlowMs + 1)), idle : 0..Long]
  /\ site \in [n429 : 0..After429s, challenged : 0..AfterChallenged,
               stop : {NoStop} \union 0..Cooldown]
  /\ lane \in [Lanes -> {"idle", "queued", "sent", "refused", "fetched", "reading"}]
  /\ age \in [Lanes -> 0..(SlowMs + 1)]
  /\ batch \in [Batches -> [on : BOOLEAN, rules : {"unread", "asked", "read", "none"},
                            delay : {0} \union Delays,
                            spent : BOOLEAN, aborted : BOOLEAN]]
  /\ quiet \in 0..Long

Init ==
  /\ held = FALSE /\ lim = NewLimiter /\ site = NewSite
  /\ lane = [l \in Lanes |-> "idle"] /\ age = [l \in Lanes |-> 0]
  /\ batch = [b \in Batches |-> Ended]
  /\ quiet = Long

Here == World(lim, site, lane, batch)

Becomes(x) ==
  /\ lim' = x.lim /\ site' = x.site /\ lane' = x.lane /\ batch' = x.batch

Pumped(x, over) ==
  /\ Becomes(Pump(x, over))
  /\ quiet' = IF Starts(x.lim) THEN 0 ELSE quiet

LanesOf(b) == {l \in Lanes : BatchOf(l) = b}
Idle(b) == \A l \in LanesOf(b) : lane[l] = "idle"

\* A timer, an answer or a message from outside is taken up only when every
\* continuation of the one before it has run: each page is recorded, and a
\* batch that waits for nothing has asked for its next page or ended.
Settled ==
  /\ \A l \in Lanes : lane[l] \notin {"refused", "fetched"}
  /\ \A b \in Batches : batch[b].on => ~Idle(b)

\* runBatch begins: a budget, an abort signal and no rules of its own.
Begin(b) ==
  /\ Settled /\ ~batch[b].on /\ Idle(b)
  /\ batch' = [batch EXCEPT ![b] = NewBatch]
  /\ UNCHANGED <<held, lim, site, lane, age, quiet>>

\* oneRequest: refused on the stop or the budget, or queued at the limiter.
\* The first request of a batch is for robots.txt, and one lane makes it.
Ask(l, over) ==
  LET b == BatchOf(l)
      s == StopRead(site)
      robots == batch[b].rules = "unread"
  IN  /\ batch[b].on /\ lane[l] = "idle"
      /\ batch[b].rules = "read" \/ robots
      /\ IF InForce(s) \/ batch[b].spent
         THEN /\ site' = s
              /\ batch' = [batch EXCEPT ![b].rules = IF robots THEN "none" ELSE @]
              /\ UNCHANGED <<held, lim, lane, age, quiet>>
         ELSE /\ held' = TRUE /\ UNCHANGED age
              /\ Pumped(World([lim EXCEPT !.queue = Append(@, l)], s,
                           [lane EXCEPT ![l] = "queued"],
                           [batch EXCEPT ![b].rules = IF robots THEN "asked" ELSE @]),
                     over)

\* The pump's sleep ends: it looks again at the queue, the slots and the wait.
Wake(over) ==
  /\ Settled /\ lim.nap = 0
  /\ Pumped(World([lim EXCEPT !.nap = Awake], site, lane, batch), over)
  /\ UNCHANGED <<held, age>>

\* Mutant of Freed: the slot is not released.
MutantFreedNever(m, ms) == [m EXCEPT !.idle = 0, !.lats = RecordLatency(@, ms)]

\* The end of run(): the slot is released and the latency recorded.
Freed(m, ms) ==
  [m EXCEPT !.inFlight = @ - 1, !.idle = 0, !.lats = RecordLatency(@, ms)]

\* A request ends, answered or failed, possibly cut off by the bytes the batch
\* had left; the slot is freed, the latency recorded and the pump called.
Answer(l, is429, cut, over) ==
  LET x == World(lim, IF is429 THEN Record429(site) ELSE site,
                 [lane EXCEPT ![l] = "fetched"], batch)
      y == IF cut THEN Spend(x, BatchOf(l)) ELSE x
  IN  /\ Settled /\ lane[l] = "sent"
      /\ Pumped(World(Freed(y.lim, age[l]), y.site, y.lane, y.batch), over)
      /\ age' = [age EXCEPT ![l] = 0]
      /\ UNCHANGED held

\* A task refused at its start ends too, having taken no time.
Refused(l, over) ==
  /\ lane[l] = "refused"
  /\ Pumped(World(Freed(lim, 0), site, [lane EXCEPT ![l] = "idle"],
                  [batch EXCEPT ![BatchOf(l)].rules = IF @ = "asked" THEN "none" ELSE @]),
            over)
  /\ UNCHANGED <<held, age>>

\* BatchRobots.load: rules from the batch's own request, or from the cache,
\* with the Crawl-delay they declare (0: none).
LoadRules(b, d) ==
  /\ batch[b].on
  /\ \/ batch[b].rules = "unread" /\ Idle(b)
     \/ batch[b].rules = "asked" /\ \E l \in LanesOf(b) : lane[l] = "fetched"
  /\ batch' = [batch EXCEPT ![b].rules = "read", ![b].delay = d]
  /\ lane' = [l \in Lanes |-> IF BatchOf(l) = b THEN "idle" ELSE lane[l]]
  /\ IF d = 0 THEN UNCHANGED <<held, lim>>
              ELSE held' = TRUE /\ lim' = RaiseGap(lim, d)
  /\ UNCHANGED <<site, age, quiet>>

\* crawlPage after its fetch: the challenge rule, then the page is read.
RecordPage(l, challenged) ==
  /\ lane[l] = "fetched" /\ batch[BatchOf(l)].rules # "asked"
  /\ held' = TRUE
  /\ site' = RecordChallenge(site, challenged)
  /\ lane' = [lane EXCEPT ![l] = "reading"]
  /\ UNCHANGED <<lim, age, batch, quiet>>

PageRead(l) ==
  /\ Settled /\ lane[l] = "reading"
  /\ lane' = [lane EXCEPT ![l] = "idle"]
  /\ UNCHANGED <<held, lim, site, age, batch, quiet>>

\* sweep, at the end of every batch of the process.
Swept(x) ==
  LET s == StopRead(x.site)
  IN  IF held /\ Forgettable(x.lim, s)
      THEN held' = FALSE /\ Becomes(World(NewLimiter, NewSite, x.lane, x.batch))
      ELSE UNCHANGED held /\ Becomes(World(x.lim, s, x.lane, x.batch))

End(b) ==
  /\ batch[b].on /\ Idle(b)
  /\ Swept(World(lim, site, lane, [batch EXCEPT ![b] = Ended]))
  /\ UNCHANGED <<age, quiet>>

\* A page throws: queued requests are dropped and the batch has failed, while
\* the other lane's request goes on.
Fail(l) ==
  /\ Settled /\ batch[BatchOf(l)].on /\ lane[l] = "reading"
  /\ Swept(Abort(World(lim, site, [lane EXCEPT ![l] = "idle"],
                       [batch EXCEPT ![BatchOf(l)].on = FALSE]), BatchOf(l)))
  /\ UNCHANGED <<age, quiet>>

\* A batch of another site ends.
OtherEnds == Settled /\ held /\ Swept(Here) /\ UNCHANGED <<age, quiet>>

Tick ==
  /\ Settled
  /\ lim' = IF held
            THEN [lim EXCEPT !.wait = Less(@), !.since = More(@), !.idle = More(@),
                             !.nap = IF @ = Awake THEN Awake ELSE Less(@)]
            ELSE lim
  /\ site' = [site EXCEPT !.stop = IF @ = NoStop THEN NoStop ELSE Less(@)]
  /\ age' = [l \in Lanes |-> IF lane[l] = "sent"
                             THEN Smaller(age[l] + 1, SlowMs + 1) ELSE age[l]]
  /\ quiet' = More(quiet)
  /\ UNCHANGED <<held, lane, batch>>

Next ==
  \/ \E b \in Batches : Begin(b)
  \/ \E l \in Lanes, over \in BOOLEAN : Ask(l, over)
  \/ \E over \in BOOLEAN : Wake(over)
  \/ \E l \in Lanes, is429, cut, over \in BOOLEAN : Answer(l, is429, cut, over)
  \/ \E l \in Lanes, over \in BOOLEAN : Refused(l, over)
  \/ \E b \in Batches, d \in {0} \union Delays : LoadRules(b, d)
  \/ \E l \in Lanes, challenged \in BOOLEAN : RecordPage(l, challenged)
  \/ \E l \in Lanes : PageRead(l)
  \/ \E b \in Batches : End(b)
  \/ \E l \in Lanes : Fail(l)
  \/ OtherEnds
  \/ Tick

\* What runs without waiting for anything outside.
Continue ==
  \/ \E l \in Lanes, b \in BOOLEAN : Refused(l, b) \/ RecordPage(l, b) \/ Ask(l, b)
  \/ \E b \in Batches : End(b) \/ \E d \in {0} \union Delays : LoadRules(b, d)

SomeAnswer ==
  /\ Settled
  /\ \E l \in {m \in Lanes : lane[m] = "sent"} :
       \E is429, cut, over \in BOOLEAN : Answer(l, is429, cut, over)

\* The event loop gets to every event, however many batches begin and end in
\* between: a timer that is due fires, some request in flight ends (each has a
\* deadline), time passes; and continuations run.
Fairness ==
  /\ SF_vars(Tick)
  /\ SF_vars(\E over \in BOOLEAN : Wake(over))
  /\ SF_vars(SomeAnswer)
  /\ WF_vars(Continue)

Spec == Init /\ [][Next]_vars
FairSpec == Spec /\ Fairness

-----------------------------------------------------------------------------
Sent(l) == lane[l] # "sent" /\ lane'[l] = "sent"
Started == \E l \in Lanes : ~Running(l) /\ Running(l)'

\* Two starts are at least the gap apart that is in force at the second (and so
\* at least FLOOR_GAP_MS), whatever was raised, queued, dropped or swept between
\* them: "a site is only forgotten once its next start would be allowed anyway".
Paced == [][Started => quiet >= lim'.gap]_vars

\* A queue that is not empty is looked at again: the pump sleeps, or a request in
\* flight will call it when it ends.
NoLostWakeup == lim.queue # <<>> => lim.nap # Awake \/ lim.inFlight > 0

\* A stop in force runs its cooldown to the end: nothing recorded in the meantime
\* extends it, no batch clears it and no sweep forgets it.
StopHolds == [][InForce(site) => site'.stop \in {site.stop, site.stop - 1}]_vars

\* No request is sent while the site is stopped, nor for a batch whose budget is
\* spent or that has failed, although it was queued while it was allowed.
SendsAllowed ==
  [][\A l \in Lanes : Sent(l) => /\ ~InForce(site)
                                 /\ ~batch[BatchOf(l)].spent
                                 /\ ~batch[BatchOf(l)].aborted]_vars

\* A site with requests waiting keeps starting them; the queue is first in, first
\* out, so each is started or dropped.
QueueMoves == []<>(lim.queue = <<>> \/ quiet = 0)

=============================================================================
