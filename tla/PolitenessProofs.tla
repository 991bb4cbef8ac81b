-------------------------- MODULE PolitenessProofs --------------------------
(***************************************************************************)
(* Theorems about SitePoliteness, for every number of batches and lanes    *)
(* and every value of the delays and limits the assumptions allow.         *)
(*                                                                         *)
(* What is waited for and how long ago things were cannot drift apart:     *)
(* the wait that is left and the quiet there has been make up a gap (Pace) *)
(* and a pump that could start a task has been called or sleeps            *)
(* (~MayStart).  Both are kept by Pump, so each handler is reduced to what *)
(* it does before its call.                                                *)
(***************************************************************************)
EXTENDS SitePoliteness, WellFoundedInduction, TLAPS

Phases == {"idle", "queued", "sent", "refused", "fetched", "reading"}
Busy == {"sent", "refused"}

\* The fields of a limiter that the argument looks at; its queue and its
\* latencies may be anything.
Pace(m, q) ==
  /\ m = [gap |-> m.gap, wait |-> m.wait, since |-> m.since,
          inFlight |-> m.inFlight, queue |-> m.queue, nap |-> m.nap,
          lats |-> m.lats, idle |-> m.idle]
  /\ m.gap \in Gaps /\ m.wait \in Nat /\ m.since \in 0..Long /\ m.idle \in 0..Long
  /\ m.inFlight \in Int /\ m.nap \in Int
  /\ q \in 0..Long
  /\ m.wait + q >= m.gap
  /\ m.idle <= q
  /\ m.since <= q \/ Forget <= q

SiteOK(s) ==
  s \in [n429 : 0..After429s, challenged : 0..AfterChallenged,
         stop : {NoStop} \union 0..Cooldown]

IInv ==
  /\ SiteOK(site)
  /\ lane \in [Lanes -> Phases]
  /\ Pace(lim, quiet)
  /\ ~MayStart(lim)

\* What a handler may do to the state it found: no new request runs unless the
\* pump started it, and a stop in force is left as it is.
Kept(x, y) ==
  /\ \A l \in Lanes : y.lane[l] \in Busy => x.lane[l] \in Busy
  /\ InForce(x.site) => y.site.stop = x.site.stop

-----------------------------------------------------------------------------
\* An empty queue has nothing to drop.
LEMMA DroppedEmpty == ASSUME NEW b PROVE Dropped(<<>>, b) = <<>>
<1> DEFINE body(f) == [n \in 0..Len(<<>>) |->
             IF n = 0 THEN <<>>
             ELSE IF BatchOf(<<>>[n]) = b THEN f[n - 1] ELSE Append(f[n - 1], <<>>[n])]
           g == [n \in {0} |-> <<>>]
           k == CHOOSE f : f = body(f)
<1>0. 0..Len(<<>>) = {0}  OBVIOUS
<1>1. g = body(g)  BY <1>0
<1>2. \E f : f = body(f)  BY <1>1
<1> HIDE DEF k
<1>3. k = body(k)  BY <1>2 DEF k
<1>4. k[Len(<<>>)] = <<>>  BY <1>3, <1>0, Len(<<>>) = 0
<1> QED  BY <1>4 DEF Dropped, k

LEMMA Concurrency == ASSUME NEW m PROVE MaxConcurrent(m) \in {1, 2}
  BY DEF MaxConcurrent

LEMMA GapsAreNat == Gaps \subseteq Nat
  BY PaceAssumption DEF Gaps

\* An abort leaves the pace as it is and can only empty the queue.
LEMMA AbortKeeps ==
  ASSUME NEW x, NEW b, NEW q, Pace(x.lim, q), x.lane \in [Lanes -> Phases]
  PROVE  LET y == Abort(x, b)
         IN  /\ Pace(y.lim, q) /\ y.lane \in [Lanes -> Phases] /\ Kept(x, y)
             /\ y.lim.gap = x.lim.gap /\ y.site = x.site
             /\ ~MayStart(x.lim) => ~MayStart(y.lim)
<1> DEFINE y == Abort(x, b)
<1>1. /\ y.site = x.site
      /\ y.lim = [x.lim EXCEPT !.queue = Dropped(x.lim.queue, b)]
      /\ y.lane = LeaveQueue(x.lane, b)
  BY DEF Abort, World
<1> HIDE DEF y
<1>2. y.lane \in [Lanes -> Phases] /\ Kept(x, y)
  BY <1>1 DEF Kept, Phases, Busy, LeaveQueue
<1>3. Pace(y.lim, q) /\ y.lim.gap = x.lim.gap
  BY <1>1 DEF Pace
<1>4. ~MayStart(x.lim) => ~MayStart(y.lim)
  <2>1. y.lim.queue # <<>> => x.lim.queue # <<>>
    BY <1>1, DroppedEmpty DEF Pace
  <2>2. MaxConcurrent(y.lim) = MaxConcurrent(x.lim)
    BY <1>1 DEF Pace, MaxConcurrent
  <2>3. y.lim.nap = x.lim.nap /\ y.lim.inFlight = x.lim.inFlight
    BY <1>1 DEF Pace
  <2> QED  BY <2>1, <2>2, <2>3 DEF MayStart
<1> QED  BY <1>1, <1>2, <1>3, <1>4 DEF y

LEMMA SpendKeeps ==
  ASSUME NEW x, NEW b, NEW q, Pace(x.lim, q), x.lane \in [Lanes -> Phases]
  PROVE  LET y == Spend(x, b)
         IN  /\ Pace(y.lim, q) /\ y.lane \in [Lanes -> Phases] /\ Kept(x, y)
             /\ y.lim.gap = x.lim.gap /\ y.site = x.site
             /\ ~MayStart(x.lim) => ~MayStart(y.lim)
<1> DEFINE w == World(x.lim, x.site, x.lane, [x.batch EXCEPT ![b].spent = TRUE])
<1>1. w.lim = x.lim /\ w.site = x.site /\ w.lane = x.lane
  BY DEF World
<1> HIDE DEF w
<1>2. Spend(x, b) = Abort(w, b)
  BY DEF Spend, w
<1>3. LET y == Abort(w, b)
      IN  /\ Pace(y.lim, q) /\ y.lane \in [Lanes -> Phases] /\ Kept(w, y)
          /\ y.lim.gap = w.lim.gap /\ y.site = w.site
          /\ ~MayStart(w.lim) => ~MayStart(y.lim)
  BY <1>1, AbortKeeps
<1>4. \A y : Kept(w, y) => Kept(x, y)
  BY <1>1 DEF Kept
<1> QED  BY <1>1, <1>2, <1>3, <1>4

\* A sleeping pump cannot start anything.
LEMMA SleepKeeps ==
  ASSUME NEW x, NEW q, Pace(x.lim, q)
  PROVE  LET y == Sleep(x)
         IN  /\ Pace(y.lim, q) /\ ~MayStart(y.lim)
             /\ y.lim.gap = x.lim.gap /\ y.site = x.site /\ y.lane = x.lane
<1>1. CASE ~MayStart(x.lim)
  BY <1>1 DEF Sleep
<1>2. CASE MayStart(x.lim)
  <2> DEFINE y == Sleep(x)
  <2>1. y.lim = [x.lim EXCEPT !.nap = x.lim.wait] /\ y.site = x.site /\ y.lane = x.lane
    BY <1>2 DEF Sleep, World
  <2> HIDE DEF y
  <2>2. Pace(y.lim, q) /\ y.lim.gap = x.lim.gap /\ y.lim.nap # Awake
    BY <2>1 DEF Pace, Awake
  <2> QED  BY <2>1, <2>2 DEF y, MayStart
<1> QED  BY <1>1, <1>2

\* Whoever asks for the stop leaves one in force alone, and finds it in force.
LEMMA StopReadKeeps ==
  ASSUME NEW s, SiteOK(s)
  PROVE  /\ SiteOK(StopRead(s)) /\ InForce(StopRead(s)) = InForce(s)
         /\ InForce(s) => StopRead(s) = s
  BY PaceAssumption DEF StopRead, SiteOK, InForce, NewSite, NoStop

\* A task taken off the queue leaves a whole gap to wait.
LEMMA UseStartKeeps ==
  ASSUME NEW m, NEW q, Pace(m, q)
  PROVE  Pace(UseStart(m), 0) /\ UseStart(m).gap = m.gap
<1> DEFINE u == UseStart(m)
<1>1. /\ u = [gap |-> u.gap, wait |-> u.wait, since |-> u.since,
              inFlight |-> u.inFlight, queue |-> u.queue, nap |-> u.nap,
              lats |-> u.lats, idle |-> u.idle]
      /\ u.gap = m.gap /\ u.wait = m.gap /\ u.since = 0 /\ u.idle = 0
      /\ u.inFlight = m.inFlight + 1 /\ u.nap = m.nap
  <2> DEFINE t == Tail(m.queue)
             n == m.inFlight + 1
  <2>1. u = [m EXCEPT !.queue = t, !.since = 0, !.idle = 0,
                          !.wait = m.gap, !.inFlight = n]
    BY DEF UseStart
  <2> HIDE DEF t, n, u
  <2>2. m = [gap |-> m.gap, wait |-> m.wait, since |-> m.since,
                 inFlight |-> m.inFlight, queue |-> m.queue,
                 nap |-> m.nap, lats |-> m.lats, idle |-> m.idle]
    BY DEF Pace
  <2>3. u = [gap |-> m.gap, wait |-> m.gap, since |-> 0, inFlight |-> n,
             queue |-> t, nap |-> m.nap, lats |-> m.lats, idle |-> 0]
    BY <2>1, <2>2
  <2> QED  BY <2>3 DEF n
<1> HIDE DEF u
<1>2. m.gap \in Gaps /\ m.gap \in Nat /\ m.inFlight \in Int /\ m.nap \in Int
  BY GapsAreNat DEF Pace
<1>3. Long \in Nat
  BY PaceAssumption
<1> QED  BY <1>1, <1>2, <1>3 DEF Pace, u

\* A start that was waited for leaves a whole gap to wait.
LEMMA StartKeeps ==
  ASSUME NEW x, NEW over, NEW q, Pace(x.lim, q), SiteOK(x.site),
         x.lane \in [Lanes -> Phases]
  PROVE  LET y == Start(x, over)
         IN  /\ Pace(y.lim, 0) /\ y.lane \in [Lanes -> Phases] /\ SiteOK(y.site)
             /\ y.lim.gap = x.lim.gap
             /\ InForce(x.site) => y.site.stop = x.site.stop
<1> DEFINE l == Head(x.lim.queue)
           s == StopRead(x.site)
           to(phase) == World(UseStart(x.lim), s, [x.lane EXCEPT ![l] = phase], x.batch)
<1>1. Pace(UseStart(x.lim), 0) /\ UseStart(x.lim).gap = x.lim.gap
  BY UseStartKeeps
<1>2. \A p \in {"sent", "refused"} :
        /\ Pace(to(p).lim, 0) /\ to(p).lane \in [Lanes -> Phases] /\ to(p).site = s
        /\ to(p).lim.gap = x.lim.gap
  BY <1>1 DEF World, Phases
<1>3. SiteOK(s) /\ (InForce(x.site) => s.stop = x.site.stop)
  BY StopReadKeeps
<1> HIDE DEF to, s, l
<1>4. LET y == Spend(to("refused"), BatchOf(l))
      IN  /\ Pace(y.lim, 0) /\ y.lane \in [Lanes -> Phases] /\ y.site = s
          /\ y.lim.gap = x.lim.gap
  BY <1>2, SpendKeeps
<1>5. Start(x, over) \in {to("refused"), to("sent"), Spend(to("refused"), BatchOf(l))}
  BY DEF Start, to, s, l
<1> QED  BY <1>2, <1>3, <1>4, <1>5

\* What a call of pump() keeps, and that after it no task can be started: it has
\* started the one it could, waits for it, or has no slot or no task.
LEMMA PumpKeeps ==
  ASSUME NEW x, NEW over, NEW q, Pace(x.lim, q), SiteOK(x.site),
         x.lane \in [Lanes -> Phases]
  PROVE  LET y == Pump(x, over)
         IN  /\ Pace(y.lim, IF Starts(x.lim) THEN 0 ELSE q) /\ ~MayStart(y.lim)
             /\ y.lane \in [Lanes -> Phases] /\ SiteOK(y.site)
             /\ y.lim.gap = x.lim.gap
             /\ InForce(x.site) => y.site.stop = x.site.stop
             /\ ~Starts(x.lim) => y.lane = x.lane
             /\ Starts(x.lim) => q >= y.lim.gap
<1>1. CASE Starts(x.lim)
  <2>1. Pump(x, over) = Sleep(Start(x, over))
    BY <1>1 DEF Pump
  <2>2. q >= x.lim.gap
    BY <1>1, PaceAssumption DEF Starts, Pace, Gaps
  <2> DEFINE y == Start(x, over)
  <2>3. /\ Pace(y.lim, 0) /\ y.lane \in [Lanes -> Phases] /\ SiteOK(y.site)
        /\ y.lim.gap = x.lim.gap
        /\ InForce(x.site) => y.site.stop = x.site.stop
    BY StartKeeps
  <2> HIDE DEF y
  <2>4. LET z == Sleep(y)
        IN  /\ Pace(z.lim, 0) /\ ~MayStart(z.lim)
            /\ z.lim.gap = y.lim.gap /\ z.site = y.site /\ z.lane = y.lane
    BY <2>3, SleepKeeps
  <2> QED  BY <1>1, <2>1, <2>2, <2>3, <2>4 DEF y
<1>2. CASE ~Starts(x.lim)
  <2>1. Pump(x, over) = Sleep(x)
    BY <1>2 DEF Pump
  <2>2. LET z == Sleep(x)
        IN  /\ Pace(z.lim, q) /\ ~MayStart(z.lim)
            /\ z.lim.gap = x.lim.gap /\ z.site = x.site /\ z.lane = x.lane
    BY SleepKeeps
  <2> QED  BY <1>2, <2>1, <2>2
<1> QED  BY <1>1, <1>2

-----------------------------------------------------------------------------
\* What an action that ends in a call of the pump does, from what it does before.
LEMMA PumpedKeeps ==
  ASSUME NEW x, NEW over, Pumped(x, over),
         Pace(x.lim, quiet), SiteOK(x.site), x.lane \in [Lanes -> Phases],
         \A l \in Lanes : x.lane[l] \in Busy => lane[l] \in Busy,
         InForce(site) => x.site.stop = site.stop
  PROVE  /\ IInv'
         /\ Started => quiet >= lim'.gap
         /\ InForce(site) => site'.stop = site.stop
<1> DEFINE y == Pump(x, over)
<1>1. /\ Pace(y.lim, IF Starts(x.lim) THEN 0 ELSE quiet) /\ ~MayStart(y.lim)
      /\ y.lane \in [Lanes -> Phases] /\ SiteOK(y.site)
      /\ InForce(x.site) => y.site.stop = x.site.stop
      /\ ~Starts(x.lim) => y.lane = x.lane
      /\ Starts(x.lim) => quiet >= y.lim.gap
  BY PumpKeeps
<1> HIDE DEF y
<1>2. /\ lim' = y.lim /\ site' = y.site /\ lane' = y.lane
      /\ quiet' = IF Starts(x.lim) THEN 0 ELSE quiet
  BY DEF Pumped, Becomes, y
<1>3. IInv'
  BY <1>1, <1>2 DEF IInv
<1>4. Started => Starts(x.lim)
  BY <1>1, <1>2 DEF Started, Running, Busy
<1>5. InForce(site) => site'.stop = site.stop
  BY <1>1, <1>2 DEF InForce
<1> QED  BY <1>1, <1>2, <1>3, <1>4, <1>5

\* What every step has to keep.
Good ==
  /\ IInv'
  /\ Started => quiet >= lim'.gap
  /\ InForce(site) => site'.stop \in {site.stop, site.stop - 1}

LEMMA NoStart ==
  ASSUME \A l \in Lanes : lane'[l] \in Busy => lane[l] \in Busy
  PROVE  ~Started
  BY DEF Started, Running, Busy

\* The stops the counters set, and that they set none over one in force.
LEMMA CountKeeps ==
  ASSUME NEW s, SiteOK(s), NEW c \in BOOLEAN
  PROVE  /\ SiteOK(Record429(s)) /\ (InForce(s) => Record429(s).stop = s.stop)
         /\ SiteOK(RecordChallenge(s, c)) /\ (InForce(s) => RecordChallenge(s, c).stop = s.stop)
<1>1. ASSUME NEW t, NEW due, SiteOK(t)
      PROVE  SiteOK(Stopping(t, due)) /\ (InForce(t) => Stopping(t, due).stop = t.stop)
  BY <1>1, PaceAssumption DEF Stopping, SiteOK, InForce
<1>2. ASSUME NEW n \in 0..After429s
      PROVE  SiteOK([s EXCEPT !.n429 = n]) /\ [s EXCEPT !.n429 = n].stop = s.stop
  BY <1>2 DEF SiteOK
<1>3. ASSUME NEW n \in 0..AfterChallenged
      PROVE  SiteOK([s EXCEPT !.challenged = n]) /\ [s EXCEPT !.challenged = n].stop = s.stop
  BY <1>3 DEF SiteOK
<1>4. Smaller(s.n429 + 1, After429s) \in 0..After429s
  BY PaceAssumption DEF SiteOK, Smaller
<1>5. (IF c THEN Smaller(s.challenged + 1, AfterChallenged) ELSE 0) \in 0..AfterChallenged
  BY PaceAssumption DEF SiteOK, Smaller
<1>6. SiteOK(Record429(s)) /\ (InForce(s) => Record429(s).stop = s.stop)
  <2> DEFINE n == Smaller(s.n429 + 1, After429s)
             t == [s EXCEPT !.n429 = n]
  <2>1. SiteOK(t) /\ t.stop = s.stop
    BY <1>2, <1>4
  <2>2. Record429(s) = Stopping(t, n >= After429s)
    BY DEF Record429
  <2> HIDE DEF t, n
  <2> QED  BY <1>1, <2>1, <2>2 DEF InForce
<1>7. SiteOK(RecordChallenge(s, c)) /\ (InForce(s) => RecordChallenge(s, c).stop = s.stop)
  BY <1>1, <1>3, <1>5 DEF RecordChallenge, InForce
<1> QED  BY <1>6, <1>7

\* A slot that is released, with whatever latency, leaves the pace as it is.
LEMMA FreedKeeps ==
  ASSUME NEW m, NEW q, NEW ms, Pace(m, q)
  PROVE  Pace(Freed(m, ms), q)
<1> DEFINE r == RecordLatency(m.lats, ms)
           n == m.inFlight - 1
           f == Freed(m, ms)
<1>1. f = [m EXCEPT !.inFlight = n, !.idle = 0, !.lats = r]
  BY DEF Freed
<1> HIDE DEF r, n, f
<1>2. m = [gap |-> m.gap, wait |-> m.wait, since |-> m.since, inFlight |-> m.inFlight,
           queue |-> m.queue, nap |-> m.nap, lats |-> m.lats, idle |-> m.idle]
  BY DEF Pace
<1>3. f = [gap |-> m.gap, wait |-> m.wait, since |-> m.since, inFlight |-> n,
           queue |-> m.queue, nap |-> m.nap, lats |-> r, idle |-> 0]
  BY <1>1, <1>2
<1>4. n \in Int /\ Long \in Nat
  BY PaceAssumption DEF Pace, n
<1> QED  BY <1>3, <1>4 DEF Pace, f

\* A larger gap counts from the last start, and takes a second slot away.
LEMMA RaiseKeeps ==
  ASSUME NEW m, NEW q, NEW d \in Delays, Pace(m, q), ~MayStart(m)
  PROVE  Pace(RaiseGap(m, d), q) /\ ~MayStart(RaiseGap(m, d))
<1>1. CASE d <= m.gap
  BY <1>1 DEF RaiseGap
<1>2. CASE ~(d <= m.gap)
  <2> DEFINE f == RaiseGap(m, d)
             w == Larger(m.wait, d - m.since)
  <2>1. f = [m EXCEPT !.gap = d, !.wait = w]
    BY <1>2 DEF RaiseGap
  <2> HIDE DEF f
  <2>2. m.gap \in Nat /\ d \in Nat /\ d \in Gaps /\ d <= Forget
    BY GapsAreNat, PaceAssumption DEF Pace, Gaps
  <2>3. w \in Nat /\ w + q >= d /\ w + m.since >= d
    BY <2>2, PaceAssumption DEF Larger, Pace
  <2> HIDE DEF w
  <2>4. m = [gap |-> m.gap, wait |-> m.wait, since |-> m.since, inFlight |-> m.inFlight,
             queue |-> m.queue, nap |-> m.nap, lats |-> m.lats, idle |-> m.idle]
    BY DEF Pace
  <2>5. f = [gap |-> d, wait |-> w, since |-> m.since, inFlight |-> m.inFlight,
             queue |-> m.queue, nap |-> m.nap, lats |-> m.lats, idle |-> m.idle]
    BY <2>1, <2>4
  <2>6. Pace(f, q)
    BY <2>2, <2>3, <2>5 DEF Pace
  <2>7. MaxConcurrent(f) <= MaxConcurrent(m)
    <3>1. f.lats = m.lats /\ f.gap = d
      BY <2>5
    <3>2. Floor \in Nat
      BY PaceAssumption
    <3> QED  BY <1>2, <2>2, <3>1, <3>2 DEF MaxConcurrent
  <2>8. ~MayStart(f)
    <3>1. f.nap = m.nap /\ f.queue = m.queue /\ f.inFlight = m.inFlight
      BY <2>5
    <3>2. MaxConcurrent(f) \in {1, 2} /\ MaxConcurrent(m) \in {1, 2} /\ m.inFlight \in Int
      BY Concurrency DEF Pace
    <3> QED  BY <2>7, <3>1, <3>2 DEF MayStart
  <2> QED  BY <2>6, <2>8 DEF f
<1> QED  BY <1>1, <1>2

LEMMA NewKeeps ==
  ASSUME NEW q \in 0..Long, q >= Forget
  PROVE  Pace(NewLimiter, q) /\ ~MayStart(NewLimiter) /\ SiteOK(NewSite)
<1>1. Floor \in Gaps /\ Floor \in Nat /\ Floor <= Forget /\ Forget \in Nat /\ Long \in Nat
  BY PaceAssumption DEF Gaps
<1> QED  BY <1>1, PaceAssumption DEF NewLimiter, Pace, Awake, MayStart, NewSite, SiteOK, NoStop

\* A sweep forgets a site only when no start was made for as long as any gap.
LEMMA SweptKeeps ==
  ASSUME NEW x, Swept(x), UNCHANGED quiet, IInv,
         Pace(x.lim, quiet), ~MayStart(x.lim), x.site = site,
         x.lane \in [Lanes -> Phases],
         \A l \in Lanes : x.lane[l] \in Busy => lane[l] \in Busy
  PROVE  Good
<1> DEFINE s == StopRead(x.site)
<1>1. SiteOK(s) /\ InForce(s) = InForce(site) /\ (InForce(site) => s.stop = site.stop)
  BY StopReadKeeps DEF IInv
<1>2. lane' = x.lane
  BY DEF Swept, Becomes, World
<1>3. CASE held /\ Forgettable(x.lim, s)
  <2>1. lim' = NewLimiter /\ site' = NewSite
    BY <1>3 DEF Swept, Becomes, World
  <2>2. ~InForce(site)
    BY <1>1, <1>3 DEF Forgettable
  <2>3. quiet >= Forget /\ quiet \in 0..Long
    <3>1. x.lim.idle >= Larger(Forget, x.lim.gap)
      BY <1>3 DEF Forgettable, IdleFor
    <3>2. x.lim.gap \in Nat /\ Forget \in Nat /\ Long \in Nat
      BY PaceAssumption, GapsAreNat DEF Pace
    <3> QED  BY <3>1, <3>2 DEF Pace, Larger
  <2>4. IInv'
    BY <1>2, <2>1, <2>3, NewKeeps DEF IInv
  <2> QED  BY <1>2, <2>2, <2>4, NoStart DEF Good
<1>4. CASE ~(held /\ Forgettable(x.lim, s))
  <2>1. lim' = x.lim /\ site' = s
    BY <1>4 DEF Swept, Becomes, World
  <2> QED  BY <1>1, <1>2, <2>1, NoStart DEF Good, IInv
<1> QED  BY <1>3, <1>4

-----------------------------------------------------------------------------
LEMMA Starting == Init => IInv
<1> SUFFICES ASSUME Init PROVE IInv
  OBVIOUS
<1>1. Long \in Nat /\ Forget <= Long /\ Long \in 0..Long
  BY PaceAssumption
<1>2. Pace(lim, quiet) /\ ~MayStart(lim) /\ SiteOK(site)
  BY <1>1, NewKeeps DEF Init
<1> QED  BY <1>2 DEF Init, IInv, Phases

LEMMA AskGood == ASSUME IInv, NEW l \in Lanes, NEW over \in BOOLEAN, Ask(l, over) PROVE Good
<1> DEFINE b == BatchOf(l)
           s == StopRead(site)
           robots == batch[b].rules = "unread"
           bt == [batch EXCEPT ![b].rules = IF robots THEN "asked" ELSE @]
           x == World([lim EXCEPT !.queue = Append(@, l)], s, [lane EXCEPT ![l] = "queued"], bt)
<1>1. SiteOK(s) /\ InForce(s) = InForce(site) /\ (InForce(site) => s.stop = site.stop)
  BY StopReadKeeps DEF IInv
<1>2. CASE InForce(s) \/ batch[b].spent
  <2>1. site' = s /\ UNCHANGED <<lim, lane, quiet>>
    BY <1>2 DEF Ask
  <2> QED  BY <1>1, <2>1, NoStart DEF Good, IInv
<1>3. CASE ~(InForce(s) \/ batch[b].spent)
  <2>1. Pumped(x, over)
    BY <1>3 DEF Ask
  <2>2. x.site = s /\ x.lane = [lane EXCEPT ![l] = "queued"]
        /\ x.lim = [lim EXCEPT !.queue = Append(lim.queue, l)]
    BY DEF World
  <2> HIDE DEF x, s
  <2>3. Pace(x.lim, quiet)
    BY <2>2 DEF IInv, Pace
  <2>4. x.lane \in [Lanes -> Phases] /\ \A k \in Lanes : x.lane[k] \in Busy => lane[k] \in Busy
    BY <2>2 DEF IInv, Phases, Busy
  <2> QED  BY <1>1, <2>1, <2>2, <2>3, <2>4, PumpedKeeps DEF Good
<1> QED  BY <1>2, <1>3

LEMMA WakeGood == ASSUME IInv, NEW over \in BOOLEAN, Wake(over) PROVE Good
<1> DEFINE x == World([lim EXCEPT !.nap = Awake], site, lane, batch)
<1>1. Pumped(x, over)
  BY DEF Wake
<1>2. x.site = site /\ x.lane = lane /\ x.lim = [lim EXCEPT !.nap = Awake]
  BY DEF World
<1> HIDE DEF x
<1>3. Pace(x.lim, quiet)
  BY <1>2 DEF IInv, Pace, Awake
<1> QED  BY <1>1, <1>2, <1>3, PumpedKeeps DEF Good, IInv

LEMMA AnswerGood ==
  ASSUME IInv, NEW l \in Lanes, NEW is429 \in BOOLEAN, NEW cut \in BOOLEAN,
         NEW over \in BOOLEAN, Answer(l, is429, cut, over)
  PROVE  Good
<1> DEFINE s == IF is429 THEN Record429(site) ELSE site
           x == World(lim, s, [lane EXCEPT ![l] = "fetched"], batch)
           y == IF cut THEN Spend(x, BatchOf(l)) ELSE x
           z == World(Freed(y.lim, age[l]), y.site, y.lane, y.batch)
<1>1. Pumped(z, over)
  BY DEF Answer
<1>2. SiteOK(s) /\ (InForce(site) => s.stop = site.stop)
  BY CountKeeps DEF IInv
<1>3. x.lim = lim /\ x.site = s /\ x.lane = [lane EXCEPT ![l] = "fetched"]
  BY DEF World
<1> HIDE DEF x, s
<1>4. x.lane \in [Lanes -> Phases] /\ \A k \in Lanes : x.lane[k] \in Busy => lane[k] \in Busy
  BY <1>3 DEF IInv, Phases, Busy
<1>5. Pace(y.lim, quiet) /\ y.lane \in [Lanes -> Phases] /\ y.site = s /\ Kept(x, y)
  <2>1. LET w == Spend(x, BatchOf(l))
        IN  Pace(w.lim, quiet) /\ w.lane \in [Lanes -> Phases] /\ Kept(x, w) /\ w.site = x.site
    BY <1>3, <1>4, SpendKeeps DEF IInv
  <2>2. Kept(x, x)
    BY DEF Kept
  <2> QED  BY <1>3, <1>4, <2>1, <2>2 DEF IInv
<1> HIDE DEF y
<1>6. z.lim = Freed(y.lim, age[l]) /\ z.site = s /\ z.lane = y.lane
  BY <1>5 DEF World
<1> HIDE DEF z
<1>7. Pace(z.lim, quiet)
  BY <1>5, <1>6, FreedKeeps
<1>8. \A k \in Lanes : z.lane[k] \in Busy => lane[k] \in Busy
  BY <1>4, <1>5, <1>6 DEF Kept
<1> QED  BY <1>1, <1>2, <1>5, <1>6, <1>7, <1>8, PumpedKeeps DEF Good

LEMMA RefusedGood ==
  ASSUME IInv, NEW l \in Lanes, NEW over \in BOOLEAN, Refused(l, over) PROVE Good
<1> DEFINE bt == [batch EXCEPT ![BatchOf(l)].rules = IF @ = "asked" THEN "none" ELSE @]
           z == World(Freed(lim, 0), site, [lane EXCEPT ![l] = "idle"], bt)
<1>1. Pumped(z, over)
  BY DEF Refused
<1>2. z.lim = Freed(lim, 0) /\ z.site = site /\ z.lane = [lane EXCEPT ![l] = "idle"]
  BY DEF World
<1> HIDE DEF z
<1>3. Pace(z.lim, quiet)
  BY <1>2, FreedKeeps DEF IInv
<1>4. z.lane \in [Lanes -> Phases] /\ \A k \in Lanes : z.lane[k] \in Busy => lane[k] \in Busy
  BY <1>2 DEF IInv, Phases, Busy
<1> QED  BY <1>1, <1>2, <1>3, <1>4, PumpedKeeps DEF Good, IInv

LEMMA LoadGood ==
  ASSUME IInv, NEW b \in Batches, NEW d \in {0} \union Delays, LoadRules(b, d) PROVE Good
<1>1. lane' = [l \in Lanes |-> IF BatchOf(l) = b THEN "idle" ELSE lane[l]]
      /\ UNCHANGED <<site, quiet>>
  BY DEF LoadRules
<1>2. lane' \in [Lanes -> Phases] /\ \A k \in Lanes : lane'[k] \in Busy => lane[k] \in Busy
  BY <1>1 DEF IInv, Phases, Busy
<1>3. Pace(lim', quiet) /\ ~MayStart(lim')
  BY RaiseKeeps DEF LoadRules, IInv
<1> QED  BY <1>1, <1>2, <1>3, NoStart DEF Good, IInv

LEMMA TickGood == ASSUME IInv, Tick PROVE Good
<1>1. lane' = lane /\ quiet' = More(quiet)
      /\ site' = [site EXCEPT !.stop = IF @ = NoStop THEN NoStop ELSE Less(@)]
  BY DEF Tick
<1>2. Long \in Nat
  BY PaceAssumption
<1>3. SiteOK(site') /\ (InForce(site) => site'.stop = site.stop - 1)
  BY <1>1, PaceAssumption DEF IInv, SiteOK, InForce, NoStop, Less, Larger
<1>4. quiet' \in 0..Long /\ quiet' >= quiet
  BY <1>1, <1>2 DEF IInv, Pace, More, Smaller
<1>5. Pace(lim', quiet') /\ ~MayStart(lim')
  <2>1. CASE ~held
    <3>1. lim' = lim
      BY <2>1 DEF Tick
    <3>2. lim.gap \in Nat /\ lim.wait \in Nat /\ quiet \in 0..Long /\ Forget \in Nat
      BY GapsAreNat, PaceAssumption DEF IInv, Pace
    <3> QED  BY <1>2, <1>4, <3>1, <3>2 DEF IInv, Pace
  <2>2. CASE held
    <3> DEFINE w == Less(lim.wait)
               a == More(lim.since)
               i == More(lim.idle)
               n == IF lim.nap = Awake THEN Awake ELSE Less(lim.nap)
    <3>1. lim' = [lim EXCEPT !.wait = w, !.since = a, !.idle = i, !.nap = n]
      BY <2>2 DEF Tick
    <3>2. /\ w \in Nat /\ a \in 0..Long /\ i \in 0..Long /\ n \in Int
          /\ n = Awake => lim.nap = Awake
          /\ w + quiet' >= lim.gap /\ i <= quiet'
          /\ a <= quiet' \/ Forget <= quiet'
      <4>1. lim.gap \in Nat /\ lim.gap <= Long /\ Forget \in Nat
        BY GapsAreNat, PaceAssumption DEF IInv, Pace
      <4> QED  BY <1>1, <1>2, <4>1 DEF IInv, Pace, More, Less, Larger, Smaller, Awake
    <3> HIDE DEF w, a, i, n
    <3>3. lim = [gap |-> lim.gap, wait |-> lim.wait, since |-> lim.since,
                 inFlight |-> lim.inFlight, queue |-> lim.queue, nap |-> lim.nap,
                 lats |-> lim.lats, idle |-> lim.idle]
      BY DEF IInv, Pace
    <3>4. lim' = [gap |-> lim.gap, wait |-> w, since |-> a, inFlight |-> lim.inFlight,
                  queue |-> lim.queue, nap |-> n, lats |-> lim.lats, idle |-> i]
      BY <3>1, <3>3
    <3>5. Pace(lim', quiet')
      BY <1>4, <3>2, <3>4 DEF IInv, Pace
    <3>6. MaxConcurrent(lim') = MaxConcurrent(lim)
      BY <3>4 DEF MaxConcurrent
    <3> QED  BY <3>2, <3>4, <3>5, <3>6 DEF IInv, MayStart
  <2> QED  BY <2>1, <2>2
<1>6. ~Started
  BY <1>1, NoStart
<1> QED  BY <1>1, <1>3, <1>5, <1>6 DEF Good, IInv

\* Every step from a state of the invariant is good.
LEMMA StepGood == ASSUME IInv, Next PROVE Good
<1>1. ASSUME NEW b \in Batches, Begin(b) PROVE Good
  BY <1>1, NoStart DEF Begin, Good, IInv
<1>2. ASSUME NEW l \in Lanes, NEW challenged \in BOOLEAN, RecordPage(l, challenged)
      PROVE  Good
  <2>1. lane' \in [Lanes -> Phases] /\ \A k \in Lanes : lane'[k] \in Busy => lane[k] \in Busy
    BY <1>2 DEF RecordPage, IInv, Phases, Busy
  <2>2. SiteOK(site') /\ (InForce(site) => site'.stop = site.stop)
    BY <1>2, CountKeeps DEF RecordPage, IInv
  <2> QED  BY <1>2, <2>1, <2>2, NoStart DEF RecordPage, Good, IInv
<1>3. ASSUME NEW l \in Lanes, PageRead(l) PROVE Good
  <2>1. lane' \in [Lanes -> Phases] /\ \A k \in Lanes : lane'[k] \in Busy => lane[k] \in Busy
    BY <1>3 DEF PageRead, IInv, Phases, Busy
  <2> QED  BY <1>3, <2>1, NoStart DEF PageRead, Good, IInv
<1>4. ASSUME NEW b \in Batches, End(b) PROVE Good
  <2> DEFINE x == World(lim, site, lane, [batch EXCEPT ![b] = Ended])
  <2>1. Swept(x) /\ UNCHANGED quiet
    BY <1>4 DEF End
  <2>2. x.lim = lim /\ x.site = site /\ x.lane = lane
    BY DEF World
  <2> HIDE DEF x
  <2> QED  BY <2>1, <2>2, SweptKeeps DEF IInv
<1>5. ASSUME NEW l \in Lanes, Fail(l) PROVE Good
  <2> DEFINE w == World(lim, site, [lane EXCEPT ![l] = "idle"],
                        [batch EXCEPT ![BatchOf(l)].on = FALSE])
             x == Abort(w, BatchOf(l))
  <2>1. Swept(x) /\ UNCHANGED quiet
    BY <1>5 DEF Fail
  <2>2. w.lim = lim /\ w.site = site /\ w.lane = [lane EXCEPT ![l] = "idle"]
    BY DEF World
  <2> HIDE DEF w
  <2>3. w.lane \in [Lanes -> Phases] /\ \A k \in Lanes : w.lane[k] \in Busy => lane[k] \in Busy
    BY <2>2 DEF IInv, Phases, Busy
  <2>4. /\ Pace(x.lim, quiet) /\ x.lane \in [Lanes -> Phases] /\ Kept(w, x)
        /\ x.site = w.site /\ ~MayStart(x.lim)
    BY <2>2, <2>3, AbortKeeps DEF IInv
  <2> HIDE DEF x
  <2> QED  BY <2>1, <2>2, <2>3, <2>4, SweptKeeps DEF Kept
<1>6. CASE OtherEnds
  <2>1. Swept(Here) /\ UNCHANGED quiet
    BY <1>6 DEF OtherEnds
  <2>2. Here.lim = lim /\ Here.site = site /\ Here.lane = lane
    BY DEF Here, World
  <2> QED  BY <2>1, <2>2, SweptKeeps DEF IInv
<1> QED  BY <1>1, <1>2, <1>3, <1>4, <1>5, <1>6, AskGood, WakeGood, AnswerGood,
            RefusedGood, LoadGood, TickGood DEF Next

LEMMA StutterGood == ASSUME IInv, UNCHANGED vars PROVE Good
  BY NoStart DEF vars, Good, IInv

\* The invariant holds in every state of every behaviour.
THEOREM Invariant == Spec => []IInv
<1>1. IInv /\ [Next]_vars => IInv'
  BY StepGood, StutterGood DEF Good
<1> QED  BY Starting, <1>1, PTL DEF Spec

\* Two starts are at least the gap apart (Paced).
THEOREM StartsArePaced == Spec => Paced
<1>1. IInv /\ [Next]_vars => [Started => quiet >= lim'.gap]_vars
  BY StepGood, StutterGood DEF Good
<1> QED  BY Invariant, <1>1, PTL DEF Spec, Paced

\* A stop in force runs to its end (StopHolds).
THEOREM StopsHold == Spec => StopHolds
<1>1. IInv /\ [Next]_vars
        => [InForce(site) => site'.stop \in {site.stop, site.stop - 1}]_vars
  BY StepGood, StutterGood DEF Good
<1> QED  BY Invariant, <1>1, PTL DEF Spec, StopHolds

\* A queue that is not empty is looked at again (NoLostWakeup).
THEOREM PumpIsCalled == Spec => []NoLostWakeup
<1>1. IInv => NoLostWakeup
  <2>1. MaxConcurrent(lim) \in {1, 2}
    BY Concurrency
  <2> QED  BY <2>1 DEF IInv, Pace, MayStart, NoLostWakeup
<1> QED  BY Invariant, <1>1, PTL
-----------------------------------------------------------------------------
(* Who may be in the queue, and what a start finds.                        *)

LEMMA NatInd ==
  ASSUME NEW P, 0 \in P, \A n \in Nat : n \in P => n + 1 \in P
  PROVE  Nat \subseteq P
<1> SUFFICES ASSUME ~(Nat \subseteq P) PROVE FALSE
  OBVIOUS
<1> DEFINE T == {n \in Nat : n \notin P}
<1>1. T \subseteq Nat /\ T # {}
  OBVIOUS
<1> HIDE DEF T
<1>2. PICK x \in T : \A y \in T : <<y, x>> \notin OpToRel(<, Nat)
  BY <1>1, NatLessThanWellFounded, WFMin
<1>3. \A y \in T : ~(y < x)
  BY <1>1, <1>2 DEF OpToRel
<1> QED BY <1>1, <1>3 DEF T

\* The recursion of Dropped is that of a function.
LEMMA KeptExists ==
  ASSUME NEW q \in Seq(Lanes), NEW b, NEW N \in Nat
  PROVE  \E f : f = [n \in 0..N |->
           IF n = 0 THEN <<>>
           ELSE IF BatchOf(q[n]) = b THEN f[n - 1] ELSE Append(f[n - 1], q[n])]
<1> DEFINE next(n, s) == IF BatchOf(q[n]) = b THEN s ELSE Append(s, q[n])
           body(M, f) == [n \in 0..M |-> IF n = 0 THEN <<>> ELSE next(n, f[n - 1])]
           P == {M \in Nat : \E f : f = body(M, f)}
<1>1. 0 \in P
  <2> DEFINE g == [n \in 0..0 |-> <<>>]
  <2>1. g = body(0, g)
    OBVIOUS
  <2> QED BY <2>1
<1>2. ASSUME NEW M \in Nat, M \in P PROVE M + 1 \in P
  <2>1. PICK h : h = body(M, h)
    BY <1>2
  <2> DEFINE g == [n \in 0..(M + 1) |-> IF n = M + 1 THEN next(M + 1, h[M]) ELSE h[n]]
  <2> HIDE DEF next
  <2>2. \A n \in 0..M : h[n] = IF n = 0 THEN <<>> ELSE next(n, h[n - 1])
    BY <2>1
  <2>3. ASSUME NEW n \in 0..(M + 1)
        PROVE  g[n] = IF n = 0 THEN <<>> ELSE next(n, g[n - 1])
    <3>1. CASE n = M + 1
      <4>1. n - 1 = M /\ n - 1 \in 0..(M + 1) /\ n - 1 # M + 1 /\ n # 0
        BY <3>1
      <4>2. g[n - 1] = h[M] /\ g[n] = next(M + 1, h[M])
        BY <3>1, <4>1
      <4> QED BY <3>1, <4>1, <4>2
    <3>2. CASE n # M + 1
      <4>1. n \in 0..M /\ g[n] = h[n]
        BY <3>2
      <4>2. ASSUME n # 0 PROVE g[n - 1] = h[n - 1]
        BY <4>1, <4>2
      <4> QED BY <2>2, <4>1, <4>2
    <3> QED BY <3>1, <3>2
  <2>4. g = body(M + 1, g)
    <3>1. g = [n \in 0..(M + 1) |-> g[n]]
      OBVIOUS
    <3> HIDE DEF g
    <3> QED BY <2>3, <3>1
  <2>5. \E f : f = body(M + 1, f)
    <3> HIDE DEF body, g
    <3> QED BY <2>4
  <2> HIDE DEF body
  <2> QED BY <2>5
<1> HIDE DEF P
<1>3. N \in P
  BY <1>1, <1>2, NatInd
<1> QED BY <1>3 DEF P

\* What is left of a queue was in it, and is of no task of the batch.
LEMMA DroppedFacts ==
  ASSUME NEW q \in Seq(Lanes), NEW b
  PROVE  /\ Dropped(q, b) \in Seq(Lanes)
         /\ \A i \in 1..Len(Dropped(q, b)) :
              /\ BatchOf(Dropped(q, b)[i]) # b
              /\ \E j \in 1..Len(q) : Dropped(q, b)[i] = q[j]
<1> DEFINE body(f) == [n \in 0..Len(q) |->
             IF n = 0 THEN <<>>
             ELSE IF BatchOf(q[n]) = b THEN f[n - 1] ELSE Append(f[n - 1], q[n])]
           kept == CHOOSE f : f = body(f)
           Good1(s) == /\ s \in Seq(Lanes)
                       /\ \A i \in 1..Len(s) : /\ BatchOf(s[i]) # b
                                               /\ \E j \in 1..Len(q) : s[i] = q[j]
           P == {n \in Nat : n <= Len(q) => Good1(kept[n])}
<1>0. Len(q) \in Nat
  OBVIOUS
<1>1. \E f : f = body(f)
  BY <1>0, KeptExists
<1>2. Dropped(q, b) = kept[Len(q)]
  BY DEF Dropped
<1> HIDE DEF kept
<1>3. kept = body(kept)
  BY <1>1 DEF kept
<1>4. /\ kept[0] = <<>>
      /\ \A n \in 1..Len(q) :
           kept[n] = IF BatchOf(q[n]) = b THEN kept[n - 1] ELSE Append(kept[n - 1], q[n])
  <2>1. PICK N \in Nat : N = Len(q)
    BY <1>0
  <2>2. kept = [n \in 0..N |->
             IF n = 0 THEN <<>>
             ELSE IF BatchOf(q[n]) = b THEN kept[n - 1] ELSE Append(kept[n - 1], q[n])]
    BY <1>3, <2>1
  <2>3. 0 \in 0..N /\ \A n \in 1..N : n \in 0..N /\ n # 0
    BY <2>1
  <2> QED BY <2>1, <2>2, <2>3
<1>5. 0 \in P
  <2>1. Good1(<<>>)
    OBVIOUS
  <2> QED BY <1>4, <2>1
<1>6. ASSUME NEW n \in Nat, n \in P PROVE n + 1 \in P
  <2> SUFFICES ASSUME n + 1 <= Len(q) PROVE Good1(kept[n + 1])
    OBVIOUS
  <2>1. n + 1 \in 1..Len(q) /\ (n + 1) - 1 = n /\ n <= Len(q)
    OBVIOUS
  <2>2. PICK m \in 1..Len(q) : m = n + 1 /\ m - 1 = n
    BY <2>1
  <2>3. PICK s : s = kept[n]
    OBVIOUS
  <2>4. Good1(s)
    BY <1>6, <2>1, <2>3
  <2>5. kept[m] = IF BatchOf(q[m]) = b THEN s ELSE Append(s, q[m])
    BY <1>4, <2>2, <2>3
  <2>6. CASE BatchOf(q[m]) = b
    BY <2>2, <2>4, <2>5, <2>6
  <2>7. CASE BatchOf(q[m]) # b
    <3>1. PICK t : t = Append(s, q[m])
      OBVIOUS
    <3>2. /\ t \in Seq(Lanes) /\ Len(t) = Len(s) + 1
          /\ \A i \in 1..Len(s) : t[i] = s[i]
          /\ t[Len(s) + 1] = q[m]
      BY <2>4, <3>1
    <3>3. Good1(t)
      BY <2>4, <2>7, <3>2
    <3> QED BY <2>2, <2>5, <2>7, <3>1, <3>3
  <2> QED BY <2>6, <2>7
<1> HIDE DEF P
<1>7. Len(q) \in P /\ Len(q) \in Nat
  BY <1>5, <1>6, NatInd
<1>8. Good1(kept[Len(q)])
  BY <1>7 DEF P
<1> QED BY <1>2, <1>8
BatchStates == [on : BOOLEAN, rules : {"unread", "asked", "read", "none"},
                delay : {0} \union Delays, spent : BOOLEAN, aborted : BOOLEAN]

\* No task of an aborted batch is queued, and a batch that goes on is aborted only by its
\* budget, so that it asks for no more.
QueueOK(x) ==
  /\ x.batch \in [Batches -> BatchStates]
  /\ x.lim.queue \in Seq(Lanes)
  /\ \A i \in 1..Len(x.lim.queue) : ~x.batch[BatchOf(x.lim.queue[i])].aborted
  /\ \A b \in Batches : x.batch[b].on /\ x.batch[b].aborted => x.batch[b].spent

QueueInv == QueueOK(Here)

\* From x to y no lane begins to send, and no batch gets back what it lost.
Quieter(x, y) ==
  /\ \A l \in Lanes : y.lane[l] = "sent" => x.lane[l] = "sent"
  /\ \A b \in Batches : /\ x.batch[b].spent => y.batch[b].spent
                        /\ x.batch[b].aborted => y.batch[b].aborted

\* From x to y a lane begins to send only where x allows it.
Allowed(x, y) ==
  \A l \in Lanes : x.lane[l] # "sent" /\ y.lane[l] = "sent" =>
    /\ ~InForce(x.site)
    /\ ~x.batch[BatchOf(l)].spent
    /\ ~x.batch[BatchOf(l)].aborted

LEMMA LanesAreOfBatches == \A l \in Lanes : BatchOf(l) \in Batches
  BY PaceAssumption DEF BatchOf

\* A batch that may not ask again is aborted: its tasks are gone.
LEMMA AbortQueue ==
  ASSUME NEW x, NEW b \in Batches, NEW q, Pace(x.lim, q), QueueOK(x),
         x.batch[b].spent \/ ~x.batch[b].on, x.lane \in [Lanes -> Phases]
  PROVE  QueueOK(Abort(x, b)) /\ Quieter(x, Abort(x, b))
<1> DEFINE y == Abort(x, b)
<1>1. /\ y.batch = [x.batch EXCEPT ![b].aborted = TRUE]
      /\ y.lim = [x.lim EXCEPT !.queue = Dropped(x.lim.queue, b)]
      /\ y.lane = LeaveQueue(x.lane, b)
  BY DEF Abort, World
<1> HIDE DEF y
<1>2. PICK d : d = Dropped(x.lim.queue, b)
  OBVIOUS
<1>3. y.lim.queue = d
  BY <1>1, <1>2 DEF Pace
<1>4. /\ d \in Seq(Lanes)
      /\ \A i \in 1..Len(d) : BatchOf(d[i]) # b /\ \E j \in 1..Len(x.lim.queue) : d[i] = x.lim.queue[j]
  BY <1>2, DroppedFacts DEF QueueOK
<1>5. /\ y.batch \in [Batches -> BatchStates]
      /\ \A c \in Batches : /\ y.batch[c].spent = x.batch[c].spent
                            /\ y.batch[c].on = x.batch[c].on
                            /\ c # b => y.batch[c] = x.batch[c]
                            /\ x.batch[c].aborted => y.batch[c].aborted
  <2>1. PICK s : s = [x.batch[b] EXCEPT !.aborted = TRUE]
    OBVIOUS
  <2>2. x.batch \in [Batches -> BatchStates]
    BY DEF QueueOK
  <2>3. s \in BatchStates /\ s.spent = x.batch[b].spent /\ s.on = x.batch[b].on /\ s.aborted
    BY <2>1, <2>2 DEF BatchStates
  <2>4. y.batch = [x.batch EXCEPT ![b] = s]
    BY <1>1, <2>1
  <2> QED BY <2>2, <2>3, <2>4
<1>6. ASSUME NEW i \in 1..Len(d) PROVE ~y.batch[BatchOf(d[i])].aborted
  <2>1. PICK j \in 1..Len(x.lim.queue) : d[i] = x.lim.queue[j]
    BY <1>4
  <2>2. d[i] \in Lanes /\ BatchOf(d[i]) \in Batches /\ BatchOf(d[i]) # b
    BY <1>4, LanesAreOfBatches
  <2> QED BY <1>5, <2>1, <2>2 DEF QueueOK
<1>7. ASSUME NEW c \in Batches, y.batch[c].on, y.batch[c].aborted PROVE y.batch[c].spent
  BY <1>5, <1>7 DEF QueueOK
<1>8. QueueOK(y)
  BY <1>3, <1>4, <1>5, <1>6, <1>7 DEF QueueOK
<1>9. Quieter(x, y)
  BY <1>1, <1>5 DEF Quieter, LeaveQueue, Phases
<1> QED BY <1>8, <1>9 DEF y

LEMMA SpendQueue ==
  ASSUME NEW x, NEW b \in Batches, NEW q, Pace(x.lim, q), QueueOK(x),
         x.lane \in [Lanes -> Phases]
  PROVE  QueueOK(Spend(x, b)) /\ Quieter(x, Spend(x, b))
<1> DEFINE bt == [x.batch EXCEPT ![b].spent = TRUE]
           w == World(x.lim, x.site, x.lane, bt)
<1>1. w.lim = x.lim /\ w.lane = x.lane /\ w.batch = bt
  BY DEF World
<1>2. Spend(x, b) = Abort(w, b)
  BY DEF Spend
<1>3. /\ bt \in [Batches -> BatchStates] /\ bt[b].spent
      /\ \A c \in Batches : /\ bt[c].aborted = x.batch[c].aborted
                            /\ x.batch[c].spent => bt[c].spent
                            /\ bt[c].on = x.batch[c].on
  BY DEF QueueOK, BatchStates
<1> HIDE DEF w, bt
<1>4. QueueOK(w)
  <2>1. \A i \in 1..Len(x.lim.queue) : BatchOf(x.lim.queue[i]) \in Batches
    BY LanesAreOfBatches DEF QueueOK
  <2> QED BY <1>1, <1>3, <2>1 DEF QueueOK
<1>5. QueueOK(Abort(w, b)) /\ Quieter(w, Abort(w, b))
  BY <1>1, <1>3, <1>4, AbortQueue
<1> QED BY <1>1, <1>2, <1>3, <1>5 DEF Quieter

\* The task at the head is let through only where nothing forbids it now.
LEMMA StartQueue ==
  ASSUME NEW x, NEW over, NEW q, Pace(x.lim, q), QueueOK(x), SiteOK(x.site),
         x.lane \in [Lanes -> Phases], x.lim.queue # <<>>
  PROVE  QueueOK(Start(x, over)) /\ Allowed(x, Start(x, over))
<1> DEFINE l == Head(x.lim.queue)
           s == StopRead(x.site)
           to(phase) == World(UseStart(x.lim), s, [x.lane EXCEPT ![l] = phase], x.batch)
<1>1. l \in Lanes /\ BatchOf(l) \in Batches /\ ~x.batch[BatchOf(l)].aborted
  <2>1. l = x.lim.queue[1] /\ 1 \in 1..Len(x.lim.queue)
    BY DEF QueueOK
  <2> QED BY <2>1, LanesAreOfBatches DEF QueueOK
<1>2. ASSUME NEW p \in {"sent", "refused"}
      PROVE  /\ QueueOK(to(p)) /\ Pace(to(p).lim, 0)
             /\ to(p).lane = [x.lane EXCEPT ![l] = p] /\ to(p).batch = x.batch
  <2>1. to(p).lim = UseStart(x.lim) /\ to(p).batch = x.batch
        /\ to(p).lane = [x.lane EXCEPT ![l] = p]
    BY DEF World
  <2> HIDE DEF to
  <2>2. UseStart(x.lim).queue = Tail(x.lim.queue)
    BY DEF UseStart, Pace
  <2>3. PICK t : t = Tail(x.lim.queue)
    OBVIOUS
  <2>4. t \in Seq(Lanes) /\ \A i \in 1..Len(t) : i + 1 \in 1..Len(x.lim.queue) /\ t[i] = x.lim.queue[i + 1]
    BY <2>3 DEF QueueOK
  <2>5. QueueOK(to(p))
    BY <2>1, <2>2, <2>3, <2>4 DEF QueueOK
  <2>6. Pace(UseStart(x.lim), 0)
    BY UseStartKeeps
  <2> QED BY <2>1, <2>5, <2>6
<1>3. InForce(s) = InForce(x.site)
  BY StopReadKeeps
<1> HIDE DEF to, s, l
<1>4. \A p \in {"sent", "refused"} : to(p).lane \in [Lanes -> Phases]
  BY <1>1, <1>2 DEF Phases
<1>5. CASE InForce(s) \/ x.batch[BatchOf(l)].spent
  <2>1. Start(x, over) = to("refused")
    BY <1>5 DEF Start, to, s, l
  <2>2. Allowed(x, to("refused"))
    BY <1>2 DEF Allowed
  <2> QED BY <1>2, <2>1, <2>2
<1>6. CASE ~(InForce(s) \/ x.batch[BatchOf(l)].spent) /\ over
  <2>1. Start(x, over) = Spend(to("refused"), BatchOf(l))
    BY <1>6 DEF Start, to, s, l
  <2>2. PICK y : y = Spend(to("refused"), BatchOf(l))
    OBVIOUS
  <2>3. QueueOK(y) /\ Quieter(to("refused"), y)
    BY <1>1, <1>2, <1>4, <2>2, SpendQueue
  <2>4. Allowed(x, y)
    BY <1>2, <2>3 DEF Allowed, Quieter
  <2> QED BY <2>1, <2>2, <2>3, <2>4
<1>7. CASE ~(InForce(s) \/ x.batch[BatchOf(l)].spent) /\ ~over
  <2>1. Start(x, over) = to("sent")
    BY <1>7 DEF Start, to, s, l
  <2>2. Allowed(x, to("sent"))
    BY <1>1, <1>2, <1>3, <1>7 DEF Allowed
  <2> QED BY <1>2, <2>1, <2>2
<1> QED BY <1>5, <1>6, <1>7

LEMMA SleepQueue ==
  ASSUME NEW x, NEW q, Pace(x.lim, q)
  PROVE  LET y == Sleep(x)
         IN  y.lim.queue = x.lim.queue /\ y.lane = x.lane /\ y.batch = x.batch
  BY DEF Sleep, World, Pace

LEMMA PumpQueue ==
  ASSUME NEW x, NEW over, NEW q, Pace(x.lim, q), QueueOK(x), SiteOK(x.site),
         x.lane \in [Lanes -> Phases]
  PROVE  QueueOK(Pump(x, over)) /\ Allowed(x, Pump(x, over))
<1>1. ASSUME NEW w, Pace(w.lim, 0) \/ Pace(w.lim, q), QueueOK(w), Allowed(x, w)
      PROVE  QueueOK(Sleep(w)) /\ Allowed(x, Sleep(w))
  <2>1. PICK y : y = Sleep(w)
    OBVIOUS
  <2>2. y.lim.queue = w.lim.queue /\ y.lane = w.lane /\ y.batch = w.batch
    BY <1>1, <2>1, SleepQueue
  <2>3. QueueOK(y) /\ Allowed(x, y)
    BY <1>1, <2>2 DEF QueueOK, Allowed
  <2> QED BY <2>1, <2>3
<1>2. CASE Starts(x.lim)
  <2>1. Pump(x, over) = Sleep(Start(x, over)) /\ x.lim.queue # <<>>
    BY <1>2 DEF Pump, Starts, MayStart
  <2>2. Pace(Start(x, over).lim, 0)
    BY StartKeeps
  <2>3. QueueOK(Start(x, over)) /\ Allowed(x, Start(x, over))
    BY <2>1, StartQueue
  <2> QED BY <1>1, <2>1, <2>2, <2>3
<1>3. CASE ~Starts(x.lim)
  <2>1. Pump(x, over) = Sleep(x) /\ Allowed(x, x)
    BY <1>3 DEF Pump, Allowed
  <2> QED BY <1>1, <2>1
<1> QED BY <1>2, <1>3

\* What every step has to keep of it.
SendStep == \A l \in Lanes : Sent(l) => /\ ~InForce(site)
                                        /\ ~batch[BatchOf(l)].spent
                                        /\ ~batch[BatchOf(l)].aborted

LEMMA PumpedQueue ==
  ASSUME NEW x, NEW over, Pumped(x, over), Pace(x.lim, quiet), QueueOK(x), SiteOK(x.site),
         x.lane \in [Lanes -> Phases], Quieter(Here, x),
         InForce(site) => x.site.stop = site.stop
  PROVE  QueueInv' /\ SendStep
<1>1. PICK y : y = Pump(x, over)
  OBVIOUS
<1>2. QueueOK(y) /\ Allowed(x, y)
  BY <1>1, PumpQueue
<1>3. lim' = y.lim /\ site' = y.site /\ lane' = y.lane /\ batch' = y.batch
  BY <1>1 DEF Pumped, Becomes
<1>4. QueueInv'
  BY <1>2, <1>3 DEF QueueInv, QueueOK, Here, World
<1>5. SendStep
  <2>1. Here.lane = lane /\ Here.batch = batch
    BY DEF Here, World
  <2>2. InForce(site) => InForce(x.site)
    BY DEF InForce
  <2> SUFFICES ASSUME NEW l \in Lanes, lane[l] # "sent", y.lane[l] = "sent"
               PROVE  ~InForce(site) /\ ~batch[BatchOf(l)].spent /\ ~batch[BatchOf(l)].aborted
    BY <1>3 DEF SendStep, Sent
  <2>3. x.lane[l] # "sent"
    BY <2>1 DEF Quieter
  <2>4. ~InForce(x.site) /\ ~x.batch[BatchOf(l)].spent /\ ~x.batch[BatchOf(l)].aborted
    BY <1>2, <2>3 DEF Allowed
  <2> QED BY <2>1, <2>2, <2>4, LanesAreOfBatches DEF Quieter
<1> QED BY <1>4, <1>5

\* A step that sends nothing, and leaves the queue as it was or has none.
LEMMA StillQueue ==
  ASSUME QueueInv, lim'.queue = lim.queue \/ lim'.queue = <<>>,
         batch' \in [Batches -> BatchStates],
         \A l \in Lanes : lane'[l] = "sent" => lane[l] = "sent",
         \A b \in Batches : /\ batch'[b].aborted => batch[b].aborted
                            /\ batch'[b].on /\ batch'[b].aborted => batch'[b].spent
  PROVE  QueueInv' /\ SendStep
<1>1. SendStep
  BY DEF SendStep, Sent
<1>2. QueueOK(Here) /\ Here.lim = lim /\ Here.batch = batch
  BY DEF QueueInv, Here, World
<1>3. \A i \in 1..Len(lim.queue) : BatchOf(lim.queue[i]) \in Batches
  BY <1>2, LanesAreOfBatches DEF QueueOK
<1>4. lim'.queue \in Seq(Lanes) /\ \A i \in 1..Len(lim'.queue) : ~batch'[BatchOf(lim'.queue[i])].aborted
  <2>1. CASE lim'.queue = lim.queue
    BY <1>2, <1>3, <2>1 DEF QueueOK
  <2>2. CASE lim'.queue = <<>>
    BY <2>2
  <2> QED BY <2>1, <2>2
<1>5. QueueInv'
  BY <1>4 DEF QueueInv, QueueOK, Here, World
<1> QED BY <1>1, <1>5

LEMMA SweptQueue ==
  ASSUME NEW x, Swept(x), QueueOK(x),
         \A l \in Lanes : x.lane[l] = "sent" => lane[l] = "sent"
  PROVE  QueueInv' /\ SendStep
<1>1. /\ lim' = x.lim \/ lim' = NewLimiter
      /\ lane' = x.lane /\ batch' = x.batch
  BY DEF Swept, Becomes, World
<1>2. SendStep
  BY <1>1 DEF SendStep, Sent
<1>3. lim'.queue \in {x.lim.queue, <<>>}
  BY <1>1 DEF NewLimiter
<1>4. CASE lim'.queue = x.lim.queue
  BY <1>1, <1>2, <1>4 DEF QueueOK, QueueInv, Here, World
<1>5. CASE lim'.queue = <<>>
  <2>1. <<>> \in Seq(Lanes) /\ 1..Len(<<>>) = {}
    OBVIOUS
  <2>2. /\ lim'.queue \in Seq(Lanes)
        /\ \A i \in 1..Len(lim'.queue) : ~batch'[BatchOf(lim'.queue[i])].aborted
    BY <1>5, <2>1
  <2> QED BY <1>1, <1>2, <2>2 DEF QueueOK, QueueInv, Here, World
<1> QED BY <1>3, <1>4, <1>5

LEMMA HereIs ==
  /\ Here.lim = lim /\ Here.site = site /\ Here.lane = lane /\ Here.batch = batch
  /\ QueueInv <=> QueueOK(Here)
BY DEF Here, World, QueueInv

WithRules(b, r) == [batch EXCEPT ![b].rules = r]
WithDelay(b, d) == [batch EXCEPT ![b].rules = "read", ![b].delay = d]

\* A batch's rules and its Crawl-delay have no part in it.
Unmoved(bt) ==
  /\ bt \in [Batches -> BatchStates]
  /\ \A c \in Batches : /\ bt[c].on = batch[c].on /\ bt[c].spent = batch[c].spent
                        /\ bt[c].aborted = batch[c].aborted

LEMMA RulesChange ==
  ASSUME QueueInv, NEW b \in Batches
  PROVE  /\ \A r \in {"unread", "asked", "read", "none"} : Unmoved(WithRules(b, r))
         /\ \A d \in {0} \union Delays : Unmoved(WithDelay(b, d))
<1>1. batch \in [Batches -> BatchStates]
  BY HereIs DEF QueueOK
<1>2. ASSUME NEW r \in {"unread", "asked", "read", "none"} PROVE Unmoved(WithRules(b, r))
  BY <1>1 DEF Unmoved, WithRules, BatchStates
<1>3. ASSUME NEW d \in {0} \union Delays PROVE Unmoved(WithDelay(b, d))
  BY <1>1 DEF Unmoved, WithDelay, BatchStates
<1> QED BY <1>2, <1>3

LEMMA AskQueue ==
  ASSUME IInv, QueueInv, NEW l \in Lanes, NEW over \in BOOLEAN, Ask(l, over)
  PROVE  QueueInv' /\ SendStep
<1> DEFINE b == BatchOf(l)
           s == StopRead(site)
           robots == batch[b].rules = "unread"
           none == [batch EXCEPT ![b].rules = IF robots THEN "none" ELSE @]
           bt == [batch EXCEPT ![b].rules = IF robots THEN "asked" ELSE @]
           x == World([lim EXCEPT !.queue = Append(@, l)], s, [lane EXCEPT ![l] = "queued"], bt)
<1>1. b \in Batches /\ batch \in [Batches -> BatchStates]
  BY LanesAreOfBatches, HereIs DEF QueueOK
<1>2. batch[b].rules \in {"unread", "asked", "read", "none"}
  BY <1>1 DEF BatchStates
<1>3. CASE InForce(s) \/ batch[b].spent
  <2>1. batch' = none /\ UNCHANGED <<lim, lane>>
    BY <1>3 DEF Ask
  <2>2. /\ none \in [Batches -> BatchStates]
        /\ \A c \in Batches : /\ none[c].on = batch[c].on /\ none[c].spent = batch[c].spent
                              /\ none[c].aborted = batch[c].aborted
    <3>1. PICK r \in {"unread", "asked", "read", "none"} : r = IF robots THEN "none" ELSE batch[b].rules
      BY <1>2
    <3>2. none = WithRules(b, r)
      BY <3>1 DEF WithRules
    <3> HIDE DEF none
    <3> QED BY <1>1, <3>2, RulesChange DEF Unmoved
  <2> HIDE DEF none
  <2> QED BY <2>1, <2>2, StillQueue, HereIs DEF QueueOK
<1>4. CASE ~(InForce(s) \/ batch[b].spent)
  <2>1. Pumped(x, over) /\ batch[b].on
    BY <1>4 DEF Ask
  <2>2. x.site = s /\ x.lane = [lane EXCEPT ![l] = "queued"] /\ x.batch = bt
        /\ x.lim = [lim EXCEPT !.queue = Append(lim.queue, l)]
    BY DEF World
  <2>3. /\ bt \in [Batches -> BatchStates]
        /\ \A c \in Batches : /\ bt[c].on = batch[c].on /\ bt[c].spent = batch[c].spent
                              /\ bt[c].aborted = batch[c].aborted
    <3>1. PICK r \in {"unread", "asked", "read", "none"} : r = IF robots THEN "asked" ELSE batch[b].rules
      BY <1>2
    <3>2. bt = WithRules(b, r)
      BY <3>1 DEF WithRules
    <3> HIDE DEF bt
    <3> QED BY <1>1, <3>2, RulesChange DEF Unmoved
  <2> HIDE DEF x, bt
  <2>4. ~bt[b].aborted
    BY <1>1, <1>4, <2>1, <2>3, HereIs DEF QueueOK
  <2>5. PICK t : t = Append(lim.queue, l)
    OBVIOUS
  <2>6. x.lim.queue = t /\ Pace(x.lim, quiet)
    BY <2>2, <2>5 DEF IInv, Pace
  <2>7. /\ t \in Seq(Lanes)
        /\ \A i \in 1..Len(t) : t[i] = l \/ (i \in 1..Len(lim.queue) /\ t[i] = lim.queue[i])
    BY <2>5, HereIs DEF QueueOK
  <2>8. \A i \in 1..Len(t) : ~bt[BatchOf(t[i])].aborted
    <3> SUFFICES ASSUME NEW i \in 1..Len(t), t[i] # l PROVE ~bt[BatchOf(t[i])].aborted
      BY <2>4
    <3>1. i \in 1..Len(lim.queue) /\ t[i] = lim.queue[i] /\ t[i] \in Lanes
      BY <2>7
    <3>2. BatchOf(t[i]) \in Batches
      BY <3>1, LanesAreOfBatches
    <3> QED BY <2>3, <3>1, <3>2, HereIs DEF QueueOK
  <2>9. QueueOK(x)
    BY <2>2, <2>3, <2>6, <2>7, <2>8, HereIs DEF QueueOK
  <2>10. SiteOK(s) /\ (InForce(site) => s.stop = site.stop)
    BY StopReadKeeps DEF IInv
  <2>11. x.lane \in [Lanes -> Phases] /\ \A k \in Lanes : x.lane[k] = "sent" => lane[k] = "sent"
    BY <2>2 DEF IInv, Phases
  <2>12. Quieter(Here, x)
    BY <2>2, <2>3, <2>11, HereIs DEF Quieter
  <2> HIDE DEF s
  <2> QED BY <2>1, <2>2, <2>6, <2>9, <2>10, <2>11, <2>12, PumpedQueue
<1> QED BY <1>3, <1>4

LEMMA AnswerQueue ==
  ASSUME IInv, QueueInv, NEW l \in Lanes, NEW is429 \in BOOLEAN, NEW cut \in BOOLEAN,
         NEW over \in BOOLEAN, Answer(l, is429, cut, over)
  PROVE  QueueInv' /\ SendStep
<1> DEFINE s == IF is429 THEN Record429(site) ELSE site
           x == World(lim, s, [lane EXCEPT ![l] = "fetched"], batch)
           y == IF cut THEN Spend(x, BatchOf(l)) ELSE x
           z == World(Freed(y.lim, age[l]), y.site, y.lane, y.batch)
<1>1. Pumped(z, over)
  BY DEF Answer
<1>2. SiteOK(s) /\ (InForce(site) => s.stop = site.stop)
  BY CountKeeps DEF IInv
<1>3. x.lim = lim /\ x.site = s /\ x.lane = [lane EXCEPT ![l] = "fetched"] /\ x.batch = batch
  BY DEF World
<1> HIDE DEF x, s
<1>4. x.lane \in [Lanes -> Phases] /\ Pace(x.lim, quiet) /\ Quieter(Here, x) /\ QueueOK(x)
  <2>1. x.lane \in [Lanes -> Phases] /\ Pace(x.lim, quiet)
    BY <1>3 DEF IInv, Phases
  <2>2. Quieter(Here, x)
    BY <1>3, HereIs DEF Quieter, IInv
  <2>3. QueueOK(x)
    BY <1>3, HereIs DEF QueueOK
  <2> QED BY <2>1, <2>2, <2>3
<1>5. /\ QueueOK(y) /\ Quieter(x, y) /\ y.site = s
      /\ y.lane \in [Lanes -> Phases] /\ Pace(y.lim, quiet)
  <2>1. CASE cut
    <3>1. QueueOK(Spend(x, BatchOf(l))) /\ Quieter(x, Spend(x, BatchOf(l)))
      BY <1>4, LanesAreOfBatches, SpendQueue
    <3>2. LET w == Spend(x, BatchOf(l))
          IN  Pace(w.lim, quiet) /\ w.lane \in [Lanes -> Phases] /\ w.site = x.site
      BY <1>4, SpendKeeps
    <3> QED BY <1>3, <2>1, <3>1, <3>2
  <2>2. CASE ~cut
    BY <1>3, <1>4, <2>2 DEF Quieter
  <2> QED BY <2>1, <2>2
<1> HIDE DEF y
<1>6. z.lim = Freed(y.lim, age[l]) /\ z.site = s /\ z.lane = y.lane /\ z.batch = y.batch
  BY <1>5 DEF World
<1> HIDE DEF z
<1>7. Pace(z.lim, quiet) /\ z.lim.queue = y.lim.queue
  <2>1. Pace(z.lim, quiet)
    BY <1>5, <1>6, FreedKeeps
  <2>2. z.lim.queue = y.lim.queue
    BY <1>5, <1>6 DEF Freed, Pace
  <2> QED BY <2>1, <2>2
<1>8. QueueOK(z)
  BY <1>5, <1>6, <1>7 DEF QueueOK
<1>9. Quieter(Here, z)
  BY <1>4, <1>5, <1>6 DEF Quieter
<1> QED BY <1>1, <1>2, <1>5, <1>6, <1>7, <1>8, <1>9, PumpedQueue

LEMMA RefusedQueue ==
  ASSUME IInv, QueueInv, NEW l \in Lanes, NEW over \in BOOLEAN, Refused(l, over)
  PROVE  QueueInv' /\ SendStep
<1> DEFINE b == BatchOf(l)
           bt == [batch EXCEPT ![b].rules = IF @ = "asked" THEN "none" ELSE @]
           z == World(Freed(lim, 0), site, [lane EXCEPT ![l] = "idle"], bt)
<1>1. Pumped(z, over)
  BY DEF Refused
<1>2. z.lim = Freed(lim, 0) /\ z.site = site /\ z.lane = [lane EXCEPT ![l] = "idle"]
      /\ z.batch = bt
  BY DEF World
<1>3. /\ bt \in [Batches -> BatchStates]
      /\ \A c \in Batches : /\ bt[c].on = batch[c].on /\ bt[c].spent = batch[c].spent
                            /\ bt[c].aborted = batch[c].aborted
  <2>1. b \in Batches /\ batch \in [Batches -> BatchStates]
    BY LanesAreOfBatches, HereIs DEF QueueOK
  <2>2. batch[b].rules \in {"unread", "asked", "read", "none"}
    BY <2>1 DEF BatchStates
  <2>3. PICK r \in {"unread", "asked", "read", "none"} :
          r = IF batch[b].rules = "asked" THEN "none" ELSE batch[b].rules
    BY <2>2
  <2>4. bt = WithRules(b, r)
    BY <2>3 DEF WithRules
  <2> HIDE DEF bt
  <2> QED BY <2>1, <2>4, RulesChange DEF Unmoved
<1> HIDE DEF z, bt
<1>4. Pace(z.lim, quiet) /\ z.lim.queue = lim.queue
  <2>1. Pace(z.lim, quiet)
    BY <1>2, FreedKeeps DEF IInv
  <2>2. z.lim.queue = lim.queue
    BY <1>2 DEF Freed, Pace, IInv
  <2> QED BY <2>1, <2>2
<1>5. z.lane \in [Lanes -> Phases] /\ \A k \in Lanes : z.lane[k] = "sent" => lane[k] = "sent"
  BY <1>2 DEF IInv, Phases
<1>6. QueueOK(z)
  <2>1. \A i \in 1..Len(lim.queue) : BatchOf(lim.queue[i]) \in Batches
    BY LanesAreOfBatches, HereIs DEF QueueOK
  <2> QED BY <1>2, <1>3, <1>4, <2>1, HereIs DEF QueueOK
<1>7. Quieter(Here, z)
  BY <1>2, <1>3, <1>5, HereIs DEF Quieter
<1> QED BY <1>1, <1>2, <1>4, <1>5, <1>6, <1>7, PumpedQueue DEF IInv

LEMMA EndQueue == ASSUME QueueInv, NEW b \in Batches, End(b) PROVE QueueInv' /\ SendStep
<1> DEFINE bt == [batch EXCEPT ![b] = Ended]
           x == World(lim, site, lane, bt)
<1>1. Swept(x)
  BY DEF End
<1>2. x.lim = lim /\ x.lane = lane /\ x.batch = bt
  BY DEF World
<1>3. bt \in [Batches -> BatchStates] /\ ~bt[b].aborted
      /\ \A c \in Batches : c # b => bt[c] = batch[c]
  BY HereIs DEF QueueOK, BatchStates, Ended, NewBatch
<1> HIDE DEF x, bt
<1>4. \A i \in 1..Len(lim.queue) : BatchOf(lim.queue[i]) \in Batches
  BY LanesAreOfBatches, HereIs DEF QueueOK
<1>5. QueueOK(x)
  BY <1>2, <1>3, <1>4, HereIs DEF QueueOK
<1> QED BY <1>1, <1>2, <1>5, SweptQueue

LEMMA FailQueue ==
  ASSUME IInv, QueueInv, NEW l \in Lanes, Fail(l) PROVE QueueInv' /\ SendStep
<1> DEFINE b == BatchOf(l)
           bt == [batch EXCEPT ![b].on = FALSE]
           w == World(lim, site, [lane EXCEPT ![l] = "idle"], bt)
           x == Abort(w, b)
<1>1. Swept(x)
  BY DEF Fail
<1>2. w.lim = lim /\ w.lane = [lane EXCEPT ![l] = "idle"] /\ w.batch = bt
  BY DEF World
<1>3. /\ bt \in [Batches -> BatchStates] /\ b \in Batches /\ ~bt[b].on
      /\ \A c \in Batches : /\ bt[c].spent = batch[c].spent
                            /\ bt[c].aborted = batch[c].aborted
                            /\ bt[c].on => batch[c].on
  <2>1. b \in Batches /\ batch \in [Batches -> BatchStates]
    BY LanesAreOfBatches, HereIs DEF QueueOK
  <2> HIDE DEF b
  <2> QED BY <2>1 DEF BatchStates
<1> HIDE DEF w, x, bt
<1>4. \A i \in 1..Len(lim.queue) : BatchOf(lim.queue[i]) \in Batches
  BY LanesAreOfBatches, HereIs DEF QueueOK
<1>5. QueueOK(w)
  BY <1>2, <1>3, <1>4, HereIs DEF QueueOK
<1>6. w.lane \in [Lanes -> Phases] /\ \A k \in Lanes : w.lane[k] = "sent" => lane[k] = "sent"
  BY <1>2 DEF IInv, Phases
<1>7. QueueOK(x) /\ Quieter(w, x)
  BY <1>2, <1>3, <1>5, <1>6, AbortQueue DEF IInv, x
<1> QED BY <1>1, <1>6, <1>7, SweptQueue DEF Quieter

\* Every step keeps the queue in order, and sends only what is allowed.
LEMMA StepQueue == ASSUME IInv, QueueInv, [Next]_vars PROVE QueueInv' /\ SendStep
<1>0. QueueOK(Here) /\ Here.batch = batch /\ Here.lane = lane
  BY HereIs
<1>1. ASSUME NEW b \in Batches, Begin(b) PROVE QueueInv' /\ SendStep
  <2>1. batch' = [batch EXCEPT ![b] = NewBatch] /\ UNCHANGED <<lim, lane>>
    BY <1>1 DEF Begin
  <2>2. batch' \in [Batches -> BatchStates] /\ ~batch'[b].aborted
        /\ \A c \in Batches : c # b => batch'[c] = batch[c]
    BY <1>0, <2>1 DEF QueueOK, BatchStates, NewBatch
  <2> QED BY <1>0, <2>1, <2>2, StillQueue DEF QueueOK
<1>2. ASSUME NEW over \in BOOLEAN, Wake(over) PROVE QueueInv' /\ SendStep
  <2> DEFINE x == World([lim EXCEPT !.nap = Awake], site, lane, batch)
  <2>1. Pumped(x, over)
    BY <1>2 DEF Wake
  <2>2. x.site = site /\ x.lane = lane /\ x.batch = batch /\ x.lim = [lim EXCEPT !.nap = Awake]
    BY DEF World
  <2> HIDE DEF x
  <2>3. Pace(x.lim, quiet) /\ x.lim.queue = lim.queue
    BY <2>2 DEF IInv, Pace, Awake
  <2>4. QueueOK(x) /\ Quieter(Here, x)
    BY <2>2, <2>3, HereIs DEF QueueOK, Quieter
  <2> QED BY <2>1, <2>2, <2>3, <2>4, PumpedQueue DEF IInv
<1>3. ASSUME NEW b \in Batches, NEW d \in {0} \union Delays, LoadRules(b, d)
      PROVE  QueueInv' /\ SendStep
  <2>1. /\ batch' = [batch EXCEPT ![b].rules = "read", ![b].delay = d]
        /\ lane' = [l \in Lanes |-> IF BatchOf(l) = b THEN "idle" ELSE lane[l]]
        /\ lim' = lim \/ lim' = RaiseGap(lim, d)
    BY <1>3 DEF LoadRules
  <2>2. RaiseGap(lim, d).queue = lim.queue
    BY DEF RaiseGap, IInv, Pace
  <2>3. \A l \in Lanes : lane'[l] = "sent" => lane[l] = "sent"
    BY <2>1
  <2>4. /\ batch' \in [Batches -> BatchStates]
        /\ \A c \in Batches : /\ batch'[c].on = batch[c].on /\ batch'[c].spent = batch[c].spent
                              /\ batch'[c].aborted = batch[c].aborted
    <3>1. batch' = WithDelay(b, d)
      BY <2>1 DEF WithDelay
    <3> QED BY <3>1, RulesChange DEF Unmoved
  <2> QED BY <1>0, <2>1, <2>2, <2>3, <2>4, StillQueue DEF QueueOK
<1>4. ASSUME UNCHANGED <<lim, batch>>, \A l \in Lanes : lane'[l] = "sent" => lane[l] = "sent"
      PROVE  QueueInv' /\ SendStep
  BY <1>0, <1>4, StillQueue DEF QueueOK
<1>5. ASSUME NEW l \in Lanes, NEW challenged \in BOOLEAN, RecordPage(l, challenged)
      PROVE  QueueInv' /\ SendStep
  <2>1. \A k \in Lanes : lane'[k] = "sent" => lane[k] = "sent"
    BY <1>5 DEF RecordPage, IInv
  <2> QED BY <1>4, <1>5, <2>1 DEF RecordPage
<1>6. ASSUME NEW l \in Lanes, PageRead(l) PROVE QueueInv' /\ SendStep
  <2>1. \A k \in Lanes : lane'[k] = "sent" => lane[k] = "sent"
    BY <1>6 DEF PageRead, IInv
  <2> QED BY <1>4, <1>6, <2>1 DEF PageRead
<1>7. CASE OtherEnds
  BY <1>0, <1>7, SweptQueue DEF OtherEnds
<1>8. CASE Tick
  <2>1. UNCHANGED <<lane, batch>>
    BY <1>8 DEF Tick
  <2>2. lim'.queue = lim.queue
    BY <1>8 DEF Tick, IInv, Pace
  <2> QED BY <1>0, <2>1, <2>2, StillQueue DEF QueueOK
<1>9. CASE UNCHANGED vars
  BY <1>4, <1>9 DEF vars
<1> QED BY <1>1, <1>2, <1>3, <1>5, <1>6, <1>7, <1>8, <1>9, AskQueue, AnswerQueue, RefusedQueue,
           EndQueue, FailQueue DEF Next

\* A request that was queued while it was allowed is looked at again when it starts: nothing
\* is sent to a stopped site, and nothing for a batch whose budget is spent or that failed.
THEOREM SendsAreAllowed == Spec => SendsAllowed
<1>1. Init => QueueInv
  <2> SUFFICES ASSUME Init PROVE QueueInv
    OBVIOUS
  <2>1. lim.queue = <<>> /\ batch = [b \in Batches |-> Ended]
    BY DEF Init, NewLimiter
  <2>2. Ended \in BatchStates /\ ~Ended.aborted
    BY DEF Ended, NewBatch, BatchStates
  <2>3. Here.lim.queue = <<>> /\ Here.batch = batch
    BY <2>1, HereIs
  <2>4. <<>> \in Seq(Lanes) /\ 1..Len(<<>>) = {}
    OBVIOUS
  <2>5. /\ Here.lim.queue \in Seq(Lanes)
        /\ \A i \in 1..Len(Here.lim.queue) : ~Here.batch[BatchOf(Here.lim.queue[i])].aborted
    BY <2>3, <2>4
  <2> QED BY <2>1, <2>2, <2>3, <2>5, HereIs DEF QueueOK
<1>2. IInv /\ QueueInv /\ [Next]_vars => QueueInv' /\ [SendStep]_vars
  BY StepQueue
<1> QED BY Invariant, <1>1, <1>2, PTL DEF Spec, SendsAllowed, SendStep
=============================================================================
