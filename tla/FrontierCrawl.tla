--------------------------- MODULE FrontierCrawl ---------------------------
(***************************************************************************)
(* The crawl of one site by the engine on its polite, deterministic path:  *)
(* the rounds of runDeterministicLevels and the handlers of one request    *)
(* (packages/engine/src/crawler.ts) over the stratified selection of       *)
(* analysis/frontier.ts.                                                   *)
(*                                                                         *)
(* The site is constant: what a request ends at and which links the page   *)
(* carries.  Whether a request is answered, in which order the answers     *)
(* come and when the two clocks fire is not.  A round's requests, retries  *)
(* included, belong to Crawlee; here each is answered once, or abandoned   *)
(* when its round is cut short or its run rejects, and an abandoned one    *)
(* that was in flight may still be answered while the crawl lasts.         *)
(***************************************************************************)
EXTENDS Integers, Sequences, FiniteSets

CONSTANTS
  Reals,         \* the URLs as links write them
  Id,            \* the canonical identity of each (pin); itself one of Reals
  StartUrls,     \* startUrls
  Links,         \* the admissible links of the page a request ends at, in order
  Lands,         \* the identity that page is stored under, or Offsite
  Offsite,       \* a redirect to another host
  Template,      \* templateKeyFor, as a number in the order of the keys
  Key,           \* sampleKey, as a number in the order of the digests
  PageCap,       \* pageCap
  BatchSize,     \* FRONTIER_BATCH_SIZE
  MinStrata,     \* FRONTIER_MIN_STRATA_FOR_CAP
  Share,         \* 1 / FRONTIER_MAX_TEMPLATE_SHARE
  MaxCrawlMs,    \* maxCrawlMs, 0 when the caller gives none
  FloorMs,       \* V2_NO_BUDGET_FLOOR_MS
  MaxLost        \* bound: requests that rejected runs leave unanswered

Identities == {Id[r] : r \in Reals}

ASSUME CrawlAssumption ==
  /\ IsFiniteSet(Reals)
  /\ Id \in [Reals -> Reals]
  /\ \A u \in Identities : Id[u] = u
  /\ Links \in [Reals -> Seq(Reals)] /\ StartUrls \in Seq(Reals) /\ StartUrls # <<>>
  /\ Lands \in [Reals -> Identities \union {Offsite}] /\ Offsite \notin Reals
  /\ Template \in [Identities -> Nat]
  /\ Key \in [Reals -> Nat] /\ \A r, s \in Reals : Key[r] = Key[s] => r = s
  /\ PageCap \in Nat \ {0} /\ BatchSize \in Nat \ {0}
  /\ MinStrata \in Nat /\ Share \in Nat \ {0}
  /\ MaxCrawlMs \in Nat /\ FloorMs \in Nat \ {0}
  /\ MaxLost \in Nat

VARIABLES
  pool,       \* what was discovered and not admitted: identity -> [real, depth]
  ever,       \* everDiscovered: identity -> the shallowest depth
  admitted,   \* admitted, the same set as visitedIds
  depth,      \* batchDepth
  buffer,     \* frontierBuffer
  waiting,    \* the round's requests without an answer
  late,       \* the requests of cut or rejected rounds that are still in flight
  pages,      \* pages: identity -> read, or dead for a status-0 page
  phase,      \* "select", in a "round", or "done"
  truncated,  \* truncated
  exhausted,  \* what runDeterministicLevels returns: budgetExhausted
  overdue,    \* Date.now() is past crawlDeadline
  answered,   \* the requests that came to their end
  failed,     \* those of them that failed
  lost        \* the requests that runs that rejected left unanswered

vars == <<pool, ever, admitted, depth, buffer, waiting, late, pages, phase,
          truncated, exhausted, overdue, answered, failed, lost>>

Lower(a, b) == IF a < b THEN a ELSE b
Least(S) == CHOOSE x \in S : \A y \in S : x <= y
Found(urls) == {Id[urls[i]] : i \in DOMAIN urls}

-----------------------------------------------------------------------------
(* selectFrontier: of the pool p, the identities that get the n slots.     *)

\* Mutant of SampleKey: the hash of the URL that was discovered first.
MutantSampleKey(p, u) == Key[p[u].real]

SampleKey(p, u) == Key[u]

Nearer(p, v, u) == \/ p[v].depth < p[u].depth
                   \/ p[v].depth = p[u].depth /\ SampleKey(p, v) < SampleKey(p, u)

\* The place of u in its stratum, which is the pass that comes to it.
Pass(p, u) == Cardinality({v \in DOMAIN p : Template[v] = Template[u] /\ Nearer(p, v, u)})

Strata(p) == {Template[u] : u \in DOMAIN p}

\* perTemplateCap is max(1, floor(share * n)), and there is none below MinStrata.
Uncapped(p, n, pass) == \/ Cardinality(Strata(p)) < MinStrata
                        \/ pass = 0
                        \/ pass < n \div Share

\* Mutant of PicksBefore: the strata one after the other, each in full.
MutantPicksBefore(p, n, v, u) ==
  \/ Template[v] < Template[u]
  \/ Template[v] = Template[u] /\ Pass(p, v) < Pass(p, u)

\* Phase 1 comes before phase 2, and a phase goes pass by pass in key order.
PicksBefore(p, n, v, u) ==
  LET early(w) == Uncapped(p, n, Pass(p, w))
  IN  \/ early(v) /\ ~early(u)
      \/ /\ early(v) <=> early(u)
         /\ \/ Pass(p, v) < Pass(p, u)
            \/ Pass(p, v) = Pass(p, u) /\ Template[v] < Template[u]

Selected(p, n) ==
  {u \in DOMAIN p : Cardinality({v \in DOMAIN p : PicksBefore(p, n, v, u)}) < n}

-----------------------------------------------------------------------------
(* discover, for every URL of urls in turn: all of them at the depth d.     *)

\* Mutant of Better: whichever path came first keeps its depth.
MutantBetter(p, u, d) == u \notin DOMAIN p

Better(p, u, d) == u \notin DOMAIN p \/ d < p[u].depth

FirstOf(urls, u) ==
  urls[CHOOSE i \in DOMAIN urls :
         Id[urls[i]] = u /\ \A j \in DOMAIN urls : Id[urls[j]] = u => i <= j]

Pooled(p, gone, urls, d) ==
  [u \in DOMAIN p \union (Found(urls) \ gone) |->
     IF u \in Found(urls) /\ Better(p, u, d)
     THEN [real |-> FirstOf(urls, u), depth |-> d] ELSE p[u]]

Seen(e, urls, d) ==
  [u \in DOMAIN e \union Found(urls) |->
     IF u \in DOMAIN e /\ (u \notin Found(urls) \/ e[u] <= d) THEN e[u] ELSE d]

Empty == [u \in {} |-> 0]

Init ==
  /\ pool = Pooled(Empty, {}, StartUrls, 0)
  /\ ever = Seen(Empty, StartUrls, 0)
  /\ admitted = {} /\ waiting = {} /\ late = {} /\ answered = {} /\ failed = {}
  /\ lost = {}
  /\ depth = 0 /\ buffer = <<>> /\ pages = Empty
  /\ phase = "select" /\ truncated = FALSE /\ exhausted = FALSE /\ overdue = FALSE

-----------------------------------------------------------------------------
(* The loop of runDeterministicLevels.                                     *)

More == DOMAIN pool # {} /\ Cardinality(admitted) < PageCap

\* The batch leaves the pool and is charged to the cap before it is fetched.
Consume(batch) ==
  /\ pool' = [u \in DOMAIN pool \ batch |-> pool[u]]
  /\ admitted' = admitted \union batch
  /\ depth' = Least({ever[u] : u \in batch})
  /\ buffer' = <<>>

Batch == Selected(pool, Lower(PageCap - Cardinality(admitted), BatchSize))

Select ==
  /\ phase = "select" /\ More /\ ~overdue
  /\ Consume(Batch)
  /\ waiting' = {pool[u].real : u \in Batch}
  /\ phase' = "round"
  /\ UNCHANGED <<ever, late, pages, truncated, exhausted, overdue, answered,
                 failed, lost>>

\* No time is left: the batch was taken and is not fetched.
SelectTooLate ==
  /\ phase = "select" /\ More /\ overdue
  /\ Consume(Batch)
  /\ phase' = "done" /\ exhausted' = TRUE
  /\ UNCHANGED <<ever, waiting, late, pages, truncated, overdue, answered,
                 failed, lost>>

Finish ==
  /\ phase = "select" /\ ~More
  /\ phase' = "done" /\ exhausted' = truncated
  /\ UNCHANGED <<pool, ever, admitted, depth, buffer, waiting, late, pages,
                 truncated, overdue, answered, failed, lost>>

DiscoverBuffer ==
  /\ pool' = Pooled(pool, admitted, buffer, depth + 1)
  /\ ever' = Seen(ever, buffer, depth + 1)

RoundEnds ==
  /\ phase = "round" /\ waiting = {}
  /\ DiscoverBuffer
  /\ phase' = "select"
  /\ UNCHANGED <<admitted, depth, buffer, waiting, late, pages, truncated, exhausted,
                 overdue, answered, failed, lost>>

EffectiveMaxCrawlMs == IF MaxCrawlMs > 0 THEN MaxCrawlMs ELSE FloorMs

\* Mutant of HasClock: the caller's own budget, which may be missing.
MutantHasClock == MaxCrawlMs > 0

HasClock == EffectiveMaxCrawlMs > 0

\* Mutant of Cut: a cut round is taken for one that was read.
MutantCut == exhausted' = (overdue \/ exhausted) /\ truncated' = truncated

Cut == exhausted' = (overdue \/ exhausted) /\ truncated' = TRUE

\* The round's clock, which is the crawl's when less than a round is left.
StopRound ==
  /\ phase = "round" /\ HasClock
  /\ \E flying \in SUBSET waiting : late' = late \union flying
  /\ waiting' = {}
  /\ DiscoverBuffer
  /\ Cut
  /\ phase' = IF overdue THEN "done" ELSE "select"
  /\ UNCHANGED <<admitted, depth, buffer, pages, overdue, answered, failed, lost>>

\* crawler.run() rejects: runWithWallClock swallows the error and answers that no
\* clock was hit, so what the round had not read is taken for read.
RunRejects ==
  /\ phase = "round" /\ HasClock /\ Cardinality(lost \union waiting) <= MaxLost
  /\ \E flying \in SUBSET waiting : late' = late \union flying
  /\ waiting' = {} /\ lost' = lost \union waiting
  /\ DiscoverBuffer
  /\ phase' = "select"
  /\ UNCHANGED <<admitted, depth, buffer, pages, truncated, exhausted, overdue,
                 answered, failed>>

DeadlinePasses ==
  /\ phase # "done" /\ ~overdue /\ HasClock
  /\ overdue' = TRUE
  /\ UNCHANGED <<pool, ever, admitted, depth, buffer, waiting, late, pages, phase,
                 truncated, exhausted, answered, failed, lost>>

-----------------------------------------------------------------------------
(* The handlers of one request, in its round or late in another one.       *)

Stored(u, page) == [v \in DOMAIN pages \union {u} |-> IF v = u THEN page ELSE pages[v]]

\* requestHandler: a page of another host is left alone.
Read(r) ==
  /\ answered' = answered \union {r}
  /\ IF Lands[r] = Offsite THEN UNCHANGED <<pages, buffer>>
     ELSE pages' = Stored(Lands[r], "read") /\ buffer' = buffer \o Links[r]
  /\ UNCHANGED failed

\* Mutant of DeadPage: the failure is stored over what is there.
MutantDeadPage(u) == Stored(u, "dead")

DeadPage(u) == IF u \in DOMAIN pages THEN pages ELSE Stored(u, "dead")

\* failedRequestHandler
Fails(r) ==
  /\ answered' = answered \union {r} /\ failed' = failed \union {r}
  /\ pages' = DeadPage(Id[r])
  /\ UNCHANGED buffer

Answer(r) == phase = "round" /\ (Read(r) \/ Fails(r))

Answered ==
  /\ \E r \in waiting : Answer(r) /\ waiting' = waiting \ {r}
  /\ UNCHANGED <<pool, ever, admitted, depth, late, phase, truncated, exhausted, overdue,
                 lost>>

AnsweredLate ==
  /\ \E r \in late : Answer(r) /\ late' = late \ {r}
  /\ UNCHANGED <<pool, ever, admitted, depth, waiting, phase, truncated, exhausted,
                 overdue, lost>>

Loop == Select \/ SelectTooLate \/ Finish \/ RoundEnds \/ (overdue /\ StopRound)

Next == Loop \/ StopRound \/ RunRejects \/ DeadlinePasses \/ Answered \/ AnsweredLate

Spec == Init /\ [][Next]_vars

\* The loop runs and time passes.  Nothing is said of the site: it may never answer.
FairSpec == Spec /\ WF_vars(Loop) /\ WF_vars(DeadlinePasses)

-----------------------------------------------------------------------------
TypeOK ==
  /\ DOMAIN pool \subseteq DOMAIN ever /\ DOMAIN ever \subseteq Identities
  /\ pool \in [DOMAIN pool -> [real : Reals, depth : Nat]]
  /\ ever \in [DOMAIN ever -> Nat]
  /\ admitted \in SUBSET DOMAIN ever /\ admitted \intersect DOMAIN pool = {}
  /\ depth \in Nat /\ buffer \in Seq(Reals)
  /\ waiting \in SUBSET Reals /\ late \in SUBSET Reals
  /\ DOMAIN pages \subseteq Identities /\ pages \in [DOMAIN pages -> {"read", "dead"}]
  /\ phase \in {"select", "round", "done"}
  /\ {truncated, exhausted, overdue} \subseteq BOOLEAN
  /\ answered \in SUBSET Reals /\ failed \in SUBSET answered
  /\ lost \in SUBSET Reals

Requested == {Id[r] : r \in answered}

\* A crawl that does not report budgetExhausted has had an answer to every request
\* that it charged to the cap, but for what a rejected run left, and nothing is in
\* the pool but for the cap (crawler.ts:815).
PartialIsSaid ==
  phase = "done" /\ ~exhausted =>
    /\ admitted \subseteq Requested \union {Id[r] : r \in lost}
    /\ DOMAIN pool = {} \/ Cardinality(admitted) = PageCap

\* What waits in the pool waits at the shallowest depth it was ever found at, also
\* when a later round reads shallower pages than an earlier one: the rule of discover
\* that its own comment calls unpinned by any test.
PoolShallow == \A u \in DOMAIN pool : pool[u].depth = ever[u]

\* The reference: a crawl of the same site one slot at a time, the next one to the
\* template with the fewest in this round, and there to the nearest page.
SlotsIn(b, u) == Cardinality({w \in b : Template[w] = Template[u]})

Precedes(e, b, v, u) ==
  \/ SlotsIn(b, v) < SlotsIn(b, u)
  \/ SlotsIn(b, v) = SlotsIn(b, u) /\ Template[v] < Template[u]
  \/ /\ Template[v] = Template[u]
     /\ e[v] < e[u] \/ (e[v] = e[u] /\ Key[v] < Key[u])

NextSlot(e, left, b) == {u \in left : \A v \in left \ {u} : Precedes(e, b, u, v)}

RoundOf(e, taken, n) ==
  LET filled[k \in 0..n] ==
        IF k = 0 THEN {}
        ELSE LET b == filled[k - 1]
             IN  b \union NextSlot(e, DOMAIN e \ (taken \union b), b)
  IN  filled[n]

Children(b) == UNION {Found(Links[u]) : u \in {v \in b : Lands[v] # Offsite}}

\* What a round leaves of w, dead being the identities whose requests fail.
AfterRound(w, dead) ==
  LET b == RoundOf(w.ever, w.taken, Lower(PageCap - Cardinality(w.taken), BatchSize))
      found == Children(b \ dead)
      d == IF b = {} THEN 0 ELSE Least({w.ever[u] : u \in b}) + 1
  IN  [ever |-> [u \in DOMAIN w.ever \union found |->
                   IF u \notin found THEN w.ever[u]
                   ELSE IF u \in DOMAIN w.ever THEN Lower(w.ever[u], d) ELSE d],
       taken |-> w.taken \union b]

WalkOf(dead) ==
  LET walk[k \in 0..PageCap] ==
        IF k = 0 THEN [ever |-> Seen(Empty, StartUrls, 0), taken |-> {}]
        ELSE AfterRound(walk[k - 1], dead)
  IN  walk

SampleOf(dead) == WalkOf(dead)[PageCap].taken

\* The pages of a crawl that was not cut short are the sample of its site: they depend
\* on which requests failed, and not on the order of the answers or on the clock.  What
\* a rejected run left counts as failed, as long as none of it is read after all.
SameSample ==
  phase = "done" /\ ~exhausted /\ lost \intersect answered \subseteq failed =>
    admitted = SampleOf({Id[r] : r \in failed \union lost})

\* A round gives no template two slots more than one that still has pages waiting, and
\* within a template takes the nearest: no index page drains the budget with its children.
FairShare ==
  [][LET batch == admitted' \ admitted
         slots(u) == Cardinality({w \in batch : Template[w] = Template[u]})
     IN  \A u \in batch, v \in DOMAIN pool \intersect DOMAIN pool' :
           /\ slots(u) <= slots(v) + 1
           /\ Template[u] = Template[v] => pool[u].depth <= pool[v].depth]_vars

\* A page that was read stays read, although other requests that end at it may fail
\* before or after, in their round or late.
ReadStays ==
  [][\A u \in DOMAIN pages : pages[u] = "read" =>
        u \in DOMAIN pages' /\ pages'[u] = "read"]_vars

\* The crawl ends whatever the site does, also for a caller that gave no budget.
Ends == <>(phase = "done")
=============================================================================
