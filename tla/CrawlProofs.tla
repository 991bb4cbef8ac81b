---------------------------- MODULE CrawlProofs ----------------------------
(***************************************************************************)
(* Proofs about FrontierCrawl, for every site, page cap, batch size and    *)
(* share.                                                                  *)
(*                                                                         *)
(* The picks of a round are the first n of a strict total order, so they   *)
(* are never more than n and never none; and what is charged to the cap is *)
(* answered, waited for, or given up by a cut that is remembered.  A crawl *)
(* that is not cut goes the way of the reference round by round: its picks *)
(* are the slots the reference gives one at a time, and what the buffer    *)
(* holds at the end of a round are the links of those that were read.      *)
(***************************************************************************)
EXTENDS FrontierCrawl, FiniteSetTheorems, WellFoundedInduction, TLAPS

-----------------------------------------------------------------------------
LEMMA LeastOfNaturals ==
  ASSUME NEW S \in SUBSET Nat, S # {}
  PROVE  \E x \in S : \A y \in S : x <= y
<1>1. PICK x \in S : \A y \in S : <<y, x>> \notin OpToRel(<, Nat)
  BY NatLessThanWellFounded, WFMin
<1>2. \A y \in S : ~ (y < x)
  BY <1>1 DEF OpToRel
<1> QED BY <1>2

LEMMA LeastIsLeast ==
  ASSUME NEW S \in SUBSET Nat, S # {}
  PROVE  Least(S) \in S /\ \A y \in S : Least(S) <= y
BY LeastOfNaturals DEF Least

LEMMA HighestOne ==
  ASSUME NEW T, T # {}, NEW n \in Nat, NEW f \in [T -> Nat], \A u \in T : f[u] < n
  PROVE  \E u \in T : \A v \in T : f[v] <= f[u]
<1> DEFINE D == {n - f[u] : u \in T}
<1>1. \A u \in T : n - f[u] \in Nat
  OBVIOUS
<1>2. D \in SUBSET Nat /\ D # {}
  BY <1>1
<1>3. \E x \in D : \A y \in D : x <= y
  <2> HIDE DEF D
  <2> QED BY <1>2, LeastOfNaturals
<1>4. PICK u \in T : \A v \in T : n - f[u] <= n - f[v]
  BY <1>3
<1>5. \A v \in T : f[v] <= f[u]
  BY <1>4
<1> QED BY <1>5

Firsts(S, P, n) == {u \in S : Cardinality(P[u]) < n}

\* P[u] are those before u.  Of a finite set in a strict total order, those with fewer
\* than n before them are at most n, and at least one when there is any.
LEMMA FirstOnes ==
  ASSUME NEW S, IsFiniteSet(S), NEW n \in Nat \ {0}, NEW P \in [S -> SUBSET S],
         \A u \in S : u \notin P[u],
         \A u, v, w \in S : w \in P[v] /\ v \in P[u] => w \in P[u],
         \A u, v \in S : u # v => u \in P[v] \/ v \in P[u]
  PROVE  /\ IsFiniteSet(Firsts(S, P, n)) /\ Cardinality(Firsts(S, P, n)) <= n
         /\ S # {} => Firsts(S, P, n) # {}
<1> DEFINE c(u) == Cardinality(P[u])
           T == Firsts(S, P, n)
<1>a. \A u \in S : P[u] \in SUBSET S
  OBVIOUS
<1>c. T = {u \in S : c(u) < n}
  BY DEF Firsts
<1> HIDE DEF T
<1>1. ASSUME NEW u \in S PROVE IsFiniteSet(P[u]) /\ c(u) \in Nat
  <2>1. IsFiniteSet(P[u])
    BY <1>a, FS_Subset
  <2> QED BY <2>1, FS_CardinalityType
<1>2. ASSUME NEW u \in S, NEW v \in S, v \in P[u] PROVE c(v) < c(u)
  <2>1. P[v] \in SUBSET P[u]
    BY <1>a, <1>2
  <2>2. v \notin P[v]
    OBVIOUS
  <2>3. c(v) <= c(u) /\ (c(u) = c(v) => P[u] = P[v])
    BY <2>1, <1>1, FS_Subset
  <2> QED BY <2>2, <2>3, <1>1, <1>2
<1>3. T \in SUBSET S /\ IsFiniteSet(T)
  <2>1. T \in SUBSET S
    BY <1>c
  <2> QED BY <2>1, FS_Subset
<1>d. \A u \in S : (P[u] = {}) => c(u) = 0
  BY FS_EmptySet
<1> HIDE DEF c
<1>4. ASSUME S # {} PROVE T # {}
  <2> DEFINE C == {c(u) : u \in S}
  <2>1. C \in SUBSET Nat /\ C # {}
    BY <1>1, <1>4
  <2>2. \E x \in C : \A y \in C : x <= y
    <3> HIDE DEF C
    <3> QED BY <2>1, LeastOfNaturals
  <2>3. PICK u \in S : \A v \in S : c(u) <= c(v)
    BY <2>2
  <2>4. P[u] = {}
    <3> SUFFICES ASSUME NEW v \in P[u] PROVE FALSE
      OBVIOUS
    <3>1. v \in S
      BY <1>a
    <3> QED BY <3>1, <2>3, <1>1, <1>2
  <2>5. c(u) < n
    BY <2>4, <1>d
  <2>6. u \in T
    BY <2>5, <1>c
  <2> QED BY <2>6
<1>5. CASE T = {}
  <2>1. Cardinality(T) = 0
    BY <1>5, FS_EmptySet
  <2>2. Cardinality(T) <= n
    BY <2>1
  <2> QED BY <2>2, <1>3, <1>4 DEF T
<1>6. CASE T # {}
  <2>1. \A u \in T : c(u) \in Nat /\ c(u) < n
    BY <1>1, <1>3, <1>c
  <2>2. [u \in T |-> c(u)] \in [T -> Nat] /\ \A u \in T : [v \in T |-> c(v)][u] < n
    BY <2>1
  <2>3. PICK u \in T : \A v \in T : c(v) <= c(u)
    <3> DEFINE f == [u \in T |-> c(u)]
    <3>1. \E u \in T : \A v \in T : f[v] <= f[u]
      <4> HIDE DEF f
      <4> QED BY <2>2, <1>6, HighestOne DEF f
    <3> QED BY <3>1
  <2>4. u \in S /\ c(u) < n /\ c(u) \in Nat
    BY <1>1, <1>3, <1>c
  <2>5. ASSUME NEW v \in T \ {u} PROVE v \in P[u]
    <3>1. v \in S /\ c(v) \in Nat /\ c(v) <= c(u)
      BY <1>1, <1>3, <2>3, <2>4
    <3>2. u \notin P[v]
      BY <3>1, <2>4, <1>2
    <3> QED BY <3>1, <3>2, <2>4
  <2>6. T \ {u} \in SUBSET P[u]
    BY <2>5
  <2>7. IsFiniteSet(T \ {u}) /\ Cardinality(T \ {u}) \in Nat /\ Cardinality(T \ {u}) <= c(u)
    BY <2>4, <2>6, <1>1, FS_Subset, FS_CardinalityType DEF c
  <2>8. Cardinality(T) = Cardinality(T \ {u}) + 1
    <3>1. Cardinality(T) \in Nat /\ Cardinality(T \ {u}) = Cardinality(T) - 1
      BY <2>3, <1>3, FS_RemoveElement, FS_CardinalityType
    <3> QED BY <3>1
  <2> QED BY <2>4, <2>7, <2>8, <1>3, <1>6 DEF T
<1> QED BY <1>5, <1>6 DEF T

-----------------------------------------------------------------------------
Entries == [real : Reals, depth : Nat]
IsPool(p) == DOMAIN p \in SUBSET Identities /\ p \in [DOMAIN p -> Entries]

LEMMA IdentityFacts == Identities \in SUBSET Reals /\ IsFiniteSet(Identities)
<1>1. Identities \in SUBSET Reals
  BY CrawlAssumption DEF Identities
<1> QED BY <1>1, CrawlAssumption, FS_Subset

LEMMA EntryFacts ==
  ASSUME NEW p, IsPool(p), NEW u \in DOMAIN p
  PROVE  u \in Reals /\ Template[u] \in Nat /\ Key[u] \in Nat /\ p[u].depth \in Nat
<1>1. u \in Identities /\ p[u] \in Entries
  BY DEF IsPool
<1>2. u \in Reals
  BY <1>1, IdentityFacts
<1>3. Template \in [Identities -> Nat] /\ Key \in [Reals -> Nat]
  BY CrawlAssumption
<1> QED BY <1>1, <1>2, <1>3 DEF Entries

\* Within a template the places are numbered: a nearer page has a lower one, and two pages
\* never have the same.
LEMMA PassFacts ==
  ASSUME NEW p, IsPool(p)
  PROVE  /\ \A u \in DOMAIN p : Pass(p, u) \in Nat
         /\ \A u, v \in DOMAIN p : Template[v] = Template[u] /\ Nearer(p, v, u)
                                     => Pass(p, v) < Pass(p, u)
         /\ \A u, v \in DOMAIN p : Template[u] = Template[v] /\ u # v
                                     => Pass(p, u) # Pass(p, v)
<1> DEFINE ahead(u) == {v \in DOMAIN p : Template[v] = Template[u] /\ Nearer(p, v, u)}
<1>1. IsFiniteSet(DOMAIN p)
  BY IdentityFacts, FS_Subset DEF IsPool
<1>2. ASSUME NEW u \in DOMAIN p PROVE IsFiniteSet(ahead(u)) /\ Pass(p, u) \in Nat
  <2>1. ahead(u) \in SUBSET DOMAIN p
    OBVIOUS
  <2>2. IsFiniteSet(ahead(u))
    BY <1>1, <2>1, FS_Subset
  <2> QED BY <2>2, FS_CardinalityType DEF Pass
<1>3. ASSUME NEW u \in DOMAIN p, NEW v \in DOMAIN p, Template[v] = Template[u], Nearer(p, v, u)
      PROVE  Pass(p, v) < Pass(p, u)
  <2>1. \A w \in DOMAIN p : Nearer(p, w, v) => Nearer(p, w, u)
    BY <1>3, EntryFacts DEF Nearer, SampleKey
  <2>2. ahead(v) \in SUBSET ahead(u)
    BY <2>1, <1>3
  <2>3. v \in ahead(u) /\ v \notin ahead(v)
    <3>1. ~Nearer(p, v, v)
      BY EntryFacts DEF Nearer, SampleKey
    <3> QED BY <3>1, <1>3
  <2>4. Pass(p, u) = Cardinality(ahead(u)) /\ Pass(p, v) = Cardinality(ahead(v))
    BY DEF Pass
  <2> HIDE DEF ahead
  <2>5. /\ Cardinality(ahead(v)) <= Cardinality(ahead(u))
        /\ Cardinality(ahead(v)) # Cardinality(ahead(u))
    BY <2>2, <2>3, <1>2, FS_Subset
  <2> QED BY <2>4, <2>5, <1>2
<1>4. ASSUME NEW u \in DOMAIN p, NEW v \in DOMAIN p, u # v
      PROVE  Nearer(p, v, u) \/ Nearer(p, u, v)
  <2>1. Key[u] # Key[v]
    BY <1>4, EntryFacts, CrawlAssumption
  <2> QED BY <2>1, EntryFacts DEF Nearer, SampleKey
<1>5. \A u, v \in DOMAIN p : Template[u] = Template[v] /\ u # v => Pass(p, u) # Pass(p, v)
  <2> SUFFICES ASSUME NEW u \in DOMAIN p, NEW v \in DOMAIN p, Template[u] = Template[v], u # v
               PROVE  Pass(p, u) # Pass(p, v)
    OBVIOUS
  <2>1. Pass(p, u) < Pass(p, v) \/ Pass(p, v) < Pass(p, u)
    BY <1>3, <1>4
  <2>2. PICK a, b \in Nat : a = Pass(p, u) /\ b = Pass(p, v)
    BY <1>2
  <2> QED BY <2>1, <2>2
<1> QED BY <1>2, <1>3, <1>5

RoundRobin(p, v, u) == \/ Pass(p, v) < Pass(p, u)
                       \/ Pass(p, v) = Pass(p, u) /\ Template[v] < Template[u]

LEMMA PicksByPass ==
  ASSUME NEW p, IsPool(p), NEW n \in Nat, NEW u \in DOMAIN p, NEW v \in DOMAIN p
  PROVE  PicksBefore(p, n, v, u) <=> RoundRobin(p, v, u)
<1> DEFINE q == n \div Share
           few == Cardinality(Strata(p)) < MinStrata
           i == Pass(p, v)
           j == Pass(p, u)
           a == Uncapped(p, n, i)
           b == Uncapped(p, n, j)
<1>1. i \in Nat /\ j \in Nat
  BY PassFacts
<1>2. q \in Int
  BY CrawlAssumption
<1>3. (a <=> few \/ i = 0 \/ i < q) /\ (b <=> few \/ j = 0 \/ j < q)
  BY DEF Uncapped
<1>4. PicksBefore(p, n, v, u) <=> (a /\ ~b) \/ ((a <=> b) /\ RoundRobin(p, v, u))
  BY DEF PicksBefore, RoundRobin
<1>5. RoundRobin(p, v, u) <=> i < j \/ (i = j /\ Template[v] < Template[u])
  BY DEF RoundRobin
<1> HIDE DEF q, few, i, j, a, b
<1>6. a /\ ~b => i < j
  BY <1>1, <1>2, <1>3
<1>7. b /\ ~a => j < i
  BY <1>1, <1>2, <1>3
<1>8. i < j => ~(j < i) /\ i # j
  BY <1>1
<1> QED BY <1>4, <1>5, <1>6, <1>7, <1>8, <1>1

LEMMA SelectedFacts ==
  ASSUME NEW p, IsPool(p), NEW n \in Nat \ {0}
  PROVE  /\ Selected(p, n) \in SUBSET DOMAIN p /\ IsFiniteSet(Selected(p, n))
         /\ Cardinality(Selected(p, n)) <= n
         /\ DOMAIN p # {} => Selected(p, n) # {}
<1> DEFINE S == DOMAIN p
           P == [u \in S |-> {v \in S : RoundRobin(p, v, u)}]
<1>1. IsFiniteSet(S)
  BY IdentityFacts, FS_Subset DEF IsPool
<1>2. \A u, v \in S : v \in P[u] <=> RoundRobin(p, v, u)
  OBVIOUS
<1>3. Selected(p, n) = Firsts(S, P, n)
  <2>1. \A u \in S : {v \in S : PicksBefore(p, n, v, u)} = P[u]
    BY PicksByPass
  <2> HIDE DEF P
  <2> QED BY <2>1 DEF Selected, Firsts
<1>4. \A u \in S : Pass(p, u) \in Nat /\ Template[u] \in Nat
  BY PassFacts, EntryFacts
<1>5. \A u \in S : u \notin P[u]
  BY <1>2, <1>4 DEF RoundRobin
<1>6. \A u, v, w \in S : w \in P[v] /\ v \in P[u] => w \in P[u]
  <2> SUFFICES ASSUME NEW u \in S, NEW v \in S, NEW w \in S,
                      RoundRobin(p, w, v), RoundRobin(p, v, u)
               PROVE  RoundRobin(p, w, u)
    BY <1>2
  <2> QED BY <1>4 DEF RoundRobin
<1>7. \A u, v \in S : u # v => u \in P[v] \/ v \in P[u]
  <2> SUFFICES ASSUME NEW u \in S, NEW v \in S, u # v
               PROVE  RoundRobin(p, u, v) \/ RoundRobin(p, v, u)
    BY <1>2
  <2>1. Template[u] # Template[v] \/ Pass(p, u) # Pass(p, v)
    BY PassFacts
  <2> QED BY <2>1, <1>4 DEF RoundRobin
<1>8. P \in [S -> SUBSET S]
  OBVIOUS
<1>9. Selected(p, n) \in SUBSET S
  BY DEF Selected
<1> HIDE DEF P, S
<1>10. /\ IsFiniteSet(Firsts(S, P, n)) /\ Cardinality(Firsts(S, P, n)) <= n
       /\ S # {} => Firsts(S, P, n) # {}
  BY <1>1, <1>5, <1>6, <1>7, <1>8, FirstOnes
<1> QED BY <1>3, <1>9, <1>10 DEF S

\* The share cap decides nothing: the picks of selectFrontier, with its two phases, are
\* those of a round robin that never heard of FRONTIER_MAX_TEMPLATE_SHARE, whatever was
\* discovered and however large the budget.
THEOREM ShareCapNeverDecides ==
  ASSUME NEW p, IsPool(p), NEW n \in Nat
  PROVE  Selected(p, n) =
           {u \in DOMAIN p : Cardinality({v \in DOMAIN p : RoundRobin(p, v, u)}) < n}
<1>1. \A u \in DOMAIN p :
        {v \in DOMAIN p : PicksBefore(p, n, v, u)} = {v \in DOMAIN p : RoundRobin(p, v, u)}
  BY PicksByPass
<1> QED BY <1>1 DEF Selected

\* What is picked has nothing before it that is not.
LEMMA PicksAreFirst ==
  ASSUME NEW p, IsPool(p), NEW n \in Nat,
         NEW u \in Selected(p, n), NEW v \in DOMAIN p \ Selected(p, n)
  PROVE  ~RoundRobin(p, v, u)
<1> DEFINE before(w) == {x \in DOMAIN p : RoundRobin(p, x, w)}
<1>1. SUFFICES ASSUME RoundRobin(p, v, u) PROVE FALSE
  OBVIOUS
<1>2. u \in DOMAIN p
  BY DEF Selected
<1>3. \A w \in DOMAIN p : Pass(p, w) \in Nat /\ Template[w] \in Nat
  BY PassFacts, EntryFacts
<1>4. before(v) \in SUBSET before(u)
  <2> SUFFICES ASSUME NEW w \in DOMAIN p, RoundRobin(p, w, v) PROVE RoundRobin(p, w, u)
    OBVIOUS
  <2> QED BY <1>1, <1>2, <1>3 DEF RoundRobin
<1>5. IsFiniteSet(before(u))
  <2>1. IsFiniteSet(DOMAIN p)
    BY IdentityFacts, FS_Subset DEF IsPool
  <2>2. before(u) \in SUBSET DOMAIN p
    OBVIOUS
  <2> HIDE DEF before
  <2> QED BY <2>1, <2>2, FS_Subset
<1>6. Selected(p, n) = {w \in DOMAIN p : Cardinality(before(w)) < n}
  BY ShareCapNeverDecides
<1> HIDE DEF before
<1>7. Cardinality(before(v)) <= Cardinality(before(u)) /\ Cardinality(before(v)) \in Nat
      /\ Cardinality(before(u)) \in Nat
  BY <1>4, <1>5, FS_Subset, FS_CardinalityType
<1>8. Cardinality(before(u)) < n /\ ~(Cardinality(before(v)) < n)
  BY <1>6
<1> QED BY <1>7, <1>8

SlotsOf(p, n, t) == {w \in Selected(p, n) : Template[w] = t}

\* The last page of a template that is picked has all the others of its template before it.
LEMMA LastPick ==
  ASSUME NEW p, IsPool(p), NEW n \in Nat \ {0}, NEW u \in Selected(p, n)
  PROVE  \E w \in SlotsOf(p, n, Template[u]) :
           Cardinality(SlotsOf(p, n, Template[u])) <= Pass(p, w) + 1
<1> DEFINE T == SlotsOf(p, n, Template[u])
           D == DOMAIN p
<1>1. IsFiniteSet(D) /\ Cardinality(D) \in Nat
  BY IdentityFacts, FS_Subset, FS_CardinalityType DEF IsPool
<1>2. T \in SUBSET D /\ T # {} /\ IsFiniteSet(T)
  <2>1. T \in SUBSET D /\ T # {}
    BY DEF Selected, SlotsOf
  <2> HIDE DEF T, D
  <2> QED BY <1>1, <2>1, FS_Subset
<1>3. ASSUME NEW w \in D PROVE Pass(p, w) \in Nat /\ Pass(p, w) < Cardinality(D) + 1
  <2> DEFINE A == {v \in DOMAIN p : Template[v] = Template[w] /\ Nearer(p, v, w)}
  <2>1. A \in SUBSET D /\ Pass(p, w) = Cardinality(A)
    BY DEF Pass
  <2> HIDE DEF A, D
  <2>2. Cardinality(A) <= Cardinality(D) /\ Cardinality(A) \in Nat
    BY <1>1, <2>1, FS_Subset, FS_CardinalityType
  <2> QED BY <1>1, <2>1, <2>2
<1>4. PICK w \in T : \A v \in T : Pass(p, v) <= Pass(p, w)
  <2> DEFINE f == [x \in T |-> Pass(p, x)]
             N == Cardinality(D) + 1
  <2>1. f \in [T -> Nat] /\ N \in Nat /\ \A x \in T : f[x] < N
    BY <1>1, <1>2, <1>3
  <2>2. \E x \in T : \A y \in T : f[y] <= f[x]
    <3> HIDE DEF f, T, N
    <3> QED BY <1>2, <2>1, HighestOne
  <2> QED BY <2>2
<1>5. w \in D /\ Pass(p, w) \in Nat
  BY <1>2, <1>3, <1>4
<1> DEFINE A == {v \in DOMAIN p : Template[v] = Template[w] /\ Nearer(p, v, w)}
<1>6. T \ {w} \in SUBSET A
  <2> SUFFICES ASSUME NEW v \in T, v # w PROVE v \in A
    OBVIOUS
  <2>1. v \in D /\ Template[v] = Template[u] /\ Template[w] = Template[u]
    BY <1>2, <1>4 DEF SlotsOf
  <2>2. Nearer(p, v, w) \/ Nearer(p, w, v)
    <3>1. Key[v] # Key[w]
      BY <1>5, <2>1, EntryFacts, CrawlAssumption
    <3> QED BY <3>1, <1>5, <2>1, EntryFacts DEF Nearer, SampleKey
  <2>3. Pass(p, v) \in Nat /\ Pass(p, v) <= Pass(p, w)
    BY <1>3, <1>4, <2>1
  <2>4. Nearer(p, w, v) => Pass(p, w) < Pass(p, v)
    BY <1>5, <2>1, PassFacts
  <2>5. ~Nearer(p, w, v)
    BY <1>5, <2>3, <2>4
  <2> QED BY <2>1, <2>2, <2>5
<1>7. A \in SUBSET D /\ Pass(p, w) = Cardinality(A)
  BY DEF Pass
<1> HIDE DEF A, T, D
<1>8. Cardinality(T \ {w}) <= Cardinality(A)
  BY <1>1, <1>6, <1>7, FS_Subset
<1>9. Cardinality(T \ {w}) = Cardinality(T) - 1 /\ Cardinality(T) \in Nat
  BY <1>2, <1>4, FS_RemoveElement, FS_CardinalityType
<1>10. Cardinality(T) <= Pass(p, w) + 1
  BY <1>5, <1>7, <1>8, <1>9
<1> QED BY <1>4, <1>10 DEF T

\* The first page of a template that is not picked has only picks before it.
LEMMA FirstLeft ==
  ASSUME NEW p, IsPool(p), NEW n \in Nat, NEW v \in DOMAIN p \ Selected(p, n)
  PROVE  \E w \in DOMAIN p \ Selected(p, n) :
           Template[w] = Template[v] /\ Pass(p, w) <= Cardinality(SlotsOf(p, n, Template[v]))
<1> DEFINE T == SlotsOf(p, n, Template[v])
           L == {w \in DOMAIN p \ Selected(p, n) : Template[w] = Template[v]}
           C == {Pass(p, w) : w \in L}
<1>1. IsFiniteSet(T)
  <2>1. T \in SUBSET DOMAIN p /\ IsFiniteSet(DOMAIN p)
    BY IdentityFacts, FS_Subset DEF IsPool, Selected, SlotsOf
  <2> HIDE DEF T
  <2> QED BY <2>1, FS_Subset
<1>2. PICK w \in L : \A x \in L : Pass(p, w) <= Pass(p, x)
  <2>1. C \in SUBSET Nat /\ C # {}
    BY PassFacts
  <2>2. \E c \in C : \A y \in C : c <= y
    <3> HIDE DEF C
    <3> QED BY <2>1, LeastOfNaturals
  <2> QED BY <2>2
<1> DEFINE A == {x \in DOMAIN p : Template[x] = Template[w] /\ Nearer(p, x, w)}
<1>3. w \in DOMAIN p /\ Pass(p, w) \in Nat /\ Template[w] = Template[v]
  BY <1>2, PassFacts
<1>4. A \in SUBSET T
  <2> SUFFICES ASSUME NEW x \in DOMAIN p, Template[x] = Template[w], Nearer(p, x, w)
               PROVE  x \in Selected(p, n)
    BY <1>3 DEF SlotsOf
  <2>1. Pass(p, x) < Pass(p, w) /\ Pass(p, x) \in Nat
    BY <1>3, PassFacts
  <2>2. x \notin L
    BY <1>2, <1>3, <2>1
  <2> QED BY <1>3, <2>2
<1>5. Pass(p, w) = Cardinality(A)
  BY DEF Pass
<1> HIDE DEF A, T
<1>6. Pass(p, w) <= Cardinality(T)
  BY <1>1, <1>4, <1>5, FS_Subset
<1> QED BY <1>2, <1>6 DEF T

\* A round over a pool is shared out: what FairShare asks of it.
LEMMA RoundIsShared ==
  ASSUME NEW p, IsPool(p), NEW n \in Nat \ {0},
         NEW u \in Selected(p, n), NEW v \in DOMAIN p \ Selected(p, n)
  PROVE  /\ Cardinality(SlotsOf(p, n, Template[u])) <= Cardinality(SlotsOf(p, n, Template[v])) + 1
         /\ Template[u] = Template[v] => p[u].depth <= p[v].depth
<1>0. Selected(p, n) \in SUBSET DOMAIN p /\ IsFiniteSet(Selected(p, n))
  BY SelectedFacts
<1>1. ASSUME NEW t PROVE Cardinality(SlotsOf(p, n, t)) \in Nat
  <2>1. SlotsOf(p, n, t) \in SUBSET Selected(p, n)
    BY DEF SlotsOf
  <2> QED BY <1>0, <2>1, FS_Subset, FS_CardinalityType
<1>2. PICK x \in SlotsOf(p, n, Template[u]) :
        Cardinality(SlotsOf(p, n, Template[u])) <= Pass(p, x) + 1
  BY LastPick
<1>3. PICK y \in DOMAIN p \ Selected(p, n) :
        Template[y] = Template[v] /\ Pass(p, y) <= Cardinality(SlotsOf(p, n, Template[v]))
  BY FirstLeft
<1>4. x \in Selected(p, n)
  BY DEF SlotsOf
<1>5. ~RoundRobin(p, y, x) /\ ~RoundRobin(p, v, u)
  BY <1>4, PicksAreFirst
<1>6. Pass(p, x) \in Nat /\ Pass(p, y) \in Nat
  BY <1>0, <1>4, PassFacts
<1>7. Pass(p, x) <= Pass(p, y)
  BY <1>5, <1>6 DEF RoundRobin
<1>8. Cardinality(SlotsOf(p, n, Template[u])) <= Cardinality(SlotsOf(p, n, Template[v])) + 1
  <2>1. PICK a, b \in Nat : /\ a = Cardinality(SlotsOf(p, n, Template[u]))
                            /\ b = Cardinality(SlotsOf(p, n, Template[v]))
    BY <1>1
  <2>2. a <= Pass(p, x) + 1 /\ Pass(p, y) <= b
    BY <1>2, <1>3, <2>1
  <2>3. a <= b + 1
    BY <1>6, <1>7, <2>2
  <2> QED BY <2>1, <2>3
<1>9. ASSUME Template[u] = Template[v] PROVE p[u].depth <= p[v].depth
  <2>1. u \in DOMAIN p
    BY <1>0
  <2>2. Nearer(p, v, u) => Pass(p, v) < Pass(p, u)
    BY <1>9, <2>1, PassFacts
  <2>3. ~Nearer(p, v, u)
    BY <1>5, <2>2 DEF RoundRobin
  <2>4. p[u].depth \in Nat /\ p[v].depth \in Nat
    BY <2>1, EntryFacts
  <2> QED BY <2>3, <2>4 DEF Nearer
<1> QED BY <1>8, <1>9

-----------------------------------------------------------------------------
(* What discover does to the pool and to everDiscovered.                   *)

IsMap(e) == DOMAIN e \in SUBSET Identities /\ e \in [DOMAIN e -> Nat]
Headed(p) == \A u \in DOMAIN p : Id[p[u].real] = u
Shallow(p, e) == \A u \in DOMAIN p : p[u].depth = e[u]

LEMMA FoundFacts ==
  ASSUME NEW urls \in Seq(Reals)
  PROVE  Found(urls) \in SUBSET Identities /\ DOMAIN urls \in SUBSET Nat
<1>1. \A i \in DOMAIN urls : urls[i] \in Reals /\ i \in Nat
  OBVIOUS
<1> QED BY <1>1 DEF Found, Identities

LEMMA FirstOfFacts ==
  ASSUME NEW urls \in Seq(Reals), NEW u \in Found(urls)
  PROVE  FirstOf(urls, u) \in Reals /\ Id[FirstOf(urls, u)] = u
<1> DEFINE I == {i \in DOMAIN urls : Id[urls[i]] = u}
<1>1. I \in SUBSET Nat /\ I # {}
  BY FoundFacts DEF Found
<1>2. \E i \in I : \A j \in I : i <= j
  <2> HIDE DEF I
  <2> QED BY <1>1, LeastOfNaturals
<1>3. \E i \in DOMAIN urls :
        Id[urls[i]] = u /\ \A j \in DOMAIN urls : Id[urls[j]] = u => i <= j
  BY <1>2
<1>4. \A i \in DOMAIN urls : urls[i] \in Reals
  OBVIOUS
<1> QED BY <1>3, <1>4 DEF FirstOf

PooledWell(p, gone, urls, d, q) ==
  /\ DOMAIN q = DOMAIN p \union (Found(urls) \ gone)
  /\ IsPool(q) /\ Headed(q)
  /\ \A u \in DOMAIN q :
       q[u].depth = IF u \in Found(urls) /\ Better(p, u, d) THEN d ELSE p[u].depth

SeenWell(e, urls, d, f) ==
  /\ DOMAIN f = DOMAIN e \union Found(urls)
  /\ IsMap(f)
  /\ \A u \in DOMAIN f :
       f[u] = IF u \in DOMAIN e /\ (u \notin Found(urls) \/ e[u] <= d) THEN e[u] ELSE d

LEMMA PooledFacts ==
  ASSUME NEW p, IsPool(p), Headed(p), NEW gone, NEW urls \in Seq(Reals), NEW d \in Nat
  PROVE  PooledWell(p, gone, urls, d, Pooled(p, gone, urls, d))
<1> DEFINE q == Pooled(p, gone, urls, d)
           D == DOMAIN p \union (Found(urls) \ gone)
           fresh(u) == u \in Found(urls) /\ Better(p, u, d)
           new(u) == [real |-> FirstOf(urls, u), depth |-> d]
<1>1. q = [u \in D |-> IF fresh(u) THEN new(u) ELSE p[u]]
  BY DEF Pooled
<1>2. DOMAIN q = D /\ \A u \in D : q[u] = IF fresh(u) THEN new(u) ELSE p[u]
  BY <1>1
<1>3. D \in SUBSET Identities
  BY FoundFacts DEF IsPool
<1>4. ASSUME NEW u \in D
      PROVE  /\ q[u] \in Entries /\ Id[q[u].real] = u
             /\ q[u].depth = IF fresh(u) THEN d ELSE p[u].depth
  <2>1. CASE fresh(u)
    <3>1. q[u] = new(u)
      BY <1>2, <2>1
    <3>2. FirstOf(urls, u) \in Reals /\ Id[FirstOf(urls, u)] = u
      BY <2>1, FirstOfFacts
    <3> HIDE DEF fresh
    <3> QED BY <2>1, <3>1, <3>2 DEF Entries
  <2>2. CASE ~fresh(u)
    <3>1. q[u] = p[u]
      BY <1>2, <2>2
    <3>2. u \in DOMAIN p
      BY <2>2 DEF Better
    <3>3. p[u] \in Entries /\ Id[p[u].real] = u
      BY <3>2 DEF IsPool, Headed
    <3> HIDE DEF fresh
    <3> QED BY <2>2, <3>1, <3>3
  <2> QED BY <2>1, <2>2
<1>5. q \in [D -> Entries]
  <2> HIDE DEF D, fresh, new
  <2> QED BY <1>1, <1>2, <1>4
<1> HIDE DEF D, fresh, new
<1>6. IsPool(q) /\ Headed(q) /\ DOMAIN q = D
  BY <1>2, <1>3, <1>4, <1>5 DEF IsPool, Headed
<1> QED BY <1>2, <1>4, <1>6 DEF D, fresh, PooledWell

LEMMA SeenFacts ==
  ASSUME NEW e, IsMap(e), NEW urls \in Seq(Reals), NEW d \in Nat
  PROVE  SeenWell(e, urls, d, Seen(e, urls, d))
<1>1. Found(urls) \in SUBSET Identities
  BY FoundFacts
<1> QED BY <1>1 DEF Seen, IsMap, SeenWell

Agree(p, e, gone) ==
  /\ IsPool(p) /\ Headed(p) /\ IsMap(e) /\ Shallow(p, e)
  /\ DOMAIN e = DOMAIN p \union gone
  /\ DOMAIN p \intersect gone = {}

\* The pool and the record of depths agree, as long as all that was discovered is
\* either in the pool or gone.
LEMMA DiscoverKeepsShallow ==
  ASSUME NEW p, NEW e, NEW gone, Agree(p, e, gone),
         NEW urls \in Seq(Reals), NEW d \in Nat
  PROVE  Agree(Pooled(p, gone, urls, d), Seen(e, urls, d), gone)
<1> DEFINE q == Pooled(p, gone, urls, d)
           f == Seen(e, urls, d)
<1>1. PooledWell(p, gone, urls, d, q)
  BY PooledFacts DEF Agree
<1>2. SeenWell(e, urls, d, f)
  BY SeenFacts DEF Agree
<1> HIDE DEF q, f
<1>3. ASSUME NEW u \in DOMAIN q PROVE q[u].depth = f[u]
  <2>1. CASE u \in DOMAIN p
    <3>1. p[u].depth = e[u] /\ u \in DOMAIN e /\ e[u] \in Nat
      BY <2>1 DEF Agree, Shallow, IsMap
    <3> QED BY <1>1, <1>2, <2>1, <3>1 DEF Better, PooledWell, SeenWell
  <2>2. CASE u \notin DOMAIN p
    BY <1>1, <1>2, <2>2 DEF Better, PooledWell, SeenWell, Agree
  <2> QED BY <2>1, <2>2
<1>4. Agree(q, f, gone)
  BY <1>1, <1>2, <1>3 DEF Shallow, PooledWell, SeenWell, Agree
<1> QED BY <1>4 DEF q, f

-----------------------------------------------------------------------------
(* The inductive invariant.                                                *)

Missed == {Id[r] : r \in lost}

Charged == phase # "done" /\ ~truncated =>
             admitted \subseteq Requested \union Missed \union {Id[r] : r \in waiting}

IInv ==
  /\ TypeOK
  /\ Agree(pool, ever, admitted)
  /\ IsFiniteSet(admitted) /\ Cardinality(admitted) <= PageCap
  /\ phase # "done" => ~exhausted
  /\ phase # "round" => waiting = {}
  /\ Charged
  /\ PartialIsSaid

LEMMA InitIInv == ASSUME Init PROVE IInv
<1>1. Agree(Empty, Empty, {})
  BY DEF Empty, IsPool, Headed, IsMap, Shallow, Agree
<1>2. Agree(pool, ever, {})
  <2>1. StartUrls \in Seq(Reals)
    BY CrawlAssumption
  <2>2. pool = Pooled(Empty, {}, StartUrls, 0) /\ ever = Seen(Empty, StartUrls, 0)
    BY DEF Init
  <2> QED BY <1>1, <2>1, <2>2, DiscoverKeepsShallow
<1>3. DOMAIN pages = {} /\ pages \in [DOMAIN pages -> {"read", "dead"}]
  BY DEF Init, Empty
<1>4. TypeOK
  <2>1. /\ DOMAIN pool \subseteq DOMAIN ever /\ DOMAIN ever \subseteq Identities
        /\ pool \in [DOMAIN pool -> [real : Reals, depth : Nat]]
        /\ ever \in [DOMAIN ever -> Nat]
    BY <1>2 DEF IsPool, IsMap, Entries, Agree
  <2>2. depth \in Nat /\ buffer \in Seq(Reals) /\ phase \in {"select", "round", "done"}
    BY DEF Init
  <2>3. /\ admitted \in SUBSET DOMAIN ever /\ admitted \intersect DOMAIN pool = {}
        /\ waiting \in SUBSET Reals /\ late \in SUBSET Reals
        /\ DOMAIN pages \subseteq Identities
        /\ answered \in SUBSET Reals /\ failed \in SUBSET answered /\ lost \in SUBSET Reals
    BY <1>3 DEF Init
  <2>4. {truncated, exhausted, overdue} \subseteq BOOLEAN
    BY DEF Init
  <2> QED BY <1>3, <2>1, <2>2, <2>3, <2>4 DEF TypeOK
<1>5. IsFiniteSet(admitted) /\ Cardinality(admitted) <= PageCap
  BY FS_EmptySet, CrawlAssumption DEF Init
<1> QED BY <1>2, <1>4, <1>5 DEF IInv, Init, Charged, PartialIsSaid

\* The batch of a round: pages of the pool, at least one, and no more than the cap allows.
LEMMA BatchFacts ==
  ASSUME IInv, More
  PROVE  /\ Batch \in SUBSET DOMAIN pool /\ Batch # {} /\ IsFiniteSet(Batch)
         /\ Cardinality(admitted \union Batch) <= PageCap
         /\ IsFiniteSet(admitted \union Batch)
<1> DEFINE n == Lower(PageCap - Cardinality(admitted), BatchSize)
<1>1. IsPool(pool) /\ IsFiniteSet(admitted) /\ Cardinality(admitted) \in Nat
  BY FS_CardinalityType DEF IInv, Agree
<1>2. n \in Nat \ {0} /\ n <= PageCap - Cardinality(admitted)
  BY <1>1, CrawlAssumption DEF More, Lower
<1>3. Batch = Selected(pool, n)
  BY DEF Batch
<1>4. DOMAIN pool # {}
  BY DEF More
<1> HIDE DEF n
<1>5. /\ Batch \in SUBSET DOMAIN pool /\ Batch # {} /\ IsFiniteSet(Batch)
      /\ Cardinality(Batch) <= n
  BY <1>1, <1>2, <1>3, <1>4, SelectedFacts
<1>6. /\ IsFiniteSet(admitted \union Batch)
      /\ Cardinality(admitted \union Batch)
           = Cardinality(admitted) + Cardinality(Batch) - Cardinality(admitted \intersect Batch)
  BY <1>1, <1>5, FS_Union
<1>7. Cardinality(admitted \intersect Batch) \in Nat /\ Cardinality(Batch) \in Nat
  BY <1>1, <1>5, FS_Intersection, FS_CardinalityType
<1>8. PageCap \in Nat /\ n \in Nat
  BY <1>2, CrawlAssumption
<1> QED BY <1>1, <1>2, <1>5, <1>6, <1>7, <1>8

\* Consuming it leaves pool and record in agreement, and types in place.
LEMMA ConsumeFacts ==
  ASSUME IInv, More, Consume(Batch), UNCHANGED ever
  PROVE  /\ Agree(pool', ever', admitted')
         /\ admitted' \in SUBSET DOMAIN ever' /\ depth' \in Nat /\ buffer' = <<>>
         /\ IsFiniteSet(admitted') /\ Cardinality(admitted') <= PageCap
<1>1. /\ Batch \in SUBSET DOMAIN pool /\ Batch # {}
      /\ Cardinality(admitted \union Batch) <= PageCap /\ IsFiniteSet(admitted \union Batch)
  BY BatchFacts
<1>2. Agree(pool, ever, admitted)
  BY DEF IInv
<1>3. /\ pool' = [u \in DOMAIN pool \ Batch |-> pool[u]] /\ ever' = ever
      /\ admitted' = admitted \union Batch /\ buffer' = <<>>
      /\ depth' = Least({ever[u] : u \in Batch})
  BY DEF Consume
<1>4. DOMAIN pool' = DOMAIN pool \ Batch /\ \A u \in DOMAIN pool' : pool'[u] = pool[u]
  BY <1>3
<1>5. depth' \in Nat
  <2>1. \A u \in Batch : ever[u] \in Nat
    BY <1>1, <1>2 DEF Agree, IsMap
  <2>2. {ever[u] : u \in Batch} \in SUBSET Nat /\ {ever[u] : u \in Batch} # {}
    BY <1>1, <2>1
  <2>3. PICK D : D = {ever[u] : u \in Batch}
    OBVIOUS
  <2>4. Least(D) \in D /\ D \in SUBSET Nat
    BY <2>2, <2>3, LeastIsLeast
  <2> QED BY <2>3, <2>4, <1>3
<1>6. IsPool(pool')
  <2>1. \A u \in DOMAIN pool' : pool'[u] \in Entries /\ u \in Identities
    BY <1>2, <1>4 DEF Agree, IsPool
  <2> QED BY <1>3, <1>4, <2>1 DEF IsPool
<1>7. Headed(pool') /\ Shallow(pool', ever')
  BY <1>2, <1>3, <1>4 DEF Agree, Headed, Shallow
<1>8. DOMAIN ever' = DOMAIN pool' \union admitted' /\ DOMAIN pool' \intersect admitted' = {}
  BY <1>1, <1>2, <1>3, <1>4 DEF Agree
<1>9. Agree(pool', ever', admitted')
  BY <1>2, <1>3, <1>6, <1>7, <1>8 DEF Agree
<1> QED BY <1>1, <1>3, <1>5, <1>8, <1>9

LEMMA DiscoverFacts ==
  ASSUME IInv, DiscoverBuffer, UNCHANGED admitted
  PROVE  Agree(pool', ever', admitted')
<1>1. buffer \in Seq(Reals) /\ depth + 1 \in Nat /\ Agree(pool, ever, admitted)
  BY DEF IInv, TypeOK
<1>2. Agree(Pooled(pool, admitted, buffer, depth + 1), Seen(ever, buffer, depth + 1), admitted)
  BY <1>1, DiscoverKeepsShallow
<1> QED BY <1>2 DEF DiscoverBuffer

\* The types of what Agree does not speak of.
Rest ==
  /\ depth \in Nat /\ buffer \in Seq(Reals)
  /\ waiting \in SUBSET Reals /\ late \in SUBSET Reals
  /\ DOMAIN pages \subseteq Identities /\ pages \in [DOMAIN pages -> {"read", "dead"}]
  /\ phase \in {"select", "round", "done"}
  /\ {truncated, exhausted, overdue} \subseteq BOOLEAN
  /\ answered \in SUBSET Reals /\ failed \in SUBSET answered
  /\ lost \in SUBSET Reals

LEMMA TypeParts == TypeOK => Rest
BY DEF TypeOK, Rest

LEMMA TypeWhole == Agree(pool, ever, admitted)' /\ Rest' => TypeOK'
BY DEF TypeOK, Rest, Agree, IsPool, IsMap, Entries

LEMMA RequestIds ==
  ASSUME IInv, NEW B \in SUBSET DOMAIN pool
  PROVE  /\ {pool[u].real : u \in B} \in SUBSET Reals
         /\ B \subseteq {Id[r] : r \in {pool[u].real : u \in B}}
<1>1. \A u \in B : pool[u].real \in Reals /\ Id[pool[u].real] = u
  BY DEF IInv, Agree, IsPool, Headed, Entries
<1> QED BY <1>1

LEMMA SelectIInv == ASSUME IInv, Select PROVE IInv'
<1>1. /\ Agree(pool, ever, admitted)' /\ IsFiniteSet(admitted') /\ Cardinality(admitted') <= PageCap
      /\ depth' \in Nat /\ buffer' = <<>>
  BY ConsumeFacts DEF Select
<1>2. waiting' \in SUBSET Reals /\ Batch \subseteq {Id[r] : r \in waiting'}
  BY BatchFacts, RequestIds DEF Select
<1>3. Rest'
  <2>1. <<>> \in Seq(Reals)
    OBVIOUS
  <2> QED BY <1>1, <1>2, <2>1, TypeParts DEF IInv, Rest, Select
<1>4. TypeOK'
  BY <1>1, <1>3, TypeWhole
<1>5. Charged'
  <2> SUFFICES ASSUME ~truncated
               PROVE  admitted' \subseteq Requested' \union Missed' \union {Id[r] : r \in waiting'}
    BY DEF Charged, Select
  <2>1. admitted \subseteq Requested \union Missed
    BY DEF IInv, Charged, Select
  <2>2. Requested' = Requested /\ Missed' = Missed /\ admitted' = admitted \union Batch
    BY DEF Requested, Missed, Select, Consume
  <2> QED BY <1>2, <2>1, <2>2
<1>6. phase' = "round" /\ ~exhausted'
  BY DEF Select, IInv
<1> QED BY <1>1, <1>4, <1>5, <1>6 DEF IInv, PartialIsSaid

LEMMA SelectTooLateIInv == ASSUME IInv, SelectTooLate PROVE IInv'
<1>1. /\ Agree(pool, ever, admitted)' /\ IsFiniteSet(admitted') /\ Cardinality(admitted') <= PageCap
      /\ depth' \in Nat /\ buffer' = <<>>
  BY ConsumeFacts DEF SelectTooLate
<1>2. Rest'
  <2>1. <<>> \in Seq(Reals)
    OBVIOUS
  <2> QED BY <1>1, <2>1, TypeParts DEF IInv, Rest, SelectTooLate
<1>3. TypeOK'
  BY <1>1, <1>2, TypeWhole
<1>4. phase' = "done" /\ exhausted' = TRUE /\ waiting' = {}
  BY DEF SelectTooLate, IInv
<1> QED BY <1>1, <1>3, <1>4 DEF IInv, PartialIsSaid, Charged

LEMMA FinishIInv == ASSUME IInv, Finish PROVE IInv'
<1>1. /\ Agree(pool, ever, admitted)' /\ IsFiniteSet(admitted') /\ Cardinality(admitted') <= PageCap
  BY DEF Finish, IInv
<1>2. Rest'
  BY TypeParts DEF IInv, Rest, Finish
<1>3. TypeOK'
  BY <1>1, <1>2, TypeWhole
<1>4. PartialIsSaid'
  <2> SUFFICES ASSUME ~truncated
               PROVE  /\ admitted \subseteq Requested \union Missed
                      /\ DOMAIN pool = {} \/ Cardinality(admitted) = PageCap
    BY DEF Finish, PartialIsSaid, Requested, Missed
  <2>1. admitted \subseteq Requested \union Missed
    BY DEF IInv, Charged, Finish
  <2>2. Cardinality(admitted) \in Nat /\ Cardinality(admitted) <= PageCap /\ PageCap \in Nat
    BY FS_CardinalityType, CrawlAssumption DEF IInv
  <2>3. DOMAIN pool = {} \/ ~(Cardinality(admitted) < PageCap)
    BY DEF Finish, More
  <2>4. ~(Cardinality(admitted) < PageCap) => Cardinality(admitted) = PageCap
    BY <2>2
  <2> QED BY <2>1, <2>3, <2>4
<1>5. phase' = "done" /\ waiting' = {}
  BY DEF Finish, IInv
<1> QED BY <1>1, <1>3, <1>4, <1>5 DEF IInv, Charged

LEMMA RoundEndsIInv == ASSUME IInv, RoundEnds PROVE IInv'
<1>1. /\ Agree(pool, ever, admitted)' /\ IsFiniteSet(admitted') /\ Cardinality(admitted') <= PageCap
  BY DiscoverFacts DEF RoundEnds, IInv
<1>2. Rest'
  BY TypeParts DEF IInv, Rest, RoundEnds
<1>3. TypeOK'
  BY <1>1, <1>2, TypeWhole
<1>4. Charged'
  BY DEF Charged, RoundEnds, IInv, Requested, Missed
<1>5. phase' = "select" /\ waiting' = {} /\ ~exhausted'
  BY DEF RoundEnds, IInv
<1> QED BY <1>1, <1>3, <1>4, <1>5 DEF IInv, PartialIsSaid

LEMMA StopRoundIInv == ASSUME IInv, StopRound PROVE IInv'
<1>1. /\ Agree(pool, ever, admitted)' /\ IsFiniteSet(admitted') /\ Cardinality(admitted') <= PageCap
  BY DiscoverFacts DEF StopRound, IInv
<1>2. Rest'
  <2>1. late' \in SUBSET Reals
    BY TypeParts DEF StopRound, IInv, Rest
  <2>2. exhausted' \in BOOLEAN /\ truncated' \in BOOLEAN /\ overdue' \in BOOLEAN
    BY TypeParts DEF StopRound, Cut, IInv, Rest
  <2>3. phase' \in {"select", "round", "done"} /\ waiting' \in SUBSET Reals
    BY DEF StopRound
  <2> QED BY <2>1, <2>2, <2>3, TypeParts DEF IInv, Rest, StopRound
<1>3. TypeOK'
  BY <1>1, <1>2, TypeWhole
<1>4. waiting' = {} /\ truncated' = TRUE
  BY DEF StopRound, Cut
<1>5. CASE overdue
  <2>1. phase' = "done" /\ exhausted' = TRUE
    BY <1>5 DEF StopRound, Cut
  <2> QED BY <1>1, <1>3, <1>4, <2>1 DEF IInv, PartialIsSaid, Charged
<1>6. CASE ~overdue
  <2>1. phase' = "select" /\ ~exhausted'
    BY <1>6 DEF StopRound, Cut, IInv
  <2> QED BY <1>1, <1>3, <1>4, <2>1 DEF IInv, PartialIsSaid, Charged
<1> QED BY <1>5, <1>6

LEMMA RunRejectsIInv == ASSUME IInv, RunRejects PROVE IInv'
<1>1. /\ Agree(pool, ever, admitted)' /\ IsFiniteSet(admitted') /\ Cardinality(admitted') <= PageCap
  BY DiscoverFacts DEF RunRejects, IInv
<1>2. Rest'
  <2>1. late' \in SUBSET Reals /\ lost' \in SUBSET Reals
    BY TypeParts DEF RunRejects, IInv, Rest
  <2>2. phase' \in {"select", "round", "done"} /\ waiting' \in SUBSET Reals
    BY DEF RunRejects
  <2> QED BY <2>1, <2>2, TypeParts DEF IInv, Rest, RunRejects
<1>3. TypeOK'
  BY <1>1, <1>2, TypeWhole
<1>4. Missed' = Missed \union {Id[r] : r \in waiting}
  BY DEF Missed, RunRejects
<1>5. Charged'
  <2>1. Requested' = Requested /\ admitted' = admitted /\ phase = "round"
        /\ truncated' = truncated
    BY DEF Requested, RunRejects
  <2> QED BY <1>4, <2>1 DEF IInv, Charged
<1>6. phase' = "select" /\ waiting' = {} /\ ~exhausted'
  BY DEF RunRejects, IInv
<1> QED BY <1>1, <1>3, <1>5, <1>6 DEF IInv, PartialIsSaid

LEMMA DeadlinePassesIInv == ASSUME IInv, DeadlinePasses PROVE IInv'
<1>1. /\ Agree(pool, ever, admitted)' /\ IsFiniteSet(admitted') /\ Cardinality(admitted') <= PageCap
  BY DEF DeadlinePasses, IInv
<1>2. Rest'
  BY TypeParts DEF IInv, Rest, DeadlinePasses
<1>3. TypeOK'
  BY <1>1, <1>2, TypeWhole
<1>4. Charged' /\ PartialIsSaid'
  BY DEF Charged, PartialIsSaid, DeadlinePasses, IInv, Requested, Missed
<1> QED BY <1>1, <1>3, <1>4 DEF IInv, DeadlinePasses

-----------------------------------------------------------------------------
(* The handlers.                                                           *)

LEMMA StoredFacts ==
  ASSUME Rest, NEW u \in Identities, NEW page \in {"read", "dead"}
  PROVE  /\ DOMAIN Stored(u, page) = DOMAIN pages \union {u}
         /\ Stored(u, page) \in [DOMAIN Stored(u, page) -> {"read", "dead"}]
         /\ DOMAIN Stored(u, page) \subseteq Identities
         /\ \A v \in DOMAIN pages : v # u => Stored(u, page)[v] = pages[v]
         /\ Stored(u, page)[u] = page
BY DEF Rest, Stored

LEMMA AnswerFacts ==
  ASSUME Rest, NEW r \in Reals, Answer(r)
  PROVE  /\ answered' = answered \union {r} /\ failed' \in SUBSET answered'
         /\ buffer' \in Seq(Reals)
         /\ DOMAIN pages' \subseteq Identities
         /\ pages' \in [DOMAIN pages' -> {"read", "dead"}]
<1>1. CASE Read(r)
  <2>1. answered' = answered \union {r} /\ failed' \in SUBSET answered'
    BY <1>1 DEF Read, Rest
  <2>2. CASE Lands[r] = Offsite
    BY <1>1, <2>1, <2>2 DEF Read, Rest
  <2>3. CASE Lands[r] # Offsite
    <3>1. Lands[r] \in Identities /\ Links[r] \in Seq(Reals)
      BY <2>3, CrawlAssumption
    <3>2. pages' = Stored(Lands[r], "read") /\ buffer' = buffer \o Links[r]
      BY <1>1, <2>3 DEF Read
    <3>3. buffer' \in Seq(Reals)
      BY <3>1, <3>2 DEF Rest
    <3> QED BY <2>1, <3>1, <3>2, <3>3, StoredFacts
  <2> QED BY <2>2, <2>3
<1>2. CASE Fails(r)
  <2>1. Id[r] \in Identities
    BY DEF Identities
  <2>2. answered' = answered \union {r} /\ failed' \in SUBSET answered' /\ buffer' \in Seq(Reals)
    BY <1>2 DEF Fails, Rest
  <2>3. pages' = pages \/ pages' = Stored(Id[r], "dead")
    BY <1>2 DEF Fails, DeadPage
  <2> QED BY <2>1, <2>2, <2>3, StoredFacts DEF Rest
<1> QED BY <1>1, <1>2 DEF Answer

LEMMA AnsweredIInv ==
  ASSUME IInv, NEW r \in waiting \union late, Answer(r),
         \/ r \in waiting /\ waiting' = waiting \ {r} /\ UNCHANGED late
         \/ late' = late \ {r} /\ UNCHANGED waiting,
         UNCHANGED <<pool, ever, admitted, depth, phase, truncated, exhausted, overdue,
                     lost>>
  PROVE  IInv'
<1>0. Rest
  BY TypeParts DEF IInv
<1>1. r \in Reals
  BY <1>0 DEF Rest
<1>2. /\ answered' = answered \union {r} /\ failed' \in SUBSET answered'
      /\ buffer' \in Seq(Reals)
      /\ DOMAIN pages' \subseteq Identities
      /\ pages' \in [DOMAIN pages' -> {"read", "dead"}]
  BY <1>0, <1>1, AnswerFacts
<1>3. Rest'
  BY <1>0, <1>1, <1>2 DEF Rest
<1>4. Agree(pool, ever, admitted)' /\ IsFiniteSet(admitted') /\ Cardinality(admitted') <= PageCap
  BY DEF IInv
<1>5. TypeOK'
  BY <1>3, <1>4, TypeWhole
<1>6. phase = "round"
  BY DEF Answer
<1>7. Charged'
  <2> SUFFICES ASSUME ~truncated
               PROVE  admitted' \subseteq Requested' \union Missed' \union {Id[s] : s \in waiting'}
    BY DEF Charged
  <2>1. admitted \subseteq Requested \union Missed \union {Id[s] : s \in waiting}
    BY <1>6 DEF IInv, Charged
  <2>2. Requested' = Requested \union {Id[r]} /\ Missed' = Missed
    BY <1>2 DEF Requested, Missed
  <2>3. \A s \in waiting : s = r \/ s \in waiting'
    OBVIOUS
  <2> QED BY <2>1, <2>2, <2>3
<1> QED BY <1>4, <1>5, <1>6, <1>7 DEF IInv, PartialIsSaid

LEMMA NextIInv == ASSUME IInv, [Next]_vars PROVE IInv'
<1>1. CASE Loop
  BY <1>1, SelectIInv, SelectTooLateIInv, FinishIInv, RoundEndsIInv, StopRoundIInv DEF Loop
<1>2. CASE StopRound
  BY <1>2, StopRoundIInv
<1>3. CASE DeadlinePasses \/ RunRejects
  BY <1>3, DeadlinePassesIInv, RunRejectsIInv
<1>4. CASE Answered
  <2>1. PICK r \in waiting : Answer(r) /\ waiting' = waiting \ {r}
    BY <1>4 DEF Answered
  <2> QED BY <1>4, <2>1, AnsweredIInv DEF Answered
<1>5. CASE AnsweredLate
  <2>1. PICK r \in late : Answer(r) /\ late' = late \ {r}
    BY <1>5 DEF AnsweredLate
  <2> QED BY <1>5, <2>1, AnsweredIInv DEF AnsweredLate
<1>6. CASE UNCHANGED vars
  <2>1. /\ pool' = pool /\ ever' = ever /\ admitted' = admitted /\ depth' = depth
        /\ buffer' = buffer /\ waiting' = waiting /\ late' = late /\ pages' = pages
        /\ phase' = phase /\ truncated' = truncated /\ exhausted' = exhausted
        /\ overdue' = overdue /\ answered' = answered /\ failed' = failed /\ lost' = lost
    BY <1>6 DEF vars
  <2> QED BY <2>1 DEF IInv, TypeOK, Charged, PartialIsSaid, Requested, Missed
<1> QED BY <1>1, <1>2, <1>3, <1>4, <1>5, <1>6 DEF Next

-----------------------------------------------------------------------------
\* The inductive invariant, with the page cap of packages/engine/src/crawler.ts: what is
\* charged never exceeds it, whatever the site links to and whenever rounds are cut.
THEOREM CrawlInvariant == Spec => []IInv
<1>1. Init => IInv
  BY InitIInv
<1>2. IInv /\ [Next]_vars => IInv'
  BY NextIInv
<1> QED BY <1>1, <1>2, PTL DEF Spec

\* Every variable keeps its type, and no identity is both in the pool and admitted.
THEOREM Typing == Spec => []TypeOK
<1>1. IInv => TypeOK
  BY DEF IInv
<1> QED BY <1>1, CrawlInvariant, PTL

\* discover keeps every waiting page at the shallowest depth it was found at, for every
\* site and every order of the answers.
THEOREM PoolStaysShallow == Spec => []PoolShallow
<1>1. IInv => PoolShallow
  BY DEF IInv, Agree, Shallow, PoolShallow
<1> QED BY <1>1, CrawlInvariant, PTL

\* A crawl that does not say budgetExhausted has an answer to all it charged, but for the
\* requests of a rejected run, and left nothing but for the cap.
THEOREM PartialIsAlwaysSaid == Spec => []PartialIsSaid
<1>1. IInv => PartialIsSaid
  BY DEF IInv
<1> QED BY <1>1, CrawlInvariant, PTL

\* No failure, in its round or late, takes a page that was read.
THEOREM ReadPagesStay == Spec => ReadStays
<1> DEFINE A == \A u \in DOMAIN pages : pages[u] = "read" =>
                  u \in DOMAIN pages' /\ pages'[u] = "read"
<1>1. IInv /\ [Next]_vars => [A]_vars
  <2> SUFFICES ASSUME IInv, Next PROVE A
    OBVIOUS
  <2>1. ASSUME NEW r \in Reals, Answer(r) PROVE A
    <3>1. Rest
      BY TypeParts DEF IInv
    <3>2. CASE pages' = pages
      BY <3>2
    <3>3. CASE Read(r) /\ Lands[r] # Offsite
      <4>1. Lands[r] \in Identities /\ pages' = Stored(Lands[r], "read")
        BY <3>3, CrawlAssumption DEF Read
      <4>2. /\ DOMAIN pages' = DOMAIN pages \union {Lands[r]}
            /\ \A v \in DOMAIN pages : v # Lands[r] => pages'[v] = pages[v]
            /\ pages'[Lands[r]] = "read"
        BY <3>1, <4>1, StoredFacts
      <4>3. \A v \in DOMAIN pages : v \in DOMAIN pages' /\ (pages[v] = "read" => pages'[v] = "read")
        BY <4>2
      <4> QED BY <4>3
    <3>4. CASE Fails(r) /\ Id[r] \notin DOMAIN pages
      <4>1. Id[r] \in Identities /\ pages' = Stored(Id[r], "dead")
        BY <3>4 DEF Fails, DeadPage, Identities
      <4>2. /\ DOMAIN pages' = DOMAIN pages \union {Id[r]}
            /\ \A v \in DOMAIN pages : v # Id[r] => pages'[v] = pages[v]
        BY <3>1, <4>1, StoredFacts
      <4> QED BY <3>4, <4>2
    <3> QED BY <2>1, <3>2, <3>3, <3>4 DEF Answer, Read, Fails, DeadPage
  <2>2. waiting \in SUBSET Reals /\ late \in SUBSET Reals
    BY TypeParts DEF IInv, Rest
  <2>3. CASE Answered
    BY <2>1, <2>2, <2>3 DEF Answered
  <2>4. CASE AnsweredLate
    BY <2>1, <2>2, <2>4 DEF AnsweredLate
  <2>5. CASE Loop \/ StopRound \/ RunRejects \/ DeadlinePasses
    <3>1. pages' = pages
      BY <2>5 DEF Loop, Select, SelectTooLate, Finish, RoundEnds, StopRound, RunRejects,
                  DeadlinePasses
    <3> QED BY <3>1
  <2> QED BY <2>3, <2>4, <2>5 DEF Next
<1> QED BY <1>1, CrawlInvariant, PTL DEF Spec, ReadStays

\* Every round is shared out over the templates that have pages waiting, slot by slot and
\* from the nearest page on, for every site and whatever was discovered before it.
THEOREM RoundsAreShared == Spec => FairShare
<1> DEFINE batch == admitted' \ admitted
           slots(u) == Cardinality({w \in batch : Template[w] = Template[u]})
           A == \A u \in batch, v \in DOMAIN pool \intersect DOMAIN pool' :
                  /\ slots(u) <= slots(v) + 1
                  /\ Template[u] = Template[v] => pool[u].depth <= pool[v].depth
<1>1. IInv /\ [Next]_vars => [A]_vars
  <2> SUFFICES ASSUME IInv, Next PROVE A
    OBVIOUS
  <2>1. CASE admitted' = admitted
    BY <2>1
  <2>2. CASE More /\ Consume(Batch)
    <3> DEFINE n == Lower(PageCap - Cardinality(admitted), BatchSize)
    <3>1. Batch \in SUBSET DOMAIN pool /\ IsPool(pool) /\ DOMAIN pool \intersect admitted = {}
      BY <2>2, BatchFacts DEF IInv, Agree
    <3>2. n \in Nat \ {0}
      <4>1. Cardinality(admitted) \in Nat
        BY FS_CardinalityType DEF IInv
      <4> QED BY <4>1, <2>2, CrawlAssumption DEF More, Lower
    <3>3. Batch = Selected(pool, n)
      BY DEF Batch
    <3> HIDE DEF n
    <3>4. admitted' = admitted \union Batch /\ DOMAIN pool' = DOMAIN pool \ Batch
      BY <2>2 DEF Consume
    <3>5. batch = Selected(pool, n)
      BY <3>1, <3>3, <3>4
    <3>6. DOMAIN pool \intersect DOMAIN pool' = DOMAIN pool \ Selected(pool, n)
      BY <3>3, <3>4
    <3>7. \A u : slots(u) = Cardinality(SlotsOf(pool, n, Template[u]))
      BY <3>5 DEF SlotsOf
    <3> HIDE DEF batch, slots
    <3> QED BY <3>1, <3>2, <3>5, <3>6, <3>7, RoundIsShared
  <2>3. admitted' = admitted \/ (More /\ Consume(Batch))
    BY DEF Next, Loop, Select, SelectTooLate, Finish, RoundEnds, StopRound, RunRejects,
           DeadlinePasses, Answered, AnsweredLate
  <2> QED BY <2>1, <2>2, <2>3
<1> QED BY <1>1, CrawlInvariant, PTL DEF Spec, FairShare

-----------------------------------------------------------------------------
(* A round taken slot by slot is what selectFrontier picks at once.        *)

Ahead(p, u) == {v \in DOMAIN p : RoundRobin(p, v, u)}

\* The round robin is a strict total order, in which who comes first has fewer ahead.
LEMMA RoundRobinFacts ==
  ASSUME NEW p, IsPool(p)
  PROVE  /\ \A u \in DOMAIN p : IsFiniteSet(Ahead(p, u)) /\ Cardinality(Ahead(p, u)) \in Nat
         /\ \A u \in DOMAIN p : ~RoundRobin(p, u, u)
         /\ \A u, v \in DOMAIN p : u # v => RoundRobin(p, u, v) \/ RoundRobin(p, v, u)
         /\ \A u, v \in DOMAIN p : RoundRobin(p, v, u) => ~RoundRobin(p, u, v)
         /\ \A u, v \in DOMAIN p : RoundRobin(p, v, u) =>
              Cardinality(Ahead(p, v)) < Cardinality(Ahead(p, u))
<1>1. \A u \in DOMAIN p : Pass(p, u) \in Nat /\ Template[u] \in Nat
  BY PassFacts, EntryFacts
<1>2. ASSUME NEW u \in DOMAIN p PROVE IsFiniteSet(Ahead(p, u)) /\ Cardinality(Ahead(p, u)) \in Nat
  <2>1. IsFiniteSet(DOMAIN p)
    BY IdentityFacts, FS_Subset DEF IsPool
  <2>2. Ahead(p, u) \in SUBSET DOMAIN p
    BY DEF Ahead
  <2> QED BY <2>1, <2>2, FS_Subset, FS_CardinalityType
<1>3. \A u \in DOMAIN p : ~RoundRobin(p, u, u)
  BY <1>1 DEF RoundRobin
<1>4. \A u, v \in DOMAIN p : u # v => RoundRobin(p, u, v) \/ RoundRobin(p, v, u)
  <2> SUFFICES ASSUME NEW u \in DOMAIN p, NEW v \in DOMAIN p, u # v
               PROVE  RoundRobin(p, u, v) \/ RoundRobin(p, v, u)
    OBVIOUS
  <2>1. Template[u] # Template[v] \/ Pass(p, u) # Pass(p, v)
    BY PassFacts
  <2> QED BY <2>1, <1>1 DEF RoundRobin
<1>5. \A u, v, w \in DOMAIN p : RoundRobin(p, w, v) /\ RoundRobin(p, v, u) => RoundRobin(p, w, u)
  <2> SUFFICES ASSUME NEW u \in DOMAIN p, NEW v \in DOMAIN p, NEW w \in DOMAIN p,
                      RoundRobin(p, w, v), RoundRobin(p, v, u)
               PROVE  RoundRobin(p, w, u)
    OBVIOUS
  <2> QED BY <1>1 DEF RoundRobin
<1>6. ASSUME NEW u \in DOMAIN p, NEW v \in DOMAIN p, RoundRobin(p, v, u)
      PROVE  Cardinality(Ahead(p, v)) < Cardinality(Ahead(p, u))
  <2>1. Ahead(p, v) \in SUBSET Ahead(p, u)
    BY <1>5, <1>6 DEF Ahead
  <2>2. v \in Ahead(p, u) /\ v \notin Ahead(p, v)
    BY <1>3, <1>6 DEF Ahead
  <2>3. /\ Cardinality(Ahead(p, v)) <= Cardinality(Ahead(p, u))
        /\ Cardinality(Ahead(p, v)) # Cardinality(Ahead(p, u))
    BY <2>1, <2>2, <1>2, FS_Subset
  <2> QED BY <2>3, <1>2
<1> QED BY <1>2, <1>3, <1>4, <1>5, <1>6

\* The picks of k slots, for no slots also.
LEMMA PicksAre ==
  ASSUME NEW p, IsPool(p), NEW k \in Nat
  PROVE  /\ Selected(p, k) = {u \in DOMAIN p : Cardinality(Ahead(p, u)) < k}
         /\ IsFiniteSet(Selected(p, k)) /\ Cardinality(Selected(p, k)) <= k
         /\ Cardinality(Selected(p, k)) \in Nat
<1>1. Selected(p, k) = {u \in DOMAIN p : Cardinality(Ahead(p, u)) < k}
  BY ShareCapNeverDecides DEF Ahead
<1>2. CASE k = 0
  <2>1. Selected(p, k) = {}
    BY <1>1, <1>2, RoundRobinFacts
  <2> QED BY <1>1, <1>2, <2>1, FS_EmptySet
<1>3. CASE k # 0
  BY <1>1, <1>3, SelectedFacts, FS_CardinalityType
<1> QED BY <1>2, <1>3

\* The next of the round robin is who has all that are left behind.
LEMMA NextPick ==
  ASSUME NEW p, IsPool(p), NEW k \in Nat, NEW u \in DOMAIN p \ Selected(p, k)
  PROVE  u \in Selected(p, k + 1) <=>
           \A v \in (DOMAIN p \ Selected(p, k)) \ {u} : RoundRobin(p, u, v)
<1> DEFINE S == Selected(p, k)
<1>1. Cardinality(Ahead(p, u)) \in Nat /\ ~(Cardinality(Ahead(p, u)) < k)
  BY PicksAre, RoundRobinFacts
<1>2. u \in Selected(p, k + 1) <=> Cardinality(Ahead(p, u)) < k + 1
  BY PicksAre
<1>3. ASSUME u \in Selected(p, k + 1), NEW v \in (DOMAIN p \ S) \ {u}
      PROVE  RoundRobin(p, u, v)
  <2>1. SUFFICES ASSUME RoundRobin(p, v, u) PROVE FALSE
    BY RoundRobinFacts
  <2>2. /\ Cardinality(Ahead(p, v)) < Cardinality(Ahead(p, u))
        /\ Cardinality(Ahead(p, v)) \in Nat
    BY <2>1, RoundRobinFacts
  <2>3. ~(Cardinality(Ahead(p, v)) < k)
    BY PicksAre
  <2>4. Cardinality(Ahead(p, u)) < k + 1
    BY <1>2, <1>3
  <2> QED BY <1>1, <2>2, <2>3, <2>4
<1>4. ASSUME \A v \in (DOMAIN p \ S) \ {u} : RoundRobin(p, u, v)
      PROVE  u \in Selected(p, k + 1)
  <2>1. Ahead(p, u) \in SUBSET S
    <3> SUFFICES ASSUME NEW v \in DOMAIN p, RoundRobin(p, v, u), v \notin S PROVE FALSE
      BY DEF Ahead
    <3> QED BY <1>4, RoundRobinFacts
  <2>2. Cardinality(Ahead(p, u)) <= Cardinality(S) /\ Cardinality(S) <= k /\ Cardinality(S) \in Nat
    BY <2>1, PicksAre, FS_Subset
  <2>3. Cardinality(Ahead(p, u)) < k + 1
    BY <1>1, <2>2
  <2> QED BY <1>2, <2>3
<1> QED BY <1>3, <1>4

\* The first in the round robin of what is left gets the next slot, and nobody else does.
LEMMA SlotIsNextPick ==
  ASSUME NEW p, IsPool(p), NEW e, Shallow(p, e), NEW k \in Nat
  PROVE  LET S == Selected(p, k)
         IN  S \union NextSlot(e, DOMAIN p \ S, S) = Selected(p, k + 1)
<1> DEFINE S == Selected(p, k)
           left == DOMAIN p \ S
           s(u) == SlotsIn(S, u)
<1>0. S \in SUBSET DOMAIN p
  BY DEF Selected
<1>1. ASSUME NEW u \in DOMAIN p
      PROVE  /\ s(u) \in Nat /\ s(u) = Cardinality(SlotsOf(p, k, Template[u]))
             /\ IsFiniteSet(SlotsOf(p, k, Template[u]))
  <2>1. s(u) = Cardinality(SlotsOf(p, k, Template[u]))
    BY DEF SlotsIn, SlotsOf
  <2>2. SlotsOf(p, k, Template[u]) \in SUBSET S
    BY DEF SlotsOf
  <2> QED BY <2>1, <2>2, PicksAre, FS_Subset, FS_CardinalityType
<1>2. \A u \in DOMAIN p : Pass(p, u) \in Nat /\ Template[u] \in Nat /\ Key[u] \in Nat
                          /\ p[u].depth \in Nat /\ e[u] = p[u].depth
  BY PassFacts, EntryFacts DEF Shallow
<1>3. ASSUME NEW u \in left, \A v \in left \ {u} : RoundRobin(p, u, v), NEW v \in left \ {u}
      PROVE  Precedes(e, S, u, v)
  <2>1. CASE Template[u] = Template[v]
    <3>1. RoundRobin(p, u, v)
      BY <1>3
    <3>2. Pass(p, u) < Pass(p, v)
      BY <1>2, <2>1, <3>1 DEF RoundRobin
    <3>3. Nearer(p, v, u) => Pass(p, v) < Pass(p, u)
      BY <2>1, PassFacts
    <3>4. ~Nearer(p, v, u)
      BY <1>2, <3>2, <3>3
    <3>5. Key[u] # Key[v]
      BY <1>3, EntryFacts, CrawlAssumption
    <3> QED BY <1>2, <2>1, <3>4, <3>5 DEF Nearer, SampleKey, Precedes
  <2>2. CASE Template[u] # Template[v]
    <3>1. s(u) <= Pass(p, u)
      <4> DEFINE A == {x \in DOMAIN p : Template[x] = Template[u] /\ Nearer(p, x, u)}
                 T == SlotsOf(p, k, Template[u])
      <4>1. T \in SUBSET A
        <5> SUFFICES ASSUME NEW x \in S, Template[x] = Template[u] PROVE Nearer(p, x, u)
          BY <1>0 DEF SlotsOf
        <5>1. ~RoundRobin(p, u, x) /\ x \in DOMAIN p /\ x # u
          BY <1>0, PicksAreFirst
        <5>2. ~(Pass(p, u) < Pass(p, x))
          BY <5>1 DEF RoundRobin
        <5>3. Nearer(p, u, x) => Pass(p, u) < Pass(p, x)
          BY <5>1, PassFacts
        <5>4. Key[x] # Key[u]
          BY <5>1, EntryFacts, CrawlAssumption
        <5> QED BY <1>2, <5>1, <5>2, <5>3, <5>4 DEF Nearer, SampleKey
      <4>2. Pass(p, u) = Cardinality(A)
        BY DEF Pass
      <4>3. IsFiniteSet(A)
        <5>1. A \in SUBSET DOMAIN p /\ IsFiniteSet(DOMAIN p)
          BY IdentityFacts, FS_Subset DEF IsPool
        <5> HIDE DEF A
        <5> QED BY <5>1, FS_Subset
      <4>4. s(u) = Cardinality(T)
        BY <1>1
      <4> HIDE DEF A, T, s
      <4> QED BY <4>1, <4>2, <4>3, <4>4, FS_Subset
    <3>2. PICK w \in left : Template[w] = Template[v] /\ Pass(p, w) <= s(v)
      <4>1. s(v) = Cardinality(SlotsOf(p, k, Template[v]))
        BY <1>1
      <4> QED BY <4>1, FirstLeft
    <3>3. RoundRobin(p, u, w)
      BY <1>3, <2>2, <3>2
    <3>4. PICK a, b \in Nat : a = s(u) /\ b = s(v)
      BY <1>1
    <3>5. a < b \/ (a = b /\ Template[u] < Template[v])
      <4>1. Pass(p, u) \in Nat /\ Pass(p, w) \in Nat
        BY <1>2
      <4>2. Pass(p, u) < Pass(p, w) \/ (Pass(p, u) = Pass(p, w) /\ Template[u] < Template[v])
        BY <3>2, <3>3 DEF RoundRobin
      <4>3. a <= Pass(p, u) /\ Pass(p, w) <= b
        BY <3>1, <3>2, <3>4
      <4> QED BY <4>1, <4>2, <4>3
    <3> QED BY <3>4, <3>5 DEF Precedes
  <2> QED BY <2>1, <2>2
<1>4. \A u, v \in left : u # v => ~(Precedes(e, S, u, v) /\ Precedes(e, S, v, u))
  <2> SUFFICES ASSUME NEW u \in left, NEW v \in left, u # v,
                      Precedes(e, S, u, v), Precedes(e, S, v, u)
               PROVE  FALSE
    OBVIOUS
  <2>1. PICK a, b \in Nat : a = s(u) /\ b = s(v)
    BY <1>1
  <2>2. Template[u] = Template[v] => a = b
    BY <2>1 DEF SlotsIn
  <2>3. /\ \/ a < b
           \/ a = b /\ Template[u] < Template[v]
           \/ Template[u] = Template[v] /\ (e[u] < e[v] \/ (e[u] = e[v] /\ Key[u] < Key[v]))
        /\ \/ b < a
           \/ b = a /\ Template[v] < Template[u]
           \/ Template[v] = Template[u] /\ (e[v] < e[u] \/ (e[v] = e[u] /\ Key[v] < Key[u]))
    BY <2>1 DEF Precedes
  <2>4. /\ Template[u] \in Nat /\ Template[v] \in Nat /\ e[u] \in Nat /\ e[v] \in Nat
        /\ Key[u] \in Nat /\ Key[v] \in Nat
    BY <1>2
  <2> QED BY <2>2, <2>3, <2>4
<1>5. ASSUME left # {}
      PROVE  \E u \in left : \A v \in left \ {u} : RoundRobin(p, u, v)
  <2> DEFINE C == {Cardinality(Ahead(p, u)) : u \in left}
  <2>1. C \in SUBSET Nat /\ C # {}
    BY <1>5, RoundRobinFacts
  <2>2. \E c \in C : \A d \in C : c <= d
    <3> HIDE DEF C
    <3> QED BY <2>1, LeastOfNaturals
  <2>3. PICK u \in left : \A v \in left : Cardinality(Ahead(p, u)) <= Cardinality(Ahead(p, v))
    BY <2>2
  <2>4. ASSUME NEW v \in left \ {u} PROVE RoundRobin(p, u, v)
    <3>1. SUFFICES ASSUME RoundRobin(p, v, u) PROVE FALSE
      BY RoundRobinFacts
    <3>2. /\ Cardinality(Ahead(p, v)) < Cardinality(Ahead(p, u))
          /\ Cardinality(Ahead(p, v)) \in Nat /\ Cardinality(Ahead(p, u)) \in Nat
      BY <3>1, RoundRobinFacts
    <3> QED BY <2>3, <3>2
  <2> QED BY <2>4
<1> DEFINE N == NextSlot(e, left, S)
<1>6. N = {u \in left : \A v \in left \ {u} : Precedes(e, S, u, v)}
  BY DEF NextSlot
<1> HIDE DEF N, s
<1>7. \A u \in left : u \in N <=> \A v \in left \ {u} : RoundRobin(p, u, v)
  <2>1. ASSUME NEW u \in left, \A v \in left \ {u} : RoundRobin(p, u, v) PROVE u \in N
    BY <1>3, <1>6, <2>1
  <2>2. ASSUME NEW u \in N, NEW w \in left, \A v \in left \ {w} : RoundRobin(p, w, v)
        PROVE  u = w
    BY <1>4, <1>6, <2>1, <2>2
  <2> QED BY <1>5, <1>6, <2>1, <2>2
<1>8. \A u \in left : u \in N <=> u \in Selected(p, k + 1)
  BY <1>7, NextPick
<1>9. S \in SUBSET Selected(p, k + 1) /\ Selected(p, k + 1) \in SUBSET DOMAIN p
  <2>1. \A u \in DOMAIN p : Cardinality(Ahead(p, u)) \in Nat
    BY RoundRobinFacts
  <2>2. S = {u \in DOMAIN p : Cardinality(Ahead(p, u)) < k}
    BY PicksAre
  <2>3. Selected(p, k + 1) = {u \in DOMAIN p : Cardinality(Ahead(p, u)) < k + 1}
    BY PicksAre
  <2> QED BY <2>1, <2>2, <2>3
<1>10. N \in SUBSET left
  BY <1>6
<1>11. S \union N = Selected(p, k + 1)
  <2> HIDE DEF S
  <2> QED BY <1>8, <1>9, <1>10
<1> QED BY <1>11 DEF N

\* Induction over the naturals, of a set.
LEMMA NatInd ==
  ASSUME NEW P, 0 \in P, \A n \in Nat : n \in P => n + 1 \in P
  PROVE  Nat \subseteq P
<1> SUFFICES ASSUME ~(Nat \subseteq P) PROVE FALSE
  OBVIOUS
<1> DEFINE T == {n \in Nat : n \notin P}
<1>1. \E x \in T : \A y \in T : x <= y
  <2>1. T \in SUBSET Nat /\ T # {}
    OBVIOUS
  <2> HIDE DEF T
  <2> QED BY <2>1, LeastOfNaturals
<1>2. PICK x \in Nat : x \notin P /\ \A y \in Nat : y \notin P => x <= y
  BY <1>1
<1>3. x # 0 /\ x - 1 \in Nat /\ ~(x <= x - 1) /\ (x - 1) + 1 = x
  BY <1>2
<1> QED BY <1>2, <1>3

\* A round of the reference is a round of the crawl, over a pool of all that was
\* discovered and not taken.
LEMMA RoundIsSelected ==
  ASSUME NEW p, IsPool(p), NEW e, Shallow(p, e), NEW taken, DOMAIN p = DOMAIN e \ taken,
         NEW n \in Nat
  PROVE  RoundOf(e, taken, n) = Selected(p, n)
<1> DEFINE next(b) == b \union NextSlot(e, DOMAIN e \ (taken \union b), b)
           body(f) == [k \in 0..n |-> IF k = 0 THEN {} ELSE next(f[k - 1])]
           h == CHOOSE f : f = body(f)
           g == [k \in 0..n |-> Selected(p, k)]
<1>1. \A b : DOMAIN e \ (taken \union b) = DOMAIN p \ b
  OBVIOUS
<1>2. \A k \in Nat : next(Selected(p, k)) = Selected(p, k + 1)
  BY <1>1, SlotIsNextPick
<1>3. RoundOf(e, taken, n) = h[n]
  BY DEF RoundOf
<1> HIDE DEF next
<1>4. g = body(g)
  <2>1. Selected(p, 0) = {}
    BY PicksAre, RoundRobinFacts
  <2>2. ASSUME NEW k \in 0..n PROVE g[k] = IF k = 0 THEN {} ELSE next(g[k - 1])
    <3>1. CASE k = 0
      BY <2>1, <3>1
    <3>2. CASE k # 0
      <4>1. k - 1 \in Nat /\ k - 1 \in 0..n /\ (k - 1) + 1 = k
        BY <3>2
      <4>2. g[k - 1] = Selected(p, k - 1) /\ g[k] = Selected(p, k)
        BY <4>1
      <4> HIDE DEF g
      <4> QED BY <1>2, <3>2, <4>1, <4>2
    <3> QED BY <3>1, <3>2
  <2>3. g = [k \in 0..n |-> g[k]]
    OBVIOUS
  <2> HIDE DEF g
  <2> QED BY <2>2, <2>3
<1>5. h = body(h)
  <2> HIDE DEF g, body
  <2> QED BY <1>4
<1> HIDE DEF h
<1>6. /\ h[0] = {}
      /\ \A k \in Nat : k + 1 \in 0..n => h[k + 1] = next(h[k])
  <2>1. h[0] = {}
    BY <1>5
  <2>2. ASSUME NEW k \in Nat, k + 1 \in 0..n PROVE h[k + 1] = next(h[k])
    <3>1. k + 1 # 0 /\ (k + 1) - 1 = k
      OBVIOUS
    <3> QED BY <1>5, <2>2, <3>1
  <2> QED BY <2>1, <2>2
<1> DEFINE P == {k \in Nat : k <= n => h[k] = Selected(p, k)}
<1>7. 0 \in P
  <2>1. Selected(p, 0) = {}
    BY PicksAre, RoundRobinFacts
  <2> QED BY <1>6, <2>1
<1>8. ASSUME NEW k \in Nat, k \in P PROVE k + 1 \in P
  <2> SUFFICES ASSUME k + 1 <= n PROVE h[k + 1] = Selected(p, k + 1)
    OBVIOUS
  <2>1. h[k] = Selected(p, k) /\ k + 1 \in 0..n
    BY <1>8
  <2> QED BY <1>2, <1>6, <2>1
<1> HIDE DEF P
<1>9. n \in P
  BY <1>7, <1>8, NatInd
<1> QED BY <1>3, <1>9 DEF P

\* The walk of the reference begins with the start URLs and goes on round by round.
LEMMA WalkFacts ==
  ASSUME NEW dead
  PROVE  /\ WalkOf(dead)[0] = [ever |-> Seen(Empty, StartUrls, 0), taken |-> {}]
         /\ \A k \in Nat : k + 1 <= PageCap =>
              WalkOf(dead)[k + 1] = AfterRound(WalkOf(dead)[k], dead)
<1> DEFINE start == [ever |-> Seen(Empty, StartUrls, 0), taken |-> {}]
           step(w) == AfterRound(w, dead)
           body(n, f) == [k \in 0..n |-> IF k = 0 THEN start ELSE step(f[k - 1])]
           h == CHOOSE f : f = body(PageCap, f)
           P == {n \in Nat : \E f : f = body(n, f)}
<1>0. PageCap \in Nat
  BY CrawlAssumption
<1>1. WalkOf(dead) = h
  BY DEF WalkOf
<1> HIDE DEF start, step
<1>2. 0 \in P
  <2> DEFINE f == [k \in 0..0 |-> start]
  <2>1. f = body(0, f)
    OBVIOUS
  <2> QED BY <2>1
<1>3. ASSUME NEW n \in Nat, n \in P PROVE n + 1 \in P
  <2>1. PICK f : f = body(n, f)
    BY <1>3
  <2> DEFINE g == [k \in 0..(n + 1) |-> IF k = n + 1 THEN step(f[n]) ELSE f[k]]
  <2>2. ASSUME NEW k \in 0..(n + 1) PROVE g[k] = IF k = 0 THEN start ELSE step(g[k - 1])
    <3>1. CASE k = n + 1
      <4>1. k # 0 /\ k - 1 = n /\ n \in 0..(n + 1) /\ n # n + 1
        BY <3>1
      <4>2. g[k] = step(f[n]) /\ g[n] = f[n]
        BY <3>1, <4>1
      <4> HIDE DEF g
      <4> QED BY <4>1, <4>2
    <3>2. CASE k # n + 1 /\ k # 0
      <4>1. k \in 0..n /\ k - 1 \in 0..(n + 1) /\ k - 1 # n + 1
        BY <3>2
      <4>2. g[k] = f[k] /\ g[k - 1] = f[k - 1]
        BY <3>2, <4>1
      <4>3. f[k] = step(f[k - 1])
        BY <2>1, <3>2, <4>1
      <4> HIDE DEF g
      <4> QED BY <3>2, <4>2, <4>3
    <3>3. CASE k = 0
      <4>1. 0 \in 0..n /\ 0 # n + 1
        OBVIOUS
      <4>2. f[0] = start
        BY <2>1, <4>1
      <4> QED BY <3>3, <4>1, <4>2
    <3> QED BY <3>1, <3>2, <3>3
  <2>3. g = body(n + 1, g)
    <3>1. g = [k \in 0..(n + 1) |-> g[k]]
      OBVIOUS
    <3> HIDE DEF g
    <3> QED BY <2>2, <3>1
  <2>4. \E k : k = body(n + 1, k)
    <3> HIDE DEF g, body
    <3> QED BY <2>3
  <2> HIDE DEF body
  <2> QED BY <2>4
<1> HIDE DEF P
<1>4. PageCap \in P
  BY <1>0, <1>2, <1>3, NatInd
<1>5. h = body(PageCap, h)
  <2>1. \E f : f = body(PageCap, f)
    BY <1>4 DEF P
  <2> HIDE DEF body
  <2> QED BY <2>1
<1> HIDE DEF h
<1>6. h[0] = start
  BY <1>0, <1>5
<1>7. ASSUME NEW k \in Nat, k + 1 <= PageCap PROVE h[k + 1] = step(h[k])
  <2>1. k + 1 \in 0..PageCap /\ k + 1 # 0 /\ (k + 1) - 1 = k
    BY <1>0, <1>7
  <2> QED BY <1>5, <2>1
<1> QED BY <1>1, <1>6, <1>7 DEF start, step

-----------------------------------------------------------------------------
(* The sample of a site.                                                   *)

\* What a link's writing leads to is what its identity leads to.  Where two writings of one
\* identity carry different links, the one that was discovered first is fetched, and
\* which that is depends on the order of the answers.
OneWriting ==
  \A r \in Reals : /\ Found(Links[r]) = Found(Links[Id[r]])
                   /\ Lands[r] = Offsite <=> Lands[Id[r]] = Offsite

Failed == {Id[r] : r \in failed \union lost}
Pending == {Id[r] : r \in waiting}

\* Whoever fails beside those of dead among t: the walk of the reference has come, in k
\* rounds, to where e was discovered and t taken.
Walked(dead, k, e, t) ==
  \A D : D \intersect t = dead \intersect t => WalkOf(D)[k] = [ever |-> e, taken |-> t]

SlotsLeft(t) == Lower(PageCap - Cardinality(t), BatchSize)

\* B is the round under way, the one after k others: the reference would take the same,
\* and the buffer holds the links of those that were read.
Underway(B, k) ==
  /\ B \in SUBSET admitted /\ B # {} /\ Pending \subseteq B
  /\ k \in Nat /\ k + 1 <= Cardinality(admitted)
  /\ Walked(Failed, k, ever, admitted \ B)
  /\ B = RoundOf(ever, admitted \ B, SlotsLeft(admitted \ B))
  /\ depth = Least({ever[u] : u \in B})
  /\ Found(buffer) = Children((B \ Pending) \ Failed)
  /\ Failed \intersect Pending = {}
  /\ \A r, s \in waiting : Id[r] = Id[s] => r = s

Whole ==
  /\ late \subseteq lost /\ Failed \subseteq admitted
  /\ phase = "select" => \E k \in Nat : k <= Cardinality(admitted) /\ Walked(Failed, k, ever, admitted)
  /\ phase = "round" => \E B, k : Underway(B, k)

\* A request belongs to one round and is answered once.
Once ==
  /\ {Id[r] : r \in answered \union late \union waiting} \subseteq admitted
  /\ answered \intersect (late \union waiting) = {} /\ late \intersect waiting = {}

\* No round was cut, and nothing a rejected run left was read.
Clean == ~truncated /\ lost \intersect answered \subseteq failed

SampleInv == Once /\ (Clean => Whole) /\ SameSample

LEMMA OnceKept == ASSUME IInv, Once, [Next]_vars PROVE Once'
<1>1. CASE Select
  <2>1. Batch \in SUBSET DOMAIN pool /\ DOMAIN pool \intersect admitted = {}
    BY <1>1, BatchFacts DEF Select, IInv, Agree
  <2>2. \A u \in Batch : Id[pool[u].real] = u
    BY <2>1 DEF IInv, Agree, Headed
  <2>3. /\ admitted' = admitted \union Batch /\ waiting' = {pool[u].real : u \in Batch}
        /\ UNCHANGED <<answered, late>>
    BY <1>1 DEF Select, Consume
  <2>4. \A r \in waiting' : Id[r] \in Batch
    BY <2>2, <2>3
  <2>5. \A r \in answered \union late : Id[r] \in admitted
    BY DEF Once
  <2>6. Batch \intersect admitted = {} /\ answered \intersect late = {}
    BY <2>1 DEF Once
  <2> QED BY <2>3, <2>4, <2>5, <2>6 DEF Once
<1>2. CASE SelectTooLate \/ Finish \/ RoundEnds \/ DeadlinePasses \/ UNCHANGED vars
  <2>1. admitted \subseteq admitted' /\ UNCHANGED <<answered, late, waiting>>
    BY <1>2 DEF SelectTooLate, Consume, Finish, RoundEnds, DeadlinePasses, vars
  <2> QED BY <2>1 DEF Once
<1>3. CASE StopRound \/ RunRejects
  <2>1. PICK flying \in SUBSET waiting : late' = late \union flying
    BY <1>3 DEF StopRound, RunRejects
  <2>2. waiting' = {} /\ UNCHANGED <<admitted, answered>>
    BY <1>3 DEF StopRound, RunRejects
  <2> QED BY <2>1, <2>2 DEF Once
<1>4. CASE Answered
  <2>1. PICK r \in waiting : /\ waiting' = waiting \ {r} /\ answered' = answered \union {r}
                             /\ UNCHANGED <<late, admitted>>
    BY <1>4 DEF Answered, Answer, Read, Fails
  <2> QED BY <2>1 DEF Once
<1>5. CASE AnsweredLate
  <2>1. PICK r \in late : /\ late' = late \ {r} /\ answered' = answered \union {r}
                          /\ UNCHANGED <<waiting, admitted>>
    BY <1>5 DEF AnsweredLate, Answer, Read, Fails
  <2> QED BY <2>1 DEF Once
<1> QED BY <1>1, <1>2, <1>3, <1>4, <1>5 DEF Next, Loop

\* What is clean was clean: a cut is never forgotten, and no request fails once it was read.
LEMMA CleanBefore == ASSUME Once, [Next]_vars, Clean' PROVE Clean
<1>1. CASE Answered \/ AnsweredLate
  <2>1. PICK r \in waiting \union late : Answer(r)
    BY <1>1 DEF Answered, AnsweredLate
  <2>2. answered' = answered \union {r} /\ failed' \in {failed, failed \union {r}}
    BY <2>1 DEF Answer, Read, Fails
  <2>3. r \notin answered
    BY <2>1 DEF Once
  <2>4. UNCHANGED <<truncated, lost>>
    BY <1>1 DEF Answered, AnsweredLate
  <2> QED BY <2>2, <2>3, <2>4 DEF Clean
<1>2. CASE ~(Answered \/ AnsweredLate)
  <2>1. /\ UNCHANGED <<answered, failed>> /\ lost \subseteq lost'
        /\ truncated' = truncated \/ truncated' = TRUE
    BY <1>2 DEF Next, Loop, Select, SelectTooLate, Finish, RoundEnds, StopRound, Cut, RunRejects,
                DeadlinePasses, vars
  <2> QED BY <2>1 DEF Clean
<1> QED BY <1>1, <1>2

LEMMA CapFacts ==
  ASSUME IInv
  PROVE  /\ Cardinality(admitted) \in Nat /\ Cardinality(admitted) <= PageCap
         /\ SlotsLeft(admitted) \in Nat
<1>1. Cardinality(admitted) \in Nat /\ Cardinality(admitted) <= PageCap
  BY FS_CardinalityType DEF IInv
<1>2. PICK c \in Nat : c = Cardinality(admitted) /\ c <= PageCap
  BY <1>1
<1>3. SlotsLeft(admitted) \in Nat
  BY <1>2, CrawlAssumption DEF SlotsLeft, Lower
<1> QED BY <1>1, <1>3

LEMMA InitSample == ASSUME Init PROVE SampleInv
<1>1. Walked(Failed, 0, ever, admitted)
  BY WalkFacts DEF Init, Walked
<1>2. Cardinality(admitted) = 0
  BY FS_EmptySet DEF Init
<1>3. \E k \in Nat : k <= Cardinality(admitted) /\ Walked(Failed, k, ever, admitted)
  BY <1>1, <1>2
<1> QED BY <1>3 DEF Init, SampleInv, Once, Whole, SameSample, Failed

\* The loop takes what the reference takes.
LEMMA SelectSample == ASSUME IInv, Whole, Select PROVE Whole'
<1>2. PICK B : B = Batch
  OBVIOUS
<1>3. B \in SUBSET DOMAIN pool /\ B # {} /\ IsFiniteSet(B) /\ IsFiniteSet(admitted \union B)
  BY <1>2, BatchFacts DEF Select
<1>4. /\ IsPool(pool) /\ Headed(pool) /\ Shallow(pool, ever)
      /\ DOMAIN ever = DOMAIN pool \union admitted /\ DOMAIN pool \intersect admitted = {}
  BY DEF IInv, Agree
<1>5. PICK k \in Nat : k <= Cardinality(admitted) /\ Walked(Failed, k, ever, admitted)
  BY DEF Whole, Select
<1>6. /\ admitted' = admitted \union B /\ ever' = ever /\ failed' = failed
      /\ late' = late /\ lost' = lost /\ buffer' = <<>> /\ phase' = "round"
      /\ waiting' = {pool[u].real : u \in B}
      /\ depth' = Least({ever[u] : u \in B})
  BY <1>2 DEF Select, Consume
<1>7. admitted' \ B = admitted
  BY <1>3, <1>4, <1>6
<1>8. Failed' = Failed /\ Failed \subseteq admitted /\ late' \subseteq lost'
  BY <1>6 DEF Failed, Whole
<1>9. Pending' = B /\ \A r, s \in waiting' : Id[r] = Id[s] => r = s
  BY <1>3, <1>4, <1>6 DEF Pending, Headed
<1>10. k + 1 <= Cardinality(admitted')
  <2>1. admitted \in SUBSET admitted' /\ admitted # admitted' /\ IsFiniteSet(admitted')
    BY <1>3, <1>4, <1>6
  <2>2. /\ Cardinality(admitted) <= Cardinality(admitted')
        /\ Cardinality(admitted) = Cardinality(admitted') => admitted = admitted'
    BY <2>1, FS_Subset
  <2>3. PICK c, d \in Nat : c = Cardinality(admitted) /\ d = Cardinality(admitted')
    BY <2>1, CapFacts, FS_CardinalityType
  <2>4. k <= c /\ c < d
    BY <1>5, <2>1, <2>2, <2>3
  <2>5. k + 1 <= d
    BY <2>4
  <2> QED BY <2>3, <2>5
<1>11. B = RoundOf(ever, admitted, SlotsLeft(admitted))
  <2>1. DOMAIN pool = DOMAIN ever \ admitted
    BY <1>4
  <2>2. Batch = Selected(pool, SlotsLeft(admitted))
    BY DEF Batch, SlotsLeft
  <2> QED BY <1>2, <1>4, <2>1, <2>2, CapFacts, RoundIsSelected
<1>12. Found(buffer') = Children((B \ Pending') \ Failed')
  BY <1>6, <1>9 DEF Found, Children
<1>13. Underway(B, k)'
  <2>1. B \in SUBSET admitted' /\ Pending' \subseteq B /\ k \in Nat
    BY <1>6, <1>9
  <2>2. Walked(Failed', k, ever', admitted' \ B)
    BY <1>5, <1>6, <1>7, <1>8
  <2>3. B = RoundOf(ever', admitted' \ B, SlotsLeft(admitted' \ B))
    BY <1>6, <1>7, <1>11
  <2>4. Failed' \intersect Pending' = {}
    BY <1>3, <1>4, <1>8, <1>9
  <2> QED BY <1>3, <1>6, <1>9, <1>10, <1>12, <2>1, <2>2, <2>3, <2>4 DEF Underway
<1>14. Failed' \subseteq admitted'
  BY <1>6, <1>8
<1> QED BY <1>6, <1>8, <1>13, <1>14 DEF Whole

\* One more round of the reference, when its round and the links read in it are known.
Took(e, t, B, n) ==
  /\ B \in SUBSET DOMAIN e /\ B # {}
  /\ B = RoundOf(e, t, SlotsLeft(t)) /\ n = Least({e[u] : u \in B})

Goes(e, t, B, n, urls, dead) ==
  AfterRound([ever |-> e, taken |-> t], dead)
    = [ever |-> Seen(e, urls, n + 1), taken |-> t \union B]

LEMMA AfterRoundFacts ==
  ASSUME NEW e, IsMap(e), NEW t, NEW dead, NEW n \in Nat, NEW urls, NEW B, Took(e, t, B, n),
         Found(urls) = Children(B \ dead)
  PROVE  Goes(e, t, B, n, urls, dead)
<1> DEFINE w == [ever |-> e, taken |-> t]
           found == Children(B \ dead)
           next == [u \in DOMAIN e \union found |->
                      IF u \notin found THEN e[u]
                      ELSE IF u \in DOMAIN e THEN Lower(e[u], n + 1) ELSE n + 1]
<1>1. w.ever = e /\ w.taken = t
  OBVIOUS
<1>2. AfterRound(w, dead) = [ever |-> next, taken |-> t \union B]
  <2> HIDE DEF w
  <2> QED BY <1>1 DEF AfterRound, SlotsLeft, Took
<1>3. next = Seen(e, urls, n + 1)
  <2>1. \A u \in DOMAIN e : e[u] \in Nat
    BY DEF IsMap
  <2>2. Seen(e, urls, n + 1) =
          [u \in DOMAIN e \union found |->
             IF u \in DOMAIN e /\ (u \notin found \/ e[u] <= n + 1) THEN e[u] ELSE n + 1]
    BY DEF Seen
  <2>3. ASSUME NEW u \in DOMAIN e \union found
        PROVE  (IF u \notin found THEN e[u]
                ELSE IF u \in DOMAIN e THEN Lower(e[u], n + 1) ELSE n + 1)
                 = IF u \in DOMAIN e /\ (u \notin found \/ e[u] <= n + 1) THEN e[u] ELSE n + 1
    <3> HIDE DEF found
    <3> QED BY <2>1 DEF Lower
  <2> HIDE DEF found
  <2> QED BY <2>2, <2>3
<1> HIDE DEF next
<1> QED BY <1>2, <1>3 DEF Goes

\* A round that is over is one of the reference's, with what it did not read dead.
LEMMA RoundIsWalked ==
  ASSUME IInv, NEW B, NEW k, Underway(B, k), DiscoverBuffer
  PROVE  \E j \in Nat : /\ j <= Cardinality(admitted)
                        /\ Walked(Failed \union Pending, j, ever', admitted)
<1>1. ever' = Seen(ever, buffer, depth + 1) /\ B \in SUBSET admitted /\ Pending \subseteq B
  BY DEF DiscoverBuffer, Underway
<1>2. k \in Nat /\ k + 1 <= Cardinality(admitted) /\ k + 1 <= PageCap
  <2>1. k \in Nat /\ k + 1 <= Cardinality(admitted)
    BY DEF Underway
  <2>2. PICK c \in Nat : c = Cardinality(admitted) /\ c <= PageCap
    BY CapFacts
  <2>3. k + 1 <= PageCap
    BY <2>1, <2>2, CrawlAssumption
  <2> QED BY <2>1, <2>3
<1>3. ASSUME NEW D, D \intersect admitted = (Failed \union Pending) \intersect admitted
      PROVE  WalkOf(D)[k + 1] = [ever |-> ever', taken |-> admitted]
  <2>1. WalkOf(D)[k] = [ever |-> ever, taken |-> admitted \ B]
    <3>1. D \intersect (admitted \ B) = Failed \intersect (admitted \ B)
      BY <1>1, <1>3
    <3> QED BY <3>1 DEF Underway, Walked
  <2>2. WalkOf(D)[k + 1] = AfterRound([ever |-> ever, taken |-> admitted \ B], D)
    BY <1>2, <2>1, WalkFacts
  <2>3. Found(buffer) = Children(B \ D)
    <3>1. B \ D = (B \ Pending) \ Failed
      BY <1>1, <1>3
    <3> QED BY <3>1 DEF Underway
  <2>4. IsMap(ever) /\ B \in SUBSET DOMAIN ever /\ B # {} /\ depth \in Nat
    BY DEF Underway, IInv, Agree, TypeOK
  <2>5. AfterRound([ever |-> ever, taken |-> admitted \ B], D)
          = [ever |-> Seen(ever, buffer, depth + 1), taken |-> (admitted \ B) \union B]
    <3>1. Took(ever, admitted \ B, B, depth)
      BY <2>4 DEF Underway, Took
    <3>2. Goes(ever, admitted \ B, B, depth, buffer, D)
      BY <2>3, <2>4, <3>1, AfterRoundFacts
    <3> QED BY <3>2 DEF Goes
  <2>6. (admitted \ B) \union B = admitted
    BY <1>1
  <2> QED BY <1>1, <2>2, <2>5, <2>6
<1>4. Walked(Failed \union Pending, k + 1, ever', admitted) /\ k + 1 \in Nat
  BY <1>2, <1>3 DEF Walked
<1> QED BY <1>2, <1>4

\* What a rejected run leaves is dead for the reference, like what failed.
LEMMA RoundEndsSample == ASSUME IInv, Whole, RoundEnds \/ RunRejects PROVE Whole'
<1>1. PICK B, k : Underway(B, k)
  BY DEF Whole, RoundEnds, RunRejects
<1>2. DiscoverBuffer /\ phase' = "select" /\ UNCHANGED <<admitted, failed>>
  BY DEF RoundEnds, RunRejects
<1>3. lost' = lost \union waiting /\ late' \subseteq late \union waiting
  BY DEF RoundEnds, RunRejects
<1>4. Failed' = Failed \union Pending
  BY <1>2, <1>3 DEF Failed, Pending
<1>5. Failed \subseteq admitted /\ Pending \subseteq admitted /\ late' \subseteq lost'
  BY <1>1, <1>3 DEF Whole, Underway
<1>6. \E j \in Nat : j <= Cardinality(admitted) /\ Walked(Failed', j, ever', admitted)
  BY <1>1, <1>2, <1>4, RoundIsWalked
<1> QED BY <1>2, <1>4, <1>5, <1>6 DEF Whole

\* From where nothing is left to take or no slot to give, the walk goes no further.
LEMMA WalkStops ==
  ASSUME IInv, phase = "select", ~More, NEW k \in Nat, k <= PageCap,
         WalkOf(Failed)[k] = [ever |-> ever, taken |-> admitted]
  PROVE  WalkOf(Failed)[PageCap] = [ever |-> ever, taken |-> admitted]
<1> DEFINE w == [ever |-> ever, taken |-> admitted]
           P == {j \in Nat : k + j <= PageCap => WalkOf(Failed)[k + j] = w}
<1>1. /\ IsPool(pool) /\ Shallow(pool, ever) /\ IsMap(ever)
      /\ DOMAIN pool = DOMAIN ever \ admitted
  BY DEF IInv, Agree
<1>2. RoundOf(ever, admitted, SlotsLeft(admitted)) = {}
  <2>1. RoundOf(ever, admitted, SlotsLeft(admitted)) = Selected(pool, SlotsLeft(admitted))
    BY <1>1, CapFacts, RoundIsSelected
  <2>2. CASE DOMAIN pool = {}
    BY <2>1, <2>2 DEF Selected
  <2>3. CASE DOMAIN pool # {}
    <3>1. PICK c \in Nat : c = Cardinality(admitted) /\ c <= PageCap
      BY CapFacts
    <3>2. SlotsLeft(admitted) = 0
      BY <2>3, <3>1, CrawlAssumption DEF More, SlotsLeft, Lower
    <3>3. Selected(pool, 0) = {}
      BY <1>1, PicksAre, RoundRobinFacts
    <3> QED BY <2>1, <3>2, <3>3
  <2> QED BY <2>2, <2>3
<1>3. AfterRound(w, Failed) = w
  <2>1. w.ever = ever /\ w.taken = admitted
    OBVIOUS
  <2>2. Children({} \ Failed) = {}
    BY DEF Children
  <2>3. DOMAIN ever \union {} = DOMAIN ever /\ admitted \union {} = admitted
    OBVIOUS
  <2>4. ever = [u \in DOMAIN ever |-> ever[u]]
    BY <1>1 DEF IsMap
  <2> HIDE DEF w
  <2>5. AfterRound(w, Failed) = [ever |-> [u \in DOMAIN ever |-> ever[u]], taken |-> admitted]
    BY <1>2, <2>1, <2>2, <2>3 DEF AfterRound, SlotsLeft
  <2> QED BY <2>4, <2>5 DEF w
<1> HIDE DEF w
<1>4. 0 \in P
  BY DEF w
<1>5. ASSUME NEW j \in Nat, j \in P PROVE j + 1 \in P
  <2> SUFFICES ASSUME k + (j + 1) <= PageCap PROVE WalkOf(Failed)[k + (j + 1)] = w
    OBVIOUS
  <2>1. k + j \in Nat /\ (k + j) + 1 = k + (j + 1) /\ k + j <= PageCap
    BY CrawlAssumption
  <2>2. WalkOf(Failed)[k + j] = w
    BY <1>5, <2>1
  <2> QED BY <1>3, <2>1, <2>2, WalkFacts
<1> HIDE DEF P
<1>6. PageCap - k \in P /\ k + (PageCap - k) = PageCap
  <2>1. PageCap - k \in Nat /\ k + (PageCap - k) = PageCap
    BY CrawlAssumption
  <2> QED BY <1>4, <1>5, <2>1, NatInd
<1>7. WalkOf(Failed)[PageCap] = w
  <2>1. PICK j \in Nat : j = PageCap - k /\ k + j = PageCap
    BY <1>6, CrawlAssumption
  <2> QED BY <1>6, <2>1 DEF P
<1> QED BY <1>7 DEF w

LEMMA FinishSample == ASSUME IInv, Whole, Finish PROVE Whole' /\ SameSample'
<1>1. /\ phase = "select" /\ ~More /\ phase' = "done" /\ exhausted' = truncated
      /\ UNCHANGED <<ever, admitted, late, truncated, failed, lost>>
  BY DEF Finish
<1>2. PICK k \in Nat : k <= Cardinality(admitted) /\ Walked(Failed, k, ever, admitted)
  BY <1>1 DEF Whole
<1>3. k <= PageCap
  <2>1. PICK c \in Nat : c = Cardinality(admitted) /\ c <= PageCap
    BY CapFacts
  <2> QED BY <1>2, <2>1, CrawlAssumption
<1>4. WalkOf(Failed)[k] = [ever |-> ever, taken |-> admitted]
  BY <1>2 DEF Walked
<1>5. SampleOf(Failed) = admitted
  BY <1>1, <1>3, <1>4, WalkStops DEF SampleOf
<1>6. SameSample'
  BY <1>1, <1>5 DEF SameSample, Failed
<1>7. Whole'
  BY <1>1 DEF Whole, Failed
<1> QED BY <1>6, <1>7

LEMMA FoundTogether ==
  ASSUME NEW s \in Seq(Reals), NEW t \in Seq(Reals)
  PROVE  Found(s \o t) = Found(s) \union Found(t)
<1>1. PICK m, n \in Nat : m = Len(s) /\ n = Len(t)
  OBVIOUS
<1>2. /\ DOMAIN s = 1..m /\ DOMAIN t = 1..n /\ DOMAIN (s \o t) = 1..(m + n)
      /\ \A i \in 1..(m + n) : (s \o t)[i] = IF i <= m THEN s[i] ELSE t[i - m]
  BY <1>1
<1>3. ASSUME NEW x \in Found(s \o t) PROVE x \in Found(s) \union Found(t)
  <2>1. PICK i \in 1..(m + n) : x = Id[(s \o t)[i]]
    BY <1>2 DEF Found
  <2>2. CASE i <= m
    <3>1. i \in DOMAIN s /\ x = Id[s[i]]
      BY <1>2, <2>1, <2>2
    <3> QED BY <3>1 DEF Found
  <2>3. CASE ~(i <= m)
    <3>1. i - m \in DOMAIN t /\ x = Id[t[i - m]]
      BY <1>2, <2>1, <2>3
    <3> QED BY <3>1 DEF Found
  <2> QED BY <2>2, <2>3
<1>4. ASSUME NEW x \in Found(s) PROVE x \in Found(s \o t)
  <2>1. PICK i \in 1..m : x = Id[s[i]]
    BY <1>2 DEF Found
  <2>2. i \in DOMAIN (s \o t) /\ x = Id[(s \o t)[i]]
    BY <1>2, <2>1
  <2> QED BY <2>2 DEF Found
<1>5. ASSUME NEW x \in Found(t) PROVE x \in Found(s \o t)
  <2>1. PICK i \in 1..n : x = Id[t[i]]
    BY <1>2 DEF Found
  <2>2. m + i \in 1..(m + n) /\ ~(m + i <= m) /\ (m + i) - m = i
    OBVIOUS
  <2>3. m + i \in DOMAIN (s \o t) /\ x = Id[(s \o t)[m + i]]
    BY <1>2, <2>1, <2>2
  <2> QED BY <2>3 DEF Found
<1> QED BY <1>3, <1>4, <1>5

\* One request of the round is answered.
LEMMA AnsweredSample ==
  ASSUME OneWriting, IInv, Whole, NEW r \in waiting, Answer(r), waiting' = waiting \ {r},
         UNCHANGED <<pool, ever, admitted, depth, late, phase, lost>>
  PROVE  Whole'
<1>0. phase = "round"
  BY DEF Answer
<1>2. PICK B, k : Underway(B, k)
  BY <1>0 DEF Whole
<1>3. PICK u : u = Id[r]
  OBVIOUS
<1>4. u \in B /\ u \in Pending /\ Pending' = Pending \ {u} /\ r \in Reals
  <2>1. Pending \subseteq B /\ \A q, s \in waiting : Id[q] = Id[s] => q = s
    BY <1>2 DEF Underway
  <2> QED BY <1>3, <2>1 DEF Pending, IInv, TypeOK
<1>5. late' \subseteq lost' /\ Failed \subseteq admitted /\ Failed \intersect Pending = {}
  BY <1>2 DEF Whole, Underway
<1>6. Failed' = Failed \/ Failed' = Failed \union {u}
  BY <1>3 DEF Answer, Read, Fails, Failed
<1>7. Found(buffer') = Children((B \ Pending') \ Failed')
  <2> DEFINE C == (B \ Pending) \ Failed
  <2>0. Found(buffer) = Children(C)
    BY <1>2 DEF Underway
  <2>1. CASE Fails(r)
    <3>1. Failed' = Failed \union {u} /\ buffer' = buffer
      BY <1>3, <2>1 DEF Fails, Failed
    <3>2. (B \ Pending') \ Failed' = C
      BY <1>4, <3>1
    <3> QED BY <2>0, <3>1, <3>2
  <2>2. CASE Read(r)
    <3>1. Failed' = Failed
      BY <2>2 DEF Read, Failed
    <3>2. (B \ Pending') \ Failed' = C \union {u}
      BY <1>4, <1>5, <3>1
    <3>3. Found(Links[u]) = Found(Links[r]) /\ (Lands[u] = Offsite <=> Lands[r] = Offsite)
      BY <1>3, <1>4 DEF OneWriting
    <3>4. CASE Lands[r] = Offsite
      <4>1. Children(C \union {u}) = Children(C)
        BY <3>3, <3>4 DEF Children
      <4>2. buffer' = buffer
        BY <2>2, <3>4 DEF Read
      <4> QED BY <2>0, <3>2, <4>1, <4>2
    <3>5. CASE Lands[r] # Offsite
      <4>1. Children(C \union {u}) = Children(C) \union Found(Links[u])
        <5> HIDE DEF C
        <5> QED BY <3>3, <3>5 DEF Children
      <4>2. buffer' = buffer \o Links[r] /\ buffer \in Seq(Reals) /\ Links[r] \in Seq(Reals)
        BY <1>4, <2>2, <3>5, CrawlAssumption DEF Read, IInv, TypeOK
      <4>3. Found(buffer \o Links[r]) = Found(buffer) \union Found(Links[r])
        BY <4>2, FoundTogether
      <4> QED BY <2>0, <3>2, <3>3, <4>1, <4>2, <4>3
    <3> QED BY <3>4, <3>5
  <2> QED BY <2>1, <2>2 DEF Answer
<1>8. Walked(Failed', k, ever', admitted' \ B)
  <2>1. Failed' \intersect (admitted \ B) = Failed \intersect (admitted \ B)
    BY <1>4, <1>6
  <2>2. Walked(Failed, k, ever, admitted \ B)
    BY <1>2 DEF Underway
  <2> QED BY <2>1, <2>2 DEF Walked
<1>9. Underway(B, k)'
  <2>1. /\ B \in SUBSET admitted' /\ B # {} /\ Pending' \subseteq B
        /\ k \in Nat /\ k + 1 <= Cardinality(admitted')
        /\ B = RoundOf(ever', admitted' \ B, SlotsLeft(admitted' \ B))
        /\ depth' = Least({ever'[v] : v \in B})
    BY <1>2, <1>4 DEF Underway
  <2>2. Failed' \intersect Pending' = {}
    BY <1>4, <1>5, <1>6
  <2>3. \A q, s \in waiting' : Id[q] = Id[s] => q = s
    BY <1>2 DEF Underway
  <2> QED BY <1>7, <1>8, <2>1, <2>2, <2>3 DEF Underway
<1>10. Failed' \subseteq admitted'
  BY <1>2, <1>4, <1>5, <1>6 DEF Underway
<1> QED BY <1>0, <1>5, <1>9, <1>10 DEF Whole

\* One that a rejected run left fails late: it was dead already.
LEMMA FailedLateSample ==
  ASSUME Whole, NEW r \in late, Fails(r), late' = late \ {r},
         UNCHANGED <<ever, admitted, depth, waiting, phase, lost>>
  PROVE  Whole'
<1>1. failed' = failed \union {r} /\ r \in lost /\ late' \subseteq lost' /\ buffer' = buffer
  BY DEF Fails, Whole
<1>2. failed' \union lost' = failed \union lost
  BY <1>1
<1>3. Failed' = Failed /\ Pending' = Pending
  BY <1>2 DEF Failed, Pending
<1>4. \A B, k : Underway(B, k) => Underway(B, k)'
  BY <1>1, <1>3 DEF Underway
<1> QED BY <1>1, <1>3, <1>4 DEF Whole

LEMMA NextWhole ==
  ASSUME OneWriting, IInv, Once, Clean, Clean', Whole, [Next]_vars
  PROVE  Whole'
<1>1. CASE Select
  BY <1>1, SelectSample
<1>2. CASE SelectTooLate
  <2>1. /\ late' = late /\ failed' = failed /\ lost' = lost /\ phase' = "done"
        /\ admitted \subseteq admitted'
    BY <1>2 DEF SelectTooLate, Consume
  <2>2. Failed' = Failed
    BY <2>1 DEF Failed
  <2> QED BY <2>1, <2>2 DEF Whole
<1>3. CASE Finish
  BY <1>3, FinishSample
<1>4. CASE RoundEnds \/ RunRejects
  BY <1>4, RoundEndsSample
<1>5. CASE StopRound
  BY <1>5 DEF StopRound, Cut, Clean
<1>6. CASE Answered
  <2>1. PICK r \in waiting : Answer(r) /\ waiting' = waiting \ {r}
    BY <1>6 DEF Answered
  <2> QED BY <1>6, <2>1, AnsweredSample DEF Answered
<1>7. CASE AnsweredLate
  <2>1. PICK r \in late : Answer(r) /\ late' = late \ {r}
    BY <1>7 DEF AnsweredLate
  <2>2. CASE Read(r)
    <3>1. r \in answered' /\ r \in lost' /\ failed' = failed /\ r \notin answered
      BY <1>7, <2>1, <2>2 DEF AnsweredLate, Read, Whole, Once
    <3>2. failed \subseteq answered
      BY DEF IInv, TypeOK
    <3> QED BY <3>1, <3>2 DEF Clean
  <2>3. CASE Fails(r)
    BY <1>7, <2>1, <2>3, FailedLateSample DEF AnsweredLate
  <2> QED BY <2>1, <2>2, <2>3 DEF Answer
<1>8. CASE DeadlinePasses \/ UNCHANGED vars
  <2>1. UNCHANGED <<ever, admitted, depth, buffer, waiting, late, phase, failed, lost>>
    BY <1>8 DEF DeadlinePasses, vars
  <2>2. Failed' = Failed /\ Pending' = Pending
    BY <2>1 DEF Failed, Pending
  <2>3. \A B, k : Underway(B, k) => Underway(B, k)'
    BY <2>1, <2>2 DEF Underway
  <2> QED BY <2>1, <2>2, <2>3 DEF Whole
<1> QED BY <1>1, <1>2, <1>3, <1>4, <1>5, <1>6, <1>7, <1>8 DEF Next, Loop

LEMMA NextSample == ASSUME OneWriting, IInv, SampleInv, [Next]_vars PROVE SampleInv'
<1>1. Once' /\ (Clean' => Whole')
  BY OnceKept, CleanBefore, NextWhole DEF SampleInv
<1>2. SameSample'
  <2>1. CASE Finish
    <3>1. Clean \/ exhausted' \/ ~(lost' \intersect answered' \subseteq failed')
      BY <2>1 DEF Finish, Clean
    <3> QED BY <2>1, <3>1, FinishSample DEF SampleInv, SameSample
  <2>2. CASE UNCHANGED vars
    BY <2>2 DEF SampleInv, SameSample, vars
  <2>3. CASE Next /\ ~Finish
    <3>1. phase' # "done" \/ exhausted'
      BY <2>3 DEF Next, Loop, Select, SelectTooLate, RoundEnds, StopRound, Cut, RunRejects,
                  DeadlinePasses, Answered, AnsweredLate, Answer
    <3> QED BY <3>1 DEF SameSample
  <2> QED BY <2>1, <2>2, <2>3
<1> QED BY <1>1, <1>2 DEF SampleInv

\* A crawl that was not cut short has the sample of its site, for every site whose
\* identities are each one page, every cap and every order of the answers: the rounds of
\* runDeterministicLevels take what a crawl one slot at a time would take, to which what
\* failed and what a rejected run left gives no links.
THEOREM SampleIsSame == ASSUME OneWriting PROVE Spec => []SameSample
<1>1. Init => SampleInv
  BY InitSample
<1>2. IInv /\ SampleInv /\ [Next]_vars => SampleInv'
  BY NextSample
<1>3. SampleInv => SameSample
  BY DEF SampleInv
<1> QED BY <1>1, <1>2, <1>3, CrawlInvariant, PTL DEF Spec
=============================================================================
