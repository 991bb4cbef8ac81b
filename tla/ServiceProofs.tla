--------------------------- MODULE ServiceProofs ---------------------------
(***************************************************************************)
(* Proofs about BatchService, for any number of batches and requests and   *)
(* every window, TTL and limit.                                            *)
(*                                                                         *)
(* A nonce is claimed while its timestamp passes, so it was claimed at     *)
(* most 2 * Skew before the timestamp stops passing: until then it is not  *)
(* forgotten.  Prune takes only records that are finished, and what is     *)
(* running is never so much that a fresh result finds no room beside it:   *)
(* that one compares sums over the store, by induction over its records.   *)
(***************************************************************************)
EXTENDS BatchService, FiniteSetTheorems, WellFoundedInduction, TLAPS

USE ServiceAssumption

Records == [status : {"none", "running", "done", "failed"},
            age : 0..ResultTTL, size : {0} \union Sizes]

\* A request that has started a run can start no other: it is stale, or its
\* nonce is remembered for as long as it is not.
Spent(r) ==
  /\ signed[r] # Unsigned
  /\ signed[r] <= Skew => seen[r] # Unseen /\ seen[r] <= signed[r] + Skew

IInv ==
  /\ TypeOK
  /\ RunsMatchRecords
  /\ \A r \in Requests : starts[r] \in {0, 1}
  /\ \A r \in Requests : starts[r] = 1 => Spent(r)

-----------------------------------------------------------------------------
\* Prune forgets finished records and leaves the others as they are.
LEMMA PrunedFacts ==
  ASSUME NEW recs \in [Batches -> Records], NEW kept \in Pruned(recs)
  PROVE  /\ kept \in [Batches -> Records]
         /\ \A b \in Batches : \/ kept[b] = recs[b]
                               \/ b \in Finished(recs) /\ kept[b] = NoRecord
<1>0. NoRecord \in Records
  BY DEF NoRecord, Records
<1> DEFINE old == {b \in Finished(recs) : recs[b].age >= ResultTTL}
           live == Without(recs, old)
<1>1. /\ live \in [Batches -> Records]
      /\ \A b \in Batches : live[b] = IF b \in old THEN NoRecord ELSE recs[b]
  BY <1>0 DEF Without
<1>2. CASE kept = live
  BY <1>1, <1>2
<1>3. ASSUME NEW gone \in SUBSET Finished(live), kept = Without(live, gone)
      PROVE  /\ kept \in [Batches -> Records]
             /\ \A b \in Batches : \/ kept[b] = recs[b]
                                   \/ b \in Finished(recs) /\ kept[b] = NoRecord
  <2>1. \A b \in Batches : kept[b] = IF b \in gone THEN NoRecord ELSE live[b]
    BY <1>3 DEF Without
  <2>2. kept \in [Batches -> Records]
    BY <1>0, <1>1, <1>3 DEF Without
  <2>3. \A b \in gone : b \in Finished(recs)
    BY <1>1, <1>3 DEF Finished, NoRecord
  <2> QED BY <1>1, <2>1, <2>2, <2>3
<1> QED BY <1>2, <1>3 DEF Pruned

LEMMA ClosedFacts ==
  ASSUME NEW recs \in [Batches -> Records], NEW b \in Batches,
         NEW status \in {"done", "failed"}, NEW size \in {0} \union Sizes
  PROVE  /\ Closed(recs, b, status, size) \in [Batches -> Records]
         /\ \A c \in Batches : c # b => Closed(recs, b, status, size)[c] = recs[c]
         /\ recs[b].status = "running" => Closed(recs, b, status, size)[b].status = status
<1>1. [status |-> status, age |-> 0, size |-> size] \in Records
  BY DEF Records
<1> QED BY <1>1 DEF Closed

LEMMA UnexpiredFacts ==
  ASSUME NEW r \in Requests, TypeOK
  PROVE  /\ Unexpired \in [Requests -> Unseen..Forgotten]
         /\ seen[r] <= NonceTTL => Unexpired[r] = seen[r]
BY DEF Unexpired, TypeOK, Unseen, Forgotten

\* The memory for nonces is large enough for every request of the window.
LEMMA ClaimFacts ==
  ASSUME NEW ages \in [Requests -> Unseen..Forgotten], NEW r \in Requests, NEW left,
         Claim(ages, r, left)
  PROVE  left = [ages EXCEPT ![r] = 0]
<1>1. \A f : Remembered(f) \subseteq Requests
  BY DEF Remembered
<1>2. \A f : IsFiniteSet(Remembered(f)) /\ Cardinality(Remembered(f)) <= Cardinality(Requests)
  BY <1>1, FS_Subset
<1>3. \A f : Cardinality(Remembered(f)) \in Nat
  BY <1>2, FS_CardinalityType
<1>4. Cardinality(Requests) \in Nat
  BY FS_CardinalityType
<1> QED BY <1>2, <1>3, <1>4 DEF Claim

-----------------------------------------------------------------------------
LEMMA InitIInv == Init => IInv
BY DEF Init, IInv, TypeOK, RunsMatchRecords, NoNonces, NoRecords, NoRuns, NoStarts, NoRecord,
       Unsigned, Stale, Unseen, Forgotten

LEMMA NextIInv == IInv /\ [Next]_vars => IInv'
<1> SUFFICES ASSUME IInv, [Next]_vars PROVE IInv'
  OBVIOUS
<1> USE DEF IInv
<1>0. records \in [Batches -> Records]
  BY DEF TypeOK, Records
<1>1. ASSUME NEW r \in Requests, NEW offset \in -Skew..Skew, Sign(r, offset) PROVE IInv'
  <2>1. TypeOK' /\ RunsMatchRecords'
    BY <1>1 DEF Sign, TypeOK, RunsMatchRecords, Unsigned, Stale, Unseen, Forgotten
  <2>2. \A q \in Requests : starts'[q] \in {0, 1} /\ (starts'[q] = 1 => q # r /\ starts[q] = 1)
    BY <1>1 DEF Sign, TypeOK
  <2>3. \A q \in Requests : q # r => signed'[q] = signed[q] /\ seen'[q] = seen[q]
    BY <1>1 DEF Sign, TypeOK
  <2> QED BY <2>1, <2>2, <2>3 DEF Spent
<1>2. ASSUME NEW r \in Requests, Refuse(r) PROVE IInv'
  <2>1. /\ records' \in [Batches -> Records]
        /\ \A b \in Batches : \/ records'[b] = records[b]
                              \/ b \in Finished(records) /\ records'[b] = NoRecord
    BY <1>0, <1>2, PrunedFacts DEF Refuse
  <2>2. /\ seen' \in [Requests -> Unseen..Forgotten]
        /\ \A q \in Requests : seen[q] <= NonceTTL => seen'[q] = seen[q]
    BY <1>2, UnexpiredFacts DEF Refuse, TypeOK
  <2>3. TypeOK'
    BY <1>2, <2>1, <2>2 DEF Refuse, TypeOK, Records
  <2>4. RunsMatchRecords'
    BY <1>2, <2>1 DEF Refuse, RunsMatchRecords, Finished, NoRecord
  <2>5. \A q \in Requests : Spent(q) => Spent(q)'
    BY <1>2, <2>2 DEF Refuse, Spent, TypeOK, Unsigned, Stale, Unseen, Forgotten
  <2> QED BY <1>2, <2>3, <2>4, <2>5 DEF Refuse
<1>3. ASSUME NEW r \in Requests, Accept(r) PROVE IInv'
  <2> DEFINE b == BatchOf[r]
  <2>1. PICK kept \in Pruned(records) :
          ~Known(kept, b) /\ records' = [kept EXCEPT ![b] = RunningRecord]
    BY <1>3 DEF Accept
  <2>2. /\ kept \in [Batches -> Records]
        /\ \A c \in Batches : \/ kept[c] = records[c]
                              \/ c \in Finished(records) /\ kept[c] = NoRecord
    BY <1>0, <2>1, PrunedFacts
  <2>3. seen' = [Unexpired EXCEPT ![r] = 0]
    BY <1>3, ClaimFacts, UnexpiredFacts DEF Accept
  <2>4. b \in Batches /\ RunningRecord \in Records
    BY DEF RunningRecord, Records
  <2>5. TypeOK'
    <3>1. seen' \in [Requests -> Unseen..Forgotten]
      BY <2>3, UnexpiredFacts DEF Unseen, Forgotten
    <3>2. records' \in [Batches -> Records]
      BY <2>1, <2>2, <2>4
    <3>3. runs' \in [Batches -> Nat]
      BY <1>3, <2>4 DEF Accept, TypeOK
    <3>4. starts' \in [Requests -> Nat]
      BY <1>3 DEF Accept, TypeOK
    <3> QED BY <1>3, <3>1, <3>2, <3>3, <3>4 DEF Accept, TypeOK, Records
  <2>6. RunsMatchRecords'
    <3>1. runs[b] = 0
      BY <2>1, <2>2, <2>4 DEF RunsMatchRecords, Known, Finished
    <3>2. runs' = [runs EXCEPT ![b] = 1]
      BY <1>3, <2>4, <3>1 DEF Accept, TypeOK
    <3>3. \A c \in Batches : c # b => records'[c] = kept[c] /\ runs'[c] = runs[c]
      BY <2>1, <2>2, <3>2 DEF TypeOK
    <3>4. records'[b].status = "running" /\ runs'[b] = 1
      BY <2>1, <2>2, <2>4, <3>2 DEF RunningRecord, TypeOK
    <3> QED BY <2>2, <3>3, <3>4 DEF RunsMatchRecords, Finished, NoRecord
  <2>7. starts[r] = 0
    <3>1. Unexpired[r] = Unseen /\ InWindow(r)
      BY <1>3 DEF Accept
    <3>2. Spent(r) => seen[r] <= NonceTTL /\ seen[r] # Unseen
      BY <3>1 DEF Spent, InWindow, TypeOK, Unsigned, Stale, Unseen, Forgotten
    <3>3. ~Spent(r)
      BY <3>1, <3>2, UnexpiredFacts
    <3> QED BY <3>3
  <2>8. starts' = [starts EXCEPT ![r] = 1]
    BY <1>3, <2>7 DEF Accept, TypeOK
  <2>9. Spent(r)'
    BY <1>3, <2>3, UnexpiredFacts
    DEF Accept, Spent, InWindow, TypeOK, Unsigned, Stale, Unseen, Forgotten
  <2>10. ASSUME NEW q \in Requests, q # r, Spent(q) PROVE Spent(q)'
    <3>1. signed'[q] = signed[q] /\ seen'[q] = Unexpired[q]
      BY <1>3, <2>3, <2>10 DEF Accept, Unexpired
    <3> QED BY <2>10, <3>1, UnexpiredFacts DEF Spent, TypeOK, Unsigned, Stale, Unseen, Forgotten
  <2> QED BY <2>5, <2>6, <2>8, <2>9, <2>10 DEF TypeOK
<1>4. ASSUME NEW b \in Batches, Poll(b) PROVE IInv'
  <2>1. /\ records' \in [Batches -> Records]
        /\ \A c \in Batches : \/ records'[c] = records[c]
                              \/ c \in Finished(records) /\ records'[c] = NoRecord
    BY <1>0, <1>4, PrunedFacts DEF Poll
  <2>2. TypeOK' /\ RunsMatchRecords'
    BY <1>4, <2>1 DEF Poll, TypeOK, Records, RunsMatchRecords, Finished, NoRecord
  <2> QED BY <1>4, <2>2 DEF Poll, Spent
<1>5. ASSUME NEW b \in Batches, NEW status \in {"done", "failed"}, NEW size \in {0} \union Sizes,
             End(b, status, size)
      PROVE  IInv'
  <2> DEFINE shut == Closed(records, b, status, size)
  <2>1. /\ shut \in [Batches -> Records]
        /\ \A c \in Batches : c # b => shut[c] = records[c]
        /\ records[b].status = "running"
        /\ shut[b].status = status
    BY <1>0, <1>5, ClosedFacts DEF End, RunsMatchRecords
  <2>2. /\ records' \in [Batches -> Records]
        /\ \A c \in Batches : \/ records'[c] = shut[c]
                              \/ c \in Finished(shut) /\ records'[c] = NoRecord
    BY <1>5, <2>1, PrunedFacts DEF End
  <2>3. runs' = [runs EXCEPT ![b] = 0]
    <3>1. runs[b] = 1
      BY <2>1 DEF RunsMatchRecords
    <3> QED BY <1>5, <3>1 DEF End
  <2>4. TypeOK'
    <3>1. runs' \in [Batches -> Nat]
      BY <2>3 DEF TypeOK
    <3> QED BY <1>5, <2>2, <3>1 DEF End, TypeOK, Records
  <2>5. RunsMatchRecords'
    BY <2>1, <2>2, <2>3 DEF RunsMatchRecords, Finished, NoRecord, TypeOK
  <2> QED BY <1>5, <2>4, <2>5 DEF End, Spent
<1>6. CASE Restart
  <2>1. TypeOK' /\ RunsMatchRecords'
    BY <1>6 DEF Restart, TypeOK, RunsMatchRecords, NoNonces, NoRecords, NoRuns, NoStarts, NoRecord,
                Unseen, Forgotten
  <2> QED BY <1>6, <2>1 DEF Restart, NoStarts
<1>7. CASE Tick
  <2>1. TypeOK'
    <3>1. records' \in [Batches -> Records]
      BY <1>0, <1>7 DEF Tick, Records
    <3>2. \A q \in Requests : signed[q] \in Unsigned..Stale /\ seen[q] \in Unseen..Forgotten
      BY DEF TypeOK
    <3>3. signed' \in [Requests -> Unsigned..Stale]
      <4>1. Skew \in Nat
        OBVIOUS
      <4>2. \A i \in Unsigned..Stale :
              i \notin {Unsigned, Stale} => i + 1 \in Unsigned..Stale
        BY <4>1 DEF Unsigned, Stale
      <4>3. ASSUME NEW q \in Requests PROVE signed'[q] \in Unsigned..Stale
        <5>1. signed'[q] = IF signed[q] \in {Unsigned, Stale} THEN signed[q] ELSE signed[q] + 1
          BY <1>7 DEF Tick
        <5> QED BY <3>2, <4>2, <5>1
      <4> QED BY <1>7, <4>3 DEF Tick
    <3>4. seen' \in [Requests -> Unseen..Forgotten]
      <4>1. NonceTTL \in Nat
        OBVIOUS
      <4>2. \A i \in Unseen..Forgotten :
              i \notin {Unseen, Forgotten} => i + 1 \in Unseen..Forgotten
        BY <4>1 DEF Unseen, Forgotten
      <4>3. ASSUME NEW q \in Requests PROVE seen'[q] \in Unseen..Forgotten
        <5>1. seen'[q] = IF seen[q] \in {Unseen, Forgotten} THEN seen[q] ELSE seen[q] + 1
          BY <1>7 DEF Tick
        <5> QED BY <3>2, <4>2, <5>1
      <4> QED BY <1>7, <4>3 DEF Tick
    <3> QED BY <1>7, <3>1, <3>3, <3>4 DEF Tick, TypeOK, Records
  <2>2. RunsMatchRecords'
    <3>1. \A b \in Batches : records'[b].status = records[b].status
      BY <1>0, <1>7 DEF Tick, Records
    <3> QED BY <1>7, <3>1 DEF Tick, RunsMatchRecords
  <2>3. \A q \in Requests : Spent(q) => Spent(q)'
    BY <1>7 DEF Tick, Spent, TypeOK, Unsigned, Stale, Unseen, Forgotten
  <2> QED BY <1>7, <2>1, <2>2, <2>3 DEF Tick
<1>8. CASE UNCHANGED vars
  BY <1>8 DEF vars, TypeOK, RunsMatchRecords, Spent
<1> QED BY <1>1, <1>2, <1>3, <1>4, <1>5, <1>6, <1>7, <1>8 DEF Next

\* The inductive invariant holds of every state of the service.
THEOREM ServiceInvariant == Spec => []IInv
BY InitIInv, NextIInv, PTL DEF Spec

\* The state is typed: no run ends that was not going on, and no age or size
\* leaves its range.
THEOREM Typing == Spec => []TypeOK
<1>1. IInv => TypeOK
  BY DEF IInv
<1> QED BY <1>1, ServiceInvariant, PTL

\* A signed request starts at most one run in the life of a process (claim and
\* tsProblem together).
THEOREM RequestsRunOnce == Spec => []RunsOnce
<1>1. IInv => RunsOnce
  BY DEF IInv, RunsOnce
<1> QED BY <1>1, ServiceInvariant, PTL

\* What runs is what is on record as running, and no batch runs beside itself.
THEOREM RecordsMatchRuns == Spec => []RunsMatchRecords
<1>1. IInv => RunsMatchRecords
  BY DEF IInv
<1> QED BY <1>1, ServiceInvariant, PTL

-----------------------------------------------------------------------------
\* Induction over the numbers and over a finite set, as facts about sets.
LEMMA NatInd ==
  ASSUME NEW P, 0 \in P, \A n \in Nat : n \in P => n + 1 \in P
  PROVE  Nat \subseteq P
<1> SUFFICES ASSUME ~(Nat \subseteq P) PROVE FALSE
  OBVIOUS
<1> DEFINE T == {n \in Nat : n \notin P}
<1>1. T \subseteq Nat /\ T # {}
  OBVIOUS
<1> HIDE DEF T
<1>2. PICK x \in T : \A y \in T : <<y, x>> \notin OpToRel(<, Nat)
  BY <1>1, NatLessThanWellFounded, WFMin
<1>3. \A y \in T : ~(y < x)
  BY <1>1, <1>2 DEF OpToRel
<1> QED BY <1>1, <1>3 DEF T

\* What holds of the empty set, and of a set when of all with one element less, holds of
\* a finite set.
LEMMA SetInd ==
  ASSUME NEW S, IsFiniteSet(S), NEW P, {} \in P,
         \A s \in SUBSET S : s # {} /\ (\A x \in s : s \ {x} \in P) => s \in P
  PROVE  S \in P
<1> DEFINE N == {n \in Nat : \A s \in SUBSET S : Cardinality(s) = n => s \in P}
<1>0. \A s \in SUBSET S : IsFiniteSet(s) /\ Cardinality(s) \in Nat
  BY FS_Subset, FS_CardinalityType
<1>1. 0 \in N
  BY <1>0, FS_EmptySet
<1>2. ASSUME NEW n \in Nat, n \in N PROVE n + 1 \in N
  <2> SUFFICES ASSUME NEW s \in SUBSET S, Cardinality(s) = n + 1 PROVE s \in P
    OBVIOUS
  <2>0. s # {}
    BY <1>0, FS_EmptySet
  <2>1. ASSUME NEW x \in s PROVE s \ {x} \in P
    <3>1. Cardinality(s \ {x}) = Cardinality(s) - 1
      BY <1>0, FS_RemoveElement
    <3>2. Cardinality(s \ {x}) = n
      BY <3>1
    <3> QED BY <1>2, <3>2
  <2> QED BY <2>0, <2>1
<1> HIDE DEF N
<1>3. Nat \subseteq N
  BY <1>1, <1>2, NatInd
<1>4. Cardinality(S) \in N
  BY <1>0, <1>3
<1> QED BY <1>4 DEF N

Sums(h, S, f) ==
  h = [s \in SUBSET S |-> IF s = {} THEN 0
                          ELSE LET x == CHOOSE x \in s : TRUE IN f[x] + h[s \ {x}]]

\* The recursion of MapThenSumSet is that of a function.
LEMMA SumExists ==
  ASSUME NEW S, IsFiniteSet(S), NEW f
  PROVE  \E h : Sums(h, S, f)
<1> DEFINE one(s) == CHOOSE x \in s : TRUE
           D(n) == {s \in SUBSET S : Cardinality(s) <= n}
           body(n, h) == [s \in D(n) |-> IF s = {} THEN 0 ELSE f[one(s)] + h[s \ {one(s)}]]
           P == {n \in Nat : \E h : h = body(n, h)}
<1>0. \A s \in SUBSET S : IsFiniteSet(s) /\ Cardinality(s) \in Nat
  BY FS_Subset, FS_CardinalityType
<1>1. ASSUME NEW s \in SUBSET S, s # {}
      PROVE  s \ {one(s)} \in SUBSET S /\ Cardinality(s \ {one(s)}) = Cardinality(s) - 1
  <2>1. one(s) \in s
    BY <1>1
  <2> HIDE DEF one
  <2> QED BY <1>0, <2>1, FS_RemoveElement
<1> HIDE DEF one
<1>2. 0 \in P
  <2> DEFINE g == [s \in D(0) |-> 0]
  <2>1. \A s \in D(0) : s = {}
    BY <1>0, FS_EmptySet
  <2>2. g = body(0, g)
    BY <2>1
  <2> QED BY <2>2
<1>3. ASSUME NEW n \in Nat, n \in P PROVE n + 1 \in P
  <2>1. PICK h : h = body(n, h)
    BY <1>3
  <2> DEFINE g == [s \in D(n + 1) |->
                    IF s \in D(n) THEN h[s] ELSE f[one(s)] + h[s \ {one(s)}]]
  <2>2. \A s \in D(n) : h[s] = IF s = {} THEN 0 ELSE f[one(s)] + h[s \ {one(s)}]
    BY <2>1
  <2>3. ASSUME NEW s \in D(n + 1), s # {}
        PROVE  s \ {one(s)} \in D(n) /\ s \ {one(s)} \in D(n + 1)
    <3>1. Cardinality(s \ {one(s)}) = Cardinality(s) - 1 /\ s \ {one(s)} \in SUBSET S
          /\ Cardinality(s) \in Nat /\ Cardinality(s) <= n + 1
      BY <1>0, <1>1, <2>3
    <3>2. Cardinality(s \ {one(s)}) <= n /\ Cardinality(s \ {one(s)}) <= n + 1
      BY <3>1
    <3> QED BY <3>1, <3>2
  <2>4. {} \in D(n)
    BY FS_EmptySet
  <2> HIDE DEF D
  <2>5. ASSUME NEW s \in D(n + 1)
        PROVE  g[s] = IF s = {} THEN 0 ELSE f[one(s)] + g[s \ {one(s)}]
    <3>1. s # {} => g[s \ {one(s)}] = h[s \ {one(s)}]
      BY <2>3
    <3>2. s \in D(n) => g[s] = h[s]
      OBVIOUS
    <3>3. s \notin D(n) => g[s] = f[one(s)] + h[s \ {one(s)}]
      OBVIOUS
    <3> HIDE DEF g
    <3> QED BY <2>2, <2>4, <3>1, <3>2, <3>3
  <2>6. g = body(n + 1, g)
    <3>1. g = [s \in D(n + 1) |-> g[s]]
      OBVIOUS
    <3> HIDE DEF g
    <3> QED BY <2>5, <3>1
  <2>7. \E k : k = body(n + 1, k)
    <3> HIDE DEF g, body
    <3> QED BY <2>6
  <2> HIDE DEF body
  <2> QED BY <2>7
<1> HIDE DEF P
<1>4. Cardinality(S) \in P
  BY <1>0, <1>2, <1>3, NatInd
<1>5. D(Cardinality(S)) = SUBSET S
  BY FS_Subset
<1>6. PICK h : h = body(Cardinality(S), h)
  BY <1>4 DEF P
<1>7. h = [s \in SUBSET S |-> IF s = {} THEN 0 ELSE f[one(s)] + h[s \ {one(s)}]]
  <2> HIDE DEF D
  <2> QED BY <1>5, <1>6
<1> QED BY <1>7 DEF one, Sums

SumOf(h, S, f) ==
  /\ h[{}] = 0
  /\ \A s \in SUBSET S : s # {} => \E x \in s : h[s] = f[x] + h[s \ {x}]

LEMMA RunningSum ==
  \E h : Running = h[Batches] /\ SumOf(h, Batches, runs)
<1> DEFINE body(h) == [s \in SUBSET Batches |->
                       IF s = {} THEN 0
                       ELSE LET x == CHOOSE x \in s : TRUE IN runs[x] + h[s \ {x}]]
           k == CHOOSE h : h = body(h)
<1>1. Running = k[Batches]
  BY DEF Running, MapThenSumSet, MapThenFoldSet
<1>2. \E h : h = body(h)
  <2>1. \E h : Sums(h, Batches, runs)
    BY SumExists
  <2> QED BY <2>1 DEF Sums
<1> HIDE DEF k
<1>3. k = body(k)
  BY <1>2 DEF k
<1>4. SumOf(k, Batches, runs)
  <2>1. k[{}] = 0
    BY <1>3
  <2>2. ASSUME NEW s \in SUBSET Batches, s # {} PROVE \E x \in s : k[s] = runs[x] + k[s \ {x}]
    <3>1. PICK x : x = CHOOSE y \in s : TRUE
      OBVIOUS
    <3>2. x \in s
      BY <2>2, <3>1
    <3>3. k[s] = runs[x] + k[s \ {x}]
      BY <1>3, <2>2, <3>1
    <3> QED BY <3>2, <3>3
  <2> QED BY <2>1, <2>2 DEF SumOf
<1> QED BY <1>1, <1>4

LEMMA BytesSum ==
  ASSUME NEW recs
  PROVE  \E h : /\ BytesOf(recs) = h[Batches]
                /\ SumOf(h, Batches, [b \in Batches |-> recs[b].size])
<1> DEFINE size == [b \in Batches |-> recs[b].size]
           body(h) == [s \in SUBSET Batches |->
                       IF s = {} THEN 0
                       ELSE LET x == CHOOSE x \in s : TRUE IN recs[x].size + h[s \ {x}]]
           k == CHOOSE h : h = body(h)
<1>1. BytesOf(recs) = k[Batches]
  BY DEF BytesOf, MapThenSumSet, MapThenFoldSet
<1>2. \E h : h = body(h)
  <2>1. PICK h : Sums(h, Batches, size)
    <3> HIDE DEF size
    <3> QED BY SumExists
  <2>2. ASSUME NEW s \in SUBSET Batches, s # {}
        PROVE  LET x == CHOOSE x \in s : TRUE IN size[x] = recs[x].size
    BY <2>2
  <2>3. h = body(h)
    BY <2>1, <2>2 DEF Sums
  <2> QED BY <2>3
<1> HIDE DEF k
<1>3. k = body(k)
  BY <1>2 DEF k
<1>4. SumOf(k, Batches, size)
  <2>1. k[{}] = 0
    BY <1>3
  <2>2. ASSUME NEW s \in SUBSET Batches, s # {} PROVE \E x \in s : k[s] = size[x] + k[s \ {x}]
    <3>1. PICK x : x = CHOOSE y \in s : TRUE
      OBVIOUS
    <3>2. x \in s
      BY <2>2, <3>1
    <3>3. k[s] = recs[x].size + k[s \ {x}]
      BY <1>3, <2>2, <3>1
    <3> QED BY <3>2, <3>3
  <2> QED BY <2>1, <2>2 DEF SumOf
<1> QED BY <1>1, <1>4

\* A sum of which only one term is not nothing, and one of noughts and ones.
LEMMA SumOfOne ==
  ASSUME NEW S, IsFiniteSet(S), NEW f \in [S -> Nat], NEW h, SumOf(h, S, f),
         NEW g \in S, \A x \in S \ {g} : f[x] = 0
  PROVE  h[S] = f[g]
<1> DEFINE P == {s \in SUBSET S : h[s] = IF g \in s THEN f[g] ELSE 0}
<1>1. {} \in P
  BY DEF SumOf
<1>2. ASSUME NEW s \in SUBSET S, s # {}, \A x \in s : s \ {x} \in P PROVE s \in P
  <2>1. PICK x \in s : h[s] = f[x] + h[s \ {x}]
    BY <1>2 DEF SumOf
  <2>2. h[s \ {x}] = IF g \in s \ {x} THEN f[g] ELSE 0
    BY <1>2
  <2>3. f[x] \in Nat /\ f[g] \in Nat /\ (x # g => f[x] = 0)
    BY <2>1
  <2> QED BY <2>1, <2>2, <2>3
<1> HIDE DEF P
<1>3. S \in P
  BY <1>1, <1>2, SetInd
<1> QED BY <1>3 DEF P

LEMMA SumOfOnes ==
  ASSUME NEW S, IsFiniteSet(S), NEW f \in [S -> {0, 1}], NEW h, SumOf(h, S, f)
  PROVE  h[S] = Cardinality({x \in S : f[x] = 1})
<1> DEFINE ones(s) == {x \in s : f[x] = 1}
           P == {s \in SUBSET S : h[s] = Cardinality(ones(s))}
<1>0. \A s \in SUBSET S : IsFiniteSet(ones(s)) /\ Cardinality(ones(s)) \in Nat
  <2> SUFFICES ASSUME NEW s \in SUBSET S PROVE IsFiniteSet(ones(s)) /\ Cardinality(ones(s)) \in Nat
    OBVIOUS
  <2>1. ones(s) \in SUBSET S
    OBVIOUS
  <2> HIDE DEF ones
  <2> QED BY <2>1, FS_Subset, FS_CardinalityType
<1>1. {} \in P
  <2>1. ones({}) = {}
    OBVIOUS
  <2>2. Cardinality(ones({})) = 0
    BY <2>1, FS_EmptySet
  <2> QED BY <2>2 DEF SumOf
<1>2. ASSUME NEW s \in SUBSET S, s # {}, \A x \in s : s \ {x} \in P PROVE s \in P
  <2>1. PICK x \in s : h[s] = f[x] + h[s \ {x}]
    BY <1>2 DEF SumOf
  <2>2. h[s \ {x}] = Cardinality(ones(s \ {x}))
    BY <1>2
  <2>3. CASE f[x] = 0
    <3>1. ones(s \ {x}) = ones(s)
      BY <2>3
    <3>2. Cardinality(ones(s)) \in Nat
      BY <1>0
    <3> HIDE DEF ones
    <3>3. h[s] = Cardinality(ones(s))
      BY <2>1, <2>2, <2>3, <3>1, <3>2
    <3> QED BY <3>3
  <2>4. CASE f[x] = 1
    <3>1. ones(s \ {x}) = ones(s) \ {x} /\ x \in ones(s)
      BY <2>4
    <3>2. IsFiniteSet(ones(s)) /\ Cardinality(ones(s)) \in Nat
      BY <1>0
    <3> HIDE DEF ones
    <3>3. Cardinality(ones(s) \ {x}) = Cardinality(ones(s)) - 1
      BY <3>1, <3>2, FS_RemoveElement
    <3>4. PICK k \in Nat : k = Cardinality(ones(s))
      BY <3>2
    <3>5. h[s \ {x}] = k - 1
      BY <2>2, <3>1, <3>3, <3>4
    <3>6. h[s] = k
      BY <2>1, <2>4, <3>5
    <3> QED BY <3>4, <3>6
  <2> QED BY <2>1, <2>3, <2>4
<1> HIDE DEF P
<1>3. S \in P
  BY <1>1, <1>2, SetInd
<1> QED BY <1>3 DEF P

-----------------------------------------------------------------------------
\* What is going on, and that only what has finished takes room.
Going(recs) == {b \in Batches : recs[b].status = "running"}
Light(recs) == \A b \in Batches : recs[b].status \notin {"done", "failed"} => recs[b].size = 0

\* No more runs go on than batchConcurrency, and their records are empty.
RoomInv == Cardinality(Going(records)) <= Concurrency /\ Light(records)

LEMMA GoingFacts ==
  ASSUME NEW recs
  PROVE  IsFiniteSet(Going(recs)) /\ Cardinality(Going(recs)) \in Nat
<1>1. Going(recs) \subseteq Batches
  BY DEF Going
<1> QED BY <1>1, FS_Subset, FS_CardinalityType

\* The place count of the service is the number of the records that run.
LEMMA RunningIsGoing == IInv => Running = Cardinality(Going(records))
<1> SUFFICES ASSUME IInv PROVE Running = Cardinality(Going(records))
  OBVIOUS
<1>1. runs \in [Batches -> {0, 1}] /\ {b \in Batches : runs[b] = 1} = Going(records)
  BY DEF IInv, TypeOK, RunsMatchRecords, Going
<1>2. PICK h : Running = h[Batches] /\ SumOf(h, Batches, runs)
  BY RunningSum
<1>3. h[Batches] = Cardinality({b \in Batches : runs[b] = 1})
  BY <1>1, <1>2, SumOfOnes
<1> QED BY <1>1, <1>2, <1>3

LEMMA PrunedRoom ==
  ASSUME NEW recs \in [Batches -> Records], NEW kept \in Pruned(recs), Light(recs)
  PROVE  Going(kept) = Going(recs) /\ Light(kept)
BY PrunedFacts DEF Going, Light, Finished, NoRecord

LEMMA ClosedRoom ==
  ASSUME NEW recs \in [Batches -> Records], NEW b \in Batches, recs[b].status = "running",
         NEW status \in {"done", "failed"}, NEW size \in {0} \union Sizes, Light(recs)
  PROVE  /\ Light(Closed(recs, b, status, size))
         /\ Cardinality(Going(Closed(recs, b, status, size))) = Cardinality(Going(recs)) - 1
<1> DEFINE shut == Closed(recs, b, status, size)
<1>1. /\ \A c \in Batches : c # b => shut[c] = recs[c]
      /\ shut[b].status = status
  BY ClosedFacts
<1> HIDE DEF shut
<1>2. Light(shut)
  BY <1>1 DEF Light
<1>3. Going(shut) = Going(recs) \ {b} /\ b \in Going(recs)
  BY <1>1 DEF Going
<1>4. Cardinality(Going(shut)) = Cardinality(Going(recs)) - 1
  <2>1. PICK all : all = Going(recs) /\ IsFiniteSet(all)
    BY GoingFacts
  <2>2. Cardinality(all \ {b}) = Cardinality(all) - 1
    BY <1>3, <2>1, FS_RemoveElement
  <2> QED BY <1>3, <2>1, <2>2
<1> QED BY <1>2, <1>4 DEF shut

LEMMA InitRoom == Init => RoomInv
<1> SUFFICES ASSUME Init PROVE RoomInv
  OBVIOUS
<1>1. Going(records) = {} /\ Light(records)
  BY DEF Init, Going, Light, NoRecords, NoRecord
<1> QED BY <1>1, FS_EmptySet DEF RoomInv

LEMMA NextRoom == IInv /\ RoomInv /\ [Next]_vars => RoomInv'
<1> SUFFICES ASSUME IInv, RoomInv, [Next]_vars PROVE RoomInv'
  OBVIOUS
<1>0. records \in [Batches -> Records] /\ Light(records)
  BY DEF IInv, TypeOK, Records, RoomInv
<1>a. ASSUME Going(records') = Going(records), Light(records') PROVE RoomInv'
  BY <1>a DEF RoomInv
<1>b. ASSUME records' = records PROVE RoomInv'
  BY <1>0, <1>a, <1>b
<1>c. ASSUME records' \in Pruned(records) PROVE RoomInv'
  BY <1>0, <1>a, <1>c, PrunedRoom
<1>1. ASSUME NEW r \in Requests, NEW offset \in -Skew..Skew, Sign(r, offset) PROVE RoomInv'
  BY <1>1, <1>b DEF Sign
<1>2. ASSUME NEW r \in Requests, Refuse(r) PROVE RoomInv'
  BY <1>2, <1>c DEF Refuse
<1>3. ASSUME NEW r \in Requests, Accept(r) PROVE RoomInv'
  <2>1. PICK kept \in Pruned(records) :
          ~Known(kept, BatchOf[r]) /\ records' = [kept EXCEPT ![BatchOf[r]] = RunningRecord]
    BY <1>3 DEF Accept
  <2>2. kept \in [Batches -> Records] /\ Going(kept) = Going(records) /\ Light(kept)
    BY <1>0, <2>1, PrunedFacts, PrunedRoom
  <2>3. PICK b \in Batches : b = BatchOf[r]
    OBVIOUS
  <2>4. Going(records') = Going(kept) \union {b} /\ b \notin Going(kept)
    BY <2>1, <2>2, <2>3 DEF Going, Known, RunningRecord
  <2>5. Light(records')
    BY <2>1, <2>2, <2>3 DEF Light, RunningRecord
  <2>6. Cardinality(Going(records')) = Cardinality(Going(records)) + 1
    BY <2>2, <2>4, GoingFacts, FS_AddElement
  <2>7. Cardinality(Going(records)) < Concurrency
    BY <1>3, RunningIsGoing DEF Accept
  <2>8. Cardinality(Going(records')) <= Concurrency
    BY <2>6, <2>7, GoingFacts
  <2> QED BY <2>5, <2>8 DEF RoomInv
<1>4. ASSUME NEW b \in Batches, Poll(b) PROVE RoomInv'
  BY <1>4, <1>c DEF Poll
<1>5. ASSUME NEW b \in Batches, NEW status \in {"done", "failed"}, NEW size \in {0} \union Sizes,
             End(b, status, size)
      PROVE  RoomInv'
  <2> DEFINE shut == Closed(records, b, status, size)
  <2>1. records[b].status = "running"
    BY <1>5 DEF End, IInv, RunsMatchRecords
  <2>2. /\ shut \in [Batches -> Records] /\ Light(shut)
        /\ Cardinality(Going(shut)) = Cardinality(Going(records)) - 1
    BY <1>0, <2>1, ClosedFacts, ClosedRoom
  <2>3. records' \in Pruned(shut)
    BY <1>5 DEF End
  <2> HIDE DEF shut
  <2>4. Going(records') = Going(shut) /\ Light(records')
    BY <2>2, <2>3, PrunedRoom
  <2>5. Cardinality(Going(records')) <= Concurrency
    BY <2>2, <2>4, GoingFacts DEF RoomInv
  <2> QED BY <2>4, <2>5 DEF RoomInv
<1>6. CASE Restart
  <2>1. Going(records') = {} /\ Light(records')
    BY <1>6 DEF Restart, Going, Light, NoRecords, NoRecord
  <2>2. Cardinality(Going(records')) <= Concurrency
    BY <2>1, FS_EmptySet
  <2> QED BY <2>1, <2>2 DEF RoomInv
<1>7. CASE Tick
  <2>1. \A b \in Batches : /\ records'[b].status = records[b].status
                           /\ records'[b].size = records[b].size
    BY <1>0, <1>7 DEF Tick, Records
  <2>2. Going(records') = Going(records) /\ Light(records')
    BY <1>0, <2>1 DEF Going, Light
  <2> QED BY <1>a, <2>2
<1>8. CASE UNCHANGED vars
  BY <1>8, <1>b DEF vars
<1> QED BY <1>1, <1>2, <1>3, <1>4, <1>5, <1>6, <1>7, <1>8 DEF Next

\* The finished records alone can be too many: with one of them left beside what
\* runs, everything fits.
LEMMA OneFits ==
  ASSUME NEW recs \in [Batches -> Records], Light(recs), NEW g \in Finished(recs),
         Cardinality(Going(recs)) < Concurrency
  PROVE  Fits(Without(recs, Finished(recs) \ {g}))
<1> DEFINE left == Without(recs, Finished(recs) \ {g})
<1>1. /\ \A b \in Batches : left[b] = IF b \in Finished(recs) /\ b # g THEN NoRecord ELSE recs[b]
      /\ g \in Batches
  BY DEF Without, Finished
<1> HIDE DEF left
<1>2. Held(left) = Going(recs) \union {g} /\ g \notin Going(recs)
  BY <1>1 DEF Held, Going, Finished, NoRecord, Records
<1>3. Cardinality(Held(left)) = Cardinality(Going(recs)) + 1
  BY <1>2, GoingFacts, FS_AddElement
<1>4. Cardinality(Held(left)) <= MaxRecords
  BY <1>3, GoingFacts
<1> DEFINE size == [b \in Batches |-> left[b].size]
<1>5. \A b \in Batches \ {g} : size[b] = 0
  BY <1>1 DEF Light, Finished, NoRecord
<1>6. size \in [Batches -> Nat] /\ size[g] <= MaxBytes
  <2>1. \A b \in Batches : left[b] \in Records
    BY <1>1 DEF NoRecord, Records
  <2>2. \A b \in Batches : left[b].size \in {0} \union Sizes
    BY <2>1 DEF Records
  <2>3. \A n \in {0} \union Sizes : n \in Nat /\ n <= MaxBytes
    OBVIOUS
  <2> QED BY <1>1, <2>2, <2>3
<1>7. PICK h : BytesOf(left) = h[Batches] /\ SumOf(h, Batches, size)
  BY BytesSum
<1> HIDE DEF size
<1>8. h[Batches] = size[g]
  BY <1>1, <1>5, <1>6, <1>7, SumOfOne
<1>9. BytesOf(left) <= MaxBytes
  BY <1>6, <1>7, <1>8
<1> QED BY <1>4, <1>9 DEF Fits, left

\* What finished this instant stays, or gives way to what finished with it.
LEMMA FreshStays ==
  ASSUME NEW recs \in [Batches -> Records], Light(recs),
         Cardinality(Going(recs)) < Concurrency,
         NEW b \in Finished(recs), recs[b].age = 0, NEW kept \in Pruned(recs)
  PROVE  kept[b] = recs[b] \/ \E f \in Finished(kept) : kept[f].age = 0
<1> DEFINE old == {c \in Finished(recs) : recs[c].age >= ResultTTL}
           live == Without(recs, old)
<1>1. \A c \in Batches : live[c] = IF c \in old THEN NoRecord ELSE recs[c]
  BY DEF Without
<1>2. live \in [Batches -> Records]
  BY <1>1 DEF Without, NoRecord, Records
<1>3. live[b] = recs[b] /\ b \in Finished(live) /\ b \in Batches
  BY <1>1 DEF Finished
<1>4. Going(live) = Going(recs) /\ Light(live)
  BY <1>1 DEF Going, Light, Finished, NoRecord
<1>5. CASE kept = live
  BY <1>3, <1>5
<1>6. ASSUME NEW gone \in SUBSET Finished(live), Oldest(live, gone), kept = Without(live, gone)
      PROVE  kept[b] = recs[b] \/ \E f \in Finished(kept) : kept[f].age = 0
  <2> HIDE DEF live, old
  <2>1. \A c \in Batches : kept[c] = IF c \in gone THEN NoRecord ELSE live[c]
    BY <1>6 DEF Without
  <2>2. CASE b \notin gone
    BY <1>3, <2>1, <2>2
  <2>3. ASSUME b \in gone, NEW f \in Finished(live) \ gone
        PROVE  f \in Finished(kept) /\ kept[f].age = 0
    <3>1. kept[f] = live[f] /\ live[f] \in Records /\ f \in Finished(kept)
      BY <1>2, <2>1, <2>3 DEF Finished
    <3>2. 0 >= live[f].age
      BY <1>3, <1>6, <2>3 DEF Oldest, Older
    <3>3. live[f].age \in Nat
      BY <3>1 DEF Records
    <3> QED BY <3>1, <3>2, <3>3
  <2>4. CASE gone = Finished(live)
    <3>1. PICK g \in gone : ~Fits(Without(live, gone \ {g}))
      BY <1>3, <1>6, <2>4 DEF Oldest
    <3> QED BY <1>2, <1>4, <2>4, <3>1, OneFits
  <2> QED BY <2>2, <2>3, <2>4
<1> QED BY <1>5, <1>6 DEF Pruned

\* Beside IInv, the places are never overrun.
THEOREM RoomInvariant == Spec => []RoomInv
BY InitRoom, NextRoom, ServiceInvariant, PTL DEF Spec

\* What a run that ends leaves is what a poll finds (store.finish and store.fail
\* with the prune after them): the limits take older results first, and are never
\* so tight that the fresh one goes alone.
THEOREM EndsAreOnRecord == Spec => EndIsOnRecord
<1>1. ASSUME IInv, RoomInv, [Next]_vars,
             NEW b \in Batches, NEW status \in {"done", "failed"}, NEW size \in {0} \union Sizes,
             End(b, status, size)
      PROVE  \/ records'[b].status = status
             \/ \E f \in Finished(records') : records'[f].age = 0
  <2> DEFINE shut == Closed(records, b, status, size)
  <2>0. records \in [Batches -> Records] /\ Light(records)
    BY <1>1 DEF IInv, TypeOK, Records, RoomInv
  <2>1. records[b].status = "running"
    BY <1>1 DEF End, IInv, RunsMatchRecords
  <2>2. /\ shut \in [Batches -> Records] /\ Light(shut)
        /\ Cardinality(Going(shut)) = Cardinality(Going(records)) - 1
    BY <2>0, <2>1, ClosedFacts, ClosedRoom
  <2>3. shut[b].status = status /\ shut[b].age = 0 /\ b \in Finished(shut)
    BY <2>0, <2>1 DEF Closed, Finished
  <2>4. records' \in Pruned(shut)
    BY <1>1 DEF End
  <2> HIDE DEF shut
  <2>5. Cardinality(Going(shut)) < Concurrency
    BY <1>1, <2>2, GoingFacts DEF RoomInv
  <2>6. records'[b] = shut[b] \/ \E f \in Finished(records') : records'[f].age = 0
    BY <2>2, <2>3, <2>4, <2>5, FreshStays
  <2> QED BY <2>3, <2>6
<1>2. IInv /\ RoomInv /\ [Next]_vars =>
        [\A b \in Batches, status \in {"done", "failed"}, size \in {0} \union Sizes :
           End(b, status, size) => \/ records'[b].status = status
                                   \/ \E f \in Finished(records') : records'[f].age = 0]_vars
  BY <1>1
<1> QED BY <1>2, ServiceInvariant, RoomInvariant, PTL DEF Spec, EndIsOnRecord
=============================================================================
