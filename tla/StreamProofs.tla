---------------------------- MODULE StreamProofs ----------------------------
(***************************************************************************)
(* What the page shows of an audit: proofs about ProgressStream for every  *)
(* number of attempts, events and messages under way, every size of the    *)
(* ring, and a feed that holds at least a ring (progress.ts keeps 30       *)
(* events, audit-activity.ts 60).                                          *)
(***************************************************************************)
EXTENDS ProgressStream, FiniteSetTheorems, TLAPS

-----------------------------------------------------------------------------
(* Batches of events. *)

\* Events m + 1 to n of writer b, and what a ring keeps of the first n.
Events(b, m, n) == [i \in 1..(n - m) |-> <<b, m + i>>]
Low(n)     == IF n > RingSize THEN n - RingSize ELSE 0
Ring(b, n) == Events(b, Low(n), n)

\* Two sequences with the same elements are one.
LEMMA SameSequence ==
  ASSUME NEW T, NEW s \in Seq(T), NEW t \in Seq(T), Len(s) = Len(t),
         \A i \in 1..Len(s) : s[i] = t[i]
  PROVE  s = t
  <1>1. s = [i \in 1..Len(s) |-> s[i]] /\ t = [i \in 1..Len(t) |-> t[i]]
    OBVIOUS
  <1> QED BY <1>1

\* The events of a batch and its length.
LEMMA EventsSeq ==
  ASSUME NEW b \in Nat, NEW m \in Nat, NEW n \in Nat, m <= n
  PROVE  Events(b, m, n) \in Seq(Nat \X Nat) /\ Len(Events(b, m, n)) = n - m
  BY DEF Events

LEMMA EventsAt ==
  ASSUME NEW b \in Nat, NEW m \in Nat, NEW n \in Nat, m <= n
  PROVE  \A i \in 1..(n - m) : Events(b, m, n)[i] = <<b, m + i>>
  BY DEF Events

LEMMA EventsEmpty ==
  ASSUME NEW b \in Nat, NEW m \in Nat, NEW n \in Nat, m <= n
  PROVE  Events(b, m, n) = <<>> <=> m = n
  BY DEF Events

LEMMA EventsSet ==
  ASSUME NEW b \in Nat, NEW m \in Nat, NEW n \in Nat, m <= n
  PROVE  \A e : e \in ToSet(Events(b, m, n)) <=> e = <<b, e[2]>> /\ e[2] \in (m + 1)..n
  <1> DEFINE s == Events(b, m, n)
  <1>1. Len(s) = n - m /\ \A i \in 1..(n - m) : s[i] = <<b, m + i>>
    <2>1. Len(s) = n - m
      BY EventsSeq
    <2>2. \A i \in 1..(n - m) : s[i] = <<b, m + i>>
      BY EventsAt
    <2> QED BY <2>1, <2>2
  <1>2. ToSet(s) = {s[i] : i \in 1..(n - m)}
    BY <1>1 DEF ToSet
  <1>3. \A k \in (m + 1)..n : k - m \in 1..(n - m) /\ s[k - m] = <<b, k>>
    BY <1>1
  <1>4. \A i \in 1..(n - m) : m + i \in (m + 1)..n
    OBVIOUS
  <1> HIDE DEF s
  <1>5. ASSUME NEW e \in ToSet(s) PROVE e = <<b, e[2]>> /\ e[2] \in (m + 1)..n
    <2>1. PICK i \in 1..(n - m) : e = s[i]
      BY <1>2
    <2>2. e = <<b, m + i>>
      BY <1>1, <2>1
    <2> QED BY <1>4, <2>2
  <1>6. ASSUME NEW k \in (m + 1)..n PROVE <<b, k>> \in ToSet(s)
    BY <1>2, <1>3
  <1>7. \A e : e \in ToSet(s) <=> e = <<b, e[2]>> /\ e[2] \in (m + 1)..n
    BY <1>5, <1>6
  <1> QED BY <1>7 DEF s

\* The mark after a batch that is not empty is its last event's.
LEMMA MarkOfEvents ==
  ASSUME NEW b \in Nat, NEW m \in Nat, NEW n \in Nat, m < n, NEW mark
  PROVE  MarkAfter(Events(b, m, n), mark) = n
  <1> DEFINE s == Events(b, m, n)
  <1>1. Len(s) = n - m /\ s # <<>> /\ s[n - m] = <<b, n>>
    <2>1. Len(s) = n - m
      BY EventsSeq
    <2>2. s # <<>>
      BY EventsEmpty
    <2>3. \A i \in 1..(n - m) : s[i] = <<b, m + i>>
      BY EventsAt
    <2>4. n - m \in 1..(n - m) /\ m + (n - m) = n
      OBVIOUS
    <2> HIDE DEF s
    <2> QED BY <2>1, <2>2, <2>3, <2>4
  <1> HIDE DEF s
  <1>2. MarkAfter(s, mark) = n
    BY <1>1 DEF MarkAfter
  <1> QED BY <1>2 DEF s

\* How many there are.
LEMMA EventsCount ==
  ASSUME NEW b \in Nat, NEW m \in Nat, NEW n \in Nat, m <= n
  PROVE  Cardinality({<<b, k>> : k \in (m + 1)..n}) = n - m
  <1> DEFINE S == {<<b, k>> : k \in (m + 1)..n}
             f == [i \in 1..(n - m) |-> <<b, m + i>>]
  <1>1. f \in [1..(n - m) -> S]
    OBVIOUS
  <1>2. \A i, j \in 1..(n - m) : f[i] = f[j] => i = j
    OBVIOUS
  <1>3. \A e \in S : \E i \in 1..(n - m) : f[i] = e
    <2> SUFFICES ASSUME NEW k \in (m + 1)..n PROVE \E i \in 1..(n - m) : f[i] = <<b, k>>
      OBVIOUS
    <2>1. k - m \in 1..(n - m) /\ f[k - m] = <<b, k>>
      OBVIOUS
    <2> QED BY <2>1
  <1> HIDE DEF S, f
  <1>4. ExistsBijection(1..(n - m), S)
    BY <1>1, <1>2, <1>3 DEF ExistsBijection, Bijection, Injection, Surjection, IsInjective
  <1>5. Cardinality(S) = n - m
    BY <1>4, FS_CountingElements
  <1> QED BY <1>5 DEF S

\* What is newer than a mark in a batch.
From(m, mark, n) == IF mark <= m THEN m ELSE IF mark <= n THEN mark ELSE n

LEMMA NewerOfEvents ==
  ASSUME NEW b \in Nat, NEW m \in Nat, NEW n \in Nat, m <= n, NEW mark \in Nat
  PROVE  /\ From(m, mark, n) \in Nat /\ m <= From(m, mark, n) /\ From(m, mark, n) <= n
         /\ Newer(Events(b, m, n), mark) = Events(b, From(m, mark, n), n)
  <1> DEFINE p == From(m, mark, n)
             new == {e \in ToSet(Events(b, m, n)) : e[2] > mark}
  <1>1. p \in Nat /\ m <= p /\ p <= n
    BY DEF From
  <1>2. new = {<<b, k>> : k \in (p + 1)..n}
    <2>0. \A e : e \in ToSet(Events(b, m, n)) <=> e = <<b, e[2]>> /\ e[2] \in (m + 1)..n
      BY EventsSet
    <2>1. \A e \in new : e[2] \in (m + 1)..n /\ e = <<b, e[2]>> /\ e[2] > mark
      BY <2>0
    <2>2. \A k \in (m + 1)..n : k > mark => <<b, k>> \in new
      BY <2>0
    <2>3. \A k \in (m + 1)..n : k > mark <=> k \in (p + 1)..n
      BY DEF From
    <2>4. \A k \in (p + 1)..n : k \in (m + 1)..n
      BY <1>1
    <2> HIDE DEF new, p
    <2> QED BY <2>1, <2>2, <2>3, <2>4
  <1> HIDE DEF p, new
  <1>3. Cardinality(new) = n - p
    BY <1>1, <1>2, EventsCount
  <1>4. \A k \in (p + 1)..n : {f \in new : f[2] <= k} = {<<b, j>> : j \in (p + 1)..k}
    BY <1>1, <1>2
  <1>5. \A k \in (p + 1)..n : Cardinality({f \in new : f[2] <= k}) = k - p
    <2> SUFFICES ASSUME NEW k \in (p + 1)..n
                 PROVE  Cardinality({<<b, j>> : j \in (p + 1)..k}) = k - p
      BY <1>4
    <2>1. k \in Nat /\ p <= k
      BY <1>1
    <2> QED BY <1>1, <2>1, EventsCount
  <1>6. ASSUME NEW i \in 1..(n - p)
        PROVE  (CHOOSE e \in new : Cardinality({f \in new : f[2] <= e[2]}) = i) = <<b, p + i>>
    <2>1. p + i \in (p + 1)..n
      BY <1>1
    <2>2. \A e \in new : e[2] \in (p + 1)..n /\ e = <<b, e[2]>>
      BY <1>2
    <2>3. \A e \in new : Cardinality({f \in new : f[2] <= e[2]}) = e[2] - p
      BY <1>5, <2>2
    <2>4. <<b, p + i>> \in new
      BY <1>2, <2>1
    <2>5. \A e \in new : e[2] - p = i <=> e = <<b, p + i>>
      BY <1>1, <2>2
    <2>6. \A e \in new : Cardinality({f \in new : f[2] <= e[2]}) = i <=> e = <<b, p + i>>
      BY <2>3, <2>5
    <2> QED BY <2>4, <2>6
  <1>7. Newer(Events(b, m, n), mark) = Events(b, p, n)
    BY <1>3, <1>6 DEF Newer, Events, new
  <1> QED BY <1>1, <1>7 DEF p

\* The last events of a sequence.
LEMMA LatestReads ==
  ASSUME NEW T, NEW s \in Seq(T), NEW n \in Nat \ {0}
  PROVE  LET d == IF Len(s) > n THEN Len(s) - n ELSE 0 IN
           /\ Latest(s, n) \in Seq(T) /\ Len(Latest(s, n)) = Len(s) - d
           /\ \A i \in 1..(Len(s) - d) : Latest(s, n)[i] = s[d + i]
  <1> DEFINE d == IF Len(s) > n THEN Len(s) - n ELSE 0
  <1>1. Latest(s, n) = SubSeq(s, d + 1, Len(s)) /\ d \in Nat /\ d <= Len(s)
    BY DEF Latest
  <1> HIDE DEF d
  <1>2. \A i \in (d + 1)..Len(s) : s[i] \in T
    BY <1>1
  <1>3. SubSeq(s, d + 1, Len(s)) \in Seq(T)
    BY <1>1, <1>2
  <1>4. /\ Len(SubSeq(s, d + 1, Len(s))) = Len(s) - d
        /\ \A i \in 1..(Len(s) - d) : SubSeq(s, d + 1, Len(s))[i] = s[d + i]
    BY <1>1
  <1> QED BY <1>1, <1>3, <1>4 DEF d

LEMMA LatestShort ==
  ASSUME NEW T, NEW s \in Seq(T), NEW n \in Nat \ {0}
  PROVE  Len(Latest(s, n)) <= n
  <1>1. Len(Latest(s, n)) = Len(s) - (IF Len(s) > n THEN Len(s) - n ELSE 0)
    BY LatestReads
  <1> QED BY <1>1

\* The sizes are sizes, and a writer is a number.
LEMMA Sizes ==
  /\ RingSize \in Nat \ {0} /\ FeedSize \in Nat \ {0} /\ Attempts \in Nat \ {0}
  /\ RingSize <= FeedSize
  /\ 1..Attempts \subseteq Nat
  /\ \A n \in Nat : Low(n) \in Nat /\ Low(n) <= n /\ (Low(n) = n <=> n = 0)
  /\ \A m, n \in Nat : m <= n => Low(m) <= Low(n)
  BY StreamAssumption DEF Low

\* A ring that takes in the next event is the next ring.
LEMMA NextRing ==
  ASSUME NEW b \in Nat, NEW n \in Nat
  PROVE  Latest(Append(Ring(b, n), <<b, n + 1>>), RingSize) = Ring(b, n + 1)
  <1> DEFINE s == Append(Ring(b, n), <<b, n + 1>>)
             d == IF Len(s) > RingSize THEN Len(s) - RingSize ELSE 0
  <1>1. Low(n) \in Nat /\ Low(n) <= n
    BY Sizes
  <1>2. /\ Ring(b, n) \in Seq(Nat \X Nat) /\ Len(Ring(b, n)) = n - Low(n)
        /\ \A i \in 1..(n - Low(n)) : Ring(b, n)[i] = <<b, Low(n) + i>>
    <2>1. \A i \in 1..(n - Low(n)) : Events(b, Low(n), n)[i] = <<b, Low(n) + i>>
      BY <1>1, EventsAt
    <2>2. Events(b, Low(n), n) \in Seq(Nat \X Nat) /\ Len(Events(b, Low(n), n)) = n - Low(n)
      BY <1>1, EventsSeq
    <2> QED BY <2>1, <2>2 DEF Ring
  <1>3. /\ s \in Seq(Nat \X Nat) /\ Len(s) = n + 1 - Low(n)
        /\ \A i \in 1..(n + 1 - Low(n)) : s[i] = <<b, Low(n) + i>>
    BY <1>1, <1>2
  <1> HIDE DEF s
  <1>4. /\ Latest(s, RingSize) \in Seq(Nat \X Nat) /\ Len(Latest(s, RingSize)) = Len(s) - d
        /\ \A i \in 1..(Len(s) - d) : Latest(s, RingSize)[i] = s[d + i]
    BY <1>3, LatestReads, Sizes
  <1>5. Low(n) + d = Low(n + 1) /\ d \in Nat
    BY <1>1, <1>3, Sizes DEF Low
  <1>6. Len(s) - d = n + 1 - Low(n + 1)
    BY <1>1, <1>3, <1>5
  <1> HIDE DEF d
  <1>7. \A i \in 1..(n + 1 - Low(n + 1)) : Latest(s, RingSize)[i] = <<b, Low(n + 1) + i>>
    <2> SUFFICES ASSUME NEW i \in 1..(n + 1 - Low(n + 1))
                 PROVE  Latest(s, RingSize)[i] = <<b, Low(n + 1) + i>>
      OBVIOUS
    <2>1. Latest(s, RingSize)[i] = s[d + i]
      BY <1>4, <1>6
    <2>2. d + i \in 1..(n + 1 - Low(n)) /\ Low(n) + (d + i) = Low(n + 1) + i
      BY <1>1, <1>5, Sizes
    <2> QED BY <1>3, <2>1, <2>2
  <1> DEFINE q == Latest(s, RingSize)
             l == Low(n + 1)
             k == n + 1
  <1>8. /\ l \in Nat /\ k \in Nat /\ l <= k
        /\ q \in Seq(Nat \X Nat) /\ Len(q) = k - l
        /\ \A i \in 1..(k - l) : q[i] = <<b, l + i>>
    <2>1. l \in Nat /\ k \in Nat /\ l <= k
      BY Sizes
    <2> QED BY <1>4, <1>6, <1>7, <2>1
  <1> HIDE DEF q, l, k
  <1>9. q = Events(b, l, k)
    <2>1. \A i \in 1..(k - l) : Events(b, l, k)[i] = <<b, l + i>>
      BY <1>8, EventsAt
    <2>2. Events(b, l, k) \in Seq(Nat \X Nat) /\ Len(Events(b, l, k)) = k - l
      BY <1>8, EventsSeq
    <2>3. Len(q) = Len(Events(b, l, k)) /\ \A i \in 1..Len(q) : q[i] = Events(b, l, k)[i]
      BY <1>8, <2>1, <2>2
    <2> QED BY <1>8, <2>2, <2>3, SameSequence
  <1> QED BY <1>9 DEF q, l, k, s, Ring

\* What a ring holds, and whose it is.
LEMMA RingReads ==
  ASSUME NEW b \in Nat, NEW n \in Nat
  PROVE  /\ Ring(b, n) \in Seq(Nat \X Nat)
         /\ (Ring(b, n) = <<>> <=> n = 0)
         /\ MarkAfter(Ring(b, n), 0) = n
         /\ \A e : e \in ToSet(Ring(b, n)) <=> e = <<b, e[2]>> /\ e[2] \in (Low(n) + 1)..n
  <1>1. Low(n) \in Nat /\ Low(n) <= n /\ (Low(n) = n <=> n = 0)
    BY Sizes
  <1>2. /\ Ring(b, n) \in Seq(Nat \X Nat)
        /\ (Ring(b, n) = <<>> <=> n = 0)
        /\ \A e : e \in ToSet(Ring(b, n)) <=> e = <<b, e[2]>> /\ e[2] \in (Low(n) + 1)..n
    <2>1. Ring(b, n) \in Seq(Nat \X Nat)
      BY <1>1, EventsSeq DEF Ring
    <2>2. Ring(b, n) = <<>> <=> n = 0
      BY <1>1, EventsEmpty DEF Ring
    <2>3. \A e : e \in ToSet(Ring(b, n)) <=> e = <<b, e[2]>> /\ e[2] \in (Low(n) + 1)..n
      BY <1>1, EventsSet DEF Ring
    <2> QED BY <2>1, <2>2, <2>3
  <1>3. CASE n = 0
    BY <1>2, <1>3 DEF MarkAfter
  <1>4. CASE n # 0
    <2>1. Low(n) < n
      BY <1>1, <1>4
    <2>2. MarkAfter(Events(b, Low(n), n), 0) = n
      BY <1>1, <2>1, MarkOfEvents
    <2> QED BY <1>2, <2>2 DEF Ring
  <1> QED BY <1>2, <1>3, <1>4

LEMMA RingIsOne ==
  ASSUME NEW b \in Nat, NEW n \in Nat, NEW c \in Nat, NEW k \in Nat, n # 0,
         Ring(b, n) = Ring(c, k)
  PROVE  b = c /\ n = k
  <1>1. <<b, n>> \in ToSet(Ring(b, n))
    <2>1. Low(n) \in Nat /\ Low(n) <= n /\ Low(n) # n
      BY Sizes
    <2>2. <<b, n>>[2] = n /\ n \in (Low(n) + 1)..n
      BY <2>1
    <2> QED BY <2>2, RingReads
  <1>2. <<b, n>> = <<c, n>>
    BY <1>1, RingReads
  <1>3. n = k
    BY RingReads
  <1> QED BY <1>2, <1>3

\* One sequence after another.
LEMMA Joined ==
  ASSUME NEW T, NEW s \in Seq(T), NEW v \in Seq(T)
  PROVE  /\ s \o v \in Seq(T) /\ Len(s \o v) = Len(s) + Len(v)
         /\ \A i \in 1..Len(s) : (s \o v)[i] = s[i]
         /\ \A i \in 1..Len(v) : (s \o v)[Len(s) + i] = v[i]
  OBVIOUS

\* Numbers that go up by one at least.
Spread(s) == \A i, j \in 1..Len(s) : i <= j => s[i][2] + (j - i) <= s[j][2]

LEMMA Numbers ==
  ASSUME NEW s \in Seq(Nat \X Nat), NEW i \in 1..Len(s)
  PROVE  s[i] \in Nat \X Nat /\ s[i][2] \in Nat
  OBVIOUS

LEMMA SpreadJoined ==
  ASSUME NEW s \in Seq(Nat \X Nat), NEW v \in Seq(Nat \X Nat), Spread(s), NEW p \in Nat,
         s # <<>> => s[Len(s)][2] <= p,
         \A i \in 1..Len(v) : v[i][2] = p + i
  PROVE  Spread(s \o v)
  <1> DEFINE S == s \o v
             a == Len(s)
             c == Len(v)
  <1>1. /\ S \in Seq(Nat \X Nat) /\ a \in Nat /\ c \in Nat /\ Len(S) = a + c
        /\ \A i \in 1..a : S[i] = s[i]
        /\ \A i \in 1..c : S[a + i] = v[i]
    BY Joined
  <1> HIDE DEF S
  <1>2. \A i \in 1..a : s[i][2] \in Nat
    BY Numbers
  <1>3. ASSUME NEW i \in 1..a PROVE s[i][2] + (a - i) <= p
    <2>1. a \in 1..a /\ i <= a
      BY <1>1
    <2>2. s # <<>>
      BY <1>1
    <2>3. s[i][2] + (a - i) <= s[a][2]
      BY <2>1 DEF Spread
    <2>4. PICK u, w \in Nat : u = s[i][2] /\ w = s[a][2]
      BY <1>2, <2>1
    <2>5. a \in Nat /\ w <= p /\ u + (a - i) <= w
      BY <1>1, <2>2, <2>3, <2>4
    <2>6. u + (a - i) <= p
      BY <2>5
    <2> QED BY <2>4, <2>6
  <1> SUFFICES ASSUME NEW i \in 1..Len(S), NEW j \in 1..Len(S), i <= j
               PROVE  S[i][2] + (j - i) <= S[j][2]
    BY DEF Spread, S
  <1> HIDE DEF a, c
  <1>4. CASE j <= a
    <2>1. i \in 1..a /\ j \in 1..a
      BY <1>1, <1>4
    <2>2. S[i] = s[i] /\ S[j] = s[j]
      BY <1>1, <2>1
    <2>3. s[i][2] + (j - i) <= s[j][2]
      BY <2>1 DEF Spread, a
    <2> QED BY <2>2, <2>3
  <1>5. CASE a < j
    <2>1. PICK y \in 1..c : j = a + y
      <3>1. j - a \in 1..c /\ j = a + (j - a)
        BY <1>1, <1>5
      <3> QED BY <3>1
    <2>2. S[j][2] = p + y
      BY <1>1, <2>1 DEF c
    <2>3. CASE i <= a
      <3>1. i \in 1..a
        BY <1>1, <2>3
      <3>2. S[i] = s[i]
        BY <1>1, <3>1
      <3>3. s[i][2] + (a - i) <= p /\ s[i][2] \in Nat
        BY <1>2, <1>3, <3>1 DEF a
      <3>4. PICK u \in Nat : u = s[i][2]
        BY <3>3
      <3>5. u + (j - i) <= p + y
        <4>1. u + (a - i) <= p
          BY <3>3, <3>4
        <4>2. a \in Nat /\ c \in Nat
          BY <1>1
        <4>3. y \in Nat /\ j = a + y /\ i \in Nat
          BY <2>1, <3>1, <4>2
        <4> QED BY <4>1, <4>2, <4>3
      <3> QED BY <2>2, <3>2, <3>4, <3>5
    <2>4. CASE a < i
      <3>1. PICK x \in 1..c : i = a + x
        <4>1. i - a \in 1..c /\ i = a + (i - a)
          BY <1>1, <2>4
        <4> QED BY <4>1
      <3>2. S[i][2] = p + x
        BY <1>1, <3>1 DEF c
      <3> QED BY <1>1, <2>1, <2>2, <3>1, <3>2
    <2> QED BY <1>1, <2>3, <2>4
  <1> QED BY <1>1, <1>4, <1>5

\* The last of a sequence that goes up: it goes up, ends the same, and whatever is less
\* than as many numbers back is still there.
LEMMA LatestStays ==
  ASSUME NEW S \in Seq(Nat \X Nat), S # <<>>, Spread(S), NEW m \in Nat \ {0}
  PROVE  LET t == Latest(S, m) IN
           /\ t \in Seq(Nat \X Nat) /\ t # <<>> /\ t[Len(t)] = S[Len(S)] /\ Spread(t)
           /\ \A i \in 1..Len(S) : S[i][2] + m > S[Len(S)][2] => S[i] \in ToSet(t)
  <1> DEFINE L == Len(S)
             d == IF L > m THEN L - m ELSE 0
             t == Latest(S, m)
  <1>1. /\ t \in Seq(Nat \X Nat) /\ Len(t) = L - d
        /\ \A i \in 1..(L - d) : t[i] = S[d + i]
    BY LatestReads
  <1>2. L \in Nat \ {0} /\ d \in Nat /\ d < L /\ (d # 0 => d = L - m)
    OBVIOUS
  <1>3. \A i \in 1..L : S[i][2] \in Nat
    BY Numbers
  <1>4. \A i, j \in 1..L : i <= j => S[i][2] + (j - i) <= S[j][2]
    BY DEF Spread
  <1> HIDE DEF t, L, d
  <1>5. t # <<>> /\ t[Len(t)] = S[L]
    <2>1. PICK x \in 1..(L - d) : x = L - d /\ d + x = L
      <3>1. L - d \in 1..(L - d) /\ d + (L - d) = L
        BY <1>2
      <3> QED BY <3>1
    <2> QED BY <1>1, <1>2, <2>1
  <1>6. Spread(t)
    <2> SUFFICES ASSUME NEW i \in 1..Len(t), NEW j \in 1..Len(t), i <= j
                 PROVE  t[i][2] + (j - i) <= t[j][2]
      BY DEF Spread
    <2>1. PICK x, y \in 1..L : x = d + i /\ y = d + j
      <3>1. d + i \in 1..L /\ d + j \in 1..L
        BY <1>1, <1>2
      <3> QED BY <3>1
    <2>2. t[i] = S[x] /\ t[j] = S[y]
      BY <1>1, <2>1
    <2>3. x <= y /\ y - x = j - i
      BY <1>1, <1>2, <2>1
    <2>4. S[x][2] + (y - x) <= S[y][2]
      BY <1>4, <2>3
    <2> QED BY <2>2, <2>3, <2>4
  <1>7. ASSUME NEW i \in 1..L, S[i][2] + m > S[L][2] PROVE S[i] \in ToSet(t)
    <2>1. L \in 1..L /\ i <= L
      BY <1>2
    <2>2. S[i][2] + (L - i) <= S[L][2]
      BY <1>4, <2>1
    <2>3. S[i][2] \in Nat /\ S[L][2] \in Nat
      BY <1>3, <2>1
    <2>4. L - i < m
      <3>1. PICK x, y \in Nat : x = S[i][2] /\ y = S[L][2]
        BY <2>3
      <3>2. x + m > y /\ x + (L - i) <= y
        BY <1>7, <2>2, <3>1
      <3>3. L \in Nat /\ i \in Nat /\ m \in Nat
        BY <1>2
      <3> QED BY <3>2, <3>3
    <2>5. PICK x \in 1..(L - d) : d + x = i
      <3>1. i - d \in 1..(L - d) /\ d + (i - d) = i
        BY <1>2, <2>1, <2>4
      <3> QED BY <3>1
    <2>6. t[x] = S[i] /\ x \in 1..Len(t)
      BY <1>1, <2>5
    <2> QED BY <2>6 DEF ToSet
  <1> QED BY <1>1, <1>5, <1>6, <1>7 DEF t, L

\* A feed that takes in newer events: it still goes up, the last event is the newest, and
\* all that is in the last ring of numbers stays.
LEMMA FeedGrows ==
  ASSUME NEW s \in Seq(Nat \X Nat), Spread(s),
         NEW b \in Nat, NEW p \in Nat, NEW n \in Nat, p < n,
         s # <<>> => s[Len(s)][2] <= p
  PROVE  LET t == Latest(s \o Events(b, p, n), FeedSize) IN
           /\ t \in Seq(Nat \X Nat) /\ t # <<>> /\ t[Len(t)] = <<b, n>> /\ Spread(t)
           /\ \A e \in ToSet(s) : e[2] > Low(n) => e \in ToSet(t)
           /\ \A k \in (p + 1)..n : k > Low(n) => <<b, k>> \in ToSet(t)
  <1> DEFINE v == Events(b, p, n)
             S == s \o v
             t == Latest(S, FeedSize)
             a == Len(s)
  <1>1. v \in Seq(Nat \X Nat) /\ Len(v) = n - p
    <2>1. p <= n
      OBVIOUS
    <2> QED BY ONLY <2>1, EventsSeq
  <1>2. \A i \in 1..(n - p) : v[i] = <<b, p + i>>
    BY EventsAt
  <1> HIDE DEF v
  <1>3. /\ S \in Seq(Nat \X Nat) /\ Len(S) = a + (n - p) /\ a \in Nat
        /\ \A i \in 1..a : S[i] = s[i]
        /\ \A i \in 1..(n - p) : S[a + i] = v[i]
    <2>1. S \in Seq(Nat \X Nat) /\ Len(S) = a + Len(v) /\ a \in Nat
      <3>1. S \in Seq(Nat \X Nat)
        BY <1>1, Joined
      <3>2. Len(S) = a + Len(v)
        BY <1>1, Joined
      <3> QED BY <3>1, <3>2
    <2>2. \A i \in 1..a : S[i] = s[i]
      BY <1>1, Joined
    <2>3. \A i \in 1..Len(v) : S[a + i] = v[i]
      BY <1>1, Joined
    <2> QED BY <1>1, <2>1, <2>2, <2>3
  <1>4. Spread(S)
    <2>1. \A i \in 1..Len(v) : v[i][2] = p + i
      BY <1>1, <1>2
    <2> QED BY <1>1, <2>1, SpreadJoined
  <1> HIDE DEF S
  <1>5. S # <<>> /\ S[Len(S)] = <<b, n>>
    <2>1. PICK x \in 1..(n - p) : x = n - p /\ p + x = n
      OBVIOUS
    <2>2. S[a + x] = <<b, p + x>>
      BY <1>2, <1>3, <2>1
    <2>3. Len(S) = a + x /\ Len(S) # 0
      BY <1>3, <2>1
    <2> QED BY <1>3, <2>1, <2>2, <2>3
  <1>6. /\ t \in Seq(Nat \X Nat) /\ t # <<>> /\ t[Len(t)] = S[Len(S)] /\ Spread(t)
        /\ \A i \in 1..Len(S) : S[i][2] + FeedSize > S[Len(S)][2] => S[i] \in ToSet(t)
    BY <1>3, <1>4, <1>5, LatestStays, Sizes
  <1> HIDE DEF t
  <1>7. ASSUME NEW k \in Nat, k > Low(n) PROVE k + FeedSize > n
    BY <1>7, Sizes DEF Low
  <1>8. ASSUME NEW i \in 1..Len(S), NEW k \in Nat, S[i][2] = k, k > Low(n) PROVE S[i] \in ToSet(t)
    <2>1. S[Len(S)][2] = n
      BY <1>5
    <2>2. k + FeedSize > n
      BY <1>7, <1>8
    <2> QED BY <1>6, <1>8, <2>1, <2>2
  <1>9. ASSUME NEW e \in ToSet(s), e[2] > Low(n) PROVE e \in ToSet(t)
    <2>1. PICK i \in 1..a : e = s[i]
      BY DEF ToSet
    <2>2. e[2] \in Nat
      BY <2>1, Numbers
    <2>3. i \in 1..Len(S) /\ S[i] = e
      BY <1>3, <2>1
    <2> QED BY <1>8, <1>9, <2>2, <2>3
  <1>10. ASSUME NEW k \in (p + 1)..n, k > Low(n) PROVE <<b, k>> \in ToSet(t)
    <2>1. PICK x \in 1..(n - p) : k = p + x
      <3>1. k - p \in 1..(n - p) /\ k = p + (k - p)
        OBVIOUS
      <3> QED BY <3>1
    <2>2. S[a + x] = <<b, k>>
      BY <1>2, <1>3, <2>1
    <2>4. a + x \in 1..Len(S)
      BY <1>3, <2>1
    <2>3. S[a + x][2] = k /\ k \in Nat
      BY <2>2
    <2> QED BY <1>8, <1>10, <2>2, <2>3, <2>4
  <1> QED BY <1>5, <1>6, <1>9, <1>10 DEF t, S, v

-----------------------------------------------------------------------------
(* What the variables hold. *)

Batch    == Seq(Nat \X Nat)
Statuses == {"none", "pending", "crawling", "completed", "failed", "canceled", "deleted"}
Rows     == [status : Statuses, activity : Batch]
Writers  == [state : {"none", "crawling", "flushing", "gone"}, seq : Nat, ring : Batch,
             dirty : BOOLEAN, flushes : Nat, sent : Batch]
Conns    == [phase : {"closed", "first", "open", "build"}, mark : Nat, reads : SUBSET Rows,
             final : Statuses]
Messages == [event : {"progress", "done"}, status : Statuses]
            \cup [event : {"activity"}, events : Batch] \cup [event : {"error", "close"}]
Pages    == [state : {"waiting", "open", "done", "error"}, view : Statuses, lastSeq : Nat,
             feed : Batch]

CrawlTyped == row \in Rows /\ writer \in [1..Attempts -> Writers] /\ faults \in Nat
PageTyped  == conn \in Conns /\ wire \in Seq(Messages) /\ page \in Pages

Top(s) == MarkAfter(s, 0)

LEMMA MarkIsNat ==
  ASSUME NEW s \in Batch, NEW mark \in Nat
  PROVE  MarkAfter(s, mark) \in Nat
  <1>1. CASE s = <<>>
    BY <1>1 DEF MarkAfter
  <1>2. CASE s # <<>>
    <2>1. Len(s) \in 1..Len(s)
      BY <1>2 DEF Batch
    <2> QED BY <1>2, <2>1, Numbers DEF Batch, MarkAfter
  <1> QED BY <1>1, <1>2

-----------------------------------------------------------------------------
(* The writers: every batch is a ring of its own writer, and what was sent is not ahead of *)
(* what the writer has while it still writes.                                              *)

Alive(w) == w.state \in {"crawling", "flushing"} \/ w.flushes > 0

OwnRings(b, w) ==
  /\ w.ring = Ring(b, w.seq)
  /\ w.sent = Ring(b, Top(w.sent))
  /\ Alive(w) => Top(w.sent) <= w.seq
  /\ w.state = "none" => w.sent = <<>> /\ w.flushes = 0

WritersInv == \A b \in 1..Attempts : OwnRings(b, writer[b])

\* The empty ring.
LEMMA NoRing ==
  ASSUME NEW b \in Nat
  PROVE  Ring(b, 0) = <<>> /\ Top(<<>>) = 0 /\ <<>> \in Batch
  <1>1. Ring(b, 0) = <<>>
    BY RingReads
  <1> QED BY <1>1 DEF Top, MarkAfter, Batch

LEMMA RingTop ==
  ASSUME NEW b \in Nat, NEW n \in Nat
  PROVE  Ring(b, n) \in Batch /\ Top(Ring(b, n)) = n /\ (Ring(b, n) = <<>> <=> n = 0)
  <1>1. Ring(b, n) \in Batch
    BY RingReads DEF Batch
  <1>2. Top(Ring(b, n)) = n
    BY RingReads DEF Top
  <1>3. Ring(b, n) = <<>> <=> n = 0
    BY RingReads
  <1> QED BY <1>1, <1>2, <1>3

\* Left forgets nothing that matters.
LEMMA LeftKeeps ==
  ASSUME NEW b \in Nat, NEW w \in Writers, OwnRings(b, w), w.state # "none"
  PROVE  /\ Left(w) \in Writers /\ OwnRings(b, Left(w))
         /\ Left(w).state = w.state /\ Left(w).sent = w.sent
         /\ Alive(Left(w)) => Alive(w) /\ Left(w).seq = w.seq
  <1>1. CASE w.state = "gone" /\ w.flushes = 0
    <2> DEFINE u == [state |-> "gone", seq |-> 0, ring |-> <<>>, dirty |-> FALSE,
                     flushes |-> 0, sent |-> w.sent]
    <2>1. Left(w) = u
      BY <1>1 DEF Left, Gone, NoWriter
    <2>2. u \in Writers /\ u.state = w.state /\ u.sent = w.sent /\ u.seq = 0 /\ u.ring = <<>>
      BY <1>1, NoRing DEF Writers
    <2>3. ~ Alive(u)
      BY DEF Alive
    <2> HIDE DEF u
    <2>4. OwnRings(b, u)
      BY <2>2, <2>3, NoRing DEF OwnRings
    <2> QED BY <2>1, <2>2, <2>3, <2>4
  <1>2. CASE ~ (w.state = "gone" /\ w.flushes = 0)
    BY <1>2 DEF Left
  <1> QED BY <1>1, <1>2

\* What an event leaves a writer with.
LEMMA NotedIs ==
  ASSUME CrawlTyped, WritersInv, NEW b \in 1..Attempts
  PROVE  /\ Noted(b) \in Writers
         /\ Noted(b).seq = writer[b].seq + 1 /\ Noted(b).ring = Ring(b, writer[b].seq + 1)
         /\ Noted(b).state = writer[b].state /\ Noted(b).sent = writer[b].sent
         /\ Noted(b).flushes = writer[b].flushes
  <1>1. writer[b] \in Writers /\ b \in Nat
    BY Sizes DEF CrawlTyped
  <1>2. writer[b].ring = Ring(b, writer[b].seq) /\ writer[b].seq \in Nat
    BY <1>1 DEF WritersInv, OwnRings, Writers
  <1>3. Latest(Append(writer[b].ring, <<b, writer[b].seq + 1>>), RingSize)
          = Ring(b, writer[b].seq + 1)
    BY <1>1, <1>2, NextRing
  <1>4. Ring(b, writer[b].seq + 1) \in Batch
    BY <1>1, <1>2, RingTop
  <1> DEFINE w == writer[b]
             u == [state |-> w.state, seq |-> w.seq + 1, ring |-> Ring(b, w.seq + 1),
                   dirty |-> TRUE, flushes |-> w.flushes, sent |-> w.sent]
  <1>5. Noted(b) = u
    <2> DEFINE r == Latest(Append(w.ring, <<b, w.seq + 1>>), RingSize)
    <2>1. Noted(b) = [w EXCEPT !.seq = @ + 1, !.dirty = TRUE, !.ring = r]
      BY DEF Noted
    <2>2. r = Ring(b, w.seq + 1)
      BY <1>3
    <2> HIDE DEF r, w
    <2>3. w \in Writers
      BY <1>1 DEF w
    <2> QED BY <2>1, <2>2, <2>3 DEF Writers
  <1>6. u \in Writers
    BY <1>1, <1>2, <1>4 DEF Writers
  <1> QED BY <1>5, <1>6

\* What a step of the crawl or of its writer does to the writer's record w, with v after it.
Moves(b, w, v) ==
  /\ v \in Writers /\ OwnRings(b, v) /\ v.state # "none"
  /\ w.state # "none" /\ Alive(v) => Alive(w) /\ w.seq <= v.seq
  /\ v.sent = w.sent \/ v.sent = <<>> \/ (Alive(w) /\ Top(v.sent) = w.seq)

LEMMA CrawlMoves ==
  ASSUME CrawlTyped, WritersInv, NEW b \in 1..Attempts, Crawl(b) \/ StartWrite(b)
  PROVE  /\ writer' = [writer EXCEPT ![b] = writer'[b]] /\ Moves(b, writer[b], writer'[b])
         /\ row'.activity = row.activity
         /\ row' \in Rows
         /\ row'.status = row.status
              \/ (row.status = "crawling" /\ row'.status = "completed")
  <1> DEFINE w == writer[b]
             v == writer'[b]
  <1>1. w \in Writers /\ b \in Nat /\ OwnRings(b, w) /\ row \in Rows
    BY Sizes DEF CrawlTyped, WritersInv
  <1>2. writer \in [1..Attempts -> Writers]
    BY DEF CrawlTyped
  <1>3. CASE Begin(b)
    <2>1. /\ writer' = [writer EXCEPT ![b] = v] /\ row' = row
          /\ v = [w EXCEPT !.state = "crawling"] /\ w.state = "none"
      BY <1>2, <1>3 DEF Begin
    <2>2. v \in Writers /\ v.state = "crawling" /\ v.seq = w.seq /\ v.ring = w.ring /\ v.sent = w.sent
      BY <1>1, <2>1 DEF Writers
    <2>3. OwnRings(b, v)
      <3>1. v.sent = <<>> /\ v.seq \in Nat
        BY <1>1, <2>1, <2>2 DEF OwnRings, Writers
      <3> QED BY <1>1, <2>2, <3>1, NoRing DEF OwnRings
    <2> QED BY <1>1, <2>1, <2>2, <2>3 DEF Moves
  <1>4. CASE Emit(b)
    <2>1. PICK q \in {0, 1} : writer' = [writer EXCEPT ![b] = [Noted(b) EXCEPT !.flushes = @ + q]]
      BY <1>4 DEF Emit
    <2>2. /\ writer' = [writer EXCEPT ![b] = v] /\ row' = row
          /\ v = [Noted(b) EXCEPT !.flushes = @ + q] /\ w.state = "crawling"
      BY <1>2, <1>4, <2>1 DEF Emit
    <2>3. /\ v \in Writers /\ v.state = "crawling" /\ v.seq = w.seq + 1
          /\ v.ring = Ring(b, w.seq + 1) /\ v.sent = w.sent
      BY <1>1, <2>2, NotedIs DEF Writers
    <2> QED BY <1>1, <2>2, <2>3, MarkIsNat DEF Moves, OwnRings, Alive, Writers, Top
  <1>5. CASE LastFlush(b)
    <2>1. /\ writer' = [writer EXCEPT ![b] = v] /\ row' = row
          /\ v = [Noted(b) EXCEPT !.flushes = @ + 1, !.state = "flushing"] /\ w.state = "crawling"
      BY <1>2, <1>5 DEF LastFlush
    <2>2. /\ v \in Writers /\ v.state = "flushing" /\ v.seq = w.seq + 1
          /\ v.ring = Ring(b, w.seq + 1) /\ v.sent = w.sent
      <3> DEFINE u == Noted(b)
      <3>1. /\ u \in Writers /\ u.seq = w.seq + 1 /\ u.ring = Ring(b, w.seq + 1)
            /\ u.sent = w.sent
        BY NotedIs
      <3>2. v = [u EXCEPT !.flushes = @ + 1, !.state = "flushing"]
        BY <2>1
      <3> HIDE DEF u
      <3>3. v = [state |-> "flushing", seq |-> u.seq, ring |-> u.ring, dirty |-> u.dirty,
                 flushes |-> u.flushes + 1, sent |-> u.sent]
        BY <3>1, <3>2 DEF Writers
      <3>4. v \in Writers
        BY <3>1, <3>3 DEF Writers
      <3> QED BY <3>1, <3>3, <3>4
    <2> QED BY <1>1, <2>1, <2>2, MarkIsNat DEF Moves, OwnRings, Alive, Writers, Top
  <1>6. CASE Complete(b)
    <2>1. /\ writer' = [writer EXCEPT ![b] = v] /\ v = Gone
          /\ row' = IF row.status = "crawling" THEN [row EXCEPT !.status = "completed"] ELSE row
      BY <1>2, <1>6 DEF Complete
    <2>2. /\ v \in Writers /\ v.state = "gone" /\ v.seq = 0 /\ v.ring = <<>> /\ v.sent = <<>>
          /\ v.flushes = 0
      <3>1. v = [state |-> "gone", seq |-> 0, ring |-> <<>>, dirty |-> FALSE, flushes |-> 0,
                 sent |-> <<>>]
        BY <2>1 DEF Gone, NoWriter
      <3>2. <<>> \in Batch
        BY DEF Batch
      <3> QED BY <3>1, <3>2 DEF Writers
    <2>3. ~ Alive(v) /\ OwnRings(b, v)
      BY <1>1, <2>2, NoRing DEF OwnRings, Alive
    <2>4. /\ row' \in Rows /\ row'.activity = row.activity
          /\ row'.status = row.status
               \/ (row.status = "crawling" /\ row'.status = "completed")
      BY <1>1, <2>1 DEF Rows, Statuses
    <2> QED BY <2>1, <2>2, <2>3, <2>4 DEF Moves
  <1>7. CASE Stop(b)
    <2>1. PICK q \in {0, w.flushes} :
            writer' = [writer EXCEPT ![b] = Left([@ EXCEPT !.state = "gone", !.flushes = q])]
      BY <1>7 DEF Stop
    <2> DEFINE u == [w EXCEPT !.state = "gone", !.flushes = q]
    <2>2. /\ writer' = [writer EXCEPT ![b] = v] /\ row' = row /\ v = Left(u)
          /\ w.state \in {"crawling", "flushing"}
      BY <1>2, <1>7, <2>1 DEF Stop
    <2>3. /\ u \in Writers /\ u.state = "gone" /\ u.seq = w.seq /\ u.ring = w.ring
          /\ u.sent = w.sent /\ u.flushes = q
      <3>1. q \in Nat
        BY <1>1, <2>1 DEF Writers
      <3>2. u \in Writers
        BY <1>1, <3>1 DEF Writers
      <3> QED BY <1>1, <3>2 DEF Writers
    <2>4. Alive(w)
      BY <2>2 DEF Alive
    <2> HIDE DEF u
    <2>5. OwnRings(b, u)
      BY <1>1, <2>3, <2>4 DEF OwnRings
    <2>6. /\ Left(u) \in Writers /\ OwnRings(b, Left(u)) /\ Left(u).state = "gone"
          /\ Left(u).sent = w.sent /\ (Alive(Left(u)) => Left(u).seq = w.seq)
      BY <1>1, <2>3, <2>5, LeftKeeps
    <2>7. w.seq \in Nat
      BY <1>1 DEF Writers
    <2> QED BY <1>1, <2>2, <2>4, <2>6, <2>7 DEF Moves
  <1>8. CASE StartWrite(b)
    <2> DEFINE u == [w EXCEPT !.flushes = @ - 1, !.dirty = FALSE,
                              !.sent = IF w.dirty THEN w.ring ELSE <<>>]
    <2>1. /\ writer' = [writer EXCEPT ![b] = v] /\ row' = row /\ v = Left(u)
          /\ w.flushes > 0 /\ w.sent = <<>>
      BY <1>2, <1>8 DEF StartWrite
    <2>2. w.ring = Ring(b, w.seq) /\ w.seq \in Nat /\ w.flushes \in Nat /\ w.state # "none"
      BY <1>1, <2>1 DEF OwnRings, Writers
    <2>3. w.ring \in Batch /\ Top(w.ring) = w.seq /\ <<>> \in Batch /\ <<>> = Ring(b, 0)
            /\ Top(<<>>) = 0
      BY <1>1, <2>2, RingTop, NoRing
    <2>4. /\ u \in Writers /\ u.state = w.state /\ u.seq = w.seq /\ u.ring = w.ring
          /\ u.sent = (IF w.dirty THEN w.ring ELSE <<>>)
      <3>1. w.flushes - 1 \in Nat /\ (IF w.dirty THEN w.ring ELSE <<>>) \in Batch
        BY <2>1, <2>2, <2>3
      <3>2. u \in Writers
        BY <1>1, <3>1 DEF Writers
      <3> QED BY <1>1, <3>2 DEF Writers
    <2>5. Alive(w)
      BY <2>1 DEF Alive
    <2> HIDE DEF u
    <2>6. OwnRings(b, u)
      BY <1>1, <2>2, <2>3, <2>4 DEF OwnRings
    <2>7. /\ Left(u) \in Writers /\ OwnRings(b, Left(u)) /\ Left(u).state = w.state
          /\ Left(u).sent = u.sent /\ (Alive(Left(u)) => Left(u).seq = w.seq)
      BY <1>1, <2>2, <2>4, <2>6, LeftKeeps
    <2>8. v.sent = <<>> \/ Top(v.sent) = w.seq
      BY <2>1, <2>3, <2>4, <2>7
    <2> QED BY <1>1, <2>1, <2>2, <2>5, <2>7, <2>8 DEF Moves
  <1> QED BY <1>3, <1>4, <1>5, <1>6, <1>7, <1>8 DEF Crawl

-----------------------------------------------------------------------------
(* What is shown of a writer is not ahead of the row and of what the writer can still bring. *)

Bounded(b, k) ==
  /\ b \in 1..Attempts /\ k \in Nat
  /\ writer[b].state # "none"
  /\ Alive(writer[b]) => k <= writer[b].seq
  /\ writer[b].sent # <<>> => k <= Top(writer[b].sent)
  /\ \A n \in Nat \ {0} : row.activity = Ring(b, n) => k <= n

\* A ring of some writer, and nothing is ahead of it.
Owned(s) == \E b \in 1..Attempts, n \in Nat : s = Ring(b, n) /\ (n # 0 => Bounded(b, n))

RowInv == row.status # "none" /\ Owned(row.activity)

CrawlInv == CrawlTyped /\ WritersInv /\ RowInv

\* A step of the crawl leaves the row's events and what is bounded.
LEMMA CrawlBounds ==
  ASSUME CrawlInv, NEW b \in 1..Attempts, Crawl(b) \/ StartWrite(b), NEW c, NEW k, Bounded(c, k)
  PROVE  Bounded(c, k)'
  <1>1. /\ writer' = [writer EXCEPT ![b] = writer'[b]] /\ Moves(b, writer[b], writer'[b])
        /\ row'.activity = row.activity
    BY CrawlMoves DEF CrawlInv
  <1>2. c \in 1..Attempts /\ k \in Nat /\ writer \in [1..Attempts -> Writers]
    BY DEF Bounded, CrawlInv, CrawlTyped
  <1>3. CASE c # b
    <2>1. writer'[c] = writer[c]
      BY <1>1, <1>2, <1>3
    <2> QED BY <1>1, <2>1 DEF Bounded
  <1>4. CASE c = b
    <2> DEFINE w == writer[b]
               v == writer'[b]
    <2>1. w \in Writers /\ v \in Writers /\ w.seq \in Nat /\ v.seq \in Nat
      BY <1>1, <1>2 DEF Moves, Writers
    <2>2. w.state # "none" /\ (Alive(w) => k <= w.seq) /\ (w.sent # <<>> => k <= Top(w.sent))
      BY <1>4 DEF Bounded
    <2>3. v.state # "none" /\ (Alive(v) => Alive(w) /\ w.seq <= v.seq)
      BY <1>1, <2>2 DEF Moves
    <2>4. Alive(v) => k <= v.seq
      BY <1>2, <2>1, <2>2, <2>3
    <2>5. v.sent # <<>> => k <= Top(v.sent)
      BY <1>1, <2>2 DEF Moves
    <2> QED BY <1>1, <1>4, <2>3, <2>4, <2>5 DEF Bounded
  <1> QED BY <1>3, <1>4

LEMMA CrawlKeeps ==
  ASSUME CrawlInv, NEW b \in 1..Attempts, Crawl(b) \/ StartWrite(b), UNCHANGED faults
  PROVE  CrawlInv'
  <1>1. /\ writer' = [writer EXCEPT ![b] = writer'[b]] /\ Moves(b, writer[b], writer'[b])
        /\ row'.activity = row.activity /\ row' \in Rows
        /\ row'.status = row.status \/ (row.status = "crawling" /\ row'.status = "completed")
    BY CrawlMoves DEF CrawlInv
  <1>2. writer'[b] \in Writers /\ OwnRings(b, writer'[b])
    BY <1>1 DEF Moves
  <1>3. CrawlTyped'
    BY <1>1, <1>2 DEF CrawlInv, CrawlTyped
  <1>4. WritersInv'
    <2> SUFFICES ASSUME NEW c \in 1..Attempts PROVE OwnRings(c, writer'[c])
      BY DEF WritersInv
    <2>1. CASE c = b
      BY <1>2, <2>1
    <2>2. CASE c # b
      <3>1. writer'[c] = writer[c]
        BY <1>1, <2>2 DEF CrawlInv, CrawlTyped
      <3> QED BY <3>1 DEF CrawlInv, WritersInv
    <2> QED BY <2>1, <2>2
  <1>5. RowInv'
    <2>1. PICK c \in 1..Attempts, n \in Nat :
            row.activity = Ring(c, n) /\ (n # 0 => Bounded(c, n))
      BY DEF CrawlInv, RowInv, Owned
    <2>2. n # 0 => Bounded(c, n)'
      BY <2>1, CrawlBounds
    <2> QED BY <1>1, <2>1, <2>2 DEF CrawlInv, RowInv, Owned
  <1> QED BY <1>3, <1>4, <1>5 DEF CrawlInv

\* A write that lands, or fails.
LEMMA LandMoves ==
  ASSUME CrawlInv, NEW b \in 1..Attempts, Land(b)
  PROVE  /\ writer' = [writer EXCEPT ![b].sent = <<>>]
         /\ row' = row \/ (row.status = "crawling" /\ row' = [row EXCEPT !.activity = writer[b].sent])
         /\ writer[b].sent # <<>> /\ faults' \in Nat
  BY DEF Land, Fault, CrawlInv, CrawlTyped

\* The writer a write has left.
LEMMA LandLeaves ==
  ASSUME CrawlInv, NEW b \in 1..Attempts, Land(b), NEW c \in 1..Attempts
  PROVE  /\ writer'[c] \in Writers /\ OwnRings(c, writer'[c])
         /\ writer'[c].state = writer[c].state /\ writer'[c].seq = writer[c].seq
         /\ (Alive(writer'[c]) <=> Alive(writer[c]))
         /\ writer'[c].sent = IF c = b THEN <<>> ELSE writer[c].sent
  <1>1. writer[c] \in Writers /\ writer \in [1..Attempts -> Writers] /\ c \in Nat
    BY Sizes DEF CrawlInv, CrawlTyped
  <1>2. OwnRings(c, writer[c])
    BY DEF CrawlInv, WritersInv
  <1>3. CASE c # b
    <2>1. writer'[c] = writer[c]
      BY <1>1, <1>3, LandMoves
    <2> QED BY <1>1, <1>2, <1>3, <2>1
  <1>4. CASE c = b
    <2> DEFINE w == writer[c]
               v == writer'[c]
    <2>1. v = [w EXCEPT !.sent = <<>>]
      BY <1>1, <1>4, LandMoves
    <2> HIDE DEF v, w
    <2>2. w \in Writers /\ OwnRings(c, w) /\ <<>> \in Batch
      BY <1>1, <1>2, NoRing DEF w
    <2>3. /\ v \in Writers /\ v.state = w.state /\ v.seq = w.seq /\ v.flushes = w.flushes
          /\ v.ring = w.ring /\ v.sent = <<>>
      BY <2>1, <2>2 DEF Writers
    <2>4. Alive(v) <=> Alive(w)
      BY <2>3 DEF Alive
    <2>5. OwnRings(c, v)
      <3>1. v.seq \in Nat /\ <<>> = Ring(c, 0) /\ Top(<<>>) = 0
        BY <1>1, <2>3, NoRing DEF Writers
      <3> QED BY <2>2, <2>3, <2>4, <3>1 DEF OwnRings
    <2> QED BY <1>4, <2>3, <2>4, <2>5 DEF v, w
  <1> QED BY <1>3, <1>4

\* What was sent, as a ring.
LEMMA SentIs ==
  ASSUME CrawlInv, NEW b \in 1..Attempts, writer[b].sent # <<>>
  PROVE  \E n \in Nat \ {0} :
           /\ writer[b].sent = Ring(b, n) /\ Top(writer[b].sent) = n /\ writer[b].sent \in Batch
           /\ Alive(writer[b]) => n <= writer[b].seq
           /\ writer[b].state # "none"
  <1>1. writer[b] \in Writers /\ b \in Nat /\ OwnRings(b, writer[b])
    BY Sizes DEF CrawlInv, CrawlTyped, WritersInv
  <1>2. writer[b].sent \in Batch
    BY <1>1 DEF Writers
  <1>3. Top(writer[b].sent) \in Nat
    BY <1>2, MarkIsNat DEF Top
  <1>4. writer[b].sent = Ring(b, Top(writer[b].sent))
    BY <1>1 DEF OwnRings
  <1>5. Top(writer[b].sent) # 0
    BY <1>1, <1>4, NoRing
  <1> QED BY <1>1, <1>2, <1>3, <1>4, <1>5 DEF OwnRings

LEMMA LandBounds ==
  ASSUME CrawlInv, NEW b \in 1..Attempts, Land(b), NEW c, NEW k, Bounded(c, k)
  PROVE  Bounded(c, k)'
  <1>1. c \in 1..Attempts /\ k \in Nat /\ c \in Nat /\ b \in Nat
    BY Sizes DEF Bounded
  <1>2. /\ writer'[c].state # "none" /\ (Alive(writer'[c]) => k <= writer'[c].seq)
        /\ (writer'[c].sent # <<>> => k <= Top(writer'[c].sent))
    BY <1>1, LandLeaves DEF Bounded
  <1>3. ASSUME NEW n \in Nat \ {0}, row'.activity = Ring(c, n) PROVE k <= n
    <2>1. CASE row' = row
      BY <1>3, <2>1 DEF Bounded
    <2>2. CASE row' = [row EXCEPT !.activity = writer[b].sent]
      <3>1. row'.activity = writer[b].sent
        BY <2>2 DEF CrawlInv, CrawlTyped, Rows
      <3>2. PICK m \in Nat \ {0} : writer[b].sent = Ring(b, m) /\ Top(writer[b].sent) = m
        BY LandMoves, SentIs
      <3>3. b = c /\ m = n
        <4>1. Ring(b, m) = Ring(c, n) /\ n \in Nat /\ m \in Nat /\ m # 0
          BY <1>3, <3>1, <3>2
        <4> QED BY <1>1, <4>1, RingIsOne
      <3>4. writer[c].sent # <<>>
        BY <3>3, LandMoves
      <3> QED BY <3>2, <3>3, <3>4 DEF Bounded
    <2> QED BY <2>1, <2>2, LandMoves
  <1> QED BY <1>1, <1>2, <1>3 DEF Bounded

LEMMA LandKeeps ==
  ASSUME CrawlInv, NEW b \in 1..Attempts, Land(b)
  PROVE  CrawlInv'
  <1>1. \A c \in 1..Attempts : writer'[c] \in Writers /\ OwnRings(c, writer'[c])
    BY LandLeaves
  <1>2. row \in Rows
    BY DEF CrawlInv, CrawlTyped
  <1>3. PICK n \in Nat \ {0} :
          /\ writer[b].sent = Ring(b, n) /\ Top(writer[b].sent) = n /\ writer[b].sent \in Batch
          /\ Alive(writer[b]) => n <= writer[b].seq
          /\ writer[b].state # "none"
    BY LandMoves, SentIs
  <1>4. row' \in Rows /\ row'.status = row.status
    BY <1>2, <1>3, LandMoves DEF Rows
  <1>5. CrawlTyped'
    <2>1. writer' \in [1..Attempts -> Writers]
      BY <1>1, LandMoves DEF CrawlInv, CrawlTyped
    <2> QED BY <1>4, <2>1, LandMoves DEF CrawlTyped
  <1>6. WritersInv'
    BY <1>1 DEF WritersInv
  <1>7. Owned(row.activity)'
    <2>1. CASE row' = row
      <3>1. PICK c \in 1..Attempts, k \in Nat :
              row.activity = Ring(c, k) /\ (k # 0 => Bounded(c, k))
        BY DEF CrawlInv, RowInv, Owned
      <3>2. k # 0 => Bounded(c, k)'
        BY <3>1, LandBounds
      <3> QED BY <2>1, <3>1, <3>2 DEF Owned
    <2>2. CASE row' = [row EXCEPT !.activity = writer[b].sent]
      <3>1. row'.activity = Ring(b, n)
        BY <1>2, <1>3, <2>2 DEF Rows
      <3>2. \A m \in Nat \ {0} : row'.activity = Ring(b, m) => n <= m
        <4> SUFFICES ASSUME NEW m \in Nat \ {0}, Ring(b, n) = Ring(b, m) PROVE n <= m
          BY <3>1
        <4>1. n = m
          BY Sizes, RingIsOne
        <4> QED BY <4>1
      <3>3. /\ writer'[b].state # "none" /\ writer'[b].sent = <<>>
            /\ (Alive(writer'[b]) => n <= writer'[b].seq)
        BY <1>3, LandLeaves
      <3>4. Bounded(b, n)'
        BY <3>2, <3>3 DEF Bounded
      <3> QED BY <3>1, <3>4 DEF Owned
    <2> QED BY <2>1, <2>2, LandMoves
  <1> QED BY <1>4, <1>5, <1>6, <1>7 DEF CrawlInv, RowInv

\* Where the status of the row may go in a step.
Onward(s, t) ==
  \/ t = s
  \/ s = "pending" /\ t = "crawling"
  \/ s \in Running /\ t \in {"completed", "failed", "canceled"}
  \/ t = "deleted"

RowSide == Advance \/ \E b \in 1..Attempts : Crawl(b) \/ Write(b)

\* A step of the audit, its crawl or its writers: the row goes onward, and its events change
\* only while it is crawling.
LEMMA RowMoves ==
  ASSUME CrawlInv, RowSide
  PROVE  /\ CrawlInv' /\ UNCHANGED <<conn, wire, page>>
         /\ Onward(row.status, row'.status)
         /\ row.status # "crawling" => row'.activity = row.activity
         /\ \A c, k : Bounded(c, k) => Bounded(c, k)'
  <1>1. row \in Rows
    BY DEF CrawlInv, CrawlTyped
  <1>2. CASE Advance
    <2>1. /\ row' \in Rows /\ row'.activity = row.activity /\ Onward(row.status, row'.status)
          /\ row'.status # "none"
      BY <1>1, <1>2 DEF Advance, Rows, Statuses, Onward, Running, CrawlInv, RowInv
    <2>2. UNCHANGED <<writer, conn, wire, page, faults>>
      BY <1>2 DEF Advance
    <2>3. \A c, k : Bounded(c, k) => Bounded(c, k)'
      BY <2>1, <2>2 DEF Bounded
    <2>4. RowInv'
      <3>1. PICK c \in 1..Attempts, n \in Nat :
              row.activity = Ring(c, n) /\ (n # 0 => Bounded(c, n))
        BY DEF CrawlInv, RowInv, Owned
      <3>2. n # 0 => Bounded(c, n)'
        BY <2>3, <3>1
      <3> QED BY <2>1, <3>1, <3>2 DEF RowInv, Owned
    <2> QED BY <2>1, <2>2, <2>3, <2>4 DEF CrawlInv, CrawlTyped, WritersInv
  <1>3. ASSUME NEW b \in 1..Attempts, Crawl(b) \/ StartWrite(b)
        PROVE  /\ CrawlInv' /\ UNCHANGED <<conn, wire, page>>
               /\ Onward(row.status, row'.status)
               /\ row'.activity = row.activity
               /\ \A c, k : Bounded(c, k) => Bounded(c, k)'
    <2>1. UNCHANGED <<conn, wire, page, faults>>
      BY <1>3 DEF Crawl, Begin, Emit, LastFlush, Complete, Stop, StartWrite
    <2>2. CrawlInv'
      BY <1>3, <2>1, CrawlKeeps
    <2>3. Onward(row.status, row'.status) /\ row'.activity = row.activity
      BY <1>3, CrawlMoves DEF CrawlInv, Onward, Running
    <2>4. \A c, k : Bounded(c, k) => Bounded(c, k)'
      BY <1>3, CrawlBounds
    <2> QED BY <2>1, <2>2, <2>3, <2>4
  <1>4. ASSUME NEW b \in 1..Attempts, Land(b)
        PROVE  /\ CrawlInv' /\ UNCHANGED <<conn, wire, page>>
               /\ Onward(row.status, row'.status)
               /\ row.status # "crawling" => row'.activity = row.activity
               /\ \A c, k : Bounded(c, k) => Bounded(c, k)'
    <2>1. UNCHANGED <<conn, wire, page>>
      BY <1>4 DEF Land
    <2>2. CrawlInv'
      BY <1>4, LandKeeps
    <2>3. row'.status = row.status /\ (row.status # "crawling" => row'.activity = row.activity)
      BY <1>1, <1>4, LandMoves DEF Rows
    <2>4. \A c, k : Bounded(c, k) => Bounded(c, k)'
      BY <1>4, LandBounds
    <2> QED BY <2>1, <2>2, <2>3, <2>4 DEF Onward
  <1> QED BY <1>2, <1>3, <1>4 DEF RowSide, Write

\* The page and its stream leave the row and the writers alone.
PageSide == Connect \/ Tick \/ Reply \/ Finish \/ SelfClose \/ Break \/ Receive

LEMMA PageMoves ==
  ASSUME CrawlInv, PageSide
  PROVE  /\ CrawlInv' /\ row' = row /\ writer' = writer
         /\ \A c, k : Bounded(c, k) => Bounded(c, k)'
         /\ \A s : Owned(s) => Owned(s)'
  <1>1. row' = row /\ writer' = writer /\ faults' \in Nat
    <2>1. faults \in Nat
      BY DEF CrawlInv, CrawlTyped
    <2>2. CASE Connect \/ Tick \/ SelfClose \/ Receive
      BY <2>1, <2>2 DEF Connect, Tick, SelfClose, Receive
    <2>3. CASE Reply
      <3>1. PICK r \in conn.reads : Polled(r) \/ PolledNothing(r)
        BY <2>3 DEF Reply
      <3> QED BY <2>1, <3>1 DEF Polled, PolledNothing, Fault
    <2>4. CASE Finish \/ Break
      BY <2>1, <2>4 DEF Finish, Break, Fault
    <2> QED BY <2>2, <2>3, <2>4 DEF PageSide
  <1>2. \A c, k : Bounded(c, k) => Bounded(c, k)'
    BY <1>1 DEF Bounded
  <1>3. \A s : Owned(s) => Owned(s)'
    <2> SUFFICES ASSUME NEW s, Owned(s) PROVE Owned(s)'
      OBVIOUS
    <2>1. PICK c \in 1..Attempts, n \in Nat : s = Ring(c, n) /\ (n # 0 => Bounded(c, n))
      BY DEF Owned
    <2>2. n # 0 => Bounded(c, n)'
      BY <1>2, <2>1
    <2> QED BY <2>1, <2>2 DEF Owned
  <1> QED BY <1>1, <1>2, <1>3 DEF CrawlInv, CrawlTyped, WritersInv, RowInv

-----------------------------------------------------------------------------
(* The stream and the page. *)

\* The page has the events up to number k, or one of the first j messages brings them.
Covered(k, j) ==
  \/ k <= page.lastSeq
  \/ \E i \in 1..j : wire[i].event = "activity" /\ Top(wire[i].events) >= k

\* s is how the audit ended.
Ended(s) == Over(s) /\ row.status \in {s, "deleted"}

\* At most one read is under way, of what the row was.
ReadsInv ==
  /\ \A r, q \in conn.reads : r = q
  /\ \A r \in conn.reads : Owned(r.activity)
  /\ \A r \in conn.reads : Over(r.status) => Ended(r.status) /\ r.activity = row.activity

\* Nothing is under way between connections, the mark of a connection is never ahead of the
\* page and the wire, and the results are gathered when all of the ring is on its way.
PhaseInv ==
  /\ page.state # "open" => conn = NoConn /\ wire = <<>>
  /\ conn.phase = "closed" => conn = NoConn
  /\ conn.phase = "build" =>
       conn.reads = {} /\ Ended(conn.final) /\ Covered(Top(row.activity), Len(wire))
  /\ Covered(conn.mark, Len(wire))

\* A batch on the wire is the rest of a ring, or begins where the page will be by then; a
\* message that ends the stream is the last one.
BatchOK(i) ==
  \E b \in 1..Attempts, m, n \in Nat :
    /\ wire[i].events = Events(b, m, n) /\ Low(n) <= m /\ m < n /\ Bounded(b, n)
    /\ m = Low(n) \/ Covered(m, i - 1)

MessageOK(i) ==
  /\ wire[i].event = "activity" => BatchOK(i)
  /\ wire[i].event = "done" => Ended(wire[i].status) /\ Covered(Top(row.activity), i - 1)
  /\ wire[i].event \in {"done", "error", "close"} => i = Len(wire) /\ conn = NoConn

WireInv == \A i \in 1..Len(wire) : MessageOK(i)

\* The feed goes up; of the last writer shown it has what that writer's ring has, or what
\* another writer's events hide.
Told(b, k) == <<b, k>> \in ToSet(page.feed) \/ \E f \in ToSet(page.feed) : f[1] # b /\ f[2] >= k

FeedEnds ==
  LET l == page.feed[Len(page.feed)]
  IN /\ l[2] = page.lastSeq /\ Bounded(l[1], l[2])
     /\ \A k \in (Low(l[2]) + 1)..l[2] : Told(l[1], k)

FeedInv ==
  /\ Spread(page.feed) /\ Len(page.feed) <= FeedSize
  /\ page.feed = <<>> => page.lastSeq = 0
  /\ page.feed # <<>> => FeedEnds
  /\ page.state = "done" => row.status \notin Running /\ Top(row.activity) <= page.lastSeq

StreamInv == PageTyped /\ ReadsInv /\ PhaseInv /\ WireInv /\ FeedInv

IInv == CrawlInv /\ StreamInv

\* A step of the row's side.
LEMMA RowKeepsStream ==
  ASSUME IInv, RowSide
  PROVE  IInv'
  <1>1. /\ CrawlInv' /\ UNCHANGED <<conn, wire, page>>
        /\ Onward(row.status, row'.status)
        /\ row.status # "crawling" => row'.activity = row.activity
        /\ \A c, k : Bounded(c, k) => Bounded(c, k)'
    BY RowMoves DEF IInv
  <1>2. \A s : Ended(s) => Ended(s)' /\ row'.activity = row.activity
    BY <1>1 DEF Ended, Over, Onward, Running
  <1>3. \A k, j : Covered(k, j)' <=> Covered(k, j)
    BY <1>1 DEF Covered
  <1>4. PageTyped'
    BY <1>1 DEF IInv, StreamInv, PageTyped
  <1>5. \A s : Owned(s) => Owned(s)'
    <2> SUFFICES ASSUME NEW s, Owned(s) PROVE Owned(s)'
      OBVIOUS
    <2>1. PICK c \in 1..Attempts, n \in Nat : s = Ring(c, n) /\ (n # 0 => Bounded(c, n))
      BY DEF Owned
    <2>2. n # 0 => Bounded(c, n)'
      BY <1>1, <2>1
    <2> QED BY <2>1, <2>2 DEF Owned
  <1>6. ReadsInv'
    BY <1>1, <1>2, <1>5 DEF IInv, StreamInv, ReadsInv
  <1>7. PhaseInv'
    <2>1. PhaseInv
      BY DEF IInv, StreamInv
    <2>2. ASSUME conn.phase = "build"
          PROVE  conn.reads = {} /\ Ended(conn.final)' /\ Covered(Top(row'.activity), Len(wire))
      <3>1. conn.reads = {} /\ Ended(conn.final) /\ Covered(Top(row.activity), Len(wire))
        BY <2>1, <2>2 DEF PhaseInv
      <3>2. Ended(conn.final)' /\ row'.activity = row.activity
        BY <1>1, <1>2, <3>1
      <3> QED BY <3>1, <3>2
    <2> QED BY <1>1, <1>3, <2>1, <2>2 DEF PhaseInv, NoConn
  <1>8. WireInv'
    <2> SUFFICES ASSUME NEW i \in 1..Len(wire), MessageOK(i) PROVE MessageOK(i)'
      BY <1>1 DEF IInv, StreamInv, WireInv
    <2>1. BatchOK(i) => BatchOK(i)'
      <3> SUFFICES ASSUME BatchOK(i) PROVE BatchOK(i)'
        OBVIOUS
      <3>1. PICK b \in 1..Attempts, m, n \in Nat :
              /\ wire[i].events = Events(b, m, n) /\ Low(n) <= m /\ m < n /\ Bounded(b, n)
              /\ m = Low(n) \/ Covered(m, i - 1)
        BY DEF BatchOK
      <3>2. Bounded(b, n)' /\ (m = Low(n) \/ Covered(m, i - 1)')
        BY <1>1, <1>3, <3>1
      <3> QED BY <1>1, <3>1, <3>2 DEF BatchOK
    <2>2. ASSUME wire[i].event = "done"
          PROVE  Ended(wire[i].status)' /\ Covered(Top(row.activity), i - 1)'
      <3>1. Ended(wire[i].status) /\ Covered(Top(row.activity), i - 1)
        BY <2>2 DEF MessageOK
      <3>2. Ended(wire[i].status)' /\ row'.activity = row.activity
        BY <1>1, <1>2, <3>1
      <3>3. Covered(Top(row.activity), i - 1)'
        BY <1>1, <3>1, <3>2 DEF Covered
      <3> QED BY <3>2, <3>3
    <2> QED BY <1>1, <2>1, <2>2 DEF MessageOK, NoConn
  <1>9. FeedInv'
    <2>1. FeedInv
      BY DEF IInv, StreamInv
    <2>2. page.feed # <<>> => FeedEnds'
      BY <1>1, <2>1 DEF FeedInv, FeedEnds, Told
    <2>3. page.state = "done" => row'.status \notin Running /\ Top(row'.activity) <= page.lastSeq
      BY <1>1, <2>1 DEF FeedInv, Onward, Running
    <2> QED BY <1>1, <2>1, <2>2, <2>3 DEF FeedInv
  <1> QED BY <1>1, <1>4, <1>6, <1>7, <1>8, <1>9 DEF IInv, StreamInv

\* What messages carry.
LEMMA MessagesCarry ==
  ASSUME NEW m \in Messages
  PROVE  /\ m.event \in {"progress", "done", "activity", "error", "close"}
         /\ m.event = "activity" => m.events \in Batch
         /\ m.event \in {"progress", "done"} => m.status \in Statuses
  BY DEF Messages

\* What is covered by some messages is covered by more, and so is whatever is below.
LEMMA CoveredLess ==
  ASSUME PageTyped, NEW j \in 0..Len(wire), NEW i \in j..Len(wire), NEW k \in Nat, NEW h \in Nat,
         h <= k, Covered(k, j)
  PROVE  Covered(h, i)
  <1>1. page.lastSeq \in Nat /\ Len(wire) \in Nat
    BY DEF PageTyped, Pages
  <1>2. CASE k <= page.lastSeq
    BY <1>1, <1>2 DEF Covered
  <1>3. CASE ~ (k <= page.lastSeq)
    <2>1. PICK x \in 1..j : wire[x].event = "activity" /\ Top(wire[x].events) >= k
      BY <1>3 DEF Covered
    <2>2. x \in 1..i /\ wire[x] \in Messages
      BY <1>1 DEF PageTyped
    <2>3. wire[x].events \in Batch
      BY <2>1, <2>2, MessagesCarry
    <2>4. Top(wire[x].events) \in Nat
      BY <2>3, MarkIsNat DEF Top
    <2>5. Top(wire[x].events) >= h
      BY <2>1, <2>4
    <2> QED BY <2>1, <2>2, <2>5 DEF Covered
  <1> QED BY <1>2, <1>3

\* The wire with more messages behind.
LEMMA Extended ==
  ASSUME PageTyped, NEW s \in Seq(Messages), wire' = wire \o s, UNCHANGED page
  PROVE  /\ wire' \in Seq(Messages) /\ Len(wire') = Len(wire) + Len(s)
         /\ \A i \in 1..Len(wire) : wire'[i] = wire[i]
         /\ \A i \in 1..Len(s) : wire'[Len(wire) + i] = s[i]
         /\ \A k : \A j \in 0..Len(wire) : Covered(k, j) => Covered(k, j)'
  <1>1. wire \in Seq(Messages)
    BY DEF PageTyped
  <1>2. /\ wire' \in Seq(Messages) /\ Len(wire') = Len(wire) + Len(s)
        /\ \A i \in 1..Len(wire) : wire'[i] = wire[i]
        /\ \A i \in 1..Len(s) : wire'[Len(wire) + i] = s[i]
    BY <1>1, Joined
  <1>3. ASSUME NEW k, NEW j \in 0..Len(wire), Covered(k, j) PROVE Covered(k, j)'
    <2>1. CASE k <= page.lastSeq
      BY <2>1 DEF Covered
    <2>2. CASE ~ (k <= page.lastSeq)
      <3>1. PICK x \in 1..j : wire[x].event = "activity" /\ Top(wire[x].events) >= k
        BY <1>3, <2>2 DEF Covered
      <3>2. wire'[x] = wire[x]
        BY <1>1, <1>2
      <3> QED BY <3>1, <3>2 DEF Covered
    <2> QED BY <2>1, <2>2
  <1> QED BY <1>2, <1>3

\* A connection that is not closed has ended no stream, and its messages stay what they are
\* when others follow.
LEMMA MessagesStay ==
  ASSUME IInv, PageSide, conn.phase # "closed",
         NEW s \in Seq(Messages), wire' = wire \o s, UNCHANGED page
  PROVE  /\ page.state = "open"
         /\ \A i \in 1..Len(wire) : MessageOK(i)'
  <1>1. PageTyped /\ PhaseInv /\ WireInv
    BY DEF IInv, StreamInv
  <1>2. conn # NoConn
    BY DEF NoConn
  <1>3. page.state = "open"
    BY <1>1, <1>2 DEF PhaseInv
  <1>4. /\ \A i \in 1..Len(wire) : wire'[i] = wire[i]
        /\ \A k : \A j \in 0..Len(wire) : Covered(k, j) => Covered(k, j)'
    BY <1>1, Extended
  <1>5. row' = row /\ \A c, k : Bounded(c, k) => Bounded(c, k)'
    BY PageMoves DEF IInv
  <1>6. ASSUME NEW i \in 1..Len(wire) PROVE MessageOK(i)'
    <2>1. MessageOK(i) /\ wire'[i] = wire[i] /\ i - 1 \in 0..Len(wire)
      BY <1>1, <1>4 DEF WireInv
    <2>2. wire[i].event \notin {"done", "error", "close"}
      BY <1>2, <2>1 DEF MessageOK
    <2>3. ASSUME wire[i].event = "activity" PROVE BatchOK(i)'
      <3>1. PICK b \in 1..Attempts, m, n \in Nat :
              /\ wire[i].events = Events(b, m, n) /\ Low(n) <= m /\ m < n /\ Bounded(b, n)
              /\ m = Low(n) \/ Covered(m, i - 1)
        BY <2>1, <2>3 DEF MessageOK, BatchOK
      <3>2. Bounded(b, n)' /\ (m = Low(n) \/ Covered(m, i - 1)')
        BY <1>4, <1>5, <2>1, <3>1
      <3> QED BY <2>1, <3>1, <3>2 DEF BatchOK
    <2> QED BY <2>1, <2>2, <2>3 DEF MessageOK
  <1> QED BY <1>3, <1>6

\* What a read finds.
LEMMA FoundIs ==
  ASSUME CrawlInv
  PROVE  /\ Found \in Rows /\ Owned(Found.activity)
         /\ Over(Found.status) => Ended(Found.status) /\ Found.activity = row.activity
  <1>1. CASE row.status = "deleted"
    <2>1. Found = NoRow /\ NoRow \in Rows /\ NoRow.activity = <<>> /\ NoRow.status = "none"
      BY <1>1, NoRing DEF Found, NoRow, Rows, Statuses
    <2>2. 1 \in 1..Attempts /\ 1 \in Nat /\ 0 \in Nat
      BY Sizes
    <2>3. <<>> = Ring(1, 0)
      BY <2>2, NoRing
    <2> QED BY <2>1, <2>2, <2>3 DEF Owned, Over
  <1>2. CASE row.status # "deleted"
    BY <1>2 DEF Found, CrawlInv, CrawlTyped, RowInv, Ended
  <1> QED BY <1>1, <1>2

\* What stays when the page itself does.
LEMMA FeedStays ==
  ASSUME IInv, PageSide, page'.feed = page.feed, page'.lastSeq = page.lastSeq, page'.state # "done"
  PROVE  FeedInv'
  <1>1. FeedInv /\ row' = row /\ \A c, k : Bounded(c, k) => Bounded(c, k)'
    BY PageMoves DEF IInv, StreamInv
  <1>2. ASSUME page.feed # <<>> PROVE FeedEnds'
    <2>1. FeedEnds
      BY <1>1, <1>2 DEF FeedInv
    <2> QED BY <1>1, <2>1 DEF FeedEnds, Told
  <1> QED BY <1>1, <1>2 DEF FeedInv

\* A connection that begins.
LEMMA ConnectKeeps ==
  ASSUME IInv, Connect
  PROVE  IInv'
  <1>1. /\ CrawlInv' /\ row' = row /\ \A s : Owned(s) => Owned(s)'
    BY PageMoves DEF IInv, PageSide
  <1>2. PageTyped /\ page \in Pages /\ page.lastSeq \in Nat
    BY DEF IInv, StreamInv, PageTyped, Pages
  <1>3. /\ page' = [page EXCEPT !.state = "open"] /\ wire' = <<>>
        /\ conn' = [phase |-> "first", mark |-> 0, reads |-> {Found}, final |-> "none"]
    BY DEF Connect, NoConn
  <1>4. /\ Found \in Rows /\ Owned(Found.activity)
        /\ Over(Found.status) => Ended(Found.status) /\ Found.activity = row.activity
    BY FoundIs DEF IInv
  <1>5. page' \in Pages /\ page'.state = "open" /\ page'.feed = page.feed /\ page'.lastSeq = page.lastSeq
    BY <1>2, <1>3 DEF Pages
  <1>6. PageTyped'
    <2>1. conn' \in Conns
      BY <1>3, <1>4 DEF Conns, Statuses
    <2> QED BY <1>3, <1>5, <2>1 DEF PageTyped
  <1>7. ReadsInv'
    BY <1>1, <1>3, <1>4 DEF ReadsInv, Ended
  <1>8. PhaseInv'
    BY <1>2, <1>3, <1>5 DEF PhaseInv, Covered
  <1>9. WireInv'
    BY <1>3 DEF WireInv
  <1>10. FeedInv'
    BY <1>5, FeedStays DEF PageSide
  <1> QED BY <1>1, <1>6, <1>7, <1>8, <1>9, <1>10 DEF IInv, StreamInv

\* A tick.
LEMMA TickKeeps ==
  ASSUME IInv, Tick
  PROVE  IInv'
  <1>1. /\ CrawlInv' /\ row' = row /\ \A s : Owned(s) => Owned(s)'
        /\ \A c, k : Bounded(c, k) => Bounded(c, k)'
    BY PageMoves DEF IInv, PageSide
  <1>2. PageTyped /\ conn \in Conns /\ PhaseInv
    BY DEF IInv, StreamInv, PageTyped
  <1>3. /\ conn' = [conn EXCEPT !.reads = {Found}] /\ conn.phase = "open"
        /\ UNCHANGED <<wire, page>>
    BY DEF Tick
  <1>4. /\ Found \in Rows /\ Owned(Found.activity)
        /\ Over(Found.status) => Ended(Found.status) /\ Found.activity = row.activity
    BY FoundIs DEF IInv
  <1>5. /\ conn' \in Conns /\ conn'.phase = "open" /\ conn'.mark = conn.mark
        /\ conn'.reads = {Found}
    BY <1>2, <1>3, <1>4 DEF Conns
  <1>6. page.state = "open" /\ conn # NoConn
    BY <1>2, <1>3 DEF PhaseInv, NoConn
  <1>7. PageTyped'
    BY <1>2, <1>3, <1>5 DEF PageTyped
  <1>8. ReadsInv'
    BY <1>1, <1>4, <1>5 DEF ReadsInv, Ended
  <1>9. PhaseInv'
    BY <1>2, <1>3, <1>5, <1>6 DEF PhaseInv, Covered
  <1>10. WireInv'
    <2> SUFFICES ASSUME NEW i \in 1..Len(wire), MessageOK(i) PROVE MessageOK(i)'
      BY <1>3 DEF IInv, StreamInv, WireInv
    <2>1. wire[i].event \notin {"done", "error", "close"}
      BY <1>6 DEF MessageOK
    <2>2. BatchOK(i) => BatchOK(i)'
      <3> SUFFICES ASSUME BatchOK(i) PROVE BatchOK(i)'
        OBVIOUS
      <3>1. PICK b \in 1..Attempts, m, n \in Nat :
              /\ wire[i].events = Events(b, m, n) /\ Low(n) <= m /\ m < n /\ Bounded(b, n)
              /\ m = Low(n) \/ Covered(m, i - 1)
        BY DEF BatchOK
      <3>2. Bounded(b, n)' /\ (m = Low(n) \/ Covered(m, i - 1)')
        BY <1>1, <1>3, <3>1 DEF Covered
      <3> QED BY <1>3, <3>1, <3>2 DEF BatchOK
    <2> QED BY <1>3, <2>1, <2>2 DEF MessageOK
  <1>11. FeedInv'
    <2>1. page.state # "done"
      BY <1>6
    <2> QED BY <1>3, <2>1, FeedStays DEF PageSide
  <1> QED BY <1>1, <1>7, <1>8, <1>9, <1>10, <1>11 DEF IInv, StreamInv

\* A connection that breaks.
LEMMA BreakKeeps ==
  ASSUME IInv, Break
  PROVE  IInv'
  <1>1. CrawlInv' /\ row' = row
    BY PageMoves DEF IInv, PageSide
  <1>2. page \in Pages /\ page.lastSeq \in Nat
    BY DEF IInv, StreamInv, PageTyped, Pages
  <1>3. /\ page' = [page EXCEPT !.state = "waiting"] /\ wire' = <<>>
        /\ conn' = [phase |-> "closed", mark |-> 0, reads |-> {}, final |-> "none"]
        /\ conn' = NoConn
    BY DEF Break, NoConn
  <1>4. /\ page' \in Pages /\ page'.state = "waiting" /\ page'.feed = page.feed
        /\ page'.lastSeq = page.lastSeq
    BY <1>2, <1>3 DEF Pages
  <1>5. PageTyped'
    <2>1. conn' \in Conns
      BY <1>3 DEF Conns, Statuses
    <2> QED BY <1>3, <1>4, <2>1 DEF PageTyped
  <1>6. ReadsInv'
    BY <1>3 DEF ReadsInv
  <1>7. PhaseInv'
    BY <1>2, <1>3, <1>4 DEF PhaseInv, Covered, NoConn
  <1>8. WireInv'
    BY <1>3 DEF WireInv
  <1>9. FeedInv'
    BY <1>4, FeedStays DEF PageSide
  <1> QED BY <1>1, <1>5, <1>6, <1>7, <1>8, <1>9 DEF IInv, StreamInv

\* A last message: 'done' with the end of the audit, 'error' or the end of the stream.
LEMMA LastMessage ==
  ASSUME IInv, PageSide, conn.phase # "closed", NEW m \in Messages, wire' = Append(wire, m),
         conn' = NoConn, UNCHANGED page,
         m.event \in {"done", "error", "close"},
         m.event = "done" => Ended(m.status) /\ Covered(Top(row.activity), Len(wire))
  PROVE  IInv'
  <1>1. CrawlInv' /\ row' = row
    BY PageMoves DEF IInv
  <1>2. PageTyped /\ wire \in Seq(Messages) /\ page.lastSeq \in Nat
    BY DEF IInv, StreamInv, PageTyped, Pages
  <1>3. wire' = wire \o <<m>> /\ <<m>> \in Seq(Messages) /\ Len(<<m>>) = 1 /\ <<m>>[1] = m
    BY <1>2
  <1>4. /\ wire' \in Seq(Messages) /\ Len(wire') = Len(wire) + 1
        /\ wire'[Len(wire) + 1] = m
        /\ \A k : \A j \in 0..Len(wire) : Covered(k, j) => Covered(k, j)'
    <2> DEFINE s == <<m>>
    <2> HIDE DEF s
    <2>1. s \in Seq(Messages) /\ Len(s) = 1 /\ s[1] = m /\ 1 \in 1..Len(s) /\ wire' = wire \o s
      BY <1>3 DEF s
    <2>2. /\ wire' \in Seq(Messages) /\ Len(wire') = Len(wire) + Len(s)
          /\ \A i \in 1..Len(s) : wire'[Len(wire) + i] = s[i]
          /\ \A k : \A j \in 0..Len(wire) : Covered(k, j) => Covered(k, j)'
      BY <1>2, <2>1, Extended
    <2> QED BY <2>1, <2>2
  <1>5. page.state = "open" /\ \A i \in 1..Len(wire) : MessageOK(i)'
    BY <1>3, MessagesStay
  <1>0. PICK n \in Nat : n = Len(wire)
    BY <1>2
  <1>6. MessageOK(n + 1)'
    <2>1. n \in 0..n /\ (n + 1) - 1 = n
      BY <1>0
    <2>2. m.event = "done" => Ended(m.status)' /\ Covered(Top(row.activity), n)'
      BY <1>0, <1>1, <1>4, <2>1 DEF Ended
    <2>3. wire'[n + 1] = m /\ Len(wire') = n + 1
      BY <1>0, <1>4
    <2> QED BY <2>1, <2>2, <2>3 DEF MessageOK
  <1>7. WireInv'
    <2> SUFFICES ASSUME NEW i \in 1..(n + 1) PROVE MessageOK(i)'
      BY <1>0, <1>4 DEF WireInv
    <2>1. i \in 1..n \/ i = n + 1
      BY <1>0
    <2> QED BY <1>0, <1>5, <1>6, <2>1
  <1>8. NoConn = [phase |-> "closed", mark |-> 0, reads |-> {}, final |-> "none"]
    BY DEF NoConn
  <1>9. PageTyped'
    <2>1. conn' \in Conns
      BY <1>8 DEF Conns, Statuses
    <2> QED BY <1>4, <2>1 DEF IInv, StreamInv, PageTyped
  <1>10. ReadsInv'
    BY <1>8 DEF ReadsInv
  <1>11. PhaseInv'
    BY <1>2, <1>5, <1>8 DEF PhaseInv, Covered
  <1>12. FeedInv'
    <2>1. page'.state # "done"
      BY <1>5
    <2> QED BY <2>1, FeedStays
  <1> QED BY <1>1, <1>7, <1>9, <1>10, <1>11, <1>12 DEF IInv, StreamInv

LEMMA EndsKeep ==
  ASSUME IInv, Finish \/ SelfClose
  PROVE  IInv'
  <1>1. PhaseInv /\ conn \in Conns /\ conn.final \in Statuses
    BY DEF IInv, StreamInv, PageTyped, Conns
  <1>2. CASE Finish
    <2> DEFINE d == [event |-> "done", status |-> conn.final]
               e == [event |-> "error"]
    <2>1. conn.phase = "build" /\ Ended(conn.final) /\ Covered(Top(row.activity), Len(wire))
      BY <1>1, <1>2 DEF Finish, PhaseInv
    <2>2. (wire' = Append(wire, d) \/ wire' = Append(wire, e)) /\ conn' = NoConn /\ UNCHANGED page
      BY <1>2 DEF Finish
    <2>3. d \in Messages /\ d.event = "done" /\ d.status = conn.final
      BY <1>1 DEF Messages
    <2>4. e \in Messages /\ e.event = "error"
      BY DEF Messages
    <2> HIDE DEF d, e
    <2>5. CASE wire' = Append(wire, d)
      BY <1>2, <2>1, <2>2, <2>3, <2>5, LastMessage DEF PageSide
    <2>6. CASE wire' = Append(wire, e)
      BY <1>2, <2>1, <2>2, <2>4, <2>6, LastMessage DEF PageSide
    <2> QED BY <2>2, <2>5, <2>6
  <1>3. CASE SelfClose
    <2> DEFINE m == [event |-> "close"]
    <2>1. conn.phase = "open" /\ wire' = Append(wire, m) /\ conn' = NoConn /\ UNCHANGED page
      BY <1>3 DEF SelfClose
    <2>2. m \in Messages /\ m.event = "close"
      BY DEF Messages
    <2> HIDE DEF m
    <2> QED BY <1>3, <2>1, <2>2, LastMessage DEF PageSide
  <1> QED BY <1>2, <1>3

\* A read that is under way: its connection is open, it is the only one and what it found is
\* some writer's ring.
LEMMA ReadIs ==
  ASSUME IInv, NEW r \in conn.reads
  PROVE  /\ conn.phase \in {"first", "open"} /\ page.state = "open" /\ conn.reads \ {r} = {}
         /\ conn.mark \in Nat /\ r \in Rows /\ Owned(r.activity)
         /\ Over(r.status) => Ended(r.status) /\ r.activity = row.activity
  <1>1. ReadsInv /\ PhaseInv /\ conn \in Conns
    BY DEF IInv, StreamInv, PageTyped
  <1>2. conn # NoConn
    BY DEF NoConn
  <1>3. conn.phase \in {"first", "open"}
    BY <1>1, <1>2 DEF PhaseInv, Conns
  <1>4. page.state = "open"
    BY <1>1, <1>2 DEF PhaseInv
  <1>5. conn.mark \in Nat /\ r \in Rows
    BY <1>1 DEF Conns
  <1>6. conn.reads \ {r} = {}
    BY <1>1 DEF ReadsInv
  <1> QED BY <1>1, <1>3, <1>4, <1>5, <1>6 DEF ReadsInv

\* A read that comes to nothing.
LEMMA NothingKeeps ==
  ASSUME IInv, NEW r \in conn.reads, PolledNothing(r)
  PROVE  IInv'
  <1>0. PageSide
    BY DEF PageSide, Reply
  <1>1. CrawlInv' /\ row' = row
    BY <1>0, PageMoves DEF IInv
  <1>2. PageTyped /\ conn \in Conns /\ PhaseInv /\ wire \in Seq(Messages)
    BY DEF IInv, StreamInv, PageTyped
  <1>3. conn.phase \in {"first", "open"} /\ page.state = "open" /\ conn.reads \ {r} = {}
    BY ReadIs
  <1>4. /\ conn' = [conn EXCEPT !.reads = {}, !.phase = "open"]
        /\ UNCHANGED <<wire, page>>
    BY <1>3 DEF PolledNothing
  <1>5. conn' \in Conns /\ conn'.phase = "open" /\ conn'.mark = conn.mark /\ conn'.reads = {}
    BY <1>2, <1>4 DEF Conns
  <1>6. <<>> \in Seq(Messages) /\ wire' = wire \o <<>> /\ UNCHANGED page
    BY <1>2, <1>4
  <1>7. WireInv'
    <2>1. \A i \in 1..Len(wire) : MessageOK(i)'
      BY <1>0, <1>3, <1>6, MessagesStay
    <2> QED BY <1>4, <2>1 DEF WireInv
  <1>8. FeedInv'
    <2>1. page'.state # "done"
      BY <1>3, <1>4
    <2> QED BY <1>0, <1>4, <2>1, FeedStays
  <1>9. PageTyped'
    BY <1>2, <1>4, <1>5 DEF PageTyped
  <1>10. ReadsInv' /\ PhaseInv'
    BY <1>2, <1>3, <1>4, <1>5 DEF ReadsInv, PhaseInv, Covered
  <1> QED BY <1>1, <1>7, <1>8, <1>9, <1>10 DEF IInv, StreamInv

\* What a poll sends, and the mark it leaves: the whole ring is covered.
LEMMA PolledSends ==
  ASSUME IInv, NEW r \in conn.reads, Polled(r)
  PROVE  \E b \in 1..Attempts, n \in Nat, p \in Nat :
    LET status == [event |-> "progress", status |-> r.status]
        batch  == [event |-> "activity", events |-> Events(b, p, n)]
    IN /\ r.activity = Ring(b, n) /\ (n # 0 => Bounded(b, n))
       /\ Low(n) <= p /\ p <= n /\ (p = Low(n) \/ p = conn.mark \/ p = n)
       /\ wire' = wire \o (IF p = n THEN <<status>> ELSE <<status>> \o <<batch>>)
       /\ conn' = [conn EXCEPT !.reads = {}, !.mark = IF p = n THEN @ ELSE n,
                               !.phase = IF Over(r.status) THEN "build" ELSE "open",
                               !.final = IF Over(r.status) THEN r.status ELSE @]
       /\ p = n => n <= conn.mark
       /\ UNCHANGED page
  <1>1. PICK b \in 1..Attempts, n \in Nat : r.activity = Ring(b, n) /\ (n # 0 => Bounded(b, n))
    BY ReadIs DEF Owned
  <1>2. conn.mark \in Nat /\ conn.phase \in {"first", "open"} /\ conn.reads \ {r} = {}
    BY ReadIs
  <1>3. b \in Nat /\ Low(n) \in Nat /\ Low(n) <= n
    BY Sizes
  <1>4. PICK l \in Nat : l = Low(n) /\ l <= n
    BY <1>3
  <1>5. PICK p \in Nat : p = From(l, conn.mark, n)
    <2>1. From(l, conn.mark, n) \in Nat
      BY <1>2, <1>4 DEF From
    <2> QED BY <2>1
  <1>6. l <= p /\ p <= n /\ Newer(Events(b, l, n), conn.mark) = Events(b, p, n)
    <2>1. PICK k \in Nat : k = conn.mark
      BY <1>2
    <2>2. l <= From(l, k, n) /\ From(l, k, n) <= n
      BY <1>3, <1>4, NewerOfEvents
    <2>3. Newer(Events(b, l, n), k) = Events(b, From(l, k, n), n)
      BY <1>3, <1>4, NewerOfEvents
    <2> QED BY <1>5, <2>1, <2>2, <2>3
  <1>7. Newer(r.activity, conn.mark) = Events(b, p, n)
    BY <1>1, <1>4, <1>6 DEF Ring
  <1>8. (p = l \/ p = conn.mark \/ p = n) /\ (p = n => n <= conn.mark)
    <2>1. l = n => n = 0
      BY <1>3, <1>4, Sizes
    <2> QED BY <1>2, <1>4, <1>5, <2>1 DEF From
  <1>9. Events(b, p, n) = <<>> <=> p = n
    BY <1>3, <1>6, EventsEmpty
  <1>10. MarkAfter(Events(b, p, n), conn.mark) = IF p = n THEN conn.mark ELSE n
    <2>1. CASE p = n
      BY <1>9, <2>1 DEF MarkAfter
    <2>2. CASE p # n
      <3>1. p < n
        BY <1>6, <2>2
      <3> QED BY <1>3, <2>2, <3>1, MarkOfEvents
    <2> QED BY <2>1, <2>2
  <1> DEFINE status == [event |-> "progress", status |-> r.status]
             batch  == [event |-> "activity", events |-> Events(b, p, n)]
  <1>11. Sent(r) = IF p = n THEN <<status>> ELSE <<status>> \o <<batch>>
    <2>1. Sent(r) = <<status>> \o (IF p = n THEN <<>> ELSE <<batch>>)
      BY <1>7, <1>9 DEF Sent
    <2> HIDE DEF status, batch
    <2>2. <<status>> \o <<>> = <<status>>
      OBVIOUS
    <2> QED BY <2>1, <2>2
  <1>12. conn' = [conn EXCEPT !.reads = {}, !.mark = IF p = n THEN @ ELSE n,
                              !.phase = IF Over(r.status) THEN "build" ELSE "open",
                              !.final = IF Over(r.status) THEN r.status ELSE @]
    BY <1>2, <1>7, <1>10 DEF Polled
  <1>13. wire' = wire \o Sent(r) /\ UNCHANGED page
    BY DEF Polled
  <1> QED BY <1>1, <1>4, <1>6, <1>8, <1>11, <1>12, <1>13

\* A message about the status, or one more after it, may be sent while the connection is open.
LEMMA StatusSent ==
  ASSUME IInv, PageSide, conn.phase # "closed", NEW m \in Messages, m.event = "progress",
         wire' = wire \o <<m>>, UNCHANGED page
  PROVE  /\ wire' \in Seq(Messages) /\ WireInv'
         /\ \A k : Covered(k, Len(wire)) => Covered(k, Len(wire))'
  <1>1. PageTyped
    BY DEF IInv, StreamInv
  <1>2. PICK l \in Nat : l = Len(wire)
    BY <1>1 DEF PageTyped
  <1> DEFINE s == <<m>>
  <1>3. s \in Seq(Messages) /\ Len(s) = 1 /\ s[1] = m /\ 1 \in 1..Len(s)
    OBVIOUS
  <1> HIDE DEF s
  <1>4. /\ wire' \in Seq(Messages) /\ Len(wire') = l + 1 /\ wire'[l + 1] = m
        /\ \A k : \A j \in 0..l : Covered(k, j) => Covered(k, j)'
    <2>1. /\ wire' \in Seq(Messages) /\ Len(wire') = Len(wire) + Len(s)
          /\ \A i \in 1..Len(s) : wire'[Len(wire) + i] = s[i]
          /\ \A k : \A j \in 0..Len(wire) : Covered(k, j) => Covered(k, j)'
      BY <1>1, <1>3, Extended DEF s
    <2> QED BY <1>2, <1>3, <2>1
  <1>5. \A i \in 1..l : MessageOK(i)'
    BY <1>2, <1>3, MessagesStay DEF s
  <1>6. MessageOK(l + 1)'
    BY <1>4 DEF MessageOK
  <1>7. WireInv'
    <2> SUFFICES ASSUME NEW i \in 1..(l + 1) PROVE MessageOK(i)'
      BY <1>4 DEF WireInv
    <2>1. i \in 1..l \/ i = l + 1
      OBVIOUS
    <2> QED BY <1>5, <1>6, <2>1
  <1>8. ASSUME NEW k, Covered(k, l) PROVE Covered(k, Len(wire))'
    <2>1. Covered(k, l)'
      BY <1>4, <1>8
    <2>2. l <= Len(wire')
      BY <1>4
    <2> QED BY <1>4, <2>1, <2>2 DEF Covered
  <1> QED BY <1>2, <1>4, <1>7, <1>8

LEMMA BatchSent ==
  ASSUME IInv, PageSide, conn.phase # "closed", NEW m \in Messages, m.event = "progress",
         NEW b \in 1..Attempts, NEW n \in Nat, NEW p \in Nat,
         Bounded(b, n), Low(n) <= p, p < n, p = Low(n) \/ Covered(p, Len(wire)),
         NEW a, a = [event |-> "activity", events |-> Events(b, p, n)],
         wire' = wire \o (<<m>> \o <<a>>), UNCHANGED page
  PROVE  wire' \in Seq(Messages) /\ WireInv' /\ Covered(n, Len(wire))'
  <1>1. PageTyped
    BY DEF IInv, StreamInv
  <1>2. PICK l \in Nat : l = Len(wire)
    BY <1>1 DEF PageTyped
  <1>3. b \in Nat
    BY Sizes
  <1>4. a \in Messages /\ a.event = "activity" /\ a.events = Events(b, p, n)
    <2>1. Events(b, p, n) \in Batch
      BY <1>3, EventsSeq DEF Batch
    <2> QED BY <2>1 DEF Messages
  <1> DEFINE s == <<m>> \o <<a>>
  <1>5. s \in Seq(Messages) /\ Len(s) = 2 /\ s[1] = m /\ s[2] = a /\ 1 \in 1..Len(s) /\ 2 \in 1..Len(s)
    <2>1. <<m>> \in Seq(Messages) /\ <<a>> \in Seq(Messages)
      BY <1>4
    <2>2. s \in Seq(Messages) /\ Len(s) = 2
      BY <2>1
    <2>3. s[1] = m /\ s[2] = a
      BY <2>1
    <2> QED BY <2>2, <2>3
  <1>6. wire' = wire \o s
    OBVIOUS
  <1> HIDE DEF s
  <1>7. /\ wire' \in Seq(Messages) /\ Len(wire') = l + 2 /\ wire'[l + 1] = m /\ wire'[l + 2] = a
        /\ \A k : \A j \in 0..l : Covered(k, j) => Covered(k, j)'
    <2>1. /\ wire' \in Seq(Messages) /\ Len(wire') = Len(wire) + Len(s)
          /\ \A i \in 1..Len(s) : wire'[Len(wire) + i] = s[i]
          /\ \A k : \A j \in 0..Len(wire) : Covered(k, j) => Covered(k, j)'
      BY <1>1, <1>5, <1>6, Extended
    <2> QED BY <1>2, <1>5, <2>1
  <1>8. \A i \in 1..l : MessageOK(i)'
    BY <1>2, <1>5, <1>6, MessagesStay
  <1>9. MessageOK(l + 1)'
    BY <1>7 DEF MessageOK
  <1>10. MessageOK(l + 2)'
    <2>1. p = Low(n) \/ Covered(p, l)'
      BY <1>2, <1>7
    <2>2. p = Low(n) \/ Covered(p, (l + 2) - 1)'
      BY <1>7, <2>1 DEF Covered
    <2>3. Bounded(b, n)'
      BY PageMoves DEF IInv
    <2>4. BatchOK(l + 2)'
      BY <1>4, <1>7, <2>2, <2>3 DEF BatchOK
    <2> QED BY <1>4, <1>7, <2>4 DEF MessageOK
  <1>11. WireInv'
    <2> SUFFICES ASSUME NEW i \in 1..(l + 2) PROVE MessageOK(i)'
      BY <1>7 DEF WireInv
    <2>1. i \in 1..l \/ i = l + 1 \/ i = l + 2
      OBVIOUS
    <2> QED BY <1>8, <1>9, <1>10, <2>1
  <1>12. Covered(n, Len(wire))'
    <2>1. Top(a.events) = n
      BY <1>3, <1>4, MarkOfEvents DEF Top
    <2>2. l + 2 \in 1..Len(wire')
      BY <1>7
    <2>3. wire'[l + 2].event = "activity" /\ Top(wire'[l + 2].events) >= n
      BY <1>4, <1>7, <2>1
    <2> QED BY <2>2, <2>3 DEF Covered
  <1> QED BY <1>7, <1>11, <1>12

\* A read that comes back with the row.
LEMMA PolledKeeps ==
  ASSUME IInv, NEW r \in conn.reads, Polled(r)
  PROVE  IInv'
  <1>0. PageSide
    BY DEF PageSide, Reply
  <1>1. CrawlInv' /\ row' = row
    BY <1>0, PageMoves DEF IInv
  <1>2. /\ PageTyped /\ conn \in Conns /\ PhaseInv /\ Covered(conn.mark, Len(wire))
        /\ Len(wire) \in Nat
    BY DEF IInv, StreamInv, PageTyped, PhaseInv
  <1>3. /\ conn.phase # "closed" /\ page.state = "open" /\ conn.mark \in Nat /\ r \in Rows
        /\ r.status \in Statuses
        /\ Over(r.status) => Ended(r.status) /\ r.activity = row.activity
    BY ReadIs DEF Rows
  <1> DEFINE m       == [event |-> "progress", status |-> r.status]
             a(b, p, n) == [event |-> "activity", events |-> Events(b, p, n)]
  <1>4. PICK b \in 1..Attempts, n \in Nat, p \in Nat :
          /\ r.activity = Ring(b, n) /\ (n # 0 => Bounded(b, n))
          /\ Low(n) <= p /\ p <= n /\ (p = Low(n) \/ p = conn.mark \/ p = n)
          /\ wire' = wire \o (IF p = n THEN <<m>> ELSE <<m>> \o <<a(b, p, n)>>)
          /\ conn' = [conn EXCEPT !.reads = {}, !.mark = IF p = n THEN @ ELSE n,
                                  !.phase = IF Over(r.status) THEN "build" ELSE "open",
                                  !.final = IF Over(r.status) THEN r.status ELSE @]
          /\ (p = n => n <= conn.mark)
          /\ UNCHANGED page
    BY PolledSends
  <1>5. m \in Messages /\ m.event = "progress"
    BY <1>3 DEF Messages
  <1> HIDE DEF m
  <1>6. /\ wire' \in Seq(Messages) /\ WireInv'
        /\ Covered(n, Len(wire))'
        /\ \A k : k = (IF p = n THEN conn.mark ELSE n) => Covered(k, Len(wire))'
    <2>1. CASE p = n
      <3>1. wire' = wire \o <<m>> /\ UNCHANGED page
        BY <1>4, <2>1
      <3>2. /\ wire' \in Seq(Messages) /\ WireInv'
            /\ \A k : Covered(k, Len(wire)) => Covered(k, Len(wire))'
        BY <1>0, <1>3, <1>5, <3>1, StatusSent
      <3>3. Covered(n, Len(wire))
        <4>1. n <= conn.mark /\ Len(wire) \in 0..Len(wire) /\ Len(wire) \in Len(wire)..Len(wire)
          BY <1>2, <1>4, <2>1
        <4> QED BY <1>2, <1>3, <4>1, CoveredLess
      <3> QED BY <1>2, <2>1, <3>2, <3>3
    <2>2. CASE p # n
      <3>1. wire' = wire \o (<<m>> \o <<a(b, p, n)>>) /\ UNCHANGED page
        BY <1>4, <2>2
      <3>2. p < n /\ n # 0 /\ Bounded(b, n) /\ Low(n) <= p /\ (p = Low(n) \/ Covered(p, Len(wire)))
        BY <1>2, <1>4, <2>2
      <3> HIDE DEF a
      <3>3. PICK x : x = a(b, p, n)
        OBVIOUS
      <3>4. wire' = wire \o (<<m>> \o <<x>>) /\ x = [event |-> "activity", events |-> Events(b, p, n)]
        BY <3>1, <3>3 DEF a
      <3>5. wire' \in Seq(Messages) /\ WireInv' /\ Covered(n, Len(wire))'
        BY <1>0, <1>3, <1>5, <3>1, <3>2, <3>4, BatchSent
      <3> QED BY <2>2, <3>5
    <2> QED BY <2>1, <2>2
  <1>7. conn' \in Conns
    BY <1>2, <1>3, <1>4 DEF Conns
  <1>8. /\ conn'.reads = {} /\ conn'.mark = (IF p = n THEN conn.mark ELSE n)
        /\ conn'.phase = (IF Over(r.status) THEN "build" ELSE "open")
        /\ Over(r.status) => conn'.final = r.status
    BY <1>2, <1>4 DEF Conns
  <1>9. PhaseInv'
    <2>1. page'.state = "open" /\ conn'.phase # "closed"
      BY <1>3, <1>4, <1>8
    <2>2. ASSUME conn'.phase = "build"
          PROVE  conn'.reads = {} /\ Ended(conn.final)' /\ Covered(Top(row.activity), Len(wire))'
      <3>1. Over(r.status)
        BY <1>8, <2>2
      <3>2. Ended(r.status) /\ row'.activity = Ring(b, n) /\ conn'.final = r.status
        BY <1>1, <1>3, <1>4, <1>8, <3>1
      <3>3. Top(row'.activity) = n
        <4>1. b \in Nat
          BY Sizes
        <4>2. Top(Ring(b, n)) = n
          BY <4>1, RingTop
        <4> QED BY <3>2, <4>2
      <3>4. Covered(Top(row.activity), Len(wire))'
        BY <1>6, <3>3 DEF Covered, Top
      <3>5. Ended(conn.final)'
        BY <1>1, <3>2 DEF Ended
      <3> QED BY <1>8, <3>4, <3>5
    <2>3. Covered(conn.mark, Len(wire))'
      <3>1. PICK k : k = (IF p = n THEN conn.mark ELSE n)
        OBVIOUS
      <3>2. Covered(k, Len(wire))' /\ conn'.mark = k
        BY <1>6, <1>8, <3>1
      <3> QED BY <3>2 DEF Covered
    <2> QED BY <2>1, <2>2, <2>3 DEF PhaseInv
  <1>10. FeedInv'
    <2>1. page'.state # "done"
      BY <1>3, <1>4
    <2> QED BY <1>0, <1>4, <2>1, FeedStays
  <1>11. PageTyped' /\ ReadsInv'
    BY <1>2, <1>4, <1>6, <1>7, <1>8 DEF PageTyped, ReadsInv
  <1> QED BY <1>1, <1>6, <1>9, <1>10, <1>11 DEF IInv, StreamInv

\* The feed after a batch.
LEMMA FoldGrows ==
  ASSUME IInv, NEW b \in 1..Attempts, NEW m \in Nat, NEW n \in Nat,
         Low(n) <= m, m < n, Bounded(b, n), m = Low(n) \/ m <= page.lastSeq,
         NEW q, q = Fold(Events(b, m, n)), UNCHANGED <<row, writer>>, page' = q,
         page.state = "open"
  PROVE  /\ q \in Pages /\ q.state = "open" /\ q.view = page.view
         /\ page.lastSeq <= q.lastSeq /\ n <= q.lastSeq
         /\ FeedInv'
  <1>1. b \in Nat /\ Low(n) \in Nat
    BY Sizes
  <1>2. FeedInv /\ page \in Pages /\ page.lastSeq \in Nat /\ page.feed \in Batch
    BY DEF IInv, StreamInv, PageTyped, Pages
  <1>3. \A c, k : Bounded(c, k) => Bounded(c, k)'
    BY DEF Bounded
  <1>4. PICK t \in Nat : t = page.lastSeq
    BY <1>2
  <1>5. PICK p \in Nat : p = From(m, t, n)
    <2>1. From(m, t, n) \in Nat
      BY DEF From
    <2> QED BY <2>1
  <1>6. m <= p /\ p <= n /\ Newer(Events(b, m, n), t) = Events(b, p, n)
    <2>1. m <= From(m, t, n) /\ From(m, t, n) <= n
      BY DEF From
    <2>2. Newer(Events(b, m, n), t) = Events(b, From(m, t, n), n)
      BY <1>1, NewerOfEvents
    <2> QED BY <1>5, <2>1, <2>2
  <1>7. q = [page EXCEPT !.feed = Latest(@ \o Events(b, p, n), FeedSize),
                         !.lastSeq = MarkAfter(Events(b, p, n), @)]
    BY <1>4, <1>6 DEF Fold
  <1>8. CASE p = n
    <2>1. n <= t
      BY <1>5, <1>8 DEF From
    <2>2. Events(b, p, n) = <<>>
      BY <1>1, <1>8, EventsEmpty
    <2>3. MarkAfter(<<>>, page.lastSeq) = page.lastSeq
      BY DEF MarkAfter
    <2>4. Latest(page.feed \o <<>>, FeedSize) = page.feed
      <3>1. page.feed \o <<>> = page.feed
        BY <1>2 DEF Batch
      <3>2. Len(page.feed) <= FeedSize /\ Len(page.feed) \in Nat
        BY <1>2 DEF FeedInv, Batch
      <3>3. Latest(page.feed, FeedSize) = SubSeq(page.feed, 1, Len(page.feed))
        <4>1. ~ (Len(page.feed) > FeedSize)
          BY <3>2, Sizes
        <4> QED BY <4>1 DEF Latest
      <3>4. SubSeq(page.feed, 1, Len(page.feed)) = page.feed
        BY <1>2 DEF Batch
      <3> QED BY <3>1, <3>3, <3>4
    <2>5. q = [page EXCEPT !.feed = page.feed, !.lastSeq = page.lastSeq]
      BY <1>7, <2>2, <2>3, <2>4
    <2>6. q = page
      BY <1>2, <2>5 DEF Pages
    <2>7. FeedInv'
      <3>1. page.feed # <<>> => FeedEnds'
        BY <1>2, <1>3, <2>6 DEF FeedInv, FeedEnds, Told
      <3> QED BY <1>2, <2>6, <3>1 DEF FeedInv
    <2> QED BY <1>2, <1>4, <2>1, <2>6, <2>7
  <1>9. CASE p # n
    <2> DEFINE s == page.feed
               f == Latest(s \o Events(b, p, n), FeedSize)
    <2>1. p < n /\ t <= p
      BY <1>5, <1>6, <1>9 DEF From
    <2>2. MarkAfter(Events(b, p, n), page.lastSeq) = n
      BY <1>1, <2>1, MarkOfEvents
    <2>3. s \in Seq(Nat \X Nat) /\ Spread(s) /\ (s # <<>> => s[Len(s)][2] = t)
      BY <1>2, <1>4 DEF FeedInv, FeedEnds, Batch
    <2>4. s # <<>> => s[Len(s)][2] <= p
      BY <2>1, <2>3
    <2>5. /\ f \in Seq(Nat \X Nat) /\ f # <<>> /\ f[Len(f)] = <<b, n>> /\ Spread(f)
          /\ \A e \in ToSet(s) : e[2] > Low(n) => e \in ToSet(f)
          /\ \A k \in (p + 1)..n : k > Low(n) => <<b, k>> \in ToSet(f)
      BY <1>1, <2>1, <2>3, <2>4, FeedGrows
    <2>6. Len(f) <= FeedSize
      <3>1. s \o Events(b, p, n) \in Seq(Nat \X Nat)
        <4>1. Events(b, p, n) \in Seq(Nat \X Nat)
          BY <1>1, <2>1, EventsSeq
        <4> QED BY <2>3, <4>1, Joined
      <3> QED BY <3>1, Sizes, LatestShort
    <2>7. q = [page EXCEPT !.feed = f, !.lastSeq = n]
      BY <1>7, <2>2
    <2> HIDE DEF f
    <2>8. /\ q \in Pages /\ q.state = "open" /\ q.view = page.view /\ q.lastSeq = n /\ q.feed = f
      BY <1>2, <2>5, <2>7 DEF Pages, Batch
    <2>9. ASSUME NEW k \in (Low(n) + 1)..n PROVE Told(b, k)'
      <3>1. k \in Nat /\ k > Low(n) /\ k <= n
        BY <1>1
      <3>2. CASE k > p
        <4>1. <<b, k>> \in ToSet(f)
          BY <2>5, <3>1, <3>2
        <4> QED BY <2>8, <4>1 DEF Told
      <3>3. CASE k <= p
        <4>1. p = t /\ t # 0
          <5>1. m <= t
            <6>1. CASE m = Low(n)
              <7>1. p # m
                BY <1>1, <3>1, <3>3, <6>1
              <7> QED BY <1>5, <7>1 DEF From
            <6>2. CASE m <= page.lastSeq
              BY <1>4, <6>2
            <6> QED BY <6>1, <6>2
          <5>2. p = t
            BY <1>5, <1>9, <5>1 DEF From
          <5> QED BY <1>1, <3>1, <3>3, <5>2
        <4>2. s # <<>> /\ FeedEnds
          BY <1>2, <1>4, <4>1 DEF FeedInv
        <4> DEFINE l == s[Len(s)]
        <4>3. l[2] = t /\ l \in ToSet(s)
          <5>1. Len(s) \in 1..Len(s)
            BY <2>3, <4>2
          <5> QED BY <2>3, <4>2, <5>1 DEF ToSet
        <4>4. CASE l[1] # b
          <5>1. l \in ToSet(f)
            BY <1>1, <2>5, <3>1, <3>3, <4>1, <4>3
          <5> QED BY <2>8, <3>3, <4>1, <4>3, <4>4, <5>1 DEF Told
        <4>5. CASE l[1] = b
          <5>1. k \in (Low(t) + 1)..t
            <6>1. Low(t) <= Low(n) /\ Low(t) \in Nat
              BY <2>1, Sizes
            <6> QED BY <1>1, <3>1, <3>3, <4>1, <6>1
          <5>2. Told(b, k)
            BY <4>2, <4>3, <4>5, <5>1 DEF FeedEnds
          <5>3. CASE <<b, k>> \in ToSet(s)
            <6>1. <<b, k>>[2] > Low(n)
              BY <3>1
            <6>2. <<b, k>> \in ToSet(f)
              BY <2>5, <5>3, <6>1
            <6> QED BY <2>8, <6>2 DEF Told
          <5>4. CASE \E e \in ToSet(s) : e[1] # b /\ e[2] >= k
            <6>1. PICK e \in ToSet(s) : e[1] # b /\ e[2] >= k
              BY <5>4
            <6>2. e[2] \in Nat
              BY <2>3, Numbers DEF ToSet
            <6>3. e \in ToSet(f)
              BY <1>1, <2>5, <3>1, <6>1, <6>2
            <6> QED BY <2>8, <6>1, <6>3 DEF Told
          <5> QED BY <5>2, <5>3, <5>4 DEF Told
        <4> QED BY <4>4, <4>5
      <3> QED BY <1>5, <3>1, <3>2, <3>3
    <2>10. FeedEnds'
      <3>1. page'.feed = f /\ page'.lastSeq = n
        BY <2>8
      <3>2. Bounded(b, n)'
        BY <1>3
      <3>3. f[Len(f)] = <<b, n>> /\ <<b, n>>[1] = b /\ <<b, n>>[2] = n
        BY <2>5
      <3> QED BY <2>9, <3>1, <3>2, <3>3 DEF FeedEnds
    <2>11. FeedInv'
      BY <2>5, <2>6, <2>8, <2>10 DEF FeedInv
    <2> QED BY <1>4, <2>1, <2>8, <2>11
  <1> QED BY <1>8, <1>9

\* The wire after its first message was received.
LEMMA ReceivedCovers ==
  ASSUME PageTyped, wire # <<>>, wire' = Tail(wire), page' \in Pages,
         page.lastSeq <= page'.lastSeq,
         wire[1].event = "activity" => Top(wire[1].events) <= page'.lastSeq
  PROVE  /\ wire' \in Seq(Messages) /\ Len(wire) \in Nat \ {0} /\ Len(wire') = Len(wire) - 1
         /\ \A i \in 1..(Len(wire) - 1) : wire'[i] = wire[i + 1]
         /\ \A k \in Nat : \A j \in 1..Len(wire) : Covered(k, j) => Covered(k, j - 1)'
  <1>1. wire \in Seq(Messages) /\ page.lastSeq \in Nat /\ page'.lastSeq \in Nat
    BY DEF PageTyped, Pages
  <1>2. /\ wire' \in Seq(Messages) /\ Len(wire) \in Nat \ {0} /\ Len(wire') = Len(wire) - 1
        /\ \A i \in 1..(Len(wire) - 1) : wire'[i] = wire[i + 1]
    BY <1>1
  <1>3. ASSUME NEW k \in Nat, NEW j \in 1..Len(wire), Covered(k, j) PROVE Covered(k, j - 1)'
    <2>1. CASE k <= page.lastSeq
      BY <1>1, <2>1 DEF Covered
    <2>2. CASE ~ (k <= page.lastSeq)
      <3>1. PICK x \in 1..j : wire[x].event = "activity" /\ Top(wire[x].events) >= k
        BY <1>3, <2>2 DEF Covered
      <3>2. wire[x] \in Messages
        BY <1>1, <3>1
      <3>3. wire[x].events \in Batch
        BY <3>1, <3>2, MessagesCarry
      <3>4. Top(wire[x].events) \in Nat
        BY <3>3, MarkIsNat DEF Top
      <3>5. CASE x = 1
        BY <1>1, <3>1, <3>4, <3>5 DEF Covered
      <3>6. CASE x # 1
        <4>1. PICK y \in 1..(j - 1) : y + 1 = x /\ y \in 1..(Len(wire) - 1)
          <5>1. x - 1 \in 1..(j - 1) /\ (x - 1) + 1 = x /\ x - 1 \in 1..(Len(wire) - 1)
            BY <1>2, <3>6
          <5> QED BY <5>1
        <4>2. wire'[y] = wire[x]
          BY <1>2, <4>1
        <4>3. wire'[y].event = "activity" /\ Top(wire'[y].events) >= k
          BY <3>1, <4>2
        <4> QED BY <4>1, <4>3 DEF Covered
      <3> QED BY <3>5, <3>6
    <2> QED BY <2>1, <2>2
  <1> QED BY <1>2, <1>3

\* The stream after a message was received, whatever it was.
LEMMA StreamReceives ==
  ASSUME IInv, Receive, page' \in Pages, FeedInv',
         page.lastSeq <= page'.lastSeq,
         wire[1].event = "activity" => Top(wire[1].events) <= page'.lastSeq,
         page'.state # "open" => wire[1].event \in {"done", "error", "close"}
  PROVE  IInv'
  <1>1. /\ CrawlInv' /\ row' = row
        /\ \A c, k : Bounded(c, k) => Bounded(c, k)'
        /\ \A s : Owned(s) => Owned(s)'
    BY PageMoves DEF IInv, PageSide
  <1>2. PageTyped /\ ReadsInv /\ PhaseInv /\ WireInv /\ conn \in Conns
    BY DEF IInv, StreamInv, PageTyped
  <1>3. /\ page.state = "open" /\ wire # <<>> /\ wire' = Tail(wire)
        /\ conn' = IF page'.state = "open" THEN conn ELSE NoConn
    BY DEF Receive
  <1>4. /\ wire' \in Seq(Messages) /\ Len(wire) \in Nat \ {0} /\ Len(wire') = Len(wire) - 1
        /\ \A i \in 1..(Len(wire) - 1) : wire'[i] = wire[i + 1]
        /\ \A k \in Nat : \A j \in 1..Len(wire) : Covered(k, j) => Covered(k, j - 1)'
    BY <1>2, <1>3, ReceivedCovers
  <1>5. PICK l \in Nat : Len(wire) = l + 1 /\ Len(wire') = l
    <2>1. Len(wire) - 1 \in Nat /\ Len(wire) = (Len(wire) - 1) + 1
      BY <1>4
    <2> QED BY <1>4, <2>1
  <1>6. NoConn = [phase |-> "closed", mark |-> 0, reads |-> {}, final |-> "none"]
    BY DEF NoConn
  <1>7. \A k \in Nat : Covered(k, l + 1) => Covered(k, l)'
    <2>1. l + 1 \in 1..Len(wire) /\ (l + 1) - 1 = l
      BY <1>5
    <2> QED BY <1>4, <2>1
  <1>8. Top(row.activity) \in Nat /\ row'.activity = row.activity
    <2>1. row.activity \in Batch
      BY DEF IInv, CrawlInv, CrawlTyped, Rows
    <2> QED BY <1>1, <2>1, MarkIsNat DEF Top
  <1>9. PageTyped'
    <2>1. NoConn \in Conns
      BY <1>6 DEF Conns, Statuses
    <2> QED BY <1>2, <1>3, <1>4, <2>1 DEF PageTyped
  <1>10. ReadsInv'
    <2>1. CASE page'.state = "open"
      BY <1>1, <1>2, <1>3, <2>1 DEF ReadsInv, Ended
    <2>2. CASE page'.state # "open"
      BY <1>3, <1>6, <2>2 DEF ReadsInv
    <2> QED BY <2>1, <2>2
  <1>11. WireInv'
    <2> SUFFICES ASSUME NEW i \in 1..l PROVE MessageOK(i)'
      BY <1>5 DEF WireInv
    <2>1. PICK x \in 1..Len(wire) : x = i + 1 /\ x - 1 = i /\ x - 1 \in 1..Len(wire) /\ x # 1
      <3>1. i + 1 \in 1..Len(wire) /\ (i + 1) - 1 = i /\ i \in 1..Len(wire) /\ i + 1 # 1
        BY <1>5
      <3> QED BY <3>1
    <2>2. MessageOK(x) /\ wire'[i] = wire[x]
      BY <1>2, <1>4, <1>5, <2>1 DEF WireInv
    <2>3. \A k \in Nat : Covered(k, x - 1) => Covered(k, i - 1)'
      BY <1>4, <2>1
    <2>4. ASSUME wire[x].event = "activity" PROVE BatchOK(i)'
      <3>1. PICK b \in 1..Attempts, m, n \in Nat :
              /\ wire[x].events = Events(b, m, n) /\ Low(n) <= m /\ m < n /\ Bounded(b, n)
              /\ m = Low(n) \/ Covered(m, x - 1)
        BY <2>2, <2>4 DEF MessageOK, BatchOK
      <3>2. Bounded(b, n)' /\ (m = Low(n) \/ Covered(m, i - 1)')
        BY <1>1, <2>3, <3>1
      <3> QED BY <2>2, <3>1, <3>2 DEF BatchOK
    <2>5. ASSUME wire'[i].event = "done"
          PROVE  Ended(wire[i].status)' /\ Covered(Top(row.activity), i - 1)'
      <3>1. Ended(wire[x].status) /\ Covered(Top(row.activity), x - 1)
        BY <2>2, <2>5 DEF MessageOK
      <3>2. PICK k \in Nat : k = Top(row.activity) /\ k = Top(row'.activity)
        BY <1>8
      <3>3. Covered(k, i - 1)'
        BY <2>3, <3>1, <3>2
      <3>4. Covered(Top(row.activity), i - 1)'
        BY <3>2, <3>3 DEF Covered, Top
      <3>5. Ended(wire[i].status)'
        BY <1>1, <2>2, <3>1 DEF Ended
      <3> QED BY <3>4, <3>5
    <2>6. ASSUME wire[x].event \in {"done", "error", "close"}
          PROVE  i = Len(wire') /\ conn' = NoConn
      <3>1. x = Len(wire) /\ conn = NoConn
        BY <2>2, <2>6 DEF MessageOK
      <3> QED BY <1>3, <1>5, <2>1, <3>1
    <2> QED BY <2>2, <2>4, <2>5, <2>6 DEF MessageOK, NoConn
  <1>12. PhaseInv'
    <2>1. ASSUME page'.state # "open" PROVE conn' = NoConn /\ wire' = <<>>
      <3>1. MessageOK(1) /\ 1 \in 1..Len(wire)
        BY <1>2, <1>4 DEF WireInv
      <3>2. Len(wire) = 1
        BY <2>1, <3>1 DEF MessageOK
      <3>3. wire' = <<>>
        BY <1>4, <3>2
      <3> QED BY <1>3, <2>1, <3>3
    <2>2. ASSUME conn'.phase = "build"
          PROVE  conn'.reads = {} /\ Ended(conn.final)' /\ Covered(Top(row.activity), Len(wire))'
      <3>1. conn' = conn
        BY <1>3, <1>6, <2>2
      <3>2. conn.reads = {} /\ Ended(conn.final) /\ Covered(Top(row.activity), Len(wire))
        BY <1>2, <2>2, <3>1 DEF PhaseInv
      <3>3. PICK k \in Nat : k = Top(row.activity) /\ k = Top(row'.activity)
        BY <1>8
      <3>4. Covered(k, l)'
        BY <1>5, <1>7, <3>2, <3>3
      <3>5. Covered(Top(row.activity), Len(wire))'
        BY <1>5, <3>3, <3>4 DEF Covered, Top
      <3>6. Ended(conn.final)'
        BY <1>1, <3>1, <3>2 DEF Ended
      <3> QED BY <3>1, <3>2, <3>5, <3>6
    <2>3. Covered(conn.mark, Len(wire))'
      <3>1. CASE page'.state = "open"
        <4>1. conn' = conn /\ Covered(conn.mark, Len(wire)) /\ conn.mark \in Nat
          BY <1>2, <1>3, <3>1 DEF PhaseInv, Conns
        <4>2. PICK k \in Nat : k = conn.mark /\ k = conn'.mark
          BY <4>1
        <4>3. Covered(k, l)'
          BY <1>5, <1>7, <4>1, <4>2
        <4> QED BY <1>5, <4>2, <4>3 DEF Covered
      <3>2. CASE page'.state # "open"
        <4>1. conn'.mark = 0 /\ page'.lastSeq \in Nat
          BY <1>3, <1>6, <3>2 DEF Pages
        <4> QED BY <4>1 DEF Covered
      <3> QED BY <3>1, <3>2
    <2>4. conn'.phase = "closed" => conn' = NoConn
      BY <1>2, <1>3 DEF PhaseInv
    <2> QED BY <2>1, <2>2, <2>3, <2>4 DEF PhaseInv, NoConn
  <1> QED BY <1>1, <1>9, <1>10, <1>11, <1>12 DEF IInv, StreamInv

\* A message that is received.
LEMMA ReceiveKeeps ==
  ASSUME IInv, Receive
  PROVE  IInv'
  <1>1. /\ PageTyped /\ WireInv /\ FeedInv /\ page \in Pages /\ wire \in Seq(Messages)
        /\ page.lastSeq \in Nat
    BY DEF IInv, StreamInv, PageTyped, Pages
  <1>2. page.state = "open" /\ wire # <<>> /\ page' = After(wire[1])
    BY <1>1 DEF Receive
  <1>3. 1 \in 1..Len(wire) /\ wire[1] \in Messages /\ MessageOK(1)
    BY <1>1, <1>2 DEF WireInv
  <1>4. PICK m \in Messages : m = wire[1]
    BY <1>3
  <1>5. /\ m.event \in {"progress", "done", "activity", "error", "close"}
        /\ m.event \in {"progress", "done"} => m.status \in Statuses
    BY MessagesCarry
  <1>6. UNCHANGED <<row, writer>>
    BY DEF Receive
  <1>7. CASE m.event = "activity"
    <2>1. PICK b \in 1..Attempts, p, n \in Nat :
            /\ m.events = Events(b, p, n) /\ Low(n) <= p /\ p < n /\ Bounded(b, n)
            /\ p = Low(n) \/ Covered(p, 0)
      <3>1. wire[1].event = "activity"
        BY <1>4, <1>7
      <3>2. BatchOK(1)
        BY <1>3, <3>1 DEF MessageOK
      <3>3. PICK e : e = wire[1].events
        OBVIOUS
      <3>4. \E b \in 1..Attempts, p, n \in Nat :
              /\ e = Events(b, p, n) /\ Low(n) <= p /\ p < n /\ Bounded(b, n)
              /\ p = Low(n) \/ Covered(p, 1 - 1)
        BY <3>2, <3>3 DEF BatchOK
      <3>5. m.events = e /\ 1 - 1 = 0
        BY <1>4, <3>3
      <3> QED BY <3>4, <3>5
    <2>2. p = Low(n) \/ p <= page.lastSeq
      BY <2>1 DEF Covered
    <2>3. PICK q : q = Fold(Events(b, p, n))
      OBVIOUS
    <2>4. page' = q
      BY <1>2, <1>4, <1>7, <2>1, <2>3 DEF After
    <2>5. /\ q \in Pages /\ q.state = "open" /\ page.lastSeq <= q.lastSeq /\ n <= q.lastSeq
          /\ FeedInv'
      BY <1>2, <1>6, <2>1, <2>2, <2>3, <2>4, FoldGrows
    <2>6. Top(m.events) = n
      <3>1. b \in Nat
        BY Sizes
      <3> QED BY <2>1, <3>1, MarkOfEvents DEF Top
    <2> QED BY <1>4, <2>4, <2>5, <2>6, StreamReceives
  <1>8. CASE m.event = "progress"
    <2>1. page' = [page EXCEPT !.view = m.status]
      BY <1>2, <1>4, <1>8 DEF After
    <2>2. /\ page' \in Pages /\ page'.state = "open" /\ page'.feed = page.feed
          /\ page'.lastSeq = page.lastSeq
      BY <1>1, <1>2, <1>5, <1>8, <2>1 DEF Pages
    <2>3. FeedInv'
      BY <2>2, FeedStays DEF PageSide
    <2> QED BY <1>1, <1>4, <1>8, <2>2, <2>3, StreamReceives
  <1>9. CASE m.event \in {"error", "close"}
    <2>1. page' = [page EXCEPT !.state = IF m.event = "error" THEN "error" ELSE "waiting"]
      BY <1>2, <1>4, <1>9 DEF After
    <2>2. /\ page' \in Pages /\ page'.state # "done" /\ page'.feed = page.feed
          /\ page'.lastSeq = page.lastSeq
      BY <1>1, <2>1 DEF Pages
    <2>3. FeedInv'
      BY <2>2, FeedStays DEF PageSide
    <2> QED BY <1>1, <1>4, <1>9, <2>2, <2>3, StreamReceives
  <1>10. CASE m.event = "done"
    <2>1. page' = [page EXCEPT !.view = m.status, !.state = "done"]
      BY <1>2, <1>4, <1>10 DEF After
    <2>2. /\ page' \in Pages /\ page'.state = "done" /\ page'.feed = page.feed
          /\ page'.lastSeq = page.lastSeq
      BY <1>1, <1>5, <1>10, <2>1 DEF Pages
    <2>3. Ended(m.status) /\ Covered(Top(row.activity), 0)
      BY <1>3, <1>4, <1>10 DEF MessageOK
    <2>4. row.status \notin Running /\ Top(row.activity) <= page.lastSeq
      BY <2>3 DEF Ended, Over, Running, Covered
    <2>5. FeedInv'
      <3>1. page.feed # <<>> => FeedEnds'
        <4>1. \A c, k : Bounded(c, k) => Bounded(c, k)'
          BY <1>6 DEF Bounded
        <4> QED BY <1>1, <2>2, <4>1 DEF FeedInv, FeedEnds, Told
      <3> QED BY <1>1, <1>6, <2>2, <2>4, <3>1 DEF FeedInv
    <2> QED BY <1>1, <1>4, <1>10, <2>2, <2>5, StreamReceives
  <1> QED BY <1>5, <1>7, <1>8, <1>9, <1>10

-----------------------------------------------------------------------------
(* The invariant, and what the feed shows. *)

LEMMA InitInv ==
  ASSUME Init
  PROVE  IInv
  <1>1. 1 \in 1..Attempts /\ 1 \in Nat /\ 0 \in Nat /\ <<>> = Ring(1, 0)
    BY Sizes, NoRing
  <1>2. \A b \in 1..Attempts : b \in Nat /\ <<>> = Ring(b, 0) /\ Top(<<>>) = 0
    BY Sizes, NoRing
  <1>3. NoWriter \in Writers
    BY NoRing, <1>1 DEF NoWriter, Writers
  <1>4. CrawlTyped
    BY <1>1, <1>3, NoRing DEF Init, CrawlTyped, Rows, Statuses
  <1>5. WritersInv
    BY <1>2 DEF Init, WritersInv, OwnRings, NoWriter, Alive
  <1>6. RowInv
    BY <1>1 DEF Init, RowInv, Owned
  <1>7. PageTyped
    <2>1. NoConn \in Conns
      BY DEF NoConn, Conns, Statuses
    <2>2. page \in Pages
      BY <1>1, NoRing DEF Init, Pages, Statuses
    <2> QED BY <2>1, <2>2 DEF Init, PageTyped
  <1>8. ReadsInv /\ PhaseInv /\ WireInv
    BY DEF Init, ReadsInv, PhaseInv, WireInv, NoConn, Covered
  <1>9. FeedInv
    <2>1. page.feed = <<>> /\ page.lastSeq = 0 /\ page.state = "waiting"
      BY DEF Init
    <2>2. Spread(<<>>) /\ Len(<<>>) = 0 /\ 0 <= FeedSize
      BY Sizes DEF Spread
    <2> QED BY <2>1, <2>2 DEF FeedInv
  <1> QED BY <1>4, <1>5, <1>6, <1>7, <1>8, <1>9 DEF IInv, CrawlInv, StreamInv

LEMMA NextInv ==
  ASSUME IInv, [Next]_vars
  PROVE  IInv'
  <1>1. CASE RowSide
    BY <1>1, RowKeepsStream
  <1>2. CASE Reply
    <2>1. PICK r \in conn.reads : Polled(r) \/ PolledNothing(r)
      BY <1>2 DEF Reply
    <2> QED BY <2>1, PolledKeeps, NothingKeeps
  <1>3. CASE Connect
    BY <1>3, ConnectKeeps
  <1>4. CASE Tick
    BY <1>4, TickKeeps
  <1>5. CASE Break
    BY <1>5, BreakKeeps
  <1>6. CASE Finish \/ SelfClose
    BY <1>6, EndsKeep
  <1>7. CASE Receive
    BY <1>7, ReceiveKeeps
  <1>8. CASE UNCHANGED vars
    <2>1. UNCHANGED <<row, writer, conn, wire, page, faults>>
      BY <1>8 DEF vars
    <2>2. CrawlInv'
      BY <2>1 DEF IInv, CrawlInv, CrawlTyped, WritersInv, RowInv, Owned, Bounded
    <2>3. PageTyped' /\ ReadsInv' /\ PhaseInv'
      BY <2>1 DEF IInv, StreamInv, PageTyped, ReadsInv, PhaseInv, NoConn, Owned, Bounded, Covered,
                  Ended
    <2>4. WireInv'
      BY <2>1 DEF IInv, StreamInv, WireInv, MessageOK, BatchOK, Bounded, Covered, Ended, NoConn
    <2>5. FeedInv'
      BY <2>1 DEF IInv, StreamInv, FeedInv, FeedEnds, Told, Bounded
    <2> QED BY <2>2, <2>3, <2>4, <2>5 DEF IInv, StreamInv
  <1> QED BY <1>1, <1>2, <1>3, <1>4, <1>5, <1>6, <1>7, <1>8 DEF Next, RowSide

\* What the invariant says of the feed.
LEMMA InvFeed ==
  ASSUME IInv
  PROVE  FeedWhole
  <1>1. /\ FeedInv /\ page.feed \in Batch /\ page.lastSeq \in Nat /\ row.activity \in Batch
    BY DEF IInv, CrawlInv, CrawlTyped, StreamInv, PageTyped, Pages, Rows
  <1>2. ASSUME NEW i \in 1..Len(page.feed), NEW j \in 1..Len(page.feed), i < j
        PROVE  page.feed[i][2] < page.feed[j][2]
    <2>1. page.feed[i][2] + (j - i) <= page.feed[j][2]
      BY <1>1, <1>2 DEF FeedInv, Spread
    <2>2. PICK u, v \in Nat : u = page.feed[i][2] /\ v = page.feed[j][2]
      BY <1>1, Numbers DEF Batch
    <2>3. u + (j - i) <= v
      BY <2>1, <2>2
    <2>4. u < v
      BY <1>2, <2>3
    <2> QED BY <2>2, <2>4
  <1>3. ASSUME page.state = "done", NEW e \in ToSet(row.activity)
        PROVE  e \in Feed \/ \E f \in Feed : f[1] # e[1] /\ f[2] >= e[2]
    <2>1. PICK b \in 1..Attempts, n \in Nat : row.activity = Ring(b, n)
      BY DEF IInv, CrawlInv, RowInv, Owned
    <2>2. b \in Nat /\ Low(n) \in Nat
      BY Sizes
    <2>3. e = <<b, e[2]>> /\ e[2] \in (Low(n) + 1)..n
      BY <1>3, <2>1, <2>2, RingReads
    <2>4. PICK k \in Nat : e = <<b, k>> /\ Low(n) < k /\ k <= n /\ e[1] = b /\ e[2] = k
      <3>1. e[2] \in Nat /\ Low(n) < e[2] /\ e[2] <= n /\ e[1] = b
        BY <2>2, <2>3
      <3> QED BY <2>3, <3>1
    <2>5. Top(row.activity) = n
      <3>1. Top(Ring(b, n)) = n
        BY <2>2, RingTop
      <3> QED BY <2>1, <3>1
    <2>6. PICK t \in Nat : t = page.lastSeq /\ n <= t
      BY <1>1, <1>3, <2>5 DEF FeedInv
    <2>7. page.feed # <<>> /\ FeedEnds
      <3>1. t # 0 /\ n # 0
        BY <2>2, <2>4, <2>6
      <3> QED BY <1>1, <2>6, <3>1 DEF FeedInv
    <2> DEFINE l == page.feed[Len(page.feed)]
    <2>8. l[2] = t /\ l \in Feed
      <3>1. Len(page.feed) \in 1..Len(page.feed)
        BY <1>1, <2>7 DEF Batch
      <3>2. l \in Feed
        BY <3>1 DEF Feed, ToSet
      <3> QED BY <2>6, <2>7, <3>2 DEF FeedEnds
    <2>9. CASE l[1] # b
      BY <2>4, <2>6, <2>8, <2>9
    <2>10. CASE l[1] = b
      <3>1. t <= n
        <4>1. n \in Nat \ {0}
          BY <2>2, <2>4
        <4>2. Bounded(b, t)
          BY <2>7, <2>8, <2>10 DEF FeedEnds
        <4> QED BY <2>1, <4>1, <4>2 DEF Bounded
      <3>2. t = n /\ k \in (Low(t) + 1)..t
        BY <2>2, <2>4, <2>6, <3>1
      <3>3. Told(b, k)
        BY <2>7, <2>8, <2>10, <3>2 DEF FeedEnds
      <3> QED BY <2>4, <3>3 DEF Told, Feed
    <2> QED BY <2>9, <2>10
  <1> QED BY <1>2, <1>3 DEF FeedWhole

\* The feed never shows an event twice or goes back, and when 'done' has come it lacks
\* nothing the row keeps but what a number already shown hides, for any number of attempts,
\* events, polls, broken connections and late writes, and any sizes of which the page's is
\* not the smaller.
THEOREM FeedIsWhole ==
  Spec => []FeedWhole
  <1>1. Init => IInv
    BY InitInv
  <1>2. IInv /\ [Next]_vars => IInv'
    BY NextInv
  <1>3. IInv => FeedWhole
    BY InvFeed
  <1> QED BY <1>1, <1>2, <1>3, PTL DEF Spec

-----------------------------------------------------------------------------
(* What the page shows of the status: it and what is under way never go back. *)

Before(s, t) == s = t \/ Rank(s) < Rank(t)
Reaches(s)   == Before(s, row.status) \/ row.status = "deleted"
Bears(i)     == wire[i].event \in {"progress", "done"}

\* A status that comes after all the page has been told and will be.
Later(s) ==
  /\ Before(page.view, s) /\ Reaches(s)
  /\ \A i \in 1..Len(wire) : Bears(i) => Before(wire[i].status, s)

ViewInv ==
  /\ Reaches(page.view)
  /\ \A i \in 1..Len(wire) : Bears(i) => Before(page.view, wire[i].status) /\ Reaches(wire[i].status)
  /\ \A i, j \in 1..Len(wire) : Bears(i) /\ Bears(j) /\ i < j => Before(wire[i].status, wire[j].status)
  /\ \A r \in conn.reads : r # NoRow => Later(r.status)
  /\ conn.phase = "build" => Later(conn.final)

LEMMA RanksGoUp ==
  /\ \A s : Rank(s) \in 0..3 /\ Before(s, s)
  /\ \A s, t, u : Before(s, t) /\ Before(t, u) => Before(s, u)
  /\ \A s \in Statuses : \A t : s # "none" /\ Onward(s, t) => Before(s, t) \/ t = "deleted"
  <1>1. \A s : Rank(s) \in 0..3
    BY DEF Rank
  <1>2. \A s, t, u : Before(s, t) /\ Before(t, u) => Before(s, u)
    BY <1>1 DEF Before
  <1>3. ASSUME NEW s \in Statuses, NEW t, s # "none", Onward(s, t) PROVE Before(s, t) \/ t = "deleted"
    BY <1>3 DEF Onward, Running, Before, Rank, Statuses
  <1> QED BY <1>1, <1>2, <1>3 DEF Before

LEMMA ViewRow ==
  ASSUME IInv, ViewInv, RowSide
  PROVE  ViewInv' /\ page' = page
  <1>1. UNCHANGED <<conn, wire, page>> /\ Onward(row.status, row'.status)
    BY RowMoves DEF IInv
  <1>2. row.status \in Statuses /\ row.status # "none"
    BY DEF IInv, CrawlInv, CrawlTyped, RowInv, Rows
  <1>3. Before(row.status, row'.status) \/ row'.status = "deleted"
    BY <1>1, <1>2, RanksGoUp
  <1>4. ASSUME NEW s, Reaches(s) PROVE Reaches(s)'
    <2>1. CASE row.status = "deleted"
      BY <1>1, <2>1 DEF Onward, Reaches, Running
    <2>2. CASE Before(s, row.status)
      BY <1>3, <2>2, RanksGoUp DEF Reaches
    <2> QED BY <1>4, <2>1, <2>2 DEF Reaches
  <1>5. ASSUME NEW s, Later(s) PROVE Later(s)'
    BY <1>1, <1>4, <1>5 DEF Later, Bears
  <1>6. ViewInv'
    <2>1. Reaches(page.view)'
      <3>1. PICK v : v = page.view
        OBVIOUS
      <3>2. Reaches(v)'
        BY <1>4, <3>1 DEF ViewInv
      <3> QED BY <1>1, <3>1, <3>2
    <2>2. ASSUME NEW i \in 1..Len(wire), Bears(i)
          PROVE  Before(page.view, wire[i].status) /\ Reaches(wire[i].status)'
      <3>1. PICK v : v = wire[i].status
        OBVIOUS
      <3>2. Before(page.view, v) /\ Reaches(v)'
        BY <1>4, <2>2, <3>1 DEF ViewInv
      <3> QED BY <1>1, <3>1, <3>2
    <2>3. ASSUME NEW r \in conn.reads, r # NoRow PROVE Later(r.status)'
      BY <1>5, <2>3 DEF ViewInv
    <2>4. ASSUME conn.phase = "build" PROVE Later(conn.final)'
      <3>1. PICK v : v = conn.final
        OBVIOUS
      <3>2. Later(v)'
        BY <1>5, <2>4, <3>1 DEF ViewInv
      <3> QED BY <1>1, <3>1, <3>2
    <2> QED BY <1>1, <2>1, <2>2, <2>3, <2>4 DEF ViewInv, Bears, NoRow
  <1> QED BY <1>1, <1>6

\* More messages that bear one later status, or none.
LEMMA ViewSent ==
  ASSUME IInv, ViewInv, NEW ms \in Seq(Messages), wire' = wire \o ms, UNCHANGED <<row, page>>,
         NEW s,
         \A i \in 1..Len(ms) : ms[i].event \in {"progress", "done"} => ms[i].status = s /\ Later(s),
         \A i, j \in 1..Len(ms) : i < j => ms[j].event \notin {"progress", "done"},
         conn'.reads = {}, conn'.phase = "build" => conn'.final = s /\ Later(s)
  PROVE  ViewInv'
  <1>1. PageTyped
    BY DEF IInv, StreamInv
  <1>2. PICK l \in Nat : l = Len(wire)
    BY <1>1 DEF PageTyped
  <1>3. PICK c \in Nat : c = Len(ms)
    OBVIOUS
  <1>4. /\ Len(wire') = l + c
        /\ \A i \in 1..l : wire'[i] = wire[i]
        /\ \A i \in 1..c : wire'[l + i] = ms[i]
    BY <1>1, <1>2, <1>3, Extended
  <1>5. ASSUME NEW i \in 1..(l + c)
        PROVE  \/ i \in 1..l /\ wire'[i] = wire[i] /\ (Bears(i)' <=> Bears(i))
               \/ /\ i > l
                  /\ Bears(i)' => wire'[i].status = s /\ Later(s)
                  /\ \A j \in 1..(l + c) : Bears(j)' /\ i < j => FALSE
    <2>1. CASE i \in 1..l
      BY <1>4, <2>1 DEF Bears
    <2>2. CASE i \notin 1..l
      <3>1. PICK x \in 1..c : i = l + x
        <4>1. i - l \in 1..c /\ i = l + (i - l)
          BY <2>2
        <4> QED BY <4>1
      <3>2. wire'[i] = ms[x]
        BY <1>4, <3>1
      <3>3. ASSUME NEW j \in 1..(l + c), Bears(j)', i < j PROVE FALSE
        <4>1. PICK y \in 1..c : j = l + y
          <5>1. j - l \in 1..c /\ j = l + (j - l)
            BY <2>2, <3>3
          <5> QED BY <5>1
        <4>2. wire'[j] = ms[y] /\ x < y
          BY <1>4, <3>1, <3>3, <4>1
        <4> QED BY <1>3, <3>3, <4>2 DEF Bears
      <3>4. Bears(i)' => wire'[i].status = s /\ Later(s)
        BY <1>3, <3>2 DEF Bears
      <3>5. i > l
        BY <2>2
      <3> QED BY <3>3, <3>4, <3>5
    <2> QED BY <2>1, <2>2
  <1>6. \A v : Reaches(v)' <=> Reaches(v)
    BY DEF Reaches
  <1>7. Reaches(page.view)'
    BY DEF ViewInv, Reaches
  <1>8. ASSUME NEW i \in 1..(l + c), Bears(i)'
        PROVE  /\ Before(page.view, wire'[i].status) /\ Reaches(wire'[i].status)
               /\ Later(s) => Before(wire'[i].status, s)
    <2>1. CASE i \in 1..l /\ wire'[i] = wire[i] /\ (Bears(i)' <=> Bears(i))
      BY <1>2, <1>8, <2>1 DEF ViewInv, Later
    <2>2. CASE wire'[i].status = s /\ Later(s)
      BY <2>2, RanksGoUp DEF Later
    <2> QED BY <1>5, <1>8, <2>1, <2>2
  <1>9. ASSUME NEW i \in 1..(l + c), NEW j \in 1..(l + c), Bears(i)', Bears(j)', i < j
        PROVE  Before(wire'[i].status, wire'[j].status)
    <2>1. i \in 1..l /\ wire'[i] = wire[i] /\ Bears(i)
      BY <1>5, <1>9
    <2>2. CASE j \in 1..l /\ wire'[j] = wire[j] /\ Bears(j)
      BY <1>2, <1>9, <2>1, <2>2 DEF ViewInv
    <2>3. CASE wire'[j].status = s /\ Later(s)
      BY <1>2, <2>1, <2>3 DEF Later
    <2> QED BY <1>5, <1>9, <2>2, <2>3
  <1>10. ASSUME Later(s) PROVE Later(s)'
    <2>1. Before(page'.view, s) /\ Reaches(s)'
      BY <1>6, <1>10 DEF Later
    <2>2. \A i \in 1..Len(wire') : Bears(i)' => Before(wire'[i].status, s)
      BY <1>4, <1>8, <1>10
    <2> QED BY <2>1, <2>2 DEF Later
  <1>11. conn'.phase = "build" => Later(conn.final)'
    BY <1>10 DEF Later
  <1>12. \A i \in 1..Len(wire') : Bears(i)' => Before(page'.view, wire'[i].status) /\ Reaches(wire[i].status)'
    BY <1>4, <1>8 DEF Reaches
  <1> QED BY <1>4, <1>7, <1>9, <1>11, <1>12 DEF ViewInv

LEMMA ViewPolled ==
  ASSUME IInv, ViewInv, NEW r \in conn.reads, Polled(r)
  PROVE  ViewInv' /\ page' = page
  <1>1. row' = row /\ r # NoRow /\ Later(r.status)
    BY PageMoves DEF IInv, PageSide, Reply, Polled, ViewInv
  <1>2. conn \in Conns /\ r.status \in Statuses
    BY ReadIs DEF IInv, StreamInv, PageTyped, Rows
  <1> DEFINE m       == [event |-> "progress", status |-> r.status]
             a(b, p, n) == [event |-> "activity", events |-> Events(b, p, n)]
  <1>3. PICK b \in 1..Attempts, n \in Nat, p \in Nat :
          /\ r.activity = Ring(b, n) /\ (n # 0 => Bounded(b, n))
          /\ Low(n) <= p /\ p <= n /\ (p = Low(n) \/ p = conn.mark \/ p = n)
          /\ wire' = wire \o (IF p = n THEN <<m>> ELSE <<m>> \o <<a(b, p, n)>>)
          /\ conn' = [conn EXCEPT !.reads = {}, !.mark = IF p = n THEN @ ELSE n,
                                  !.phase = IF Over(r.status) THEN "build" ELSE "open",
                                  !.final = IF Over(r.status) THEN r.status ELSE @]
          /\ (p = n => n <= conn.mark)
          /\ UNCHANGED page
    BY PolledSends
  <1>4. PICK e : e = a(b, p, n)
    OBVIOUS
  <1>5. e \in Messages /\ e.event = "activity"
    <2>1. b \in Nat
      BY Sizes
    <2>2. Events(b, p, n) \in Batch
      BY <1>3, <2>1, EventsSeq DEF Batch
    <2> QED BY <1>4, <2>2 DEF Messages
  <1>6. m \in Messages /\ m.event = "progress" /\ m.status = r.status
    BY <1>2 DEF Messages
  <1>10. PICK s : s = r.status
    OBVIOUS
  <1>7. /\ conn'.reads = {} /\ (conn'.phase = "build" => conn'.final = s /\ Later(s))
        /\ m.status = s /\ Later(s)
    BY <1>1, <1>2, <1>3, <1>10 DEF Conns
  <1> HIDE DEF m
  <1>8. CASE p = n
    <2> DEFINE ms == <<m>>
    <2>1. ms \in Seq(Messages) /\ Len(ms) = 1 /\ ms[1] = m
      BY <1>6
    <2>2. wire' = wire \o ms /\ UNCHANGED page
      BY <1>3, <1>8
    <2> HIDE DEF ms
    <2>3. /\ \A i \in 1..Len(ms) : ms[i].event \in {"progress", "done"} => ms[i].status = s /\ Later(s)
          /\ \A i, j \in 1..Len(ms) : i < j => ms[j].event \notin {"progress", "done"}
      BY <1>6, <1>7, <2>1
    <2> QED BY <1>1, <1>7, <2>1, <2>2, <2>3, ViewSent
  <1>9. CASE p # n
    <2> DEFINE ms == <<m>> \o <<e>>
    <2>1. ms \in Seq(Messages) /\ Len(ms) = 2 /\ ms[1] = m /\ ms[2] = e
      <3>1. <<m>> \in Seq(Messages) /\ <<e>> \in Seq(Messages)
        BY <1>5, <1>6
      <3>2. ms \in Seq(Messages) /\ Len(ms) = 2
        BY <3>1
      <3>3. ms[1] = m /\ ms[2] = e
        BY <3>1
      <3> QED BY <3>2, <3>3
    <2>2. wire' = wire \o ms /\ UNCHANGED page
      BY <1>3, <1>4, <1>9
    <2> HIDE DEF ms
    <2>3. /\ \A i \in 1..Len(ms) : ms[i].event \in {"progress", "done"} => ms[i].status = s /\ Later(s)
          /\ \A i, j \in 1..Len(ms) : i < j => ms[j].event \notin {"progress", "done"}
      BY <1>5, <1>6, <1>7, <2>1
    <2> QED BY <1>1, <1>7, <2>1, <2>2, <2>3, ViewSent
  <1> QED BY <1>3, <1>8, <1>9

LEMMA ViewEnds ==
  ASSUME IInv, ViewInv, Finish \/ SelfClose
  PROVE  ViewInv' /\ page' = page
  <1>1. row' = row /\ conn' = NoConn /\ page' = page
    BY PageMoves DEF IInv, PageSide, Finish, SelfClose
  <1>2. conn'.reads = {} /\ conn'.phase = "closed"
    BY <1>1 DEF NoConn
  <1>3. PICK m \in Messages :
          /\ wire' = Append(wire, m)
          /\ m.event \in {"progress", "done"} => m.status = conn.final /\ Later(conn.final)
    <2> DEFINE d == [event |-> "done", status |-> conn.final]
               x == [event |-> "error"]
               c == [event |-> "close"]
    <2>1. d \in Messages /\ x \in Messages /\ c \in Messages
      BY DEF IInv, StreamInv, PageTyped, Conns, Messages
    <2>2. CASE Finish
      <3>1. Later(conn.final) /\ (wire' = Append(wire, d) \/ wire' = Append(wire, x))
        BY <2>2 DEF Finish, ViewInv
      <3> QED BY <2>1, <3>1
    <2>3. CASE SelfClose
      <3>1. wire' = Append(wire, c)
        BY <2>3 DEF SelfClose
      <3> QED BY <2>1, <3>1
    <2> QED BY <2>2, <2>3
  <1> DEFINE ms == <<m>>
  <1>4. ms \in Seq(Messages) /\ Len(ms) = 1 /\ ms[1] = m
    OBVIOUS
  <1>5. wire' = wire \o ms
    BY <1>3 DEF IInv, StreamInv, PageTyped
  <1> HIDE DEF ms
  <1>6. PICK s : s = conn.final
    OBVIOUS
  <1>7. /\ \A i \in 1..Len(ms) : ms[i].event \in {"progress", "done"} => ms[i].status = s /\ Later(s)
        /\ \A i, j \in 1..Len(ms) : i < j => ms[j].event \notin {"progress", "done"}
    BY <1>3, <1>4, <1>6
  <1>8. UNCHANGED <<row, page>>
    BY <1>1
  <1> QED BY <1>2, <1>4, <1>5, <1>7, <1>8, ViewSent

\* A read that begins finds a later status or no row.
LEMMA FoundLater ==
  ASSUME IInv, ViewInv, Found # NoRow
  PROVE  Later(Found.status)
  <1>1. Found = row /\ row.status # "deleted"
    BY DEF Found
  <1>2. \A s : Reaches(s) => Before(s, row.status)
    BY <1>1 DEF Reaches
  <1> QED BY <1>1, <1>2, RanksGoUp DEF Later, ViewInv, Reaches

\* A connection that begins, a tick, a read that comes to nothing, a connection that breaks.
LEMMA ViewQuiet ==
  ASSUME IInv, ViewInv, \/ Connect \/ Tick \/ Break
                        \/ \E r \in conn.reads : PolledNothing(r)
  PROVE  ViewInv' /\ page'.view = page.view
  <1>1. row' = row
    BY PageMoves DEF IInv, PageSide, Reply
  <1>2. conn \in Conns /\ page \in Pages /\ PhaseInv
    BY DEF IInv, StreamInv, PageTyped
  <1>3. page'.view = page.view
    BY <1>2 DEF Connect, Tick, Break, PolledNothing, Pages
  <1>4. wire' = wire \/ wire' = <<>>
    <2>1. CASE Connect \/ Tick \/ Break
      BY <2>1 DEF Connect, Tick, Break
    <2>2. CASE \E r \in conn.reads : PolledNothing(r)
      BY <2>2 DEF PolledNothing
    <2> QED BY <2>1, <2>2
  <1>5. \A r \in conn'.reads : r \in conn.reads \/ r = Found
    <2>1. CASE Connect
      <3>1. conn' = [phase |-> "first", mark |-> 0, reads |-> {Found}, final |-> "none"]
        BY <2>1 DEF Connect, NoConn
      <3> QED BY <3>1
    <2>2. CASE Break
      BY <2>2 DEF Break, NoConn
    <2>3. CASE Tick
      <3>1. conn'.reads = {Found}
        BY <1>2, <2>3 DEF Tick, Conns
      <3> QED BY <3>1
    <2>4. ASSUME NEW r \in conn.reads, PolledNothing(r)
          PROVE  \A x \in conn'.reads : x \in conn.reads \/ x = Found
      <3>1. conn'.reads = conn.reads \ {r}
        BY <1>2, <2>4 DEF PolledNothing, Conns
      <3> QED BY <3>1
    <2> QED BY <2>1, <2>2, <2>3, <2>4
  <1>6. conn'.phase # "build"
    <2>1. CASE Connect
      <3>1. conn' = [phase |-> "first", mark |-> 0, reads |-> {Found}, final |-> "none"]
        BY <2>1 DEF Connect, NoConn
      <3> QED BY <3>1
    <2>2. CASE Tick
      BY <1>2, <2>2 DEF Tick, Conns
    <2>3. CASE Break
      BY <2>3 DEF Break, NoConn
    <2>4. ASSUME NEW r \in conn.reads, PolledNothing(r) PROVE conn'.phase # "build"
      <3>1. conn.phase \in {"first", "open"}
        BY ReadIs
      <3> QED BY <1>2, <2>4, <3>1 DEF PolledNothing, Conns
    <2> QED BY <2>1, <2>2, <2>3, <2>4
  <1>7. ASSUME NEW s, Later(s) PROVE Later(s)'
    BY <1>1, <1>3, <1>4, <1>7 DEF Later, Reaches, Bears
  <1>8. ASSUME NEW r \in conn'.reads, r # NoRow PROVE Later(r.status)'
    <2>1. Later(r.status)
      BY <1>5, <1>8, FoundLater DEF ViewInv
    <2> QED BY <1>7, <2>1
  <1>9. /\ Reaches(page.view)'
        /\ \A i \in 1..Len(wire') : Bears(i)' =>
             Before(page'.view, wire'[i].status) /\ Reaches(wire[i].status)'
        /\ \A i, j \in 1..Len(wire') : Bears(i)' /\ Bears(j)' /\ i < j =>
             Before(wire'[i].status, wire'[j].status)
    BY <1>1, <1>3, <1>4 DEF ViewInv, Reaches, Bears
  <1> QED BY <1>3, <1>6, <1>8, <1>9 DEF ViewInv, NoRow

\* The page after a message.
LEMMA ViewReceived ==
  ASSUME IInv, ViewInv, Receive
  PROVE  ViewInv' /\ Before(page.view, page'.view)
  <1>1. row' = row
    BY PageMoves DEF IInv, PageSide
  <1>2. /\ PageTyped /\ page \in Pages /\ conn \in Conns /\ wire \in Seq(Messages)
        /\ wire # <<>> /\ wire' = Tail(wire)
        /\ page' = After(wire[1])
        /\ conn' = IF page'.state = "open" THEN conn ELSE NoConn
    BY DEF IInv, StreamInv, PageTyped, Receive
  <1>3. PICK l \in Nat : /\ Len(wire) = l + 1 /\ Len(wire') = l
                         /\ \A i \in 1..l : wire'[i] = wire[i + 1]
    <2>1. PICK l : l = Len(wire) - 1
      OBVIOUS
    <2>2. l \in Nat /\ Len(wire) = l + 1
      BY <1>2, <2>1
    <2>3. Len(wire') = l /\ \A i \in 1..l : wire'[i] = wire[i + 1]
      BY <1>2, <2>1, <2>2
    <2> QED BY <2>2, <2>3
  <1>4. 1 \in 1..Len(wire) /\ wire[1] \in Messages
    BY <1>2, <1>3
  <1>5. page'.view = IF Bears(1) THEN wire[1].status ELSE page.view
    <2>1. \A e : Fold(e).view = page.view
      BY <1>2 DEF Fold, Pages
    <2>2. wire[1].event \in {"progress", "done", "activity", "error", "close"}
      BY <1>4, MessagesCarry
    <2> QED BY <1>2, <2>1, <2>2 DEF After, Bears, Pages
  <1>6. PICK v : v = page'.view
    OBVIOUS
  <1>7. Before(page.view, v) /\ Reaches(v)
    BY <1>4, <1>5, <1>6, RanksGoUp DEF ViewInv
  <1>8. ASSUME NEW s, Later(s) PROVE Before(v, s)
    BY <1>4, <1>5, <1>6, <1>8 DEF Later
  <1>9. ASSUME NEW i \in 1..l
        PROVE  i + 1 \in 1..Len(wire) /\ wire'[i] = wire[i + 1] /\ (Bears(i)' <=> Bears(i + 1))
    BY <1>3 DEF Bears
  <1>10. ASSUME NEW i \in 1..l, Bears(i)'
         PROVE  Before(v, wire'[i].status) /\ Reaches(wire'[i].status)
    <2>1. PICK x \in 1..Len(wire) : x = i + 1 /\ 1 < x
      BY <1>9
    <2>2. Bears(x) /\ wire'[i] = wire[x]
      BY <1>9, <1>10, <2>1
    <2>3. Before(page.view, wire[x].status) /\ Reaches(wire[x].status)
      BY <2>1, <2>2 DEF ViewInv
    <2>4. Bears(1) => Before(wire[1].status, wire[x].status)
      BY <1>4, <2>1, <2>2 DEF ViewInv
    <2> QED BY <1>5, <1>6, <2>2, <2>3, <2>4
  <1>11. ASSUME NEW i \in 1..l, NEW j \in 1..l, Bears(i)', Bears(j)', i < j
         PROVE  Before(wire'[i].status, wire'[j].status)
    <2>1. PICK x, y \in 1..Len(wire) : x = i + 1 /\ y = j + 1 /\ x < y
      BY <1>9, <1>11
    <2>2. Bears(x) /\ Bears(y) /\ wire'[i] = wire[x] /\ wire'[j] = wire[y]
      BY <1>9, <1>11, <2>1
    <2> QED BY <2>1, <2>2 DEF ViewInv
  <1>12. ASSUME NEW s, Later(s) PROVE Later(s)'
    <2>1. ASSUME NEW i \in 1..l, Bears(i)' PROVE Before(wire'[i].status, s)
      BY <1>9, <1>12, <2>1 DEF Later
    <2>2. Reaches(s)'
      BY <1>1, <1>12 DEF Later, Reaches
    <2> QED BY <1>3, <1>6, <1>8, <1>12, <2>1, <2>2 DEF Later
  <1>13. \A r \in conn'.reads : r # NoRow => Later(r.status)'
    <2>1. conn'.reads \subseteq conn.reads
      BY <1>2 DEF NoConn
    <2> QED BY <1>12, <2>1 DEF ViewInv
  <1>14. conn'.phase = "build" => Later(conn.final)'
    <2> SUFFICES ASSUME conn'.phase = "build" PROVE Later(conn.final)'
      OBVIOUS
    <2>1. conn' = conn
      BY <1>2 DEF NoConn
    <2>2. PICK s : s = conn.final
      OBVIOUS
    <2>3. Later(s)'
      BY <1>12, <2>1, <2>2 DEF ViewInv
    <2> QED BY <2>1, <2>2, <2>3
  <1>15. Reaches(page.view)'
    BY <1>1, <1>6, <1>7 DEF Reaches
  <1>16. \A i \in 1..Len(wire') : Bears(i)' =>
           Before(page'.view, wire'[i].status) /\ Reaches(wire[i].status)'
    BY <1>1, <1>3, <1>6, <1>10 DEF Reaches
  <1>17. \A i, j \in 1..Len(wire') : Bears(i)' /\ Bears(j)' /\ i < j =>
           Before(wire'[i].status, wire'[j].status)
    BY <1>3, <1>11
  <1> QED BY <1>6, <1>7, <1>13, <1>14, <1>15, <1>16, <1>17 DEF ViewInv, NoRow

LEMMA ViewNext ==
  ASSUME IInv, ViewInv, [Next]_vars
  PROVE  ViewInv' /\ Before(page.view, page'.view)
  <1>1. CASE RowSide
    BY <1>1, ViewRow, RanksGoUp
  <1>2. CASE Reply
    <2>1. PICK r \in conn.reads : Polled(r) \/ PolledNothing(r)
      BY <1>2 DEF Reply
    <2> QED BY <2>1, ViewPolled, ViewQuiet, RanksGoUp
  <1>3. CASE Connect \/ Tick \/ Break
    BY <1>3, ViewQuiet, RanksGoUp
  <1>4. CASE Finish \/ SelfClose
    BY <1>4, ViewEnds, RanksGoUp
  <1>5. CASE Receive
    BY <1>5, ViewReceived
  <1>6. CASE UNCHANGED vars
    BY <1>6, RanksGoUp DEF vars, ViewInv, Later, Reaches, Bears, NoRow
  <1> QED BY <1>1, <1>2, <1>3, <1>4, <1>5, <1>6 DEF Next, RowSide

\* Whatever the polls read and in whatever order reads, messages, breaks and ends come, no
\* step takes back what the page shows of the audit's status, and the end it shows stays.
THEOREM ViewStays ==
  Spec => ViewNeverGoesBack
  <1>1. Init => IInv /\ ViewInv
    <2>1. ASSUME Init PROVE ViewInv
      <3>1. page.view = "none" /\ row.status = "pending" /\ wire = <<>> /\ conn = NoConn
        BY <2>1 DEF Init
      <3>2. Reaches(page.view)
        BY <3>1 DEF Reaches, Before, Rank
      <3> QED BY <3>1, <3>2 DEF ViewInv, NoConn
    <2> QED BY <2>1, InitInv
  <1>2. IInv /\ ViewInv /\ [Next]_vars => (IInv /\ ViewInv)'
    BY NextInv, ViewNext
  <1>3. IInv /\ ViewInv /\ [Next]_vars =>
          [/\ Rank(page.view) <= Rank(page'.view)
           /\ Rank(page.view) = 3 => page'.view = page.view]_vars
    <2> SUFFICES ASSUME IInv, ViewInv, [Next]_vars
                 PROVE  /\ Rank(page.view) <= Rank(page'.view)
                        /\ Rank(page.view) = 3 => page'.view = page.view
      OBVIOUS
    <2>1. Before(page.view, page'.view)
      BY ViewNext
    <2> QED BY <2>1, RanksGoUp DEF Before
  <1> QED BY <1>1, <1>2, <1>3, PTL DEF Spec, ViewNeverGoesBack

=============================================================================
