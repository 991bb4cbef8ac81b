---------------------------- MODULE ReaderProofs ----------------------------
(***************************************************************************)
(* Proofs about ThreadReader, for every deadline and any number of reads.  *)
(*                                                                         *)
(* The inductive invariant says where the unanswered reads are (Placed), in  *)
(* which order their ids stand (Order), what a thread may have posted      *)
(* (Posted), and that the oldest read has been with a living thread for as *)
(* long as its deadline has run (Clock).                                   *)
(***************************************************************************)
EXTENDS ThreadReader, SequenceTheorems, TLAPS

USE ReaderAssumption

Threads == [there : BOOLEAN, up : BOOLEAN, dead : BOOLEAN,
            inbox : Seq(Ids), out : Seq(Events), ref : BOOLEAN]

\* The queue holds the last ids there are.
Order ==
  /\ Len(queue) <= nextId
  /\ \A i \in 1..Len(queue) : queue[i] = nextId - Len(queue) + i - 1

Posted ==
  /\ ~thread.there => thread = NoThread
  /\ \A i \in DOMAIN thread.out : thread.out[i].kind = "died" => thread.dead
  /\ Alive => /\ ready => thread.up
              /\ ~thread.up => thread.out = <<>>
              /\ thread.up /\ ~ready => thread.out # <<>> /\ thread.out[1].kind = "ready"

Clock == timer # Off /\ ~thread.dead => onIt[Head(queue)] >= Deadline - timer

IInv == TypeOK /\ Order /\ NothingLost /\ Posted /\ Clock

-----------------------------------------------------------------------------
(* Sequences. *)

LEMMA LenFacts == ASSUME NEW S, NEW q \in Seq(S)
                  PROVE  /\ Len(q) \in Nat /\ DOMAIN q = 1..Len(q)
                         /\ q = <<>> <=> Len(q) = 0
                         /\ \A i \in 1..Len(q) : q[i] \in S
OBVIOUS

LEMMA AppendFacts == ASSUME NEW S, NEW q \in Seq(S), NEW x \in S
                     PROVE  /\ Append(q, x) \in Seq(S) /\ Append(q, x) # <<>>
                            /\ Len(Append(q, x)) = Len(q) + 1
                            /\ \A i \in 1..Len(q) : Append(q, x)[i] = q[i]
                            /\ Append(q, x)[Len(q) + 1] = x
OBVIOUS

LEMMA TailFacts == ASSUME NEW S, NEW q \in Seq(S), q # <<>>
                   PROVE  /\ Tail(q) \in Seq(S)
                          /\ Len(Tail(q)) = Len(q) - 1
                          /\ \A i \in 1..(Len(q) - 1) : Tail(q)[i] = q[i + 1]
                          /\ Head(q) = q[1] /\ q[1] \in S /\ Len(q) >= 1
OBVIOUS

-----------------------------------------------------------------------------
(* Events, and where the reads are. *)

LEMMA EventFacts ==
  /\ Ready \in Events /\ Died \in Events
  /\ Ready.kind = "ready" /\ Died.kind = "died"
  /\ \A id \in Ids, v \in Results :
       Reply(id, v) \in Events /\ Reply(id, v).kind = "reply" /\ Reply(id, v).id = id
  /\ \A e \in Events : e.kind = "reply" => e.id \in Ids /\ e.result \in Results
  /\ \A e \in Events : e.kind = "died" <=> e = Died
<1>1. Ready.kind = "ready" /\ Died.kind = "died" /\ Ready \in Events /\ Died \in Events
  BY DEF Events, Ready, Died
<1>2. \A id, v : Reply(id, v).kind = "reply" /\ Reply(id, v).id = id /\ Reply(id, v).result = v
  BY DEF Reply
<1>3. \A e \in Events : \/ e = Ready \/ e = Died
                        \/ \E id \in Ids, v \in Results : e = Reply(id, v)
  BY DEF Events
<1>4. \A id \in Ids, v \in Results : Reply(id, v) \in Events
  BY DEF Events
<1> QED BY <1>1, <1>2, <1>3, <1>4

LEMMA PlacedSend ==
  ASSUME NEW n \in {0, 1}, NEW out \in Seq(Events), NEW inbox \in Seq(Ids),
         NEW q \in Seq(Ids), NEW id \in Ids, Placed(n, out, inbox, q)
  PROVE  Placed(n, out, Append(inbox, id), Append(q, id))
<1>1. Len(out) \in Nat /\ Len(inbox) \in Nat /\ Len(q) \in Nat
  BY LenFacts
<1>2. n + Len(q) = Len(out) + Len(inbox)
  BY DEF Placed
<1>3. ASSUME NEW i \in 1..(Len(q) + 1)
      PROVE  IF n + i <= Len(out)
             THEN out[n + i].kind = "reply" /\ out[n + i].id = Append(q, id)[i]
             ELSE Append(inbox, id)[n + i - Len(out)] = Append(q, id)[i]
  <2>1. CASE i = Len(q) + 1
    <3>1. n + i - Len(out) = Len(inbox) + 1 /\ ~(n + i <= Len(out))
      BY <1>1, <1>2, <2>1
    <3> QED BY <2>1, <3>1, AppendFacts
  <2>2. CASE i \in 1..Len(q)
    <3>1. IF n + i <= Len(out) THEN out[n + i].kind = "reply" /\ out[n + i].id = q[i]
                               ELSE inbox[n + i - Len(out)] = q[i]
      BY <2>2, LenFacts DEF Placed
    <3>2. ~(n + i <= Len(out)) => n + i - Len(out) \in 1..Len(inbox)
      BY <1>1, <1>2, <2>2
    <3>3. Append(q, id)[i] = q[i]
      BY <2>2, AppendFacts
    <3>4. ~(n + i <= Len(out)) =>
            Append(inbox, id)[n + i - Len(out)] = inbox[n + i - Len(out)]
      BY <3>2, AppendFacts
    <3> QED BY <3>1, <3>3, <3>4
  <2>3. i = Len(q) + 1 \/ i \in 1..Len(q)
    BY <1>1
  <2> QED BY <2>1, <2>2, <2>3
<1>4. /\ Len(Append(q, id)) = Len(q) + 1 /\ Len(Append(inbox, id)) = Len(inbox) + 1
      /\ DOMAIN Append(q, id) = 1..(Len(q) + 1)
  BY AppendFacts, LenFacts
<1>5. n + Len(Append(q, id)) = Len(out) + Len(Append(inbox, id))
  BY <1>1, <1>2, <1>4
<1>6. \A i \in DOMAIN Append(q, id) : i \in 1..(Len(q) + 1)
  BY <1>4
<1> QED BY <1>3, <1>5, <1>6 DEF Placed

LEMMA PlacedWork ==
  ASSUME NEW n \in {0, 1}, NEW out \in Seq(Events), NEW inbox \in Seq(Ids),
         NEW q \in Seq(Ids), NEW v \in Results, Placed(n, out, inbox, q), inbox # <<>>,
         n <= Len(out)
  PROVE  Placed(n, Append(out, Reply(Head(inbox), v)), Tail(inbox), q)
<1> DEFINE e == Reply(Head(inbox), v)
<1>1. Len(out) \in Nat /\ Len(inbox) \in Nat /\ Len(q) \in Nat
  BY LenFacts
<1>2. n + Len(q) = Len(out) + Len(inbox)
  BY DEF Placed
<1>3. e \in Events /\ e.kind = "reply" /\ e.id = inbox[1] /\ Len(inbox) >= 1
  BY TailFacts, EventFacts
<1>4. /\ Len(Append(out, e)) = Len(out) + 1
      /\ \A i \in 1..Len(out) : Append(out, e)[i] = out[i]
      /\ Append(out, e)[Len(out) + 1] = e
  BY <1>3, AppendFacts
<1>5. Len(Tail(inbox)) = Len(inbox) - 1 /\ \A i \in 1..(Len(inbox) - 1) : Tail(inbox)[i] = inbox[i + 1]
  BY TailFacts
<1>6. ASSUME NEW i \in DOMAIN q
      PROVE  IF n + i <= Len(out) + 1
             THEN Append(out, e)[n + i].kind = "reply" /\ Append(out, e)[n + i].id = q[i]
             ELSE Tail(inbox)[n + i - (Len(out) + 1)] = q[i]
  <2>1. /\ i \in 1..Len(q)
        /\ IF n + i <= Len(out) THEN out[n + i].kind = "reply" /\ out[n + i].id = q[i]
                                ELSE inbox[n + i - Len(out)] = q[i]
    BY LenFacts DEF Placed
  <2>2. CASE n + i <= Len(out)
    <3>1. n + i \in 1..Len(out)
      BY <1>1, <2>1, <2>2
    <3> QED BY <1>1, <1>4, <2>1, <2>2, <3>1
  <2>3. CASE n + i = Len(out) + 1
    <3>1. n + i - Len(out) = 1 /\ ~(n + i <= Len(out))
      BY <1>1, <2>1, <2>3
    <3> QED BY <1>1, <1>3, <1>4, <2>1, <2>3, <3>1
  <2>4. CASE n + i > Len(out) + 1
    <3>1. /\ n + i - (Len(out) + 1) \in 1..(Len(inbox) - 1)
          /\ n + i - (Len(out) + 1) + 1 = n + i - Len(out)
          /\ ~(n + i <= Len(out)) /\ ~(n + i <= Len(out) + 1)
      BY <1>1, <1>2, <2>1, <2>4
    <3>2. Tail(inbox)[n + i - (Len(out) + 1)] = inbox[n + i - (Len(out) + 1) + 1]
      BY <1>5, <3>1
    <3> QED BY <2>1, <3>1, <3>2
  <2>5. n + i <= Len(out) \/ n + i = Len(out) + 1 \/ n + i > Len(out) + 1
    BY <1>1, <2>1
  <2> QED BY <2>2, <2>3, <2>4, <2>5
<1>7. n + Len(q) = Len(Append(out, e)) + Len(Tail(inbox))
  BY <1>1, <1>2, <1>4, <1>5
<1> QED BY <1>4, <1>6, <1>7 DEF Placed

LEMMA PlacedBoot ==
  ASSUME NEW inbox \in Seq(Ids), NEW q \in Seq(Ids), NEW e \in Events, Placed(0, <<>>, inbox, q)
  PROVE  Placed(1, <<e>>, inbox, q)
<1>1. Len(inbox) \in Nat /\ Len(q) \in Nat /\ DOMAIN q = 1..Len(q)
  BY LenFacts
<1>2. Len(q) = Len(inbox) /\ \A i \in 1..Len(q) : inbox[i] = q[i]
  BY <1>1 DEF Placed
<1> QED BY <1>1, <1>2 DEF Placed

LEMMA PlacedReady ==
  ASSUME NEW out \in Seq(Events), NEW inbox \in Seq(Ids), NEW q \in Seq(Ids),
         Placed(1, out, inbox, q), out # <<>>
  PROVE  Placed(0, Tail(out), inbox, q)
<1>1. Len(out) \in Nat /\ Len(inbox) \in Nat /\ Len(q) \in Nat /\ Len(out) >= 1
  BY LenFacts, TailFacts
<1>2. Len(Tail(out)) = Len(out) - 1 /\ \A i \in 1..(Len(out) - 1) : Tail(out)[i] = out[i + 1]
  BY TailFacts
<1>3. ASSUME NEW i \in DOMAIN q
      PROVE  IF i <= Len(out) - 1 THEN Tail(out)[i].kind = "reply" /\ Tail(out)[i].id = q[i]
                                  ELSE inbox[i - (Len(out) - 1)] = q[i]
  <2>1. /\ i \in 1..Len(q)
        /\ IF 1 + i <= Len(out) THEN out[1 + i].kind = "reply" /\ out[1 + i].id = q[i]
                                ELSE inbox[1 + i - Len(out)] = q[i]
    BY LenFacts DEF Placed
  <2>2. 1 + i = i + 1 /\ i - (Len(out) - 1) = 1 + i - Len(out)
    BY <1>1, <2>1
  <2> QED BY <1>1, <1>2, <2>1, <2>2
<1>4. Len(q) = Len(Tail(out)) + Len(inbox)
  BY <1>1, <1>2 DEF Placed
<1>5. \A i \in DOMAIN q : 0 + i = i
  BY LenFacts
<1> QED BY <1>2, <1>3, <1>4, <1>5 DEF Placed

LEMMA PlacedZero ==
  ASSUME NEW out \in Seq(Events), NEW inbox \in Seq(Ids), NEW q \in Seq(Ids)
  PROVE  Placed(0, out, inbox, q) <=>
           /\ Len(q) = Len(out) + Len(inbox)
           /\ \A i \in 1..Len(q) : IF i <= Len(out) THEN out[i].kind = "reply" /\ out[i].id = q[i]
                                                    ELSE inbox[i - Len(out)] = q[i]
<1>1. DOMAIN q = 1..Len(q) /\ Len(q) \in Nat /\ Len(out) \in Nat /\ Len(inbox) \in Nat
  BY LenFacts
<1>2. \A i \in 1..Len(q) : 0 + i = i
  BY <1>1
<1>3. 0 + Len(q) = Len(q)
  BY <1>1
<1> DEFINE G(i, j) == IF j <= Len(out) THEN out[j].kind = "reply" /\ out[j].id = q[i]
                                       ELSE inbox[j - Len(out)] = q[i]
<1>4. Placed(0, out, inbox, q) <=>
        0 + Len(q) = Len(out) + Len(inbox) /\ \A i \in DOMAIN q : G(i, 0 + i)
  BY DEF Placed
<1>5. (\A i \in DOMAIN q : G(i, 0 + i)) <=> \A i \in 1..Len(q) : G(i, i)
  <2> HIDE DEF G
  <2> QED BY <1>1, <1>2, Zenon
<1>6. (0 + Len(q) = Len(out) + Len(inbox)) <=> (Len(q) = Len(out) + Len(inbox))
  BY <1>3
<1> QED BY <1>4, <1>5, <1>6

LEMMA PlacedReply ==
  ASSUME NEW out \in Seq(Events), NEW inbox \in Seq(Ids), NEW q \in Seq(Ids),
         Placed(0, out, inbox, q), out # <<>>
  PROVE  /\ q # <<>> /\ Head(out).kind = "reply" /\ Head(out).id = Head(q)
         /\ Placed(0, Tail(out), inbox, Tail(q))
<1>1. Len(out) \in Nat /\ Len(inbox) \in Nat /\ Len(q) \in Nat /\ Len(out) >= 1
  BY LenFacts, TailFacts
<1>2. /\ Len(q) = Len(out) + Len(inbox)
      /\ \A i \in 1..Len(q) : IF i <= Len(out) THEN out[i].kind = "reply" /\ out[i].id = q[i]
                                               ELSE inbox[i - Len(out)] = q[i]
  BY PlacedZero
<1>3. q # <<>> /\ Len(q) >= 1
  BY <1>1, <1>2, LenFacts
<1>4. Len(Tail(out)) = Len(out) - 1 /\ \A i \in 1..(Len(out) - 1) : Tail(out)[i] = out[i + 1]
  BY TailFacts
<1>5. /\ Len(Tail(q)) = Len(q) - 1 /\ \A i \in 1..(Len(q) - 1) : Tail(q)[i] = q[i + 1]
      /\ DOMAIN Tail(q) = 1..(Len(q) - 1)
  BY <1>3, TailFacts, LenFacts
<1>6. ASSUME NEW i \in 1..(Len(q) - 1)
      PROVE  IF i <= Len(out) - 1 THEN Tail(out)[i].kind = "reply" /\ Tail(out)[i].id = Tail(q)[i]
                                  ELSE inbox[i - (Len(out) - 1)] = Tail(q)[i]
  <2>1. i + 1 \in 1..Len(q) /\ i + 1 - Len(out) = i - (Len(out) - 1)
    BY <1>1
  <2>2. IF i + 1 <= Len(out) THEN out[i + 1].kind = "reply" /\ out[i + 1].id = q[i + 1]
                             ELSE inbox[i - (Len(out) - 1)] = q[i + 1]
    BY <1>2, <2>1
  <2>3. i <= Len(out) - 1 <=> i + 1 <= Len(out)
    BY <1>1
  <2>4. i <= Len(out) - 1 => Tail(out)[i] = out[i + 1]
    BY <1>1, <1>4
  <2> QED BY <1>5, <2>2, <2>3, <2>4
<1>7. Head(out) = out[1] /\ Head(q) = q[1]
  BY <1>3, TailFacts
<1>8. Placed(0, Tail(out), inbox, Tail(q))
  <2>1. Tail(out) \in Seq(Events) /\ Tail(q) \in Seq(Ids)
    BY <1>3, TailFacts
  <2>2. Len(Tail(q)) = Len(Tail(out)) + Len(inbox)
    BY <1>1, <1>2, <1>4, <1>5
  <2> QED BY <1>4, <1>5, <1>6, <2>1, <2>2, PlacedZero
<1> QED BY <1>1, <1>2, <1>3, <1>7, <1>8

LEMMA PlacedNew == ASSUME NEW q \in Seq(Ids) PROVE Placed(0, <<>>, q, q)
<1>1. Len(q) \in Nat /\ DOMAIN q = 1..Len(q)
  BY LenFacts
<1> QED BY <1>1 DEF Placed

-----------------------------------------------------------------------------
(* Threads. *)

LEMMA ThreadFacts ==
  \A th, up, dead, inbox, out, ref :
    /\ Thread(th, up, dead, inbox, out, ref).there = th
    /\ Thread(th, up, dead, inbox, out, ref).up = up
    /\ Thread(th, up, dead, inbox, out, ref).dead = dead
    /\ Thread(th, up, dead, inbox, out, ref).inbox = inbox
    /\ Thread(th, up, dead, inbox, out, ref).out = out
    /\ Thread(th, up, dead, inbox, out, ref).ref = ref
BY DEF Thread

LEMMA ThreadTyped ==
  ASSUME NEW th \in BOOLEAN, NEW up \in BOOLEAN, NEW dead \in BOOLEAN,
         NEW inbox \in Seq(Ids), NEW out \in Seq(Events), NEW ref \in BOOLEAN
  PROVE  Thread(th, up, dead, inbox, out, ref) \in Threads
BY DEF Thread, Threads

LEMMA NoThreadFacts ==
  /\ NoThread \in Threads /\ NewThread \in Threads
  /\ ~NoThread.there /\ ~NoThread.up /\ ~NoThread.dead /\ NoThread.out = <<>>
  /\ NewThread.there /\ ~NewThread.up /\ ~NewThread.dead
  /\ NewThread.inbox = <<>> /\ NewThread.out = <<>>
<1>1. <<>> \in Seq(Ids) /\ <<>> \in Seq(Events)
  OBVIOUS
<1> QED BY <1>1 DEF NoThread, NewThread, Thread, Threads

LEMMA ThreadFields ==
  ASSUME NEW t \in Threads
  PROVE  /\ t.there \in BOOLEAN /\ t.up \in BOOLEAN /\ t.dead \in BOOLEAN /\ t.ref \in BOOLEAN
         /\ t.inbox \in Seq(Ids) /\ t.out \in Seq(Events)
BY DEF Threads

LEMMA LastWordsTyped == ASSUME NEW t \in Threads PROVE LastWords(t) \subseteq Events
<1>1. t.inbox \in Seq(Ids) /\ t.out \in Seq(Events)
  BY ThreadFields
<1>2. \A i \in DOMAIN t.out : t.out[i] \in Events
  BY <1>1, LenFacts
<1>3. \A i \in DOMAIN t.inbox : t.inbox[i] \in Ids
  BY <1>1, LenFacts
<1>4. {t.out[i] : i \in DOMAIN t.out} \subseteq Events
  BY <1>2
<1>5. {Reply(t.inbox[i], v) : i \in DOMAIN t.inbox, v \in Results} \subseteq Events
  <2>1. \A i \in DOMAIN t.inbox, v \in Results : Reply(t.inbox[i], v) \in Events
    BY <1>3, EventFacts
  <2> QED BY <2>1
<1>6. {Died} \union (IF t.up THEN {} ELSE {Ready}) \subseteq Events
  BY EventFacts
<1> QED BY <1>4, <1>5, <1>6 DEF LastWords

\* The types of the variables, one by one.
LEMMA Typed ==
  ASSUME TypeOK
  PROVE  /\ nextId \in Nat /\ nextId <= MaxReads /\ queue \in Seq(Ids) /\ thread \in Threads
         /\ ready \in BOOLEAN /\ timer \in {Off} \union 0..Deadline
         /\ onIt \in [Ids -> 0..Deadline] /\ Len(queue) \in Nat
         /\ DOMAIN queue = 1..Len(queue) /\ (queue = <<>> <=> Len(queue) = 0)
<1>1. queue \in Seq(Ids) /\ nextId \in 0..MaxReads
  BY DEF TypeOK
<1> QED BY <1>1, LenFacts DEF TypeOK, Threads

\* A queue that is not empty has a head, the oldest read, and a tail.
LEMMA HeadFacts ==
  ASSUME TypeOK, Order, queue # <<>>
  PROVE  /\ Head(queue) \in Ids /\ Head(queue) = nextId - Len(queue)
         /\ Len(queue) >= 1 /\ Head(queue) = queue[1]
         /\ Tail(queue) \in Seq(Ids) /\ Len(Tail(queue)) = Len(queue) - 1
         /\ \A i \in 1..(Len(queue) - 1) : Tail(queue)[i] = nextId - (Len(queue) - 1) + i - 1
<1>1. nextId \in Nat /\ queue \in Seq(Ids) /\ Len(queue) \in Nat
  BY Typed
<1>2. /\ Tail(queue) \in Seq(Ids) /\ Len(Tail(queue)) = Len(queue) - 1 /\ Len(queue) >= 1
      /\ \A i \in 1..(Len(queue) - 1) : Tail(queue)[i] = queue[i + 1]
      /\ Head(queue) = queue[1] /\ queue[1] \in Ids
  BY <1>1, TailFacts
<1>3. 1 \in 1..Len(queue)
  BY <1>1, <1>2
<1>4. Head(queue) = nextId - Len(queue)
  BY <1>1, <1>2, <1>3 DEF Order
<1>5. ASSUME NEW i \in 1..(Len(queue) - 1)
      PROVE  Tail(queue)[i] = nextId - (Len(queue) - 1) + i - 1
  <2>1. i + 1 \in 1..Len(queue)
    BY <1>1
  <2>2. Tail(queue)[i] = nextId - Len(queue) + (i + 1) - 1
    BY <1>2, <2>1 DEF Order
  <2> QED BY <1>1, <2>2
<1> QED BY <1>2, <1>4, <1>5

LEMMA InitIInv == Init => IInv
<1> SUFFICES ASSUME Init PROVE IInv
  OBVIOUS
<1>1. thread = Thread(TRUE, TRUE, FALSE, <<>>, <<>>, FALSE)
  BY DEF Init, NewThread, Thread
<1>2. <<>> \in Seq(Ids) /\ <<>> \in Seq(Events) /\ Len(<<>>) = 0 /\ DOMAIN <<>> = {}
  OBVIOUS
<1>3. /\ thread.there /\ thread.up /\ ~thread.dead /\ thread.inbox = <<>>
      /\ thread.out = <<>> /\ ~thread.ref /\ thread \in Threads
  BY <1>1, <1>2 DEF Thread, Threads
<1>4. TypeOK
  BY <1>2, <1>3 DEF Init, TypeOK, Threads, Off
<1>5. Order
  BY <1>2 DEF Init, Order
<1>6. Placed(Unready, thread.out, thread.inbox, queue)
  BY <1>2, <1>3 DEF Init, Placed, Unready
<1>7. NothingLost
  BY <1>3, <1>6 DEF Init, NothingLost, Alive, Off
<1>8. Posted /\ Clock
  BY <1>2, <1>3 DEF Init, Posted, Alive, Clock, Off
<1> QED BY <1>4, <1>5, <1>7, <1>8 DEF IInv

-----------------------------------------------------------------------------
(* The steps of the reader thread. *)

\* What the oldest things a living thread has posted are: Ready, unless the main
\* thread knows that it is ready, and otherwise the reply to the oldest read.
LEMMA AliveFacts ==
  ASSUME IInv, Alive
  PROVE  /\ thread.there /\ ~thread.dead /\ Unready \in {0, 1}
         /\ Unready <= Len(thread.out)
         /\ Placed(Unready, thread.out, thread.inbox, queue)
         /\ ready => thread.up /\ Unready = 0
         /\ ~thread.up => thread.out = <<>> /\ Unready = 0
         /\ thread.up /\ ~ready =>
              Unready = 1 /\ thread.out # <<>> /\ thread.out[1].kind = "ready"
         /\ thread.out # <<>> /\ thread.out[1].kind # "ready" => ready
<1>1. thread.out \in Seq(Events) /\ Len(thread.out) \in Nat
      /\ (thread.out # <<>> => Len(thread.out) >= 1)
  BY Typed, ThreadFields, LenFacts, TailFacts DEF IInv
<1> QED BY <1>1 DEF IInv, NothingLost, Posted, Alive, Unready

\* A step of a thread that lives changes the thread only, and leaves it living.
LEMMA ThreadStep ==
  ASSUME IInv, Alive, UNCHANGED <<nextId, queue, ready, timer, answer, stale, onIt>>,
         thread' \in Threads, thread'.there, thread'.up, ~thread'.dead,
         thread'.ref = thread.ref,
         Placed(Unready', thread'.out, thread'.inbox, queue),
         ~ready => thread'.out # <<>> /\ thread'.out[1].kind = "ready",
         \A i \in DOMAIN thread'.out : thread'.out[i].kind # "died"
  PROVE  IInv'
<1>1. TypeOK'
  BY DEF IInv, TypeOK, Threads
<1>2. Order'
  BY DEF IInv, Order
<1>3. NothingLost'
  BY DEF IInv, NothingLost, Alive
<1>4. Posted'
  BY DEF Posted, Alive
<1>5. Clock'
  BY DEF IInv, Clock, Alive
<1> QED BY <1>1, <1>2, <1>3, <1>4, <1>5 DEF IInv

LEMMA BootIInv == ASSUME IInv, Boot PROVE IInv'
<1>1. Alive /\ ~thread.up /\ thread' = Thread(TRUE, TRUE, FALSE, thread.inbox, Append(thread.out, Ready), thread.ref)
  BY DEF Boot, Posts
<1>2. thread.inbox \in Seq(Ids) /\ thread.ref \in BOOLEAN /\ queue \in Seq(Ids)
  BY Typed, ThreadFields DEF IInv
<1>3. thread.out = <<>> /\ Placed(0, <<>>, thread.inbox, queue)
  BY <1>1, AliveFacts
<1>4. Append(thread.out, Ready) = <<Ready>> /\ <<Ready>> \in Seq(Events) /\ <<Ready>> # <<>>
      /\ \A i \in DOMAIN <<Ready>> : <<Ready>>[i] = Ready
  BY <1>3, EventFacts
<1>5. thread' \in Threads /\ thread'.there /\ thread'.up /\ ~thread'.dead
      /\ thread'.out = <<Ready>> /\ thread'.inbox = thread.inbox /\ thread'.ref = thread.ref
  BY <1>1, <1>2, <1>4 DEF Thread, Threads
<1>6. Placed(1, <<Ready>>, thread.inbox, queue)
  BY <1>2, <1>3, PlacedBoot, EventFacts
<1>7. ~ready
  BY <1>1, AliveFacts
<1>8. UNCHANGED <<nextId, queue, ready, timer, answer, stale, onIt>>
  BY DEF Boot
<1>9. Unready' = 1
  BY <1>5, <1>7, <1>8 DEF Unready
<1>10. <<Ready>>[1].kind = "ready" /\ \A i \in DOMAIN <<Ready>> : <<Ready>>[i].kind # "died"
  BY <1>4, EventFacts
<1> QED BY <1>1, <1>4, <1>5, <1>6, <1>8, <1>9, <1>10, ThreadStep

LEMMA WorkIInv == ASSUME IInv, NEW v \in Results, Work(v) PROVE IInv'
<1> DEFINE e == Reply(Head(thread.inbox), v)
<1>1. /\ Alive /\ thread.up /\ thread.inbox # <<>>
      /\ thread' = Thread(TRUE, TRUE, FALSE, Tail(thread.inbox), Append(thread.out, e), thread.ref)
      /\ UNCHANGED <<nextId, queue, ready, timer, answer, stale, onIt>>
  BY DEF Work, Posts
<1>2. /\ thread.inbox \in Seq(Ids) /\ thread.out \in Seq(Events)
      /\ thread.ref \in BOOLEAN /\ queue \in Seq(Ids)
  BY Typed, ThreadFields DEF IInv
<1>3. e \in Events /\ e.kind = "reply" /\ Tail(thread.inbox) \in Seq(Ids)
  BY <1>1, <1>2, TailFacts, EventFacts
<1>4. /\ Append(thread.out, e) \in Seq(Events) /\ Append(thread.out, e) # <<>>
      /\ Len(Append(thread.out, e)) = Len(thread.out) + 1
      /\ \A i \in 1..Len(thread.out) : Append(thread.out, e)[i] = thread.out[i]
      /\ Append(thread.out, e)[Len(thread.out) + 1] = e
  BY <1>2, <1>3, AppendFacts
<1>5. thread' \in Threads /\ thread'.there /\ thread'.up /\ ~thread'.dead
      /\ thread'.out = Append(thread.out, e) /\ thread'.inbox = Tail(thread.inbox)
      /\ thread'.ref = thread.ref
  BY <1>1, <1>2, <1>3, <1>4 DEF Thread, Threads
<1>6. Unready' = Unready
  BY <1>1, <1>5 DEF Unready
<1>7. Placed(Unready, Append(thread.out, e), Tail(thread.inbox), queue)
  BY <1>1, <1>2, AliveFacts, PlacedWork
<1>8. ~ready => Append(thread.out, e)[1].kind = "ready"
  <2>1. ~ready => thread.out # <<>> /\ thread.out[1].kind = "ready"
    BY <1>1, AliveFacts
  <2>2. ~ready => 1 \in 1..Len(thread.out)
    BY <1>2, <2>1, LenFacts
  <2> QED BY <1>4, <2>1, <2>2
<1>9. ASSUME NEW i \in DOMAIN Append(thread.out, e)
      PROVE  Append(thread.out, e)[i].kind # "died"
  <2>1. Len(thread.out) \in Nat /\ i \in 1..(Len(thread.out) + 1)
    BY <1>2, <1>4, LenFacts
  <2>2. CASE i \in 1..Len(thread.out)
    <3>1. thread.out[i].kind # "died"
      BY <1>1, <1>2, <2>2, LenFacts DEF IInv, Posted, Alive
    <3> QED BY <1>4, <2>2, <3>1
  <2>3. CASE i = Len(thread.out) + 1
    BY <1>3, <1>4, <2>3
  <2> QED BY <2>1, <2>2, <2>3
<1> QED BY <1>1, <1>4, <1>5, <1>6, <1>7, <1>8, <1>9, ThreadStep

\* What is posted last is that the thread has died.
LEMMA DieIInv ==
  ASSUME IInv, NEW out \in Seq(Events), Die(out), \E i \in DOMAIN out : out[i] = Died
  PROVE  IInv'
<1>1. /\ Alive /\ thread' = Thread(TRUE, thread.up, TRUE, thread.inbox, out, thread.ref)
      /\ UNCHANGED <<nextId, queue, ready, timer, answer, stale, onIt>>
  BY DEF Die
<1>2. thread.inbox \in Seq(Ids) /\ thread.ref \in BOOLEAN /\ thread.up \in BOOLEAN
  BY Typed, ThreadFields DEF IInv
<1>3. thread' \in Threads /\ thread'.there /\ thread'.dead /\ thread'.out = out
      /\ thread'.ref = thread.ref
  BY <1>1, <1>2 DEF Thread, Threads
<1>4. TypeOK'
  BY <1>1, <1>3 DEF IInv, TypeOK, Threads
<1>5. Order'
  BY <1>1 DEF IInv, Order
<1>6. NothingLost'
  BY <1>1, <1>3 DEF IInv, NothingLost, Alive
<1>7. Posted' /\ Clock'
  BY <1>3 DEF Posted, Clock, Alive
<1> QED BY <1>4, <1>5, <1>6, <1>7 DEF IInv

LEMMA CrashIInv == ASSUME IInv, Crashes PROVE IInv'
<1> DEFINE exit == Append(thread.out, Died)
<1>1. thread.out \in Seq(Events) /\ Len(thread.out) \in Nat
  BY Typed, ThreadFields, LenFacts DEF IInv
<1>2. /\ exit \in Seq(Events) /\ Len(exit) = Len(thread.out) + 1
      /\ exit[Len(thread.out) + 1] = Died /\ DOMAIN exit = 1..Len(exit)
  BY <1>1, EventFacts, AppendFacts, LenFacts
<1>3. /\ Append(exit, Died) \in Seq(Events) /\ Len(Append(exit, Died)) = Len(exit) + 1
      /\ Append(exit, Died)[Len(exit) + 1] = Died
      /\ DOMAIN Append(exit, Died) = 1..Len(Append(exit, Died))
  BY <1>2, EventFacts, AppendFacts, LenFacts
<1>4. Len(thread.out) + 1 \in DOMAIN exit /\ Len(exit) + 1 \in DOMAIN Append(exit, Died)
  BY <1>1, <1>2, <1>3
<1>5. Die(exit) \/ Die(Append(exit, Died))
  BY DEF Crashes
<1> HIDE DEF exit
<1> QED BY <1>2, <1>3, <1>4, <1>5, DieIInv

-----------------------------------------------------------------------------
(* The steps of the main thread. *)

LEMMA FailIInv == ASSUME IInv, NEW reason \in Failures, Fail(reason) PROVE IInv'
<1> DEFINE rest == IF queue = <<>> THEN <<>> ELSE Tail(queue)
<1>1. rest \in Seq(Ids) /\ Len(rest) \in Nat /\ (rest = <<>> <=> Len(rest) = 0)
      /\ Len(rest) <= nextId /\ \A i \in 1..Len(rest) : rest[i] = nextId - Len(rest) + i - 1
  <2>1. CASE queue = <<>>
    <3>1. <<>> \in Seq(Ids) /\ Len(<<>>) = 0
      OBVIOUS
    <3> QED BY <2>1, <3>1, Typed DEF IInv
  <2>2. CASE queue # <<>>
    <3>1. Tail(queue) \in Seq(Ids) /\ Len(Tail(queue)) = Len(queue) - 1 /\ Len(queue) >= 1
          /\ \A i \in 1..(Len(queue) - 1) : Tail(queue)[i] = nextId - (Len(queue) - 1) + i - 1
      BY <2>2, HeadFacts DEF IInv
    <3>2. nextId \in Nat /\ Len(queue) \in Nat /\ Len(queue) <= nextId
      BY Typed DEF IInv, Order
    <3>3. rest = Tail(queue)
      BY <2>2
    <3>4. rest \in Seq(Ids) /\ Len(rest) = Len(queue) - 1
          /\ \A i \in 1..(Len(queue) - 1) : rest[i] = nextId - (Len(queue) - 1) + i - 1
      BY <3>1, <3>3
    <3> HIDE DEF rest
    <3>5. Len(rest) \in Nat /\ (rest = <<>> <=> Len(rest) = 0)
      BY <3>4, LenFacts
    <3>6. Len(rest) <= nextId
      BY <3>2, <3>4
    <3> QED BY <3>4, <3>5, <3>6
  <2> QED BY <2>1, <2>2
<1>2. /\ queue' = rest
      /\ answer' = IF queue = <<>> THEN answer ELSE [answer EXCEPT ![Head(queue)] = reason]
      /\ thread' = IF rest = <<>> THEN NoThread ELSE Thread(TRUE, FALSE, FALSE, rest, <<>>, TRUE)
      /\ ready' = (ready /\ rest = <<>>)
      /\ timer' = Arm(rest, ready')
      /\ stale' = stale \union LastWords(thread)
      /\ onIt' = [id \in Ids |-> 0]
      /\ nextId' = nextId
  BY DEF Fail, Resent
<1> HIDE DEF rest
<1>3. rest = <<>> => thread' = NoThread /\ timer' = Off
  BY <1>2 DEF Arm
<1>4. rest # <<>> => ready' = FALSE /\ timer' = Off
                     /\ thread' = Thread(TRUE, FALSE, FALSE, rest, <<>>, TRUE)
  BY <1>2 DEF Arm
<1>5. <<>> \in Seq(Events) /\ DOMAIN <<>> = {}
  OBVIOUS
<1>6. rest # <<>> => /\ thread' \in Threads /\ thread'.there /\ ~thread'.up /\ ~thread'.dead
                     /\ thread'.inbox = rest /\ thread'.out = <<>> /\ thread'.ref
  <2> SUFFICES ASSUME rest # <<>>
               PROVE  /\ thread' \in Threads /\ thread'.there /\ ~thread'.up /\ ~thread'.dead
                      /\ thread'.inbox = rest /\ thread'.out = <<>> /\ thread'.ref
    OBVIOUS
  <2>1. thread' = [there |-> TRUE, up |-> FALSE, dead |-> FALSE,
                   inbox |-> rest, out |-> <<>>, ref |-> TRUE]
    BY <1>4 DEF Thread
  <2>2. rest \in Seq(Ids) /\ <<>> \in Seq(Events)
    BY <1>1, <1>5
  <2> QED BY <2>1, <2>2 DEF Threads
<1>7. rest = <<>> => /\ thread' \in Threads /\ ~thread'.there /\ ~thread'.dead /\ thread'.out = <<>>
  BY <1>3, NoThreadFacts
<1>8. TypeOK'
  <2>1. nextId' \in 0..MaxReads /\ queue' \in Seq(Ids) /\ thread' \in Threads
    BY <1>1, <1>2, <1>6, <1>7 DEF IInv, TypeOK
  <2>2. ready' \in BOOLEAN /\ timer' \in {Off} \union 0..Deadline
    BY <1>2, <1>3, <1>4
  <2>3. answer' \in [Ids -> {"none"} \union Results \union Failures]
    BY <1>2 DEF IInv, TypeOK
  <2>4. stale' \subseteq Events
    BY <1>2, Typed, LastWordsTyped DEF IInv, TypeOK
  <2>5. onIt' \in [Ids -> 0..Deadline]
    BY <1>2
  <2> QED BY <2>1, <2>2, <2>3, <2>4, <2>5 DEF TypeOK, Threads
<1>9. Order'
  BY <1>1, <1>2 DEF Order
<1>10. NothingLost'
  <2>1. thread'.there => Placed(0, <<>>, rest, rest) /\ Unready' = 0
    BY <1>1, <1>6, <1>7, PlacedNew DEF Unready
  <2>2. thread'.there => rest # <<>>
    BY <1>7
  <2>3. timer' = Off /\ ~(queue' # <<>> /\ ready')
    BY <1>2, <1>3, <1>4
  <2> QED BY <1>2, <1>6, <1>7, <2>1, <2>2, <2>3 DEF NothingLost, Alive
<1>11. Posted'
  BY <1>2, <1>3, <1>4, <1>5, <1>6, <1>7 DEF Posted, Alive
<1>12. Clock'
  BY <1>3, <1>4 DEF Clock
<1> QED BY <1>8, <1>9, <1>10, <1>11, <1>12 DEF IInv

\* What is taken from a thread leaves the rest of it: a death that is still to be
\* delivered, if it has died and something else was taken.
LEMMA TakeFacts ==
  ASSUME IInv, thread.there, thread.out # <<>>, NEW ref \in BOOLEAN, Take(ref)
  PROVE  /\ thread' \in Threads /\ thread'.there /\ thread'.up = thread.up
         /\ thread'.dead = thread.dead /\ thread'.inbox = thread.inbox
         /\ thread'.out = Tail(thread.out) /\ thread'.ref = ref
         /\ \A i \in DOMAIN thread'.out : thread'.out[i].kind = "died" => thread'.dead
         /\ thread.dead /\ thread.out[1].kind # "died"
              => \E i \in DOMAIN thread'.out : thread'.out[i] = Died
<1>1. thread.out \in Seq(Events) /\ thread.inbox \in Seq(Ids) /\ thread.up \in BOOLEAN
      /\ thread.dead \in BOOLEAN /\ Len(thread.out) \in Nat /\ DOMAIN thread.out = 1..Len(thread.out)
  BY Typed, ThreadFields, LenFacts DEF IInv
<1>2. /\ Tail(thread.out) \in Seq(Events) /\ Len(Tail(thread.out)) = Len(thread.out) - 1
      /\ \A i \in 1..(Len(thread.out) - 1) : Tail(thread.out)[i] = thread.out[i + 1]
  BY <1>1, TailFacts
<1>3. DOMAIN Tail(thread.out) = 1..(Len(thread.out) - 1)
  BY <1>2, LenFacts
<1>4. thread' = Thread(TRUE, thread.up, thread.dead, thread.inbox, Tail(thread.out), ref)
  BY DEF Take
<1>5. /\ thread' \in Threads /\ thread'.there /\ thread'.up = thread.up
      /\ thread'.dead = thread.dead /\ thread'.inbox = thread.inbox
      /\ thread'.out = Tail(thread.out) /\ thread'.ref = ref
  BY <1>1, <1>2, <1>4 DEF Thread, Threads
<1>6. \A i \in 1..(Len(thread.out) - 1) : i + 1 \in 1..Len(thread.out)
  BY <1>1
<1>7. \A i \in DOMAIN thread.out : thread.out[i].kind = "died" => thread.dead
  BY DEF IInv, Posted
<1>8. \A i \in DOMAIN thread'.out : thread'.out[i].kind = "died" => thread'.dead
  BY <1>1, <1>2, <1>3, <1>5, <1>6, <1>7
<1>9. ASSUME thread.dead, thread.out[1].kind # "died"
      PROVE  \E i \in DOMAIN thread'.out : thread'.out[i] = Died
  <2>1. PICK i \in DOMAIN thread.out : thread.out[i] = Died
    BY <1>9 DEF IInv, NothingLost
  <2>2. i # 1
    BY <1>9, <2>1, EventFacts
  <2>3. i - 1 \in 1..(Len(thread.out) - 1) /\ (i - 1) + 1 = i
    BY <1>1, <2>1, <2>2
  <2> QED BY <1>2, <1>3, <1>5, <2>1, <2>3
<1> QED BY <1>5, <1>8, <1>9

LEMMA ReadyIInv ==
  ASSUME IInv, thread.there, thread.out # <<>>, Head(thread.out).kind = "ready", OnReady
  PROVE  IInv'
<1>1. /\ ready' = TRUE /\ timer' = Arm(queue, TRUE) /\ Take(thread.ref)
      /\ UNCHANGED <<nextId, queue, answer, stale, onIt>>
  BY DEF OnReady, ReadyTimer
<1>2. thread.ref \in BOOLEAN /\ thread.out \in Seq(Events) /\ thread.inbox \in Seq(Ids)
      /\ queue \in Seq(Ids)
  BY Typed, ThreadFields DEF IInv
<1>3. thread.out[1].kind = "ready"
  BY <1>2, TailFacts
<1>4. /\ thread' \in Threads /\ thread'.there /\ thread'.up = thread.up
      /\ thread'.dead = thread.dead /\ thread'.inbox = thread.inbox
      /\ thread'.out = Tail(thread.out) /\ thread'.ref = thread.ref
      /\ \A i \in DOMAIN thread'.out : thread'.out[i].kind = "died" => thread'.dead
      /\ thread.dead => \E i \in DOMAIN thread'.out : thread'.out[i] = Died
  BY <1>1, <1>2, <1>3, TakeFacts
<1>5. ASSUME ~thread.dead
      PROVE  ~ready /\ thread.up /\ Placed(0, Tail(thread.out), thread.inbox, queue)
  <2>1. Alive
    BY <1>5 DEF Alive
  <2>2. ~ready
    <3> SUFFICES ASSUME ready PROVE FALSE
      OBVIOUS
    <3>1. Placed(0, thread.out, thread.inbox, queue)
      BY <2>1, AliveFacts
    <3>2. Head(thread.out).kind = "reply"
      BY <1>2, <3>1, PlacedReply
    <3> QED BY <3>2
  <2>3. thread.up
    BY <2>1, AliveFacts
  <2>4. Placed(1, thread.out, thread.inbox, queue)
    BY <2>1, <2>2, <2>3, AliveFacts
  <2> QED BY <1>2, <2>2, <2>3, <2>4, PlacedReady
<1>6. timer' \in {Off, Deadline} /\ (timer' # Off <=> queue # <<>>)
  BY <1>1 DEF Arm, Off
<1>7. TypeOK'
  <2>1. timer' \in {Off} \union 0..Deadline
    BY <1>6
  <2> QED BY <1>1, <1>4, <2>1 DEF IInv, TypeOK, Threads
<1>8. Order'
  BY <1>1 DEF IInv, Order
<1>9. NothingLost'
  <2>1. Unready' = 0
    BY <1>1 DEF Unready
  <2> QED BY <1>1, <1>4, <1>5, <1>6, <2>1 DEF IInv, NothingLost, Alive
<1>10. Posted'
  BY <1>1, <1>4, <1>5 DEF Posted, Alive
<1>11. Clock'
  <2> SUFFICES ASSUME timer' # Off PROVE onIt[Head(queue)] >= Deadline - timer'
    BY <1>1 DEF Clock
  <2>1. timer' = Deadline /\ Head(queue) \in Ids /\ onIt[Head(queue)] \in 0..Deadline
    BY <1>6, HeadFacts, Typed DEF IInv
  <2> QED BY <2>1
<1> QED BY <1>7, <1>8, <1>9, <1>10, <1>11 DEF IInv

LEMMA ReplyIInv ==
  ASSUME IInv, thread.there, thread.out # <<>>, Head(thread.out).kind = "reply",
         OnReply(Head(thread.out))
  PROVE  IInv'
<1> DEFINE e == Head(thread.out)
<1>1. /\ thread.ref \in BOOLEAN /\ thread.out \in Seq(Events) /\ thread.inbox \in Seq(Ids)
      /\ queue \in Seq(Ids) /\ nextId \in Nat /\ Len(queue) \in Nat
  BY Typed, ThreadFields DEF IInv
<1>2. e = thread.out[1] /\ e \in Events /\ e.kind = "reply" /\ e.id \in Ids /\ e.result \in Results
  BY <1>1, TailFacts, EventFacts
<1> HIDE DEF e
<1>3. ASSUME ~thread.dead
      PROVE  /\ ready /\ thread.up /\ Unready = 0 /\ queue # <<>> /\ Head(queue) = e.id
             /\ Placed(0, Tail(thread.out), thread.inbox, Tail(queue))
  <2>1. Alive
    BY <1>3 DEF Alive
  <2>2. ready /\ thread.up /\ Unready = 0
    BY <1>2, <2>1, AliveFacts
  <2>3. Placed(0, thread.out, thread.inbox, queue)
    BY <2>1, <2>2, AliveFacts
  <2> QED BY <1>1, <2>2, <2>3, PlacedReply DEF e
<1>4. CASE queue # <<>> /\ Head(queue) = e.id
  <2>1. /\ queue' = Tail(queue) /\ answer' = [answer EXCEPT ![e.id] = e.result]
        /\ timer' = Arm(Tail(queue), ready) /\ Take(thread.ref /\ Tail(queue) # <<>>)
        /\ UNCHANGED <<nextId, ready, stale, onIt>>
    BY <1>4 DEF OnReply, ReplyTimer, Outcome, e
  <2>2. /\ thread' \in Threads /\ thread'.there /\ thread'.up = thread.up
        /\ thread'.dead = thread.dead /\ thread'.inbox = thread.inbox
        /\ thread'.out = Tail(thread.out)
        /\ thread'.ref = (thread.ref /\ Tail(queue) # <<>>)
        /\ \A i \in DOMAIN thread'.out : thread'.out[i].kind = "died" => thread'.dead
        /\ thread.dead => \E i \in DOMAIN thread'.out : thread'.out[i] = Died
    <3>1. (thread.ref /\ Tail(queue) # <<>>) \in BOOLEAN
      OBVIOUS
    <3>2. thread.out[1].kind # "died"
      BY <1>2
    <3> QED BY <2>1, <3>1, <3>2, TakeFacts
  <2>3. /\ Tail(queue) \in Seq(Ids) /\ Len(Tail(queue)) = Len(queue) - 1 /\ Len(queue) >= 1
        /\ \A i \in 1..(Len(queue) - 1) : Tail(queue)[i] = nextId - (Len(queue) - 1) + i - 1
    BY <1>4, HeadFacts DEF IInv
  <2>4. /\ timer' \in {Off, Deadline} /\ (timer' # Off <=> Tail(queue) # <<>> /\ ready)
        /\ thread.ref
    BY <1>4, <2>1 DEF Arm, Off, IInv, NothingLost
  <2>5. TypeOK'
    <3>1. timer' \in {Off} \union 0..Deadline
      BY <2>4
    <3>2. answer' \in [Ids -> {"none"} \union Results \union Failures]
      BY <1>2, <2>1 DEF IInv, TypeOK
    <3> QED BY <2>1, <2>2, <2>3, <3>1, <3>2 DEF IInv, TypeOK, Threads
  <2>6. Order'
    <3>1. Len(queue) - 1 <= nextId
      BY <1>1 DEF IInv, Order
    <3> QED BY <2>1, <2>3, <3>1 DEF Order
  <2>7. NothingLost'
    <3>1. ~thread'.dead => Unready' = 0
      BY <1>3, <2>1, <2>2 DEF Unready
    <3>2. ~thread'.dead => Placed(0, thread'.out, thread'.inbox, queue')
      BY <1>3, <2>1, <2>2
    <3> QED BY <2>1, <2>2, <2>4, <3>1, <3>2 DEF NothingLost, Alive
  <2>8. Posted'
    BY <1>3, <2>1, <2>2 DEF Posted, Alive
  <2>9. Clock'
    <3> SUFFICES ASSUME timer' # Off PROVE onIt[Head(queue')] >= Deadline - timer'
      BY <2>1 DEF Clock
    <3>1. timer' = Deadline /\ Tail(queue) # <<>>
      BY <2>4
    <3>2. Head(queue') \in Ids
      BY <2>1, <2>3, <3>1, TailFacts
    <3>3. onIt[Head(queue')] \in 0..Deadline
      BY <3>2, Typed DEF IInv
    <3> QED BY <3>1, <3>3
  <2> QED BY <2>5, <2>6, <2>7, <2>8, <2>9 DEF IInv
<1>5. CASE ~(queue # <<>> /\ Head(queue) = e.id)
  <2>1. Take(thread.ref) /\ UNCHANGED <<nextId, queue, ready, timer, answer, stale, onIt>>
    BY <1>5 DEF OnReply, e
  <2>2. thread.dead
    BY <1>3, <1>5
  <2>3. /\ thread' \in Threads /\ thread'.there /\ thread'.dead /\ thread'.ref = thread.ref
        /\ \E i \in DOMAIN thread'.out : thread'.out[i] = Died
    <3>1. thread.out[1].kind # "died"
      BY <1>2
    <3> QED BY <1>1, <2>1, <2>2, <3>1, TakeFacts
  <2>4. TypeOK'
    BY <2>1, <2>3 DEF IInv, TypeOK, Threads
  <2>5. Order'
    BY <2>1 DEF IInv, Order
  <2>6. NothingLost'
    BY <2>1, <2>3 DEF IInv, NothingLost, Alive
  <2>7. Posted' /\ Clock'
    BY <2>3 DEF Posted, Clock, Alive
  <2> QED BY <2>4, <2>5, <2>6, <2>7 DEF IInv
<1> QED BY <1>4, <1>5

\* A message is taken from the thread only if it has posted one.
LEMMA DeliverIInv == ASSUME IInv, Deliver PROVE IInv'
<1>1. thread.there /\ thread.out # <<>>
  BY DEF Deliver
<1>2. \/ Head(thread.out).kind = "ready" /\ OnReady
      \/ Head(thread.out).kind = "reply" /\ OnReply(Head(thread.out))
      \/ Head(thread.out).kind = "died" /\ Fail("reader_thread_crashed")
  BY DEF Deliver
<1> QED BY <1>1, <1>2, ReadyIInv, ReplyIInv, FailIInv DEF Failures

LEMMA SendIInv == ASSUME IInv, Send PROVE IInv'
<1> DEFINE t == IF thread.there THEN thread ELSE NewThread
<1> DEFINE inbox == IF t.dead THEN t.inbox ELSE Append(t.inbox, nextId)
<1>1. /\ nextId < MaxReads /\ nextId' = nextId + 1 /\ queue' = Append(queue, nextId)
      /\ thread' = Thread(TRUE, t.up, t.dead, inbox, t.out, TRUE)
      /\ ready' = (ready /\ thread.there)
      /\ timer' = IF queue = <<>> THEN Arm(queue', ready') ELSE timer
      /\ UNCHANGED <<answer, stale, onIt>>
  BY DEF Send, Post
<1>2. /\ nextId \in Nat /\ nextId \in Ids /\ queue \in Seq(Ids) /\ Len(queue) \in Nat
      /\ DOMAIN queue = 1..Len(queue) /\ thread \in Threads /\ (queue = <<>> <=> Len(queue) = 0)
  <2>1. nextId \in 0..(MaxReads - 1)
    BY <1>1, Typed DEF IInv
  <2> QED BY <2>1, Typed DEF IInv, Ids
<1>3. t \in Threads
  BY <1>2, NoThreadFacts
<1>4. thread.there => t = thread
  OBVIOUS
<1>5. ~thread.there => t = NewThread /\ queue = <<>>
  BY DEF IInv, NothingLost
<1> HIDE DEF t
<1>6. /\ t.up \in BOOLEAN /\ t.dead \in BOOLEAN /\ t.inbox \in Seq(Ids) /\ t.out \in Seq(Events)
      /\ inbox \in Seq(Ids)
  <2>1. t.up \in BOOLEAN /\ t.dead \in BOOLEAN /\ t.inbox \in Seq(Ids) /\ t.out \in Seq(Events)
    BY <1>3, ThreadFields
  <2> QED BY <1>2, <2>1, AppendFacts
<1>7. ~t.dead => inbox = Append(t.inbox, nextId)
  OBVIOUS
<1> HIDE DEF inbox
<1>8. /\ thread' \in Threads /\ thread'.there /\ thread'.up = t.up /\ thread'.dead = t.dead
      /\ thread'.inbox = inbox /\ thread'.out = t.out /\ thread'.ref
  <2>1. thread' = [there |-> TRUE, up |-> t.up, dead |-> t.dead,
                   inbox |-> inbox, out |-> t.out, ref |-> TRUE]
    BY <1>1 DEF Thread
  <2> QED BY <1>6, <2>1 DEF Threads
<1>9. /\ queue' \in Seq(Ids) /\ queue' # <<>> /\ Len(queue') = Len(queue) + 1
      /\ \A i \in 1..Len(queue) : queue'[i] = queue[i]
      /\ queue'[Len(queue) + 1] = nextId
  BY <1>1, <1>2, AppendFacts
<1>10. /\ queue = <<>> => timer' = (IF ready' THEN Deadline ELSE Off)
       /\ queue # <<>> => timer' = timer /\ ready' = ready /\ thread.there
  <2>1. timer' = IF queue = <<>> THEN (IF queue' = <<>> \/ ~ready' THEN Off ELSE Deadline)
                                 ELSE timer
    BY <1>1 DEF Arm
  <2>2. queue # <<>> => thread.there
    BY <1>5
  <2>3. ready \in BOOLEAN /\ thread.there \in BOOLEAN /\ ready' = (ready /\ thread.there)
    BY <1>1, <1>2, Typed, ThreadFields DEF IInv
  <2>4. queue # <<>> => ready' = ready
    BY <2>2, <2>3
  <2> QED BY <1>9, <2>1, <2>2, <2>4
<1>11. TypeOK'
  <2>1. nextId' \in 0..MaxReads
    BY <1>1, <1>2
  <2>2. timer' \in {Off} \union 0..Deadline
    BY <1>10, Typed DEF IInv
  <2>3. ready' \in BOOLEAN
    BY <1>1
  <2> QED BY <1>1, <1>8, <1>9, <2>1, <2>2, <2>3 DEF IInv, TypeOK, Threads
<1>12. Order'
  <2>1. Len(queue) <= nextId /\ \A i \in 1..Len(queue) : queue[i] = nextId - Len(queue) + i - 1
    BY DEF IInv, Order
  <2>2. nextId' \in Nat /\ Len(queue') \in Nat /\ Len(queue') <= nextId'
        /\ nextId' - Len(queue') = nextId - Len(queue)
    BY <1>1, <1>2, <1>9, <2>1
  <2>3. ASSUME NEW i \in 1..Len(queue') PROVE queue'[i] = nextId - Len(queue) + i - 1
    <3>1. i \in 1..Len(queue) \/ i = Len(queue) + 1
      BY <1>2, <1>9
    <3>2. i = Len(queue) + 1 => nextId - Len(queue) + i - 1 = nextId
      BY <1>2
    <3> QED BY <1>9, <2>1, <3>1, <3>2
  <2> QED BY <2>2, <2>3 DEF Order
<1>13. ASSUME ~t.dead PROVE Placed(Unready', t.out, inbox, queue') /\ (ready' => t.up)
  <2>1. CASE thread.there
    <3>1. Alive /\ t = thread /\ ready' = ready
      BY <1>1, <1>4, <1>13, <2>1, Typed DEF Alive, IInv
    <3>2. Unready' = Unready
      BY <1>8, <3>1 DEF Unready
    <3>3. Placed(Unready, thread.out, thread.inbox, queue) /\ Unready \in {0, 1}
          /\ (ready => thread.up)
      BY <3>1, AliveFacts
    <3> QED BY <1>1, <1>2, <1>6, <1>7, <1>13, <3>1, <3>2, <3>3, PlacedSend
  <2>2. CASE ~thread.there
    <3>1. t.out = <<>> /\ t.inbox = <<>> /\ ~t.up /\ queue = <<>> /\ ~ready'
      BY <1>1, <1>5, <2>2, NoThreadFacts
    <3>2. Placed(0, t.out, t.inbox, queue)
      BY <1>2, <3>1, PlacedNew
    <3>3. Unready' = 0
      BY <1>8, <3>1 DEF Unready
    <3> QED BY <1>1, <1>2, <1>6, <1>7, <1>13, <3>1, <3>2, <3>3, PlacedSend
  <2> QED BY <2>1, <2>2
<1>14. NothingLost'
  <2>1. t.dead => \E i \in DOMAIN t.out : t.out[i] = Died
    BY <1>4, <1>5, NoThreadFacts DEF IInv, NothingLost
  <2>2. timer' # Off <=> ready'
    BY <1>10 DEF IInv, NothingLost, Off
  <2> QED BY <1>8, <1>9, <1>13, <2>1, <2>2 DEF NothingLost, Alive
<1>15. Posted'
  <2>1. \A i \in DOMAIN t.out : t.out[i].kind = "died" => t.dead
    <3>1. DOMAIN <<>> = {}
      OBVIOUS
    <3> QED BY <1>4, <1>5, <3>1, NoThreadFacts DEF IInv, Posted
  <2>2. ~t.dead /\ ~t.up => t.out = <<>>
    BY <1>4, <1>5, NoThreadFacts DEF IInv, Posted, Alive
  <2>3. ~t.dead /\ t.up /\ ~ready' => t.out # <<>> /\ t.out[1].kind = "ready"
    BY <1>1, <1>4, <1>5, NoThreadFacts DEF IInv, Posted, Alive
  <2> QED BY <1>8, <1>13, <2>1, <2>2, <2>3 DEF Posted, Alive
<1>16. Clock'
  <2> SUFFICES ASSUME timer' # Off, ~t.dead PROVE onIt[Head(queue')] >= Deadline - timer'
    BY <1>1, <1>8 DEF Clock
  <2>1. CASE queue = <<>>
    <3>1. timer' = Deadline /\ Head(queue') \in Ids
      BY <1>9, <1>10, <2>1, TailFacts
    <3>2. onIt[Head(queue')] \in 0..Deadline
      BY <3>1, Typed DEF IInv
    <3> QED BY <3>1, <3>2
  <2>2. CASE queue # <<>>
    <3>1. timer' = timer /\ thread.there /\ ~thread.dead
      BY <1>4, <1>10, <2>2
    <3>2. 1 \in 1..Len(queue)
      BY <1>2, <2>2
    <3>3. Head(queue') = Head(queue)
      BY <1>2, <1>9, <2>2, <3>2, TailFacts
    <3> QED BY <3>1, <3>3 DEF IInv, Clock
  <2> QED BY <2>1, <2>2
<1> QED BY <1>11, <1>12, <1>14, <1>15, <1>16 DEF IInv

LEMMA StaleIInv == ASSUME IInv, NEW e \in stale, OnStale(e) PROVE IInv'
<1>1. stale' = stale \ {e} /\ UNCHANGED <<nextId, queue, thread, ready, timer, answer, onIt>>
  BY DEF OnStale
<1>2. TypeOK'
  BY <1>1 DEF IInv, TypeOK
<1>3. Order' /\ Posted' /\ Clock'
  BY <1>1 DEF IInv, Order, Posted, Clock, Alive
<1>4. NothingLost'
  BY <1>1 DEF IInv, NothingLost, Alive, Unready
<1> QED BY <1>2, <1>3, <1>4 DEF IInv

\* The oldest read has been reached by a thread that is known to be ready.
LEMMA OldestReached == ASSUME IInv, timer # Off, ~thread.dead PROVE Reached(Head(queue))
<1>1. queue # <<>> /\ ready /\ thread.there /\ Alive
  BY DEF IInv, NothingLost, Alive
<1>2. thread.up /\ Placed(0, thread.out, thread.inbox, queue)
  BY <1>1, AliveFacts
<1>3. /\ thread.out \in Seq(Events) /\ thread.inbox \in Seq(Ids) /\ queue \in Seq(Ids)
  BY Typed, ThreadFields DEF IInv
<1>4. CASE thread.out # <<>>
  <2>1. Head(thread.out).kind = "reply" /\ Head(thread.out).id = Head(queue)
    BY <1>2, <1>3, <1>4, PlacedReply
  <2>2. Head(thread.out) = thread.out[1] /\ 1 \in DOMAIN thread.out
    BY <1>3, <1>4, TailFacts, LenFacts
  <2> QED BY <1>1, <1>2, <2>1, <2>2 DEF Reached
<1>5. CASE thread.out = <<>>
  <2>1. Len(thread.out) = 0 /\ Len(queue) >= 1 /\ Len(queue) \in Nat /\ Len(thread.inbox) \in Nat
    BY <1>1, <1>3, <1>5, LenFacts, TailFacts
  <2>2. Len(queue) = Len(thread.inbox) /\ thread.inbox[1] = queue[1]
    <3>1. Len(queue) = Len(thread.out) + Len(thread.inbox)
          /\ \A i \in 1..Len(queue) :
               IF i <= Len(thread.out) THEN thread.out[i].kind = "reply" /\ thread.out[i].id = queue[i]
                                       ELSE thread.inbox[i - Len(thread.out)] = queue[i]
      BY <1>2, <1>3, PlacedZero
    <3>2. 1 \in 1..Len(queue) /\ ~(1 <= Len(thread.out)) /\ 1 - Len(thread.out) = 1
      BY <2>1
    <3> QED BY <2>1, <3>1, <3>2
  <2>3. thread.inbox # <<>>
    BY <1>3, <2>1, <2>2, LenFacts
  <2>4. Head(thread.inbox) = Head(queue)
    BY <1>1, <1>3, <2>2, <2>3, TailFacts
  <2> QED BY <1>1, <1>2, <2>3, <2>4 DEF Reached
<1> QED BY <1>4, <1>5

LEMMA TickIInv == ASSUME IInv, Tick PROVE IInv'
<1>1. /\ timer' = IF timer > 0 THEN timer - 1 ELSE timer
      /\ onIt' = [id \in Ids |-> IF Reached(id) /\ onIt[id] < Deadline THEN onIt[id] + 1
                                                                     ELSE onIt[id]]
      /\ UNCHANGED <<nextId, queue, thread, ready, answer, stale>>
  BY DEF Tick
<1>2. timer \in {Off} \union 0..Deadline /\ onIt \in [Ids -> 0..Deadline]
  BY Typed DEF IInv
<1>3. timer' \in {Off} \union 0..Deadline /\ (timer' # Off <=> timer # Off)
  BY <1>1, <1>2 DEF Off
<1>4. \A id \in Ids : onIt'[id] \in 0..Deadline
  BY <1>1, <1>2
<1>5. onIt' \in [Ids -> 0..Deadline]
  BY <1>1, <1>4
<1>6. TypeOK'
  BY <1>1, <1>3, <1>5 DEF IInv, TypeOK
<1>7. Order' /\ Posted'
  BY <1>1 DEF IInv, Order, Posted, Alive
<1>8. NothingLost'
  BY <1>1, <1>3 DEF IInv, NothingLost, Alive, Unready
<1>9. Clock'
  <2> SUFFICES ASSUME timer' # Off, ~thread.dead PROVE onIt'[Head(queue)] >= Deadline - timer'
    BY <1>1 DEF Clock
  <2> DEFINE h == Head(queue)
  <2>1. h \in Ids
    BY <1>3, HeadFacts DEF IInv, NothingLost
  <2>2. Reached(h) /\ onIt[h] >= Deadline - timer
    BY <1>3, OldestReached DEF IInv, Clock
  <2>3. onIt[h] \in 0..Deadline /\ timer \in 0..Deadline
    BY <1>2, <1>3, <2>1
  <2>4. onIt'[h] = IF onIt[h] < Deadline THEN onIt[h] + 1 ELSE onIt[h]
    BY <1>1, <2>1, <2>2
  <2> QED BY <1>1, <2>2, <2>3, <2>4
<1> QED BY <1>6, <1>7, <1>8, <1>9 DEF IInv

LEMMA StepIInv == ASSUME IInv, [Next]_vars PROVE IInv'
<1>1. CASE UNCHANGED vars
  <2>1. TypeOK'
    BY <1>1 DEF IInv, TypeOK, vars
  <2>2. Order' /\ Posted' /\ Clock'
    BY <1>1 DEF IInv, Order, Posted, Clock, Alive, vars
  <2>3. NothingLost'
    BY <1>1 DEF IInv, NothingLost, Alive, Unready, vars
  <2> QED BY <2>1, <2>2, <2>3 DEF IInv
<1>2. CASE DeadlineFires
  BY <1>2, FailIInv DEF DeadlineFires, Failures
<1>3. CASE DeliverStale
  BY <1>3, StaleIInv DEF DeliverStale
<1>4. CASE \E result \in Results : Work(result)
  BY <1>4, WorkIInv
<1>5. CASE Send \/ Deliver \/ Boot \/ Crashes \/ Tick
  BY <1>5, SendIInv, DeliverIInv, BootIInv, CrashIInv, TickIInv
<1> QED BY <1>1, <1>2, <1>3, <1>4, <1>5 DEF Next

\* The inductive invariant holds in every run.
THEOREM ReaderInvariant == Spec => []IInv
<1>1. Init => IInv
  BY InitIInv
<1>2. IInv /\ [Next]_vars => IInv'
  BY StepIInv
<1> QED BY <1>1, <1>2, PTL DEF Spec

-----------------------------------------------------------------------------
(* What is promised. *)

\* Every variable keeps its type.
THEOREM Typing == Spec => []TypeOK
<1>1. IInv => TypeOK
  BY DEF IInv
<1> QED BY <1>1, ReaderInvariant, PTL

\* No read is lost between the queue of the main thread and the thread it was sent
\* to, whatever threads die, hang or are replaced.
THEOREM NothingIsLost == Spec => []NothingLost
<1>1. IInv => NothingLost
  BY DEF IInv
<1> QED BY <1>1, ReaderInvariant, PTL

\* A read that fails for its deadline had the whole of it, from when its thread
\* reached it, unless the thread had died.
LEMMA FullTimeStep ==
  ASSUME IInv, [Next]_vars, NEW id \in Ids, answer[id] = "none", answer'[id] = "reader_deadline"
  PROVE  onIt[id] = Deadline \/ thread.dead
<1>1. answer' # answer
  BY DEF IInv, TypeOK
<1>2. CASE DeadlineFires
  <2>1. timer = 0 /\ queue # <<>>
    BY <1>2 DEF DeadlineFires, IInv, NothingLost, Off
  <2>2. answer' = [answer EXCEPT ![Head(queue)] = "reader_deadline"]
    BY <1>2, <2>1 DEF DeadlineFires, Fail
  <2>3. id = Head(queue)
    BY <2>2 DEF IInv, TypeOK
  <2>4. ~thread.dead => onIt[id] >= Deadline - 0
    BY <2>1, <2>3 DEF IInv, Clock, Off
  <2>5. onIt[id] \in 0..Deadline
    BY Typed DEF IInv
  <2> QED BY <2>4, <2>5
<1>3. CASE Deliver
  <2>1. CASE Fail("reader_thread_crashed")
    <3>1. queue # <<>> /\ answer' = [answer EXCEPT ![Head(queue)] = "reader_thread_crashed"]
      BY <1>1, <2>1 DEF Fail
    <3>2. answer'[id] = "reader_thread_crashed" \/ answer'[id] = answer[id]
      BY <3>1 DEF IInv, TypeOK
    <3> QED BY <3>2
  <2>2. CASE Head(thread.out).kind = "reply" /\ OnReply(Head(thread.out))
    <3> DEFINE e == Head(thread.out)
    <3>1. thread.out # <<>> /\ thread.out \in Seq(Events)
      BY <1>3, Typed, ThreadFields DEF Deliver, IInv
    <3>2. e \in Events
      BY <3>1, TailFacts
    <3>3. e.result \in Results
      BY <2>2, <3>2, EventFacts
    <3>4. answer' = [answer EXCEPT ![e.id] = e.result]
      BY <1>1, <2>2 DEF OnReply, Outcome
    <3> HIDE DEF e
    <3>5. answer'[id] = e.result \/ answer'[id] = answer[id]
      BY <3>4 DEF IInv, TypeOK
    <3> QED BY <3>3, <3>5 DEF Results
  <2>3. CASE OnReady
    BY <1>1, <2>3 DEF OnReady
  <2> QED BY <1>3, <2>1, <2>2, <2>3 DEF Deliver
<1>4. CASE UNCHANGED vars \/ Send \/ DeliverStale \/ Boot \/ Tick
  BY <1>1, <1>4 DEF vars, Send, DeliverStale, OnStale, Boot, Tick
<1>5. CASE Crashes \/ \E result \in Results : Work(result)
  BY <1>1, <1>5 DEF Crashes, Die, Work
<1> QED BY <1>2, <1>3, <1>4, <1>5 DEF Next

\* A read that fails for its deadline had the whole of it: FullTime, for every
\* deadline.
THEOREM FullTimeGiven == Spec => FullTime
<1>1. IInv /\ [Next]_vars =>
        [\A id \in Ids : answer[id] = "none" /\ answer'[id] = "reader_deadline"
                         => onIt[id] = Deadline \/ thread.dead]_vars
  BY FullTimeStep
<1> QED BY <1>1, ReaderInvariant, PTL DEF Spec, FullTime

-----------------------------------------------------------------------------
(* The promise. *)

Values == {"none"} \union Results \union Failures

\* What the first n reads were settled with.
Settlements(n, given) == [i \in 1..n |-> given[i - 1]]

LEMMA SettlementsFacts ==
  ASSUME NEW n \in 0..MaxReads, NEW given \in [Ids -> Values]
  PROVE  /\ Settlements(n, given) \in Seq(Values) /\ Len(Settlements(n, given)) = n
         /\ \A i \in 1..n : Settlements(n, given)[i] = given[i - 1]
<1> DEFINE q == Settlements(n, given)
<1>1. \A i \in 1..n : i - 1 \in Ids
  BY DEF Ids
<1>2. q \in [1..n -> Values] /\ \A i \in 1..n : q[i] = given[i - 1]
  BY <1>1 DEF Settlements
<1> HIDE DEF q
<1>3. q \in Seq(Values) /\ Len(q) = n
  BY <1>2
<1> QED BY <1>2, <1>3 DEF q

\* One more read is settled: one more outcome, at the end.
LEMMA OneMore ==
  ASSUME NEW n \in Ids, NEW given \in [Ids -> Values], NEW given2 \in [Ids -> Values],
         NEW v \in Values, \A i \in 1..n : given2[i - 1] = given[i - 1], given2[n] = v
  PROVE  Settlements(n + 1, given2) = Append(Settlements(n, given), v)
<1> DEFINE q == Settlements(n, given)
<1> DEFINE r == Settlements(n + 1, given2)
<1>1. n \in 0..MaxReads /\ n + 1 \in 0..MaxReads /\ n + 1 - 1 = n
  BY DEF Ids
<1>2. q \in Seq(Values) /\ Len(q) = n /\ \A i \in 1..n : q[i] = given[i - 1]
  BY <1>1, SettlementsFacts
<1>3. r \in Seq(Values) /\ Len(r) = n + 1 /\ \A i \in 1..(n + 1) : r[i] = given2[i - 1]
  BY <1>1, SettlementsFacts
<1> HIDE DEF q, r
<1>4. /\ Append(q, v) \in Seq(Values) /\ Len(Append(q, v)) = n + 1
      /\ \A i \in 1..n : Append(q, v)[i] = q[i]
      /\ Append(q, v)[n + 1] = v
  BY <1>2, AppendFacts
<1>5. ASSUME NEW i \in 1..(n + 1) PROVE r[i] = Append(q, v)[i]
  <2>1. i \in 1..n \/ i = n + 1
    BY <1>1
  <2>2. i = n + 1 => r[i] = v
    BY <1>1, <1>3
  <2> QED BY <1>2, <1>3, <1>4, <2>1, <2>2
<1>6. r = Append(q, v)
  BY <1>1, <1>3, <1>4, <1>5, SeqEqual
<1> QED BY <1>6 DEF q, r

\* The reads that are settled are those before the head of the queue.
LEMMA Count ==
  ASSUME IInv
  PROVE  /\ nextId - Len(queue) \in Nat /\ nextId \in Nat /\ Len(queue) \in Nat
         /\ nextId - Len(queue) < nextId <=> queue # <<>>
<1>1. nextId \in Nat /\ Len(queue) \in Nat /\ Len(queue) <= nextId /\ (queue = <<>> <=> Len(queue) = 0)
  BY Typed DEF IInv, Order
<1> QED BY <1>1

\* The read at the head of the queue is settled: the outcome of each read before it
\* stays what it is.
LEMMA HeadSettled ==
  ASSUME IInv, NEW v \in Values, queue # <<>>, answer' = [answer EXCEPT ![Head(queue)] = v],
         queue' = Tail(queue), nextId' = nextId
  PROVE  /\ Settlements(nextId' - Len(queue'), answer')
              = Append(Settlements(nextId - Len(queue), answer), v)
<1> DEFINE n == nextId - Len(queue)
<1>1. /\ Head(queue) \in Ids /\ Head(queue) = n
      /\ Len(Tail(queue)) = Len(queue) - 1
  BY HeadFacts DEF IInv
<1>2. n \in Nat /\ nextId' - Len(queue') = n + 1
  BY <1>1, Count
<1>3. answer \in [Ids -> Values] /\ answer' \in [Ids -> Values]
  BY DEF IInv, TypeOK, Values
<1>4. \A i \in 1..n : answer'[i - 1] = answer[i - 1]
  <2>1. \A i \in 1..n : i - 1 \in Ids /\ i - 1 # n
    BY <1>1, <1>2 DEF Ids
  <2> QED BY <1>1, <1>3, <2>1
<1>5. answer'[n] = v
  BY <1>1, <1>3
<1>6. PICK m, g, g2 : m = n /\ g = answer /\ g2 = answer'
  OBVIOUS
<1>7. m \in Ids /\ g \in [Ids -> Values] /\ g2 \in [Ids -> Values]
      /\ (\A i \in 1..m : g2[i - 1] = g[i - 1]) /\ g2[m] = v
  BY <1>1, <1>3, <1>4, <1>5, <1>6
<1>8. Settlements(m + 1, g2) = Append(Settlements(m, g), v)
  BY <1>7, OneMore
<1> QED BY <1>2, <1>6, <1>8

\* The promise, with the reader's state put into it.
Settled == Settlements(nextId - Len(queue), answer)
Broken == thread.there /\ thread.dead

LEMMA PromiseForms ==
  /\ P!Quiet <=> nextId = 0 /\ Settled = <<>> /\ ~Broken
  /\ (nextId' = nextId /\ Settled' = Settled /\ Broken' = Broken) => UNCHANGED P!pvars
  /\ P!Ask <=> nextId' = nextId + 1 /\ Settled' = Settled /\ Broken' = Broken
  /\ P!Settle <=> /\ Len(Settled) < nextId
                  /\ \E v \in Results : Settled' = Append(Settled, v)
                  /\ nextId' = nextId /\ Broken' = Broken
  /\ P!Break <=> ~Broken /\ Broken' = TRUE /\ nextId' = nextId /\ Settled' = Settled
  /\ P!Crash <=> /\ Broken /\ ~Broken'
                 /\ Settled' = IF Len(Settled) < nextId
                               THEN Append(Settled, "reader_thread_crashed") ELSE Settled
                 /\ nextId' = nextId
  /\ P!TimeOut <=> /\ Len(Settled) < nextId
                    /\ Settled' = Append(Settled, "reader_deadline")
                    /\ Broken' = FALSE /\ nextId' = nextId
  BY DEF P!Quiet, P!pvars, P!Ask, P!Settle, P!Break, P!Crash, P!TimeOut, P!Outcomes,
         Settled, Settlements, Broken, Results

LEMMA PromiseInit == Init => P!Quiet
<1> SUFFICES ASSUME Init PROVE P!Quiet
  OBVIOUS
<1>1. IInv /\ nextId = 0 /\ queue = <<>> /\ ~thread.dead
  BY InitIInv DEF Init, NewThread, Thread
<1>2. nextId - Len(queue) = 0
  <2>1. Len(queue) = 0
    BY <1>1
  <2>2. nextId = 0
    BY <1>1
  <2> QED BY <2>1, <2>2
<1>3. answer \in [Ids -> Values]
  BY <1>1 DEF IInv, TypeOK, Values
<1>4. Settlements(0, answer) \in Seq(Values) /\ Len(Settlements(0, answer)) = 0
  BY <1>3, SettlementsFacts
<1>5. Settlements(0, answer) = <<>>
  BY <1>4
<1> QED BY <1>1, <1>2, <1>5, PromiseForms DEF Settled, Broken

\* As many reads are settled as were sent and do not wait.
LEMMA SettledLen ==
  ASSUME IInv PROVE Len(Settled) < nextId <=> queue # <<>>
<1>1. answer \in [Ids -> Values] /\ nextId - Len(queue) \in 0..MaxReads
  <2>1. nextId <= MaxReads /\ nextId \in Nat /\ Len(queue) \in Nat /\ nextId - Len(queue) \in Nat
    BY Typed, Count DEF IInv
  <2> QED BY <2>1 DEF IInv, TypeOK, Values
<1>2. Len(Settled) = nextId - Len(queue)
  BY <1>1, SettlementsFacts DEF Settled
<1> QED BY <1>2, Count

LEMMA PromiseFail ==
  ASSUME IInv, NEW reason \in Failures, Fail(reason)
  PROVE  /\ nextId' = nextId /\ ~Broken'
         /\ Settled' = IF queue # <<>> THEN Append(Settled, reason) ELSE Settled
<1>1. nextId' = nextId
  BY DEF Fail
<1>2. ~Broken'
  <2>1. thread' = NoThread \/ \E q : thread' = Thread(TRUE, FALSE, FALSE, q, <<>>, TRUE)
    BY DEF Fail
  <2>2. ~thread'.dead
    BY <2>1, NoThreadFacts DEF Thread
  <2> QED BY <2>2 DEF Broken
<1>3. CASE queue = <<>>
  <2>1. queue' = queue /\ answer' = answer
    BY <1>3 DEF Fail
  <2> QED BY <1>1, <1>2, <1>3, <2>1 DEF Settled
<1>4. CASE queue # <<>>
  <2>1. queue' = Tail(queue) /\ answer' = [answer EXCEPT ![Head(queue)] = reason]
    BY <1>4 DEF Fail
  <2>2. reason \in Values
    BY DEF Values
  <2>3. Settled' = Append(Settled, reason)
    BY <1>1, <1>4, <2>1, <2>2, HeadSettled DEF Settled
  <2> QED BY <1>1, <1>2, <1>4, <2>3
<1> QED BY <1>3, <1>4

\* Every step of the reader is a step of the promise, or none.
LEMMA PromiseStep == ASSUME IInv, [Next]_vars PROVE [P!Step]_(P!pvars)
<1>1. CASE Send
  <2>1. nextId' = nextId + 1 /\ queue' = Append(queue, nextId) /\ answer' = answer
    BY <1>1 DEF Send
  <2>2. nextId' - Len(queue') = nextId - Len(queue)
    <3>1. nextId \in Ids /\ queue \in Seq(Ids) /\ nextId \in Nat /\ Len(queue) \in Nat
      BY <1>1, Typed DEF IInv, Send, Ids
    <3>2. Len(queue') = Len(queue) + 1
      BY <2>1, <3>1, AppendFacts
    <3> QED BY <2>1, <3>1, <3>2
  <2>3. thread'.there /\ thread'.dead = (IF thread.there THEN thread ELSE NewThread).dead
    BY <1>1 DEF Send, Post, Thread
  <2>4. thread.there \in BOOLEAN /\ thread.dead \in BOOLEAN
    BY Typed, ThreadFields DEF IInv
  <2>5. Broken' = Broken
    BY <2>3, <2>4, NoThreadFacts DEF Broken
  <2>6. Settled' = Settled
    BY <2>1, <2>2 DEF Settled
  <2>7. P!Ask
    BY <2>1, <2>5, <2>6, PromiseForms
  <2> QED BY <2>7 DEF P!Step
<1>2. CASE DeadlineFires
  <2>1. queue # <<>> /\ Fail("reader_deadline")
    BY <1>2 DEF DeadlineFires, IInv, NothingLost, Off
  <2>2. nextId' = nextId /\ ~Broken' /\ Settled' = Append(Settled, "reader_deadline")
    BY <2>1, PromiseFail DEF Failures
  <2>3. Broken' = FALSE
    BY <2>2 DEF Broken
  <2>4. P!TimeOut
    BY <2>1, <2>2, <2>3, SettledLen, PromiseForms
  <2> QED BY <2>4 DEF P!Step
<1>3. CASE Deliver
  <2>1. /\ thread.there /\ thread.out # <<>> /\ thread.ref \in BOOLEAN
        /\ thread.out \in Seq(Events) /\ thread.there \in BOOLEAN /\ thread.dead \in BOOLEAN
    BY <1>3, Typed, ThreadFields DEF IInv, Deliver
  <2>2. \A ref \in BOOLEAN : Take(ref) => Broken' = Broken
    BY <2>1, TakeFacts DEF Broken
  <2>3. CASE OnReady
    <3>1. Settled' = Settled /\ nextId' = nextId /\ Take(thread.ref)
      BY <2>3 DEF OnReady, Settled
    <3>2. UNCHANGED P!pvars
      BY <2>1, <2>2, <3>1, PromiseForms
    <3> QED BY <3>2
  <2>4. CASE Head(thread.out).kind = "reply" /\ OnReply(Head(thread.out))
    <3> DEFINE e == Head(thread.out)
    <3>1. e \in Events
      BY <2>1, TailFacts
    <3>2. e.result \in Results
      BY <2>4, <3>1, EventFacts
    <3>3. CASE queue # <<>> /\ Head(queue) = e.id
      <4>1. /\ queue' = Tail(queue) /\ answer' = [answer EXCEPT ![Head(queue)] = e.result]
            /\ nextId' = nextId /\ Take(thread.ref /\ Tail(queue) # <<>>)
        BY <2>4, <3>3 DEF OnReply, Outcome
      <4>2. (thread.ref /\ Tail(queue) # <<>>) \in BOOLEAN
        OBVIOUS
      <4>3. e.result \in Values
        BY <3>2 DEF Values
      <4> HIDE DEF e
      <4>4. Settled' = Append(Settled, e.result)
        BY <3>3, <4>1, <4>3, HeadSettled DEF Settled
      <4>5. Broken' = Broken
        BY <2>2, <4>1, <4>2
      <4>6. P!Settle
        BY <3>2, <3>3, <4>1, <4>4, <4>5, SettledLen, PromiseForms
      <4> QED BY <4>6 DEF P!Step
    <3>4. CASE ~(queue # <<>> /\ Head(queue) = e.id)
      <4>1. Settled' = Settled /\ nextId' = nextId /\ Take(thread.ref)
        BY <2>4, <3>4 DEF OnReply, Settled
      <4>2. UNCHANGED P!pvars
        BY <2>1, <2>2, <4>1, PromiseForms
      <4> QED BY <4>2
    <3> QED BY <3>3, <3>4
  <2>5. CASE Head(thread.out).kind = "died" /\ Fail("reader_thread_crashed")
    <3>1. Head(thread.out) = thread.out[1] /\ 1 \in DOMAIN thread.out
      BY <2>1, TailFacts, LenFacts
    <3>2. Broken
      BY <2>1, <2>5, <3>1 DEF Broken, IInv, Posted
    <3>3. nextId' = nextId /\ ~Broken'
          /\ Settled' = IF queue # <<>> THEN Append(Settled, "reader_thread_crashed") ELSE Settled
      BY <2>5, PromiseFail DEF Failures
    <3>4. P!Crash
      BY <3>2, <3>3, SettledLen, PromiseForms
    <3> QED BY <3>4 DEF P!Step
  <2> QED BY <1>3, <2>3, <2>4, <2>5 DEF Deliver
<1>4. CASE Crashes
  <2>1. PICK out : Die(out)
    BY <1>4 DEF Crashes
  <2>2. ~Broken /\ Broken' = TRUE /\ nextId' = nextId /\ Settled' = Settled
    BY <2>1 DEF Die, Thread, Broken, Alive, Settled
  <2>3. P!Break
    BY <2>2, PromiseForms
  <2> QED BY <2>3 DEF P!Step
<1>5. CASE Boot \/ \E result \in Results : Work(result)
  <2>1. /\ Settled' = Settled /\ nextId' = nextId
        /\ thread.there /\ ~thread.dead /\ ~thread'.dead
    BY <1>5 DEF Boot, Work, Posts, Thread, Alive, Settled
  <2>2. Broken' = Broken
    BY <2>1 DEF Broken
  <2>3. UNCHANGED P!pvars
    BY <2>1, <2>2, PromiseForms
  <2> QED BY <2>3
<1>6. CASE UNCHANGED vars \/ DeliverStale \/ Tick
  <2>1. Settled' = Settled /\ nextId' = nextId /\ Broken' = Broken
    BY <1>6 DEF vars, DeliverStale, OnStale, Tick, Settled, Broken
  <2>2. UNCHANGED P!pvars
    BY <2>1, PromiseForms
  <2> QED BY <2>2
<1> QED BY <1>1, <1>2, <1>3, <1>4, <1>5, <1>6 DEF Next

\* The reader keeps its promise: reads are settled once each, in the order in which
\* they were sent, and a thread that breaks down costs one of them at most.
THEOREM ReaderKeepsPromise == Spec => KeepsPromise
<1>1. Init => P!Quiet
  BY PromiseInit
<1>2. IInv /\ [Next]_vars => [P!Step]_(P!pvars)
  BY PromiseStep
<1> QED BY <1>1, <1>2, ReaderInvariant, PTL DEF Spec, KeepsPromise, P!Promise
=============================================================================
