---------------------------- MODULE ThreadReader ----------------------------
(***************************************************************************)
(* The page reader of the worker: ThreadReader on the main thread          *)
(* (reader/thread-reader.ts) and the reader thread it sends the pages to   *)
(* (reader/thread.ts), which may hang, run out of memory or be stopped.    *)
(*                                                                         *)
(* One action is one turn of the main thread's event loop, or what the     *)
(* reader thread does between two messages.  thread is the thread that     *)
(* ThreadReader.thread holds; of the threads it has let go only what they  *)
(* may still deliver is kept.                                              *)
(***************************************************************************)
EXTENDS Integers, Sequences, FiniteSets

CONSTANTS
  Deadline,   \* READ_DEADLINE_MS
  MaxReads    \* the bound: reads sent in the life of the process

ASSUME ReaderAssumption == Deadline \in Nat \ {0} /\ MaxReads \in Nat

Ids == 0..(MaxReads - 1)
Results == {"read", "error"}
Failures == {"reader_deadline", "reader_thread_crashed"}

\* What a thread delivers: ReadyMessage, a ReadReply, its error or its exit.
Ready == [kind |-> "ready", id |-> 0, result |-> "read"]
Reply(id, result) == [kind |-> "reply", id |-> id, result |-> result]
Died == [kind |-> "died", id |-> 0, result |-> "read"]
Events == {Ready, Died} \union {Reply(id, v) : id \in Ids, v \in Results}

VARIABLES
  nextId,   \* the id of the next read
  queue,    \* the unanswered reads, oldest first
  thread,   \* the current thread, or NoThread
  ready,    \* the current thread has said that it is ready
  timer,    \* what is left of the deadline, or Off
  answer,   \* what each read was settled with
  stale,    \* what threads that were let go may still deliver
  onIt      \* how long the current thread has been on, or done with, each read

vars == <<nextId, queue, thread, ready, timer, answer, stale, onIt>>

Off == -1

\* up: it has loaded its entry.  inbox: the reads sent to it and not answered.
\* out: what it has posted and the main thread has not taken.  ref: it keeps the
\* process open.
Thread(there, up, dead, inbox, out, ref) ==
  [there |-> there, up |-> up, dead |-> dead, inbox |-> inbox, out |-> out, ref |-> ref]
NoThread == Thread(FALSE, FALSE, FALSE, <<>>, <<>>, FALSE)
NewThread == Thread(TRUE, FALSE, FALSE, <<>>, <<>>, FALSE)

Alive == thread.there /\ ~thread.dead

TypeOK ==
  /\ nextId \in 0..MaxReads
  /\ queue \in Seq(Ids)
  /\ thread \in [there : BOOLEAN, up : BOOLEAN, dead : BOOLEAN,
                 inbox : Seq(Ids), out : Seq(Events), ref : BOOLEAN]
  /\ ready \in BOOLEAN
  /\ timer \in {Off} \union 0..Deadline
  /\ answer \in [Ids -> {"none"} \union Results \union Failures]
  /\ stale \subseteq Events
  /\ onIt \in [Ids -> 0..Deadline]

\* main.ts starts the thread, and waits until it is ready, before it listens.
Init ==
  /\ nextId = 0 /\ queue = <<>>
  /\ thread = [NewThread EXCEPT !.up = TRUE]
  /\ ready = TRUE /\ timer = Off
  /\ answer = [id \in Ids |-> "none"]
  /\ stale = {} /\ onIt = [id \in Ids |-> 0]

-----------------------------------------------------------------------------
(* The main thread. *)

\* A read is sent to thread t, which holds the process open from now on.  What is
\* sent to a thread that is dead is lost.
Post(t, id) ==
  Thread(TRUE, t.up, t.dead, IF t.dead THEN t.inbox ELSE Append(t.inbox, id), t.out, TRUE)

Arm(q, isReady) == IF q = <<>> \/ ~isReady THEN Off ELSE Deadline

\* words, page.
Send ==
  /\ nextId < MaxReads
  /\ nextId' = nextId + 1
  /\ queue' = Append(queue, nextId)
  /\ thread' = Post(IF thread.there THEN thread ELSE NewThread, nextId)
  /\ ready' = (ready /\ thread.there)
  /\ timer' = IF queue = <<>> THEN Arm(queue', ready') ELSE timer
  /\ UNCHANGED <<answer, stale, onIt>>

\* What thread t may still deliver once it was let go: what it has posted, what
\* it posts before it stops, and its exit.
LastWords(t) ==
  {t.out[i] : i \in DOMAIN t.out} \union {Died}
  \union (IF t.up THEN {} ELSE {Ready})
  \union {Reply(t.inbox[i], v) : i \in DOMAIN t.inbox, v \in Results}

\* Mutant of Resent: only the read after the one that failed is sent again.
MutantResent(q) == IF q = <<>> THEN <<>> ELSE <<Head(q)>>

Resent(q) == q

\* The read the thread is on fails; the thread is let go, and the rest go to a
\* new one.
Fail(reason) ==
  LET rest == IF queue = <<>> THEN <<>> ELSE Tail(queue)
  IN  /\ queue' = rest
      /\ answer' = IF queue = <<>> THEN answer
                   ELSE [answer EXCEPT ![Head(queue)] = reason]
      /\ thread' = IF rest = <<>> THEN NoThread
                   ELSE Thread(TRUE, FALSE, FALSE, Resent(rest), <<>>, TRUE)
      /\ ready' = (ready /\ rest = <<>>)
      /\ timer' = Arm(rest, ready')
      /\ stale' = stale \union LastWords(thread)
      /\ onIt' = [id \in Ids |-> 0]
      /\ UNCHANGED nextId

\* The first of what the thread has posted is taken.
Take(ref) == thread' = Thread(TRUE, thread.up, thread.dead, thread.inbox, Tail(thread.out), ref)

\* Mutant of ReadyTimer: the deadline starts with a read that is sent, only.
MutantReadyTimer == timer

ReadyTimer == Arm(queue, TRUE)

OnReady ==
  /\ ready' = TRUE
  /\ timer' = ReadyTimer
  /\ Take(thread.ref)
  /\ UNCHANGED <<nextId, queue, answer, stale, onIt>>

\* Mutant of ReplyTimer: the next read gets what its predecessor has left.
MutantReplyTimer(q) == IF q = <<>> THEN Off ELSE timer

ReplyTimer(q) == Arm(q, ready)

Outcome(e) == e.result

OnReply(e) ==
  IF queue # <<>> /\ Head(queue) = e.id
  THEN /\ queue' = Tail(queue)
       /\ answer' = [answer EXCEPT ![e.id] = Outcome(e)]
       /\ timer' = ReplyTimer(Tail(queue))
       /\ Take(thread.ref /\ Tail(queue) # <<>>)
       /\ UNCHANGED <<nextId, ready, stale, onIt>>
  ELSE /\ Take(thread.ref)
       /\ UNCHANGED <<nextId, queue, ready, timer, answer, stale, onIt>>

Deliver ==
  /\ thread.there /\ thread.out # <<>>
  /\ LET e == Head(thread.out)
     IN  \/ e.kind = "ready" /\ OnReady
         \/ e.kind = "reply" /\ OnReply(e)
         \/ e.kind = "died" /\ Fail("reader_thread_crashed")

\* Mutant of OnStale: the handlers do not ask which thread is current.
MutantOnStale(e) ==
  \/ e.kind = "ready" /\ ready' = TRUE /\ timer' = Arm(queue, TRUE)
     /\ UNCHANGED <<nextId, queue, thread, answer, stale, onIt>>
  \/ e.kind = "died" /\ Fail("reader_thread_crashed")

\* A thread that is not the current one is not listened to.
OnStale(e) ==
  stale' = stale \ {e} /\ UNCHANGED <<nextId, queue, thread, ready, timer, answer, onIt>>

DeliverStale == \E e \in stale : OnStale(e)

DeadlineFires == timer = 0 /\ Fail("reader_deadline")

-----------------------------------------------------------------------------
(* The reader thread, and time. *)

\* A thread that has loaded posts e, and has inbox left to do.
Posts(inbox, e) == thread' = Thread(TRUE, TRUE, FALSE, inbox, Append(thread.out, e), thread.ref)

Boot ==
  /\ Alive /\ ~thread.up
  /\ Posts(thread.inbox, Ready)
  /\ UNCHANGED <<nextId, queue, ready, timer, answer, stale, onIt>>

\* It answers each message in turn; a read that throws is answered as well.
Work(result) ==
  /\ Alive /\ thread.up /\ thread.inbox # <<>>
  /\ Posts(Tail(thread.inbox), Reply(Head(thread.inbox), result))
  /\ UNCHANGED <<nextId, queue, ready, timer, answer, stale, onIt>>

\* It runs out of memory (an error and an exit) or exits.
Die(out) ==
  /\ Alive
  /\ thread' = Thread(TRUE, thread.up, TRUE, thread.inbox, out, thread.ref)
  /\ UNCHANGED <<nextId, queue, ready, timer, answer, stale, onIt>>

Crashes == LET exit == Append(thread.out, Died) IN Die(exit) \/ Die(Append(exit, Died))

Reached(id) ==
  /\ thread.there /\ thread.up
  /\ \/ thread.inbox # <<>> /\ Head(thread.inbox) = id
     \/ \E i \in DOMAIN thread.out : thread.out[i].kind = "reply" /\ thread.out[i].id = id

Tick ==
  /\ timer' = IF timer > 0 THEN timer - 1 ELSE timer
  /\ onIt' = [id \in Ids |-> IF Reached(id) /\ onIt[id] < Deadline THEN onIt[id] + 1 ELSE onIt[id]]
  /\ UNCHANGED <<nextId, queue, thread, ready, answer, stale>>

Next ==
  \/ Send
  \/ Deliver
  \/ DeliverStale
  \/ DeadlineFires
  \/ Boot
  \/ \E result \in Results : Work(result)
  \/ Crashes
  \/ Tick

Spec == Init /\ [][Next]_vars

\* The event loop takes what is posted to it, timers that are due fire, and a
\* thread that loads its entry, which it could load when the process started,
\* loads it or dies.  A read may take for ever.
Loads == Alive /\ ~thread.up /\ (Boot \/ Crashes)
Fairness ==
  WF_vars(Deliver) /\ WF_vars(DeadlineFires) /\ WF_vars(Loads) /\ WF_vars(Tick)

FairSpec == Spec /\ Fairness

-----------------------------------------------------------------------------
\* What the thread has posted before its first reply and is not taken: Ready.
Unready == IF thread.up /\ ~ready THEN 1 ELSE 0

\* The reads of q are with a thread, each once and in their order: the oldest in
\* its replies, after the first n of what it has posted, and the others in its
\* inbox.
Placed(n, out, inbox, q) ==
  /\ n + Len(q) = Len(out) + Len(inbox)
  /\ \A i \in DOMAIN q :
       IF n + i <= Len(out) THEN out[n + i].kind = "reply" /\ out[n + i].id = q[i]
                            ELSE inbox[n + i - Len(out)] = q[i]

\* While the current thread lives, the unanswered reads are with it; a dead one has
\* its death still to deliver; the thread holds the process open as long as a read
\* waits; and the deadline of the oldest read runs as soon as the thread is known
\* to be ready.
NothingLost ==
  /\ queue # <<>> => thread.there
  /\ Alive => Placed(Unready, thread.out, thread.inbox, queue)
  /\ thread.there /\ thread.dead => \E i \in DOMAIN thread.out : thread.out[i] = Died
  /\ thread.there => (thread.ref <=> queue # <<>>)
  /\ (timer # Off) <=> (queue # <<>> /\ ready)

\* "The read the thread is on has READ_DEADLINE_MS from when the thread reached
\* it": neither the boot, nor the reads before it, nor a thread that was let go
\* take of its time.
FullTime ==
  [][\A id \in Ids : answer[id] = "none" /\ answer'[id] = "reader_deadline"
                     => onIt[id] = Deadline \/ thread.dead]_vars

\* Every read that was sent is settled, however often threads hang or die.
ReadsSettle == []<>(queue = <<>>)

\* "Either way only that read fails": reads are settled in order, once each, and
\* a breakdown costs at most one.
P == INSTANCE ReaderPromise
       WITH sent <- nextId,
            settled <- [i \in 1..(nextId - Len(queue)) |-> answer[i - 1]],
            broken <- thread.there /\ thread.dead
KeepsPromise == P!Promise
=============================================================================
