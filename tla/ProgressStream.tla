--------------------------- MODULE ProgressStream ---------------------------
(***************************************************************************)
(* How one page follows one audit: the batched writer of the row's         *)
(* activity ring (progress.ts; one writer for each attempt of the crawl    *)
(* step), the event stream that polls the row (stream/route.ts), the wire  *)
(* and the page's EventSource (audit-stream-wiring.ts, audit-activity.ts). *)
(* An event of the feed is <<writer, seq>>: a retried step has a writer of *)
(* its own, whose seq begins again at 1 and which may overlap with the     *)
(* old one.  Who ends the audit is AuditLifecycle's matter.                *)
(***************************************************************************)
EXTENDS Naturals, Sequences, SequencesExt

CONSTANTS
  Attempts,   \* how often the crawl step may run
  MaxEvents,  \* bound: events of each attempt, the last one included
  RingSize,   \* events the row keeps
  FeedSize,   \* events the page keeps
  MaxWire,    \* bound: messages under way before the next poll
  MaxFaults   \* bound: failed reads and writes, connections cut

ASSUME StreamAssumption ==
  /\ {Attempts, RingSize, FeedSize, MaxWire} \subseteq Nat \ {0}
  /\ RingSize <= FeedSize  \* ACTIVITY_RING_SIZE is 30, MAX_FEED_LENGTH 60
  /\ MaxEvents \in [1..Attempts -> Nat \ {0}]
  /\ MaxFaults \in Nat

VARIABLES
  row,     \* the audit's row: its status and the activity ring
  writer,  \* the batcher of each attempt, with the crawl that feeds it
  conn,    \* the stream route's side of the current connection
  wire,    \* what it sent and the page has not received
  page,    \* the page and its EventSource
  faults   \* faults so far

vars == <<row, writer, conn, wire, page, faults>>

Running  == {"pending", "crawling"}
Rank(s)  == CASE s = "none" -> 0 [] s = "pending" -> 1 [] s = "crawling" -> 2 [] OTHER -> 3
Latest(s, n) == SubSeq(s, IF Len(s) > n THEN Len(s) - n + 1 ELSE 1, Len(s))

\* What a poll finds when the row is gone or the read fails.
NoRow == [status |-> "none", activity |-> <<>>]

NoWriter == [state |-> "none", seq |-> 0, ring |-> <<>>, dirty |-> FALSE,
             flushes |-> 0, sent |-> <<>>]
Gone     == [NoWriter EXCEPT !.state = "gone"]
NoConn   == [phase |-> "closed", mark |-> 0, reads |-> {}, final |-> "none"]

Init ==
  /\ row = [status |-> "pending", activity |-> <<>>]
  /\ writer = [b \in 1..Attempts |-> NoWriter]
  /\ conn = NoConn /\ wire = <<>>
  /\ page = [state |-> "waiting", view |-> "none", lastSeq |-> 0, feed |-> <<>>]
  /\ faults = 0

Fault == faults < MaxFaults /\ faults' = faults + 1

-----------------------------------------------------------------------------
(* The audit and its crawl. *)

\* mark-crawling; the failure handler and the owner end the audit; the row expires.
Advance ==
  /\ \/ row.status = "pending" /\ row' = [row EXCEPT !.status = "crawling"]
     \/ row.status \in Running /\ \E s \in {"failed", "canceled"} : row' = [row EXCEPT !.status = s]
     \/ row.status # "deleted" /\ row' = [row EXCEPT !.status = "deleted"]
  /\ UNCHANGED <<writer, conn, wire, page, faults>>

\* The crawl step runs, or runs again though the attempt before may still be alive.
Begin(b) ==
  /\ writer[b].state = "none" /\ (b > 1 => writer[b - 1].state # "none")
  /\ writer' = [writer EXCEPT ![b].state = "crawling"]
  /\ UNCHANGED <<row, conn, wire, page, faults>>

\* The writer takes an event into its ring.
Noted(b) ==
  [writer[b] EXCEPT !.seq = @ + 1, !.dirty = TRUE,
                    !.ring = Latest(Append(@, <<b, writer[b].seq + 1>>), RingSize)]

\* The crawl tells of something; every so many pages, or when the last write is old,
\* the writer queues a write.
Emit(b) ==
  /\ writer[b].state = "crawling" /\ writer[b].seq < MaxEvents[b] - 1
  /\ \E q \in {0, 1} : writer' = [writer EXCEPT ![b] = [Noted(b) EXCEPT !.flushes = @ + q]]
  /\ UNCHANGED <<row, conn, wire, page, faults>>

\* The crawl is over: the last event, and a write that is waited for.
LastFlush(b) ==
  /\ writer[b].state = "crawling"
  /\ writer' = [writer EXCEPT ![b] = [Noted(b) EXCEPT !.flushes = @ + 1, !.state = "flushing"]]
  /\ UNCHANGED <<row, conn, wire, page, faults>>

\* A writer nobody feeds any more and with nothing queued is forgotten, but for the
\* write that was sent.
Left(w) ==
  IF w.state = "gone" /\ w.flushes = 0 THEN [Gone EXCEPT !.sent = w.sent] ELSE w

\* The next write of the chain: the ring as it is now, if anything is new.
StartWrite(b) ==
  /\ writer[b].flushes > 0 /\ writer[b].sent = <<>>
  /\ writer' = [writer EXCEPT ![b] =
                   Left([writer[b] EXCEPT !.flushes = @ - 1, !.dirty = FALSE,
                                          !.sent = IF writer[b].dirty THEN writer[b].ring ELSE <<>>])]
  /\ UNCHANGED <<row, conn, wire, page, faults>>

\* Mutant of Land: the UPDATE without .eq('status', 'crawling').
MutantLand(b) ==
  /\ writer[b].sent # <<>>
  /\ writer' = [writer EXCEPT ![b].sent = <<>>]
  /\ row' = [row EXCEPT !.activity = writer[b].sent]
  /\ UNCHANGED <<conn, wire, page, faults>>

\* The UPDATE, where status = 'crawling'; its failure is swallowed.
Land(b) ==
  /\ writer[b].sent # <<>>
  /\ writer' = [writer EXCEPT ![b].sent = <<>>]
  /\ \/ /\ row' = IF row.status = "crawling" THEN [row EXCEPT !.activity = writer[b].sent] ELSE row
        /\ UNCHANGED faults
     \/ Fault /\ UNCHANGED row
  /\ UNCHANGED <<conn, wire, page>>

\* The last write is through, the results are persisted, the guarded completion comes last.
Complete(b) ==
  /\ writer[b].state = "flushing" /\ writer[b].flushes = 0 /\ writer[b].sent = <<>>
  /\ writer' = [writer EXCEPT ![b] = Gone]
  /\ row' = IF row.status = "crawling" THEN [row EXCEPT !.status = "completed"] ELSE row
  /\ UNCHANGED <<conn, wire, page, faults>>

\* The step throws, and its queued writes still run; or it is killed, and only the one
\* that was sent may still land.
Stop(b) ==
  /\ writer[b].state \in {"crawling", "flushing"}
  /\ \E q \in {0, writer[b].flushes} :
       writer' = [writer EXCEPT ![b] = Left([@ EXCEPT !.state = "gone", !.flushes = q])]
  /\ UNCHANGED <<row, conn, wire, page, faults>>

-----------------------------------------------------------------------------
(* The stream route. *)

\* Mutant of Over: a canceled audit is not taken for an end.
MutantOver(s) == s \in {"completed", "failed"}

Over(s) == s \in {"completed", "failed", "canceled"}

\* A read of the row.
Found == IF row.status = "deleted" THEN NoRow ELSE row

\* EventSource connects, at first and again after a native error or a close; the route
\* reads the row before it starts its interval.
Connect ==
  /\ page.state = "waiting"
  /\ page' = [page EXCEPT !.state = "open"]
  /\ conn' = [NoConn EXCEPT !.phase = "first", !.reads = {Found}]
  /\ wire' = <<>>
  /\ UNCHANGED <<row, writer, faults>>

\* The events of a ring newer than a watermark in the order of their seq, and the watermark
\* after them.
Newer(ring, mark) ==
  LET new == {e \in ToSet(ring) : e[2] > mark}
  IN [i \in 1..Cardinality(new) |->
        CHOOSE e \in new : Cardinality({f \in new : f[2] <= e[2]}) = i]
MarkAfter(events, mark) == IF events = <<>> THEN mark ELSE events[Len(events)][2]

\* snapshot or progress with the status, then the events that are new on this connection.
Sent(r) ==
  LET new == Newer(r.activity, conn.mark)
  IN <<[event |-> "progress", status |-> r.status]>>
       \o (IF new = <<>> THEN <<>> ELSE <<[event |-> "activity", events |-> new]>>)

\* Mutant of Tick: ticks overlap, no inFlight.
MutantTick ==
  /\ conn.phase = "open" /\ Len(wire) < MaxWire
  /\ conn' = [conn EXCEPT !.reads = @ \cup {Found}]
  /\ UNCHANGED <<row, writer, wire, page, faults>>

\* A tick of the interval reads the row, unless the last one still does.
Tick ==
  /\ conn.phase = "open" /\ Len(wire) < MaxWire
  /\ conn.reads = {}
  /\ conn' = [conn EXCEPT !.reads = {Found}]
  /\ UNCHANGED <<row, writer, wire, page, faults>>

\* A read comes back with the row: it is sent, and when the audit is over the results
\* are gathered and no tick comes any more.
Polled(r) ==
  /\ r \in conn.reads /\ r # NoRow
  /\ wire' = wire \o Sent(r)
  /\ conn' = [conn EXCEPT !.reads = @ \ {r},
                          !.mark = MarkAfter(Newer(r.activity, @), @),
                          !.phase = IF Over(r.status) \/ @ = "build" THEN "build" ELSE "open",
                          !.final = IF Over(r.status) THEN r.status ELSE @]
  /\ UNCHANGED <<row, writer, page, faults>>

\* It comes back with nothing, or fails: the interval goes on.
PolledNothing(r) ==
  /\ r \in conn.reads
  /\ \/ r = NoRow /\ UNCHANGED faults
     \/ Fault
  /\ conn' = [conn EXCEPT !.reads = @ \ {r}, !.phase = IF @ = "build" THEN @ ELSE "open"]
  /\ UNCHANGED <<row, writer, wire, page>>

\* emitDoneAndFinish: 'done' with the results, or 'error' when a read of theirs throws.
Finish ==
  /\ conn.phase = "build"
  /\ \/ wire' = Append(wire, [event |-> "done", status |-> conn.final]) /\ UNCHANGED faults
     \/ Fault /\ wire' = Append(wire, [event |-> "error"])
  /\ conn' = NoConn
  /\ UNCHANGED <<row, writer, page>>

\* The route closes before the platform kills it, though a read is under way: what the
\* read brings finds the stream closed.
SelfClose ==
  /\ conn.phase = "open"
  /\ wire' = Append(wire, [event |-> "close"])
  /\ conn' = NoConn
  /\ UNCHANGED <<row, writer, page, faults>>

\* The connection breaks; what was under way is lost.
Break ==
  /\ page.state = "open" /\ Fault
  /\ page' = [page EXCEPT !.state = "waiting"]
  /\ conn' = NoConn /\ wire' = <<>>
  /\ UNCHANGED <<row, writer>>

-----------------------------------------------------------------------------
(* The page. *)

\* reduceActivity: only what is newer than anything shown.
Fold(events) ==
  LET fresh == Newer(events, page.lastSeq)
  IN [page EXCEPT !.feed = Latest(@ \o fresh, FeedSize), !.lastSeq = MarkAfter(fresh, @)]

\* The page after a message: 'done' and a named 'error' close the EventSource, the end of
\* the stream makes it reconnect.
After(m) ==
  CASE m.event = "progress" -> [page EXCEPT !.view = m.status]
    [] m.event = "activity" -> Fold(m.events)
    [] m.event = "done"     -> [page EXCEPT !.view = m.status, !.state = "done"]
    [] m.event = "error"    -> [page EXCEPT !.state = "error"]
    [] OTHER                -> [page EXCEPT !.state = "waiting"]

Receive ==
  /\ page.state = "open" /\ wire # <<>>
  /\ page' = After(Head(wire))
  /\ wire' = Tail(wire)
  /\ conn' = IF page'.state = "open" THEN conn ELSE NoConn
  /\ UNCHANGED <<row, writer, faults>>

-----------------------------------------------------------------------------
(* The specification. *)

Crawl(b) == Begin(b) \/ Emit(b) \/ LastFlush(b) \/ Complete(b) \/ Stop(b)
Write(b) == StartWrite(b) \/ Land(b)
Reply    == \E r \in conn.reads : Polled(r) \/ PolledNothing(r)

Next ==
  \/ Advance
  \/ \E b \in 1..Attempts : Crawl(b) \/ Write(b)
  \/ Connect \/ Tick \/ Reply \/ Finish \/ SelfClose \/ Break
  \/ Receive

\* The interval ticks, reads come back, messages arrive, EventSource reconnects.
\* Nothing obliges the crawl, the owner or the clock.
Fairness == WF_vars(Connect) /\ WF_vars(Tick) /\ WF_vars(Reply \/ Finish) /\ WF_vars(Receive)

Spec     == Init /\ [][Next]_vars
FairSpec == Spec /\ Fairness

-----------------------------------------------------------------------------
(* Properties. *)

Feed == ToSet(page.feed)

\* The feed never shows an event twice or goes back to an earlier one, and when 'done' has
\* come it has every event the row keeps, however often the connection broke or closed;
\* only events of a retried crawl that come under a number already shown are left out
\* (progress.ts: "KNOWN LIMITATION"; audit-activity.ts: "the feed never duplicates").
FeedWhole ==
  /\ \A i, j \in 1..Len(page.feed) : i < j => page.feed[i][2] < page.feed[j][2]
  /\ page.state = "done" =>
       \A e \in ToSet(row.activity) :
         e \in Feed \/ \E f \in Feed : f[1] # e[1] /\ f[2] >= e[2]

\* What the page shows of the audit never goes back, not over slow polls, reconnects and
\* the results that are gathered meanwhile, and the end it shows stays (stream/route.ts:
\* "guard against overlapping ticks").
ViewNeverGoesBack ==
  [][/\ Rank(page.view) <= Rank(page'.view)
     /\ Rank(page.view) = 3 => page'.view = page.view]_vars

\* A page that stays open until the audit has ended is told so, by its results or by the
\* error that takes their place, unless the row is gone first (stream/route.ts: "Always
\* close the stream after the terminal event").
PageSettles ==
  row.status \in {"completed", "failed", "canceled"}
    ~> page.state \in {"done", "error"} \/ row.status = "deleted"

=============================================================================
