---------------------------- MODULE BatchService ----------------------------
(***************************************************************************)
(* The worker's HTTP service: which signed batches it accepts and runs     *)
(* (server.ts, auth/hmac.ts, auth/nonces.ts) and the records a caller      *)
(* polls (batch/store.ts), over restarts that lose both.                   *)
(*                                                                         *)
(* A handler does not wait between its last check and its writes, so each  *)
(* is one action.  An instant is kept as how long ago it was.  A request   *)
(* of the model is one signed request with its nonce: once its timestamp   *)
(* can no longer pass and its nonce is forgotten, its name serves for      *)
(* another.                                                                *)
(***************************************************************************)
EXTENDS Integers, FiniteSets, FiniteSetsExt

CONSTANTS
  Batches,      \* batch ids: check_id and batch
  Requests,     \* the nonces of signed requests
  BatchOf,      \* the batch each of them carries
  Skew,         \* MAX_SKEW_MS
  NonceTTL,     \* NONCE_TTL_MS
  ResultTTL,    \* RESULT_TTL_MS
  Concurrency,  \* batchConcurrency
  MaxNonces,    \* MAX_NONCES
  MaxRecords,   \* MAX_RECORDS
  MaxBytes,     \* MAX_RESULT_BYTES
  Sizes         \* what a result may take: MAX_RESULT_TEXT_BYTES keeps it small

ASSUME ServiceAssumption ==
  /\ IsFiniteSet(Batches) /\ IsFiniteSet(Requests)
  /\ BatchOf \in [Requests -> Batches]
  /\ Skew \in Nat /\ NonceTTL = 2 * Skew /\ ResultTTL \in Nat \ {0}
  /\ Concurrency \in Nat \ {0} /\ MaxBytes \in Nat
  /\ MaxNonces \in Nat /\ Cardinality(Requests) <= MaxNonces
  /\ MaxRecords \in Nat /\ Concurrency <= MaxRecords
  /\ Sizes \subseteq 0..MaxBytes

VARIABLES
  signed,   \* how long ago the timestamp of each request was, or Unsigned
  seen,     \* how long ago each nonce was claimed, or Unseen
  records,  \* the store
  runs,     \* how many runs of each batch are going on
  starts    \* how many runs each request has started in this process

vars == <<signed, seen, records, runs, starts>>

Unsigned == -Skew - 1
Stale == Skew + 1
Unseen == -1
Forgotten == NonceTTL + 1

NoRecord == [status |-> "none", age |-> 0, size |-> 0]
RunningRecord == [status |-> "running", age |-> 0, size |-> 0]

Finished(recs) == {b \in Batches : recs[b].status \in {"done", "failed"}}
Held(recs) == {b \in Batches : recs[b].status # "none"}
BytesOf(recs) == MapThenSumSet(LAMBDA b : recs[b].size, Batches)
Without(recs, gone) == [b \in Batches |-> IF b \in gone THEN NoRecord ELSE recs[b]]
Fits(recs) == Cardinality(Held(recs)) <= MaxRecords /\ BytesOf(recs) <= MaxBytes

Running == MapThenSumSet(LAMBDA b : runs[b], Batches)

\* Mutant of Older: the newest results are forgotten first.
MutantOlder(recs, a, b) == recs[a].age <= recs[b].age

Older(recs, a, b) == recs[a].age >= recs[b].age

\* A set of the oldest that finished, no larger than it takes for the rest to
\* fit.  Of records that finished at the same instant any may be the older.
Oldest(recs, gone) ==
  /\ \A g \in gone, f \in Finished(recs) \ gone : Older(recs, g, f)
  /\ Fits(Without(recs, gone)) \/ gone = Finished(recs)
  /\ gone # {} => \E g \in gone : /\ \A h \in gone : Older(recs, h, g)
                                  /\ ~Fits(Without(recs, gone \ {g}))

\* prune: what has reached its TTL is forgotten, and then the oldest of what has
\* finished until the rest fits.
Pruned(recs) ==
  LET live == Without(recs, {b \in Finished(recs) : recs[b].age >= ResultTTL})
  IN  IF Fits(live) THEN {live}
      ELSE {Without(live, gone) : gone \in {g \in SUBSET Finished(live) : Oldest(live, g)}}

-----------------------------------------------------------------------------
TypeOK ==
  /\ signed \in [Requests -> Unsigned..Stale]
  /\ seen \in [Requests -> Unseen..Forgotten]
  /\ records \in [Batches -> [status : {"none", "running", "done", "failed"},
                              age : 0..ResultTTL, size : {0} \union Sizes]]
  /\ runs \in [Batches -> Nat]
  /\ starts \in [Requests -> Nat]

\* What a process starts with.
NoNonces == [r \in Requests |-> Unseen]
NoRecords == [b \in Batches |-> NoRecord]
NoRuns == [b \in Batches |-> 0]
NoStarts == [r \in Requests |-> 0]

Init ==
  /\ signed = [r \in Requests |-> Unsigned]
  /\ seen = NoNonces /\ records = NoRecords /\ runs = NoRuns /\ starts = NoStarts

\* The app signs a request, its clock at most MAX_SKEW_MS from the worker's.  It
\* may arrive late, more than once, or never.
Sign(r, offset) ==
  /\ signed[r] \in {Unsigned, Stale} /\ seen[r] \in {Unseen, Forgotten}
  /\ signed' = [signed EXCEPT ![r] = offset]
  /\ starts' = [starts EXCEPT ![r] = 0]
  /\ seen' = [seen EXCEPT ![r] = Unseen]
  /\ UNCHANGED <<records, runs>>

\* tsProblem.
InWindow(r) == signed[r] # Unsigned /\ signed[r] <= Skew

\* Mutant of Unexpired: a nonce is remembered for the signature window.
MutantUnexpired == [r \in Requests |-> IF seen[r] > Skew THEN Unseen ELSE seen[r]]

\* The nonces that are still remembered when another is claimed.
Unexpired == [r \in Requests |-> IF seen[r] > NonceTTL THEN Unseen ELSE seen[r]]

Remembered(ages) == {r \in Requests : ages[r] # Unseen}

\* claim: the nonce is remembered, and past MAX_NONCES the oldest is not.
Claim(ages, r, left) ==
  LET with == [ages EXCEPT ![r] = 0]
  IN  IF Cardinality(Remembered(with)) <= MaxNonces THEN left = with
      ELSE \E o \in Remembered(with) : /\ \A q \in Remembered(with) : with[q] <= with[o]
                                       /\ left = [with EXCEPT ![o] = Unseen]

\* Mutant of Known: a record that has been forgotten need not be asked for.
MutantKnown(recs, b) == recs[b].status \in {"done", "failed"}

Known(recs, b) == recs[b].status # "none"

\* POST /batch with request r, whose timestamp can pass: busy, batch_exists,
\* nonce_replayed, or accepted.
Refuse(r) ==
  /\ InWindow(r) /\ Running < Concurrency
  /\ records' \in Pruned(records)
  /\ \/ Known(records', BatchOf[r]) /\ seen' = seen
     \/ ~Known(records', BatchOf[r]) /\ seen' = Unexpired /\ Unexpired[r] # Unseen
  /\ UNCHANGED <<signed, runs, starts>>

Accept(r) ==
  LET b == BatchOf[r]
  IN  /\ InWindow(r) /\ Running < Concurrency
      /\ \E kept \in Pruned(records) :
           /\ ~Known(kept, b)
           /\ records' = [kept EXCEPT ![b] = RunningRecord]
      /\ Unexpired[r] = Unseen
      /\ Claim(Unexpired, r, seen')
      /\ runs' = [runs EXCEPT ![b] = @ + 1]
      /\ starts' = [starts EXCEPT ![r] = @ + 1]
      /\ UNCHANGED signed

\* GET /batch/{id}.
Poll(b) == records' \in Pruned(records) /\ UNCHANGED <<signed, seen, runs, starts>>

\* store.finish, store.fail: only a running record is closed.
Closed(recs, b, status, size) ==
  IF recs[b].status # "running" THEN recs
  ELSE [recs EXCEPT ![b] = [status |-> status, age |-> 0, size |-> size]]

\* A run ends: its record is closed, the store pruned, and its place given back.
End(b, status, size) ==
  /\ runs[b] > 0
  /\ runs' = [runs EXCEPT ![b] = @ - 1]
  /\ records' \in Pruned(Closed(records, b, status, size))
  /\ UNCHANGED <<signed, seen, starts>>

\* The process stops or dies, and starts again with nothing.
Restart ==
  /\ seen' = NoNonces /\ records' = NoRecords /\ runs' = NoRuns /\ starts' = NoStarts
  /\ UNCHANGED signed

Tick ==
  /\ signed' = [r \in Requests |-> IF signed[r] \in {Unsigned, Stale} THEN signed[r]
                                   ELSE signed[r] + 1]
  /\ seen' = [r \in Requests |-> IF seen[r] \in {Unseen, Forgotten} THEN seen[r]
                                 ELSE seen[r] + 1]
  /\ records' = [b \in Batches |->
                   IF b \in Finished(records) /\ records[b].age < ResultTTL
                   THEN [records[b] EXCEPT !.age = @ + 1] ELSE records[b]]
  /\ UNCHANGED <<runs, starts>>

Next ==
  \/ \E r \in Requests, offset \in -Skew..Skew : Sign(r, offset)
  \/ \E r \in Requests : Refuse(r)
  \/ \E r \in Requests : Accept(r)
  \/ \E b \in Batches : Poll(b)
  \/ \E b \in Batches, size \in Sizes : End(b, "done", size)
  \/ \E b \in Batches : End(b, "failed", 0)
  \/ Restart
  \/ Tick

Spec == Init /\ [][Next]_vars

-----------------------------------------------------------------------------
\* A signed request starts at most one run in the life of a process, however
\* often and however late it is delivered: its nonce is remembered for as long as
\* its timestamp can pass, also when its batch's record was forgotten early.
RunsOnce == \A r \in Requests : starts[r] <= 1

\* What runs is what is on record as running, once, so that a poll finds a batch
\* from the moment it was accepted and it is not accepted beside itself.
RunsMatchRecords ==
  \A b \in Batches : runs[b] = IF records[b].status = "running" THEN 1 ELSE 0

\* What a run that ends leaves is what a poll finds: no older result is kept in
\* its stead, and the limits never make it go at once.
EndIsOnRecord ==
  [][\A b \in Batches, status \in {"done", "failed"}, size \in {0} \union Sizes :
       End(b, status, size) => \/ records'[b].status = status
                               \/ \E f \in Finished(records') : records'[f].age = 0]_vars
=============================================================================
