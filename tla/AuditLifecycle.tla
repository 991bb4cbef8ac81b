--------------------------- MODULE AuditLifecycle ---------------------------
(***************************************************************************)
(* One audit, from the row POST /api/audits/start inserts to the mail that *)
(* says it is over.  Four parties write the row: the web routes (start,    *)
(* cancel, notify), the worker's step code (inngest/audit.ts,              *)
(* persist-results.ts, notify.ts), the failure handler, and the daily TTL  *)
(* cleanup.  None holds a lock: each write is one UPDATE with a guard on   *)
(* the status, and the guards alone keep the parties apart.                *)
(*                                                                         *)
(* Inngest is the external part: it runs the function's steps one HTTP     *)
(* invocation at a time, memoizes a step it got an answer for, retries one *)
(* it got none for, and calls the failure handler when the attempts are    *)
(* spent.  It never learns how far an invocation it lost had come.         *)
(*                                                                         *)
(* Every query of these handlers is keyed by the audit id, so the module   *)
(* models one audit.  The rate limits of admission, where audits share     *)
(* counters, are not modelled.  A call that fails is taken to have had no  *)
(* effect on the database.                                                 *)
(***************************************************************************)
EXTENDS Naturals, Sequences

CONSTANTS
  Slots,      \* invocations of the serve route that can be alive at once
  Nobody,     \* no slot: what Inngest awaits when no invocation is under way
  Retries,    \* auditFn's `retries`
  Chunks,     \* insert requests the page rows take (PAGE_INSERT_CHUNK)
  Emails,     \* addresses a visitor may leave on the wait page
  NoEmail,    \* notify_email is null
  Faults,     \* the kinds of fault this instance allows, see FaultKinds
  MaxFaults   \* bound: faults in one behaviour

(***************************************************************************)
(*  send     inngest.send of audit.requested or the cancel event fails     *)
(*  db       a database call whose error the code turns into a throw       *)
(*  crawl    runAudit throws;  timeout: it throws 'wall-clock budget'      *)
(*  emit     step.sendEvent fails;  mail: a database or Resend call of the *)
(*           notification fails, or Resend is not configured               *)
(*  mark     the mark-crawling UPDATE fails (its error is not looked at)   *)
(*  onfail   the failure handler's UPDATE returns an error (not looked at) *)
(*  reject   the failure handler's UPDATE throws                           *)
(*  kill     the platform kills an invocation before it answers (maxDura-  *)
(*           tion);  handler: the same for the failure handler             *)
(*  lost     an invocation did all its work and its answer never arrives   *)
(*  drop     Inngest gives an invocation up while its code is still alive  *)
(***************************************************************************)
FaultKinds == {"send", "db", "crawl", "timeout", "emit", "mail", "mark",
               "onfail", "reject", "kill", "handler", "lost", "drop"}

ASSUME SlotsAssumption  == Nobody \notin Slots
ASSUME BoundsAssumption == Retries \in Nat /\ Chunks \in Nat \ {0} /\ MaxFaults \in Nat
ASSUME EmailAssumption  == NoEmail \notin Emails
ASSUME FaultsAssumption == Faults \subseteq FaultKinds

VARIABLES
  audit,     \* the audits row
  kids,      \* the rows of links, findings, fixes and pages under it
  starter,   \* POST /api/audits/start: between its insert and its send
  canceler,  \* POST /api/audits/[id]/cancel: between its read, UPDATE and send
  paused,    \* the CRAWL_PAUSED variable
  run,       \* Inngest: the run of auditFn for this audit
  awaited,   \* Inngest: the invocation whose answer it waits for
  inv,       \* the invocations of the serve route, by slot
  crawls,    \* crawls that returned a result; the number names the result
  outbox,    \* mails handed to Resend
  alerts,    \* audit-failed signals raised: for a row the handler marked, and blind,
             \* because its UPDATE threw
  faults     \* faults so far

web  == <<starter, canceler, paused>>
vars == <<audit, kids, starter, canceler, paused, run, awaited, inv, crawls,
          outbox, alerts, faults>>

-----------------------------------------------------------------------------
(* The database. *)

Running  == {"pending", "crawling"}
Finished == {"completed", "failed"}
Terminal == Finished \cup {"canceled"}
Statuses == {"absent", "deleted"} \cup Running \cup Terminal

Tables == {"links", "findings", "fixes", "pages"}

\* A child row is <<crawl, part>>: the crawl that produced it, and which part of
\* the table's content it is.  Pages come in Chunks requests; part 1 of findings
\* points at a page, part 2 is site-wide (page_id null).
Parts(t) == CASE t = "pages"    -> 1..Chunks
              [] t = "findings" -> {1, 2}
              [] OTHER          -> {1}
Rows(t, c) == {c} \X Parts(t)

NoKids == [t \in Tables |-> {}]

Reasons == {"none", "crawl", "paused"}

Audits == [status : Statuses, report : Nat, reason : Reasons,
           email : Emails \cup {NoEmail}, notified : BOOLEAN, expires : BOOLEAN]

Exists == audit.status \notin {"absent", "deleted"}

\* The children are those of crawl c, all of them and nothing else.
WholeReport(c) == kids = [t \in Tables |-> Rows(t, c)]

-----------------------------------------------------------------------------
(* Inngest and the serve route. *)

Steps == <<"pause-gate", "mark-crawling", "crawl-and-persist", "emit-completed",
           "send-notify-email">>

Jobs == {"pause-gate", "mark-crawling", "crawl-and-persist", "emit-completed",
         "send-notify-email", "on-failure", "none"}

PCs == {"idle", "gate", "mark", "crawl", "clear", "pages", "readback", "links",
        "findings", "fixes", "complete", "emit", "fail", "alert", "mail-read",
        "mail-claim", "mail-send", "answer"}

Outcomes == {"none", "ok", "paused", "error", "fatal"}

NoMail  == [to |-> NoEmail, about |-> "absent"]
Letters == [to : Emails \cup {NoEmail}, about : Statuses]

Invocations == [job : Jobs, pc : PCs, k : Nat, crawl : Nat,
                ids : SUBSET (Nat \X Nat), letter : Letters, outcome : Outcomes]

Runs == [state : {"none", "active", "failing", "failed", "done", "canceled"},
         step : 1..Len(Steps), attempt : 1..(Retries + 1)]

Quiet == [job |-> "none", pc |-> "idle", k |-> 0, crawl |-> 0, ids |-> {},
          letter |-> NoMail, outcome |-> "none"]

EntryPoint(job) == CASE job = "pause-gate"        -> "gate"
                     [] job = "mark-crawling"     -> "mark"
                     [] job = "crawl-and-persist" -> "crawl"
                     [] job = "emit-completed"    -> "emit"
                     [] job = "send-notify-email" -> "mail-read"
                     [] OTHER                     -> "fail"

Init ==
  /\ audit = [status |-> "absent", report |-> 0, reason |-> "none", email |-> NoEmail,
              notified |-> FALSE, expires |-> FALSE]
  /\ kids = NoKids
  /\ starter = "ready" /\ canceler = "idle" /\ paused = FALSE
  /\ run = [state |-> "none", step |-> 1, attempt |-> 1]
  /\ awaited = Nobody
  /\ inv = [s \in Slots |-> Quiet]
  /\ crawls = 0 /\ outbox = <<>> /\ alerts = [marked |-> 0, blind |-> 0] /\ faults = 0

Fault(kind) == kind \in Faults /\ faults < MaxFaults /\ faults' = faults + 1
NoFault     == UNCHANGED faults

At(s, pc)   == inv[s].pc = pc
Goto(s, pc) == inv' = [inv EXCEPT ![s].pc = pc]
Answering(s, outcome) ==
  inv' = [inv EXCEPT ![s].pc = "answer", ![s].outcome = outcome]

-----------------------------------------------------------------------------
(* The web routes and the TTL cleanup. *)

\* POST /api/audits/start and /reaudit, past the admission checks: insert the row.
\* A free or anonymous audit expires, one of a Pro account does not.
Start ==
  /\ starter = "ready" /\ ~paused
  /\ \E expires \in BOOLEAN :
       audit' = [audit EXCEPT !.status = "pending", !.expires = expires]
  /\ starter' = "inserted"
  /\ UNCHANGED <<kids, canceler, paused, run, awaited, inv, crawls, outbox, alerts, faults>>

\* The same request, one await later: inngest.send('audit.requested').  When the
\* send fails the route answers 500 and leaves the row behind, pending.
SendRequested ==
  /\ starter = "inserted"
  /\ starter' = "done"
  /\ \/ run' = [run EXCEPT !.state = "active"] /\ NoFault
     \/ Fault("send") /\ UNCHANGED run
  /\ UNCHANGED <<audit, kids, canceler, paused, awaited, inv, crawls, outbox, alerts>>

\* POST /api/audits/[id]/cancel by the owner: the read and authorizeCancel.
CancelCheck ==
  /\ canceler = "idle" /\ audit.status \in Running
  /\ canceler' = "checked"
  /\ UNCHANGED <<audit, kids, starter, paused, run, awaited, inv, crawls, outbox, alerts, faults>>

\* ... the guarded UPDATE: it flips a running audit, or matches no row (409).
CancelUpdate ==
  /\ canceler = "checked"
  /\ IF audit.status \in Running
       THEN audit' = [audit EXCEPT !.status = "canceled"] /\ canceler' = "marked"
       ELSE canceler' = "idle" /\ UNCHANGED audit
  /\ UNCHANGED <<kids, starter, paused, run, awaited, inv, crawls, outbox, alerts, faults>>

\* ... and inngest.send('audit.cancel.requested').  cancelOn stops the run between
\* steps: the step under way is given up, its code goes on to its end, and the
\* failure handler is not called.
CancelSend ==
  /\ canceler = "marked"
  /\ canceler' = "idle"
  /\ \/ /\ NoFault
        /\ IF run.state = "active"
             THEN run' = [run EXCEPT !.state = "canceled"] /\ awaited' = Nobody
             ELSE UNCHANGED <<run, awaited>>
     \/ Fault("send") /\ UNCHANGED <<run, awaited>>
  /\ UNCHANGED <<audit, kids, starter, paused, inv, crawls, outbox, alerts>>

\* Mutant of Notify: the UPDATE without its status guard.
NotifyAnytime ==
  /\ Exists
  /\ \E e \in Emails : audit' = [audit EXCEPT !.email = e]
  /\ UNCHANGED <<kids, web, run, awaited, inv, crawls, outbox, alerts, faults>>

\* POST /api/audits/[id]/notify: only a running audit takes an address, and a
\* later one replaces an earlier one.
Notify ==
  /\ audit.status \in Running
  /\ \E e \in Emails : audit' = [audit EXCEPT !.email = e]
  /\ UNCHANGED <<kids, web, run, awaited, inv, crawls, outbox, alerts, faults>>

\* cleanupExpiredAuditsFn: an expired row goes whatever its status, and its
\* children with it (on delete cascade).  The model has no clock: 30 days may
\* pass anywhere, a run that Inngest holds back included.
DeleteExpired ==
  /\ Exists /\ audit.expires
  /\ audit' = [audit EXCEPT !.status = "deleted"]
  /\ kids' = NoKids
  /\ UNCHANGED <<web, run, awaited, inv, crawls, outbox, alerts, faults>>

\* An operator sets or clears CRAWL_PAUSED.
TogglePause ==
  /\ paused' = ~paused
  /\ UNCHANGED <<audit, kids, starter, canceler, run, awaited, inv, crawls, outbox, alerts, faults>>

-----------------------------------------------------------------------------
(* Inngest: which step runs, and what becomes of an answer. *)

\* A free slot takes the run's current step, or the failure handler.
Dispatch(s) ==
  /\ run.state \in {"active", "failing"}
  /\ awaited = Nobody /\ At(s, "idle")
  /\ LET job == IF run.state = "active" THEN Steps[run.step] ELSE "on-failure" IN
       inv' = [inv EXCEPT ![s] = [Quiet EXCEPT !.job = job, !.pc = EntryPoint(job)]]
  /\ awaited' = s
  /\ UNCHANGED <<audit, kids, web, run, crawls, outbox, alerts, faults>>

\* The step is memoized and the next one is due.
NextStep ==
  IF run.step < Len(Steps)
    THEN [run EXCEPT !.step = @ + 1, !.attempt = 1]
    ELSE [run EXCEPT !.state = "done"]

\* An attempt came to nothing: retry it, or call the failure handler.
AfterLoss ==
  IF run.attempt <= Retries
    THEN [run EXCEPT !.attempt = @ + 1]
    ELSE [run EXCEPT !.state = "failing"]

AfterAnswer(outcome) ==
  IF run.state = "failing"
    THEN [run EXCEPT !.state = "failed"]
    ELSE CASE outcome = "ok"     -> NextStep
           [] outcome = "paused" -> [run EXCEPT !.state = "done"]
           [] OTHER              -> [run EXCEPT !.state = "failing"]

\* Whether Inngest calls a failure handler again that threw or never answered is
\* outside the repository: either may happen.
Unanswered ==
  IF run.state = "failing"
    THEN run' \in {run, [run EXCEPT !.state = "failed"]}
    ELSE run' = AfterLoss

\* The invocation ends and its answer reaches Inngest; nobody listens to one
\* that was given up.
Answer(s) ==
  /\ At(s, "answer")
  /\ inv' = [inv EXCEPT ![s] = Quiet]
  /\ IF awaited = s
       THEN /\ awaited' = Nobody
            /\ IF inv[s].outcome = "error" THEN Unanswered
               ELSE run' = AfterAnswer(inv[s].outcome)
       ELSE UNCHANGED <<run, awaited>>
  /\ UNCHANGED <<audit, kids, web, crawls, outbox, alerts, faults>>

\* All the work is done, and the answer is lost on its way.
LoseAnswer(s) ==
  /\ At(s, "answer") /\ awaited = s
  /\ Fault("lost")
  /\ Unanswered
  /\ awaited' = Nobody
  /\ inv' = [inv EXCEPT ![s] = Quiet]
  /\ UNCHANGED <<audit, kids, web, crawls, outbox, alerts>>

\* The platform kills an invocation in the middle of its work.
Kill(s) ==
  /\ inv[s].pc \notin {"idle", "answer"}
  /\ Fault(IF inv[s].job = "on-failure" THEN "handler" ELSE "kill")
  /\ IF awaited = s
       THEN Unanswered /\ awaited' = Nobody
       ELSE UNCHANGED <<run, awaited>>
  /\ inv' = [inv EXCEPT ![s] = Quiet]
  /\ UNCHANGED <<audit, kids, web, crawls, outbox, alerts>>

\* Inngest stops waiting for an invocation whose code is still running.
GiveUp(s) ==
  /\ awaited = s
  /\ Fault("drop")
  /\ Unanswered
  /\ awaited' = Nobody
  /\ UNCHANGED <<audit, kids, web, inv, crawls, outbox, alerts>>

-----------------------------------------------------------------------------
(* sendAuditNotification (notify.ts): read, claim, send; it never throws. *)

\* What the invocation answers once the notification is dealt with.
MailDone(s) == Answering(s, IF inv[s].job = "pause-gate" THEN "paused" ELSE "ok")

\* Mutant of MailRead: only a completed audit is mailed about.
MailReadCompletedOnly(s) ==
  /\ At(s, "mail-read") /\ NoFault
  /\ IF audit.status = "completed" /\ audit.email # NoEmail /\ ~audit.notified
       THEN inv' = [inv EXCEPT
              ![s].pc = "mail-claim",
              ![s].letter = [to |-> audit.email, about |-> audit.status]]
       ELSE MailDone(s)
  /\ UNCHANGED <<audit, kids, web, run, awaited, crawls, outbox, alerts>>

\* A read that fails, and a deployment without a Resend key, return like a row
\* with nothing to send.
MailRead(s) ==
  /\ At(s, "mail-read")
  /\ \/ /\ NoFault
        /\ IF audit.status \in Finished /\ audit.email # NoEmail /\ ~audit.notified
             THEN inv' = [inv EXCEPT
                    ![s].pc = "mail-claim",
                    ![s].letter = [to |-> audit.email, about |-> audit.status]]
             ELSE MailDone(s)
     \/ Fault("mail") /\ MailDone(s)
  /\ UNCHANGED <<audit, kids, web, run, awaited, crawls, outbox, alerts>>

\* Mutant of MailClaim: the claim without .is('notified_at', null).
MailClaimUnguarded(s) ==
  /\ At(s, "mail-claim") /\ NoFault
  /\ audit' = [audit EXCEPT !.notified = TRUE] /\ Goto(s, "mail-send")
  /\ UNCHANGED <<kids, web, run, awaited, crawls, outbox, alerts>>

\* UPDATE notified_at where it is null: one claim wins, and the mail comes after it.
MailClaim(s) ==
  /\ At(s, "mail-claim")
  /\ \/ /\ NoFault
        /\ IF Exists /\ ~audit.notified
             THEN audit' = [audit EXCEPT !.notified = TRUE] /\ Goto(s, "mail-send")
             ELSE MailDone(s) /\ UNCHANGED audit
     \/ Fault("mail") /\ MailDone(s) /\ UNCHANGED audit
  /\ UNCHANGED <<kids, web, run, awaited, crawls, outbox, alerts>>

\* A send that fails after the claim drops this one mail.
MailSend(s) ==
  /\ At(s, "mail-send")
  /\ MailDone(s)
  /\ \/ NoFault /\ outbox' = Append(outbox, inv[s].letter)
     \/ Fault("mail") /\ UNCHANGED outbox
  /\ UNCHANGED <<audit, kids, web, run, awaited, crawls, alerts>>

-----------------------------------------------------------------------------
(* The steps of auditHandler. *)

\* applyCrawlPause: the flag is read once, here.
PauseGate(s) ==
  /\ At(s, "gate")
  /\ \/ ~paused /\ Answering(s, "ok") /\ UNCHANGED audit /\ NoFault
     \/ /\ paused /\ NoFault /\ Goto(s, "mail-read")
        /\ IF audit.status \in Running
             THEN audit' = [audit EXCEPT !.status = "failed", !.reason = "paused"]
             ELSE UNCHANGED audit
     \/ paused /\ Fault("db") /\ Answering(s, "error") /\ UNCHANGED audit
  /\ UNCHANGED <<kids, web, run, awaited, crawls, outbox, alerts>>

\* mark-crawling: pending to crawling.  The error of the UPDATE is not looked at.
MarkCrawling(s) ==
  /\ At(s, "mark")
  /\ Answering(s, "ok")
  /\ \/ /\ NoFault
        /\ IF audit.status = "pending"
             THEN audit' = [audit EXCEPT !.status = "crawling"]
             ELSE UNCHANGED audit
     \/ Fault("mark") /\ UNCHANGED audit
  /\ UNCHANGED <<kids, web, run, awaited, crawls, outbox, alerts>>

\* crawl-and-persist, first half: runAudit.  Exceeding the wall-clock budget is not
\* retried, every other error is.
Crawl(s) ==
  /\ At(s, "crawl")
  /\ \/ /\ NoFault /\ crawls' = crawls + 1
        /\ inv' = [inv EXCEPT ![s].pc = "clear", ![s].k = 1, ![s].crawl = crawls + 1]
     \/ Fault("crawl")   /\ Answering(s, "error") /\ UNCHANGED crawls
     \/ Fault("timeout") /\ Answering(s, "fatal") /\ UNCHANGED crawls
  /\ UNCHANGED <<audit, kids, web, run, awaited, outbox, alerts>>

\* A database error in persistAuditResults throws, and the attempt with it.
PersistError(s) == Fault("db") /\ Answering(s, "error")

\* Mutant of CleanupOrder: the findings are left to the cascade from pages.
CleanupOrderNoFindings == <<"links", "fixes", "pages">>

\* The tables in the order persistAuditResults clears them.
CleanupOrder == <<"links", "findings", "fixes", "pages">>

\* DELETE by audit id; deleting pages cascades to the links and findings on them.
Cleared(t) ==
  [u \in Tables |->
     IF u = t \/ (t = "pages" /\ u = "links") THEN {}
     ELSE IF t = "pages" /\ u = "findings" THEN {r \in kids[u] : r[2] # 1}
     ELSE kids[u]]

Clear(s) ==
  /\ At(s, "clear")
  /\ \/ /\ NoFault
        /\ kids' = Cleared(CleanupOrder[inv[s].k])
        /\ inv' = IF inv[s].k < Len(CleanupOrder)
                    THEN [inv EXCEPT ![s].k = @ + 1]
                    ELSE [inv EXCEPT ![s].k = 1, ![s].pc = "pages"]
     \/ PersistError(s) /\ UNCHANGED kids
  /\ UNCHANGED <<audit, web, run, awaited, crawls, outbox, alerts>>

\* One chunk of page rows.  The insert is refused when the audit is gone (foreign
\* key) or the page is there already: unique (audit_id, url), and the crawls of one
\* site find the same urls.
InsertPages(s) ==
  /\ At(s, "pages")
  /\ LET chunk   == inv[s].k
         refused == ~Exists \/ \E r \in kids["pages"] : r[2] = chunk
     IN \/ /\ NoFault /\ ~refused
           /\ kids' = [kids EXCEPT !["pages"] = @ \cup {<<inv[s].crawl, chunk>>}]
           /\ inv' = IF chunk < Chunks
                       THEN [inv EXCEPT ![s].k = @ + 1]
                       ELSE [inv EXCEPT ![s].k = 0, ![s].pc = "readback"]
        \/ NoFault /\ refused /\ Answering(s, "error") /\ UNCHANGED kids
        \/ PersistError(s) /\ UNCHANGED kids
  /\ UNCHANGED <<audit, web, run, awaited, crawls, outbox, alerts>>

\* Read the ids the pages were given back: url -> page id.
ReadBack(s) ==
  /\ At(s, "readback")
  /\ \/ NoFault /\ inv' = [inv EXCEPT ![s].pc = "links", ![s].ids = kids["pages"]]
     \/ PersistError(s)
  /\ UNCHANGED <<audit, kids, web, run, awaited, crawls, outbox, alerts>>

\* Links and page findings name page ids, fixes only the audit; a row whose page
\* or audit is gone is refused (foreign key).
InsertRows(s, t, next) ==
  /\ At(s, t)
  /\ LET refused == ~Exists \/ (t # "fixes" /\ ~(inv[s].ids \subseteq kids["pages"]))
     IN \/ /\ NoFault /\ ~refused /\ Goto(s, next)
           /\ kids' = [kids EXCEPT ![t] = @ \cup Rows(t, inv[s].crawl)]
        \/ NoFault /\ refused /\ Answering(s, "error") /\ UNCHANGED kids
        \/ PersistError(s) /\ UNCHANGED kids
  /\ UNCHANGED <<audit, web, run, awaited, crawls, outbox, alerts>>

\* Mutant of Complete: the UPDATE without .eq('status', 'crawling').
CompleteUnguarded(s) ==
  /\ At(s, "complete") /\ NoFault /\ Answering(s, "ok")
  /\ audit' = IF Exists
                THEN [audit EXCEPT !.status = "completed", !.report = inv[s].crawl]
                ELSE audit
  /\ UNCHANGED <<kids, web, run, awaited, crawls, outbox, alerts>>

\* The completion UPDATE, last, where status = 'crawling': the grade and the counts
\* of this crawl.  Matching no row is not an error.
Complete(s) ==
  /\ At(s, "complete")
  /\ \/ /\ NoFault /\ Answering(s, "ok")
        /\ IF audit.status = "crawling"
             THEN audit' = [audit EXCEPT !.status = "completed", !.report = inv[s].crawl]
             ELSE UNCHANGED audit
     \/ PersistError(s) /\ UNCHANGED audit
  /\ UNCHANGED <<kids, web, run, awaited, crawls, outbox, alerts>>

\* emit-completed: step.sendEvent.
EmitCompleted(s) ==
  /\ At(s, "emit")
  /\ \/ NoFault /\ Answering(s, "ok")
     \/ Fault("emit") /\ Answering(s, "error")
  /\ UNCHANGED <<audit, kids, web, run, awaited, crawls, outbox, alerts>>

-----------------------------------------------------------------------------
(* handleAuditFailure. *)

\* Mutant of MarkFailed: only a crawling audit is marked.
MarkFailedCrawlingOnly(s) ==
  /\ At(s, "fail") /\ NoFault
  /\ IF audit.status = "crawling"
       THEN /\ audit' = [audit EXCEPT !.status = "failed", !.reason = "crawl"]
            /\ Goto(s, "alert")
       ELSE Goto(s, "mail-read") /\ UNCHANGED audit
  /\ UNCHANGED <<kids, web, run, awaited, crawls, outbox, alerts>>

\* Mutant of MarkFailed: the signal goes out whether or not a row was marked.
MarkFailedAlwaysAlerts(s) ==
  /\ At(s, "fail") /\ NoFault /\ Goto(s, "alert")
  /\ audit' = IF audit.status \in Running
                THEN [audit EXCEPT !.status = "failed", !.reason = "crawl"]
                ELSE audit
  /\ UNCHANGED <<kids, web, run, awaited, crawls, outbox, alerts>>

\* Mutant of MarkFailed: shouldAlert begins as false, so a throw skips the signal.
MarkFailedQuietly(s) ==
  /\ At(s, "fail")
  /\ \/ /\ NoFault
        /\ IF audit.status \in Running
             THEN /\ audit' = [audit EXCEPT !.status = "failed", !.reason = "crawl"]
                  /\ Goto(s, "alert")
             ELSE Goto(s, "mail-read") /\ UNCHANGED audit
     \/ Fault("reject") /\ Answering(s, "error") /\ UNCHANGED audit
  /\ UNCHANGED <<kids, web, run, awaited, crawls, outbox, alerts>>

\* The guarded UPDATE.  An error it returns reads like no row that matched: no signal.
\* When it throws, the finally signals, whatever the row is, and the error goes on: no
\* mail, and Inngest is told.  Nothing is awaited between the two.
MarkFailed(s) ==
  /\ At(s, "fail")
  /\ \/ /\ NoFault /\ UNCHANGED alerts
        /\ IF audit.status \in Running
             THEN /\ audit' = [audit EXCEPT !.status = "failed", !.reason = "crawl"]
                  /\ Goto(s, "alert")
             ELSE Goto(s, "mail-read") /\ UNCHANGED audit
     \/ Fault("onfail") /\ Goto(s, "mail-read") /\ UNCHANGED <<audit, alerts>>
     \/ /\ Fault("reject") /\ Answering(s, "error") /\ UNCHANGED audit
        /\ alerts' = [alerts EXCEPT !.blind = @ + 1]
  /\ UNCHANGED <<kids, web, run, awaited, crawls, outbox>>

\* reportAuditFailure for a row that was marked; its own error is swallowed.
RaiseAlert(s) ==
  /\ At(s, "alert")
  /\ alerts' = [alerts EXCEPT !.marked = @ + 1]
  /\ Goto(s, "mail-read")
  /\ UNCHANGED <<audit, kids, web, run, awaited, crawls, outbox, faults>>

-----------------------------------------------------------------------------
(* The specification. *)

\* The code of one invocation.
Work(s) ==
  \/ PauseGate(s) \/ MarkCrawling(s) \/ Crawl(s) \/ Clear(s) \/ InsertPages(s)
  \/ ReadBack(s)
  \/ InsertRows(s, "links", "findings") \/ InsertRows(s, "findings", "fixes")
  \/ InsertRows(s, "fixes", "complete")
  \/ Complete(s) \/ EmitCompleted(s) \/ MarkFailed(s) \/ RaiseAlert(s)
  \/ MailRead(s) \/ MailClaim(s) \/ MailSend(s)

Web == Start \/ SendRequested \/ CancelCheck \/ CancelUpdate \/ CancelSend
         \/ Notify \/ DeleteExpired \/ TogglePause

Inngest(s) == Dispatch(s) \/ Answer(s) \/ LoseAnswer(s) \/ Kill(s) \/ GiveUp(s)

Next == Web \/ \E s \in Slots : Inngest(s) \/ Work(s)

\* Inngest dispatches what is due and code that runs goes on.  Nothing obliges a
\* visitor, an operator or the clock.
Fairness == \A s \in Slots : WF_vars(Dispatch(s)) /\ WF_vars(Answer(s)) /\ WF_vars(Work(s))

Spec     == Init /\ [][Next]_vars
FairSpec == Spec /\ Fairness

-----------------------------------------------------------------------------
(* Properties. *)

TypeOK ==
  /\ audit \in Audits
  /\ kids \in [Tables -> SUBSET (Nat \X Nat)]
  /\ starter \in {"ready", "inserted", "done"}
  /\ canceler \in {"idle", "checked", "marked"}
  /\ paused \in BOOLEAN
  /\ run \in Runs
  /\ awaited \in Slots \cup {Nobody}
  /\ inv \in [Slots -> Invocations]
  /\ crawls \in Nat /\ alerts \in [marked : Nat, blind : Nat] /\ faults \in 0..MaxFaults
  /\ outbox \in Seq(Letters)

\* An audit that ended stays as it ended, whoever still writes: no late completion
\* un-cancels it, no failure handler overwrites a grade, no cancel or notify reaches
\* a finished row.  Only its notified_at stamp and its expiry are left to happen.
EndedIsFinal ==
  [][audit.status \in Terminal =>
       \/ \E b \in BOOLEAN : audit' = [audit EXCEPT !.notified = b]
       \/ audit' = [audit EXCEPT !.status = "deleted"]]_vars

\* A completed audit shows one crawl: every child row of the crawl its grade is from
\* and no row of any other (persist-results.ts: delete, insert, complete last).
ReportWhole == audit.status = "completed" => WholeReport(audit.report)

\* Over: Inngest is through with the run and no code of it is alive.
Over == run.state \in {"done", "failed", "canceled"} /\ \A s \in Slots : At(s, "idle")

\* The same, looked at only once nothing is under way any more.
SettledReportWhole == Over => ReportWhole

\* Whoever left an address gets at most one mail; it goes to the address that stood
\* when the audit ended and tells how it ended (notify.ts claims before it sends).
MailHonest ==
  /\ Len(outbox) <= 1
  /\ \A i \in 1..Len(outbox) :
       /\ outbox[i].about \in Finished
       /\ Exists => outbox[i] = [to |-> audit.email, about |-> audit.status]

\* As long as the handler's UPDATE does not throw, the audit-failed signal is raised at
\* most once, and only for an audit the handler itself moved to failed: never for one
\* canceled, paused or completed.  A throw signals whatever the row is (audit.ts:265).
AlertHonest ==
  /\ alerts.marked <= 1
  /\ alerts.marked = 1 => audit.status \in {"failed", "deleted"} /\ audit.reason = "crawl"

\* A run that failed over an audit nobody could mark as failed was at least signalled:
\* the UPDATE that throws "never loses the page" (audit.ts:265).
FailureSignalled == run.state = "failed" /\ audit.status \in Running => alerts.blind > 0

\* An audit whose run started comes to an end, or expires.
RunEndsAudit == run.state # "none" ~> audit.status \in Terminal \cup {"deleted"}

\* Who left an address and let the audit finish gets the mail, failed or not, unless
\* the row is gone first (audit.ts: "we'll email you when it's ready") or the failure
\* handler's UPDATE threw, which skips the mail and was signalled.
MailComes ==
  audit.status \in Finished /\ audit.email # NoEmail
    ~> outbox # <<>> \/ audit.status = "deleted" \/ alerts.blind > 0

\* The lifecycle keeps the promise of AuditPromise: every step is one of its steps.
Promise == INSTANCE AuditPromise WITH
  status <- audit.status, mails <- Len(outbox),
  alerts <- alerts.marked, blind <- alerts.blind
KeepsPromise == Promise!PSpec

=============================================================================
