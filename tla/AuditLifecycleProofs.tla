------------------------ MODULE AuditLifecycleProofs ------------------------
(***************************************************************************)
(* Theorems about AuditLifecycle, for every set of slots and addresses,    *)
(* every number of retries and chunks, every set of faults the theorem     *)
(* does not name.                                                          *)
(*                                                                         *)
(* Typing; then one end, one mail, one signal: that what the lifecycle     *)
(* tells the world about an audit is true; then the report and the failure *)
(* handler, which need the invocations not to overlap.  Nothing but the    *)
(* guards of single UPDATEs keeps the writers apart, so the invariants say *)
(* what an invocation past its guard may still rely on.                    *)
(***************************************************************************)
EXTENDS AuditLifecycle, TLAPS

-----------------------------------------------------------------------------
(* Typing. *)

\* An invocation that moves on stays typed.
LEMMA GotoTyped ==
  ASSUME inv \in [Slots -> Invocations], NEW s \in Slots, NEW pc \in PCs, Goto(s, pc)
  PROVE  inv' \in [Slots -> Invocations]
  BY DEF Invocations, Goto

\* So does one that gets its answer ready.
LEMMA AnsweringTyped ==
  ASSUME inv \in [Slots -> Invocations], NEW s \in Slots, NEW o \in Outcomes, Answering(s, o)
  PROVE  inv' \in [Slots -> Invocations]
  <1>1. "answer" \in PCs
    BY DEF PCs
  <1>2. QED
    BY <1>1 DEF Invocations, Answering

\* So does one that is through with the notification.
LEMMA MailDoneTyped ==
  ASSUME inv \in [Slots -> Invocations], NEW s \in Slots, MailDone(s)
  PROVE  inv' \in [Slots -> Invocations]
  <1>1. "ok" \in Outcomes /\ "paused" \in Outcomes
    BY DEF Outcomes
  <1>2. QED
    BY <1>1, AnsweringTyped DEF MailDone

\* An invocation at rest is typed.
LEMMA QuietTyped == Quiet \in Invocations
  BY DEF Quiet, Invocations, Jobs, PCs, Outcomes, NoMail, Letters, Statuses

\* auditFn has five steps.
LEMMA StepsLength == Len(Steps) = 5
  BY DEF Steps

\* The step that is due is a job.
LEMMA StepTyped ==
  ASSUME run \in Runs
  PROVE  Steps[run.step] \in Jobs
  <1>1. run.step \in 1..5
    BY StepsLength DEF Runs
  <1>2. \A i \in 1..5 : i = 1 \/ i = 2 \/ i = 3 \/ i = 4 \/ i = 5
    OBVIOUS
  <1>3. QED
    BY <1>1, <1>2 DEF Steps, Jobs

\* An answer moves a typed run to a typed run.
LEMMA RunTyped ==
  ASSUME run \in Runs
  PROVE  AfterLoss \in Runs /\ \A o : AfterAnswer(o) \in Runs
  <1>1. AfterLoss \in Runs
    BY BoundsAssumption DEF Runs, AfterLoss
  <1>2. NextStep \in Runs
    <2>1. CASE run.step < Len(Steps)
      <3>1. PICK n \in 1..Len(Steps) : n = run.step + 1
        BY <2>1, StepsLength DEF Runs
      <3>2. PICK m \in 1..(Retries + 1) : m = 1
        BY BoundsAssumption
      <3>3. NextStep = [run EXCEPT !.step = n, !.attempt = m]
        BY <2>1, <3>1, <3>2 DEF NextStep
      <3>4. QED
        BY <3>3 DEF Runs
    <2>2. CASE ~(run.step < Len(Steps))
      BY <2>2 DEF Runs, NextStep
    <2>3. QED
      BY <2>1, <2>2
  <1>3. QED
    BY <1>1, <1>2 DEF Runs, AfterAnswer

\* So does the want of one.
LEMMA UnansweredTyped ==
  ASSUME run \in Runs, Unanswered
  PROVE  run' \in Runs
  BY RunTyped DEF Unanswered, Runs

\* The count of faults stays within its bound.
LEMMA FaultTyped ==
  ASSUME faults \in 0..MaxFaults, NEW kind, Fault(kind) \/ NoFault
  PROVE  faults' \in 0..MaxFaults
  BY BoundsAssumption DEF Fault, NoFault

\* The writes to the audits row, by the fields they set.
LEMMA RowTyped ==
  ASSUME audit \in Audits
  PROVE  /\ \A st \in Statuses : [audit EXCEPT !.status = st] \in Audits
         /\ \A st \in Statuses, b \in BOOLEAN :
              [audit EXCEPT !.status = st, !.expires = b] \in Audits
         /\ \A e \in Emails : [audit EXCEPT !.email = e] \in Audits
         /\ [audit EXCEPT !.notified = TRUE] \in Audits
  BY DEF Audits

\* The UPDATE to failed keeps the row typed.
LEMMA FailedTyped ==
  ASSUME audit \in Audits, NEW st \in Statuses, NEW r \in Reasons,
         audit' = [audit EXCEPT !.status = st, !.reason = r]
  PROVE  audit' \in Audits
  BY DEF Audits

\* So does the completion.
LEMMA CompletedTyped ==
  ASSUME audit \in Audits, NEW st \in Statuses, NEW n \in Nat,
         audit' = [audit EXCEPT !.status = st, !.report = n]
  PROVE  audit' \in Audits
  BY DEF Audits

\* The statuses the guards name are statuses.
LEMMA StatusesKnown ==
  /\ {"pending", "crawling", "completed", "failed", "canceled", "deleted"} \subseteq Statuses
  /\ {"crawl", "paused"} \subseteq Reasons
  BY DEF Statuses, Running, Terminal, Finished, Reasons

\* The row does not exist, nothing runs.
LEMMA TypedInit ==
  ASSUME Init
  PROVE  TypeOK
  <1>1. audit \in Audits
    BY DEF Init, Audits, Reasons, Statuses
  <1>2. run \in Runs
    BY StepsLength, BoundsAssumption DEF Init, Runs
  <1>3. QED
    <2>1. kids \in [Tables -> SUBSET (Nat \X Nat)]
      BY DEF Init, NoKids
    <2>2. inv \in [Slots -> Invocations]
      BY QuietTyped DEF Init
    <2>3. outbox \in Seq(Letters)
      BY DEF Init
    <2>4. faults \in 0..MaxFaults
      BY BoundsAssumption DEF Init
    <2>5. QED
      BY <1>1, <1>2, <2>1, <2>2, <2>3, <2>4 DEF Init, TypeOK

\* Every step keeps the type invariant.
LEMMA TypedStep ==
  ASSUME TypeOK, [Next]_vars
  PROVE  TypeOK'
  <1>1. ASSUME TypeOK, Web
        PROVE  TypeOK'
    <2>1. CASE Start
      <3>1. PICK e \in BOOLEAN : audit' = [audit EXCEPT !.status = "pending", !.expires = e]
        BY <2>1 DEF Start
      <3>2. audit' \in Audits
        BY <1>1, <3>1, RowTyped, StatusesKnown DEF TypeOK
      <3>3. QED
        BY <1>1, <2>1, <3>2 DEF TypeOK, Start
    <2>2. CASE CancelCheck
      BY <1>1, <2>2 DEF TypeOK, CancelCheck
    <2>3. CASE CancelUpdate
      BY <1>1, <2>3, RowTyped, StatusesKnown DEF TypeOK, CancelUpdate
    <2>4. CASE Notify
      BY <1>1, <2>4, RowTyped DEF TypeOK, Notify, web
    <2>5. CASE TogglePause
      BY <1>1, <2>5 DEF TypeOK, TogglePause
    <2>6. CASE SendRequested
      <3>1. run' \in Runs
        BY <1>1, <2>6 DEF TypeOK, SendRequested, Runs
      <3>2. faults' \in 0..MaxFaults
        BY <1>1, <2>6, FaultTyped DEF TypeOK, SendRequested
      <3>3. QED
        BY <1>1, <2>6, <3>1, <3>2 DEF TypeOK, SendRequested
    <2>7. CASE CancelSend
      <3>1. run' \in Runs /\ awaited' \in Slots \cup {Nobody}
        BY <1>1, <2>7 DEF TypeOK, CancelSend, Runs
      <3>2. faults' \in 0..MaxFaults
        BY <1>1, <2>7, FaultTyped DEF TypeOK, CancelSend
      <3>3. QED
        BY <1>1, <2>7, <3>1, <3>2 DEF TypeOK, CancelSend
    <2>8. CASE DeleteExpired
      BY <1>1, <2>8, RowTyped, StatusesKnown DEF TypeOK, DeleteExpired, NoKids, web
    <2>9. QED
      BY <1>1, <2>1, <2>2, <2>3, <2>4, <2>5, <2>6, <2>7, <2>8 DEF Web
  <1>2. ASSUME TypeOK, NEW s \in Slots, Inngest(s)
        PROVE  TypeOK'
    <2>1. CASE Dispatch(s)
      <3>1. PICK job \in Jobs : inv' = [inv EXCEPT ![s] = [Quiet EXCEPT !.job = job, !.pc = EntryPoint(job)]]
        BY <1>2, <2>1, StepTyped DEF TypeOK, Dispatch, Jobs
      <3>2. EntryPoint(job) \in PCs
        BY DEF EntryPoint, PCs
      <3>3. [Quiet EXCEPT !.job = job, !.pc = EntryPoint(job)] \in Invocations
        BY <3>2, QuietTyped DEF Invocations
      <3>4. inv' \in [Slots -> Invocations]
        BY <1>2, <3>1, <3>3 DEF TypeOK
      <3>5. QED
        BY <1>2, <2>1, <3>4 DEF TypeOK, Dispatch, web
    <2>2. ASSUME inv' = [inv EXCEPT ![s] = Quiet] \/ UNCHANGED inv
          PROVE  inv' \in [Slots -> Invocations]
      BY <1>2, <2>2, QuietTyped DEF TypeOK
    <2>3. CASE Answer(s)
      <3>1. run' \in Runs
        BY <1>2, <2>3, RunTyped, UnansweredTyped DEF TypeOK, Answer
      <3>2. QED
        BY <1>2, <2>2, <2>3, <3>1 DEF TypeOK, Answer, web
    <2>4. ASSUME LoseAnswer(s) \/ Kill(s) \/ GiveUp(s)
          PROVE  TypeOK'
      <3>1. run' \in Runs
        BY <1>2, <2>4, UnansweredTyped DEF TypeOK, LoseAnswer, Kill, GiveUp
      <3>2. PICK kind : Fault(kind)
        BY <2>4 DEF LoseAnswer, Kill, GiveUp
      <3>3. faults' \in 0..MaxFaults
        BY <1>2, <3>2, FaultTyped DEF TypeOK
      <3>4. QED
        BY <1>2, <2>2, <2>4, <3>1, <3>3 DEF TypeOK, LoseAnswer, Kill, GiveUp, web
    <2>5. QED
      BY <1>2, <2>1, <2>3, <2>4 DEF Inngest
  <1>3. ASSUME TypeOK, NEW s \in Slots, Work(s)
        PROVE  TypeOK'
    <2> USE <1>3 DEF TypeOK
    <2>1. faults' \in 0..MaxFaults
      <3>1. NoFault \/ \E kind : Fault(kind)
        BY DEF Work, PauseGate, MarkCrawling, Crawl, Clear, InsertPages, ReadBack,
               InsertRows, PersistError, Complete, EmitCompleted, MarkFailed, RaiseAlert,
               MailRead, MailClaim, MailSend, NoFault
      <3>2. QED
        BY <3>1, FaultTyped
    <2>2. ASSUME NEW pc \in PCs, Goto(s, pc)
          PROVE  inv' \in [Slots -> Invocations]
      BY <2>2, GotoTyped
    <2>3. ASSUME NEW o \in Outcomes, Answering(s, o)
          PROVE  inv' \in [Slots -> Invocations]
      BY <2>3, AnsweringTyped
    <2>4. ASSUME MailDone(s)
          PROVE  inv' \in [Slots -> Invocations]
      BY <2>4, MailDoneTyped
    <2>5. {"ok", "error", "fatal"} \subseteq Outcomes
      BY DEF Outcomes
    <2>6. {"clear", "pages", "readback", "links", "findings", "fixes", "complete",
           "alert", "mail-read", "mail-claim", "mail-send"} \subseteq PCs
      BY DEF PCs
    <2>7. ASSUME NEW pc \in PCs, NEW k \in Nat,
                  \/ inv' = [inv EXCEPT ![s].k = k]
                  \/ inv' = [inv EXCEPT ![s].k = k, ![s].pc = pc]
           PROVE  inv' \in [Slots -> Invocations]
      <3>1. CASE inv' = [inv EXCEPT ![s].k = k]
        BY <3>1 DEF Invocations
      <3>2. CASE inv' = [inv EXCEPT ![s].k = k, ![s].pc = pc]
        BY <3>2 DEF Invocations
      <3>3. QED
        BY <2>7, <3>1, <3>2
    <2>8. CASE PauseGate(s)
      <3>1. audit' \in Audits
        <4>1. CASE audit' = [audit EXCEPT !.status = "failed", !.reason = "paused"]
          BY <4>1, FailedTyped, StatusesKnown
        <4>2. QED
          BY <2>8, <4>1 DEF PauseGate
      <3>2. inv' \in [Slots -> Invocations]
        BY <2>2, <2>3, <2>5, <2>6, <2>8 DEF PauseGate
      <3>3. QED
        BY <2>1, <2>8, <3>1, <3>2 DEF PauseGate, web
    <2>9. CASE MarkCrawling(s)
      <3>1. audit' \in Audits
        BY <2>9, RowTyped, StatusesKnown DEF MarkCrawling
      <3>2. inv' \in [Slots -> Invocations]
        BY <2>3, <2>5, <2>9 DEF MarkCrawling
      <3>3. QED
        BY <2>1, <2>9, <3>1, <3>2 DEF MarkCrawling, web
    <2>10. CASE Crawl(s)
      <3>1. crawls' \in Nat
        BY <2>10 DEF Crawl
      <3>2. inv' \in [Slots -> Invocations]
        <4>1. CASE inv' = [inv EXCEPT ![s].pc = "clear", ![s].k = 1, ![s].crawl = crawls + 1]
          <5>1. PICK n \in Nat : n = crawls + 1
            OBVIOUS
          <5>2. PICK one \in Nat : one = 1
            OBVIOUS
          <5>3. inv' = [inv EXCEPT ![s].pc = "clear", ![s].k = one, ![s].crawl = n]
            BY <4>1, <5>1, <5>2
          <5>4. QED
            BY <2>6, <5>3 DEF Invocations
        <4>2. QED
          BY <2>3, <2>5, <2>10, <4>1 DEF Crawl
      <3>3. QED
        BY <2>1, <2>10, <3>1, <3>2 DEF Crawl, web
    <2>11. CASE Clear(s)
      <3>1. kids' \in [Tables -> SUBSET (Nat \X Nat)]
        BY <2>11 DEF Clear, Cleared
      <3>2. inv' \in [Slots -> Invocations]
        <4>1. inv[s].k + 1 \in Nat /\ 1 \in Nat
          BY DEF Invocations
        <4>2. QED
          BY <2>3, <2>5, <2>6, <2>7, <2>11, <4>1 DEF Clear, PersistError
      <3>3. QED
        BY <2>1, <2>11, <3>1, <3>2 DEF Clear, web
    <2>12. CASE InsertPages(s)
      <3>0. inv[s].crawl \in Nat /\ inv[s].k \in Nat
        BY DEF Invocations
      <3>1. kids' \in [Tables -> SUBSET (Nat \X Nat)]
        <4>1. {<<inv[s].crawl, inv[s].k>>} \in SUBSET (Nat \X Nat)
          BY <3>0
        <4>2. CASE kids' = [kids EXCEPT !["pages"] = @ \cup {<<inv[s].crawl, inv[s].k>>}]
          BY <4>1, <4>2
        <4>3. QED
          BY <2>12, <4>2 DEF InsertPages
      <3>2. inv' \in [Slots -> Invocations]
        <4>1. inv[s].k + 1 \in Nat /\ 0 \in Nat
          BY <3>0
        <4>2. QED
          BY <2>3, <2>5, <2>6, <2>7, <2>12, <4>1 DEF InsertPages, PersistError
      <3>3. QED
        BY <2>1, <2>12, <3>1, <3>2 DEF InsertPages, web
    <2>13. CASE ReadBack(s)
      <3>1. CASE inv' = [inv EXCEPT ![s].pc = "links", ![s].ids = kids["pages"]]
        <4>1. PICK ids \in SUBSET (Nat \X Nat) : ids = kids["pages"]
          BY DEF Tables
        <4>2. inv' \in [Slots -> Invocations]
          BY <2>6, <3>1, <4>1 DEF Invocations
        <4>3. QED
          BY <2>1, <2>13, <4>2 DEF ReadBack, web
      <3>2. CASE PersistError(s)
        BY <2>1, <2>3, <2>5, <2>13, <3>2 DEF ReadBack, web, PersistError
      <3>3. QED
        BY <2>13, <3>1, <3>2 DEF ReadBack
    <2>14. ASSUME NEW t \in {"links", "findings", "fixes"},
                  NEW next \in {"findings", "fixes", "complete"},
                  InsertRows(s, t, next)
           PROVE  TypeOK'
      <3>1. kids' \in [Tables -> SUBSET (Nat \X Nat)]
        <4>1. inv[s].crawl \in Nat
          BY DEF Invocations
        <4>2. Rows(t, inv[s].crawl) \in SUBSET (Nat \X Nat)
          BY <4>1, BoundsAssumption DEF Rows, Parts
        <4>3. CASE kids' = [kids EXCEPT ![t] = @ \cup Rows(t, inv[s].crawl)]
          BY <4>2, <4>3
        <4>4. QED
          BY <2>14, <4>3 DEF InsertRows
      <3>2. inv' \in [Slots -> Invocations]
        BY <2>2, <2>3, <2>5, <2>6, <2>14 DEF InsertRows, PersistError
      <3>3. QED
        BY <2>1, <2>14, <3>1, <3>2 DEF InsertRows, web
    <2>15. CASE Complete(s)
      <3>1. audit' \in Audits
        <4>1. inv[s].crawl \in Nat
          BY DEF Invocations
        <4>2. CASE audit' = [audit EXCEPT !.status = "completed", !.report = inv[s].crawl]
          BY <4>1, <4>2, CompletedTyped, StatusesKnown
        <4>3. QED
          BY <2>15, <4>2 DEF Complete
      <3>2. inv' \in [Slots -> Invocations]
        BY <2>3, <2>5, <2>15 DEF Complete, PersistError
      <3>3. QED
        BY <2>1, <2>15, <3>1, <3>2 DEF Complete, web
    <2>16. CASE EmitCompleted(s)
      BY <2>1, <2>3, <2>5, <2>16 DEF EmitCompleted, web
    <2>17. CASE MarkFailed(s)
      <3>1. audit' \in Audits
        <4>1. CASE audit' = [audit EXCEPT !.status = "failed", !.reason = "crawl"]
          BY <4>1, FailedTyped, StatusesKnown
        <4>2. QED
          BY <2>17, <4>1 DEF MarkFailed
      <3>2. inv' \in [Slots -> Invocations]
        BY <2>2, <2>3, <2>5, <2>6, <2>17 DEF MarkFailed
      <3>3. alerts' \in [marked : Nat, blind : Nat]
        BY <2>17 DEF MarkFailed
      <3>4. QED
        BY <2>1, <2>17, <3>1, <3>2, <3>3 DEF MarkFailed, web
    <2>18. CASE RaiseAlert(s)
      <3>1. alerts' \in [marked : Nat, blind : Nat]
        BY <2>18 DEF RaiseAlert
      <3>2. QED
        BY <2>1, <2>2, <2>6, <2>18, <3>1 DEF RaiseAlert, web
    <2>19. CASE MailRead(s)
      <3>1. inv' \in [Slots -> Invocations]
        <4>1. [to |-> audit.email, about |-> audit.status] \in Letters
          BY DEF Letters, Audits
        <4>2. CASE inv' = [inv EXCEPT
                     ![s].pc = "mail-claim",
                     ![s].letter = [to |-> audit.email, about |-> audit.status]]
          <5>1. PICK l \in Letters : l = [to |-> audit.email, about |-> audit.status]
            BY <4>1
          <5>2. QED
            BY <2>6, <4>2, <5>1 DEF Invocations
        <4>3. QED
          BY <2>4, <2>19, <4>2 DEF MailRead
      <3>2. QED
        BY <2>1, <2>19, <3>1 DEF MailRead, web
    <2>20. CASE MailClaim(s)
      <3>1. audit' \in Audits
        BY <2>20, RowTyped DEF MailClaim
      <3>2. inv' \in [Slots -> Invocations]
        BY <2>2, <2>4, <2>6, <2>20 DEF MailClaim
      <3>3. QED
        BY <2>1, <2>20, <3>1, <3>2 DEF MailClaim, web
    <2>21. CASE MailSend(s)
      <3>1. inv[s].letter \in Letters
        BY DEF Invocations
      <3>2. outbox' \in Seq(Letters)
        BY <2>21, <3>1 DEF MailSend
      <3>3. QED
        BY <2>1, <2>4, <2>21, <3>2 DEF MailSend, web
    <2>22. QED
      BY <2>8, <2>9, <2>10, <2>11, <2>12, <2>13, <2>14, <2>15, <2>16, <2>17, <2>18, <2>19,
         <2>20, <2>21 DEF Work
  <1>4. CASE UNCHANGED vars
    BY <1>4 DEF TypeOK, vars
  <1>5. QED
    BY <1>1, <1>2, <1>3, <1>4 DEF Next

\* The state is typed, whatever happens.
THEOREM Typing == Spec => []TypeOK
  <1>1. Init => TypeOK
    BY TypedInit
  <1>2. TypeOK /\ [Next]_vars => TypeOK'
    BY TypedStep
  <1>3. QED
    BY <1>1, <1>2, PTL DEF Spec

-----------------------------------------------------------------------------
(* One end, one mail, one signal. *)

\* Before the row is there nothing runs, and it is inserted once.
BegunInv ==
  /\ starter = "ready" => audit.status = "absent"
  /\ audit.status = "absent" =>
       /\ starter = "ready" /\ run.state = "none" /\ awaited = Nobody
       /\ outbox = <<>> /\ alerts.marked = 0 /\ alerts.blind = 0
       /\ \A s \in Slots : inv[s].pc = "idle"

\* An invocation that read what to mail, or claimed it, holds a true letter; the one
\* that claimed is alone, and nothing has been sent.
MailInv ==
  /\ ~audit.notified => outbox = <<>> /\ \A s \in Slots : inv[s].pc # "mail-send"
  /\ \A s, t \in Slots : inv[s].pc = "mail-send" /\ inv[t].pc = "mail-send" => s = t
  /\ \A s \in Slots : inv[s].pc = "mail-send" => outbox = <<>>
  /\ \A s \in Slots : inv[s].pc \in {"mail-claim", "mail-send"} =>
       /\ inv[s].letter.about \in Finished
       /\ Exists => inv[s].letter = [to |-> audit.email, about |-> audit.status]
  /\ MailHonest

\* The failure handler that marked the row is alone, and has not signalled yet.
AlertInv ==
  /\ \A s \in Slots : inv[s].pc = "alert" =>
       audit.status \in {"failed", "deleted"} /\ audit.reason = "crawl" /\ alerts.marked = 0
  /\ \A s, t \in Slots : inv[s].pc = "alert" /\ inv[t].pc = "alert" => s = t
  /\ AlertHonest

IInv == TypeOK /\ BegunInv /\ MailInv /\ AlertInv

-----------------------------------------------------------------------------
(* What each party may do to the row. *)

\* What a row reads after an UPDATE of its status and error.
LEMMA MarkedReads ==
  ASSUME audit \in Audits, NEW st \in Statuses, NEW r \in Reasons,
         audit' = [audit EXCEPT !.status = st, !.reason = r]
  PROVE  audit'.status = st /\ audit'.reason = r /\ audit'.notified = audit.notified
  BY DEF Audits

\* What a row reads after the completion.
LEMMA CompletedReads ==
  ASSUME audit \in Audits, NEW st \in Statuses, NEW n \in Nat,
         audit' = [audit EXCEPT !.status = st, !.report = n]
  PROVE  audit'.status = st /\ audit'.reason = audit.reason /\ audit'.notified = audit.notified
  BY DEF Audits

\* What a row reads after the insert.
LEMMA StartedReads ==
  ASSUME audit \in Audits, NEW st \in Statuses, NEW e \in BOOLEAN,
         audit' = [audit EXCEPT !.status = st, !.expires = e]
  PROVE  audit'.status = st /\ audit'.reason = audit.reason /\ audit'.notified = audit.notified
  BY DEF Audits

\* A move of a running row, which leaves the mail's stamp alone.
Moves(froms, to) ==
  audit.status \in froms /\ audit'.status = to /\ audit'.notified = audit.notified

\* The step code writes the row in five ways: one guarded UPDATE for each.
LEMMA WorkWrites ==
  ASSUME TypeOK, NEW s \in Slots, Work(s)
  PROVE  \/ audit' = audit
         \/ Moves({"pending"}, "crawling")
         \/ Moves({"crawling"}, "completed")
         \/ Moves(Running, "failed")
         \/ /\ Exists /\ ~audit.notified /\ Goto(s, "mail-send")
            /\ audit' = [audit EXCEPT !.notified = TRUE]
  <1>1. audit \in Audits
    BY DEF TypeOK
  <1>2. CASE PauseGate(s)
    <2>1. CASE /\ audit.status \in Running
               /\ audit' = [audit EXCEPT !.status = "failed", !.reason = "paused"]
      BY <1>1, <2>1, MarkedReads, StatusesKnown DEF Moves
    <2>2. QED
      BY <1>2, <2>1 DEF PauseGate
  <1>3. CASE MarkCrawling(s)
    BY <1>1, <1>3 DEF MarkCrawling, Moves, Audits
  <1>4. CASE Complete(s)
    <2>1. CASE /\ audit.status = "crawling"
               /\ audit' = [audit EXCEPT !.status = "completed", !.report = inv[s].crawl]
      <3>1. inv[s].crawl \in Nat
        BY DEF TypeOK, Invocations
      <3>2. QED
        BY <1>1, <2>1, <3>1, CompletedReads, StatusesKnown DEF Moves
    <2>2. QED
      BY <1>4, <2>1 DEF Complete
  <1>5. CASE MarkFailed(s)
    <2>1. CASE /\ audit.status \in Running
               /\ audit' = [audit EXCEPT !.status = "failed", !.reason = "crawl"]
      BY <1>1, <2>1, MarkedReads, StatusesKnown DEF Moves
    <2>2. QED
      BY <1>5, <2>1 DEF MarkFailed
  <1>6. CASE MailClaim(s)
    BY <1>6 DEF MailClaim
  <1>7. QED
    BY <1>2, <1>3, <1>4, <1>5, <1>6
    DEF Work, Crawl, Clear, InsertPages, ReadBack, InsertRows, EmitCompleted, RaiseAlert,
        MailRead, MailSend

\* The web routes and the cleanup write it in these.
LEMMA WebWrites ==
  ASSUME TypeOK, Web
  PROVE  \/ audit' = audit
         \/ /\ Start /\ starter = "ready" /\ audit'.status = "pending"
            /\ audit'.notified = audit.notified
         \/ Moves(Running, "canceled")
         \/ Moves(Running, audit.status)
         \/ Exists /\ audit' = [audit EXCEPT !.status = "deleted"]
  <1>1. audit \in Audits
    BY DEF TypeOK
  <1>2. CASE Start
    <2>1. PICK e \in BOOLEAN : audit' = [audit EXCEPT !.status = "pending", !.expires = e]
      BY <1>2 DEF Start
    <2>2. QED
      BY <1>1, <1>2, <2>1, StartedReads, StatusesKnown DEF Start
  <1>3. CASE CancelUpdate
    BY <1>1, <1>3 DEF CancelUpdate, Moves, Audits
  <1>4. CASE Notify
    BY <1>1, <1>4 DEF Notify, Moves, Audits
  <1>5. CASE DeleteExpired
    BY <1>5 DEF DeleteExpired
  <1>6. QED
    BY <1>2, <1>3, <1>4, <1>5 DEF Web, SendRequested, CancelCheck, CancelSend, TogglePause

\* Inngest does not write the row at all.
LEMMA InngestWrites ==
  ASSUME NEW s \in Slots, Inngest(s)
  PROVE  UNCHANGED <<audit, starter, outbox, alerts>>
  BY DEF Inngest, Dispatch, Answer, LoseAnswer, Kill, GiveUp, web

-----------------------------------------------------------------------------
(* The row begins once. *)

\* Nothing runs and nothing is sent before the row is inserted, once.
LEMMA Begins ==
  ASSUME TypeOK, BegunInv, [Next]_vars
  PROVE  BegunInv'
  <1>1. CASE audit.status = "absent"
    <2>1. starter = "ready" /\ run.state = "none" /\ awaited = Nobody /\ outbox = <<>>
          /\ alerts.marked = 0 /\ alerts.blind = 0 /\ \A s \in Slots : inv[s].pc = "idle"
      BY <1>1 DEF BegunInv
    <2>2. CASE Web
      <3>1. CASE Start
        <4>1. audit'.status = "pending" /\ starter' = "inserted"
          BY <3>1 DEF Start, TypeOK, Audits
        <4>2. QED
          BY <4>1 DEF BegunInv
      <3>2. CASE ~Start
        BY <1>1, <2>1, <2>2, <3>2
        DEF Web, SendRequested, CancelCheck, CancelUpdate, CancelSend, Notify, DeleteExpired,
            TogglePause, Running, Exists, BegunInv
      <3>3. QED
        BY <3>1, <3>2
    <2>3. ASSUME NEW s \in Slots, Inngest(s)
          PROVE  FALSE
      BY <2>1, <2>3, SlotsAssumption DEF Inngest, Dispatch, Answer, LoseAnswer, Kill, GiveUp, At
    <2>4. ASSUME NEW s \in Slots, Work(s)
          PROVE  FALSE
      BY <2>1, <2>4
      DEF Work, PauseGate, MarkCrawling, Crawl, Clear, InsertPages, ReadBack, InsertRows,
          Complete, EmitCompleted, MarkFailed, RaiseAlert, MailRead, MailClaim, MailSend, At
    <2>5. CASE UNCHANGED vars
      BY <1>1, <2>1, <2>5 DEF vars, BegunInv
    <2>6. QED
      BY <2>2, <2>3, <2>4, <2>5 DEF Next
  <1>2. CASE audit.status # "absent"
    <2>1. starter # "ready"
      BY <1>2 DEF BegunInv
    <2>2. starter' # "ready" /\ audit'.status # "absent"
      <3>1. CASE Web
        <4>1. starter' # "ready"
          BY <2>1, <3>1
          DEF Web, Start, SendRequested, CancelCheck, CancelUpdate, CancelSend, Notify,
              DeleteExpired, TogglePause, web
        <4>2. audit'.status # "absent"
          BY <1>2, <2>1, <3>1, WebWrites DEF Moves, TypeOK, Audits
        <4>3. QED
          BY <4>1, <4>2
      <3>2. ASSUME NEW s \in Slots, Inngest(s)
            PROVE  UNCHANGED <<audit, starter>>
        BY <3>2, InngestWrites
      <3>3. ASSUME NEW s \in Slots, Work(s)
            PROVE  starter' = starter /\ audit'.status # "absent"
        <4>1. starter' = starter
          BY <3>3
          DEF Work, PauseGate, MarkCrawling, Crawl, Clear, InsertPages, ReadBack, InsertRows,
              Complete, EmitCompleted, MarkFailed, RaiseAlert, MailRead, MailClaim, MailSend, web
        <4>2. audit'.status # "absent"
          BY <1>2, <3>3, WorkWrites DEF Moves, TypeOK, Audits
        <4>3. QED
          BY <4>1, <4>2
      <3>4. QED
        BY <1>2, <2>1, <3>1, <3>2, <3>3 DEF Next, vars
    <2>3. QED
      BY <2>2 DEF BegunInv
  <1>3. QED
    BY <1>1, <1>2

-----------------------------------------------------------------------------
(* Where a step leaves the invocations. *)

Hot == {"alert", "mail-claim", "mail-send"}

\* What an invocation reads after it has moved on; the others are as they were.
LEMMA GotoReads ==
  ASSUME inv \in [Slots -> Invocations], NEW s \in Slots, NEW pc \in PCs, Goto(s, pc)
  PROVE  /\ \A t \in Slots \ {s} : inv'[t] = inv[t]
         /\ inv'[s].pc = pc /\ inv'[s].letter = inv[s].letter
  BY DEF Goto, Invocations

\* The same for one that has its answer.
LEMMA AnsweringReads ==
  ASSUME inv \in [Slots -> Invocations], NEW s \in Slots, NEW o, Answering(s, o)
  PROVE  /\ \A t \in Slots \ {s} : inv'[t] = inv[t]
         /\ inv'[s].pc = "answer"
  BY DEF Answering, Invocations

\* The same for one that is through with the notification.
LEMMA MailDoneReads ==
  ASSUME inv \in [Slots -> Invocations], NEW s \in Slots, MailDone(s)
  PROVE  /\ \A t \in Slots \ {s} : inv'[t] = inv[t]
         /\ inv'[s].pc = "answer"
  BY AnsweringReads DEF MailDone

\* An invocation comes to the mail or to the signal only past the guard of its UPDATE
\* or its read.
LEMMA WorkMoves ==
  ASSUME TypeOK, NEW s \in Slots, Work(s)
  PROVE  /\ \A t \in Slots \ {s} : inv'[t] = inv[t]
         /\ inv'[s].pc = "mail-claim" =>
              /\ audit' = audit /\ audit.status \in Finished
              /\ inv'[s].letter = [to |-> audit.email, about |-> audit.status]
         /\ inv'[s].pc = "mail-send" =>
              /\ inv[s].pc = "mail-claim" /\ inv'[s].letter = inv[s].letter
              /\ Exists /\ ~audit.notified /\ audit' = [audit EXCEPT !.notified = TRUE]
         /\ inv'[s].pc = "alert" =>
              audit.status \in Running /\ audit'.status = "failed" /\ audit'.reason = "crawl"
         /\ \/ outbox' = outbox
            \/ /\ inv[s].pc = "mail-send" /\ outbox' = Append(outbox, inv[s].letter)
               /\ inv'[s].pc = "answer" /\ audit' = audit
         /\ \/ alerts' = alerts
            \/ /\ inv[s].pc = "alert" /\ inv'[s].pc = "mail-read"
               /\ alerts' = [alerts EXCEPT !.marked = @ + 1] /\ audit' = audit
            \/ /\ inv[s].pc = "fail" /\ inv'[s].pc = "answer"
               /\ alerts' = [alerts EXCEPT !.blind = @ + 1] /\ UNCHANGED <<audit, outbox>>
  <1> DEFINE Cold == (\A t \in Slots \ {s} : inv'[t] = inv[t]) /\ inv'[s].pc \notin Hot
  <1>1. inv \in [Slots -> Invocations] /\ audit \in Audits
    BY DEF TypeOK
  <1>2. ASSUME NEW o, Answering(s, o)
        PROVE  Cold
    BY <1>1, <1>2, AnsweringReads DEF Hot
  <1>3. ASSUME NEW pc \in PCs \ Hot, Goto(s, pc)
        PROVE  Cold
    BY <1>1, <1>3, GotoReads
  <1>4. {"clear", "pages", "links", "findings", "fixes", "complete", "mail-read"} \subseteq PCs \ Hot
        /\ "alert" \in PCs /\ "mail-send" \in PCs
    BY DEF PCs, Hot
  <1>5. CASE MarkCrawling(s) \/ EmitCompleted(s) \/ Complete(s)
    <2>1. Cold
      BY <1>2, <1>5 DEF MarkCrawling, EmitCompleted, Complete, PersistError
    <2>2. QED
      BY <1>5, <2>1 DEF MarkCrawling, EmitCompleted, Complete, Hot
  <1>6. CASE PauseGate(s)
    <2>1. Cold
      BY <1>2, <1>3, <1>4, <1>6 DEF PauseGate
    <2>2. QED
      BY <1>6, <2>1 DEF PauseGate, Hot
  <1>7. CASE Crawl(s)
    <2>1. Cold
      <3>1. CASE inv' = [inv EXCEPT ![s].pc = "clear", ![s].k = 1, ![s].crawl = crawls + 1]
        BY <1>1, <3>1 DEF Hot, Invocations
      <3>2. QED
        BY <1>2, <1>7, <3>1 DEF Crawl
    <2>2. QED
      BY <1>7, <2>1 DEF Crawl, Hot
  <1>8. CASE Clear(s)
    <2>1. Cold
      <3>1. CASE inv' = [inv EXCEPT ![s].k = @ + 1]
        BY <1>1, <1>8, <3>1 DEF Hot, Invocations, Clear, At
      <3>2. CASE inv' = [inv EXCEPT ![s].k = 1, ![s].pc = "pages"]
        BY <1>1, <3>2 DEF Hot, Invocations
      <3>3. QED
        BY <1>2, <1>8, <3>1, <3>2 DEF Clear, PersistError
    <2>2. QED
      BY <1>8, <2>1 DEF Clear, Hot
  <1>9. CASE InsertPages(s)
    <2>1. Cold
      <3>1. CASE inv' = [inv EXCEPT ![s].k = @ + 1]
        BY <1>1, <1>9, <3>1 DEF Hot, Invocations, InsertPages, At
      <3>2. CASE inv' = [inv EXCEPT ![s].k = 0, ![s].pc = "readback"]
        BY <1>1, <3>2 DEF Hot, Invocations
      <3>3. QED
        BY <1>2, <1>9, <3>1, <3>2 DEF InsertPages, PersistError
    <2>2. QED
      BY <1>9, <2>1 DEF InsertPages, Hot
  <1>10. CASE ReadBack(s)
    <2>1. Cold
      <3>1. CASE inv' = [inv EXCEPT ![s].pc = "links", ![s].ids = kids["pages"]]
        BY <1>1, <3>1 DEF Hot, Invocations
      <3>2. QED
        BY <1>2, <1>10, <3>1 DEF ReadBack, PersistError
    <2>2. QED
      BY <1>10, <2>1 DEF ReadBack, Hot
  <1>11. ASSUME NEW t, NEW next \in {"findings", "fixes", "complete"}, InsertRows(s, t, next)
         PROVE  Cold /\ UNCHANGED <<audit, outbox, alerts>>
    BY <1>2, <1>3, <1>4, <1>11 DEF InsertRows, PersistError
  <1>12. CASE MarkFailed(s)
    <2> outbox' = outbox /\ inv[s].pc = "fail"
      BY <1>12 DEF MarkFailed, At
    <2>1. CASE Goto(s, "mail-read") /\ UNCHANGED <<audit, alerts>>
      <3>1. Cold
        BY <1>3, <1>4, <2>1
      <3>2. QED
        BY <2>1, <3>1 DEF Hot
    <2>2. CASE /\ audit.status \in Running /\ UNCHANGED alerts
               /\ audit' = [audit EXCEPT !.status = "failed", !.reason = "crawl"]
               /\ Goto(s, "alert")
      <3>1. audit'.status = "failed" /\ audit'.reason = "crawl"
        BY <1>1, <2>2, MarkedReads, StatusesKnown
      <3>2. (\A t \in Slots \ {s} : inv'[t] = inv[t]) /\ inv'[s].pc = "alert"
        BY <1>1, <1>4, <2>2, GotoReads
      <3>3. QED
        BY <2>2, <3>1, <3>2
    <2>3. CASE /\ Answering(s, "error") /\ UNCHANGED audit
               /\ alerts' = [alerts EXCEPT !.blind = @ + 1]
      <3>1. Cold /\ inv'[s].pc = "answer"
        BY <1>1, <1>2, <2>3, AnsweringReads
      <3>2. QED
        BY <2>3, <3>1 DEF Hot
    <2>4. QED
      BY <1>12, <2>1, <2>2, <2>3 DEF MarkFailed
  <1>13. CASE RaiseAlert(s)
    BY <1>1, <1>4, <1>13, GotoReads DEF RaiseAlert, At
  <1>14. CASE MailRead(s)
    <2>1. CASE MailDone(s)
      BY <1>1, <1>14, <2>1, MailDoneReads DEF MailRead
    <2>2. CASE /\ audit.status \in Finished
               /\ inv' = [inv EXCEPT
                    ![s].pc = "mail-claim",
                    ![s].letter = [to |-> audit.email, about |-> audit.status]]
      <3>1. /\ \A t \in Slots \ {s} : inv'[t] = inv[t]
            /\ inv'[s].pc = "mail-claim"
            /\ inv'[s].letter = [to |-> audit.email, about |-> audit.status]
        BY <1>1, <2>2 DEF Invocations
      <3>2. QED
        BY <1>14, <2>2, <3>1 DEF MailRead
    <2>3. QED
      BY <1>14, <2>1, <2>2 DEF MailRead
  <1>15. CASE MailClaim(s)
    <2>1. CASE MailDone(s)
      BY <1>1, <1>15, <2>1, MailDoneReads DEF MailClaim
    <2>2. CASE ~MailDone(s)
      BY <1>1, <1>4, <1>15, <2>2, GotoReads DEF MailClaim, At
    <2>3. QED
      BY <2>1, <2>2
  <1>16. CASE MailSend(s)
    BY <1>1, <1>16, MailDoneReads DEF MailSend, At
  <1>17. QED
    <2>1. CASE InsertRows(s, "links", "findings") \/ InsertRows(s, "findings", "fixes")
               \/ InsertRows(s, "fixes", "complete")
      BY <1>11, <2>1 DEF Hot
    <2>2. QED
      BY <1>5, <1>6, <1>7, <1>8, <1>9, <1>10, <1>12, <1>13, <1>14, <1>15, <1>16, <2>1 DEF Work

\* Inngest brings an invocation to its entry point or to rest, never past a guard.
LEMMA InngestMoves ==
  ASSUME TypeOK, NEW s \in Slots, Inngest(s)
  PROVE  \A t \in Slots : inv'[t].pc \in Hot => inv'[t] = inv[t]
  <1>1. inv \in [Slots -> Invocations]
    BY DEF TypeOK
  <1>2. CASE Dispatch(s)
    <2>1. PICK job : inv' = [inv EXCEPT ![s] = [Quiet EXCEPT !.job = job, !.pc = EntryPoint(job)]]
      BY <1>2 DEF Dispatch
    <2>2. inv'[s].pc = EntryPoint(job)
      BY <1>1, <2>1 DEF Quiet
    <2>3. EntryPoint(job) \notin Hot
      BY DEF EntryPoint, Hot
    <2>4. QED
      BY <1>1, <2>1, <2>2, <2>3
  <1>3. CASE inv' = [inv EXCEPT ![s] = Quiet]
    BY <1>1, <1>3 DEF Quiet, Hot
  <1>4. QED
    BY <1>2, <1>3 DEF Inngest, Answer, LoseAnswer, Kill, GiveUp

\* The web routes touch neither the invocations nor what was sent.
LEMMA WebMoves ==
  ASSUME Web
  PROVE  UNCHANGED <<inv, outbox, alerts>>
  BY DEF Web, Start, SendRequested, CancelCheck, CancelUpdate, CancelSend, Notify,
         DeleteExpired, TogglePause

-----------------------------------------------------------------------------
(* The mail. *)

\* While nobody sits past a guard of the mail nothing was sent about a running row.
LEMMA RunningIsUnsent ==
  ASSUME TypeOK, BegunInv, MailInv, AlertInv, audit.status \in Running \cup {"absent"}
  PROVE  outbox = <<>> /\ alerts.marked = 0 /\ \A t \in Slots : inv[t].pc \notin Hot
  <1>1. CASE audit.status = "absent"
    BY <1>1 DEF BegunInv, Hot
  <1>2. CASE audit.status \in Running
    <2>1. Exists /\ audit.status \notin Finished \cup {"deleted"}
      BY <1>2 DEF Exists, Running, Finished
    <2>2. outbox = <<>>
      <3>1. ~(1 \in 1..Len(outbox))
        BY <2>1 DEF MailInv, MailHonest
      <3>2. QED
        BY <3>1 DEF TypeOK
    <2>3. \A t \in Slots : inv[t].pc \notin {"mail-claim", "mail-send"}
      BY <2>1 DEF MailInv
    <2>4. alerts.marked = 0 /\ \A t \in Slots : inv[t].pc # "alert"
      BY <2>1 DEF AlertInv, AlertHonest, TypeOK, Finished
    <2>5. QED
      BY <2>2, <2>3, <2>4 DEF Hot
  <1>3. QED
    BY <1>1, <1>2

\* A step that sends nothing, brings no invocation past a guard, and touches only a
\* running row or deletes it, is of no concern to the mail.
LEMMA MailFrame ==
  ASSUME TypeOK, BegunInv, MailInv, AlertInv,
         outbox' = outbox,
         \A t \in Slots : inv'[t].pc \in {"mail-claim", "mail-send"} =>
            inv'[t].pc = inv[t].pc /\ inv'[t].letter = inv[t].letter,
         \/ audit' = audit
         \/ audit.status \in Running \cup {"absent"} /\ audit'.notified = audit.notified
         \/ audit' = [audit EXCEPT !.status = "deleted"]
  PROVE  MailInv'
  <1>1. CASE audit' = audit
    BY <1>1 DEF MailInv, MailHonest, Exists
  <1>2. CASE audit.status \in Running \cup {"absent"} /\ audit'.notified = audit.notified
    BY <1>2, RunningIsUnsent DEF MailInv, MailHonest, Hot
  <1>3. CASE audit' = [audit EXCEPT !.status = "deleted"]
    <2>1. ~Exists' /\ audit'.notified = audit.notified
      BY <1>3 DEF Exists, TypeOK, Audits
    <2>2. QED
      BY <2>1 DEF MailInv, MailHonest
  <1>4. QED
    BY <1>1, <1>2, <1>3

\* What AlertInv needs of a step that does not signal a row it marked.
LEMMA AlertFrame ==
  ASSUME TypeOK, BegunInv, MailInv, AlertInv,
         alerts'.marked = alerts.marked,
         \A t \in Slots : inv'[t].pc = "alert" => inv[t].pc = "alert",
         \/ audit' = audit
         \/ audit.status \in Running \cup {"absent"}
         \/ audit' = [audit EXCEPT !.status = "deleted"]
         \/ audit' = [audit EXCEPT !.notified = TRUE]
  PROVE  AlertInv'
  <1>1. CASE audit.status \in Running \cup {"absent"}
    BY <1>1, RunningIsUnsent DEF AlertInv, AlertHonest, Hot
  <1>2. CASE /\ audit'.status \in {audit.status, "deleted"}
             /\ audit'.reason = audit.reason
    BY <1>2 DEF AlertInv, AlertHonest
  <1>3. QED
    BY <1>1, <1>2 DEF TypeOK, Audits

\* Every step keeps MailInv.
LEMMA MailKept ==
  ASSUME IInv, [Next]_vars
  PROVE  MailInv'
  <1> USE DEF IInv
  <1>1. CASE Web
    <2>1. \A t \in Slots : inv'[t] = inv[t]
      BY <1>1, WebMoves
    <2>2. Start => audit.status = "absent"
      BY DEF Start, BegunInv
    <2>3. QED
      BY <1>1, <2>1, <2>2, WebMoves, WebWrites, MailFrame DEF Moves
  <1>2. ASSUME NEW s \in Slots, Inngest(s)
        PROVE  MailInv'
    BY <1>2, InngestWrites, InngestMoves, MailFrame DEF Hot
  <1>3. ASSUME NEW s \in Slots, Work(s)
        PROVE  MailInv'
    <2>1. \A t \in Slots \ {s} : inv'[t] = inv[t]
      BY <1>3, WorkMoves
    <2>2. CASE inv'[s].pc = "mail-claim"
      <3>1. /\ audit' = audit /\ audit.status \in Finished /\ outbox' = outbox
            /\ inv'[s].letter = [to |-> audit.email, about |-> audit.status]
        BY <1>3, <2>2, WorkMoves
      <3>2. QED
        BY <2>1, <2>2, <3>1 DEF MailInv, MailHonest, Exists
    <2>3. CASE inv'[s].pc = "mail-send"
      <3>1. /\ inv[s].pc = "mail-claim" /\ inv'[s].letter = inv[s].letter
            /\ Exists /\ ~audit.notified /\ audit' = [audit EXCEPT !.notified = TRUE]
            /\ outbox' = outbox
        BY <1>3, <2>3, WorkMoves
      <3>2. /\ audit'.status = audit.status /\ audit'.email = audit.email
            /\ audit'.notified = TRUE
        BY <3>1 DEF TypeOK, Audits
      <3>3. outbox = <<>> /\ \A t \in Slots : inv[t].pc # "mail-send"
        BY <3>1 DEF MailInv
      <3>4. QED
        BY <2>1, <2>3, <3>1, <3>2, <3>3 DEF MailInv, MailHonest, Exists
    <2>4. CASE inv'[s].pc \notin {"mail-claim", "mail-send"} /\ outbox' = outbox
      <3>1. \A t \in Slots : inv'[t].pc \in {"mail-claim", "mail-send"} =>
              inv'[t].pc = inv[t].pc /\ inv'[t].letter = inv[t].letter
        BY <2>1, <2>4
      <3>2. CASE \/ audit' = audit
                 \/ audit.status \in Running /\ audit'.notified = audit.notified
        BY <2>4, <3>1, <3>2, MailFrame
      <3>3. ~Goto(s, "mail-send")
        BY <2>4, GotoReads DEF PCs, TypeOK
      <3>4. QED
        BY <1>3, <3>2, <3>3, WorkWrites DEF Moves, Running
    <2>5. CASE outbox' # outbox
      <3>1. /\ inv[s].pc = "mail-send" /\ outbox' = Append(outbox, inv[s].letter)
            /\ inv'[s].pc = "answer" /\ audit' = audit
        BY <1>3, <2>5, WorkMoves
      <3>2. outbox = <<>> /\ audit.notified
            /\ inv[s].letter.about \in Finished
            /\ (Exists => inv[s].letter = [to |-> audit.email, about |-> audit.status])
            /\ \A t \in Slots : inv[t].pc = "mail-send" => t = s
        BY <3>1 DEF MailInv, TypeOK, Audits
      <3>3. outbox' = <<inv[s].letter>>
        BY <3>1, <3>2
      <3>4. Len(outbox') = 1 /\ outbox'[1] = inv[s].letter
        BY <3>3
      <3>5. QED
        BY <2>1, <3>1, <3>2, <3>3, <3>4 DEF MailInv, MailHonest, Exists
    <2>6. QED
      BY <2>2, <2>3, <2>4, <2>5
  <1>4. CASE UNCHANGED vars
    BY <1>4 DEF vars, MailInv, MailHonest, Exists
  <1>5. QED
    BY <1>1, <1>2, <1>3, <1>4 DEF Next

\* Every step keeps AlertInv.
LEMMA AlertKept ==
  ASSUME IInv, [Next]_vars
  PROVE  AlertInv'
  <1> USE DEF IInv
  <1>1. CASE Web
    <2>1. Start => audit.status = "absent"
      BY DEF Start, BegunInv
    <2>2. QED
      BY <1>1, <2>1, WebMoves, WebWrites, AlertFrame DEF Moves
  <1>2. ASSUME NEW s \in Slots, Inngest(s)
        PROVE  AlertInv'
    BY <1>2, InngestWrites, InngestMoves, AlertFrame DEF Hot
  <1>3. ASSUME NEW s \in Slots, Work(s)
        PROVE  AlertInv'
    <2>1. \A t \in Slots \ {s} : inv'[t] = inv[t]
      BY <1>3, WorkMoves
    <2>2. CASE inv'[s].pc = "alert"
      <3>1. audit.status \in Running /\ audit'.status = "failed" /\ audit'.reason = "crawl"
        BY <1>3, <2>2, WorkMoves
      <3>2. alerts.marked = 0 /\ \A t \in Slots : inv[t].pc \notin Hot
        BY <3>1, RunningIsUnsent
      <3>3. alerts'.marked = 0
        BY <1>3, <2>2, <3>2, WorkMoves DEF Hot
      <3>4. QED
        BY <2>1, <3>1, <3>2, <3>3 DEF AlertInv, AlertHonest, Hot
    <2>3. CASE inv'[s].pc # "alert" /\ alerts'.marked = alerts.marked
      BY <1>3, <2>1, <2>3, WorkWrites, AlertFrame DEF Moves, Running
    <2>4. CASE alerts'.marked # alerts.marked
      <3>1. /\ inv[s].pc = "alert" /\ alerts'.marked = alerts.marked + 1
            /\ inv'[s].pc = "mail-read" /\ audit' = audit
        BY <1>3, <2>4, WorkMoves DEF TypeOK
      <3>2. /\ audit.status \in {"failed", "deleted"} /\ audit.reason = "crawl"
            /\ alerts.marked = 0
            /\ \A t \in Slots : inv[t].pc = "alert" => t = s
        BY <3>1 DEF AlertInv
      <3>3. QED
        BY <2>1, <3>1, <3>2 DEF AlertInv, AlertHonest
    <2>5. QED
      BY <2>2, <2>3, <2>4
  <1>4. CASE UNCHANGED vars
    BY <1>4 DEF vars, AlertInv, AlertHonest
  <1>5. QED
    BY <1>1, <1>2, <1>3, <1>4 DEF Next

-----------------------------------------------------------------------------
(* The theorems. *)

\* What holds between the guards, whatever the interleaving.
THEOREM Honest == Spec => []IInv
  <1>1. Init => IInv
    <2> SUFFICES ASSUME Init PROVE BegunInv /\ MailInv /\ AlertInv
      BY TypedInit DEF IInv
    <2>1. \A s \in Slots : inv[s].pc = "idle"
      BY DEF Init, Quiet
    <2>2. BegunInv
      BY <2>1 DEF Init, BegunInv
    <2>3. MailInv
      <3>1. outbox = <<>> /\ Len(outbox) = 0
        BY DEF Init
      <3>2. QED
        BY <2>1, <3>1 DEF MailInv, MailHonest
    <2>4. AlertInv
      BY <2>1 DEF Init, AlertInv, AlertHonest
    <2>5. QED
      BY <2>2, <2>3, <2>4
  <1>2. IInv /\ [Next]_vars => IInv'
    BY TypedStep, Begins, MailKept, AlertKept DEF IInv
  <1>3. QED
    BY <1>1, <1>2, PTL DEF Spec

\* At most one mail, to the address that stood and about the end that came: notify.ts
\* claims before it sends, and no write reaches a finished row.
THEOREM MailIsHonest == Spec => []MailHonest
  <1>1. IInv => MailHonest
    BY DEF IInv, MailInv
  <1>2. QED
    BY <1>1, Honest, PTL

\* At most one audit-failed signal, and only for an audit the failure handler failed, but
\* for those of an UPDATE that threw.
THEOREM AlertIsHonest == Spec => []AlertHonest
  <1>1. IInv => AlertHonest
    BY DEF IInv, AlertInv
  <1>2. QED
    BY <1>1, Honest, PTL

\* No writer reaches a row whose audit has ended but to stamp it or to delete it.
THEOREM EndingIsFinal == Spec => EndedIsFinal
  <1> DEFINE Final == audit.status \in Terminal =>
                       \/ \E b \in BOOLEAN : audit' = [audit EXCEPT !.notified = b]
                       \/ audit' = [audit EXCEPT !.status = "deleted"]
  <1>1. ASSUME IInv, [Next]_vars
        PROVE  Final
    <2>1. ASSUME audit.status \in Terminal
          PROVE  \/ audit' = audit
                 \/ audit' = [audit EXCEPT !.notified = TRUE]
                 \/ audit' = [audit EXCEPT !.status = "deleted"]
      <3>1. audit.status \notin Running /\ ~Start
        BY <1>1, <2>1 DEF IInv, BegunInv, Start, Running, Terminal, Finished
      <3>2. CASE Web
        BY <1>1, <3>1, <3>2, WebWrites DEF IInv, Moves
      <3>3. ASSUME NEW s \in Slots, Inngest(s)
            PROVE  audit' = audit
        BY <3>3, InngestWrites
      <3>4. ASSUME NEW s \in Slots, Work(s)
            PROVE  audit' = audit \/ audit' = [audit EXCEPT !.notified = TRUE]
        BY <1>1, <3>1, <3>4, WorkWrites DEF IInv, Moves, Running
      <3>5. QED
        BY <1>1, <3>2, <3>3, <3>4 DEF Next, vars
    <2>2. audit' = audit => audit' = [audit EXCEPT !.notified = audit.notified]
          /\ audit.notified \in BOOLEAN
      BY <1>1 DEF IInv, TypeOK, Audits
    <2>3. QED
      BY <2>1, <2>2
  <1>2. IInv /\ [Next]_vars => [Final]_vars
    BY <1>1
  <1>3. QED
    BY <1>2, Honest, PTL DEF Spec, EndedIsFinal

-----------------------------------------------------------------------------
(* The lifecycle implements the promise. *)

\* A step that sends the mail is the promise's Mail.
LEMMA SendingIsPromised ==
  ASSUME IInv, NEW s \in Slots, Work(s)
  PROVE  \/ outbox' = outbox
         \/ /\ Len(outbox) = 0 /\ Len(outbox') = 1 /\ UNCHANGED <<audit, alerts>>
            /\ audit.status \in {"completed", "failed", "deleted"}
  <1> SUFFICES ASSUME outbox' # outbox
               PROVE  /\ Len(outbox) = 0 /\ Len(outbox') = 1 /\ UNCHANGED <<audit, alerts>>
                      /\ audit.status \in {"completed", "failed", "deleted"}
    OBVIOUS
  <1>1. /\ inv[s].pc = "mail-send" /\ outbox' = Append(outbox, inv[s].letter)
        /\ inv'[s].pc = "answer" /\ audit' = audit
    BY WorkMoves DEF IInv
  <1>2. outbox = <<>>
    BY <1>1 DEF IInv, MailInv
  <1>3. Len(outbox) = 0 /\ Len(outbox') = 1
    BY <1>1, <1>2
  <1>4. alerts' = alerts
    BY <1>1, WorkMoves DEF IInv
  <1>5. audit.status # "absent"
    BY <1>1 DEF IInv, BegunInv
  <1>6. Exists => audit.status \in Finished
    BY <1>1 DEF IInv, MailInv
  <1>7. QED
    BY <1>1, <1>3, <1>4, <1>5, <1>6 DEF Exists, Finished

\* A step that signals is the promise's Alert, or its BlindAlert.
LEMMA SignallingIsPromised ==
  ASSUME IInv, NEW s \in Slots, Work(s)
  PROVE  \/ alerts' = alerts
         \/ /\ alerts.marked = 0 /\ alerts'.marked = 1 /\ alerts'.blind = alerts.blind
            /\ UNCHANGED <<audit, outbox>>
            /\ audit.status \in {"failed", "deleted"}
         \/ /\ alerts'.blind = alerts.blind + 1 /\ alerts'.marked = alerts.marked
            /\ UNCHANGED <<audit, outbox>> /\ audit.status # "absent"
  <1>1. alerts \in [marked : Nat, blind : Nat]
    BY DEF IInv, TypeOK
  <1>2. CASE inv[s].pc = "alert" /\ alerts' = [alerts EXCEPT !.marked = @ + 1]
    BY <1>1, <1>2, WorkMoves DEF IInv, AlertInv
  <1>3. CASE inv[s].pc = "fail" /\ alerts' = [alerts EXCEPT !.blind = @ + 1]
    <2>1. audit.status # "absent"
      BY <1>3 DEF IInv, BegunInv
    <2>2. UNCHANGED <<audit, outbox>>
      BY <1>1, <1>3, WorkMoves DEF IInv
    <2>3. QED
      BY <1>1, <1>3, <2>1, <2>2
  <1>4. QED
    BY <1>2, <1>3, WorkMoves DEF IInv

\* Every step of the lifecycle is a step of AuditPromise or none: forward through the
\* statuses, one end, at most one mail and one signal about an end that calls for it; a
\* signal beyond it is one of an UPDATE that threw.
THEOREM LifecycleKeepsPromise == Spec => KeepsPromise
  <1>1. Init => Promise!PInit
    BY DEF Init, Promise!PInit
  <1>2. ASSUME IInv, [Next]_vars
        PROVE  [Promise!PNext]_(Promise!pvars)
    <2> USE DEF Promise!PNext, Promise!pvars, Promise!Move, Promise!Forward, Promise!Forget
    <2>1. ASSUME NEW to \in {"crawling", "failed", "canceled", "completed", audit.status},
                 Moves(Running, to), to = "crawling" => audit.status \in {"pending", "crawling"},
                 to = "completed" => audit.status = "crawling", UNCHANGED <<outbox, alerts>>
          PROVE  [Promise!PNext]_(Promise!pvars)
      BY <2>1 DEF Moves, Running
    <2>2. CASE Web
      <3>1. UNCHANGED <<outbox, alerts>>
        BY <2>2, WebMoves
      <3>2. CASE Start
        BY <1>2, <2>2, <3>1, <3>2, WebWrites DEF IInv, BegunInv, Moves, Running, Start, Exists, TypeOK, Audits
      <3>3. CASE Exists /\ audit' = [audit EXCEPT !.status = "deleted"]
        BY <1>2, <3>1, <3>3 DEF Exists, IInv, TypeOK, Audits
      <3>4. CASE Moves(Running, "canceled")
        BY <2>1, <3>1, <3>4
      <3>5. CASE Moves(Running, audit.status)
        BY <2>1, <3>1, <3>5 DEF Moves, Running
      <3>6. CASE audit' = audit
        BY <3>1, <3>6
      <3>7. QED
        BY <1>2, <2>2, <3>2, <3>3, <3>4, <3>5, <3>6, WebWrites DEF IInv
    <2>3. ASSUME NEW s \in Slots, Inngest(s)
          PROVE  UNCHANGED (Promise!pvars)
      BY <2>3, InngestWrites
    <2>4. ASSUME NEW s \in Slots, Work(s)
          PROVE  [Promise!PNext]_(Promise!pvars)
      <3>1. CASE outbox' # outbox
        BY <1>2, <2>4, <3>1, SendingIsPromised DEF Promise!Mail
      <3>2. CASE alerts' # alerts
        BY <1>2, <2>4, <3>2, SignallingIsPromised DEF Promise!Alert, Promise!BlindAlert
      <3>3. CASE UNCHANGED <<outbox, alerts>>
        <4>1. CASE audit' = audit \/ audit' = [audit EXCEPT !.notified = TRUE]
          BY <1>2, <3>3, <4>1 DEF IInv, TypeOK, Audits
        <4>2. QED
          BY <1>2, <2>1, <2>4, <3>3, <4>1, WorkWrites DEF IInv, Moves, Running
      <3>4. QED
        BY <3>1, <3>2, <3>3
    <2>5. CASE UNCHANGED vars
      BY <2>5 DEF vars
    <2>6. QED
      BY <1>2, <2>2, <2>3, <2>4, <2>5 DEF Next
  <1>3. QED
    BY <1>1, <1>2, Honest, PTL DEF Spec, KeepsPromise, Promise!PSpec

-----------------------------------------------------------------------------
(* One crawl in the report, and no failure unsaid. *)

\* The places of an invocation that writes the report.
Persisting == {"crawl", "clear", "pages", "readback", "links", "findings", "fixes", "complete"}

\* One invocation is alive at a time, and only the third step writes the report.
AloneInv ==
  /\ starter # "done" => run.state = "none"
  /\ run.state \in {"none", "canceled"} => awaited = Nobody
  /\ \A s \in Slots : inv[s].pc # "idle" => awaited = s \/ run.state = "canceled"
  /\ \A s, t \in Slots : inv[s].pc # "idle" /\ inv[t].pc # "idle" => s = t
  /\ \A s \in Slots : inv[s].pc \in Persisting => run.step = 3

\* The third step is over, or its last write is done and its answer on the way.
CrawlStepIsDone ==
  /\ \A s \in Slots : inv[s].pc \notin Persisting
  /\ run.state # "none"
  /\ run.state = "active" =>
       \/ run.step > 3
       \/ run.step = 3 /\ \E s \in Slots : /\ awaited = s /\ inv[s].pc = "answer"
                                           /\ inv[s].outcome = "ok"

\* What the tables hold when the invocation has come as far as its pc.
Empty(ts)     == \A t \in ts : kids[t] = {}
Stored(s, ts) == \A t \in ts : kids[t] = Rows(t, inv[s].crawl)
Progress(s) ==
  /\ inv[s].pc = "clear" =>
       inv[s].k \in 1..4 /\ \A i \in 1..(inv[s].k - 1) : kids[CleanupOrder[i]] = {}
  /\ inv[s].pc \in {"pages", "readback", "links"} => Empty({"links", "findings", "fixes"})
  /\ inv[s].pc = "pages" =>
       inv[s].k \in 1..Chunks /\ kids["pages"] = {inv[s].crawl} \X (1..(inv[s].k - 1))
  /\ inv[s].pc \in {"readback", "links", "findings", "fixes", "complete"} => Stored(s, {"pages"})
  /\ inv[s].pc \in {"findings", "fixes"} => Empty({"fixes"})
  /\ inv[s].pc = "findings" => Empty({"findings"})
  /\ inv[s].pc \in {"findings", "fixes", "complete"} => Stored(s, {"links"})
  /\ inv[s].pc \in {"fixes", "complete"} => Stored(s, {"findings"})
  /\ inv[s].pc = "complete" => Stored(s, {"fixes"})

\* A completed row stands for tables nobody writes any more; until then they are as far as
\* the invocation at work has brought them.
ReportInv ==
  /\ audit.status = "completed" => WholeReport(audit.report) /\ CrawlStepIsDone
  /\ Exists => \A s \in Slots : Progress(s)

-----------------------------------------------------------------------------
\* Step code touches neither the run nor another invocation, and comes to the report only
\* from within it.
LEMMA WorkStays ==
  ASSUME TypeOK, NEW s \in Slots, Work(s)
  PROVE  /\ UNCHANGED <<run, awaited, starter>>
         /\ inv[s].pc \notin {"idle", "answer"}
         /\ inv'[s].job = inv[s].job
         /\ inv[s].pc = "fail" => inv'[s].pc # "fail"
         /\ inv'[s].pc = "fail" => inv[s].pc = "fail"
         /\ inv'[s].pc # "idle"
         /\ inv'[s].pc \in Persisting => inv[s].pc \in Persisting
  <1> DEFINE Stays == /\ inv'[s].job = inv[s].job
                      /\ inv'[s].pc \notin {"fail", "idle"}
                      /\ inv'[s].pc \in Persisting => inv[s].pc \in Persisting
  <1>1. inv \in [Slots -> Invocations]
    BY DEF TypeOK
  <1>2. UNCHANGED <<run, awaited, starter>>
    BY DEF Work, PauseGate, MarkCrawling, Crawl, Clear, InsertPages, ReadBack, InsertRows,
           Complete, EmitCompleted, MarkFailed, RaiseAlert, MailRead, MailClaim, MailSend, web
  <1>3. inv[s].pc \notin {"idle", "answer"}
    BY DEF Work, PauseGate, MarkCrawling, Crawl, Clear, InsertPages, ReadBack, InsertRows,
           Complete, EmitCompleted, MarkFailed, RaiseAlert, MailRead, MailClaim, MailSend, At
  <1>4. ASSUME NEW o, Answering(s, o)
        PROVE  Stays
    BY <1>1, <1>4 DEF Answering, Invocations, Persisting
  <1>5. ASSUME NEW pc \in PCs, Goto(s, pc), pc \notin {"fail", "idle"},
               pc \in Persisting => inv[s].pc \in Persisting
        PROVE  Stays
    BY <1>1, <1>5 DEF Goto, Invocations
  <1>6. /\ {"mail-read", "mail-send", "alert", "findings", "fixes", "complete"} \subseteq PCs
        /\ {"mail-read", "mail-send", "alert"} \cap Persisting = {}
    BY DEF PCs, Persisting
  <1>7. Stays
    <2>1. CASE PauseGate(s) \/ MarkFailed(s) \/ RaiseAlert(s)
      BY <1>4, <1>5, <1>6, <2>1 DEF PauseGate, MarkFailed, RaiseAlert
    <2>2. CASE MarkCrawling(s) \/ Complete(s) \/ EmitCompleted(s) \/ MailSend(s)
      BY <1>4, <2>2 DEF MarkCrawling, Complete, EmitCompleted, MailSend, MailDone, PersistError
    <2>3. CASE Crawl(s)
      <3>1. CASE inv' = [inv EXCEPT ![s].pc = "clear", ![s].k = 1, ![s].crawl = crawls + 1]
        BY <1>1, <2>3, <3>1 DEF Invocations, Crawl, At, Persisting
      <3>2. QED
        BY <1>4, <2>3, <3>1 DEF Crawl
    <2>4. CASE Clear(s)
      <3>1. CASE inv' = [inv EXCEPT ![s].k = @ + 1]
        BY <1>1, <2>4, <3>1 DEF Invocations, Clear, At
      <3>2. CASE inv' = [inv EXCEPT ![s].k = 1, ![s].pc = "pages"]
        BY <1>1, <2>4, <3>2 DEF Invocations, Clear, At, Persisting
      <3>3. QED
        BY <1>4, <2>4, <3>1, <3>2 DEF Clear, PersistError
    <2>5. CASE InsertPages(s)
      <3>1. CASE inv' = [inv EXCEPT ![s].k = @ + 1]
        BY <1>1, <2>5, <3>1 DEF Invocations, InsertPages, At
      <3>2. CASE inv' = [inv EXCEPT ![s].k = 0, ![s].pc = "readback"]
        BY <1>1, <2>5, <3>2 DEF Invocations, InsertPages, At, Persisting
      <3>3. QED
        BY <1>4, <2>5, <3>1, <3>2 DEF InsertPages, PersistError
    <2>6. CASE ReadBack(s)
      <3>1. CASE inv' = [inv EXCEPT ![s].pc = "links", ![s].ids = kids["pages"]]
        BY <1>1, <2>6, <3>1 DEF Invocations, ReadBack, At, Persisting
      <3>2. QED
        BY <1>4, <2>6, <3>1 DEF ReadBack, PersistError
    <2>7. ASSUME NEW t \in {"links", "findings", "fixes"},
                 NEW next \in {"findings", "fixes", "complete"}, InsertRows(s, t, next)
          PROVE  Stays
      <3>1. inv[s].pc \in Persisting /\ next \in PCs /\ next \notin {"fail", "idle"}
        BY <1>6, <2>7 DEF InsertRows, At, Persisting
      <3>2. QED
        BY <1>4, <1>5, <2>7, <3>1 DEF InsertRows, PersistError
    <2>8. CASE MailRead(s)
      <3>1. CASE inv' = [inv EXCEPT ![s].pc = "mail-claim",
                                    ![s].letter = [to |-> audit.email, about |-> audit.status]]
        BY <1>1, <3>1 DEF Invocations, Persisting
      <3>2. QED
        BY <1>4, <2>8, <3>1 DEF MailRead, MailDone
    <2>9. CASE MailClaim(s)
      BY <1>4, <1>5, <1>6, <2>9 DEF MailClaim, MailDone
    <2>10. QED
      BY <2>1, <2>2, <2>3, <2>4, <2>5, <2>6, <2>7, <2>8, <2>9 DEF Work
  <1>8. QED
    BY <1>2, <1>3, <1>7

\* An invocation that ends leaves its slot idle.
LEMMA QuietReads ==
  ASSUME TypeOK, NEW s \in Slots, inv' = [inv EXCEPT ![s] = Quiet]
  PROVE  inv'[s].pc = "idle" /\ inv'[s].job = "none" /\ \A t \in Slots \ {s} : inv'[t] = inv[t]
  BY DEF TypeOK, Quiet

\* An invocation that begins is at the entry point of its job.
LEMMA DispatchReads ==
  ASSUME TypeOK, NEW s \in Slots, Dispatch(s)
  PROVE  /\ run' = run /\ run.state \in {"active", "failing"}
         /\ awaited = Nobody /\ awaited' = s
         /\ \A t \in Slots \ {s} : inv'[t] = inv[t]
         /\ inv'[s].pc \in {"gate", "mark", "crawl", "emit", "mail-read", "fail"}
         /\ inv'[s].pc = "crawl" => run.state = "active" /\ run.step = 3
         /\ run.state = "failing" => inv'[s].job = "on-failure"
         /\ inv'[s].job = "on-failure" => inv'[s].pc = "fail"
  <1> DEFINE job == IF run.state = "active" THEN Steps[run.step] ELSE "on-failure"
  <1>1. /\ inv' = [inv EXCEPT ![s] = [Quiet EXCEPT !.job = job, !.pc = EntryPoint(job)]]
        /\ run' = run /\ run.state \in {"active", "failing"}
        /\ awaited = Nobody /\ awaited' = s
    BY DEF Dispatch
  <1>2. inv \in [Slots -> Invocations] /\ run.step \in 1..5
    BY StepsLength DEF TypeOK, Runs
  <1>3. run.state = "active" =>
          /\ job # "on-failure"
          /\ job = "crawl-and-persist" => run.step = 3
    <2>1. \A i \in 1..5 : i = 1 \/ i = 2 \/ i = 3 \/ i = 4 \/ i = 5
      OBVIOUS
    <2>2. QED
      BY <1>2, <2>1 DEF Steps
  <1>4. run.state = "failing" => job = "on-failure"
    OBVIOUS
  <1> HIDE DEF job
  <1>5. inv'[s].pc = EntryPoint(job) /\ inv'[s].job = job /\ \A t \in Slots \ {s} : inv'[t] = inv[t]
    BY <1>1, <1>2 DEF Quiet
  <1>6. QED
    BY <1>1, <1>3, <1>4, <1>5 DEF EntryPoint

\* What an answer, or the want of one, makes of the run.
LEMMA RunMoves ==
  ASSUME TypeOK, NEW r, r = AfterLoss \/ \E o : r = AfterAnswer(o)
  PROVE  /\ r.state = "active" => run.state = "active"
         /\ r.state = "none" => run.state = "none"
         /\ r.state = "canceled" => run.state = "canceled"
         /\ r.step \in Nat /\ r.step >= run.step
         /\ r.state = "failed" => run.state \in {"failing", "failed"}
  <1> DEFINE Moved(q) == /\ q.state = "active" => run.state = "active"
                         /\ q.state = "none" => run.state = "none"
                         /\ q.state = "canceled" => run.state = "canceled"
                         /\ q.step \in Nat /\ q.step >= run.step
                         /\ q.state = "failed" => run.state \in {"failing", "failed"}
  <1>1. run \in Runs /\ run.step \in 1..5
    BY StepsLength DEF TypeOK, Runs
  <1>2. Moved(AfterLoss)
    BY <1>1 DEF AfterLoss, Runs
  <1>3. Moved(NextStep)
    <2>1. CASE run.step < Len(Steps)
      <3>1. NextStep.state = run.state /\ NextStep.step = run.step + 1
        BY <1>1, <2>1 DEF NextStep, Runs
      <3>2. QED
        BY <1>1, <3>1
    <2>2. CASE ~(run.step < Len(Steps))
      BY <1>1, <2>2 DEF NextStep, Runs
    <2>3. QED
      BY <2>1, <2>2
  <1>4. \A st \in {"failing", "done"} : Moved([run EXCEPT !.state = st])
    BY <1>1 DEF Runs
  <1>5. run.state = "failing" => Moved([run EXCEPT !.state = "failed"])
    BY <1>1 DEF Runs
  <1> HIDE DEF Moved
  <1>6. ASSUME NEW o PROVE Moved(AfterAnswer(o))
    BY <1>2, <1>3, <1>4, <1>5 DEF AfterAnswer
  <1>7. Moved(r)
    BY <1>2, <1>6
  <1>8. QED
    BY <1>7 DEF Moved

-----------------------------------------------------------------------------
(* One invocation at a time. *)

\* No step puts a second invocation to work, unless one was given up while it runs.
LEMMA AloneKept ==
  ASSUME TypeOK, "drop" \notin Faults, AloneInv, [Next]_vars
  PROVE  AloneInv'
  <1>1. CASE Web
    <2>1. inv' = inv
      BY <1>1, WebMoves
    <2>2. \/ UNCHANGED <<run, awaited, starter>>
          \/ starter = "ready" /\ UNCHANGED <<run, awaited>>
          \/ starter = "inserted" /\ starter' = "done" /\ UNCHANGED awaited
             /\ (run' = run \/ run' = [run EXCEPT !.state = "active"])
          \/ UNCHANGED starter /\ run.state = "active" /\ run' = [run EXCEPT !.state = "canceled"]
             /\ awaited' = Nobody
      BY <1>1 DEF Web, Start, SendRequested, CancelCheck, CancelUpdate, CancelSend, Notify,
                  DeleteExpired, TogglePause, web
    <2>3. run \in Runs
      BY DEF TypeOK
    <2>4. CASE starter = "inserted" /\ starter' = "done" /\ UNCHANGED awaited
               /\ run' = [run EXCEPT !.state = "active"]
      <3>1. run'.state = "active" /\ run'.step = run.step
        BY <2>3, <2>4 DEF Runs
      <3>2. \A s \in Slots : inv[s].pc = "idle"
        BY <2>4, SlotsAssumption DEF AloneInv
      <3>3. QED
        BY <2>1, <2>4, <3>1, <3>2 DEF AloneInv, Persisting
    <2>5. CASE /\ UNCHANGED starter /\ run.state = "active" /\ awaited' = Nobody
               /\ run' = [run EXCEPT !.state = "canceled"]
      <3>1. run'.state = "canceled" /\ run'.step = run.step
        BY <2>3, <2>5 DEF Runs
      <3>2. QED
        BY <2>1, <2>5, <3>1 DEF AloneInv
    <2>6. CASE UNCHANGED <<run, awaited>> /\ (starter # "done" \/ UNCHANGED starter)
      BY <2>1, <2>6 DEF AloneInv
    <2>7. QED
      BY <2>2, <2>4, <2>5, <2>6
  <1>2. ASSUME NEW s \in Slots, Dispatch(s)
        PROVE  AloneInv'
    <2>1. \A t \in Slots : inv[t].pc = "idle"
      BY <1>2, DispatchReads, SlotsAssumption DEF AloneInv
    <2>2. starter' = starter
      BY <1>2 DEF Dispatch, web
    <2>3. QED
      BY <1>2, <2>1, <2>2, DispatchReads DEF AloneInv, Persisting
  <1>3. ASSUME NEW s \in Slots, Answer(s) \/ LoseAnswer(s) \/ Kill(s)
        PROVE  AloneInv'
    <2>1. /\ inv[s].pc # "idle" /\ inv' = [inv EXCEPT ![s] = Quiet]
          /\ starter' = starter
          /\ \/ awaited # s /\ UNCHANGED <<run, awaited>>
             \/ /\ awaited = s /\ awaited' = Nobody
                /\ \/ run' = AfterLoss
                   \/ \E o : run' = AfterAnswer(o)
                   \/ run' \in {run, [run EXCEPT !.state = "failed"]}
      BY <1>3 DEF Answer, LoseAnswer, Kill, At, web, Unanswered
    <2>2. \A t \in Slots : inv'[t].pc = "idle"
      <3>1. inv'[s].pc = "idle" /\ \A t \in Slots \ {s} : inv'[t] = inv[t]
        BY <2>1, QuietReads
      <3>2. \A t \in Slots \ {s} : inv[t].pc = "idle"
        BY <2>1 DEF AloneInv
      <3>3. QED
        BY <3>1, <3>2
    <2>3. awaited = s => starter = "done" /\ run.state # "canceled"
      BY <2>1, SlotsAssumption DEF AloneInv
    <2>4. run \in Runs
      BY DEF TypeOK
    <2>5. QED
      BY <2>1, <2>2, <2>3, <2>4 DEF AloneInv, Persisting
  <1>4. ASSUME NEW s \in Slots, GiveUp(s)
        PROVE  FALSE
    BY <1>4 DEF GiveUp, Fault
  <1>5. ASSUME NEW s \in Slots, Work(s)
        PROVE  AloneInv'
    BY <1>5, WorkStays, WorkMoves DEF AloneInv
  <1>6. CASE UNCHANGED vars
    BY <1>6 DEF vars, AloneInv
  <1>7. QED
    BY <1>1, <1>2, <1>3, <1>4, <1>5, <1>6 DEF Next, Inngest
-----------------------------------------------------------------------------
(* The report. *)

\* Only the code that writes the report writes the tables.
LEMMA OthersLeaveTables ==
  ASSUME NEW s \in Slots, Work(s), inv[s].pc \notin Persisting
  PROVE  kids' = kids
  BY DEF Work, PauseGate, MarkCrawling, Crawl, Clear, InsertPages, ReadBack, InsertRows, Complete,
         EmitCompleted, MarkFailed, RaiseAlert, MailRead, MailClaim, MailSend, At, Persisting

\* An invocation that is past its writes, or never came to them, promises nothing of the tables.
LEMMA NoProgress ==
  ASSUME NEW s \in Slots, inv'[s].pc \notin Persisting \ {"crawl"}
  PROVE  Progress(s)'
  BY DEF Progress, Persisting

\* The tables are cleared one after the other; what was cleared stays so.
LEMMA ClearProgress ==
  ASSUME TypeOK, NEW s \in Slots, Clear(s), Progress(s)
  PROVE  Progress(s)'
  <1>1. inv \in [Slots -> Invocations] /\ kids \in [Tables -> SUBSET (Nat \X Nat)]
    BY DEF TypeOK
  <1>2. inv[s].pc = "clear" /\ inv[s].k \in 1..4
        /\ \A i \in 1..(inv[s].k - 1) : kids[CleanupOrder[i]] = {}
    BY DEF Clear, At, Progress
  <1>3. /\ Len(CleanupOrder) = 4 /\ CleanupOrder[1] = "links" /\ CleanupOrder[2] = "findings"
        /\ CleanupOrder[3] = "fixes" /\ CleanupOrder[4] = "pages"
    BY DEF CleanupOrder
  <1>4. CASE PersistError(s)
    <2>1. inv'[s].pc = "answer"
      BY <1>1, <1>4, AnsweringReads DEF PersistError
    <2>2. QED
      BY <2>1, NoProgress DEF Persisting
  <1>5. CASE kids' = Cleared(CleanupOrder[inv[s].k])
    <2> DEFINE u == CleanupOrder[inv[s].k]
    <2>1. u \in Tables /\ kids'[u] = {} /\ \A t \in Tables : kids[t] = {} => kids'[t] = {}
      BY <1>2, <1>3, <1>5 DEF Cleared, Tables
    <2>2. \A i \in 1..inv[s].k : kids'[CleanupOrder[i]] = {}
      <3>1. \A i \in 1..4 : i = 1 \/ i = 2 \/ i = 3 \/ i = 4
        OBVIOUS
      <3>2. \A i \in 1..4 : CleanupOrder[i] \in Tables
        BY <1>3, <3>1 DEF Tables
      <3> HIDE DEF u
      <3>3. ASSUME NEW i \in 1..inv[s].k
            PROVE  kids'[CleanupOrder[i]] = {}
        <4>1. i \in 1..4 /\ (i = inv[s].k \/ i \in 1..(inv[s].k - 1))
          BY <1>2
        <4>2. CASE i = inv[s].k
          BY <2>1, <4>2 DEF u
        <4>3. CASE i \in 1..(inv[s].k - 1)
          BY <1>2, <2>1, <3>2, <4>1, <4>3
        <4>4. QED
          BY <4>1, <4>2, <4>3
      <3>4. QED
        BY <3>3
    <2>3. CASE inv[s].k < 4 /\ inv' = [inv EXCEPT ![s].k = @ + 1]
      <3>1. inv'[s].pc = "clear" /\ inv'[s].k = inv[s].k + 1
        BY <1>1, <1>2, <2>3 DEF Invocations
      <3>2. QED
        BY <1>2, <2>2, <2>3, <3>1 DEF Progress
    <2>4. CASE inv[s].k = 4 /\ inv' = [inv EXCEPT ![s].k = 1, ![s].pc = "pages"]
      <3>1. inv'[s].pc = "pages" /\ inv'[s].k = 1
        BY <1>1, <2>4 DEF Invocations
      <3>2. \A t \in Tables : kids'[t] = {}
        BY <1>3, <2>2, <2>4 DEF Tables
      <3>3. {inv'[s].crawl} \X (1..(inv'[s].k - 1)) = {}
        BY <3>1
      <3>4. 1 \in 1..Chunks
        BY BoundsAssumption
      <3>5. QED
        BY <3>1, <3>2, <3>3, <3>4 DEF Progress, Empty, Tables
    <2>5. QED
      BY <1>2, <1>3, <1>5, <1>4, <2>3, <2>4 DEF Clear
  <1>6. QED
    BY <1>4, <1>5 DEF Clear

\* The pages are inserted chunk after chunk.
LEMMA PagesProgress ==
  ASSUME TypeOK, NEW s \in Slots, InsertPages(s), Progress(s)
  PROVE  Progress(s)'
  <1>1. inv \in [Slots -> Invocations] /\ kids \in [Tables -> SUBSET (Nat \X Nat)]
    BY DEF TypeOK
  <1> DEFINE c == inv[s].crawl
             k == inv[s].k
  <1>2. /\ inv[s].pc = "pages" /\ k \in 1..Chunks /\ kids["pages"] = {c} \X (1..(k - 1))
        /\ Empty({"links", "findings", "fixes"})
    BY DEF InsertPages, At, Progress
  <1>3. CASE Answering(s, "error")
    <2>1. inv'[s].pc = "answer"
      BY <1>1, <1>3, AnsweringReads
    <2>2. QED
      BY <2>1, NoProgress DEF Persisting
  <1>4. CASE kids' = [kids EXCEPT !["pages"] = @ \cup {<<c, k>>}]
    <2>1. kids'["pages"] = {c} \X (1..k)
      <3>1. kids'["pages"] = ({c} \X (1..(k - 1))) \cup {<<c, k>>}
        BY <1>1, <1>2, <1>4 DEF Tables
      <3>2. 1..k = (1..(k - 1)) \cup {k}
        BY <1>2
      <3>3. QED
        BY <3>1, <3>2
    <2>2. \A t \in {"links", "findings", "fixes"} : kids'[t] = {}
      BY <1>1, <1>2, <1>4 DEF Empty, Tables
    <2>3. CASE k < Chunks /\ inv' = [inv EXCEPT ![s].k = @ + 1]
      <3>1. inv'[s].pc = "pages" /\ inv'[s].k = k + 1 /\ inv'[s].crawl = c
        BY <1>1, <1>2, <2>3 DEF Invocations
      <3>2. inv'[s].k \in 1..Chunks /\ inv'[s].k - 1 = k
        BY <1>2, <2>3, <3>1, BoundsAssumption
      <3>3. QED
        BY <2>1, <2>2, <3>1, <3>2 DEF Progress, Empty
    <2>4. CASE k = Chunks /\ inv' = [inv EXCEPT ![s].k = 0, ![s].pc = "readback"]
      <3>1. inv'[s].pc = "readback" /\ inv'[s].crawl = c
        BY <1>1, <2>4 DEF Invocations
      <3>2. kids'["pages"] = Rows("pages", c)
        BY <2>1, <2>4 DEF Rows, Parts
      <3>3. QED
        BY <2>2, <3>1, <3>2 DEF Progress, Empty, Stored
    <2>5. QED
      BY <1>2, <1>3, <1>4, <2>3, <2>4, BoundsAssumption DEF InsertPages, PersistError
  <1>5. QED
    BY <1>3, <1>4 DEF InsertPages, PersistError

\* Links, findings and fixes are each one insert, into a table that is empty.
LEMMA RowsProgress ==
  ASSUME TypeOK, NEW s \in Slots, Progress(s),
         \/ InsertRows(s, "links", "findings")
         \/ InsertRows(s, "findings", "fixes")
         \/ InsertRows(s, "fixes", "complete")
  PROVE  Progress(s)'
  <1>1. inv \in [Slots -> Invocations] /\ kids \in [Tables -> SUBSET (Nat \X Nat)]
    BY DEF TypeOK
  <1>2. CASE Answering(s, "error")
    <2>1. inv'[s].pc = "answer"
      BY <1>1, <1>2, AnsweringReads
    <2>2. QED
      BY <2>1, NoProgress DEF Persisting
  <1>3. ASSUME NEW t \in Tables, NEW next \in {"findings", "fixes", "complete"},
               inv[s].pc = t, Empty({t}), Goto(s, next),
               kids' = [kids EXCEPT ![t] = @ \cup Rows(t, inv[s].crawl)]
        PROVE  /\ inv'[s].pc = next /\ inv'[s].crawl = inv[s].crawl
               /\ kids'[t] = Rows(t, inv[s].crawl)
               /\ \A u \in Tables \ {t} : kids'[u] = kids[u]
    BY <1>1, <1>3 DEF Goto, Invocations, Empty
  <1>4. CASE InsertRows(s, "links", "findings")
    <2>1. CASE Answering(s, "error")
      BY <1>2, <2>1
    <2>2. CASE Goto(s, "findings")
               /\ kids' = [kids EXCEPT !["links"] = @ \cup Rows("links", inv[s].crawl)]
      <3>1. inv[s].pc = "links"
        BY <1>4 DEF InsertRows, At
      <3>2. Empty({"links"}) /\ Empty({"findings"}) /\ Empty({"fixes"}) /\ Stored(s, {"pages"})
        BY <3>1 DEF Progress, Empty
      <3>3. /\ inv'[s].pc = "findings" /\ inv'[s].crawl = inv[s].crawl
            /\ kids'["links"] = Rows("links", inv[s].crawl)
            /\ \A u \in Tables \ {"links"} : kids'[u] = kids[u]
        BY <1>3, <2>2, <3>1, <3>2 DEF Tables
      <3>4. QED
        BY <3>2, <3>3 DEF Progress, Empty, Stored, Tables
    <2>3. QED
      BY <1>4, <2>1, <2>2 DEF InsertRows, PersistError
  <1>5. CASE InsertRows(s, "findings", "fixes")
    <2>1. CASE Answering(s, "error")
      BY <1>2, <2>1
    <2>2. CASE Goto(s, "fixes")
               /\ kids' = [kids EXCEPT !["findings"] = @ \cup Rows("findings", inv[s].crawl)]
      <3>1. inv[s].pc = "findings"
        BY <1>5 DEF InsertRows, At
      <3>2. Empty({"findings"}) /\ Empty({"fixes"}) /\ Stored(s, {"pages"}) /\ Stored(s, {"links"})
        BY <3>1 DEF Progress
      <3>3. /\ inv'[s].pc = "fixes" /\ inv'[s].crawl = inv[s].crawl
            /\ kids'["findings"] = Rows("findings", inv[s].crawl)
            /\ \A u \in Tables \ {"findings"} : kids'[u] = kids[u]
        BY <1>3, <2>2, <3>1, <3>2 DEF Tables
      <3>4. QED
        BY <3>2, <3>3 DEF Progress, Empty, Stored, Tables
    <2>3. QED
      BY <1>5, <2>1, <2>2 DEF InsertRows, PersistError
  <1>6. CASE InsertRows(s, "fixes", "complete")
    <2>1. CASE Answering(s, "error")
      BY <1>2, <2>1
    <2>2. CASE Goto(s, "complete")
               /\ kids' = [kids EXCEPT !["fixes"] = @ \cup Rows("fixes", inv[s].crawl)]
      <3>1. inv[s].pc = "fixes"
        BY <1>6 DEF InsertRows, At
      <3>2. /\ Empty({"fixes"})
            /\ Stored(s, {"pages"}) /\ Stored(s, {"links"}) /\ Stored(s, {"findings"})
        BY <3>1 DEF Progress
      <3>3. /\ inv'[s].pc = "complete" /\ inv'[s].crawl = inv[s].crawl
            /\ kids'["fixes"] = Rows("fixes", inv[s].crawl)
            /\ \A u \in Tables \ {"fixes"} : kids'[u] = kids[u]
        BY <1>3, <2>2, <3>1, <3>2 DEF Tables
      <3>4. QED
        BY <3>2, <3>3 DEF Progress, Empty, Stored, Tables
    <2>3. QED
      BY <1>6, <2>1, <2>2 DEF InsertRows, PersistError
  <1>7. QED
    BY <1>4, <1>5, <1>6

\* The invocation at work carries the tables from the state its place names to the next.
LEMMA WorkProgress ==
  ASSUME TypeOK, NEW s \in Slots, Work(s), Progress(s)
  PROVE  Progress(s)'
  <1>1. inv \in [Slots -> Invocations]
    BY DEF TypeOK
  <1>2. CASE inv[s].pc \notin Persisting
    <2>1. inv'[s].pc \notin Persisting
      BY <1>2, WorkStays
    <2>2. QED
      BY <2>1, NoProgress
  <1>3. CASE Crawl(s)
    <2>1. CASE inv' = [inv EXCEPT ![s].pc = "clear", ![s].k = 1, ![s].crawl = crawls + 1]
      <3>1. inv'[s].pc = "clear" /\ inv'[s].k = 1
        BY <1>1, <2>1 DEF Invocations
      <3>2. QED
        BY <3>1 DEF Progress
    <2>2. CASE Answering(s, "error") \/ Answering(s, "fatal")
      <3>1. inv'[s].pc = "answer"
        BY <1>1, <2>2, AnsweringReads
      <3>2. QED
        BY <3>1, NoProgress DEF Persisting
    <2>3. QED
      BY <1>3, <2>1, <2>2 DEF Crawl
  <1>4. CASE ReadBack(s)
    <2>1. kids' = kids /\ inv[s].pc = "readback"
      BY <1>4 DEF ReadBack, At
    <2>2. CASE inv' = [inv EXCEPT ![s].pc = "links", ![s].ids = kids["pages"]]
      <3>1. inv'[s].pc = "links" /\ inv'[s].crawl = inv[s].crawl
        BY <1>1, <2>2 DEF Invocations
      <3>2. QED
        BY <2>1, <3>1 DEF Progress, Empty, Stored
    <2>3. CASE Answering(s, "error")
      <3>1. inv'[s].pc = "answer"
        BY <1>1, <2>3, AnsweringReads
      <3>2. QED
        BY <3>1, NoProgress DEF Persisting
    <2>4. QED
      BY <1>4, <2>2, <2>3 DEF ReadBack, PersistError
  <1>5. CASE Complete(s)
    <2>1. inv'[s].pc = "answer"
      BY <1>1, <1>5, AnsweringReads DEF Complete, PersistError
    <2>2. QED
      BY <2>1, NoProgress DEF Persisting
  <1>6. CASE Clear(s) \/ InsertPages(s)
    BY <1>6, ClearProgress, PagesProgress
  <1>7. CASE \/ InsertRows(s, "links", "findings") \/ InsertRows(s, "findings", "fixes")
             \/ InsertRows(s, "fixes", "complete")
    BY <1>7, RowsProgress
  <1>8. CASE \/ PauseGate(s) \/ MarkCrawling(s) \/ EmitCompleted(s) \/ MarkFailed(s)
             \/ RaiseAlert(s) \/ MailRead(s) \/ MailClaim(s) \/ MailSend(s)
    <2>1. inv[s].pc \notin Persisting
      BY <1>8 DEF PauseGate, MarkCrawling, EmitCompleted, MarkFailed, RaiseAlert, MailRead,
                  MailClaim, MailSend, At, Persisting
    <2>2. QED
      BY <1>2, <2>1
  <1>9. QED
    BY <1>3, <1>4, <1>5, <1>6, <1>7, <1>8 DEF Work

\* The row is completed by the one UPDATE, and reads the crawl whose rows are in the tables.
LEMMA CompletedByUpdate ==
  ASSUME TypeOK, NEW s \in Slots, Work(s), audit'.status = "completed"
  PROVE  \/ audit.status = "completed" /\ audit'.report = audit.report
         \/ /\ inv[s].pc = "complete" /\ inv'[s].pc = "answer" /\ inv'[s].outcome = "ok"
            /\ audit.status = "crawling" /\ audit'.report = inv[s].crawl /\ kids' = kids
  <1>1. inv \in [Slots -> Invocations] /\ audit \in Audits
    BY DEF TypeOK
  <1>2. CASE audit' = audit \/ audit' = [audit EXCEPT !.notified = TRUE]
    BY <1>1, <1>2 DEF Audits
  <1>3. CASE /\ Complete(s) /\ audit.status = "crawling" /\ Answering(s, "ok")
             /\ audit' = [audit EXCEPT !.status = "completed", !.report = inv[s].crawl]
    <2>1. audit'.report = inv[s].crawl
      BY <1>1, <1>3 DEF Audits
    <2>2. inv'[s].pc = "answer" /\ inv'[s].outcome = "ok"
      BY <1>1, <1>3 DEF Answering, Invocations
    <2>3. QED
      BY <1>3, <2>1, <2>2 DEF Complete, At
  <1>4. CASE Complete(s)
    BY <1>2, <1>3, <1>4 DEF Complete
  <1>5. CASE ~Complete(s)
    <2>1. ~Moves({"crawling"}, "completed") \/ audit' = audit
      BY <1>1, <1>5
      DEF Work, PauseGate, MarkCrawling, Crawl, Clear, InsertPages, ReadBack, InsertRows,
          EmitCompleted, MarkFailed, RaiseAlert, MailRead, MailClaim, MailSend, Moves, Audits, Running
    <2>2. QED
      BY <1>2, <2>1, WorkWrites DEF Moves
  <1>6. QED
    BY <1>4, <1>5

\* No step breaks a whole report, or the tables a report is being written to.
LEMMA ReportKept ==
  ASSUME TypeOK, BegunInv, {"lost", "drop"} \cap Faults = {}, AloneInv, ReportInv, [Next]_vars
  PROVE  ReportInv'
  <1>1. audit \in Audits /\ inv \in [Slots -> Invocations]
    BY DEF TypeOK
  <1>2. CASE Web
    <2>1. UNCHANGED inv
      BY <1>2, WebMoves
    <2>2. CASE Start
      <3>1. audit'.status = "pending" /\ \A s \in Slots : inv'[s].pc = "idle"
        BY <1>1, <2>1, <2>2 DEF Start, BegunInv, Audits
      <3>2. \A s \in Slots : Progress(s)'
        BY <3>1, NoProgress DEF Persisting
      <3>3. QED
        BY <3>1, <3>2 DEF ReportInv
    <2>3. CASE DeleteExpired
      <3>1. audit'.status = "deleted"
        BY <1>1, <2>3 DEF DeleteExpired, Audits
      <3>2. QED
        BY <3>1 DEF ReportInv, Exists
    <2>4. CASE ~Start /\ ~DeleteExpired
      <3>1. kids' = kids
        BY <1>2, <2>4 DEF Web, SendRequested, CancelCheck, CancelUpdate, CancelSend, Notify,
                          TogglePause
      <3>2. Exists' => Exists
        BY <1>1, <1>2, <2>4 DEF Web, SendRequested, CancelCheck, CancelUpdate, CancelSend, Notify,
                           TogglePause, Exists, Audits, Running
      <3>3. audit'.status = "completed" => audit' = audit
        BY <1>1, <1>2, <2>4, WebWrites DEF Moves, Running, DeleteExpired, Audits
      <3>4. \/ UNCHANGED <<run, awaited>>
            \/ starter = "inserted"
            \/ run' = [run EXCEPT !.state = "canceled"]
        BY <1>2, <2>4 DEF Web, SendRequested, CancelCheck, CancelUpdate, CancelSend, Notify,
                          TogglePause, web
      <3>5. CrawlStepIsDone => CrawlStepIsDone'
        <4>1. run \in Runs
          BY DEF TypeOK
        <4>2. starter = "inserted" => ~CrawlStepIsDone
          BY DEF AloneInv, CrawlStepIsDone
        <4>3. QED
          BY <2>1, <3>4, <4>1, <4>2 DEF CrawlStepIsDone, Runs
      <3>6. (\A s \in Slots : Progress(s)) => (\A s \in Slots : Progress(s)')
        BY <2>1, <3>1 DEF Progress, Empty, Stored
      <3>7. QED
        BY <3>1, <3>2, <3>3, <3>5, <3>6 DEF ReportInv, WholeReport
    <2>5. QED
      BY <2>2, <2>3, <2>4
  <1>3. ASSUME NEW s \in Slots, Inngest(s)
        PROVE  ReportInv'
    <2>1. UNCHANGED <<audit, kids>>
      BY <1>3 DEF Inngest, Dispatch, Answer, LoseAnswer, Kill, GiveUp
    <2>2. CASE Dispatch(s)
      <3>1. ASSUME CrawlStepIsDone
            PROVE  CrawlStepIsDone'
        <4>1. inv'[s].pc \notin Persisting
          BY <2>2, <3>1, DispatchReads, SlotsAssumption DEF CrawlStepIsDone, Persisting
        <4>2. QED
          BY <2>2, <3>1, <4>1, DispatchReads, SlotsAssumption DEF CrawlStepIsDone
      <3>2. Progress(s)'
        BY <2>2, DispatchReads, NoProgress DEF Persisting
      <3>3. \A t \in Slots \ {s} : Progress(t) => Progress(t)'
        BY <2>1, <2>2, DispatchReads DEF Progress, Empty, Stored
      <3>4. QED
        BY <2>1, <3>1, <3>2, <3>3 DEF ReportInv, Exists, WholeReport
    <2>3. CASE Answer(s) \/ Kill(s)
      <3>1. inv' = [inv EXCEPT ![s] = Quiet]
        BY <2>3 DEF Answer, Kill
      <3>2. inv'[s].pc = "idle" /\ \A t \in Slots \ {s} : inv'[t] = inv[t]
        BY <3>1, QuietReads
      <3>3. ASSUME CrawlStepIsDone
            PROVE  CrawlStepIsDone'
        <4>1. \A t \in Slots : inv'[t].pc \notin Persisting
          BY <3>2, <3>3 DEF CrawlStepIsDone, Persisting
        <4>2. CASE awaited # s
          <5>1. UNCHANGED <<run, awaited>>
            BY <2>3, <4>2 DEF Answer, Kill
          <5>2. QED
            BY <3>2, <3>3, <4>1, <4>2, <5>1 DEF CrawlStepIsDone
        <4>3. CASE awaited = s /\ Answer(s)
          <5>1. /\ run.state # "none"
                /\ \/ run' = AfterAnswer(inv[s].outcome)
                   \/ /\ inv[s].outcome = "error"
                      /\ run' = AfterLoss \/ run' \in {run, [run EXCEPT !.state = "failed"]}
            BY <3>3, <4>3 DEF Answer, Unanswered, CrawlStepIsDone
          <5>2. run'.state # "none" /\ (run'.state = "active" => run.state = "active")
                /\ run'.step \in Nat /\ run'.step >= run.step
            <6>1. run \in Runs /\ run.step \in Nat
              BY StepsLength DEF TypeOK, Runs
            <6>2. QED
              BY <5>1, <6>1, RunMoves DEF Runs
          <5>3. ASSUME run.state = "active", run.step = 3, inv[s].outcome = "ok"
                PROVE  run'.step = 4
            <6>1. run' = NextStep
              BY <5>1, <5>3 DEF AfterAnswer
            <6>2. run' = [run EXCEPT !.step = @ + 1, !.attempt = 1]
              BY <5>3, <6>1, StepsLength DEF NextStep
            <6>3. QED
              BY <5>3, <6>2 DEF TypeOK, Runs
          <5>4. run.step \in Nat
            BY StepsLength DEF TypeOK, Runs
          <5>5. QED
            BY <3>3, <4>1, <4>3, <5>2, <5>3, <5>4 DEF CrawlStepIsDone
        <4>4. CASE awaited = s /\ Kill(s)
          <5>1. inv[s].pc # "answer" /\ run.state # "none"
            BY <3>3, <4>4 DEF Kill, CrawlStepIsDone
          <5>2. \/ run' = AfterLoss
                \/ run' \in {run, [run EXCEPT !.state = "failed"]}
            BY <4>4 DEF Kill, Unanswered
          <5>3. run \in Runs /\ run.step \in Nat
            BY StepsLength DEF TypeOK, Runs
          <5>4. run'.state # "none" /\ (run'.state = "active" => run.state = "active")
                /\ run'.step \in Nat /\ run'.step >= run.step
            BY <5>1, <5>2, <5>3, RunMoves DEF Runs
          <5>5. QED
            BY <3>3, <4>1, <4>4, <5>1, <5>3, <5>4 DEF CrawlStepIsDone
        <4>5. QED
          BY <2>3, <4>2, <4>3, <4>4
      <3>4. \A t \in Slots : Progress(t) => Progress(t)'
        <4>1. Progress(s)'
          BY <3>2, NoProgress DEF Persisting
        <4>2. \A t \in Slots \ {s} : Progress(t) => Progress(t)'
          BY <2>1, <3>2 DEF Progress, Empty, Stored
        <4>3. QED
          BY <4>1, <4>2
      <3>5. QED
        BY <2>1, <3>3, <3>4 DEF ReportInv, Exists, WholeReport
    <2>4. CASE LoseAnswer(s) \/ GiveUp(s)
      BY <2>4 DEF LoseAnswer, GiveUp, Fault
    <2>5. QED
      BY <1>3, <2>2, <2>3, <2>4 DEF Inngest
  <1>4. ASSUME NEW s \in Slots, Work(s)
        PROVE  ReportInv'
    <2>1. /\ UNCHANGED <<run, awaited, starter>>
          /\ inv[s].pc \notin {"idle", "answer"}
          /\ inv'[s].pc \in Persisting => inv[s].pc \in Persisting
          /\ \A t \in Slots \ {s} : inv'[t] = inv[t]
      BY <1>4, WorkStays, WorkMoves
    <2>2. \A t \in Slots \ {s} : inv'[t].pc = "idle"
      BY <2>1 DEF AloneInv
    <2>3. Exists => \A t \in Slots : Progress(t)'
      <3>1. \A t \in Slots \ {s} : Progress(t)'
        BY <2>2, NoProgress DEF Persisting
      <3>2. Exists => Progress(s)'
        BY <1>4, WorkProgress DEF ReportInv
      <3>3. QED
        BY <3>1, <3>2
    <2>4. Exists' => Exists
      BY <1>1, <1>4, WorkWrites DEF Exists, Moves, Running
    <2>5. ASSUME audit'.status = "completed", audit.status = "completed",
                 audit'.report = audit.report
          PROVE  WholeReport(audit.report)' /\ CrawlStepIsDone'
      <3>1. CrawlStepIsDone /\ WholeReport(audit.report)
        BY <2>5 DEF ReportInv
      <3>2. kids' = kids
        BY <1>4, <3>1, OthersLeaveTables DEF CrawlStepIsDone
      <3>3. QED
        BY <2>1, <2>5, <3>1, <3>2 DEF CrawlStepIsDone, WholeReport
    <2>6. ASSUME audit'.status = "completed", audit.status = "crawling",
                 inv[s].pc = "complete", inv'[s].pc = "answer", inv'[s].outcome = "ok",
                 audit'.report = inv[s].crawl, kids' = kids
          PROVE  WholeReport(audit.report)' /\ CrawlStepIsDone'
      <3>1. Progress(s)
        BY <2>6 DEF ReportInv, Exists
      <3>2. \A t \in Tables : kids[t] = Rows(t, inv[s].crawl)
        BY <2>6, <3>1 DEF Progress, Stored, Tables
      <3>3. kids = [t \in Tables |-> Rows(t, inv[s].crawl)]
        BY <3>2 DEF TypeOK
      <3>4. WholeReport(audit.report)'
        BY <2>6, <3>3 DEF WholeReport
      <3>5. run.step = 3 /\ (awaited = s \/ run.state = "canceled") /\ run.state # "none"
        BY <2>6, SlotsAssumption DEF AloneInv, Persisting
      <3>6. CrawlStepIsDone'
        BY <2>1, <2>2, <2>6, <3>5 DEF CrawlStepIsDone, Persisting
      <3>7. QED
        BY <3>4, <3>6
    <2>7. audit'.status = "completed" => WholeReport(audit.report)' /\ CrawlStepIsDone'
      BY <1>4, <2>5, <2>6, CompletedByUpdate
    <2>8. QED
      BY <2>3, <2>4, <2>7 DEF ReportInv
  <1>5. CASE UNCHANGED vars
    BY <1>5 DEF vars, ReportInv, CrawlStepIsDone, Progress, Empty, Stored, Exists, WholeReport
  <1>6. QED
    BY <1>2, <1>3, <1>4, <1>5 DEF Next

\* A completed audit shows one crawl, whole, as long as no answer of the step is lost and no
\* invocation given up while it works: whatever else fails, however often, and wherever an
\* invocation is killed, for every number of slots and chunks.
THEOREM ReportIsWhole ==
  ASSUME {"lost", "drop"} \cap Faults = {}
  PROVE  Spec => []ReportWhole
  <1>1. Init => AloneInv /\ ReportInv
    BY DEF Init, AloneInv, ReportInv, Exists, Quiet, Persisting
  <1>2. IInv /\ AloneInv /\ ReportInv /\ [Next]_vars => AloneInv' /\ ReportInv'
    BY AloneKept, ReportKept DEF IInv
  <1>3. ReportInv => ReportWhole
    BY DEF ReportInv, ReportWhole
  <1>4. QED
    BY <1>1, <1>2, <1>3, Honest, PTL DEF Spec

-----------------------------------------------------------------------------
(* The failure handler's answer. *)

\* A handler that is past its UPDATE left no running row behind or said so, the run is settled by no
\* one but a handler, and a run that failed has none running.
Said == audit.status \notin Running \/ alerts.blind > 0

FailInv ==
  /\ \A s \in Slots : inv[s].pc = "idle" => inv[s].job = "none"
  /\ \A s \in Slots : inv[s].job = "on-failure" /\ inv[s].pc # "fail" =>
                       Said
  /\ \A s \in Slots : run.state = "failing" /\ awaited = s => inv[s].job = "on-failure"
  /\ run.state = "failed" => Said

\* A row that is not running does not run again: only the insert sets it running.
LEMMA EndedStaysEnded ==
  ASSUME TypeOK, audit.status \notin Running, ~Start,
         Web \/ \E s \in Slots : Inngest(s) \/ Work(s)
  PROVE  audit'.status \notin Running
  <1>1. audit \in Audits
    BY DEF TypeOK
  <1>2. CASE Web
    BY <1>1, <1>2, WebWrites DEF Moves, Running, Audits
  <1>3. ASSUME NEW s \in Slots, Work(s)
        PROVE  audit'.status \notin Running
    BY <1>1, <1>3, WorkWrites DEF Moves, Running, Audits
  <1>4. QED
    BY <1>2, <1>3, InngestWrites

\* What a handler did or said, stays done or said.
LEMMA SaidStays ==
  ASSUME TypeOK, Said, ~Start, Web \/ \E s \in Slots : Inngest(s) \/ Work(s)
  PROVE  Said'
  <1>1. alerts.blind \in Nat
    BY DEF TypeOK
  <1>2. ASSUME NEW s \in Slots, Work(s)
        PROVE  alerts'.blind \in {alerts.blind, alerts.blind + 1}
    BY <1>2, WorkMoves DEF TypeOK
  <1>3. alerts'.blind \in {alerts.blind, alerts.blind + 1}
    BY <1>2, WebMoves, InngestWrites
  <1>4. QED
    BY <1>1, <1>3, EndedStaysEnded DEF Said

\* The handler's UPDATE finds no running row, ends it, or throws and signals.
LEMMA HandlerEnds ==
  ASSUME TypeOK, "onfail" \notin Faults, NEW s \in Slots, Work(s), At(s, "fail")
  PROVE  Said'
  <1>1. MarkFailed(s)
    BY DEF Work, PauseGate, MarkCrawling, Crawl, Clear, InsertPages, ReadBack, InsertRows, Complete,
           EmitCompleted, RaiseAlert, MailRead, MailClaim, MailSend, At
  <1>2. audit \in Audits
    BY DEF TypeOK
  <1>3. CASE audit' = [audit EXCEPT !.status = "failed", !.reason = "crawl"]
    BY <1>2, <1>3 DEF Audits, Running, Said
  <1>4. CASE audit.status \notin Running /\ audit' = audit
    BY <1>4 DEF Said
  <1>5. CASE alerts' = [alerts EXCEPT !.blind = @ + 1]
    BY <1>5 DEF TypeOK, Said
  <1>6. QED
    BY <1>1, <1>3, <1>4, <1>5 DEF MarkFailed, Fault

\* No step leaves a running row to a run that failed.
LEMMA FailKept ==
  ASSUME TypeOK, BegunInv, {"onfail", "handler", "drop"} \cap Faults = {}, FailInv, [Next]_vars
  PROVE  FailInv'
  <1>1. run \in Runs
    BY DEF TypeOK
  <1>2. CASE Web
    <2>1. UNCHANGED inv
      BY <1>2, WebMoves
    <2>2. CASE Start
      <3>1. run'.state = "none" /\ \A s \in Slots : inv'[s].job = "none"
        BY <2>1, <2>2 DEF Start, BegunInv, FailInv
      <3>2. QED
        BY <3>1 DEF FailInv
    <2>3. CASE ~Start
      <3>1. Said => Said'
        BY <1>2, <2>3, SaidStays
      <3>2. \/ UNCHANGED <<run, awaited>>
            \/ run' = [run EXCEPT !.state = "active"]
            \/ run' = [run EXCEPT !.state = "canceled"]
        BY <1>2, <2>3 DEF Web, SendRequested, CancelCheck, CancelUpdate, CancelSend, Notify,
                          DeleteExpired, TogglePause, web
      <3>3. \/ UNCHANGED <<run, awaited>>
            \/ run'.state \notin {"failing", "failed"}
        BY <1>1, <3>2 DEF Runs
      <3>4. QED
        BY <2>1, <3>1, <3>3 DEF FailInv
    <2>4. QED
      BY <2>2, <2>3
  <1>3. ASSUME NEW s \in Slots, Inngest(s)
        PROVE  FailInv'
    <2>1. Said' <=> Said
      BY <1>3, InngestWrites DEF Said
    <2>2. CASE Dispatch(s)
      <3>1. \A t \in Slots : inv'[t].pc = "idle" => inv'[t].job = "none"
        BY <2>2, DispatchReads DEF FailInv
      <3>2. ASSUME NEW t \in Slots, inv'[t].job = "on-failure", inv'[t].pc # "fail"
            PROVE  Said'
        BY <2>1, <2>2, <3>2, DispatchReads DEF FailInv
      <3>3. QED
        BY <2>1, <2>2, <3>1, <3>2, DispatchReads DEF FailInv
    <2>3. CASE Answer(s) \/ LoseAnswer(s) \/ Kill(s)
      <3>1. /\ inv' = [inv EXCEPT ![s] = Quiet]
            /\ \/ awaited # s /\ UNCHANGED <<run, awaited>>
               \/ awaited = s /\ awaited' = Nobody
        BY <2>3 DEF Answer, LoseAnswer, Kill
      <3>2. /\ inv'[s].pc = "idle" /\ inv'[s].job = "none"
            /\ \A t \in Slots \ {s} : inv'[t] = inv[t]
        BY <3>1, QuietReads
      <3>3. run'.state = "failed" => Said
        <4>1. CASE awaited # s
          BY <3>1, <4>1 DEF FailInv
        <4>2. CASE awaited = s
          <5>1. \/ run' = AfterLoss \/ \E o : run' = AfterAnswer(o)
                \/ run' = run
                \/ run.state = "failing" /\ run' = [run EXCEPT !.state = "failed"]
            BY <2>3, <4>2 DEF Answer, LoseAnswer, Kill, Unanswered
          <5>2. run'.state = "failed" => run.state \in {"failing", "failed"}
            BY <5>1, RunMoves
          <5>3. run.state = "failing" => inv[s].job = "on-failure"
            BY <4>2 DEF FailInv
          <5>4. inv[s].job = "on-failure" => inv[s].pc = "answer"
            BY <2>3 DEF Answer, LoseAnswer, Kill, Fault, At
          <5>5. QED
            BY <5>2, <5>3, <5>4 DEF FailInv
        <4>3. QED
          BY <4>1, <4>2
      <3>4. QED
        BY <2>1, <3>1, <3>2, <3>3, SlotsAssumption DEF FailInv
    <2>4. CASE GiveUp(s)
      BY <2>4 DEF GiveUp, Fault
    <2>5. QED
      BY <1>3, <2>2, <2>3, <2>4 DEF Inngest
  <1>4. ASSUME NEW s \in Slots, Work(s)
        PROVE  FailInv'
    <2>1. /\ UNCHANGED <<run, awaited>>
          /\ inv'[s].job = inv[s].job /\ inv'[s].pc # "idle"
          /\ inv'[s].pc = "fail" => inv[s].pc = "fail"
          /\ inv[s].pc = "fail" => inv'[s].pc # "fail"
          /\ \A t \in Slots \ {s} : inv'[t] = inv[t]
      BY <1>4, WorkStays, WorkMoves
    <2>2. ~Start
      BY <1>4, WorkStays DEF Start
    <2>3. Said => Said'
      BY <1>4, <2>2, SaidStays
    <2>4. inv[s].pc = "fail" => Said'
      BY <1>4, HandlerEnds DEF At
    <2>5. \A t \in Slots : inv'[t].job = "on-failure" /\ inv'[t].pc # "fail" => Said'
      BY <2>1, <2>3, <2>4 DEF FailInv
    <2>6. QED
      BY <2>1, <2>3, <2>5 DEF FailInv
  <1>5. CASE UNCHANGED vars
    BY <1>5 DEF vars, FailInv, Said
  <1>6. QED
    BY <1>2, <1>3, <1>4, <1>5 DEF Next

\* A run that failed leaves no audit running unsignalled, although the handler's UPDATE may
\* throw, again and again, and its answer be lost: only a handler that is killed or given up,
\* or whose UPDATE returns its error, leaves one.
THEOREM FailuresAreSignalled ==
  ASSUME {"onfail", "handler", "drop"} \cap Faults = {}
  PROVE  Spec => []FailureSignalled
  <1>1. Init => FailInv
    BY DEF Init, FailInv, Quiet
  <1>2. IInv /\ FailInv /\ [Next]_vars => FailInv'
    BY FailKept DEF IInv
  <1>3. FailInv => FailureSignalled
    BY DEF FailInv, FailureSignalled, Said
  <1>4. QED
    BY <1>1, <1>2, <1>3, Honest, PTL DEF Spec

=============================================================================
