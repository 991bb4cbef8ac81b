---------------------------- MODULE AuditPromise ----------------------------
(***************************************************************************)
(* What an audit promises whoever started it, with the routes, the steps   *)
(* and the retries left out: it moves forward through its statuses, it     *)
(* ends at most once and stays ended, and its end is reported by at most   *)
(* one mail and at most one alert, each only for an end that calls for it. *)
(* Beside them there are blind alerts: an end could not be written down,   *)
(* and that is said without knowing what the audit has come to.            *)
(***************************************************************************)
EXTENDS Naturals

VARIABLES status, mails, alerts, blind

pvars == <<status, mails, alerts, blind>>

PInit == status = "absent" /\ mails = 0 /\ alerts = 0 /\ blind = 0

Forward(from, to) ==
  \/ from = "absent"   /\ to = "pending"
  \/ from = "pending"  /\ to \in {"crawling", "failed", "canceled"}
  \/ from = "crawling" /\ to \in {"completed", "failed", "canceled"}

Move ==
  /\ \E to \in {"pending", "crawling", "completed", "failed", "canceled"} :
       Forward(status, to) /\ status' = to
  /\ UNCHANGED <<mails, alerts, blind>>

\* The row of an audit that expired is deleted, ended or not.
Forget ==
  /\ status \notin {"absent", "deleted"} /\ status' = "deleted"
  /\ UNCHANGED <<mails, alerts, blind>>

\* A mail or a signal already on its way may outlive the row.
Mail ==
  /\ status \in {"completed", "failed", "deleted"} /\ mails = 0
  /\ mails' = 1 /\ UNCHANGED <<status, alerts, blind>>

Alert ==
  /\ status \in {"failed", "deleted"} /\ alerts = 0
  /\ alerts' = 1 /\ UNCHANGED <<status, mails, blind>>

BlindAlert ==
  /\ status # "absent"
  /\ blind' = blind + 1 /\ UNCHANGED <<status, mails, alerts>>

PNext == Move \/ Forget \/ Mail \/ Alert \/ BlindAlert

PSpec == PInit /\ [][PNext]_pvars

=============================================================================
