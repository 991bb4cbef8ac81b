-------------------------- MODULE MCAuditLifecycle --------------------------
(* Constants of the AuditLifecycle runs: which faults each run allows. *)
EXTENDS AuditLifecycle, TLC

\* The failures the code's own comments count on: calls that fail and say so.
ThrownFaults == {"send", "db", "crawl", "timeout", "emit", "mail"}

\* ... and an invocation the platform kills before it has answered.
PlatformFaults == ThrownFaults \cup {"kill"}

\* Failures of everything but the mail itself, the failure handler's UPDATE included.
MailSafeFaults == {"send", "db", "crawl", "timeout", "emit", "reject"}

\* An answer that is lost after the last write, and a retry that fails.
LostAnswer == {"lost", "db"}
=============================================================================
