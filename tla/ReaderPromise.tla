--------------------------- MODULE ReaderPromise ---------------------------
(***************************************************************************)
(* What the page reader promises its callers: reads are settled once each, *)
(* in the order they were sent, and a thread that breaks down costs at     *)
(* most one read.                                                          *)
(***************************************************************************)
EXTENDS Naturals, Sequences

VARIABLES
  sent,     \* how many reads were sent
  settled,  \* what they were settled with, oldest first
  broken    \* the thread has broken down and no read has paid for it

pvars == <<sent, settled, broken>>

Outcomes == {"read", "error"}

Quiet == sent = 0 /\ settled = <<>> /\ ~broken

Ask == sent' = sent + 1 /\ UNCHANGED <<settled, broken>>

Settle == /\ Len(settled) < sent
          /\ \E v \in Outcomes : settled' = Append(settled, v)
          /\ UNCHANGED <<sent, broken>>

Break == ~broken /\ broken' = TRUE /\ UNCHANGED <<sent, settled>>

\* The breakdown is paid for by the oldest read, or by none if none waits.
Crash == /\ broken /\ ~broken'
         /\ settled' = IF Len(settled) < sent THEN Append(settled, "reader_thread_crashed")
                                              ELSE settled
         /\ UNCHANGED sent

\* A thread stopped for one read's deadline costs that read; if the thread had
\* broken down as well, the read has paid for that too.
TimeOut == /\ Len(settled) < sent
            /\ settled' = Append(settled, "reader_deadline")
            /\ broken' = FALSE
            /\ UNCHANGED sent

Step == Ask \/ Settle \/ Break \/ Crash \/ TimeOut

Promise == Quiet /\ [][Step]_pvars
=============================================================================
