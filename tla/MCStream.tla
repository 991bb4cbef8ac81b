------------------------------ MODULE MCStream ------------------------------
(* Constants of the ProgressStream run. *)
EXTENDS ProgressStream, TLC

\* The first attempt tells of three events, the second of its last one alone.
MCEvents == <<3, 1>>
=============================================================================
