----------------------------- MODULE MCService -----------------------------
EXTENDS BatchService, TLC

CONSTANTS b1, b2, b3

\* One nonce name for each batch: a batch is sent again with another nonce when
\* the name has become free.
MCBatchOf == [r \in Requests |-> r]

Symmetry == Permutations(Batches)
=============================================================================
