------------------------------ MODULE MCReader ------------------------------
EXTENDS ThreadReader, TLC
=============================================================================
