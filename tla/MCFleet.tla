------------------------------ MODULE MCFleet ------------------------------
EXTENDS Fleet, TLC

WorkerSymmetry == Permutations(Workers)
=============================================================================
