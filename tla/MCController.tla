---------------------------- MODULE MCController ----------------------------
EXTENDS Controller, TLC

\* Workers are interchangeable.
WorkerSymmetry == Permutations(Workers)
=============================================================================
