------------------------------- MODULE MCRecord -------------------------------
EXTENDS VendorRecord, TLC

\* The runs of one process, the targets, the disputes and the levels are interchangeable.
Symmetry == UNION {Permutations(S) : S \in {ApiRuns, SweepRuns, Targets, Disputes, Levels}}
===============================================================================
