------------------------------ MODULE MCLimiter -------------------------------
EXTENDS RateLimiter, TLC

\* Runs are interchangeable, and so are the collectors of a run.
Symmetry == Permutations(Runs) \cup Permutations(Collectors)
===============================================================================
