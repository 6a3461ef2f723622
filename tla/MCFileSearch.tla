---------------------------- MODULE MCFileSearch ---------------------------
EXTENDS FileSearch, TLC

Symmetry == Permutations(Files) \cup Permutations(Workers)
============================================================================
