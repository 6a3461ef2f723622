-------------------------- MODULE MCBlobMigration --------------------------
EXTENDS BlobMigration, TLC

\* Every file has the same content, and the first comes from an earlier version.
OneContent == [f \in Files |-> CHOOSE sha \in Shas : TRUE]
OneLegacy == {CHOOSE f \in Files : TRUE}

Symmetry == Permutations(Movers) \cup Permutations(Sweepers)
============================================================================
