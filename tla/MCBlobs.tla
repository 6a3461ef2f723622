------------------------------ MODULE MCBlobs ------------------------------
EXTENDS Blobs

\* Every file has the same content, and the first comes from an earlier version.
OneContent == [f \in Files |-> CHOOSE sha \in Shas : TRUE]
OneLegacy == {CHOOSE f \in Files : TRUE}
============================================================================
