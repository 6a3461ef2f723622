--------------------------- MODULE MCBulkReembed ---------------------------
EXTENDS BulkReembed
============================================================================
