----------------------------- MODULE MCUploads -----------------------------
EXTENDS Uploads
============================================================================
