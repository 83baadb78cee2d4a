---------------------------- MODULE MCUploadSide ----------------------------
EXTENDS UploadSide

CONSTANTS c1, c2, k1
=============================================================================
