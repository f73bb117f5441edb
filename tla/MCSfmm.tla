------------------------------- MODULE MCSfmm -------------------------------
EXTENDS Sfmm
=============================================================================
