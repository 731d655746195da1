------------------------------ MODULE MCGooseNet ------------------------------
EXTENDS GooseNet

CONSTANTS off, on
=============================================================================
