------------------------------ MODULE MCGooseLink ------------------------------
EXTENDS GooseLink

CONSTANTS off, on
=============================================================================
