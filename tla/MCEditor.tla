------------------------------ MODULE MCEditor ------------------------------
EXTENDS Editor

CONSTANTS a, nl

MCChar == {a, nl}
=============================================================================
