------------------------------ MODULE MCScreen ------------------------------
EXTENDS Screen

MCRect == {lo .. hi : lo \in 0 .. Width - 1, hi \in 0 .. Width - 1} \ {{}}
MCBare == {{0}}
=============================================================================
