------------------------------- MODULE MCPs2 -------------------------------
EXTENDS Ps2

MCKey == {"rshift", "lctrl", "rctrl"}
=============================================================================
