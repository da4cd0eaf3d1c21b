------------------------------- MODULE MCNet -------------------------------
EXTENDS Net

MCHost == {"h1", "h2"}
MCUs == {"u"}
=============================================================================
