----------------------------- MODULE MCKeyRing -----------------------------
(* A ring of five cells, two characters: it fills up, wraps and empties.   *)
EXTENDS KeyRing

CONSTANTS a, b

MCKey   == {a, b}
MCCodes == {{a}, {b}}
=============================================================================
