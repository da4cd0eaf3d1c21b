------------------------------ MODULE MCShell ------------------------------
(* Two names, one the beginning of the other; a prompt in colour of two     *)
(* characters, on a row that a full line and the prompt just fill.          *)
EXTENDS Shell

MCGlyph == {"LF", "CR", "TAB", "ESC", "[", "m", "r", "0", "$", "^", "C", "x", " "}
MCChar == {"x", " "}
MCNames == << <<"x">>, <<"x", "x">> >>
MCPrompt == <<"ESC", "[", "0", "m", "r", "ESC", "[", "m", "$">>
MCNested == <<"$">>
MCOut == {"x", "LF", "ESC", "TAB"}
=============================================================================
