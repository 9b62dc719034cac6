--------------------------- MODULE MCThreadedCode ---------------------------
(* Every word of a few tokens, compiled and run.                           *)
EXTENDS ThreadedCode

MCEverything == AllTokens
MCNested     == {"if", "then", "do", "?do", "leave", "loop"}
=============================================================================
