---------------------------- MODULE MCControlFlow ----------------------------
(* Small vocabularies for the control-flow words.                          *)
EXTENDS ControlFlow

MCEverything == AllTokens
=============================================================================
