---------------------------- MODULE MCExceptions ----------------------------
(***************************************************************************)
(* A small instance of Exceptions for TLC.                                 *)
(***************************************************************************)
EXTENDS Exceptions

(* The lowest cell of the data stack that is read before it is written:    *)
(* THROW puts its argument where the stack is to end, below dsp or not.    *)
Lowest ==
  IF mode = "crashed" THEN S0
  ELSE IF ip \in In("throw") /\ frames # <<>> /\ frames[Len(frames)].dsp <= dsp
    THEN frames[Len(frames)].dsp - 1
  ELSE dsp

(* What later steps can depend on.                                         *)
Live == <<[a \in rsp..R0 - 1 |-> mem[a]], [a \in Lowest..S0 - 1 |-> mem[a]],
          rsp, dsp, ip, mode, frames, thrown>>
=============================================================================
