---------------------------- MODULE MCDictionary ----------------------------
(***************************************************************************)
(* Small instances of Dictionary for TLC.                                  *)
(***************************************************************************)
EXTENDS Dictionary, TLC

CONSTANTS LongNames   (* the names of 32 characters; the others have 3     *)

MCNameLen == [t \in Tokens |-> IF t \in LongNames THEN 32 ELSE 3]

NameSymmetry == Permutations(Names \ LongNames)

(* What later steps can depend on: the cells from DP on, the flags of      *)
(* headers that are off the list, and the report are written before they   *)
(* are read again.                                                         *)
Reachable == <<[x \in 1..(dp - 1) |-> mem[x]], hidden \cap live,
               immed \cap live, latest, live, state, trapped>>

(* (FIND) as the loop that follows the links from LATEST.                  *)
RECURSIVE Walk(_, _)
Walk(h, t) == IF h = NULL \/ Matches(h, t) THEN h ELSE Walk(mem[h].arg, t)

(* The loop of (FIND) ends, and returns the newest visible header of the   *)
(* name if the dictionary has one and NULL if not: what Found and Missing  *)
(* say without the loop.                                                   *)
WalkFinds ==
  \A t \in Tokens :
    IF Missing(t) THEN Walk(latest, t) = NULL ELSE Found(Walk(latest, t), t)
=============================================================================
