------------------------------ MODULE MCSpiffs ------------------------------
(***************************************************************************)
(* A small instance of Spiffs for TLC.                                     *)
(***************************************************************************)
EXTENDS Spiffs

(* Two files of up to three pages.  One is begun within a page, which is    *)
(* filled up or written over, and goes on in two more; the other is short. *)
MCWrites ==
  <<{<<0, <<1>>>>, <<0, <<2, 1, 2, 1, 2, 1>>>>}, {<<0, <<3>>>>}>>

(* Bound: no calls after the first restart.                                *)
UntilRestart == ~(Up /\ losses > 0)
=============================================================================
