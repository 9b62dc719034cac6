----------------------------- MODULE MCTcpShell -----------------------------
(***************************************************************************)
(* Small instances of TcpShell for TLC.                                    *)
(***************************************************************************)
EXTENDS TcpShell, TLC

(* A segment is a piece of a line or its end.                              *)
MCChunks == {<<FALSE>>, <<FALSE, TRUE>>}

(* What later steps can depend on: all but the history of deliveries.      *)
WithoutSent == <<link, pespconn, is_connected, queue, feed, arrived, inbuf,
                 key, pc, pending, stdout, chunks, typed, emits>>

SessionSymmetry == Permutations(Conns)
=============================================================================
