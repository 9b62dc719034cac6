----------------------------- MODULE MCFileApi ------------------------------
(***************************************************************************)
(* Small instances of FileApi for TLC.                                     *)
(***************************************************************************)
EXTENDS FileApi, TLC

(* Reading and writing anywhere, and writing at the end.                   *)
MCModes == {{"read", "write"}, {"write", "append"}}

(* No step depends on the last answer.                                     *)
WithoutAnswer == <<status, objs, fds, pages, work>>

(* Bound: three bytes in all files together, enough for one that is longer *)
(* than a page next to an empty one, and for two files with bytes.         *)
FewBytes == FoldSet(LAMBDA i, total : total + Len(Seen(i)), 0, DOMAIN objs) <= 3

NamesAndBytes == Permutations(Names) \cup Permutations(Bytes)
=============================================================================
