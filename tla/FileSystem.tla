----------------------------- MODULE FileSystem -----------------------------
(***************************************************************************)
(* What the files of fs.c promise.  `files` is what a program that only    *)
(* uses open, read, write, close... observes; `disk` is what it would find *)
(* after a power loss.  Written bytes may stay in memory for any time, but *)
(* whoever reads a file through any descriptor sees them.                  *)
(***************************************************************************)
EXTENDS Sequences, SequencesExt, Functions

CONSTANTS
  Names,        (* the names a file can have                                *)
  Bytes,        (* the bytes it can hold                                    *)
  MaxWrite,     (* bound: the longest write                                 *)
  None          (* no answer: the last call returned no data                *)

VARIABLES
  files,        (* name -> contents, as programs see them                   *)
  disk,         (* name -> contents, as they survive a power loss           *)
  answer        (* what the last call that asks for data returned           *)

Overwritten(d, off, b) ==
  SubSeq(d, 1, off) \o b \o SubSeq(d, off + Len(b) + 1, Len(d))

Exists(n) == n \in DOMAIN files

Init == files = <<>> /\ disk = <<>> /\ answer = None

Added(store, n) ==
  [m \in DOMAIN store \cup {n} |-> IF m = n THEN <<>> ELSE store[m]]

Create(n) ==
  /\ n \in Names /\ ~Exists(n)
  /\ files' = Added(files, n)
  /\ disk' = Added(disk, n)
  /\ answer' = None

Truncate(n) ==
  /\ files' = [files EXCEPT ![n] = <<>>]
  /\ disk' = [disk EXCEPT ![n] = <<>>]
  /\ answer' = None

Unlink(n) ==
  /\ files' = Restrict(files, DOMAIN files \ {n})
  /\ disk' = Restrict(disk, DOMAIN disk \ {n})
  /\ answer' = None

Renamed(store, a, b) ==
  [n \in (DOMAIN store \ {a}) \cup {b} |-> IF n = b THEN store[a] ELSE store[n]]

Rename(a, b) ==
  /\ b \in Names /\ ~Exists(b)
  /\ files' = Renamed(files, a, b)
  /\ disk' = Renamed(disk, a, b)
  /\ answer' = None

(* The bytes go somewhere inside the file or right behind it.  Earlier     *)
(* ones may reach the flash on this occasion, with or without the new ones.*)
Write(n) ==
  /\ DOMAIN files' = DOMAIN files
  /\ \E off \in 0..Len(files[n]), k \in 1..MaxWrite :
       /\ off + k <= Len(files'[n])
       /\ files' = [files EXCEPT
            ![n] = Overwritten(@, off, SubSeq(files'[n], off + 1, off + k))]
  /\ \E data \in {disk[n], files[n], files'[n]} : disk' = [disk EXCEPT ![n] = data]
  /\ answer' = None

Flush(n) == UNCHANGED files /\ disk' = [disk EXCEPT ![n] = files[n]]

(* What is read is what was written, and it is on the flash by then.       *)
Read(n) ==
  /\ Flush(n)
  /\ \E from, to \in 1..Len(files[n]) :
       /\ from <= to
       /\ answer' = [file |-> n, from |-> from, data |-> SubSeq(files[n], from, to)]

Stat(n) == Flush(n) /\ answer' = [file |-> n, size |-> Len(files[n])]

Unmount == disk' = files /\ UNCHANGED files /\ answer' = None

PowerLoss == files' = disk /\ UNCHANGED disk /\ answer' = None

Next ==
  \/ \E n \in Names : Create(n)
  \/ \E n \in DOMAIN files :
       \/ Truncate(n) \/ Unlink(n) \/ Write(n) \/ Read(n) \/ Stat(n)
       \/ Flush(n) /\ answer' = None
       \/ \E m \in Names : Rename(n, m)
  \/ Unmount \/ PowerLoss

Spec == Init /\ [][Next]_<<files, disk, answer>>
=============================================================================
