---------------------------- MODULE ThreadedCode ----------------------------
(***************************************************************************)
(* The inner interpreter (esp8266.S) running what ControlFlow compiles:    *)
(* NEXT and DOCOL, EXIT, BRANCH, 0BRANCH, (do), (loop), (+loop), UNLOOP,   *)
(* and the stack effects of the other words a control structure compiles.  *)
(* Return addresses and loop parameters share the return stack.            *)
(*                                                                         *)
(* The data stack is reduced to its depth above where the word found it,   *)
(* and a flag or a loop's end is either way.                               *)
(***************************************************************************)
EXTENDS ControlFlow

VARIABLES
  ip,       (* the instruction pointer, 0 when no word runs                 *)
  rs,       (* the return stack, its top first                              *)
  wild,     (* TRUE when RSP does not point into the return stack           *)
  depth,    (* items on the data stack                                      *)
  skipped,  (* history: ?DO loops the running word has gone past            *)
  crashed   (* TRUE when the CPU has taken an exception                     *)

runVars == <<ip, rs, wild, depth, skipped, crashed>>
vars    == <<cfVars, runVars>>

Idle ==
  /\ ip = 0 /\ rs = <<>> /\ wild = FALSE
  /\ depth = 0 /\ skipped = 0 /\ crashed = FALSE

Init == CFInit /\ Idle

(* DOCOL pushes the caller's IP; the caller here is the outer interpreter. *)
Docol ==
  /\ mode = "ready" /\ ip = 0 /\ ~crashed
  /\ ip' = 1
  /\ rs' = <<"return">>
  /\ wild' = FALSE
  /\ depth' = 0
  /\ skipped' = 0
  /\ UNCHANGED <<cfVars, crashed>>

At(ops) == ip # 0 /\ ~crashed /\ code[ip].op \in ops

Effect(op) ==
  CASE op = "lit" -> 1
    [] op = "over" -> 1
    [] op = "2dup" -> 2
    [] op \in {"=", "<>", "drop"} -> -1
    [] op \in {"work", "not"} -> 0

Plain == {"lit", "over", "2dup", "=", "<>", "drop", "work", "not"}

Primitive ==
  /\ At(Plain)
  /\ ip' = ip + 1
  /\ depth' = depth + Effect(code[ip].op)
  /\ UNCHANGED <<cfVars, rs, wild, skipped, crashed>>

(* BRANCH adds the offset to the IP, which stands on the offset's cell.    *)
Jump == ip' = ip + 1 + code[ip + 1].arg
Pass == ip' = ip + 2

(* Mutant: the offset counts from the word BRANCH itself.                  *)
BranchFromHere ==
  /\ At({"branch"})
  /\ ip' = ip + code[ip + 1].arg
  /\ UNCHANGED <<cfVars, rs, wild, depth, skipped, crashed>>

Branch ==
  /\ At({"branch"})
  /\ Jump
  /\ UNCHANGED <<cfVars, rs, wild, depth, skipped, crashed>>

SkipsLoop == code[ip + 2].op = "(do)"

ZBranch ==
  /\ At({"0branch"})
  /\ depth' = depth - 1
  /\ \/ Pass /\ UNCHANGED skipped
     \/ /\ Jump
        /\ skipped' = IF SkipsLoop THEN skipped + 1 ELSE skipped
        /\ skipped' <= MaxTokens
  /\ UNCHANGED <<cfVars, rs, wild, crashed>>

ParenDo ==
  /\ At({"(do)"})
  /\ rs' = <<"index", "limit">> \o rs
  /\ ip' = ip + 1
  /\ depth' = depth - 2
  /\ UNCHANGED <<cfVars, wild, skipped, crashed>>

(* Mutant: the parameters stay when the loop is done.                      *)
ParenLoopKeeps ==
  /\ At({"(loop)", "(+loop)"}) /\ ~wild
  /\ depth' = IF code[ip].op = "(+loop)" THEN depth - 1 ELSE depth
  /\ Pass \/ Jump
  /\ UNCHANGED <<cfVars, rs, wild, skipped, crashed>>

ParenLoop ==
  /\ At({"(loop)", "(+loop)"})
  /\ ~wild
  /\ depth' = IF code[ip].op = "(+loop)" THEN depth - 1 ELSE depth
  /\ \/ rs' = Tail(Tail(rs)) /\ Pass
     \/ UNCHANGED rs /\ Jump
  /\ UNCHANGED <<cfVars, wild, skipped, crashed>>

(* UNLOOP loads RSP with what lies 8 above it: a return address, or the    *)
(* index of the loop around this one.                                      *)
Unloop ==
  /\ At({"unloop"})
  /\ wild' = TRUE
  /\ rs' = <<>>
  /\ ip' = ip + 1
  /\ UNCHANGED <<cfVars, depth, skipped, crashed>>

ExitWord ==
  /\ At({"exit"})
  /\ ~wild /\ Head(rs) = "return"
  /\ rs' = Tail(rs)
  /\ ip' = 0
  /\ UNCHANGED <<cfVars, wild, depth, skipped, crashed>>

(* NEXT through something that is not a return address.                    *)
Crash ==
  /\ \/ wild /\ At({"exit", "(loop)", "(+loop)"})
     \/ ~wild /\ At({"exit"}) /\ Head(rs) # "return"
  /\ crashed' = TRUE
  /\ UNCHANGED <<cfVars, ip, rs, wild, depth, skipped>>

Reboot ==
  /\ crashed
  /\ NewWord /\ cs' = <<>> /\ ls' = <<>> /\ stale' = FALSE
  /\ ip' = 0 /\ rs' = <<>> /\ wild' = FALSE
  /\ depth' = 0 /\ skipped' = 0 /\ crashed' = FALSE

(* The next word is typed when this one has returned, which counts again   *)
(* from nothing.                                                           *)
Compiling ==
  /\ ip = 0 /\ ~crashed
  /\ CFNext
  /\ depth' = 0 /\ skipped' = 0 /\ rs' = <<>> /\ wild' = FALSE
  /\ UNCHANGED <<ip, crashed>>

Running ==
  \/ Docol \/ Primitive \/ Branch \/ ZBranch
  \/ ParenDo \/ ParenLoop \/ Unloop \/ ExitWord \/ Crash

Next == Compiling \/ Running \/ Reboot

Spec == Init /\ [][Next]_vars

-----------------------------------------------------------------------------
(* Type invariant.  NEXT only ever takes an instruction: the IP stays      *)
(* inside the word and never stops on an offset.                           *)
TypeOK ==
  /\ CFTypeOK
  /\ ip \in 0..Len(code)
  /\ ip # 0 => code[ip].op # "offset"
  /\ \A k \in 1..Len(rs) : rs[k] \in {"return", "index", "limit"}
  /\ wild \in BOOLEAN /\ crashed \in BOOLEAN
  /\ depth \in Nat /\ skipped \in Nat

-----------------------------------------------------------------------------
(* What the structure of the source says of the stacks at a token.         *)

Enclosing(kinds, j) == Cardinality({i \in 1..(j - 1) : src[i] \in kinds /\ Encloses(i, j)})

LoopsAround(j) == Enclosing({"do", "?do"}, j)
ItemsAround(j) == Enclosing({"case"}, j) - Enclosing({"of"}, j)

(* Wherever branches have led, a word that arrives at a token has on the   *)
(* return stack its return address and the parameters of the loops around  *)
(* that token, innermost on top; and on the data stack the value of each   *)
(* CASE around it, and the limit and the index of each ?DO gone past,      *)
(* which 2DUP has kept.  When it has returned, nothing else is left.       *)
FrameDiscipline ==
  /\ \A i \in 1..Len(src) :
       ip = at[i] /\ ~wild =>
         /\ rs = [k \in 1..(2 * LoopsAround(i) + 1) |->
                    IF k = 2 * LoopsAround(i) + 1 THEN "return"
                    ELSE IF k % 2 = 1 THEN "index" ELSE "limit"]
         /\ depth = ItemsAround(i) + 2 * skipped
  /\ ip = 0 => rs = <<>> /\ depth = 2 * skipped

(* LEAVE and UNLOOP are there to return from: no word that types them in   *)
(* a loop brings the system down.                                          *)
WordsReturn == ~crashed
=============================================================================
