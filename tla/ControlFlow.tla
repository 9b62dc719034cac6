----------------------------- MODULE ControlFlow -----------------------------
(***************************************************************************)
(* The control-flow words of forthright.f: IF ... THEN, BEGIN ... REPEAT,  *)
(* CASE ... ENDCASE, DO ... LOOP and LEAVE.  They are immediate: while a   *)
(* word is compiled they append branches and keep the addresses of the     *)
(* offsets still to be filled in on the parameter stack, those of LEAVE on *)
(* a stack of their own.                                                   *)
(*                                                                         *)
(* One word is compiled at a time.  Its body is a sequence of cells and    *)
(* HERE the index of the next one; an index stands for the cell's address. *)
(* The user types well nested tokens, and the operands a token needs just  *)
(* before it.                                                              *)
(***************************************************************************)
EXTENDS Naturals, Integers, Sequences, FiniteSets

CONSTANTS
  Vocabulary,  (* the tokens the user types                                 *)
  LeaveCells,  (* the cells of LEAVE-SP, its pointer included (32)          *)
  CanAbandon,  (* TRUE when the user may give up a word before its end      *)
  MaxTokens,   (* bound: the tokens of one word, and those it still needs   *)
  MaxJunk      (* bound: addresses abandoned words leave on either stack    *)

AllTokens == {"work", "if", "unless", "else", "then",
              "begin", "until", "again", "while", "repeat",
              "case", "of", "endof", "endcase",
              "do", "?do", "leave", "loop", "+loop", "exit"}

ASSUME ControlFlowAssumption ==
  /\ Vocabulary \subseteq AllTokens
  /\ LeaveCells \in Nat \ {0}
  /\ CanAbandon \in BOOLEAN
  /\ MaxTokens \in Nat
  /\ MaxJunk \in Nat

VARIABLES
  code,   (* the cells of the word being compiled, up to DP                 *)
  cs,     (* the parameter stack, its top first                             *)
  ls,     (* the leave stack, its top first                                 *)
  mode,   (* "compile", "aborted" (LEAVE gave up), "ready" after ;          *)
  open,   (* what the user has still to close, innermost first              *)
  src,    (* history: the tokens of the word                                *)
  at,     (* history: HERE before each token, and now                       *)
  stale   (* history: an abandoned word has left addresses on LEAVE-SP      *)

cfVars == <<code, cs, ls, mode, open, src, at, stale>>

Here == Len(code) + 1

Op(op)      == [op |-> op, arg |-> 0]
Offset(n)   == [op |-> "offset", arg |-> n]
Unresolved  == Offset(0)
Operands(k) == [i \in 1..k |-> Op("lit")]

NewWord ==
  /\ code' = <<>>
  /\ mode' = "compile"
  /\ open' = <<>>
  /\ src' = <<>>
  /\ at' = <<1>>

CFInit ==
  /\ code = <<>> /\ cs = <<>> /\ ls = <<>>
  /\ mode = "compile" /\ open = <<>>
  /\ src = <<>> /\ at = <<1>>
  /\ stale = FALSE

-----------------------------------------------------------------------------
(* "here over - swap !": fill in the offset at a with the way to HERE.     *)
Resolve(c, a) ==
  [i \in DOMAIN c |-> IF i = a THEN [c[i] EXCEPT !.arg = Len(c) + 1 - a]
                               ELSE c[i]]

ResolveAll(c, as) ==
  [i \in DOMAIN c |-> IF i \in as THEN [c[i] EXCEPT !.arg = Len(c) + 1 - i]
                                  ELSE c[i]]

(* "here - ,": an offset back to dest.                                     *)
BackTo(c, dest) == Append(c, Offset(dest - (Len(c) + 1)))

Token(t) ==
  /\ mode = "compile"
  /\ t \in Vocabulary
  /\ src' = Append(src, t)
  /\ UNCHANGED stale
  /\ Len(src') + Len(open') <= MaxTokens

Typed(t) == Token(t) /\ at' = Append(at, Len(code') + 1)

Inside(kinds) == open # <<>> /\ Head(open) \in kinds

Opening(t)  == open' = <<t>> \o open
Closing     == open' = Tail(open)
Changing(t) == open' = <<t>> \o Tail(open)

-----------------------------------------------------------------------------
Work ==
  /\ code' = Append(code, Op("work"))
  /\ UNCHANGED <<cs, ls, mode, open>>
  /\ Typed("work")

(* EXIT in the middle of a word, outside what holds items on a stack: there*)
(* it would be the user's to UNLOOP or to DROP first.                      *)
Exit ==
  /\ \A i \in 1..Len(open) : open[i] \notin {"do", "?do", "case"}
  /\ code' = Append(code, Op("exit"))
  /\ UNCHANGED <<cs, ls, mode, open>>
  /\ Typed("exit")

CompileIf(t, test) ==
  /\ code' = code \o test \o <<Op("0branch"), Unresolved>>
  /\ cs' = <<Len(code')>> \o cs
  /\ Opening(t)
  /\ Typed(t)
  /\ UNCHANGED <<ls, mode>>

If     == CompileIf("if", Operands(1))
Unless == CompileIf("unless", Append(Operands(1), Op("not")))

Then ==
  /\ Inside({"if", "unless", "else"})
  /\ code' = Resolve(code, Head(cs))
  /\ cs' = Tail(cs)
  /\ Closing
  /\ Typed("then")
  /\ UNCHANGED <<ls, mode>>

(* ELSE, and ENDOF which is ELSE by another name.                          *)
CompileElse ==
  /\ code' = Resolve(code \o <<Op("branch"), Unresolved>>, Head(cs))
  /\ cs' = <<Len(code')>> \o Tail(cs)
  /\ UNCHANGED <<ls, mode>>

Else ==
  /\ Inside({"if", "unless"})
  /\ CompileElse
  /\ Changing("else")
  /\ Typed("else")

Begin ==
  /\ cs' = <<Here>> \o cs
  /\ Opening("begin")
  /\ UNCHANGED <<code, ls, mode>>
  /\ Typed("begin")

(* Mutant: the distance is measured from the cell behind the offset.       *)
UntilOneShort ==
  /\ Inside({"begin"})
  /\ LET c == code \o Operands(1) \o <<Op("0branch")>>
     IN code' = Append(c, Offset(Head(cs) - (Len(c) + 2)))
  /\ cs' = Tail(cs)
  /\ Closing
  /\ Typed("until")
  /\ UNCHANGED <<ls, mode>>

Until ==
  /\ Inside({"begin"})
  /\ code' = BackTo(code \o Operands(1) \o <<Op("0branch")>>, Head(cs))
  /\ cs' = Tail(cs)
  /\ Closing
  /\ Typed("until")
  /\ UNCHANGED <<ls, mode>>

Again ==
  /\ Inside({"begin"})
  /\ code' = BackTo(Append(code, Op("branch")), Head(cs))
  /\ cs' = Tail(cs)
  /\ Closing
  /\ Typed("again")
  /\ UNCHANGED <<ls, mode>>

(* Mutant: SWAP is left out, the two addresses are in the other order.     *)
WhileUnswapped ==
  /\ Inside({"begin"})
  /\ code' = code \o Operands(1) \o <<Op("0branch"), Unresolved>>
  /\ cs' = <<Len(code')>> \o cs
  /\ Changing("while")
  /\ Typed("while")
  /\ UNCHANGED <<ls, mode>>

While ==
  /\ Inside({"begin"})
  /\ code' = code \o Operands(1) \o <<Op("0branch"), Unresolved>>
  /\ cs' = <<Head(cs), Len(code')>> \o Tail(cs)
  /\ Changing("while")
  /\ Typed("while")
  /\ UNCHANGED <<ls, mode>>

Repeat ==
  /\ Inside({"while"})
  /\ code' = Resolve(BackTo(Append(code, Op("branch")), Head(cs)), cs[2])
  /\ cs' = Tail(Tail(cs))
  /\ Closing
  /\ Typed("repeat")
  /\ UNCHANGED <<ls, mode>>

-----------------------------------------------------------------------------
Case ==
  /\ code' = code \o Operands(1)
  /\ cs' = <<0>> \o cs
  /\ Opening("case")
  /\ Typed("case")
  /\ UNCHANGED <<ls, mode>>

Of ==
  /\ Inside({"case"})
  /\ code' = code \o Operands(1)
                  \o <<Op("over"), Op("="), Op("0branch"), Unresolved, Op("drop")>>
  /\ cs' = <<Len(code') - 1>> \o cs
  /\ Opening("of")
  /\ Typed("of")
  /\ UNCHANGED <<ls, mode>>

EndOf ==
  /\ Inside({"of"})
  /\ CompileElse
  /\ Closing
  /\ Typed("endof")

(* Mutant: DUP WHILE leaves CASE's zero where it is.                       *)
EndCaseKeepsZero ==
  /\ Inside({"case"})
  /\ LET n == CHOOSE k \in 1..Len(cs) : cs[k] = 0 /\ \A j \in 1..(k - 1) : cs[j] # 0
     IN /\ code' = ResolveAll(Append(code, Op("drop")), {cs[k] : k \in 1..(n - 1)})
        /\ cs' = SubSeq(cs, n, Len(cs))
  /\ Closing
  /\ Typed("endcase")
  /\ UNCHANGED <<ls, mode>>

(* ?DUP WHILE [COMPILE] THEN REPEAT: every address down to CASE's zero.    *)
EndCase ==
  /\ Inside({"case"})
  /\ LET n == CHOOSE k \in 1..Len(cs) : cs[k] = 0 /\ \A j \in 1..(k - 1) : cs[j] # 0
     IN /\ code' = ResolveAll(Append(code, Op("drop")), {cs[k] : k \in 1..(n - 1)})
        /\ cs' = SubSeq(cs, n + 1, Len(cs))
  /\ Closing
  /\ Typed("endcase")
  /\ UNCHANGED <<ls, mode>>

-----------------------------------------------------------------------------
Do ==
  /\ code' = code \o Operands(2) \o <<Op("(do)")>>
  /\ cs' = <<0, Len(code') + 1>> \o cs
  /\ Opening("do")
  /\ Typed("do")
  /\ UNCHANGED <<ls, mode>>

QDo ==
  /\ code' = code \o Operands(2)
                  \o <<Op("2dup"), Op("<>"), Op("0branch"), Unresolved, Op("(do)")>>
  /\ cs' = <<1, Len(code') + 1>> \o cs
  /\ Opening("?do")
  /\ Typed("?do")
  /\ UNCHANGED <<ls, mode>>

ResolvableOne(dest) == IF ls = <<>> THEN 0 ELSE 1   (* mutant: no loop     *)

(* RESOLVE-LEAVES takes the addresses above the loop's start.              *)
Resolvable(dest) ==
  CHOOSE n \in 0..Len(ls) : /\ \A k \in 1..n : ls[k] > dest
                            /\ n < Len(ls) => ls[n + 1] <= dest

CompileLoop(c) ==
  LET dest == cs[2]
      c1   == BackTo(c, dest)
      c2   == IF Head(cs) # 0 THEN Resolve(c1, dest - 2) ELSE c1
      n    == Resolvable(dest)
  IN /\ code' = ResolveAll(c2, {ls[k] : k \in 1..n})
     /\ ls' = SubSeq(ls, n + 1, Len(ls))
     /\ cs' = Tail(Tail(cs))

Loop ==
  /\ Inside({"do", "?do"})
  /\ CompileLoop(Append(code, Op("(loop)")))
  /\ Closing
  /\ Typed("loop")
  /\ UNCHANGED mode

PlusLoop ==
  /\ Inside({"do", "?do"})
  /\ CompileLoop(code \o Operands(1) \o <<Op("(+loop)")>>)
  /\ Closing
  /\ Typed("+loop")
  /\ UNCHANGED mode

(* LEAVE tests the depth after it has appended UNLOOP and BRANCH; ABORT    *)
(* leaves the word without its offset, still compiling.                    *)
LeaveFull == Len(ls) > LeaveCells - 1

Leave ==
  /\ \E i \in 1..Len(open) : open[i] \in {"do", "?do"}
  /\ UNCHANGED <<cs, open>>
  /\ Token("leave")
  /\ IF LeaveFull
       THEN /\ code' = code \o <<Op("unloop"), Op("branch")>>
            /\ mode' = "aborted"
            /\ UNCHANGED ls
       ELSE /\ code' = code \o <<Op("unloop"), Op("branch"), Unresolved>>
            /\ ls' = <<Len(code')>> \o ls
            /\ UNCHANGED mode
  /\ at' = Append(at, Len(code') + 1)

-----------------------------------------------------------------------------
Semicolon ==
  /\ mode = "compile" /\ open = <<>>
  /\ code' = Append(code, Op("exit"))
  /\ mode' = "ready"
  /\ UNCHANGED <<cs, ls, open, src, at, stale>>

(* ; FORGET of a word whose structures are still open, and QUIT or ABORT   *)
(* on the way, leave both stacks as they are.                              *)
Abandon ==
  /\ \/ mode = "compile" /\ CanAbandon /\ src # <<>>
     \/ mode = "aborted"
  /\ Len(cs) <= MaxJunk
  /\ Len(ls) <= MaxJunk + 1
  /\ NewWord
  /\ stale' = (stale \/ ls # <<>>)
  /\ UNCHANGED <<cs, ls>>

Forget ==
  /\ mode = "ready"
  /\ NewWord
  /\ UNCHANGED <<cs, ls, stale>>

(* The chip is reset: both stacks are empty again.                         *)
Restart ==
  /\ mode = "aborted"
  /\ NewWord
  /\ cs' = <<>>
  /\ ls' = <<>>
  /\ stale' = FALSE

CompileToken ==
  \/ Work \/ Exit \/ If \/ Unless \/ Else \/ Then
  \/ Begin \/ Until \/ Again \/ While \/ Repeat
  \/ Case \/ Of \/ EndOf \/ EndCase
  \/ Do \/ QDo \/ Leave \/ Loop \/ PlusLoop

CFNext == CompileToken \/ Semicolon \/ Abandon \/ Forget \/ Restart

CFSpec == CFInit /\ [][CFNext]_cfVars

-----------------------------------------------------------------------------
(* What the tokens mean: a reference that knows nothing of the stacks.     *)

Opens  == {"if", "unless", "begin", "case", "of", "do", "?do"}
Closes == {"then", "until", "again", "repeat", "endcase", "endof", "loop",
           "+loop"}

Count(i, kinds) == Cardinality({k \in 1..i : src[k] \in kinds})
Depth(i)        == Count(i, Opens) - Count(i, Closes)

(* The token that closes what token i opens.                               *)
Ends(i, j)  == i < j /\ Depth(j) < Depth(i) /\ \A k \in i..(j - 1) : Depth(k) >= Depth(i)
Closed(i)   == \E j \in 1..Len(src) : Ends(i, j)
Closer(i)   == CHOOSE j \in 1..Len(src) : Ends(i, j)

(* A token of a kind in the middle of what i opens.                        *)
Middles(i, t) == {j \in i..Closer(i) : src[j] = t /\ Depth(j) = Depth(i)}

Encloses(i, j) == i < j /\ src[i] \in Opens /\ (Closed(i) => j <= Closer(i))

Innermost(kinds, j) ==
  CHOOSE i \in 1..(j - 1) :
    /\ src[i] \in kinds /\ Encloses(i, j)
    /\ \A k \in (i + 1)..(j - 1) : ~(src[k] \in kinds /\ Encloses(k, j))

After(i) == at[i + 1]

(* The offset in cell b leads to cell a.                                   *)
Leads(b, a) == code[b].op = "offset" /\ b + code[b].arg = a

IfMatches(i) ==
  Leads(After(i) - 1,
        IF Middles(i, "else") = {} THEN After(Closer(i))
        ELSE After(CHOOSE j \in Middles(i, "else") : TRUE))

BeginMatches(i) ==
  LET j == Closer(i)
  IN /\ Leads(After(j) - 1, After(i))
     /\ \A k \in Middles(i, "while") : Leads(After(k) - 1, After(j))

CaseMatches(i) ==
  \A j \in i..Closer(i) :
    src[j] = "of" /\ Depth(j) = Depth(i) + 1 =>
      /\ Leads(After(j) - 2, After(Closer(j)))
      /\ Leads(After(Closer(j)) - 1, After(Closer(i)))

DoMatches(i) ==
  LET j == Closer(i)
  IN /\ Leads(After(j) - 1, After(i))
     /\ src[i] = "?do" => Leads(After(i) - 2, After(j))
     /\ \A k \in i..j :
          src[k] = "leave" /\ Innermost({"do", "?do"}, k) = i =>
            Leads(After(k) - 1, After(j))

-----------------------------------------------------------------------------
(* Type invariant.                                                         *)
CFTypeOK ==
  /\ \A i \in 1..Len(code) : code[i].arg \in Int
  /\ \A k \in 1..Len(cs) : cs[k] \in Nat
  /\ \A k \in 1..Len(ls) : ls[k] \in Nat \ {0}
  /\ mode \in {"compile", "aborted", "ready"}
  /\ \A k \in 1..Len(open) : open[k] \in Opens \cup {"else", "while"}
  /\ \A i \in 1..Len(src) : src[i] \in Vocabulary
  /\ Len(at) = Len(src) + 1
  /\ stale \in BOOLEAN

(* Every branch of a closed structure leads where the structure says, for  *)
(* every nesting: to the matching ELSE or THEN, back to BEGIN or DO, past  *)
(* the loop that LEAVE is in.  Words abandoned before it do not matter, as *)
(* long as they had no LEAVE in an open loop.  Nothing but an offset is    *)
(* ever filled in, and each is filled in once the word is complete.        *)
BranchesMatch ==
  ~stale =>
    /\ \A i \in 1..Len(src) :
         Closed(i) =>
           /\ src[i] \in {"if", "unless"} => IfMatches(i)
           /\ \A j \in Middles(i, "else") : Leads(After(j) - 1, After(Closer(i)))
           /\ src[i] = "begin" => BeginMatches(i)
           /\ src[i] = "case" => CaseMatches(i)
           /\ src[i] \in {"do", "?do"} => DoMatches(i)
    /\ \A a \in 1..Len(code) :
         /\ code[a].op # "offset" => code[a].arg = 0
         /\ code[a].op = "offset" /\ mode = "ready" => code[a].arg # 0

(* A complete word leaves neither stack with an address of its own: the    *)
(* next word starts from where this one did.                               *)
StacksBalanced == open = <<>> /\ mode # "aborted" => cs = <<>> /\ ls = <<>>

(* LEAVE-SP holds nothing but the offsets of LEAVEs in loops that are open *)
(* in the word being compiled: each loop takes its own, all of them and no *)
(* others.  (It is not reset when a word is abandoned, so until a restart  *)
(* older ones may be there too.)  However often that happens, it grows to  *)
(* LeaveCells addresses, one more than it has cells for, and no further.   *)
LeavesOfThisWord ==
  /\ Len(ls) <= LeaveCells
  /\ ~stale =>
       \A k \in 1..Len(ls) :
         \E i \in 1..Len(src) :
           /\ src[i] = "leave" /\ After(i) - 1 = ls[k]
           /\ ~Closed(Innermost({"do", "?do"}, i))
=============================================================================
