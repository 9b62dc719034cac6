------------------------- MODULE ThreadedCode_proofs -------------------------
(***************************************************************************)
(* What a word does when it runs, for every program and every outcome of   *)
(* its tests: the IP stays on instructions, the return stack holds the     *)
(* parameters of the loops around, EXIT returns.                           *)
(***************************************************************************)
EXTENDS ThreadedCode, BranchTargets_proofs

-----------------------------------------------------------------------------
(* The structures that are open behind token m, and those of some kinds.   *)

Around(m) == {x \in 1..m : src[x] \in Opens /\ \A q \in x..m : Depth(q) >= Depth(x)}
Open(kinds, m) == {x \in Around(m) : src[x] \in kinds}

(* The loops there, and the items of CASE that are on the data stack.      *)
Nested(m) == Cardinality(Open(Loops, m))
Items(m)  == Cardinality(Open({"case"}, m)) - Cardinality(Open({"of"}, m))

LEMMA DepthZero == Depth(0) = 0
<1>1. \A kinds : {k \in 1..0 : src[k] \in kinds} = {}
  OBVIOUS
<1>2. \A kinds : Count(0, kinds) = 0
  BY <1>1, FS_EmptySet DEF Count
<1> QED
  BY <1>2 DEF Depth

(* Between two tokens of one depth, with none below it, nothing that was   *)
(* open is closed and what was opened is closed again.                     *)
LEMMA AroundLevel ==
  ASSUME Len(src) \in Nat, NEW m \in Nat, NEW c \in Nat, m <= c, c <= Len(src),
         Depth(m) = Depth(c), \A q \in m..c : Depth(q) >= Depth(m)
  PROVE  Around(c) = Around(m)
<1>1. ASSUME NEW x \in Around(c) PROVE x \in Around(m)
  <2>1. /\ x \in 1..c /\ src[x] \in Opens /\ \A q \in x..c : Depth(q) >= Depth(x)
    BY <1>1 DEF Around
  <2>2. x <= m
    <3> SUFFICES ASSUME ~(x <= m) PROVE FALSE
      OBVIOUS
    <3>1. x \in 1..Len(src) /\ x - 1 \in m..c /\ c \in x..c
      BY <2>1
    <3>2. Depth(x) = Depth(x - 1) + 1 /\ Depth(x - 1) \in Int /\ Depth(x) \in Int
      BY <2>1, <3>1, DepthStep DEF Weight
    <3>3. Depth(c) >= Depth(x) /\ Depth(x - 1) >= Depth(m)
      BY <2>1, <3>1
    <3>4. Depth(m) \in Int
      BY DepthType
    <3> QED
      BY <3>2, <3>3, <3>4
  <2>3. \A q \in x..m : q \in x..c
    BY <2>1
  <2> QED
    BY <2>1, <2>2, <2>3 DEF Around
<1>2. ASSUME NEW x \in Around(m) PROVE x \in Around(c)
  <2>1. /\ x \in 1..m /\ src[x] \in Opens /\ \A q \in x..m : Depth(q) >= Depth(x)
    BY <1>2 DEF Around
  <2>2. m \in x..m /\ x \in Nat
    BY <2>1
  <2>3. ASSUME NEW q \in x..c PROVE Depth(q) >= Depth(x)
    <3>1. q \in x..m \/ q \in m..c
      BY <2>1
    <3>2. Depth(q) \in Int /\ Depth(m) \in Int /\ Depth(x) \in Int
      BY <2>1, DepthType
    <3>3. Depth(m) >= Depth(x)
      BY <2>1, <2>2
    <3> QED
      BY <2>1, <3>1, <3>2, <3>3
  <2> QED
    BY <2>1, <2>3 DEF Around
<1> QED
  BY <1>1, <1>2

LEMMA AroundOpens ==
  ASSUME Len(src) \in Nat, NEW i \in 1..Len(src), src[i] \in Opens
  PROVE  Around(i) = Around(i - 1) \cup {i} /\ i \notin Around(i - 1)
<1>1. Depth(i) = Depth(i - 1) + 1 /\ Depth(i - 1) \in Int /\ Depth(i) \in Int
  BY DepthStep DEF Weight
<1>2. ASSUME NEW x \in Around(i) PROVE x \in Around(i - 1) \/ x = i
  <2>1. /\ x \in 1..i /\ src[x] \in Opens /\ \A q \in x..i : Depth(q) >= Depth(x)
    BY <1>2 DEF Around
  <2>2. x # i => x \in 1..(i - 1)
    BY <2>1
  <2>3. \A q \in x..(i - 1) : q \in x..i
    BY <2>1
  <2> QED
    BY <2>1, <2>2, <2>3 DEF Around
<1>3. ASSUME NEW x \in Around(i - 1) PROVE x \in Around(i)
  <2>1. /\ x \in 1..(i - 1) /\ src[x] \in Opens
        /\ \A q \in x..(i - 1) : Depth(q) >= Depth(x)
    BY <1>3 DEF Around
  <2>2. Depth(x) \in Int /\ i - 1 \in x..(i - 1)
    BY <2>1, DepthType
  <2>3. Depth(i) >= Depth(x)
    BY <1>1, <2>1, <2>2
  <2>4. \A q \in x..i : q \in x..(i - 1) \/ q = i
    BY <2>1
  <2>5. x \in 1..i
    BY <2>1
  <2> QED
    BY <2>1, <2>3, <2>4, <2>5 DEF Around
<1>4. i \in Around(i)
  <2>1. i..i = {i}
    OBVIOUS
  <2> QED
    BY <1>1, <2>1 DEF Around
<1> QED
  BY <1>2, <1>3, <1>4 DEF Around

(* What a token closes is not around what follows, and was the last opened *)
(* of what was around it.                                                  *)
LEMMA AroundCloses ==
  ASSUME Len(src) \in Nat, NEW i \in 1..Len(src), NEW c \in 1..Len(src), Ends(i, c),
         src[i] \in Opens
  PROVE  /\ Around(c) = Around(i - 1) /\ Around(c - 1) = Around(i)
         /\ Depth(c) = Depth(i - 1) /\ Depth(c) = Depth(i) - 1
<1>1. Depth(i) = Depth(i - 1) + 1 /\ Depth(i - 1) \in Int /\ Depth(i) \in Int
  BY DepthStep DEF Weight
<1>2. i < c /\ Depth(c) < Depth(i) /\ \A k \in i..(c - 1) : Depth(k) >= Depth(i)
  BY DEF Ends
<1>3. /\ Depth(c) = Depth(c - 1) + Weight(src[c]) /\ Depth(c) \in Int
      /\ Depth(c - 1) \in Int
  BY DepthStep
<1>4. Depth(c - 1) >= Depth(i)
  BY <1>2
<1>5. Depth(c) = Depth(i) - 1 /\ Depth(c - 1) = Depth(i)
  BY <1>1, <1>2, <1>3, <1>4 DEF Weight
<1>6. Around(c - 1) = Around(i)
  BY <1>2, <1>5, AroundLevel
<1>7. \A q \in (i - 1)..c : Depth(q) >= Depth(i - 1)
  <2> TAKE q \in (i - 1)..c
  <2>1. q = i - 1 \/ q = c \/ q \in i..(c - 1)
    OBVIOUS
  <2>2. Depth(q) \in Int
    BY DepthType
  <2> QED
    BY <1>1, <1>2, <1>5, <2>1, <2>2
<1>8. Around(c) = Around(i - 1)
  BY <1>1, <1>2, <1>5, <1>7, AroundLevel
<1> QED
  BY <1>1, <1>5, <1>6, <1>8

LEMMA AroundStays ==
  ASSUME Len(src) \in Nat, NEW k \in 1..Len(src), src[k] \notin Opens, src[k] \notin Closes
  PROVE  Around(k) = Around(k - 1) /\ Depth(k) = Depth(k - 1)
<1>1. Depth(k) = Depth(k - 1) /\ Depth(k) \in Int /\ Depth(k - 1) \in Int
  BY DepthStep DEF Weight
<1>2. \A q \in (k - 1)..k : q = k - 1 \/ q = k
  OBVIOUS
<1>3. Around(k) = Around(k - 1)
  BY <1>1, <1>2, AroundLevel
<1> QED
  BY <1>1, <1>3

(* What encloses a token, as the frame discipline has it, is what is open  *)
(* before it.                                                              *)
LEMMA AroundEncloses ==
  ASSUME Len(src) \in Nat, NEW j \in 1..Len(src), NEW kinds \in SUBSET Opens
  PROVE  Enclosing(kinds, j) = Cardinality(Open(kinds, j - 1))
<1>1. ASSUME NEW i \in 1..(j - 1), src[i] \in Opens, Encloses(i, j)
      PROVE  i \in Around(j - 1)
  <2> DEFINE S == {q \in i..(j - 1) : ~(Depth(q) >= Depth(i))}
  <2> SUFFICES ASSUME S # {} PROVE FALSE
    BY <1>1 DEF Around
  <2>1. S \in SUBSET Nat
    OBVIOUS
  <2>2. PICK c \in S : \A y \in S : c <= y
    BY <2>1, LeastNat
  <2>3. c \in i..(j - 1) /\ ~(Depth(c) >= Depth(i)) /\ c \in 1..Len(src)
    OBVIOUS
  <2>4. Depth(c) \in Int /\ Depth(i) \in Int
    BY <2>3, DepthType
  <2>5. c # i
    BY <2>3, <2>4
  <2>6. \A k \in i..(c - 1) : Depth(k) >= Depth(i)
    <3> TAKE k \in i..(c - 1)
    <3>1. k \in i..(j - 1) /\ ~(c <= k)
      BY <2>3
    <3> QED
      BY <2>2, <3>1
  <2>7. Ends(i, c)
    BY <2>3, <2>4, <2>5, <2>6 DEF Ends
  <2>8. Closed(i) /\ Closer(i) = c
    BY <2>3, <2>7, CloserIs
  <2> QED
    BY <1>1, <2>3, <2>8 DEF Encloses
<1>2. ASSUME NEW i \in Around(j - 1) PROVE i \in 1..(j - 1) /\ Encloses(i, j)
  <2>1. /\ i \in 1..(j - 1) /\ src[i] \in Opens
        /\ \A q \in i..(j - 1) : Depth(q) >= Depth(i)
    BY <1>2 DEF Around
  <2>2. ASSUME Closed(i) PROVE j <= Closer(i)
    <3>1. PICK c \in 1..Len(src) : Ends(i, c)
      BY <2>2 DEF Closed
    <3>2. Closer(i) = c
      BY <2>1, <3>1, CloserIs
    <3>3. i < c /\ Depth(c) < Depth(i)
      BY <3>1 DEF Ends
    <3>4. Depth(c) \in Int /\ Depth(i) \in Int
      BY <2>1, DepthType
    <3>5. c \notin i..(j - 1)
      BY <2>1, <3>3, <3>4
    <3> QED
      BY <2>1, <3>2, <3>3, <3>5
  <2> QED
    BY <2>1, <2>2 DEF Encloses
<1>3. {i \in 1..(j - 1) : src[i] \in kinds /\ Encloses(i, j)} = Open(kinds, j - 1)
  BY <1>1, <1>2 DEF Open, Encloses
<1> QED
  BY <1>3 DEF Enclosing

-----------------------------------------------------------------------------
(* What each token compiles, and what that does to the data stack: the     *)
(* rise over the depth before the token, ahead of each of its cells and    *)
(* behind the last.                                                        *)

Spelling(t) ==
  CASE t \in {"work", "exit"} -> <<t>>
    [] t \in {"then", "begin"} -> <<>>
    [] t \in {"if", "until", "while"} -> <<"lit", "0branch", "offset">>
    [] t = "unless" -> <<"lit", "not", "0branch", "offset">>
    [] t \in {"else", "endof", "again", "repeat"} -> <<"branch", "offset">>
    [] t = "case" -> <<"lit">>
    [] t = "endcase" -> <<"drop">>
    [] t = "of" -> <<"lit", "over", "=", "0branch", "offset", "drop">>
    [] t = "do" -> <<"lit", "lit", "(do)">>
    [] t = "?do" -> <<"lit", "lit", "2dup", "<>", "0branch", "offset", "(do)">>
    [] t = "leave" -> <<"unloop", "branch", "offset">>
    [] t = "loop" -> <<"(loop)", "offset">>
    [] t = "+loop" -> <<"lit", "(+loop)", "offset">>

LEMMA SpellingIs ==
  /\ \A t \in {"work", "exit"} : Len(Spelling(t)) = 1 /\ Spelling(t)[1] = t
  /\ \A t \in {"then", "begin"} : Len(Spelling(t)) = 0
  /\ \A t \in {"if", "until", "while"} :
       /\ Len(Spelling(t)) = 3 /\ Spelling(t)[1] = "lit" /\ Spelling(t)[2] = "0branch"
       /\ Spelling(t)[3] = "offset"
  /\ LET s == Spelling("unless") IN
       Len(s) = 4 /\ s[1] = "lit" /\ s[2] = "not" /\ s[3] = "0branch" /\ s[4] = "offset"
  /\ \A t \in {"else", "endof", "again", "repeat"} :
       Len(Spelling(t)) = 2 /\ Spelling(t)[1] = "branch" /\ Spelling(t)[2] = "offset"
  /\ Len(Spelling("case")) = 1 /\ Spelling("case")[1] = "lit"
  /\ Len(Spelling("endcase")) = 1 /\ Spelling("endcase")[1] = "drop"
  /\ LET s == Spelling("of") IN
       /\ Len(s) = 6 /\ s[1] = "lit" /\ s[2] = "over" /\ s[3] = "=" /\ s[4] = "0branch"
       /\ s[5] = "offset" /\ s[6] = "drop"
  /\ LET s == Spelling("do") IN
       Len(s) = 3 /\ s[1] = "lit" /\ s[2] = "lit" /\ s[3] = "(do)"
  /\ LET s == Spelling("?do") IN
       /\ Len(s) = 7 /\ s[1] = "lit" /\ s[2] = "lit" /\ s[3] = "2dup" /\ s[4] = "<>"
       /\ s[5] = "0branch" /\ s[6] = "offset" /\ s[7] = "(do)"
  /\ LET s == Spelling("leave") IN
       Len(s) = 3 /\ s[1] = "unloop" /\ s[2] = "branch" /\ s[3] = "offset"
  /\ LET s == Spelling("loop") IN Len(s) = 2 /\ s[1] = "(loop)" /\ s[2] = "offset"
  /\ LET s == Spelling("+loop") IN
       Len(s) = 3 /\ s[1] = "lit" /\ s[2] = "(+loop)" /\ s[3] = "offset"
BY DEF Spelling

(* p is c with the first n cells of token t behind it.                     *)
Prefix(c, p, t, n) ==
  /\ p \in Seq(CodeCells) /\ Len(p) = Len(c) + n
  /\ \A a \in 1..Len(c) : p[a].op = c[a].op
  /\ \A k \in 1..n : p[Len(c) + k].op = Spelling(t)[k]

(* The cells new are those of token t behind its n-th, up to its m-th.     *)
Continues(new, t, n, m) ==
  /\ new \in Seq(CodeCells) /\ n \in Nat /\ m = n + Len(new)
  /\ \A k \in 1..Len(new) : new[k].op = Spelling(t)[n + k]

LEMMA PrefixNone ==
  ASSUME NEW c \in Seq(CodeCells), NEW t
  PROVE  Prefix(c, c, t, 0)
BY LenProperties DEF Prefix

LEMMA PrefixMore ==
  ASSUME NEW c, c \in Seq(CodeCells), NEW t, NEW n, NEW p, Prefix(c, p, t, n),
         NEW new, NEW m, Continues(new, t, n, m)
  PROVE  Prefix(c, p \o new, t, m)
<1>0. /\ new \in Seq(CodeCells) /\ n \in Nat /\ m = n + Len(new)
      /\ \A k \in 1..Len(new) : new[k].op = Spelling(t)[n + k]
  BY DEF Continues
<1>1. /\ p \in Seq(CodeCells) /\ Len(p) = Len(c) + n /\ Len(c) \in Nat /\ Len(new) \in Nat
      /\ \A a \in 1..Len(c) : p[a].op = c[a].op
      /\ \A k \in 1..n : p[Len(c) + k].op = Spelling(t)[k]
  BY <1>0, LenProperties DEF Prefix
<1>2. /\ p \o new \in Seq(CodeCells) /\ Len(p \o new) = Len(p) + Len(new)
      /\ \A a \in 1..Len(p) : (p \o new)[a] = p[a]
      /\ \A k \in 1..Len(new) : (p \o new)[Len(p) + k] = new[k]
  BY <1>0, <1>1, AppendFacts
<1>3. PICK q : q = p \o new
  OBVIOUS
<1>4. \A a \in 1..Len(c) : q[a].op = c[a].op
  BY <1>0, <1>1, <1>2, <1>3
<1>5. \A k \in 1..m : q[Len(c) + k].op = Spelling(t)[k]
  <2> TAKE k \in 1..m
  <2>1. CASE k <= n
    <3>1. k \in 1..n /\ Len(c) + k \in 1..Len(p)
      BY <1>0, <1>1, <2>1
    <3> QED
      BY <1>1, <1>2, <1>3, <3>1
  <2>2. CASE k > n
    <3>1. PICK j : j = k - n
      OBVIOUS
    <3>2. j \in 1..Len(new) /\ Len(c) + k = Len(p) + j /\ n + j = k
      BY <1>0, <1>1, <2>2, <3>1
    <3>3. q[Len(p) + j] = new[j] /\ new[j].op = Spelling(t)[n + j]
      BY <1>0, <1>2, <1>3, <3>2
    <3> QED
      BY <3>2, <3>3
  <2> QED
    BY <1>0, <1>1, <2>1, <2>2
<1> QED
  BY <1>0, <1>1, <1>2, <1>3, <1>4, <1>5 DEF Prefix

(* Cell m is the one behind the n-th.                                      *)
NextCell(n, m) == n \in Nat /\ m = n + 1

LEMMA PrefixNext ==
  ASSUME NEW c, c \in Seq(CodeCells), NEW t, NEW n, NEW m, NextCell(n, m),
         NEW p, Prefix(c, p, t, n)
  PROVE  /\ \A o \in Ops : Spelling(t)[m] = o => Prefix(c, Append(p, Op(o)), t, m)
         /\ \A d \in Int : Spelling(t)[m] = "offset" => Prefix(c, BackTo(p, d), t, m)
<1>0. n \in Nat /\ m = n + 1
  BY DEF NextCell
<1>1. /\ p \in Seq(CodeCells) /\ Len(p) = Len(c) + n /\ Len(c) \in Nat /\ Len(p) \in Nat
      /\ \A a \in 1..Len(c) : p[a].op = c[a].op
      /\ \A k \in 1..n : p[Len(c) + k].op = Spelling(t)[k]
  BY <1>0, LenProperties DEF Prefix
<1>2. ASSUME NEW x \in CodeCells, x.op = Spelling(t)[m]
      PROVE  Prefix(c, Append(p, x), t, m)
  <2>1. PICK new : new = <<x>>
    OBVIOUS
  <2>2. Len(new) = 1 /\ Continues(new, t, n, m)
    BY <1>0, <1>2, <2>1 DEF Continues
  <2>3. Prefix(c, p \o new, t, m)
    BY <2>2, PrefixMore
  <2>4. Append(p, x) = p \o <<x>>
    BY <1>1, <1>2, AppendIsConcat
  <2> QED
    BY <2>1, <2>3, <2>4
<1>3. ASSUME NEW o \in Ops, Spelling(t)[m] = o PROVE Prefix(c, Append(p, Op(o)), t, m)
  <2>1. Op(o) \in CodeCells /\ Op(o).op = o
    BY CellFacts
  <2> QED
    BY <1>2, <1>3, <2>1
<1>4. ASSUME NEW d \in Int, Spelling(t)[m] = "offset"
      PROVE  Prefix(c, BackTo(p, d), t, m)
  <2>1. d - (Len(p) + 1) \in Int
    BY <1>1
  <2>2. PICK x : x = Offset(d - (Len(p) + 1))
    OBVIOUS
  <2>3. x \in CodeCells /\ x.op = "offset"
    BY <2>1, <2>2, CellFacts
  <2>4. Prefix(c, Append(p, x), t, m)
    BY <1>2, <1>4, <2>3
  <2> QED
    BY <2>2, <2>4 DEF BackTo
<1> QED
  BY <1>3, <1>4

LEMMA PrefixResolved ==
  ASSUME NEW c, c \in Seq(CodeCells), NEW t, NEW n \in Nat, NEW p, Prefix(c, p, t, n)
  PROVE  /\ \A a \in Int : Prefix(c, Resolve(p, a), t, n)
         /\ \A as : Prefix(c, ResolveAll(p, as), t, n)
<1>1. /\ p \in Seq(CodeCells) /\ Len(p) = Len(c) + n /\ Len(c) \in Nat /\ Len(p) \in Nat
      /\ \A a \in 1..Len(c) : p[a].op = c[a].op
      /\ \A k \in 1..n : p[Len(c) + k].op = Spelling(t)[k]
  BY LenProperties DEF Prefix
<1>5. ASSUME NEW q \in Seq(CodeCells), Len(q) = Len(p),
             \A i \in 1..Len(p) : q[i].op = p[i].op
      PROVE  Prefix(c, q, t, n)
  <2>1. \A a \in 1..Len(c) : a \in 1..Len(p)
    BY <1>1
  <2>2. \A k \in 1..n : Len(c) + k \in 1..Len(p)
    BY <1>1
  <2> QED
    BY <1>1, <1>5, <2>1, <2>2 DEF Prefix
<1>6. ASSUME NEW a \in Int PROVE Prefix(c, Resolve(p, a), t, n)
  <2>1. /\ Resolve(p, a) \in Seq(CodeCells) /\ Len(Resolve(p, a)) = Len(p)
        /\ \A i \in 1..Len(p) : Resolve(p, a)[i].op = p[i].op
    BY <1>1, ResolveFacts
  <2> QED
    BY <1>5, <2>1
<1>7. ASSUME NEW as PROVE Prefix(c, ResolveAll(p, as), t, n)
  <2>1. /\ ResolveAll(p, as) \in Seq(CodeCells) /\ Len(ResolveAll(p, as)) = Len(p)
        /\ \A i \in 1..Len(p) : ResolveAll(p, as)[i].op = p[i].op
    BY <1>1, ResolveFacts, ZenonT(60)
  <2> QED
    BY <1>5, <2>1
<1> QED
  BY <1>6, <1>7

-----------------------------------------------------------------------------
(* What every token finds around it, and compiles.                         *)

Wants(t) ==
  CASE t = "then" -> {"if", "unless", "else"}
    [] t = "else" -> {"if", "unless"}
    [] t \in {"until", "again", "while"} -> {"begin"}
    [] t = "repeat" -> {"while"}
    [] t \in {"of", "endcase"} -> {"case"}
    [] t = "endof" -> {"of"}
    [] t \in {"loop", "+loop"} -> {"do", "?do"}

Fits(t) ==
  /\ t \in Closes \cup {"else", "while", "of"} => Inside(Wants(t))
  /\ t = "leave" => \E i \in 1..Len(open) : open[i] \in Loops
  /\ t = "exit" => \A i \in 1..Len(open) : open[i] \notin {"do", "?do", "case"}

Spelt(t) == Enters(t) /\ Fits(t) /\ (mode' # "aborted" => Prefix(code, code', t, Len(Spelling(t))))

LEMMA SpeltIs ==
  ASSUME Types, NEW t, Token(t), at' = Append(at, Len(code') + 1), Fits(t),
         Prefix(code, code', t, Len(Spelling(t)))
  PROVE  Spelt(t)
<1>1. t \in AllTokens
  BY ControlFlowAssumption DEF Token
<1>2. Len(Spelling(t)) \in Nat
  BY <1>1, SpellingIs DEF AllTokens
<1>3. code' \in Seq(CodeCells) /\ Len(code') >= Len(code)
  BY <1>2, TypedLengths DEF Prefix
<1>4. Enters(t)
  BY <1>3, EntersIs
<1> QED
  BY <1>4 DEF Spelt

LEMMA OpeningSpelt ==
  ASSUME NEW b, WordInv(b), If \/ Unless \/ Begin \/ Case \/ Of \/ Do \/ QDo
  PROVE  \E t \in AllTokens : Spelt(t)
<1>1. Types /\ code \in Seq(CodeCells)
  BY DEF WordInv, Types
<1>2. \A t : Prefix(code, code, t, 0)
  BY <1>1, PrefixNone
<1>3. \A k \in {1, 2} : /\ Operands(k) \in Seq(CodeCells) /\ Len(Operands(k)) = k
                         /\ \A i \in 1..k : Operands(k)[i].op = "lit"
  BY OperandFacts, CellFacts DEF Ops
<1>4. \A t : Spelling(t)[1] = "lit" => Prefix(code, code \o Operands(1), t, 1)
  <2> TAKE t
  <2> HAVE Spelling(t)[1] = "lit"
  <2>1. PICK new : new = Operands(1)
    OBVIOUS
  <2>2. Continues(new, t, 0, 1)
    BY <1>3, <2>1 DEF Continues
  <2> QED
    BY <1>1, <1>2, <2>1, <2>2, PrefixMore
<1>5. \A t : Spelling(t)[1] = "lit" /\ Spelling(t)[2] = "lit" =>
               Prefix(code, code \o Operands(2), t, 2)
  <2> TAKE t
  <2> HAVE Spelling(t)[1] = "lit" /\ Spelling(t)[2] = "lit"
  <2>1. PICK new : new = Operands(2)
    OBVIOUS
  <2>2. Continues(new, t, 0, 2)
    BY <1>3, <2>1 DEF Continues
  <2> QED
    BY <1>1, <1>2, <2>1, <2>2, PrefixMore
<1>6. CASE If
  <2>1. Typed("if") /\ code' = code \o Operands(1) \o <<Op("0branch"), Unresolved>>
    BY <1>6 DEF If, CompileIf
  <2>2. Prefix(code, code \o Operands(1), "if", 1)
    BY <1>4, SpellingIs
  <2>3. PICK new : new = <<Op("0branch"), Unresolved>>
    OBVIOUS
  <2>4. /\ new \in Seq(CodeCells) /\ Len(new) = 2 /\ new[1].op = "0branch"
        /\ new[2].op = "offset"
    BY <2>3, CellFacts DEF Ops
  <2>5. Continues(new, "if", 1, 3)
    BY <2>4, SpellingIs DEF Continues
  <2>6. Prefix(code, (code \o Operands(1)) \o new, "if", 3)
    BY <1>1, <2>2, <2>4, <2>5, PrefixMore
  <2>7. Prefix(code, code', "if", Len(Spelling("if")))
    BY <2>1, <2>3, <2>6, SpellingIs
  <2>8. Fits("if") /\ "if" \in AllTokens
    BY DEF Fits, Closes, AllTokens
  <2> QED
    BY <1>1, <2>1, <2>7, <2>8, SpeltIs DEF Typed
<1>7. CASE Unless
  <2>1. /\ Typed("unless")
        /\ code' = code \o Append(Operands(1), Op("not")) \o <<Op("0branch"), Unresolved>>
    BY <1>7 DEF Unless, CompileIf
  <2>2. PICK test : test = Append(Operands(1), Op("not"))
    OBVIOUS
  <2>3. /\ test \in Seq(CodeCells) /\ Len(test) = 2 /\ test[1].op = "lit" /\ test[2].op = "not"
    BY <1>3, <2>2, CellFacts, AppendProperties DEF Ops
  <2>4. Continues(test, "unless", 0, 2)
    BY <2>3, SpellingIs DEF Continues
  <2>5. Prefix(code, code \o test, "unless", 2)
    BY <1>1, <1>2, <2>3, <2>4, PrefixMore
  <2>6. PICK new : new = <<Op("0branch"), Unresolved>>
    OBVIOUS
  <2>7. /\ new \in Seq(CodeCells) /\ Len(new) = 2 /\ new[1].op = "0branch"
        /\ new[2].op = "offset"
    BY <2>6, CellFacts DEF Ops
  <2>8. Continues(new, "unless", 2, 4)
    BY <2>7, SpellingIs DEF Continues
  <2>9. Prefix(code, (code \o test) \o new, "unless", 4)
    BY <1>1, <2>5, <2>7, <2>8, PrefixMore
  <2>10. Prefix(code, code', "unless", Len(Spelling("unless")))
    BY <2>1, <2>2, <2>6, <2>9, SpellingIs
  <2>11. Fits("unless") /\ "unless" \in AllTokens
    BY DEF Fits, Closes, AllTokens
  <2> QED
    BY <1>1, <2>1, <2>10, <2>11, SpeltIs DEF Typed
<1>8. CASE Begin
  <2>1. Typed("begin") /\ code' = code
    BY <1>8 DEF Begin
  <2>2. Prefix(code, code', "begin", Len(Spelling("begin")))
    BY <1>2, <2>1, SpellingIs
  <2>3. Fits("begin") /\ "begin" \in AllTokens
    BY DEF Fits, Closes, AllTokens
  <2> QED
    BY <1>1, <2>1, <2>2, <2>3, SpeltIs DEF Typed
<1>9. CASE Case
  <2>1. Typed("case") /\ code' = code \o Operands(1)
    BY <1>9 DEF Case
  <2>2. Prefix(code, code', "case", Len(Spelling("case")))
    BY <1>4, <2>1, SpellingIs
  <2>3. Fits("case") /\ "case" \in AllTokens
    BY DEF Fits, Closes, AllTokens
  <2> QED
    BY <1>1, <2>1, <2>2, <2>3, SpeltIs DEF Typed
<1>10. CASE Of
  <2>1. /\ Typed("of") /\ Inside({"case"})
        /\ code' = code \o Operands(1)
                     \o <<Op("over"), Op("="), Op("0branch"), Unresolved, Op("drop")>>
    BY <1>10 DEF Of
  <2>2. Prefix(code, code \o Operands(1), "of", 1)
    BY <1>4, SpellingIs
  <2>3. PICK new :
          new = <<Op("over"), Op("="), Op("0branch"), Unresolved, Op("drop")>>
    OBVIOUS
  <2>4. /\ new \in Seq(CodeCells) /\ Len(new) = 5 /\ new[1].op = "over" /\ new[2].op = "="
        /\ new[3].op = "0branch" /\ new[4].op = "offset" /\ new[5].op = "drop"
    BY <2>3, CellFacts DEF Ops
  <2>5. Continues(new, "of", 1, 6)
    BY <2>4, SpellingIs DEF Continues
  <2>6. Prefix(code, (code \o Operands(1)) \o new, "of", 6)
    BY <1>1, <2>2, <2>4, <2>5, PrefixMore
  <2>7. Prefix(code, code', "of", Len(Spelling("of")))
    BY <2>1, <2>3, <2>6, SpellingIs
  <2>8. Fits("of") /\ "of" \in AllTokens
    BY <2>1 DEF Fits, Closes, AllTokens, Wants
  <2> QED
    BY <1>1, <2>1, <2>7, <2>8, SpeltIs DEF Typed
<1>11. CASE Do
  <2>1. Typed("do") /\ code' = code \o Operands(2) \o <<Op("(do)")>>
    BY <1>11 DEF Do
  <2>2. Prefix(code, code \o Operands(2), "do", 2)
    BY <1>5, SpellingIs
  <2>3. PICK new : new = <<Op("(do)")>>
    OBVIOUS
  <2>4. new \in Seq(CodeCells) /\ Len(new) = 1 /\ new[1].op = "(do)"
    BY <2>3, CellFacts DEF Ops
  <2>5. Continues(new, "do", 2, 3)
    BY <2>4, SpellingIs DEF Continues
  <2>6. Prefix(code, (code \o Operands(2)) \o new, "do", 3)
    BY <1>1, <2>2, <2>4, <2>5, PrefixMore
  <2>7. Prefix(code, code', "do", Len(Spelling("do")))
    BY <2>1, <2>3, <2>6, SpellingIs
  <2>8. Fits("do") /\ "do" \in AllTokens
    BY DEF Fits, Closes, AllTokens
  <2> QED
    BY <1>1, <2>1, <2>7, <2>8, SpeltIs DEF Typed
<1>12. CASE QDo
  <2>1. /\ Typed("?do")
        /\ code' = code \o Operands(2)
                     \o <<Op("2dup"), Op("<>"), Op("0branch"), Unresolved, Op("(do)")>>
    BY <1>12 DEF QDo
  <2>2. Prefix(code, code \o Operands(2), "?do", 2)
    BY <1>5, SpellingIs
  <2>3. PICK new :
          new = <<Op("2dup"), Op("<>"), Op("0branch"), Unresolved, Op("(do)")>>
    OBVIOUS
  <2>4. /\ new \in Seq(CodeCells) /\ Len(new) = 5 /\ new[1].op = "2dup" /\ new[2].op = "<>"
        /\ new[3].op = "0branch" /\ new[4].op = "offset" /\ new[5].op = "(do)"
    BY <2>3, CellFacts DEF Ops
  <2>5. Continues(new, "?do", 2, 7)
    BY <2>4, SpellingIs DEF Continues
  <2>6. Prefix(code, (code \o Operands(2)) \o new, "?do", 7)
    BY <1>1, <2>2, <2>4, <2>5, PrefixMore
  <2>7. Prefix(code, code', "?do", Len(Spelling("?do")))
    BY <2>1, <2>3, <2>6, SpellingIs
  <2>8. Fits("?do") /\ "?do" \in AllTokens
    BY DEF Fits, Closes, AllTokens
  <2> QED
    BY <1>1, <2>1, <2>7, <2>8, SpeltIs DEF Typed
<1> QED
  BY <1>6, <1>7, <1>8, <1>9, <1>10, <1>11, <1>12

LEMMA MiddleSpelt ==
  ASSUME NEW b, WordInv(b), Work \/ Exit \/ Else \/ While \/ Leave
  PROVE  \E t \in AllTokens : Spelt(t)
<1>1. Types /\ code \in Seq(CodeCells) /\ Len(code) \in Nat
  BY TypedLengths DEF WordInv, Types
<1>2. \A t : Prefix(code, code, t, 0)
  BY <1>1, PrefixNone
<1>3. NextCell(0, 1) /\ NextCell(1, 2)
  BY DEF NextCell
<1>4. ASSUME NEW t \in {"work", "exit"}, Typed(t), code' = Append(code, Op(t)), Fits(t)
      PROVE  Spelt(t)
  <2>1. t \in Ops /\ Spelling(t)[1] = t /\ Len(Spelling(t)) = 1
    BY SpellingIs DEF Ops
  <2>2. Prefix(code, Append(code, Op(t)), t, 1)
    BY <1>1, <1>2, <1>3, <2>1, PrefixNext
  <2> QED
    BY <1>1, <1>4, <2>1, <2>2, SpeltIs DEF Typed
<1>5. CASE Work
  <2>1. Fits("work") /\ "work" \in AllTokens
    BY DEF Fits, Closes, AllTokens
  <2> QED
    BY <1>4, <1>5, <2>1 DEF Work
<1>6. CASE Exit
  <2>1. Fits("exit") /\ "exit" \in AllTokens
    BY <1>6 DEF Fits, Closes, AllTokens, Exit
  <2> QED
    BY <1>4, <1>6, <2>1 DEF Exit
<1>7. CASE Else
  <2>1. /\ Typed("else") /\ Inside({"if", "unless"})
        /\ code' = Resolve(code \o <<Op("branch"), Unresolved>>, Head(cs))
    BY <1>7 DEF Else, CompileElse
  <2>2. PICK new : new = <<Op("branch"), Unresolved>>
    OBVIOUS
  <2>3. new \in Seq(CodeCells) /\ Len(new) = 2 /\ new[1].op = "branch" /\ new[2].op = "offset"
    BY <2>2, CellFacts DEF Ops
  <2>4. Continues(new, "else", 0, 2)
    BY <2>3, SpellingIs DEF Continues
  <2>5. Prefix(code, code \o new, "else", 2)
    BY <1>1, <1>2, <2>4, PrefixMore
  <2>6. Head(cs) \in Int
    <3>1. open # <<>>
      BY <2>1 DEF Inside
    <3> QED
      BY <3>1, StackFacts
  <2>7. Prefix(code, Resolve(code \o new, Head(cs)), "else", 2)
    BY <1>1, <2>5, <2>6, PrefixResolved
  <2>8. Prefix(code, code', "else", Len(Spelling("else")))
    BY <2>1, <2>2, <2>7, SpellingIs
  <2>9. Fits("else") /\ "else" \in AllTokens
    BY <2>1 DEF Fits, Closes, AllTokens, Wants
  <2> QED
    BY <1>1, <2>1, <2>8, <2>9, SpeltIs DEF Typed
<1>8. CASE While
  <2>1. /\ Typed("while") /\ Inside({"begin"})
        /\ code' = code \o Operands(1) \o <<Op("0branch"), Unresolved>>
    BY <1>8 DEF While
  <2>2. PICK first : first = Operands(1)
    OBVIOUS
  <2>3. first \in Seq(CodeCells) /\ Len(first) = 1 /\ first[1].op = "lit"
    BY <2>2, OperandFacts, CellFacts DEF Ops
  <2>4. Continues(first, "while", 0, 1)
    BY <2>3, SpellingIs DEF Continues
  <2>5. Prefix(code, code \o first, "while", 1)
    BY <1>1, <1>2, <2>4, PrefixMore
  <2>6. PICK new : new = <<Op("0branch"), Unresolved>>
    OBVIOUS
  <2>7. new \in Seq(CodeCells) /\ Len(new) = 2 /\ new[1].op = "0branch" /\ new[2].op = "offset"
    BY <2>6, CellFacts DEF Ops
  <2>8. Continues(new, "while", 1, 3)
    BY <2>7, SpellingIs DEF Continues
  <2>9. Prefix(code, (code \o first) \o new, "while", 3)
    BY <1>1, <2>5, <2>8, PrefixMore
  <2>10. Prefix(code, code', "while", Len(Spelling("while")))
    BY <2>1, <2>2, <2>6, <2>9, SpellingIs
  <2>11. Fits("while") /\ "while" \in AllTokens
    BY <2>1 DEF Fits, Closes, AllTokens, Wants
  <2> QED
    BY <1>1, <2>1, <2>10, <2>11, SpeltIs DEF Typed
<1>9. CASE Leave
  <2>1. /\ Token("leave") /\ at' = Append(at, Len(code') + 1)
        /\ \E i \in 1..Len(open) : open[i] \in {"do", "?do"}
    BY <1>9 DEF Leave
  <2>2. Fits("leave") /\ "leave" \in AllTokens
    BY <2>1 DEF Fits, Closes, AllTokens, Loops
  <2>3. CASE LeaveFull
    <3>1. mode' = "aborted" /\ code' = code \o <<Op("unloop"), Op("branch")>>
      BY <1>9, <2>3 DEF Leave
    <3>2. /\ Op("unloop") \in CodeCells /\ Op("branch") \in CodeCells
      BY CellFacts DEF Ops
    <3>3. code' \in Seq(CodeCells) /\ Len(code') = Len(code) + 2
      BY <1>1, <3>1, <3>2, Appended
    <3>4. Enters("leave")
      BY <1>1, <2>1, <3>3, EntersIs
    <3> QED
      BY <2>2, <3>1, <3>4 DEF Spelt
  <2>4. CASE ~LeaveFull
    <3>1. code' = code \o <<Op("unloop"), Op("branch"), Unresolved>>
      BY <1>9, <2>4 DEF Leave
    <3>2. PICK new : new = <<Op("unloop"), Op("branch"), Unresolved>>
      OBVIOUS
    <3>3. /\ new \in Seq(CodeCells) /\ Len(new) = 3 /\ new[1].op = "unloop"
          /\ new[2].op = "branch" /\ new[3].op = "offset"
      BY <3>2, CellFacts DEF Ops
    <3>4. Continues(new, "leave", 0, 3)
      BY <3>3, SpellingIs DEF Continues
    <3>5. Prefix(code, code \o new, "leave", 3)
      BY <1>1, <1>2, <3>4, PrefixMore
    <3>6. Prefix(code, code', "leave", Len(Spelling("leave")))
      BY <3>1, <3>2, <3>5, SpellingIs
    <3> QED
      BY <1>1, <2>1, <2>2, <3>6, SpeltIs
  <2> QED
    BY <2>3, <2>4
<1> QED
  BY <1>5, <1>6, <1>7, <1>8, <1>9

LEMMA ClosingSpelt ==
  ASSUME NEW b, WordInv(b), Then \/ Until \/ Again \/ Repeat \/ EndOf \/ EndCase
  PROVE  \E t \in AllTokens : Spelt(t)
<1>1. Types /\ code \in Seq(CodeCells) /\ Len(code) \in Nat /\ open # <<>>
  BY TypedLengths DEF WordInv, Types, Then, Until, Again, Repeat, EndOf, EndCase, Inside
<1>2. \A t : Prefix(code, code, t, 0)
  BY <1>1, PrefixNone
<1>3. NextCell(0, 1) /\ NextCell(1, 2) /\ NextCell(2, 3)
  BY DEF NextCell
<1>4. Head(cs) \in Int /\ (Head(open) = "while" => cs[2] \in Int)
  BY <1>1, StackFacts
<1>5. {"branch", "0branch", "drop"} \subseteq Ops
  BY DEF Ops
<1>6. CASE Then
  <2>1. /\ Typed("then") /\ Inside({"if", "unless", "else"})
        /\ code' = Resolve(code, Head(cs))
    BY <1>6 DEF Then
  <2>2. Prefix(code, Resolve(code, Head(cs)), "then", 0)
    BY <1>1, <1>2, <1>4, PrefixResolved
  <2>3. Prefix(code, code', "then", Len(Spelling("then")))
    BY <2>1, <2>2, SpellingIs
  <2>4. Fits("then") /\ "then" \in AllTokens
    BY <2>1 DEF Fits, Closes, AllTokens, Wants
  <2> QED
    BY <1>1, <2>1, <2>3, <2>4, SpeltIs DEF Typed
<1>7. CASE Until
  <2>1. /\ Typed("until") /\ Inside({"begin"})
        /\ code' = BackTo((code \o Operands(1)) \o <<Op("0branch")>>, Head(cs))
    BY <1>7 DEF Until
  <2>2. PICK first : first = Operands(1)
    OBVIOUS
  <2>3. first \in Seq(CodeCells) /\ Len(first) = 1 /\ first[1].op = "lit"
    BY <2>2, OperandFacts, CellFacts DEF Ops
  <2>4. Continues(first, "until", 0, 1)
    BY <2>3, SpellingIs DEF Continues
  <2>5. Prefix(code, code \o first, "until", 1)
    BY <1>1, <1>2, <2>4, PrefixMore
  <2>6. PICK new : new = <<Op("0branch")>>
    OBVIOUS
  <2>7. new \in Seq(CodeCells) /\ Len(new) = 1 /\ new[1].op = "0branch"
    BY <1>5, <2>6, CellFacts
  <2>8. Continues(new, "until", 1, 2)
    BY <2>7, SpellingIs DEF Continues
  <2>9. Prefix(code, (code \o first) \o new, "until", 2)
    BY <1>1, <2>5, <2>8, PrefixMore
  <2>10. Spelling("until")[3] = "offset" /\ Len(Spelling("until")) = 3
    BY SpellingIs
  <2>11. Prefix(code, BackTo((code \o first) \o new, Head(cs)), "until", 3)
    BY <1>1, <1>3, <1>4, <2>9, <2>10, PrefixNext
  <2>12. Prefix(code, code', "until", Len(Spelling("until")))
    BY <2>1, <2>2, <2>6, <2>10, <2>11
  <2>13. Fits("until") /\ "until" \in AllTokens
    BY <2>1 DEF Fits, Closes, AllTokens, Wants
  <2> QED
    BY <1>1, <2>1, <2>12, <2>13, SpeltIs DEF Typed
<1>8. ASSUME NEW t \in {"again", "repeat"}
      PROVE  Prefix(code, BackTo(Append(code, Op("branch")), Head(cs)), t, 2)
  <2>1. Spelling(t)[1] = "branch" /\ Spelling(t)[2] = "offset"
    BY SpellingIs
  <2>2. Prefix(code, Append(code, Op("branch")), t, 1)
    BY <1>1, <1>2, <1>3, <1>5, <2>1, PrefixNext
  <2> QED
    BY <1>1, <1>3, <1>4, <2>1, <2>2, PrefixNext
<1>9. CASE Again
  <2>1. /\ Typed("again") /\ Inside({"begin"})
        /\ code' = BackTo(Append(code, Op("branch")), Head(cs))
    BY <1>9 DEF Again
  <2>2. Prefix(code, code', "again", Len(Spelling("again")))
    BY <1>8, <2>1, SpellingIs
  <2>3. Fits("again") /\ "again" \in AllTokens
    BY <2>1 DEF Fits, Closes, AllTokens, Wants
  <2> QED
    BY <1>1, <2>1, <2>2, <2>3, SpeltIs DEF Typed
<1>10. CASE Repeat
  <2>1. /\ Typed("repeat") /\ Inside({"while"})
        /\ code' = Resolve(BackTo(Append(code, Op("branch")), Head(cs)), cs[2])
    BY <1>10 DEF Repeat
  <2>2. cs[2] \in Int
    BY <1>4, <2>1 DEF Inside
  <2>3. Prefix(code, Resolve(BackTo(Append(code, Op("branch")), Head(cs)), cs[2]), "repeat", 2)
    BY <1>1, <1>8, <2>2, PrefixResolved
  <2>4. Prefix(code, code', "repeat", Len(Spelling("repeat")))
    BY <2>1, <2>3, SpellingIs
  <2>5. Fits("repeat") /\ "repeat" \in AllTokens
    BY <2>1 DEF Fits, Closes, AllTokens, Wants
  <2> QED
    BY <1>1, <2>1, <2>4, <2>5, SpeltIs DEF Typed
<1>11. CASE EndOf
  <2>1. /\ Typed("endof") /\ Inside({"of"})
        /\ code' = Resolve(code \o <<Op("branch"), Unresolved>>, Head(cs))
    BY <1>11 DEF EndOf, CompileElse
  <2>2. PICK new : new = <<Op("branch"), Unresolved>>
    OBVIOUS
  <2>3. new \in Seq(CodeCells) /\ Len(new) = 2 /\ new[1].op = "branch" /\ new[2].op = "offset"
    BY <2>2, CellFacts DEF Ops
  <2>4. Continues(new, "endof", 0, 2)
    BY <2>3, SpellingIs DEF Continues
  <2>5. Prefix(code, code \o new, "endof", 2)
    BY <1>1, <1>2, <2>4, PrefixMore
  <2>6. Prefix(code, Resolve(code \o new, Head(cs)), "endof", 2)
    BY <1>1, <1>4, <2>5, PrefixResolved
  <2>7. Prefix(code, code', "endof", Len(Spelling("endof")))
    BY <2>1, <2>2, <2>6, SpellingIs
  <2>8. Fits("endof") /\ "endof" \in AllTokens
    BY <2>1 DEF Fits, Closes, AllTokens, Wants
  <2> QED
    BY <1>1, <2>1, <2>7, <2>8, SpeltIs DEF Typed
<1>12. CASE EndCase
  <2>1. /\ Typed("endcase") /\ Inside({"case"})
        /\ \E as : code' = ResolveAll(Append(code, Op("drop")), as)
    BY <1>12 DEF EndCase
  <2>2. Prefix(code, Append(code, Op("drop")), "endcase", 1)
    <3>1. Spelling("endcase")[1] = "drop"
      BY SpellingIs
    <3> QED
      BY <1>1, <1>2, <1>3, <1>5, <3>1, PrefixNext
  <2>3. Prefix(code, code', "endcase", 1)
    BY <1>1, <2>1, <2>2, PrefixResolved
  <2>4. Prefix(code, code', "endcase", Len(Spelling("endcase")))
    BY <2>3, SpellingIs
  <2>5. Fits("endcase") /\ "endcase" \in AllTokens
    BY <2>1 DEF Fits, Closes, AllTokens, Wants
  <2> QED
    BY <1>1, <2>1, <2>4, <2>5, SpeltIs DEF Typed
<1> QED
  BY <1>6, <1>7, <1>9, <1>10, <1>11, <1>12

LEMMA LoopSpelt ==
  ASSUME NEW b, WordInv(b), Loop \/ PlusLoop
  PROVE  \E t \in AllTokens : Spelt(t)
<1>1. Types /\ code \in Seq(CodeCells) /\ Len(code) \in Nat /\ Inside({"do", "?do"})
  BY TypedLengths DEF WordInv, Types, Loop, PlusLoop
<1>2. \A t : Prefix(code, code, t, 0)
  BY <1>1, PrefixNone
<1>3. NextCell(0, 1) /\ NextCell(1, 2) /\ NextCell(2, 3)
  BY DEF NextCell
<1>4. cs[2] \in Int
  BY <1>1, StackFacts DEF Inside
<1>5. ASSUME NEW t \in {"loop", "+loop"}, NEW c, NEW n, NEW m, Prefix(code, c, t, n),
             NextCell(n, m), Spelling(t)[m] = "offset", CompileLoop(c)
      PROVE  Prefix(code, code', t, m)
  <2>1. PICK c1 : c1 = BackTo(c, cs[2])
    OBVIOUS
  <2>2. Prefix(code, c1, t, m)
    BY <1>1, <1>4, <1>5, <2>1, PrefixNext
  <2>3. cs[2] - 2 \in Int /\ m \in Nat
    BY <1>4, <1>5 DEF NextCell
  <2>4. Prefix(code, Resolve(c1, cs[2] - 2), t, m)
    BY <1>1, <2>2, <2>3, PrefixResolved
  <2>5. PICK c2 : c2 = IF Head(cs) # 0 THEN Resolve(c1, cs[2] - 2) ELSE c1
    OBVIOUS
  <2>6. Prefix(code, c2, t, m)
    BY <2>2, <2>4, <2>5
  <2>7. \E as : code' = ResolveAll(c2, as)
    BY <1>5, <2>1, <2>5 DEF CompileLoop
  <2> QED
    BY <1>1, <2>3, <2>6, <2>7, PrefixResolved
<1>6. CASE Loop
  <2>1. Typed("loop") /\ CompileLoop(Append(code, Op("(loop)")))
    BY <1>6 DEF Loop
  <2>2. Spelling("loop")[1] = "(loop)" /\ Spelling("loop")[2] = "offset"
        /\ Len(Spelling("loop")) = 2 /\ "(loop)" \in Ops
    BY SpellingIs DEF Ops
  <2>3. Prefix(code, Append(code, Op("(loop)")), "loop", 1)
    BY <1>1, <1>2, <1>3, <2>2, PrefixNext
  <2>4. Prefix(code, code', "loop", 2)
    BY <1>3, <1>5, <2>1, <2>2, <2>3
  <2>5. Fits("loop") /\ "loop" \in AllTokens
    BY <1>1 DEF Fits, Closes, AllTokens, Wants
  <2> QED
    BY <1>1, <2>1, <2>2, <2>4, <2>5, SpeltIs DEF Typed
<1>7. CASE PlusLoop
  <2>1. Typed("+loop") /\ CompileLoop((code \o Operands(1)) \o <<Op("(+loop)")>>)
    BY <1>7 DEF PlusLoop
  <2>2. PICK first : first = Operands(1)
    OBVIOUS
  <2>3. first \in Seq(CodeCells) /\ Len(first) = 1 /\ first[1].op = "lit"
    BY <2>2, OperandFacts, CellFacts DEF Ops
  <2>4. Continues(first, "+loop", 0, 1)
    BY <2>3, SpellingIs DEF Continues
  <2>5. Prefix(code, code \o first, "+loop", 1)
    BY <1>1, <1>2, <2>4, PrefixMore
  <2>6. PICK new : new = <<Op("(+loop)")>>
    OBVIOUS
  <2>7. new \in Seq(CodeCells) /\ Len(new) = 1 /\ new[1].op = "(+loop)"
    BY <2>6, CellFacts DEF Ops
  <2>8. Continues(new, "+loop", 1, 2)
    BY <2>7, SpellingIs DEF Continues
  <2>9. Prefix(code, (code \o first) \o new, "+loop", 2)
    BY <1>1, <2>5, <2>8, PrefixMore
  <2>10. Spelling("+loop")[3] = "offset" /\ Len(Spelling("+loop")) = 3
    BY SpellingIs
  <2>11. Prefix(code, code', "+loop", 3)
    BY <1>3, <1>5, <2>1, <2>2, <2>6, <2>9, <2>10
  <2>12. Fits("+loop") /\ "+loop" \in AllTokens
    BY <1>1 DEF Fits, Closes, AllTokens, Wants
  <2> QED
    BY <1>1, <2>1, <2>10, <2>11, <2>12, SpeltIs DEF Typed
<1> QED
  BY <1>6, <1>7

LEMMA TokenSpelt ==
  ASSUME NEW b, WordInv(b), CompileToken
  PROVE  \E t \in AllTokens : Spelt(t)
BY OpeningSpelt, MiddleSpelt, ClosingSpelt, LoopSpelt DEF CompileToken

-----------------------------------------------------------------------------
(* A word as it stands in memory: the cells of its tokens, one behind the  *)
(* other, and behind the last the EXIT of ; .                              *)

Spelled ==
  /\ at[1] = 1
  /\ \A i \in 1..Len(src) :
       /\ at[i + 1] = at[i] + Len(Spelling(src[i]))
       /\ \A k \in 1..Len(Spelling(src[i])) : code[at[i] + k - 1].op = Spelling(src[i])[k]
  /\ mode = "ready" => Len(code) = at[Len(src) + 1] /\ code[Len(code)].op = "exit"

(* A token is where its structure lets it be.                              *)
Starts(t) ==
  CASE t \in {"then", "else"} -> {"if", "unless"}
    [] t \in {"until", "again", "repeat", "while"} -> {"begin"}
    [] t \in {"of", "endcase"} -> {"case"}
    [] t = "endof" -> {"of"}
    [] t \in {"loop", "+loop", "leave"} -> Loops

Housed(k) ==
  /\ src[k] \in Closes => \E i \in 1..(k - 1) : Ends(i, k) /\ src[i] \in Starts(src[k])
  /\ src[k] \in {"else", "while"} =>
       \E i \in Around(k) : Depth(i) = Depth(k) /\ src[i] \in Starts(src[k])
  /\ src[k] = "of" =>
       \E i \in Around(k) : Depth(i) = Depth(k) - 1 /\ src[i] \in Starts(src[k])
  /\ src[k] = "leave" => \E i \in Around(k) : src[i] \in Starts(src[k])
  /\ src[k] = "exit" => \A i \in Around(k) : src[i] \notin Loops \cup {"case", "of"}

AllHoused == \A k \in 1..Len(src) : Housed(k)

LEMMA SpellingLength == \A t \in AllTokens : Len(Spelling(t)) \in Nat
BY SpellingIs DEF AllTokens

LEMMA SpelledStep ==
  ASSUME Types, NEW t \in AllTokens, Spelled, Spelt(t), mode' = "compile"
  PROVE  Spelled'
<1> DEFINE s == Spelling(t)
<1>1. Enters(t) /\ Prefix(code, code', t, Len(s)) /\ mode = "compile"
  BY DEF Spelt, Enters
<1>2. Len(s) \in Nat /\ Len(code) \in Nat /\ Len(src) \in Nat
  BY SpellingLength, TypedLengths
<1>3. /\ code' \in Seq(CodeCells) /\ Len(code') = Len(code) + Len(s)
      /\ \A a \in 1..Len(code) : code'[a].op = code[a].op
      /\ \A k \in 1..Len(s) : code'[Len(code) + k].op = s[k]
  BY <1>1 DEF Prefix
<1>4. PICK N : N = Len(src) + 1
  OBVIOUS
<1>5. /\ Len(src') = N /\ src'[N] = t /\ N \in Nat
      /\ \A i \in 1..Len(src) : src'[i] = src[i] /\ at'[i] = at[i] /\ at'[i + 1] = at[i + 1]
      /\ at'[N] = Len(code) + 1 /\ at'[N + 1] = Len(code') + 1
      /\ \A i \in 1..N : at[i] \in Nat /\ at[i] <= Len(code) + 1
  BY <1>1, <1>2, <1>4, SiteStays
<1>6. at'[1] = 1
  <2>1. CASE N = 1
    <3>1. at[1] = 1 /\ at[N] = Len(code) + 1
      BY <1>1, <1>4, SiteStays DEF Spelled
    <3> QED
      BY <1>5, <2>1, <3>1
  <2>2. CASE N # 1
    <3>1. 1 \in 1..Len(src)
      BY <1>2, <1>4, <2>2
    <3> QED
      BY <1>5, <3>1 DEF Spelled
  <2> QED
    BY <2>1, <2>2
<1>7. ASSUME NEW i \in 1..Len(src)
      PROVE  /\ at'[i + 1] = at'[i] + Len(Spelling(src'[i]))
             /\ \A k \in 1..Len(Spelling(src'[i])) :
                  code'[at'[i] + k - 1].op = Spelling(src'[i])[k]
  <2>1. /\ src'[i] = src[i] /\ at'[i] = at[i] /\ at'[i + 1] = at[i + 1]
        /\ at[i + 1] = at[i] + Len(Spelling(src[i]))
        /\ \A k \in 1..Len(Spelling(src[i])) : code[at[i] + k - 1].op = Spelling(src[i])[k]
    BY <1>5 DEF Spelled
  <2>2. at[i] \in Nat /\ at[i + 1] \in Nat /\ at[i + 1] <= Len(code) + 1
    BY <1>2, <1>4, <1>5
  <2>3. at[i] >= 1
    <3>1. \A j, k \in 1..Len(at) : j <= k => at[j] <= at[k]
      BY DEF Types
    <3>0. Len(at) = Len(src) + 1
      BY DEF Types
    <3>2. 1 \in 1..Len(at) /\ i \in 1..Len(at) /\ 1 <= i
      BY <1>2, <3>0
    <3>3. at[1] = 1
      BY DEF Spelled
    <3> QED
      BY <2>2, <3>1, <3>2, <3>3
  <2>4. src[i] \in AllTokens
    BY DEF Types
  <2>5. Len(Spelling(src[i])) \in Nat
    BY <2>4, SpellingLength
  <2>6. ASSUME NEW k \in 1..Len(Spelling(src[i]))
        PROVE  code'[at[i] + k - 1].op = Spelling(src[i])[k]
    <3>1. at[i] + k - 1 \in 1..Len(code)
      BY <1>2, <2>1, <2>2, <2>3, <2>5
    <3> QED
      BY <1>3, <2>1, <3>1
  <2> QED
    BY <2>1, <2>6
<1>8. /\ at'[N + 1] = at'[N] + Len(s)
      /\ \A k \in 1..Len(s) : code'[at'[N] + k - 1].op = s[k]
  <2>1. at'[N + 1] = at'[N] + Len(s)
    BY <1>2, <1>3, <1>5
  <2>2. ASSUME NEW k \in 1..Len(s) PROVE code'[at'[N] + k - 1].op = s[k]
    <3>1. at'[N] + k - 1 = Len(code) + k
      BY <1>2, <1>5
    <3> QED
      BY <1>3, <3>1
  <2> QED
    BY <2>1, <2>2
<1>9. \A i \in 1..N : i = N \/ i \in 1..Len(src)
  BY <1>2, <1>4
<1>10. \A i \in 1..N :
         /\ at'[i + 1] = at'[i] + Len(Spelling(src'[i]))
         /\ \A k \in 1..Len(Spelling(src'[i])) :
              code'[at'[i] + k - 1].op = Spelling(src'[i])[k]
  BY <1>5, <1>7, <1>8, <1>9
<1> QED
  BY <1>5, <1>6, <1>10 DEF Spelled

LEMMA AroundExtended ==
  ASSUME NEW t, Extended(t), NEW k \in 0..Len(src)
  PROVE  Around(k)' = Around(k)
<1>1. Len(src) \in Nat /\ \A x \in 1..Len(src) : src'[x] = src[x]
  BY SrcFacts
<1>2. PICK N : N = Len(src) + 1
  OBVIOUS
<1>3. \A q \in 0..Len(src) : Depth(q)' = Depth(q)
  BY <1>2, DepthExtended
<1>4. \A x \in 1..k : x \in 1..Len(src) /\ \A q \in x..k : q \in 0..Len(src)
  BY <1>1
<1>5. \A x \in 1..k : x \in Around(k)' <=> x \in Around(k)
  BY <1>1, <1>3, <1>4 DEF Around
<1>6. Around(k) \subseteq 1..k /\ Around(k)' \subseteq 1..k
  BY DEF Around
<1> QED
  BY <1>5, <1>6

LEMMA HousedStays ==
  ASSUME NEW t, Extended(t), NEW k \in 1..Len(src), Housed(k)
  PROVE  Housed(k)'
<1>1. /\ Len(src) \in Nat /\ \A x \in 1..Len(src) : src'[x] = src[x]
  BY SrcFacts
<1>2. PICK N : N = Len(src) + 1
  OBVIOUS
<1>3. \A q \in 0..Len(src) : Depth(q)' = Depth(q)
  BY <1>2, DepthExtended
<1>4. Around(k)' = Around(k)
  BY <1>1, AroundExtended
<1>5. \A x \in 1..k : x \in 1..Len(src) /\ x \in 0..Len(src)
  BY <1>1
<1>6. Around(k) \subseteq 1..k
  BY DEF Around
<1>7. src'[k] = src[k] /\ Depth(k)' = Depth(k)
  BY <1>1, <1>3, <1>5
<1>8. \A i \in Around(k) : src'[i] = src[i] /\ Depth(i)' = Depth(i)
  BY <1>1, <1>3, <1>5, <1>6
<1>9. \A i \in 1..(k - 1) : i \in 1..Len(src) /\ src'[i] = src[i] /\ (Ends(i, k)' <=> Ends(i, k))
  <2> TAKE i \in 1..(k - 1)
  <2>1. i \in 1..Len(src)
    BY <1>1
  <2> QED
    BY <1>1, <2>1, EndsExtended
<1>10. src'[k] \in Closes => \E i \in 1..(k - 1) : Ends(i, k)' /\ src'[i] \in Starts(src'[k])
  BY <1>7, <1>9 DEF Housed
<1>11. src'[k] \in {"else", "while"} =>
         \E i \in Around(k)' : Depth(i)' = Depth(k)' /\ src'[i] \in Starts(src'[k])
  BY <1>4, <1>7, <1>8 DEF Housed
<1>12. src'[k] = "of" =>
         \E i \in Around(k)' : Depth(i)' = Depth(k)' - 1 /\ src'[i] \in Starts(src'[k])
  BY <1>4, <1>7, <1>8 DEF Housed
<1>13. src'[k] = "leave" => \E i \in Around(k)' : src'[i] \in Starts(src'[k])
  BY <1>4, <1>7, <1>8 DEF Housed
<1>14. src'[k] = "exit" => \A i \in Around(k)' : src'[i] \notin Loops \cup {"case", "of"}
  BY <1>4, <1>7, <1>8 DEF Housed
<1> QED
  BY <1>10, <1>11, <1>12, <1>13, <1>14 DEF Housed

(* What is open at the end of the word so far, one structure at each depth.*)
LEMMA OpenAround ==
  ASSUME Types, NEW b, NEW pos, NEW B, Word(b, pos, B)
  PROVE  /\ \A d \in 1..Len(open) :
              /\ pos[d] \in Around(Len(src)) /\ Depth(pos[d]) = d
              /\ src[pos[d]] \in Source(Up(open, d))
         /\ \A i \in Around(Len(src)) : \E d \in 1..Len(open) : pos[d] = i
<1>1. Hist(pos) /\ Shaped(open, src, at, cs, b, B, pos) /\ Len(src) \in Nat /\ Len(open) \in Nat
  BY TypedLengths DEF Word
<1>2. ASSUME NEW d \in 1..Len(open)
      PROVE  /\ pos[d] \in Around(Len(src)) /\ Depth(pos[d]) = d
             /\ src[pos[d]] \in Source(Up(open, d))
  <2>1. /\ pos[d] \in 1..Len(src) /\ src[pos[d]] \in Opens /\ Depth(pos[d]) = d
        /\ \A j \in pos[d]..Len(src) : Depth(j) >= d
    BY <1>1 DEF Hist
  <2>2. FrameFits(open, src, at, cs, B, pos, d)
    BY <1>1 DEF Shaped
  <2> QED
    BY <2>1, <2>2 DEF Around, FrameFits
<1>3. ASSUME NEW i \in Around(Len(src)) PROVE \E d \in 1..Len(open) : pos[d] = i
  <2>1. i \in 1..Len(src) /\ src[i] \in Opens /\ \A q \in i..Len(src) : Depth(q) >= Depth(i)
    BY <1>3 DEF Around
  <2>2. ~Closed(i)
    <3> SUFFICES ASSUME NEW j \in 1..Len(src), Ends(i, j) PROVE FALSE
      BY DEF Closed
    <3>1. i < j /\ Depth(j) < Depth(i)
      BY DEF Ends
    <3>2. j \in i..Len(src) /\ Depth(j) \in Int /\ Depth(i) \in Int
      BY <2>1, <3>1, DepthType
    <3> QED
      BY <2>1, <3>1, <3>2
  <2> QED
    BY <1>1, <2>1, <2>2 DEF Hist
<1> QED
  BY <1>2, <1>3

LEMMA StartsSource ==
  /\ \A t \in Closes \cup {"else", "while", "of"} :
       \A k \in Wants(t) : Source(k) \subseteq Starts(t)
  /\ \A k \in Loops : Source(k) \subseteq Starts("leave")
  /\ \A k \in OpenKinds : \A x \in Source(k) :
       x \in Loops \cup {"case", "of"} => k = x
BY DEF Closes, Wants, Source, Starts, Loops, OpenKinds, Opens

LEMMA HousedNew ==
  ASSUME Types, NEW b, NEW pos, NEW B, Word(b, pos, B), NEW t \in AllTokens, Enters(t),
         Fits(t), NEW N, N = Len(src) + 1
  PROVE  Housed(N)'
<1>1. /\ Hist(pos) /\ Shaped(open, src, at, cs, b, B, pos) /\ Len(src) \in Nat
      /\ Len(open) \in Nat /\ open \in Seq(OpenKinds) /\ Extended(t)
  BY TypedLengths DEF Word, Types, Enters
<1>2. /\ src'[N] = t /\ \A x \in 1..Len(src) : src'[x] = src[x]
  BY <1>1, SrcFacts
<1>3. /\ Depth(N)' = Len(open) + Weight(t)
      /\ \A q \in 0..Len(src) : Depth(q)' = Depth(q) /\ Depth(q) \in Int
  BY <1>1, DepthNow
<1>4. \A d \in 1..Len(open) :
        /\ pos[d] \in Around(Len(src)) /\ Depth(pos[d]) = d
        /\ src[pos[d]] \in Source(Up(open, d))
  BY OpenAround
<1>5. ASSUME NEW d \in 1..Len(open), t \notin Closes
      PROVE  pos[d] \in Around(N)' /\ src'[pos[d]] = src[pos[d]] /\ Depth(pos[d])' = d
  <2>1. /\ pos[d] \in 1..Len(src) /\ src[pos[d]] \in Opens /\ Depth(pos[d]) = d
        /\ \A q \in pos[d]..Len(src) : Depth(q) >= Depth(pos[d])
    BY <1>4 DEF Around
  <2>2. pos[d] \in 1..N /\ pos[d] \in 0..Len(src)
    BY <1>1, <2>1
  <2>3. ASSUME NEW q \in pos[d]..N PROVE Depth(q)' >= d
    <3>1. CASE q = N
      BY <1>1, <1>3, <1>5, <3>1 DEF Weight
    <3>2. CASE q # N
      <4>1. q \in pos[d]..Len(src) /\ q \in 0..Len(src)
        BY <1>1, <2>1, <3>2
      <4> QED
        BY <1>3, <2>1, <4>1
    <3> QED
      BY <3>1, <3>2
  <2>4. src'[pos[d]] \in Opens /\ Depth(pos[d])' = d
    BY <1>2, <1>3, <2>1, <2>2
  <2> QED
    BY <1>2, <2>1, <2>2, <2>3, <2>4 DEF Around
<1>6. ASSUME t \in Closes \cup {"else", "while", "of"}
      PROVE  \E n \in 1..Len(open) : n = Len(open) /\ src[pos[n]] \in Starts(t)
  <2>1. open # <<>> /\ Head(open) \in Wants(t)
    BY <1>6 DEF Fits, Inside
  <2>2. PICK n : n = Len(open)
    OBVIOUS
  <2>3. n \in 1..Len(open) /\ Head(open) = Up(open, n)
    BY <1>1, <2>1, <2>2, PopFacts
  <2> QED
    BY <1>4, <1>6, <2>1, <2>2, <2>3, StartsSource
<1>7. ASSUME t \in Closes PROVE \E i \in 1..(N - 1) : Ends(i, N)' /\ src'[i] \in Starts(t)
  <2>1. PICK n \in 1..Len(open) : n = Len(open) /\ src[pos[n]] \in Starts(t)
    BY <1>6, <1>7
  <2>2. pos[n] \in 1..Len(src)
    BY <1>1 DEF Hist
  <2>3. PICK i : i = pos[n]
    OBVIOUS
  <2>4. Len(open) >= 1
    BY <1>1, <2>1
  <2>5. Ends(i, N)'
    BY <1>1, <1>7, <2>1, <2>3, <2>4, TopCloses
  <2>6. i \in 1..(N - 1)
    BY <1>1, <2>2, <2>3
  <2> QED
    BY <1>2, <2>1, <2>2, <2>3, <2>5, <2>6
<1>8. ASSUME t \in {"else", "while", "of"}
      PROVE  \E i \in Around(N)' : /\ src'[i] \in Starts(t)
                                   /\ Depth(i)' = Depth(N)' - Weight(t)
  <2>1. PICK n \in 1..Len(open) : n = Len(open) /\ src[pos[n]] \in Starts(t)
    BY <1>6, <1>8
  <2>2. t \notin Closes
    BY <1>8 DEF Closes
  <2>3. pos[n] \in Around(N)' /\ src'[pos[n]] = src[pos[n]] /\ Depth(pos[n])' = n
    BY <1>5, <2>2
  <2>4. Depth(N)' - Weight(t) = n
    BY <1>1, <1>3, <2>1 DEF Weight
  <2> QED
    BY <2>1, <2>3, <2>4
<1>9. ASSUME t = "leave" PROVE \E i \in Around(N)' : src'[i] \in Starts(t)
  <2>1. \E i \in 1..Len(open) : open[i] \in Loops
    BY <1>9 DEF Fits
  <2>2. PICK d \in 1..Len(open) : Up(open, d) \in Loops
    BY <2>1, InnermostLoop
  <2>3. t \notin Closes
    BY <1>9 DEF Closes
  <2> QED
    BY <1>4, <1>5, <1>9, <2>2, <2>3, StartsSource
<1>10. ASSUME t = "exit", NEW i \in Around(N)' PROVE src'[i] \notin Loops \cup {"case", "of"}
  <2> SUFFICES ASSUME src'[i] \in Loops \cup {"case", "of"} PROVE FALSE
    OBVIOUS
  <2>1. t \notin Opens /\ t \notin Closes
    BY <1>10 DEF Opens, Closes
  <2>2. i \in 1..N /\ src'[i] \in Opens /\ \A q \in i..N : Depth(q)' >= Depth(i)'
    BY <1>10 DEF Around
  <2>3. i # N
    BY <1>2, <2>1, <2>2
  <2>4. i \in 1..Len(src) /\ \A q \in i..Len(src) : q \in i..N /\ q \in 0..Len(src)
    BY <1>1, <2>2, <2>3
  <2>5. i \in 0..Len(src) /\ src'[i] = src[i]
    BY <1>2, <2>4
  <2>6. i \in Around(Len(src))
    BY <1>3, <2>2, <2>4, <2>5 DEF Around
  <2>7. PICK d \in 1..Len(open) : pos[d] = i
    BY <2>6, OpenAround
  <2>8. src[i] \in Source(Up(open, d)) /\ Up(open, d) \in OpenKinds
    <3>1. Len(open) + 1 - d \in 1..Len(open)
      BY <1>1
    <3>2. open[Len(open) + 1 - d] \in OpenKinds
      BY <1>1, <3>1
    <3> QED
      BY <1>4, <2>7, <3>2 DEF Up
  <2>9. Up(open, d) = src[i]
    BY <2>5, <2>8, StartsSource
  <2>10. \A e \in 1..Len(open) : Up(open, e) \notin Loops \cup {"case"}
    <3> TAKE e \in 1..Len(open)
    <3>1. Len(open) + 1 - e \in 1..Len(open)
      BY <1>1
    <3>2. open[Len(open) + 1 - e] \notin {"do", "?do", "case"}
      BY <1>10, <3>1 DEF Fits
    <3> QED
      BY <3>2 DEF Up, Loops
  <2>11. Up(open, d) = "of"
    BY <2>5, <2>9, <2>10
  <2>12. FrameFits(open, src, at, cs, B, pos, d)
    BY <1>1 DEF Shaped
  <2>13. d > 1 /\ Up(open, d - 1) = "case"
    BY <2>11, <2>12 DEF FrameFits
  <2>14. d - 1 \in 1..Len(open)
    BY <1>1, <2>13
  <2> QED
    BY <2>10, <2>13, <2>14
<1>11. t \in {"else", "while"} => Weight(t) = 0
  BY DEF Weight, Opens, Closes
<1>12. Weight("of") = 1
  BY DEF Weight, Opens
<1>13. Depth(N)' \in Int
  BY <1>1, <1>3 DEF Weight
<1>14. t \in {"else", "while"} =>
         \E i \in Around(N)' : Depth(i)' = Depth(N)' /\ src'[i] \in Starts(t)
  BY <1>8, <1>11, <1>13
<1>15. t = "of" => \E i \in Around(N)' : Depth(i)' = Depth(N)' - 1 /\ src'[i] \in Starts(t)
  BY <1>8, <1>12
<1>16. t = "exit" => \A i \in Around(N)' : src'[i] \notin Loops \cup {"case", "of"}
  BY <1>10
<1> QED
  BY <1>2, <1>7, <1>9, <1>14, <1>15, <1>16 DEF Housed

-----------------------------------------------------------------------------
(* What holds of a word whatever has been abandoned before it.             *)

Static == at[1] = 1 /\ (mode # "aborted" => Spelled /\ AllHoused)

LEMMA HousedQuiet ==
  ASSUME AllHoused, UNCHANGED src
  PROVE  AllHoused'
<1>1. \A i : Depth(i)' = Depth(i)
  BY DEF Depth, Count
<1>2. \A i, k : Ends(i, k)' <=> Ends(i, k)
  BY <1>1 DEF Ends
<1>3. \A k : Around(k)' = Around(k)
  BY <1>1 DEF Around
<1>4. \A k : Housed(k)' <=> Housed(k)
  BY <1>1, <1>2, <1>3 DEF Housed
<1> QED
  BY <1>4 DEF AllHoused

LEMMA StaticToken ==
  ASSUME NEW b, WordInv(b), Static, CompileToken
  PROVE  Static'
<1>0. at'[1] = 1
  <2>1. PICK t \in AllTokens : Spelt(t)
    BY TokenSpelt
  <2>2. Types /\ Enters(t) /\ Len(src) \in Nat
    BY <2>1, TypedLengths DEF WordInv, Spelt
  <2>3. 1 \in 1..(Len(src) + 1)
    BY <2>2
  <2> QED
    BY <2>2, <2>3, AtFacts DEF Static
<1> SUFFICES ASSUME mode' # "aborted" PROVE Spelled' /\ AllHoused'
  BY <1>0 DEF Static
<1>1. PICK t \in AllTokens : Spelt(t)
  BY TokenSpelt
<1>2. PICK pos, B : Word(b, pos, B)
  BY DEF WordInv
<1>3. Types /\ Enters(t) /\ Fits(t) /\ mode = "compile" /\ Extended(t) /\ Len(src) \in Nat
  BY <1>1, TypedLengths DEF WordInv, Spelt, Enters
<1>4. Spelled /\ AllHoused
  BY <1>3 DEF Static
<1>5. mode' = "compile"
  BY <1>3 DEF CompileToken, Work, Exit, If, Unless, CompileIf, Else, CompileElse, Then,
     Begin, Until, Again, While, Repeat, Case, Of, EndOf, EndCase, Do, QDo, Leave, Loop,
     PlusLoop
<1>6. Spelled'
  BY <1>1, <1>3, <1>4, <1>5, SpelledStep
<1>7. PICK N : N = Len(src) + 1
  OBVIOUS
<1>8. Housed(N)'
  BY <1>2, <1>3, <1>7, HousedNew
<1>9. \A k \in 1..Len(src) : Housed(k)'
  BY <1>3, <1>4, HousedStays DEF AllHoused
<1>10. Len(src') = N
  BY <1>3, <1>7, SrcFacts
<1>11. \A k \in 1..N : k = N \/ k \in 1..Len(src)
  BY <1>3, <1>7
<1>12. AllHoused'
  BY <1>8, <1>9, <1>10, <1>11 DEF AllHoused
<1> QED
  BY <1>6, <1>12

LEMMA StaticSemicolon ==
  ASSUME Types, Static, Semicolon
  PROVE  Static'
<1>1. /\ mode = "compile" /\ code' = Append(code, Op("exit")) /\ mode' = "ready"
      /\ src' = src /\ at' = at
  BY DEF Semicolon
<1>2. Spelled /\ AllHoused
  BY <1>1 DEF Static
<1>3. AllHoused'
  BY <1>1, <1>2, HousedQuiet
<1>4. /\ Len(src) \in Nat /\ Len(code) \in Nat /\ Len(at) = Len(src) + 1
      /\ at[Len(at)] = Len(code) + 1 /\ code \in Seq(CodeCells)
      /\ \A k \in 1..Len(at) : at[k] <= Len(code) + 1
      /\ \A j, k \in 1..Len(at) : j <= k => at[j] <= at[k]
  BY <1>1, TypedLengths DEF Types
<1>5. at \in Seq(Nat) /\ src \in Seq(AllTokens)
  BY DEF Types
<1>6. /\ Len(code') = Len(code) + 1 /\ code'[Len(code) + 1].op = "exit"
      /\ \A a \in 1..Len(code) : code'[a] = code[a]
  <2>1. "exit" \in Ops
    BY DEF Ops
  <2>2. PICK x : x = Op("exit")
    OBVIOUS
  <2>3. x \in CodeCells /\ x.op = "exit"
    BY <2>1, <2>2, CellFacts
  <2>4. code' = Append(code, x)
    BY <1>1, <2>2
  <2> QED
    BY <1>4, <2>3, <2>4
<1>7. Len(code') = at'[Len(src') + 1] /\ code'[Len(code')].op = "exit"
  BY <1>1, <1>4, <1>6
<1>8. ASSUME NEW i \in 1..Len(src), NEW k \in 1..Len(Spelling(src[i]))
      PROVE  code'[at[i] + k - 1].op = Spelling(src[i])[k]
  <2>1. /\ at[1] = 1 /\ at[i + 1] = at[i] + Len(Spelling(src[i]))
        /\ code[at[i] + k - 1].op = Spelling(src[i])[k]
    BY <1>2 DEF Spelled
  <2>2. src[i] \in AllTokens
    BY <1>5
  <2>3. Len(Spelling(src[i])) \in Nat
    BY <2>2, SpellingLength
  <2>4. 1 \in 1..Len(at) /\ i \in 1..Len(at) /\ i + 1 \in 1..Len(at) /\ 1 <= i
    BY <1>4
  <2>5. at[i] \in Nat /\ at[i + 1] \in Nat
    BY <1>5, <2>4
  <2>6. at[i] >= 1 /\ at[i + 1] <= Len(code) + 1
    BY <1>4, <2>1, <2>4
  <2>7. at[i] + k - 1 \in 1..Len(code)
    BY <1>4, <2>1, <2>3, <2>5, <2>6
  <2> QED
    BY <1>6, <2>1, <2>7
<1>9. Spelled'
  BY <1>1, <1>2, <1>7, <1>8 DEF Spelled
<1> QED
  BY <1>1, <1>3, <1>9 DEF Static

LEMMA StaticNew ==
  ASSUME NewWord
  PROVE  Static'
<1>1. Len(src') = 0 /\ at'[1] = 1 /\ mode' = "compile"
  BY DEF NewWord
<1>2. Spelled' /\ AllHoused'
  BY <1>1 DEF Spelled, AllHoused
<1> QED
  BY <1>1, <1>2 DEF Static

LEMMA StaticStep ==
  ASSUME NEW b, WordInv(b), Static, CFNext
  PROVE  Static'
<1>1. Types
  BY DEF WordInv
<1>2. CASE CompileToken
  BY <1>2, StaticToken
<1>3. CASE Semicolon
  BY <1>1, <1>3, StaticSemicolon
<1>4. CASE Abandon \/ Forget \/ Restart
  <2>1. NewWord
    BY <1>4 DEF Abandon, Forget, Restart
  <2> QED
    BY <2>1, StaticNew
<1> QED
  BY <1>2, <1>3, <1>4 DEF CFNext

LEMMA StaticQuiet ==
  ASSUME Static, UNCHANGED cfVars
  PROVE  Static'
<1>1. src' = src /\ at' = at /\ mode' = mode /\ code' = code
  BY DEF cfVars
<1> QED
  BY <1>1, HousedQuiet DEF Static, Spelled

-----------------------------------------------------------------------------
(* What each token does to the loops and the items of CASE around it.      *)

Same(m, k) == Nested(m) = Nested(k) /\ Items(m) = Items(k)

LEMMA OpenCounts ==
  ASSUME NEW m \in Nat, NEW kinds
  PROVE  IsFiniteSet(Open(kinds, m)) /\ Cardinality(Open(kinds, m)) \in Nat
<1>1. IsFiniteSet(1..m)
  BY FS_Interval
<1>2. Open(kinds, m) \subseteq 1..m
  BY DEF Open, Around
<1>3. IsFiniteSet(Open(kinds, m))
  BY <1>1, <1>2, FS_Subset
<1> QED
  BY <1>3, FS_CardinalityType

LEMMA CountsTyped ==
  ASSUME NEW m \in Nat
  PROVE  Nested(m) \in Nat /\ Items(m) \in Int
<1>1. /\ Cardinality(Open(Loops, m)) \in Nat /\ Cardinality(Open({"case"}, m)) \in Nat
      /\ Cardinality(Open({"of"}, m)) \in Nat
  BY OpenCounts
<1> QED
  BY <1>1 DEF Nested, Items

LEMMA OneMore ==
  ASSUME NEW m \in Nat, NEW k \in Nat, NEW x, Around(m) = Around(k) \cup {x}, x \notin Around(k)
  PROVE  /\ Nested(m) = Nested(k) + (IF src[x] \in Loops THEN 1 ELSE 0)
         /\ Items(m) = Items(k) + (IF src[x] = "case" THEN 1 ELSE 0)
                                - (IF src[x] = "of" THEN 1 ELSE 0)
<1>1. ASSUME NEW kinds
      PROVE  Cardinality(Open(kinds, m))
               = Cardinality(Open(kinds, k)) + (IF src[x] \in kinds THEN 1 ELSE 0)
  <2>1. IsFiniteSet(Open(kinds, k)) /\ Cardinality(Open(kinds, k)) \in Nat
    BY OpenCounts
  <2>2. CASE src[x] \in kinds
    <3>1. Open(kinds, m) = Open(kinds, k) \cup {x} /\ x \notin Open(kinds, k)
      BY <2>2 DEF Open
    <3> QED
      BY <2>1, <2>2, <3>1, FS_AddElement
  <2>3. CASE src[x] \notin kinds
    <3>1. Open(kinds, m) = Open(kinds, k)
      BY <2>3 DEF Open
    <3> QED
      BY <2>1, <2>3, <3>1
  <2> QED
    BY <2>2, <2>3
<1>2. /\ Cardinality(Open({"case"}, k)) \in Nat /\ Cardinality(Open({"of"}, k)) \in Nat
  BY OpenCounts
<1>3. /\ Cardinality(Open({"case"}, m))
           = Cardinality(Open({"case"}, k)) + (IF src[x] = "case" THEN 1 ELSE 0)
      /\ Cardinality(Open({"of"}, m))
           = Cardinality(Open({"of"}, k)) + (IF src[x] = "of" THEN 1 ELSE 0)
  BY <1>1
<1> QED
  BY <1>1, <1>2, <1>3 DEF Nested, Items

LEMMA SameAround ==
  ASSUME NEW m, NEW k, Around(m) = Around(k)
  PROVE  Same(m, k)
BY DEF Same, Nested, Items, Open

(* A complete word: every structure is closed.                             *)
Whole ==
  /\ Types /\ mode = "ready" /\ Right /\ Spelled /\ AllHoused
  /\ \A i \in 1..Len(src) : src[i] \in Opens => \E c \in 1..Len(src) : Ends(i, c)

(* What token k adds to the loops around what follows, and to the items.   *)
LGain(t) == IF t \in Loops THEN 1 ELSE IF t \in {"loop", "+loop"} THEN -1 ELSE 0
IGain(t) == IF t \in {"case", "endof"} THEN 1 ELSE IF t \in {"of", "endcase"} THEN -1 ELSE 0

LEMMA Gains ==
  ASSUME Types, AllHoused, NEW k \in 1..Len(src)
  PROVE  Nested(k) = Nested(k - 1) + LGain(src[k]) /\ Items(k) = Items(k - 1) + IGain(src[k])
<1>1. Len(src) \in Nat /\ src[k] \in AllTokens
  BY TypedLengths DEF Types
<1>2. k \in Nat /\ k - 1 \in Nat
  BY <1>1
<1>3. Nested(k - 1) \in Nat /\ Items(k - 1) \in Int /\ Nested(k) \in Nat /\ Items(k) \in Int
  BY <1>2, CountsTyped
<1>4. CASE src[k] \in Opens
  <2>1. Around(k) = Around(k - 1) \cup {k} /\ k \notin Around(k - 1)
    BY <1>1, <1>4, AroundOpens
  <2>2. /\ Nested(k) = Nested(k - 1) + (IF src[k] \in Loops THEN 1 ELSE 0)
        /\ Items(k) = Items(k - 1) + (IF src[k] = "case" THEN 1 ELSE 0)
                                   - (IF src[k] = "of" THEN 1 ELSE 0)
    BY <1>2, <2>1, OneMore
  <2> QED
    BY <1>3, <1>4, <2>2 DEF Opens, Loops, LGain, IGain
<1>5. CASE src[k] \in Closes
  <2>1. PICK i \in 1..(k - 1) : Ends(i, k) /\ src[i] \in Starts(src[k])
    BY <1>5 DEF AllHoused, Housed
  <2>2. i \in 1..Len(src) /\ i - 1 \in Nat
    BY <1>1, <2>1
  <2>3. Starts(src[k]) \subseteq Opens
    BY <1>5 DEF Starts, Closes, Opens, Loops
  <2>4. Around(k) = Around(i - 1) /\ Around(k - 1) = Around(i)
    BY <1>1, <2>1, <2>2, <2>3, AroundCloses
  <2>5. Around(i) = Around(i - 1) \cup {i} /\ i \notin Around(i - 1)
    BY <1>1, <2>1, <2>2, <2>3, AroundOpens
  <2>6. /\ Nested(k - 1) = Nested(k) + (IF src[i] \in Loops THEN 1 ELSE 0)
        /\ Items(k - 1) = Items(k) + (IF src[i] = "case" THEN 1 ELSE 0)
                                   - (IF src[i] = "of" THEN 1 ELSE 0)
    BY <1>2, <2>4, <2>5, OneMore
  <2> QED
    BY <1>3, <1>5, <2>1, <2>6, SMTT(30) DEF Closes, Loops, LGain, IGain, Starts
<1>6. CASE src[k] \notin Opens /\ src[k] \notin Closes
  <2>1. Around(k) = Around(k - 1)
    BY <1>1, <1>6, AroundStays
  <2>2. Same(k, k - 1)
    BY <2>1, SameAround
  <2>3. LGain(src[k]) = 0 /\ IGain(src[k]) = 0
    BY <1>6 DEF LGain, IGain, Opens, Closes, Loops
  <2> QED
    BY <1>3, <2>2, <2>3 DEF Same
<1> QED
  BY <1>4, <1>5, <1>6

LEMMA GainNone ==
  ASSUME Types, AllHoused, NEW k \in 1..Len(src), LGain(src[k]) = 0, IGain(src[k]) = 0
  PROVE  Same(k, k - 1)
<1>1. Len(src) \in Nat
  BY TypedLengths
<1>2. k - 1 \in Nat
  BY <1>1
<1>3. Nested(k - 1) \in Nat /\ Items(k - 1) \in Int
  BY <1>2, CountsTyped
<1>4. Nested(k) = Nested(k - 1) + 0 /\ Items(k) = Items(k - 1) + 0
  BY Gains
<1> QED
  BY <1>3, <1>4 DEF Same

-----------------------------------------------------------------------------
(* Inside a structure there are never fewer items than ahead of it, but    *)
(* for the one that OF has taken.                                          *)

Floor(i) == Items(i - 1) - (IF src[i] = "of" THEN 1 ELSE 0)
High(m)  == Items(m) >= 0 /\ \A i \in Around(m) : Items(m) >= Floor(i)

LEMMA AroundNone == Nested(0) = 0 /\ Items(0) = 0 /\ Around(0) = {}
<1>1. Around(0) = {}
  BY DEF Around
<1>2. \A kinds : Open(kinds, 0) = {}
  BY <1>1 DEF Open
<1>3. Cardinality({}) = 0
  BY FS_EmptySet
<1>4. Nested(0) = 0
  BY <1>2, <1>3 DEF Nested
<1>5. Items(0) = Cardinality({}) - Cardinality({})
  BY <1>2 DEF Items
<1> QED
  BY <1>1, <1>3, <1>4, <1>5

LEMMA HighOf ==
  ASSUME Types, AllHoused, NEW k \in 1..Len(src), src[k] = "of",
         \A q \in 0..(k - 1) : High(q)
  PROVE  High(k)
<1>1. Len(src) \in Nat /\ k \in Nat /\ k - 1 \in Nat /\ Housed(k)
  BY TypedLengths DEF AllHoused
<1>2. PICK y \in Around(k) : Depth(y) = Depth(k) - 1 /\ src[y] = "case"
  BY <1>1 DEF Housed, Starts
<1>3. Around(k) = Around(k - 1) \cup {k} /\ k \notin Around(k - 1)
  BY <1>1, AroundOpens DEF Opens
<1>4. y \in Around(k - 1)
  BY <1>2, <1>3
<1>5. y \in 1..(k - 1) /\ \A q \in y..(k - 1) : Depth(q) >= Depth(y)
  BY <1>4 DEF Around
<1>6. Depth(k - 1) = Depth(y)
  <2>1. Depth(k) = Depth(k - 1) + 1
    BY <1>1, DepthStep DEF Weight, Opens
  <2>2. Depth(k - 1) \in Int
    BY <1>1, DepthType
  <2> QED
    BY <1>2, <2>1, <2>2
<1>7. Around(k - 1) = Around(y)
  <2>1. y \in Nat /\ y <= k - 1 /\ k - 1 <= Len(src)
    BY <1>1, <1>5
  <2> QED
    BY <1>1, <1>5, <1>6, <2>1, AroundLevel
<1>8. y \in 1..Len(src) /\ y - 1 \in 0..(k - 1) /\ y - 1 \in Nat
  BY <1>1, <1>5
<1>9. Around(y) = Around(y - 1) \cup {y}
  BY <1>1, <1>2, <1>8, AroundOpens DEF Opens
<1>10. Same(k - 1, y)
  BY <1>7, SameAround
<1>11. Items(k - 1) = Items(y - 1) + 1 /\ Items(k) = Items(y - 1)
  <2>1. IGain("case") = 1 /\ IGain("of") = -1
    BY DEF IGain
  <2>2. Items(y) = Items(y - 1) + 1
    BY <1>2, <1>8, <2>1, Gains
  <2>3. Items(k) = Items(k - 1) + (-1)
    BY <2>1, Gains
  <2>4. Items(k - 1) = Items(y)
    BY <1>10 DEF Same
  <2>5. Items(y - 1) \in Int
    BY <1>8, CountsTyped
  <2> QED
    BY <2>2, <2>3, <2>4, <2>5
<1>12. Items(y - 1) \in Int
  BY <1>8, CountsTyped
<1>13. High(y - 1)
  BY <1>8
<1>14. Floor(y) = Items(y - 1) /\ Floor(k) = Items(y - 1)
  BY <1>2, <1>11, <1>12 DEF Floor
<1>15. ASSUME NEW i \in Around(k) PROVE Items(k) >= Floor(i)
  <2>1. i = k \/ i = y \/ i \in Around(y - 1)
    BY <1>3, <1>7, <1>9
  <2>2. Items(y - 1) >= Items(y - 1)
    BY <1>12
  <2> QED
    BY <1>11, <1>13, <1>14, <2>1, <2>2 DEF High
<1> QED
  BY <1>11, <1>13, <1>15 DEF High

LEMMA ItemsHigh ==
  ASSUME Types, AllHoused, NEW m \in 0..Len(src)
  PROVE  High(m)
<1>1. Len(src) \in Nat
  BY TypedLengths
<1> DEFINE S == {q \in 0..Len(src) : ~High(q)}
<1> SUFFICES ASSUME S # {} PROVE FALSE
  OBVIOUS
<1>2. S \in SUBSET Nat
  BY <1>1
<1>3. PICK k \in S : \A y \in S : k <= y
  BY <1>2, LeastNat
<1>4. k \in 0..Len(src) /\ ~High(k)
  OBVIOUS
<1>5. ASSUME NEW q \in 0..(k - 1) PROVE High(q)
  <2>1. q \in 0..Len(src) /\ ~(k <= q)
    BY <1>1, <1>4
  <2> QED
    BY <1>3, <2>1
<1>6. k # 0
  <2>1. 0 >= 0
    OBVIOUS
  <2> QED
    BY <1>4, <2>1, AroundNone DEF High
<1>7. k \in 1..Len(src) /\ k - 1 \in Nat /\ k - 1 \in 0..(k - 1)
  BY <1>1, <1>4, <1>6
<1>8. Items(k - 1) \in Int
  BY <1>7, CountsTyped
<1>9. CASE src[k] = "of"
  BY <1>4, <1>5, <1>7, <1>9, HighOf
<1>10. CASE src[k] \in Closes
  <2>1. PICK i \in 1..(k - 1) : Ends(i, k) /\ src[i] \in Starts(src[k])
    BY <1>7, <1>10 DEF AllHoused, Housed
  <2>2. i \in 1..Len(src) /\ i - 1 \in 0..(k - 1)
    BY <1>7, <2>1
  <2>3. Starts(src[k]) \subseteq Opens
    BY <1>10 DEF Starts, Closes, Opens, Loops
  <2>4. Around(k) = Around(i - 1)
    BY <1>1, <1>7, <2>1, <2>2, <2>3, AroundCloses
  <2>5. Items(k) = Items(i - 1)
    BY <2>4, SameAround DEF Same
  <2>6. High(i - 1)
    BY <1>5, <2>2
  <2> QED
    BY <1>4, <2>4, <2>5, <2>6 DEF High
<1>11. CASE src[k] \in Opens \ {"of"}
  <2>1. Around(k) = Around(k - 1) \cup {k}
    BY <1>1, <1>7, <1>11, AroundOpens
  <2>2. Items(k) = Items(k - 1) + IGain(src[k]) /\ IGain(src[k]) \in {0, 1}
    BY <1>7, <1>11, Gains DEF IGain, Opens
  <2>3. Items(k) >= Items(k - 1) /\ Items(k) \in Int
    BY <1>8, <2>2
  <2>4. High(k - 1)
    BY <1>5, <1>7
  <2>5. Floor(k) = Items(k - 1)
    BY <1>8, <1>11 DEF Floor
  <2>6. ASSUME NEW i \in Around(k) PROVE Items(k) >= Floor(i)
    <3>1. CASE i = k
      BY <2>3, <2>5, <3>1
    <3>2. CASE i \in Around(k - 1)
      <4>1. i - 1 \in Nat
        BY <1>7, <3>2 DEF Around
      <4>2. Floor(i) \in Int
        <5>1. Items(i - 1) \in Int
          BY <4>1, CountsTyped
        <5> QED
          BY <5>1 DEF Floor
      <4>3. Items(k - 1) >= Floor(i)
        BY <2>4, <3>2 DEF High
      <4> QED
        BY <1>8, <2>3, <4>2, <4>3
    <3> QED
      BY <2>1, <3>1, <3>2
  <2>7. Items(k) >= 0
    <3>1. Items(k - 1) >= 0
      BY <2>4 DEF High
    <3> QED
      BY <1>8, <2>3, <3>1
  <2> QED
    BY <1>4, <2>6, <2>7 DEF High
<1>12. CASE src[k] \notin Opens /\ src[k] \notin Closes
  <2>1. Around(k) = Around(k - 1)
    BY <1>1, <1>7, <1>12, AroundStays
  <2>2. Items(k) = Items(k - 1)
    BY <2>1, SameAround DEF Same
  <2>3. High(k - 1)
    BY <1>5, <1>7
  <2> QED
    BY <1>4, <2>1, <2>2, <2>3 DEF High
<1> QED
  BY <1>9, <1>10, <1>11, <1>12

-----------------------------------------------------------------------------
(* Where a branch leads, as many loops and items are around what follows   *)
(* as before the branch.  LEAVE is the exception: it drops the loop.       *)

LEMMA SameChain ==
  /\ \A m, k : Same(m, k) => Same(k, m)
  /\ \A m, k, j : Same(m, k) /\ Same(k, j) => Same(m, j)
BY DEF Same

(* Structure i is still open at token j: it is closed behind it, and what  *)
(* it owes there leads to its end.                                         *)
LEMMA ClosedBehind ==
  ASSUME Whole, NEW j \in 1..Len(src), NEW i \in Around(j)
  PROVE  \E c \in 1..Len(src) :
           /\ Ends(i, c) /\ j < c /\ j \in i..c /\ Settled(i, c)
           /\ Around(c) = Around(i - 1) /\ i \in 1..Len(src)
           /\ Depth(j) = Depth(i) => Around(j) = Around(i)
<1>1. Len(src) \in Nat
  BY TypedLengths DEF Whole
<1>2. /\ i \in 1..j /\ i \in 1..Len(src) /\ src[i] \in Opens
      /\ \A q \in i..j : Depth(q) >= Depth(i)
  BY <1>1 DEF Around
<1>3. PICK c \in 1..Len(src) : Ends(i, c)
  BY <1>2 DEF Whole
<1>4. i < c /\ Depth(c) < Depth(i)
  BY <1>3 DEF Ends
<1>5. Depth(c) \in Int /\ Depth(i) \in Int
  BY <1>2, DepthType
<1>6. c \notin i..j
  BY <1>2, <1>4, <1>5
<1>7. j < c /\ j \in i..c
  BY <1>2, <1>4, <1>6
<1>8. Settled(i, c)
  BY <1>2, <1>3 DEF Whole, Right
<1>9. Around(c) = Around(i - 1)
  BY <1>1, <1>2, <1>3, AroundCloses
<1>10. Depth(j) = Depth(i) => Around(j) = Around(i)
  BY <1>1, <1>2, AroundLevel
<1> QED
  BY <1>2, <1>3, <1>7, <1>8, <1>9, <1>10

LEMMA BranchesLand ==
  ASSUME Whole, NEW j \in 1..Len(src), src[j] \in Branching
  PROVE  \E m \in 1..Len(src) :
           /\ Led(Site(j), After(m))
           /\ src[j] # "leave" => Same(m, j - 1)
           /\ src[j] = "leave" => Items(m) <= Items(j - 1)
<1>1. Types /\ Len(src) \in Nat /\ AllHoused /\ Housed(j) /\ j - 1 \in Nat
  BY TypedLengths DEF Whole, AllHoused
<1>2. ASSUME src[j] \in Opens PROVE j \in Around(j)
  <2>1. j..j = {j} /\ Depth(j) \in Int
    BY DepthType
  <2> QED
    BY <1>2, <2>1 DEF Around
<1>3. CASE src[j] \in {"of", "?do"}
  <2>1. src[j] \in Opens /\ src[j] \in Forward /\ src[j] # "leave"
    BY <1>3 DEF Opens, Forward
  <2>2. PICK c \in 1..Len(src) :
          Settled(j, c) /\ j \in j..c /\ Around(c) = Around(j - 1)
    BY <1>2, <2>1, ClosedBehind
  <2>3. Led(Site(j), After(c))
    BY <2>1, <2>2 DEF Settled, AheadLeads
  <2>4. Same(c, j - 1)
    BY <2>2, SameAround
  <2> QED
    BY <2>1, <2>3, <2>4
<1>4. CASE src[j] \in {"if", "unless"}
  <2>1. src[j] \in Opens /\ LGain(src[j]) = 0 /\ IGain(src[j]) = 0
    BY <1>4 DEF Opens, LGain, IGain, Loops
  <2>2. PICK c \in 1..Len(src) :
          Ends(j, c) /\ Settled(j, c) /\ Around(c) = Around(j - 1)
    BY <1>2, <2>1, ClosedBehind
  <2>3. \/ Led(Site(j), After(c))
        \/ \E k \in j..c : Elses(j, c) = {k} /\ Led(Site(j), After(k))
    BY <1>4, <2>2 DEF Settled, IfLeads
  <2>4. CASE Led(Site(j), After(c))
    <3>1. Same(c, j - 1)
      BY <2>2, SameAround
    <3> QED
      BY <1>4, <2>4, <3>1
  <2>5. ASSUME NEW k \in j..c, Elses(j, c) = {k}, Led(Site(j), After(k))
        PROVE  k \in 1..Len(src) /\ Same(k, j - 1)
    <3>1. Depth(k) = Depth(j)
      BY <2>5 DEF Elses
    <3>2. Depth(c) < Depth(j) /\ \A q \in j..(c - 1) : Depth(q) >= Depth(j)
      BY <2>2 DEF Ends
    <3>3. Depth(j) \in Int /\ Depth(c) \in Int
      BY DepthType
    <3>4. k # c
      BY <3>1, <3>2, <3>3
    <3>5. k \in 1..Len(src) /\ j <= k /\ \A q \in j..k : q \in j..(c - 1)
      BY <1>1, <2>5, <3>4
    <3>6. \A q \in j..k : Depth(q) >= Depth(j)
      BY <3>2, <3>5
    <3>7. j \in Nat /\ k \in Nat /\ k <= Len(src)
      BY <3>5
    <3>8. Around(k) = Around(j)
      BY <1>1, <3>1, <3>5, <3>6, <3>7, AroundLevel
    <3>9. Same(k, j) /\ Same(j, j - 1)
      BY <1>1, <2>1, <3>8, SameAround, GainNone
    <3> QED
      BY <3>5, <3>9, SameChain
  <2> QED
    BY <1>4, <2>3, <2>4, <2>5
<1>5. CASE src[j] \in {"else", "while"}
  <2>1. src[j] \in Forward /\ src[j] # "leave" /\ LGain(src[j]) = 0 /\ IGain(src[j]) = 0
    BY <1>5 DEF Forward, LGain, IGain, Loops
  <2>2. PICK i \in Around(j) : Depth(i) = Depth(j) /\ src[i] \in Starts(src[j])
    BY <1>1, <1>5 DEF Housed
  <2>3. LGain(src[i]) = 0 /\ IGain(src[i]) = 0
    BY <1>5, <2>2 DEF Starts, LGain, IGain, Loops
  <2>4. PICK c \in 1..Len(src) :
          /\ Settled(i, c) /\ j \in i..c /\ Around(c) = Around(i - 1)
          /\ Around(j) = Around(i) /\ i \in 1..Len(src)
    BY <2>2, ClosedBehind
  <2>5. Led(Site(j), After(c))
    BY <2>1, <2>2, <2>4 DEF Settled, AheadLeads
  <2>6. Same(c, i - 1) /\ Same(i, i - 1) /\ Same(j, i) /\ Same(j, j - 1)
    BY <1>1, <2>1, <2>3, <2>4, SameAround, GainNone
  <2>7. Same(c, j - 1)
    BY <2>6, SameChain
  <2> QED
    BY <2>1, <2>5, <2>7
<1>6. CASE src[j] = "endof"
  <2>1. PICK x \in 1..(j - 1) : Ends(x, j) /\ src[x] = "of"
    BY <1>1, <1>6 DEF Housed, Closes, Starts
  <2>2. x \in 1..Len(src) /\ src[x] \in Opens /\ Housed(x)
    BY <1>1, <2>1 DEF Opens, AllHoused
  <2>3. PICK y \in Around(x) : Depth(y) = Depth(x) - 1 /\ src[y] = "case"
    BY <2>1, <2>2 DEF Housed, Starts
  <2>4. /\ y \in 1..x /\ src[y] \in Opens /\ \A q \in y..x : Depth(q) >= Depth(y)
    BY <2>3 DEF Around
  <2>5. Depth(j) = Depth(x) - 1 /\ \A q \in x..(j - 1) : Depth(q) >= Depth(x)
    BY <1>1, <2>1, <2>2, AroundCloses DEF Ends
  <2>6. Depth(x) \in Int /\ Depth(y) \in Int
    BY <2>4, DepthType
  <2>7. \A q \in y..j : Depth(q) >= Depth(y)
    <3> TAKE q \in y..j
    <3>1. q \in y..x \/ q \in x..(j - 1) \/ q = j
      BY <2>1, <2>4
    <3>2. Depth(q) \in Int
      BY <2>4, DepthType
    <3> QED
      BY <2>3, <2>4, <2>5, <2>6, <3>1, <3>2
  <2>8. y \in Around(j) /\ y \in 1..Len(src)
    BY <1>1, <2>1, <2>4, <2>7 DEF Around
  <2>9. Depth(j) = Depth(y)
    BY <2>3, <2>5
  <2>10. PICK c \in 1..Len(src) :
           Settled(y, c) /\ j \in y..c /\ Around(c) = Around(y - 1) /\ Around(j) = Around(y)
    BY <2>8, <2>9, ClosedBehind
  <2>11. Led(Site(j), After(c))
    BY <1>6, <2>9, <2>10 DEF Settled, AheadLeads, Forward
  <2>12. Same(c, y - 1) /\ Same(j, y)
    BY <2>10, SameAround
  <2>13. /\ Nested(j) = Nested(j - 1) + 0 /\ Items(j) = Items(j - 1) + 1
         /\ Nested(y) = Nested(y - 1) + 0 /\ Items(y) = Items(y - 1) + 1
    <3>1. LGain("endof") = 0 /\ IGain("endof") = 1 /\ LGain("case") = 0 /\ IGain("case") = 1
      BY DEF LGain, IGain, Loops
    <3> QED
      BY <1>1, <1>6, <2>3, <2>8, <3>1, Gains
  <2>14. y - 1 \in Nat
    BY <2>4
  <2>15. /\ Nested(j - 1) \in Nat /\ Items(j - 1) \in Int
         /\ Nested(y - 1) \in Nat /\ Items(y - 1) \in Int
    BY <1>1, <2>14, CountsTyped
  <2>16. Nested(c) = Nested(y - 1) /\ Items(c) = Items(y - 1)
         /\ Nested(j) = Nested(y) /\ Items(j) = Items(y)
    BY <2>12 DEF Same
  <2>17. Nested(c) = Nested(j - 1) /\ Items(c) = Items(j - 1)
    <3> HIDE DEF Nested, Items
    <3> QED
      BY <2>13, <2>15, <2>16
  <2>18. Same(c, j - 1)
    BY <2>17 DEF Same
  <2> QED
    BY <1>6, <2>10, <2>11, <2>18
<1>7. CASE src[j] \in Back
  <2>1. src[j] \in Closes /\ Behind(src[j]) = 1 /\ Starts(src[j]) \subseteq {"begin", "do", "?do"}
    BY <1>7 DEF Back, Closes, Behind, Starts, Loops
  <2>2. PICK i \in 1..(j - 1) : Ends(i, j) /\ src[i] \in {"begin", "do", "?do"}
    BY <1>1, <2>1 DEF Housed
  <2>3. i \in 1..Len(src) /\ src[i] \in Opens
    BY <1>1, <2>2 DEF Opens
  <2>4. Settled(i, j)
    BY <2>2, <2>3 DEF Whole, Right
  <2>5. Led(Site(j), After(i))
    BY <2>1, <2>2, <2>4 DEF Settled, BackLeads, Site
  <2>6. Around(j - 1) = Around(i)
    BY <1>1, <2>2, <2>3, AroundCloses
  <2>7. Same(i, j - 1)
    BY <2>6, SameAround
  <2>8. src[j] # "leave"
    BY <1>7 DEF Back
  <2> QED
    BY <2>3, <2>5, <2>7, <2>8
<1>8. CASE src[j] = "leave"
  <2>1. PICK i \in Around(j) : src[i] \in Loops
    BY <1>1, <1>8 DEF Housed, Starts
  <2>2. PICK c \in 1..Len(src) : Settled(i, c) /\ j \in i..c
    BY <2>1, ClosedBehind
  <2>3. PICK x : IsInnermost(x, Loops, j)
    BY <1>8, <2>1, <2>2 DEF Settled, LeavesLead
  <2>4. x \in 1..(j - 1) /\ src[x] \in Loops /\ Encloses(x, j)
    BY <2>3 DEF IsInnermost
  <2>5. x \in 1..Len(src) /\ src[x] \in Opens
    BY <1>1, <2>4 DEF Loops, Opens
  <2>6. PICK e \in 1..Len(src) : Ends(x, e)
    BY <2>5 DEF Whole
  <2>7. Closed(x) /\ Closer(x) = e
    BY <1>1, <2>5, <2>6, CloserIs
  <2>8. j \in x..e
    BY <2>4, <2>7 DEF Encloses
  <2>9. Settled(x, e)
    BY <2>5, <2>6 DEF Whole, Right
  <2>10. Led(Site(j), After(e))
    BY <1>8, <2>3, <2>4, <2>8, <2>9 DEF Settled, LeavesLead
  <2>11. x \in Around(j)
    <3>1. j # e
      <4>1. "leave" \notin Opens /\ "leave" \notin Closes
        BY DEF Opens, Closes
      <4>2. Depth(j) = Depth(j - 1)
        BY <1>1, <1>8, <4>1, AroundStays
      <4>3. /\ Depth(e) < Depth(x) /\ \A q \in x..(e - 1) : Depth(q) >= Depth(x)
        BY <2>6 DEF Ends
      <4>4. Depth(j) \in Int /\ Depth(x) \in Int
        BY <2>5, DepthType
      <4>5. j = e => j - 1 \in x..(e - 1)
        BY <2>4
      <4> QED
        BY <4>2, <4>3, <4>4, <4>5
    <3>2. \A q \in x..j : q \in x..(e - 1)
      BY <2>4, <2>8, <3>1
    <3> QED
      BY <1>1, <2>4, <2>5, <2>6, <3>2 DEF Around, Ends
  <2>12. Around(e) = Around(x - 1)
    BY <1>1, <2>5, <2>6, AroundCloses
  <2>13. Items(e) = Items(x - 1) /\ Items(j) = Items(j - 1)
    <3>1. LGain("leave") = 0 /\ IGain("leave") = 0
      BY DEF LGain, IGain, Loops
    <3> QED
      BY <1>1, <1>8, <2>12, <3>1, SameAround, GainNone DEF Same
  <2>14. High(j) /\ src[x] # "of"
    BY <1>1, <2>4, ItemsHigh DEF Loops
  <2>15. Items(x - 1) \in Int /\ Items(j) \in Int
    <3>1. x - 1 \in Nat /\ j \in Nat
      BY <2>5
    <3> QED
      BY <3>1, CountsTyped
  <2>16. Items(e) <= Items(j - 1)
    <3>1. Items(j) >= Items(x - 1) - 0
      BY <2>11, <2>14 DEF High, Floor
    <3> QED
      BY <2>13, <2>15, <3>1
  <2> QED
    BY <1>8, <2>10, <2>16
<1>9. /\ src[j] \in {"of", "?do"} \/ src[j] \in {"if", "unless"} \/ src[j] \in {"else", "while"}
         \/ src[j] = "endof" \/ src[j] \in Back \/ src[j] = "leave"
  BY DEF Branching, Ahead, Forward
<1> QED
  BY <1>3, <1>4, <1>5, <1>6, <1>7, <1>8, <1>9

-----------------------------------------------------------------------------
(* The data stack within a token: how much deeper it is than before it,    *)
(* ahead of each of its cells and behind the last.                         *)

Rises(t) ==
  CASE t \in {"then", "begin"} -> <<0>>
    [] t \in {"work", "exit"} -> <<0, 0>>
    [] t \in {"if", "until", "while", "+loop"} -> <<0, 1, 0, 0>>
    [] t = "unless" -> <<0, 1, 1, 0, 0>>
    [] t \in {"else", "endof", "again", "repeat", "loop"} -> <<0, 0, 0>>
    [] t = "case" -> <<0, 1>>
    [] t = "endcase" -> <<0, -1>>
    [] t = "of" -> <<0, 1, 2, 1, 0, 0, -1>>
    [] t = "do" -> <<0, 1, 2, 0>>
    [] t = "?do" -> <<0, 1, 2, 4, 3, 2, 2, 0>>
    [] t = "leave" -> <<0, 0, 0, 0>>

LEMMA RisesAre ==
  /\ \A t \in AllTokens : Rises(t)[1] = 0
  /\ \A t \in {"work", "exit"} : Rises(t)[2] = 0
  /\ \A t \in {"if", "until", "while", "+loop"} :
       Rises(t)[2] = 1 /\ Rises(t)[3] = 0 /\ Rises(t)[4] = 0
  /\ LET r == Rises("unless") IN r[2] = 1 /\ r[3] = 1 /\ r[4] = 0 /\ r[5] = 0
  /\ \A t \in {"else", "endof", "again", "repeat", "loop"} :
       Rises(t)[2] = 0 /\ Rises(t)[3] = 0
  /\ Rises("case")[2] = 1 /\ Rises("endcase")[2] = -1
  /\ LET r == Rises("of") IN
       r[2] = 1 /\ r[3] = 2 /\ r[4] = 1 /\ r[5] = 0 /\ r[6] = 0 /\ r[7] = -1
  /\ LET r == Rises("do") IN r[2] = 1 /\ r[3] = 2 /\ r[4] = 0
  /\ LET r == Rises("?do") IN
       /\ r[2] = 1 /\ r[3] = 2 /\ r[4] = 4 /\ r[5] = 3 /\ r[6] = 2 /\ r[7] = 2 /\ r[8] = 0
BY DEF Rises, AllTokens

LEMMA RisesNat == \A t \in AllTokens : \A k \in 1..Len(Spelling(t)) : Rises(t)[k] \in Nat
<1> SUFFICES ASSUME NEW t \in AllTokens, NEW k \in 1..Len(Spelling(t))
             PROVE  Rises(t)[k] \in Nat
  OBVIOUS
<1>1. Rises(t)[1] = 0
  BY RisesAre
<1>2. CASE t \in {"then", "begin", "work", "exit", "case", "endcase"}
  <2>1. Len(Spelling(t)) \in {0, 1}
    BY <1>2, SpellingIs
  <2>2. PICK n : n = Len(Spelling(t))
    OBVIOUS
  <2>3. n \in {0, 1} /\ k \in 1..n
    BY <2>1, <2>2
  <2>4. k = 1
    BY <2>3
  <2> QED
    BY <1>1, <2>4
<1>3. CASE t \in {"if", "until", "while", "+loop"}
  <2>1. Len(Spelling(t)) = 3
    BY <1>3, SpellingIs
  <2>2. Rises(t)[2] = 1 /\ Rises(t)[3] = 0
    BY <1>3, RisesAre
  <2> QED
    BY <1>1, <2>1, <2>2
<1>4. CASE t \in {"else", "endof", "again", "repeat", "loop"}
  <2>1. Len(Spelling(t)) = 2
    BY <1>4, SpellingIs
  <2>2. Rises(t)[2] = 0
    BY <1>4, RisesAre
  <2> QED
    BY <1>1, <2>1, <2>2
<1>5. CASE t = "unless"
  <2>1. Len(Spelling(t)) = 4
    BY <1>5, SpellingIs
  <2>2. Rises(t)[2] = 1 /\ Rises(t)[3] = 1 /\ Rises(t)[4] = 0
    BY <1>5, RisesAre
  <2> QED
    BY <1>1, <2>1, <2>2
<1>6. CASE t = "of"
  <2>1. Len(Spelling(t)) = 6
    BY <1>6, SpellingIs
  <2>2. /\ Rises(t)[2] = 1 /\ Rises(t)[3] = 2 /\ Rises(t)[4] = 1 /\ Rises(t)[5] = 0
        /\ Rises(t)[6] = 0
    BY <1>6, RisesAre
  <2> QED
    BY <1>1, <2>1, <2>2
<1>7. CASE t = "do"
  <2>1. Len(Spelling(t)) = 3
    BY <1>7, SpellingIs
  <2>2. Rises(t)[2] = 1 /\ Rises(t)[3] = 2
    BY <1>7, RisesAre
  <2> QED
    BY <1>1, <2>1, <2>2
<1>8. CASE t = "?do"
  <2>1. Len(Spelling(t)) = 7
    BY <1>8, SpellingIs
  <2>2. /\ Rises(t)[2] = 1 /\ Rises(t)[3] = 2 /\ Rises(t)[4] = 4 /\ Rises(t)[5] = 3
        /\ Rises(t)[6] = 2 /\ Rises(t)[7] = 2
    BY <1>8, RisesAre
  <2> QED
    BY <1>1, <2>1, <2>2
<1>9. CASE t = "leave"
  <2>1. Len(Spelling(t)) = 3
    BY <1>9, SpellingIs
  <2>2. Rises(t)[2] = 0 /\ Rises(t)[3] = 0
    BY <1>9 DEF Rises
  <2> QED
    BY <1>1, <2>1, <2>2
<1> QED
  BY <1>2, <1>3, <1>4, <1>5, <1>6, <1>7, <1>8, <1>9 DEF AllTokens

(* Cell k of token t is followed by the cell n of it, the data stack having*)
(* changed by e.                                                           *)
Follows(t, k, n, e) ==
  /\ n \in 2..(Len(Spelling(t)) + 1) /\ Rises(t)[k] \in Int /\ Rises(t)[n] = Rises(t)[k] + e
  /\ n <= Len(Spelling(t)) => Spelling(t)[n] # "offset"

(* The offset of t is in the cell behind its k-th.                         *)
Offsets(t, k) ==
  /\ k + 1 <= Len(Spelling(t)) /\ Spelling(t)[k + 1] = "offset"
  /\ t \in Branching /\ Behind(t) = Len(Spelling(t)) - k

LEMMA PlainShapes ==
  ASSUME NEW t \in AllTokens, NEW k \in 1..Len(Spelling(t)), NEW o \in Plain,
         o = Spelling(t)[k], NEW n, n = k + 1
  PROVE  /\ Follows(t, k, n, Effect(o))
         /\ k = Len(Spelling(t)) => Rises(t)[n] = IGain(t) /\ LGain(t) = 0
<1> DEFINE s == Spelling(t)
           r == Rises(t)
<1>1. /\ Effect("lit") = 1 /\ Effect("over") = 1 /\ Effect("2dup") = 2 /\ Effect("=") = -1
      /\ Effect("<>") = -1 /\ Effect("drop") = -1 /\ Effect("work") = 0 /\ Effect("not") = 0
  BY DEF Effect
<1>2. CASE t \in {"exit", "then", "begin", "else", "endof", "again", "repeat", "leave", "loop"}
  <2>1. FALSE
    BY <1>2, SpellingIs DEF Plain
  <2> QED
    BY <2>1
<1>3. CASE t \in {"if", "until", "while", "+loop"}
  <2>1. /\ Len(s) = 3 /\ s[1] = "lit" /\ s[2] \in {"0branch", "(+loop)"} /\ s[3] = "offset"
        /\ r[1] = 0 /\ r[2] = 1
    BY <1>3, SpellingIs, RisesAre
  <2> QED
    BY <1>1, <2>1 DEF Plain, Follows
<1>4. CASE t = "unless"
  <2>1. /\ Len(s) = 4 /\ s[1] = "lit" /\ s[2] = "not" /\ s[3] = "0branch" /\ s[4] = "offset"
        /\ r[1] = 0 /\ r[2] = 1 /\ r[3] = 1
    BY <1>4, SpellingIs, RisesAre
  <2> QED
    BY <1>1, <2>1 DEF Plain, Follows
<1>5. CASE t = "of"
  <2>1. /\ Len(s) = 6 /\ s[1] = "lit" /\ s[2] = "over" /\ s[3] = "=" /\ s[4] = "0branch"
        /\ s[5] = "offset" /\ s[6] = "drop"
        /\ r[1] = 0 /\ r[2] = 1 /\ r[3] = 2 /\ r[4] = 1 /\ r[6] = 0 /\ r[7] = -1
        /\ IGain(t) = -1 /\ LGain(t) = 0
    BY <1>5, SpellingIs, RisesAre DEF IGain, LGain, Loops
  <2> QED
    BY <1>1, <2>1 DEF Plain, Follows
<1>6. CASE t = "do"
  <2>1. /\ Len(s) = 3 /\ s[1] = "lit" /\ s[2] = "lit" /\ s[3] = "(do)"
        /\ r[1] = 0 /\ r[2] = 1 /\ r[3] = 2
    BY <1>6, SpellingIs, RisesAre
  <2> QED
    BY <1>1, <2>1 DEF Plain, Follows
<1>7. CASE t = "?do"
  <2>1. /\ Len(s) = 7 /\ s[1] = "lit" /\ s[2] = "lit" /\ s[3] = "2dup" /\ s[4] = "<>"
        /\ s[5] = "0branch" /\ s[6] = "offset" /\ s[7] = "(do)"
        /\ r[1] = 0 /\ r[2] = 1 /\ r[3] = 2 /\ r[4] = 4 /\ r[5] = 3
    BY <1>7, SpellingIs, RisesAre
  <2> QED
    BY <1>1, <2>1 DEF Plain, Follows
<1>8. CASE t \in {"work", "case", "endcase"}
  <2>1. /\ Len(s) = 1 /\ s[1] \in {"work", "lit", "drop"} /\ r[1] = 0
        /\ r[2] = Effect(s[1]) /\ IGain(t) = r[2] /\ LGain(t) = 0
    BY <1>1, <1>8, SpellingIs, RisesAre DEF IGain, LGain, Loops, AllTokens
  <2> QED
    BY <1>1, <2>1 DEF Plain, Follows
<1> QED
  BY <1>2, <1>3, <1>4, <1>5, <1>6, <1>7, <1>8 DEF AllTokens

LEMMA BranchShapes ==
  ASSUME NEW t \in AllTokens, NEW k \in 1..Len(Spelling(t)), NEW o, o = Spelling(t)[k]
  PROVE  /\ o = "branch" => Offsets(t, k) /\ Rises(t)[k] = 0
         /\ o \in {"(loop)", "(+loop)"} =>
              /\ Offsets(t, k) /\ t \in {"loop", "+loop"} /\ k + 1 = Len(Spelling(t))
              /\ Rises(t)[k] = IF o = "(+loop)" THEN 1 ELSE 0
         /\ o = "(do)" => t \in Loops /\ k = Len(Spelling(t)) /\ Rises(t)[k] = 2
         /\ o = "unloop" => t = "leave" /\ k = 1
         /\ o = "exit" => t = "exit" /\ k = 1
<1> DEFINE s == Spelling(t)
           r == Rises(t)
<1>1. CASE t \in {"then", "begin", "work", "exit", "case", "endcase"}
  <2>1. Len(s) \in {0, 1} /\ (Len(s) = 1 => s[1] \in {"work", "lit", "drop"} \/ t = "exit")
        /\ (t = "exit" => s[1] = "exit")
    BY <1>1, SpellingIs
  <2> QED
    BY <2>1
<1>2. CASE t \in {"if", "until", "while"}
  <2>1. Len(s) = 3 /\ s[1] = "lit" /\ s[2] = "0branch" /\ s[3] = "offset"
    BY <1>2, SpellingIs
  <2> QED
    BY <2>1
<1>3. CASE t = "unless"
  <2>1. Len(s) = 4 /\ s[1] = "lit" /\ s[2] = "not" /\ s[3] = "0branch" /\ s[4] = "offset"
    BY <1>3, SpellingIs
  <2> QED
    BY <2>1
<1>4. CASE t = "of"
  <2>1. /\ Len(s) = 6 /\ s[1] = "lit" /\ s[2] = "over" /\ s[3] = "=" /\ s[4] = "0branch"
        /\ s[5] = "offset" /\ s[6] = "drop"
    BY <1>4, SpellingIs
  <2> QED
    BY <2>1
<1>5. CASE t = "do"
  <2>1. Len(s) = 3 /\ s[1] = "lit" /\ s[2] = "lit" /\ s[3] = "(do)" /\ r[3] = 2 /\ t \in Loops
    BY <1>5, SpellingIs, RisesAre DEF Loops
  <2> QED
    BY <2>1
<1>6. CASE t = "?do"
  <2>1. /\ Len(s) = 7 /\ s[1] = "lit" /\ s[2] = "lit" /\ s[3] = "2dup" /\ s[4] = "<>"
        /\ s[5] = "0branch" /\ s[6] = "offset" /\ s[7] = "(do)" /\ r[7] = 2 /\ t \in Loops
    BY <1>6, SpellingIs, RisesAre DEF Loops
  <2> QED
    BY <2>1
<1>7. CASE t \in {"else", "endof", "again", "repeat"}
  <2>1. /\ Len(s) = 2 /\ s[1] = "branch" /\ s[2] = "offset" /\ r[1] = 0
        /\ t \in Branching /\ Behind(t) = 1
    BY <1>7, SpellingIs, RisesAre DEF Branching, Ahead, Forward, Back, Behind
  <2> QED
    BY <2>1 DEF Offsets
<1>8. CASE t = "leave"
  <2>1. Len(s) = 3 /\ s[1] = "unloop" /\ s[2] = "branch" /\ s[3] = "offset"
    BY <1>8, SpellingIs
  <2>2. r[2] = 0 /\ Behind(t) = 1 /\ t \in Branching
    BY <1>8 DEF Branching, Behind, Rises
  <2>3. (k = 1 /\ o = "unloop") \/ (k = 2 /\ o = "branch") \/ (k = 3 /\ o = "offset")
    BY <2>1
  <2>4. Offsets(t, 2)
    BY <2>1, <2>2 DEF Offsets
  <2> QED
    BY <1>8, <2>2, <2>3, <2>4
<1>9. CASE t = "loop"
  <2>1. Len(s) = 2 /\ s[1] = "(loop)" /\ s[2] = "offset"
    BY <1>9, SpellingIs
  <2>2. r[1] = 0 /\ Behind(t) = 1 /\ t \in Branching
    BY <1>9 DEF Branching, Back, Behind, Rises
  <2>3. (k = 1 /\ o = "(loop)") \/ (k = 2 /\ o = "offset")
    BY <2>1
  <2>4. Offsets(t, 1)
    BY <2>1, <2>2 DEF Offsets
  <2> QED
    BY <1>9, <2>1, <2>2, <2>3, <2>4
<1>10. CASE t = "+loop"
  <2>1. Len(s) = 3 /\ s[1] = "lit" /\ s[2] = "(+loop)" /\ s[3] = "offset"
    BY <1>10, SpellingIs
  <2>2. r[2] = 1 /\ Behind(t) = 1 /\ t \in Branching
    BY <1>10 DEF Branching, Back, Behind, Rises
  <2>3. (k = 1 /\ o = "lit") \/ (k = 2 /\ o = "(+loop)") \/ (k = 3 /\ o = "offset")
    BY <2>1
  <2>4. Offsets(t, 2)
    BY <2>1, <2>2 DEF Offsets
  <2>5. CASE k = 2 /\ o = "(+loop)"
    <3>1. k + 1 = Len(s) /\ Offsets(t, k) /\ r[k] = 1
      BY <2>1, <2>2, <2>4, <2>5
    <3> QED
      BY <1>10, <2>5, <3>1
  <2> QED
    BY <2>3, <2>5
<1> QED
  BY <1>1, <1>2, <1>3, <1>4, <1>5, <1>6, <1>7, <1>8, <1>9, <1>10 DEF AllTokens

(* A test: past its offset, or where that leads, the flag is gone; ?DO has *)
(* kept its limit and its index.                                           *)
Tests(t, k) ==
  /\ Offsets(t, k)
  /\ \/ t \in {"if", "until", "while", "unless"} /\ k + 1 = Len(Spelling(t)) /\ Rises(t)[k] = 1
     \/ t = "of" /\ k + 2 = Len(Spelling(t)) /\ Rises(t)[k] = 1
          /\ Spelling(t)[k + 2] = "drop" /\ Rises(t)[k + 2] = 0
     \/ t = "?do" /\ k + 2 = Len(Spelling(t)) /\ Rises(t)[k] = 3
          /\ Spelling(t)[k + 2] = "(do)" /\ Rises(t)[k + 2] = 2

LEMMA TestShapes ==
  ASSUME NEW t \in AllTokens, NEW k \in 1..Len(Spelling(t)), Spelling(t)[k] = "0branch"
  PROVE  Tests(t, k)
<1> DEFINE s == Spelling(t)
           r == Rises(t)
<1>1. CASE t \in {"if", "until", "while"}
  <2>1. Len(s) = 3 /\ s[1] = "lit" /\ s[2] = "0branch" /\ s[3] = "offset"
    BY <1>1, SpellingIs
  <2>2. k = 2 /\ r[2] = 1
    BY <1>1, <2>1, RisesAre
  <2>3. t \in Branching /\ Behind(t) = 1
    BY <1>1 DEF Branching, Ahead, Forward, Back, Behind
  <2> QED
    BY <1>1, <2>1, <2>2, <2>3 DEF Tests, Offsets
<1>2. CASE t = "unless"
  <2>1. Len(s) = 4 /\ s[1] = "lit" /\ s[2] = "not" /\ s[3] = "0branch" /\ s[4] = "offset"
    BY <1>2, SpellingIs
  <2>2. r[3] = 1 /\ Behind(t) = 1 /\ t \in Branching
    BY <1>2 DEF Branching, Ahead, Behind, Rises
  <2>3. k = 3
    BY <2>1
  <2>4. Offsets(t, 3)
    BY <2>1, <2>2 DEF Offsets
  <2>5. 3 + 1 = Len(s)
    BY <2>1
  <2>6. Tests(t, 3)
    BY <1>2, <2>2, <2>4, <2>5 DEF Tests
  <2> QED
    BY <2>3, <2>6
<1>3. CASE t = "of"
  <2>1. /\ Len(s) = 6 /\ s[1] = "lit" /\ s[2] = "over" /\ s[3] = "=" /\ s[4] = "0branch"
        /\ s[5] = "offset" /\ s[6] = "drop"
    BY <1>3, SpellingIs
  <2>2. r[4] = 1 /\ r[6] = 0 /\ Behind(t) = 2 /\ t \in Branching
    BY <1>3 DEF Branching, Ahead, Forward, Behind, Rises
  <2>3. k = 4
    BY <2>1
  <2>4. Offsets(t, 4)
    BY <2>1, <2>2 DEF Offsets
  <2>5. 4 + 2 = Len(s) /\ s[4 + 2] = "drop" /\ r[4 + 2] = 0
    BY <2>1, <2>2
  <2>6. Tests(t, 4)
    BY <1>3, <2>2, <2>4, <2>5 DEF Tests
  <2> QED
    BY <2>3, <2>6
<1>4. CASE t = "?do"
  <2>1. /\ Len(s) = 7 /\ s[1] = "lit" /\ s[2] = "lit" /\ s[3] = "2dup" /\ s[4] = "<>"
        /\ s[5] = "0branch" /\ s[6] = "offset" /\ s[7] = "(do)"
    BY <1>4, SpellingIs
  <2>2. r[5] = 3 /\ r[7] = 2 /\ Behind(t) = 2 /\ t \in Branching
    BY <1>4 DEF Branching, Ahead, Forward, Behind, Rises
  <2>3. k = 5
    BY <2>1
  <2>4. Offsets(t, 5)
    BY <2>1, <2>2 DEF Offsets
  <2>5. 5 + 2 = Len(s) /\ s[5 + 2] = "(do)" /\ r[5 + 2] = 2
    BY <2>1, <2>2
  <2>6. Tests(t, 5)
    BY <1>4, <2>2, <2>4, <2>5 DEF Tests
  <2> QED
    BY <2>3, <2>6
<1>5. CASE t \notin {"if", "until", "while", "unless", "of", "?do"}
  <2>1. t \in {"then", "begin"} => Len(s) = 0
    BY SpellingIs
  <2>2. t \in {"work", "exit", "case", "endcase"} =>
          Len(s) = 1 /\ s[1] \in {"work", "exit", "lit", "drop"}
    BY SpellingIs
  <2>3. t \in {"else", "endof", "again", "repeat", "loop"} =>
          Len(s) = 2 /\ s[1] \in {"branch", "(loop)"} /\ s[2] = "offset"
    BY SpellingIs
  <2>4. t \in {"do", "leave", "+loop"} =>
          /\ Len(s) = 3 /\ s[1] \in {"lit", "unloop"} /\ s[3] \in {"(do)", "offset"}
          /\ s[2] \in {"lit", "branch", "(+loop)"}
    BY SpellingIs
  <2> QED
    BY <1>5, <2>1, <2>2, <2>3, <2>4 DEF AllTokens
<1> QED
  BY <1>1, <1>2, <1>3, <1>4, <1>5

(* How a token starts.                                                     *)
LEMMA FirstShapes ==
  ASSUME NEW t \in AllTokens
  PROVE  /\ Len(Spelling(t)) \in Nat /\ Rises(t)[1] = 0
         /\ Len(Spelling(t)) >= 1 => Spelling(t)[1] \notin {"offset", "(do)"}
         /\ Len(Spelling(t)) = 0 => LGain(t) = 0 /\ IGain(t) = 0
<1>1. Len(Spelling(t)) \in Nat /\ Rises(t)[1] = 0
  BY SpellingLength, RisesAre
<1>2. Len(Spelling(t)) >= 1 => Spelling(t)[1] \notin {"offset", "(do)"}
  BY SpellingIs DEF AllTokens
<1>3. ASSUME Len(Spelling(t)) = 0 PROVE t \in {"then", "begin"}
  BY <1>3, SpellingIs DEF AllTokens
<1>4. \A x \in {"then", "begin"} : LGain(x) = 0 /\ IGain(x) = 0
  BY DEF LGain, IGain, Loops
<1> QED
  BY <1>1, <1>2, <1>3, <1>4

-----------------------------------------------------------------------------
(* The return stack inside n loops.                                        *)

Frame(n) ==
  [k \in 1..(2 * n + 1) |->
     IF k = 2 * n + 1 THEN "return" ELSE IF k % 2 = 1 THEN "index" ELSE "limit"]

LEMMA FrameType ==
  ASSUME NEW n \in Nat
  PROVE  /\ Frame(n) \in Seq({"return", "index", "limit"}) /\ Len(Frame(n)) = 2 * n + 1
         /\ Frame(n) # <<>>
         /\ Head(Frame(n)) = "return" <=> n = 0
<1> DEFINE f == Frame(n)
           m == 2 * n + 1
<1>1. m \in Nat /\ m >= 1
  OBVIOUS
<1>2. f \in [1..m -> {"return", "index", "limit"}]
  BY DEF Frame
<1>3. f \in Seq({"return", "index", "limit"}) /\ Len(f) = m
  BY <1>1, <1>2
<1>4. Head(f) = f[1] /\ f # <<>>
  BY <1>1, <1>3
<1>5. f[1] = IF 1 = m THEN "return" ELSE IF 1 % 2 = 1 THEN "index" ELSE "limit"
  BY <1>1 DEF Frame
<1>6. f[1] = "return" <=> n = 0
  BY <1>5
<1> QED
  BY <1>3, <1>4, <1>6

LEMMA FrameNone == Frame(0) = <<"return">> /\ Tail(Frame(0)) = <<>>
<1>1. PICK f : f = Frame(0)
  OBVIOUS
<1>2. 0 \in Nat /\ 2 * 0 + 1 = 1
  OBVIOUS
<1>3. f \in Seq({"return", "index", "limit"}) /\ Len(f) = 1
  BY <1>1, <1>2, FrameType
<1>4. f[1] = "return"
  BY <1>1, <1>2 DEF Frame
<1>5. f = <<"return">>
  BY <1>3, <1>4
<1>6. Tail(<<"return">>) = <<>>
  OBVIOUS
<1> QED
  BY <1>1, <1>5, <1>6

LEMMA FrameMore ==
  ASSUME NEW n \in Nat, NEW m, m = n + 1
  PROVE  <<"index", "limit">> \o Frame(n) = Frame(m) /\ Tail(Tail(Frame(m))) = Frame(n)
<1> DEFINE T == {"return", "index", "limit"}
<1>0. m \in Nat
  OBVIOUS
<1>1. Frame(n) \in Seq(T) /\ Len(Frame(n)) = 2 * n + 1
  BY FrameType
<1>2. Frame(m) \in Seq(T) /\ Len(Frame(m)) = 2 * n + 3
  BY <1>0, FrameType
<1>3. PICK f : f = Frame(n)
  OBVIOUS
<1>4. PICK g : g = Frame(m)
  OBVIOUS
<1>5. g[1] = "index" /\ g[2] = "limit" /\ \A k \in 1..(2 * n + 1) : g[k + 2] = f[k]
  <2>1. 1 \in 1..(2 * m + 1) /\ 2 \in 1..(2 * m + 1) /\ 1 # 2 * m + 1 /\ 2 # 2 * m + 1
        /\ 1 % 2 = 1 /\ 2 % 2 # 1
    OBVIOUS
  <2>2. g[1] = "index" /\ g[2] = "limit"
    BY <1>4, <2>1 DEF Frame
  <2>3. ASSUME NEW k \in 1..(2 * n + 1) PROVE g[k + 2] = f[k]
    <3>1. PICK j : j = k + 2
      OBVIOUS
    <3>2. j \in 1..(2 * m + 1) /\ (j = 2 * m + 1 <=> k = 2 * n + 1)
      BY <3>1
    <3>3. j % 2 = k % 2
      BY <3>1
    <3>4. g[j] = IF j = 2 * m + 1 THEN "return" ELSE IF j % 2 = 1 THEN "index" ELSE "limit"
      BY <1>4, <3>2 DEF Frame
    <3>5. f[k] = IF k = 2 * n + 1 THEN "return" ELSE IF k % 2 = 1 THEN "index" ELSE "limit"
      BY <1>3 DEF Frame
    <3> QED
      BY <3>1, <3>2, <3>3, <3>4, <3>5
  <2> QED
    BY <2>2, <2>3
<1>6. Tail(Tail(g)) = f
  <2>1. g \in Seq(T) /\ g # <<>> /\ Len(g) = 2 * n + 3
    BY <1>2, <1>4
  <2>2. /\ Tail(g) \in Seq(T) /\ Len(Tail(g)) = 2 * n + 2
        /\ \A k \in 1..(Len(g) - 1) : Tail(g)[k] = g[k + 1]
    BY <2>1, PopFacts
  <2>3. Tail(g) # <<>>
    <3>1. Len(Tail(g)) # 0
      BY <2>2
    <3> QED
      BY <3>1
  <2>4. /\ Tail(Tail(g)) \in Seq(T) /\ Len(Tail(Tail(g))) = Len(Tail(g)) - 1
        /\ \A k \in 1..(Len(Tail(g)) - 1) : Tail(Tail(g))[k] = Tail(g)[k + 1]
    BY <2>2, <2>3, PopFacts
  <2>5. Len(Tail(Tail(g))) = Len(f)
    BY <1>1, <1>3, <2>2, <2>4
  <2>6. ASSUME NEW k \in 1..Len(f) PROVE Tail(Tail(g))[k] = f[k]
    <3>1. PICK j : j = k + 1
      OBVIOUS
    <3>2. k \in 1..(2 * n + 1) /\ j \in 1..(Len(g) - 1) /\ k \in 1..(Len(Tail(g)) - 1)
      BY <1>1, <1>3, <2>1, <2>2, <2>6, <3>1
    <3>3. Tail(Tail(g))[k] = Tail(g)[j] /\ Tail(g)[j] = g[j + 1]
      BY <2>2, <2>4, <3>1, <3>2
    <3>4. j + 1 = k + 2
      BY <3>1, <3>2
    <3> QED
      BY <1>5, <3>2, <3>3, <3>4
  <2> QED
    BY <1>1, <1>3, <2>4, <2>5, <2>6, SeqEqual
<1>7. <<"index", "limit">> \o f = g
  <2>1. PICK two : two = <<"index", "limit">>
    OBVIOUS
  <2>2. two \in Seq(T) /\ Len(two) = 2 /\ two[1] = "index" /\ two[2] = "limit"
    BY <2>1
  <2>3. /\ two \o f \in Seq(T) /\ Len(two \o f) = 2 + Len(f)
        /\ \A i \in 1..(2 + Len(f)) : (two \o f)[i] = IF i <= 2 THEN two[i] ELSE f[i - 2]
    <3>1. f \in Seq(T)
      BY <1>1, <1>3
    <3> HIDE DEF T
    <3>2. /\ two \o f \in Seq(T) /\ Len(two \o f) = Len(two) + Len(f)
          /\ \A i \in 1..(Len(two) + Len(f)) :
               (two \o f)[i] = IF i <= Len(two) THEN two[i] ELSE f[i - Len(two)]
      BY <2>2, <3>1, ConcatProperties
    <3> QED
      BY <2>2, <3>2
  <2>4. Len(two \o f) = Len(g)
    BY <1>1, <1>2, <1>3, <1>4, <2>3
  <2>5. ASSUME NEW k \in 1..Len(g) PROVE (two \o f)[k] = g[k]
    <3>0. k \in 1..(2 + Len(f))
      BY <1>1, <1>3, <2>3, <2>4, <2>5
    <3>1. CASE k \in {1, 2}
      BY <1>5, <2>2, <2>3, <3>0, <3>1
    <3>2. CASE k \notin {1, 2}
      <4>1. PICK j : j = k - 2
        OBVIOUS
      <4>2. j \in 1..(2 * n + 1) /\ j + 2 = k /\ ~(k <= 2)
        BY <1>1, <1>2, <1>3, <1>4, <2>5, <3>2, <4>1
      <4> QED
        BY <1>5, <2>3, <3>0, <4>1, <4>2
    <3> QED
      BY <3>1, <3>2
  <2> QED
    BY <1>2, <1>4, <2>1, <2>3, <2>4, <2>5, SeqEqual
<1> QED
  BY <1>3, <1>4, <1>6, <1>7

-----------------------------------------------------------------------------
(* Where the IP stands: on cell k of token i, the stacks being what the    *)
(* structures around that token say.  Behind the last token is the EXIT    *)
(* that ; has compiled.                                                    *)

Tok(i) == IF i \in 1..Len(src) THEN src[i] ELSE "exit"

(* The stacks hold what m tokens leave open, and e items more; once RSP is *)
(* lost, only the data stack, which may hold more.                         *)
Kept(r, w, d, s, m, e) ==
  /\ d \in Int /\ d >= Items(m) + 2 * s + e
  /\ ~w => r = Frame(Nested(m)) /\ d = Items(m) + 2 * s + e

Standing(i, k, p, r, w, d, s) ==
  /\ i \in 1..(Len(src) + 1) /\ k \in 1..Len(Spelling(Tok(i)))
  /\ p = at[i] + k - 1 /\ Spelling(Tok(i))[k] # "offset"
  /\ Tok(i) = "leave" /\ k > 1 => w
  /\ Kept(r, w, d, s, i - 1, Rises(Tok(i))[k])

Stands(p, r, w, d, s) == \E i, k : Standing(i, k, p, r, w, d, s)

LEMMA KeptSame ==
  ASSUME NEW r, NEW w, NEW d, NEW s, NEW m, NEW k, NEW e, Kept(r, w, d, s, m, e), Same(m, k)
  PROVE  Kept(r, w, d, s, k, e)
<1>1. Nested(m) = Nested(k) /\ Items(m) = Items(k)
  BY DEF Same
<1> QED
  BY <1>1 DEF Kept

LEMMA KeptShift ==
  ASSUME NEW r, NEW w, NEW d, NEW s \in Nat, NEW m \in Nat, NEW e \in Int,
         Kept(r, w, d, s, m, e), NEW d2 \in Int, NEW s2 \in Nat, NEW e2 \in Int,
         d2 + 2 * s + e = d + 2 * s2 + e2
  PROVE  Kept(r, w, d2, s2, m, e2)
<1>1. Items(m) \in Int
  BY CountsTyped
<1>2. d \in Int /\ d >= Items(m) + 2 * s + e
      /\ (~w => r = Frame(Nested(m)) /\ d = Items(m) + 2 * s + e)
  BY DEF Kept
<1>3. d2 >= Items(m) + 2 * s2 + e2
  BY <1>1, <1>2
<1>4. d = Items(m) + 2 * s + e => d2 = Items(m) + 2 * s2 + e2
  BY <1>1, <1>2
<1> QED
  BY <1>2, <1>3, <1>4 DEF Kept

LEMMA KeptGain ==
  ASSUME Types, AllHoused, NEW i \in 1..Len(src), LGain(src[i]) = 0,
         NEW r, NEW w, NEW d, NEW s \in Nat, NEW e, e = IGain(src[i]),
         Kept(r, w, d, s, i - 1, e)
  PROVE  Kept(r, w, d, s, i, 0)
<1>1. Nested(i) = Nested(i - 1) + 0 /\ Items(i) = Items(i - 1) + e
  BY Gains
<1>2. i - 1 \in Nat
  <2>1. Len(src) \in Nat
    BY TypedLengths
  <2> QED
    BY <2>1
<1>3. Nested(i - 1) \in Nat /\ Items(i - 1) \in Int /\ e \in Int
  BY <1>2, CountsTyped DEF IGain
<1>4. Nested(i) = Nested(i - 1) /\ Items(i) + 2 * s + 0 = Items(i - 1) + 2 * s + e
  BY <1>1, <1>3
<1> QED
  BY <1>4 DEF Kept

LEMMA CellBounds ==
  ASSUME Types, Spelled, NEW i \in 1..(Len(src) + 1)
  PROVE  /\ Len(src) \in Nat /\ Len(code) \in Nat /\ Tok(i) \in AllTokens
         /\ at[i] \in Nat /\ at[i] >= 1
         /\ i <= Len(src) => /\ Tok(i) = src[i] /\ at[i + 1] \in Nat
                             /\ at[i + 1] = at[i] + Len(Spelling(src[i]))
         /\ \A j \in i..(Len(src) + 1) : at[i] <= at[j] /\ at[j] \in Nat
<1>1. /\ Len(src) \in Nat /\ Len(code) \in Nat /\ Len(at) = Len(src) + 1 /\ at \in Seq(Nat)
      /\ src \in Seq(AllTokens) /\ \A j, k \in 1..Len(at) : j <= k => at[j] <= at[k]
  BY TypedLengths DEF Types
<1>2. at[1] = 1 /\ \A j \in 1..Len(src) : at[j + 1] = at[j] + Len(Spelling(src[j]))
  BY DEF Spelled
<1>3. \A j \in 1..(Len(src) + 1) : j \in 1..Len(at) /\ at[j] \in Nat
  BY <1>1
<1>4. at[i] >= 1
  <2>1. 1 \in 1..Len(at) /\ i \in 1..Len(at) /\ 1 <= i
    BY <1>1
  <2> QED
    BY <1>1, <1>2, <2>1
<1>5. Tok(i) \in AllTokens
  BY <1>1 DEF Tok, AllTokens
<1>6. ASSUME i <= Len(src)
      PROVE  /\ Tok(i) = src[i] /\ at[i + 1] \in Nat
             /\ at[i + 1] = at[i] + Len(Spelling(src[i]))
  <2>1. i \in 1..Len(src) /\ i + 1 \in 1..(Len(src) + 1)
    BY <1>1, <1>6
  <2> QED
    BY <1>2, <1>3, <2>1 DEF Tok
<1>7. \A j \in i..(Len(src) + 1) : at[i] <= at[j] /\ at[j] \in Nat
  <2> TAKE j \in i..(Len(src) + 1)
  <2>1. j \in 1..(Len(src) + 1) /\ i <= j
    BY <1>1
  <2> QED
    BY <1>1, <1>3, <2>1
<1> QED
  BY <1>1, <1>3, <1>4, <1>5, <1>6, <1>7

(* Tokens with no cells of their own change nothing of what is around.     *)
LEMMA LevelRun ==
  ASSUME Types, Spelled, AllHoused, NEW m \in 1..(Len(src) + 1),
         NEW j \in m..(Len(src) + 1), at[j] = at[m]
  PROVE  Same(j - 1, m - 1)
<1>1. Len(src) \in Nat
  BY TypedLengths
<1> DEFINE S == {q \in m..j : ~Same(q - 1, m - 1)}
<1> SUFFICES ASSUME S # {} PROVE FALSE
  <2>1. j \in m..j
    BY <1>1
  <2> QED
    BY <2>1
<1>2. S \in SUBSET Nat
  BY <1>1
<1>3. PICK q \in S : \A y \in S : q <= y
  BY <1>2, LeastNat
<1>4. q \in m..j /\ ~Same(q - 1, m - 1)
  OBVIOUS
<1>5. q # m
  BY <1>4 DEF Same
<1>6. PICK x : x = q - 1
  OBVIOUS
<1>7. x \in m..j /\ x \in 1..Len(src) /\ x + 1 = q /\ ~(q <= x) /\ q \in 1..(Len(src) + 1)
  BY <1>1, <1>4, <1>5, <1>6
<1>8. Same(x - 1, m - 1)
  BY <1>3, <1>7
<1>9. at[q] = at[x]
  <2>1. at[m] <= at[x] /\ at[x] \in Nat /\ at[m] \in Nat /\ at[j] \in Nat
    <3>1. x \in m..(Len(src) + 1) /\ m \in m..(Len(src) + 1)
      BY <1>1, <1>7
    <3> QED
      BY <3>1, CellBounds
  <2>2. at[x] <= at[q] /\ at[q] \in Nat
    <3>1. q \in x..(Len(src) + 1) /\ x \in 1..(Len(src) + 1)
      BY <1>1, <1>7
    <3> QED
      BY <3>1, CellBounds
  <2>3. at[q] <= at[j]
    <3>1. j \in q..(Len(src) + 1)
      BY <1>1, <1>4
    <3> QED
      BY <1>7, <3>1, CellBounds
  <2> QED
    BY <2>1, <2>2, <2>3
<1>10. Len(Spelling(src[x])) = 0
  <2>1. x \in 1..(Len(src) + 1) /\ x <= Len(src)
    BY <1>1, <1>7
  <2>2. at[x + 1] = at[x] + Len(Spelling(src[x])) /\ at[x] \in Nat /\ src[x] \in AllTokens
    BY <2>1, CellBounds
  <2>3. Len(Spelling(src[x])) \in Nat
    BY <2>2, SpellingLength
  <2> QED
    BY <1>7, <1>9, <2>2, <2>3
<1>11. LGain(src[x]) = 0 /\ IGain(src[x]) = 0
  <2>1. src[x] \in AllTokens
    BY <1>7 DEF Types
  <2> QED
    BY <1>10, <2>1, FirstShapes
<1>12. Same(x, x - 1)
  BY <1>7, <1>11, GainNone
<1>13. Same(q - 1, m - 1)
  BY <1>6, <1>8, <1>12, SameChain
<1> QED
  BY <1>4, <1>13

(* Arriving behind token m is standing on the next cell there is.          *)
LEMMA Landing ==
  ASSUME Types, Spelled, AllHoused, NEW m \in 1..(Len(src) + 1), NEW p, p = at[m],
         NEW r, NEW w, NEW s \in Nat, NEW d, Kept(r, w, d, s, m - 1, 0)
  PROVE  \E j : Standing(j, 1, p, r, w, d, s)
<1>1. Len(src) \in Nat
  BY TypedLengths
<1> DEFINE S == {q \in m..(Len(src) + 1) : q = Len(src) + 1 \/ at[q + 1] > p}
<1>2. S \in SUBSET Nat /\ S # {}
  <2>1. Len(src) + 1 \in S
    BY <1>1
  <2> QED
    BY <1>1, <2>1
<1>3. PICK q \in S : \A y \in S : q <= y
  BY <1>2, LeastNat
<1>4. q \in m..(Len(src) + 1) /\ (q = Len(src) + 1 \/ at[q + 1] > p)
  OBVIOUS
<1>5. q \in 1..(Len(src) + 1) /\ at[m] \in Nat /\ at[q] \in Nat /\ at[m] <= at[q]
  <2>1. q \in 1..(Len(src) + 1)
    BY <1>1, <1>4
  <2> QED
    BY <1>4, <2>1, CellBounds
<1>6. at[q] = p
  <2>1. CASE q = m
    BY <2>1
  <2>2. CASE q # m
    <3>1. PICK x : x = q - 1
      OBVIOUS
    <3>2. x \in m..(Len(src) + 1) /\ x # Len(src) + 1 /\ x + 1 = q /\ ~(q <= x)
      BY <1>1, <1>4, <2>2, <3>1
    <3>3. x \notin S
      BY <1>3, <3>2
    <3>4. ~(at[x + 1] > p)
      BY <3>2, <3>3
    <3> QED
      BY <1>5, <3>2, <3>4
  <2> QED
    BY <2>1, <2>2
<1>7. Same(q - 1, m - 1)
  BY <1>4, <1>6, LevelRun
<1>8. Tok(q) \in AllTokens
  BY <1>5, CellBounds
<1>9. Len(Spelling(Tok(q))) \in Nat /\ Len(Spelling(Tok(q))) >= 1
  <2>1. Len(Spelling(Tok(q))) \in Nat
    BY <1>8, SpellingLength
  <2>2. CASE q = Len(src) + 1
    <3>1. Tok(q) = "exit"
      BY <1>1, <2>2 DEF Tok
    <3> QED
      BY <3>1, SpellingIs
  <2>3. CASE q # Len(src) + 1
    <3>1. q <= Len(src) /\ at[q + 1] > p
      BY <1>1, <1>4, <2>3
    <3>2. Tok(q) = src[q] /\ at[q + 1] = at[q] + Len(Spelling(src[q]))
      BY <1>5, <3>1, CellBounds
    <3> QED
      BY <1>5, <1>6, <2>1, <3>1, <3>2
  <2> QED
    BY <2>1, <2>2, <2>3
<1>10. Spelling(Tok(q))[1] # "offset" /\ Rises(Tok(q))[1] = 0
  BY <1>8, <1>9, FirstShapes
<1>11. p = at[q] + 1 - 1
  BY <1>5, <1>6
<1>14. Kept(r, w, d, s, q - 1, Rises(Tok(q))[1])
  <2>1. Same(m - 1, q - 1)
    BY <1>7, SameChain
  <2> QED
    BY <1>10, <2>1, KeptSame
<1>15. 1 \in 1..Len(Spelling(Tok(q)))
  BY <1>9
<1>16. Standing(q, 1, p, r, w, d, s)
  <2>1. ~(1 > 1)
    OBVIOUS
  <2> QED
    BY <1>5, <1>10, <1>11, <1>14, <1>15, <2>1 DEF Standing
<1> QED
  BY <1>16

-----------------------------------------------------------------------------
(* Each instruction takes the IP from where a token has it to where one    *)
(* has it.                                                                 *)

LEMMA StandingFacts ==
  ASSUME Whole, NEW i, NEW k, NEW p, NEW r, NEW w, NEW d, NEW s, Standing(i, k, p, r, w, d, s)
  PROVE  /\ Types /\ Spelled /\ AllHoused /\ Len(src) \in Nat /\ Len(code) \in Nat
         /\ i \in 1..(Len(src) + 1) /\ i - 1 \in Nat /\ i \in Nat /\ Tok(i) \in AllTokens
         /\ Len(Spelling(Tok(i))) \in Nat /\ k \in 1..Len(Spelling(Tok(i)))
         /\ at[i] \in Nat /\ at[i] >= 1 /\ p = at[i] + k - 1 /\ p \in 1..Len(code)
         /\ code[p].op = Spelling(Tok(i))[k]
         /\ Nested(i - 1) \in Nat /\ Items(i - 1) \in Int
         /\ Tok(i) # "exit" => i \in 1..Len(src) /\ Tok(i) = src[i]
         /\ Tok(i) = "leave" /\ k > 1 => w
         /\ Kept(r, w, d, s, i - 1, Rises(Tok(i))[k])
         /\ ~w => r = Frame(Nested(i - 1)) /\ d = Items(i - 1) + 2 * s + Rises(Tok(i))[k]
<1>1. Types /\ Spelled /\ AllHoused /\ mode = "ready" /\ Len(src) \in Nat /\ Len(code) \in Nat
  BY TypedLengths DEF Whole
<1>2. /\ i \in 1..(Len(src) + 1) /\ k \in 1..Len(Spelling(Tok(i))) /\ p = at[i] + k - 1
      /\ Tok(i) = "leave" /\ k > 1 => w
      /\ Kept(r, w, d, s, i - 1, Rises(Tok(i))[k])
      /\ ~w => r = Frame(Nested(i - 1)) /\ d = Items(i - 1) + 2 * s + Rises(Tok(i))[k]
  BY DEF Standing, Kept
<1>3. /\ Tok(i) \in AllTokens /\ at[i] \in Nat /\ at[i] >= 1
      /\ i <= Len(src) => /\ Tok(i) = src[i] /\ at[i + 1] \in Nat
                          /\ at[i + 1] = at[i] + Len(Spelling(src[i]))
      /\ \A j \in i..(Len(src) + 1) : at[i] <= at[j] /\ at[j] \in Nat
  BY <1>1, <1>2, CellBounds
<1>4. Len(Spelling(Tok(i))) \in Nat
  BY <1>3, SpellingLength
<1>5. i - 1 \in Nat /\ i \in Nat
  BY <1>1, <1>2
<1>6. Nested(i - 1) \in Nat /\ Items(i - 1) \in Int
  BY <1>5, CountsTyped
<1>7. Len(code) = at[Len(src) + 1] /\ code[Len(code)].op = "exit"
  BY <1>1 DEF Spelled
<1>8. p \in 1..Len(code) /\ code[p].op = Spelling(Tok(i))[k]
  <2>1. CASE i <= Len(src)
    <3>1. i \in 1..Len(src) /\ i + 1 \in 1..(Len(src) + 1)
      BY <1>1, <1>2, <2>1
    <3>2. code[at[i] + k - 1].op = Spelling(src[i])[k]
      BY <1>2, <1>3, <2>1, <3>1 DEF Spelled, Whole
    <3>3. at[i + 1] <= at[Len(src) + 1]
      <4>1. PICK j : j = i + 1
        OBVIOUS
      <4>2. j \in 1..(Len(src) + 1) /\ Len(src) + 1 \in j..(Len(src) + 1)
        BY <1>1, <3>1, <4>1
      <4>3. at[j] <= at[Len(src) + 1]
        BY <1>1, <4>2, CellBounds
      <4> QED
        BY <4>1, <4>3
    <3>4. p >= 1 /\ p < at[i + 1] /\ p \in Int
      BY <1>2, <1>3, <1>4, <2>1, SMTT(30)
    <3> QED
      BY <1>1, <1>2, <1>3, <1>7, <2>1, <3>2, <3>3, <3>4, SMTT(30)
  <2>2. CASE ~(i <= Len(src))
    <3>1. i = Len(src) + 1
      BY <1>1, <1>2, <2>2
    <3>2. Tok(i) = "exit"
      BY <1>1, <3>1 DEF Tok
    <3>3. k = 1 /\ Spelling(Tok(i))[k] = "exit"
      <4>1. PICK x : x = "exit"
        OBVIOUS
      <4>2. Len(Spelling(x)) = 1 /\ Spelling(x)[1] = "exit"
        BY <4>1, SpellingIs
      <4>3. k \in 1..1
        BY <1>2, <3>2, <4>1, <4>2
      <4> QED
        BY <3>2, <4>1, <4>2, <4>3
    <3> QED
      BY <1>1, <1>2, <1>3, <1>7, <3>1, <3>3
  <2> QED
    BY <2>1, <2>2
<1>9. Tok(i) # "exit" => i \in 1..Len(src) /\ Tok(i) = src[i]
  BY DEF Tok
<1> QED
  BY <1>1, <1>2, <1>3, <1>4, <1>5, <1>6, <1>8, <1>9

(* On to cell n of the same token, or behind it.                           *)
LEMMA Onward ==
  ASSUME Whole, NEW i, NEW k, NEW p, NEW r, NEW w, NEW d, NEW s, Standing(i, k, p, r, w, d, s),
         Tok(i) # "exit", NEW n, n \in 2..(Len(Spelling(Tok(i))) + 1),
         n <= Len(Spelling(Tok(i))) => Spelling(Tok(i))[n] # "offset",
         NEW w2, Tok(i) = "leave" => w2,
         NEW p2, p2 = at[i] + n - 1, NEW r2, NEW d2, NEW s2 \in Nat,
         n <= Len(Spelling(Tok(i))) => Kept(r2, w2, d2, s2, i - 1, Rises(Tok(i))[n]),
         n = Len(Spelling(Tok(i))) + 1 => Kept(r2, w2, d2, s2, i, 0)
  PROVE  Stands(p2, r2, w2, d2, s2)
<1>1. /\ Types /\ Spelled /\ AllHoused /\ Len(src) \in Nat /\ i \in Nat
      /\ i \in 1..(Len(src) + 1) /\ Len(Spelling(Tok(i))) \in Nat
      /\ at[i] \in Nat /\ i \in 1..Len(src) /\ Tok(i) = src[i]
  BY StandingFacts
<1>2. CASE n <= Len(Spelling(Tok(i)))
  <2>1. n \in 1..Len(Spelling(Tok(i)))
    BY <1>1, <1>2
  <2>2. Standing(i, n, p2, r2, w2, d2, s2)
    BY <1>1, <1>2, <2>1 DEF Standing
  <2> QED
    BY <2>2 DEF Stands
<1>3. CASE ~(n <= Len(Spelling(Tok(i))))
  <2>1. n = Len(Spelling(Tok(i))) + 1
    BY <1>1, <1>3
  <2>2. at[i + 1] = at[i] + Len(Spelling(src[i])) /\ at[i + 1] \in Nat
    <3>1. i <= Len(src)
      BY <1>1
    <3> QED
      BY <1>1, <3>1, CellBounds
  <2>3. PICK m : m = i + 1
    OBVIOUS
  <2>4. m \in 1..(Len(src) + 1) /\ m - 1 = i
    BY <1>1, <2>3
  <2>5. p2 = at[m]
    BY <1>1, <2>1, <2>2, <2>3
  <2>6. Kept(r2, w2, d2, s2, m - 1, 0)
    BY <2>1, <2>4
  <2>7. \E j : Standing(j, 1, p2, r2, w2, d2, s2)
    BY <1>1, <2>4, <2>5, <2>6, Landing
  <2> QED
    BY <2>7 DEF Stands
<1> QED
  BY <1>2, <1>3

On == Stands(ip, rs, wild, depth, skipped)

LEMMA PrimitiveOn ==
  ASSUME Whole, On, skipped \in Nat, Primitive
  PROVE  Stands(ip', rs', wild', depth', skipped')
<1>1. PICK i, k : Standing(i, k, ip, rs, wild, depth, skipped)
  BY DEF On, Stands
<1> DEFINE t == Tok(i)
<1>2. /\ i \in 1..(Len(src) + 1) /\ i - 1 \in Nat /\ t \in AllTokens /\ Types /\ AllHoused
      /\ Len(Spelling(t)) \in Nat /\ k \in 1..Len(Spelling(t)) /\ at[i] \in Nat
      /\ ip = at[i] + k - 1 /\ code[ip].op = Spelling(t)[k]
      /\ Nested(i - 1) \in Nat /\ Items(i - 1) \in Int
      /\ t # "exit" => i \in 1..Len(src) /\ t = src[i]
      /\ Kept(rs, wild, depth, skipped, i - 1, Rises(t)[k])
  BY <1>1, StandingFacts
<1>3. PICK o : o = Spelling(t)[k]
  OBVIOUS
<1>4. /\ o \in Plain /\ ip' = ip + 1 /\ depth' = depth + Effect(o) /\ rs' = rs /\ wild' = wild
      /\ skipped' = skipped
  BY <1>2, <1>3 DEF Primitive, At
<1>5. PICK n : n = k + 1
  OBVIOUS
<1>6. /\ Follows(t, k, n, Effect(o))
      /\ k = Len(Spelling(t)) => Rises(t)[n] = IGain(t) /\ LGain(t) = 0
  BY <1>2, <1>3, <1>4, <1>5, PlainShapes
<1>7. /\ n \in 2..(Len(Spelling(t)) + 1) /\ Rises(t)[k] \in Int
      /\ Rises(t)[n] = Rises(t)[k] + Effect(o)
      /\ n <= Len(Spelling(t)) => Spelling(t)[n] # "offset"
  BY <1>6 DEF Follows
<1>8. Effect(o) \in Int
  BY <1>4 DEF Effect, Plain
<1>9. t # "exit" /\ t # "leave"
  <2>1. ASSUME t = "exit" PROVE FALSE
    BY <1>2, <1>3, <1>4, <2>1, SpellingIs, SMTT(30) DEF Plain
  <2>2. ASSUME t = "leave" PROVE FALSE
    <3>1. PICK x : x = "leave"
      OBVIOUS
    <3>2. /\ Len(Spelling(x)) = 3 /\ Spelling(x)[1] = "unloop" /\ Spelling(x)[2] = "branch"
          /\ Spelling(x)[3] = "offset"
      BY <3>1, SpellingIs
    <3>3. k \in 1..3 /\ o = Spelling(x)[k]
      BY <1>2, <1>3, <2>2, <3>1, <3>2
    <3> QED
      BY <1>4, <3>2, <3>3 DEF Plain
  <2> QED
    BY <2>1, <2>2
<1>10. PICK p2 : p2 = ip'
  OBVIOUS
<1>11. p2 = at[i] + n - 1
  BY <1>2, <1>4, <1>5, <1>10, SMTT(30)
<1>12. PICK d2 : d2 = depth'
  OBVIOUS
<1>13. Kept(rs, wild, d2, skipped, i - 1, Rises(t)[n])
  <2>1. depth \in Int
    BY <1>2 DEF Kept
  <2>2. PICK e : e = Rises(t)[k]
    OBVIOUS
  <2>3. PICK e2 : e2 = Rises(t)[n]
    OBVIOUS
  <2>4. /\ e \in Int /\ e2 \in Int /\ d2 \in Int
        /\ d2 + 2 * skipped + e = depth + 2 * skipped + e2
    <3>1. PICK f : f = Effect(o)
      OBVIOUS
    <3>2. f \in Int /\ d2 = depth + f /\ e \in Int /\ e2 = e + f
      BY <1>4, <1>7, <1>8, <1>12, <2>2, <2>3, <3>1
    <3> QED
      BY <2>1, <3>2
  <2>5. Kept(rs, wild, depth, skipped, i - 1, e)
    BY <1>2, <2>2
  <2>6. Kept(rs, wild, d2, skipped, i - 1, e2)
    BY <1>2, <2>4, <2>5, KeptShift
  <2> QED
    BY <2>3, <2>6
<1>14. ASSUME n = Len(Spelling(t)) + 1
       PROVE  Kept(rs, wild, d2, skipped, i, 0)
  <2>1. Rises(t)[n] = IGain(t) /\ LGain(t) = 0
    BY <1>2, <1>5, <1>6, <1>14
  <2>2. PICK e : e = Rises(t)[n]
    OBVIOUS
  <2>3. Kept(rs, wild, d2, skipped, i - 1, e) /\ e = IGain(src[i]) /\ LGain(src[i]) = 0
    BY <1>2, <1>9, <1>13, <2>1, <2>2
  <2> QED
    BY <1>2, <1>9, <2>3, KeptGain
<1>15. Stands(p2, rs, wild, d2, skipped)
  BY <1>1, <1>2, <1>7, <1>9, <1>11, <1>13, <1>14, Onward
<1> QED
  BY <1>4, <1>10, <1>12, <1>15

-----------------------------------------------------------------------------
(* Taken, a branch leads to where the IP stands ahead of a token again.    *)

LEMMA Jumped ==
  ASSUME Whole, NEW i, NEW k, NEW s, NEW d,
         Standing(i, k, ip, rs, wild, d, s), Offsets(Tok(i), k), Tok(i) # "exit", Jump,
         NEW d2, NEW s2 \in Nat, Kept(rs, wild, d2, s2, i - 1, 0),
         Tok(i) = "leave" => wild
  PROVE  Stands(ip', rs, wild, d2, s2)
<1> DEFINE t == Tok(i)
<1>1. /\ Types /\ Spelled /\ AllHoused /\ Len(src) \in Nat /\ i \in Nat
      /\ i \in 1..Len(src) /\ t = src[i] /\ Len(Spelling(t)) \in Nat
      /\ k \in 1..Len(Spelling(t)) /\ at[i] \in Nat /\ ip = at[i] + k - 1
      /\ i - 1 \in Nat
  BY StandingFacts
<1>2. t \in Branching /\ Behind(t) = Len(Spelling(t)) - k
  BY DEF Offsets
<1>3. at[i + 1] = at[i] + Len(Spelling(t)) /\ at[i + 1] \in Nat
  <2>1. i <= Len(src) /\ i \in 1..(Len(src) + 1)
    BY <1>1
  <2> QED
    BY <1>1, <2>1, CellBounds
<1>4. Site(i) = ip + 1
  BY <1>1, <1>2, <1>3, SMTT(30) DEF Site, After
<1>5. PICK m \in 1..Len(src) :
        /\ Led(Site(i), After(m))
        /\ src[i] # "leave" => Same(m, i - 1)
        /\ src[i] = "leave" => Items(m) <= Items(i - 1)
  BY <1>1, <1>2, BranchesLand
<1>6. ip + 1 + code[ip + 1].arg = at[m + 1]
  BY <1>4, <1>5 DEF Led, LedIn, After
<1>7. PICK n : n = m + 1
  OBVIOUS
<1>8. n \in 1..(Len(src) + 1) /\ n - 1 = m
  BY <1>1, <1>7
<1>9. PICK p : p = ip'
  OBVIOUS
<1>10. p = at[n]
  BY <1>6, <1>7, <1>9 DEF Jump
<1>11. Kept(rs, wild, d2, s2, n - 1, 0)
  <2>1. CASE t # "leave"
    <3>1. Same(i - 1, m)
      BY <1>1, <1>5, <2>1, SameChain
    <3> QED
      BY <1>8, <3>1, KeptSame
  <2>2. CASE t = "leave"
    <3>1. Items(m) <= Items(i - 1) /\ wild
      BY <1>1, <1>5, <2>2
    <3>2. d2 \in Int /\ d2 >= Items(i - 1) + 2 * s2 + 0
      BY DEF Kept
    <3>3. m \in Nat
      BY <1>5
    <3>4. Items(m) \in Int /\ Items(i - 1) \in Int
      BY <1>1, <3>3, CountsTyped
    <3>5. d2 >= Items(m) + 2 * s2 + 0
      BY <3>1, <3>2, <3>4
    <3> QED
      BY <1>8, <3>1, <3>2, <3>5 DEF Kept
  <2> QED
    BY <2>1, <2>2
<1>12. \E j : Standing(j, 1, p, rs, wild, d2, s2)
  BY <1>1, <1>8, <1>10, <1>11, Landing
<1> QED
  BY <1>9, <1>12 DEF Stands

LEMMA DocolOn ==
  ASSUME Whole, Docol
  PROVE  Stands(ip', rs', wild', depth', skipped')
<1>1. /\ ip' = 1 /\ rs' = <<"return">> /\ wild' = FALSE /\ depth' = 0 /\ skipped' = 0
  BY DEF Docol
<1>2. Types /\ Spelled /\ AllHoused /\ Len(src) \in Nat /\ at[1] = 1
  BY TypedLengths DEF Whole, Spelled
<1>4. PICK m : m = 1
  OBVIOUS
<1>5. m \in 1..(Len(src) + 1) /\ m - 1 = 0 /\ at[m] = 1
  BY <1>2, <1>4
<1>6. ASSUME NEW r, NEW w, NEW z, r = <<"return">>, z = 0
      PROVE  \E j : Standing(j, 1, 1, r, w, z, z)
  <2>1. z \in Nat /\ z \in Int
    BY <1>6
  <2>2. Nested(m - 1) = 0 /\ Items(m - 1) = 0
    BY <1>5, AroundNone
  <2>3. Kept(r, w, z, z, m - 1, 0)
    BY <1>6, <2>1, <2>2, FrameNone DEF Kept
  <2> QED
    BY <1>2, <1>5, <2>1, <2>3, Landing
<1> QED
  BY <1>1, <1>6 DEF Stands

LEMMA BranchOn ==
  ASSUME Whole, On, skipped \in Nat, Branch
  PROVE  Stands(ip', rs', wild', depth', skipped')
<1>1. PICK i, k : Standing(i, k, ip, rs, wild, depth, skipped)
  BY DEF On, Stands
<1> DEFINE t == Tok(i)
<1>2. /\ t \in AllTokens /\ k \in 1..Len(Spelling(t)) /\ code[ip].op = Spelling(t)[k]
      /\ t = "leave" /\ k > 1 => wild
      /\ Kept(rs, wild, depth, skipped, i - 1, Rises(t)[k])
  BY <1>1, StandingFacts
<1>3. /\ code[ip].op = "branch" /\ Jump
      /\ rs' = rs /\ wild' = wild /\ depth' = depth /\ skipped' = skipped
  BY DEF Branch, At
<1>4. Offsets(t, k) /\ Rises(t)[k] = 0
  BY <1>2, <1>3, BranchShapes, ZenonT(60)
<1>5. t # "exit" /\ (t = "leave" => k > 1)
  <2>1. t # "exit"
    BY <1>4 DEF Offsets, Branching, Ahead, Forward, Back
  <2>2. ASSUME t = "leave" PROVE k > 1
    <3>1. PICK x : x = "leave"
      OBVIOUS
    <3>2. Len(Spelling(x)) = 3 /\ Spelling(x)[1] = "unloop"
      BY <3>1, SpellingIs
    <3> QED
      <4>1. k \in 1..3 /\ "branch" = Spelling(x)[k]
        BY <1>2, <1>3, <2>2, <3>1, <3>2
      <4>2. k # 1
        BY <3>2, <4>1
      <4> QED
        BY <4>1, <4>2
  <2> QED
    BY <2>1, <2>2
<1>6. Kept(rs, wild, depth, skipped, i - 1, 0) /\ (t = "leave" => wild)
  BY <1>2, <1>4, <1>5
<1>7. Stands(ip', rs, wild, depth, skipped)
  BY <1>1, <1>3, <1>4, <1>5, <1>6, Jumped
<1> QED
  BY <1>3, <1>7

-----------------------------------------------------------------------------
(* A test that does not jump, and UNLOOP.                                  *)

LEMMA PassesOn ==
  ASSUME Whole, On, NEW i, NEW k, Standing(i, k, ip, rs, wild, depth, skipped),
         Tests(Tok(i), k), NEW p, p = ip + 2, NEW d2, d2 = depth - 1, skipped \in Nat
  PROVE  Stands(p, rs, wild, d2, skipped)
<1> DEFINE t == Tok(i)
<1>1. /\ Types /\ AllHoused /\ t \in AllTokens /\ k \in 1..Len(Spelling(t)) /\ at[i] \in Nat
      /\ ip = at[i] + k - 1 /\ i - 1 \in Nat
      /\ Len(Spelling(t)) \in Nat
      /\ t # "exit" => i \in 1..Len(src) /\ t = src[i]
      /\ Kept(rs, wild, depth, skipped, i - 1, Rises(t)[k])
  BY StandingFacts, SMTT(30)
<1>2. PICK n : n = k + 2
  OBVIOUS
<1>3. p = at[i] + n - 1
  BY <1>1, <1>2
<1>4. t # "exit" /\ t # "leave" /\ k + 1 <= Len(Spelling(t))
  BY DEF Tests, Offsets
<1>5. n \in 2..(Len(Spelling(t)) + 1)
  BY <1>1, <1>2, <1>4
<1>6. n <= Len(Spelling(t)) =>
        Spelling(t)[n] # "offset" /\ Rises(t)[k] \in Int /\ Rises(t)[n] = Rises(t)[k] - 1
  <2> SUFFICES ASSUME n <= Len(Spelling(t))
               PROVE  Spelling(t)[n] # "offset" /\ Rises(t)[k] \in Int
                      /\ Rises(t)[n] = Rises(t)[k] - 1
    OBVIOUS
  <2>1. k + 1 # Len(Spelling(t))
    BY <1>1, <1>2
  <2>2. \/ Spelling(t)[k + 2] = "drop" /\ Rises(t)[k] = 1 /\ Rises(t)[k + 2] = 0
        \/ Spelling(t)[k + 2] = "(do)" /\ Rises(t)[k] = 3 /\ Rises(t)[k + 2] = 2
    BY <2>1 DEF Tests
  <2> QED
    BY <1>2, <2>2
<1>7. ASSUME NEW e \in Int, e = Rises(t)[k], NEW e2 \in Int, e2 = e - 1
      PROVE  Kept(rs, wild, d2, skipped, i - 1, e2)
  <2>1. depth \in Int
    BY <1>1 DEF Kept
  <2>2. d2 \in Int /\ d2 + 2 * skipped + e = depth + 2 * skipped + e2
    BY <1>7, <2>1
  <2>3. Kept(rs, wild, depth, skipped, i - 1, e)
    BY <1>1, <1>7
  <2> QED
    BY <1>1, <2>1, <2>2, <2>3, KeptShift
<1>8. ASSUME n <= Len(Spelling(t))
      PROVE  Kept(rs, wild, d2, skipped, i - 1, Rises(t)[n])
  <2>1. PICK e : e = Rises(t)[k]
    OBVIOUS
  <2>2. PICK e2 : e2 = Rises(t)[n]
    OBVIOUS
  <2>3. e \in Int /\ e2 = e - 1 /\ e2 \in Int
    BY <1>6, <1>8, <2>1, <2>2
  <2>4. Kept(rs, wild, d2, skipped, i - 1, e2)
    BY <1>7, <2>1, <2>3
  <2> QED
    BY <2>2, <2>4
<1>9. ASSUME n = Len(Spelling(t)) + 1
      PROVE  Kept(rs, wild, d2, skipped, i, 0)
  <2>1. t \in {"if", "until", "while", "unless"} /\ Rises(t)[k] = 1
    BY <1>1, <1>2, <1>9 DEF Tests
  <2>2. LGain(t) = 0 /\ IGain(t) = 0
    BY <2>1 DEF LGain, IGain, Loops
  <2>3. Same(i, i - 1)
    BY <1>1, <1>4, <2>2, GainNone
  <2>4. 1 \in Int /\ 0 \in Int /\ 0 = 1 - 1
    OBVIOUS
  <2>5. Kept(rs, wild, d2, skipped, i - 1, 0)
    BY <1>7, <2>1, <2>4
  <2>6. Same(i - 1, i)
    BY <2>3, SameChain
  <2> QED
    BY <2>5, <2>6, KeptSame
<1> QED
  BY <1>3, <1>4, <1>5, <1>6, <1>8, <1>9, Onward

(* Only ?DO branches over the (DO) behind its offset.                      *)
LEMMA SkipsAre ==
  ASSUME Whole, NEW i, NEW k, Standing(i, k, ip, rs, wild, depth, skipped), Tests(Tok(i), k)
  PROVE  SkipsLoop <=> Tok(i) = "?do"
<1> DEFINE t == Tok(i)
<1>1. /\ Types /\ Spelled /\ AllHoused /\ Len(src) \in Nat
      /\ k \in 1..Len(Spelling(t)) /\ at[i] \in Nat /\ i \in Nat
      /\ ip = at[i] + k - 1 /\ Len(Spelling(t)) \in Nat
      /\ t # "exit" => i \in 1..Len(src) /\ t = src[i]
  BY StandingFacts
<1>2. i \in 1..Len(src) /\ t = src[i] /\ k + 1 <= Len(Spelling(t))
  BY <1>1 DEF Tests, Offsets
<1>3. CASE k + 2 = Len(Spelling(t))
  <2>1. PICK n : n = k + 2
    OBVIOUS
  <2>2. n \in 1..Len(Spelling(t)) /\ at[i] + n - 1 = ip + 2
    BY <1>1, <1>3, <2>1
  <2>3. code[at[i] + n - 1].op = Spelling(t)[n]
    BY <1>1, <1>2, <2>2 DEF Spelled
  <2>4. code[ip + 2].op = Spelling(t)[k + 2]
    BY <2>1, <2>2, <2>3
  <2>5. \/ t = "of" /\ Spelling(t)[k + 2] = "drop"
        \/ t = "?do" /\ Spelling(t)[k + 2] = "(do)"
    BY <1>1, <1>3 DEF Tests
  <2> QED
    BY <2>4, <2>5 DEF SkipsLoop
<1>4. CASE k + 2 # Len(Spelling(t))
  <2>1. k + 1 = Len(Spelling(t)) /\ t # "?do"
    BY <1>4 DEF Tests
  <2>2. at[i + 1] = at[i] + Len(Spelling(t))
    <3>1. i <= Len(src) /\ i \in 1..(Len(src) + 1)
      BY <1>1, <1>2
    <3> QED
      BY <1>1, <1>2, <3>1, CellBounds
  <2>3. PICK m : m = i + 1
    OBVIOUS
  <2>4. PICK p : p = ip + 2
    OBVIOUS
  <2>5. m \in 1..(Len(src) + 1) /\ p = at[m]
    BY <1>1, <1>2, <2>1, <2>2, <2>3, <2>4
  <2>6. \E j, d, w, z : Standing(j, 1, p, rs, w, d, z)
    <3>1. PICK w \in BOOLEAN : w
      OBVIOUS
    <3>2. PICK z \in Nat : z = 0
      OBVIOUS
    <3>3. m - 1 \in Nat
      BY <1>1, <2>5
    <3>4. PICK d \in Int : d = Items(m - 1)
      BY <3>3, CountsTyped
    <3>5. d >= Items(m - 1) + 2 * z + 0
      BY <3>2, <3>4
    <3>6. Kept(rs, w, d, z, m - 1, 0)
      BY <3>1, <3>5 DEF Kept
    <3> QED
      BY <1>1, <2>5, <3>6, Landing
  <2>7. PICK j, d, w, z : Standing(j, 1, p, rs, w, d, z)
    BY <2>6
  <2>8. code[p].op = Spelling(Tok(j))[1] /\ Tok(j) \in AllTokens /\ Len(Spelling(Tok(j))) >= 1
    <3>1. /\ code[p].op = Spelling(Tok(j))[1] /\ Tok(j) \in AllTokens
          /\ 1 \in 1..Len(Spelling(Tok(j))) /\ Len(Spelling(Tok(j))) \in Nat
      BY <2>7, StandingFacts
    <3> QED
      BY <3>1
  <2>9. code[p].op # "(do)"
    BY <2>8, FirstShapes
  <2> QED
    BY <2>1, <2>4, <2>9 DEF SkipsLoop
<1> QED
  BY <1>3, <1>4

LEMMA ZBranchOn ==
  ASSUME Whole, On, skipped \in Nat, ZBranch
  PROVE  Stands(ip', rs', wild', depth', skipped')
<1>1. PICK i, k : Standing(i, k, ip, rs, wild, depth, skipped)
  BY DEF On, Stands
<1> DEFINE t == Tok(i)
<1>2. /\ t \in AllTokens /\ k \in 1..Len(Spelling(t)) /\ code[ip].op = Spelling(t)[k]
      /\ i - 1 \in Nat /\ Kept(rs, wild, depth, skipped, i - 1, Rises(t)[k])
  BY <1>1, StandingFacts
<1>3. /\ code[ip].op = "0branch" /\ depth' = depth - 1 /\ rs' = rs /\ wild' = wild
      /\ \/ Pass /\ skipped' = skipped
         \/ Jump /\ skipped' = IF SkipsLoop THEN skipped + 1 ELSE skipped
  BY DEF ZBranch, At
<1>4. Tests(t, k)
  BY <1>2, <1>3, TestShapes
<1>5. CASE Pass /\ skipped' = skipped
  <2>1. PICK p : p = ip'
    OBVIOUS
  <2>2. PICK d2 : d2 = depth'
    OBVIOUS
  <2>3. p = ip + 2 /\ d2 = depth - 1
    BY <1>3, <1>5, <2>1, <2>2 DEF Pass
  <2>4. Stands(p, rs, wild, d2, skipped)
    BY <1>1, <1>4, <2>3, PassesOn
  <2> QED
    BY <1>3, <1>5, <2>1, <2>2, <2>4
<1>6. CASE Jump /\ skipped' = IF SkipsLoop THEN skipped + 1 ELSE skipped
  <2>1. PICK d2 : d2 = depth'
    OBVIOUS
  <2>2. PICK s2 : s2 = skipped'
    OBVIOUS
  <2>3. s2 = IF t = "?do" THEN skipped + 1 ELSE skipped
    BY <1>1, <1>4, <1>6, <2>2, SkipsAre
  <2>4. s2 \in Nat
    BY <2>3
  <2>5. Offsets(t, k) /\ t # "exit" /\ t # "leave" /\ Rises(t)[k] = IF t = "?do" THEN 3 ELSE 1
    BY <1>4 DEF Tests
  <2>6. Kept(rs, wild, d2, s2, i - 1, 0)
    <3>1. PICK e : e = Rises(t)[k]
      OBVIOUS
    <3>2. depth \in Int /\ d2 = depth - 1
      BY <1>2, <1>3, <2>1 DEF Kept
    <3>3. e = IF t = "?do" THEN 3 ELSE 1
      BY <2>5, <3>1
    <3>4. e \in Int /\ d2 \in Int /\ 0 \in Int /\ d2 + 2 * skipped + e = depth + 2 * s2 + 0
      BY <2>3, <3>2, <3>3
    <3>5. Kept(rs, wild, depth, skipped, i - 1, e)
      BY <1>2, <3>1
    <3> QED
      BY <1>2, <2>4, <3>2, <3>4, <3>5, KeptShift
  <2>7. Stands(ip', rs, wild, d2, s2)
    BY <1>1, <1>6, <2>4, <2>5, <2>6, Jumped
  <2> QED
    BY <1>3, <2>1, <2>2, <2>7
<1> QED
  BY <1>3, <1>5, <1>6

LEMMA UnloopOn ==
  ASSUME Whole, On, skipped \in Nat, Unloop
  PROVE  Stands(ip', rs', wild', depth', skipped')
<1>1. PICK i, k : Standing(i, k, ip, rs, wild, depth, skipped)
  BY DEF On, Stands
<1> DEFINE t == Tok(i)
<1>2. /\ t \in AllTokens /\ k \in 1..Len(Spelling(t)) /\ code[ip].op = Spelling(t)[k]
      /\ i \in 1..(Len(src) + 1) /\ at[i] \in Nat /\ ip = at[i] + k - 1
      /\ Kept(rs, wild, depth, skipped, i - 1, Rises(t)[k])
  BY <1>1, StandingFacts
<1>3. /\ code[ip].op = "unloop" /\ wild' = TRUE /\ ip' = ip + 1 /\ skipped' = skipped
      /\ depth' = depth
  BY DEF Unloop, At
<1>4. t = "leave" /\ k = 1
  BY <1>2, <1>3, BranchShapes
<1>5. PICK x : x = "leave"
  OBVIOUS
<1>6. Len(Spelling(x)) = 3 /\ Spelling(x)[2] = "branch"
  BY <1>5, SpellingIs
<1>7. 2 \in 1..Len(Spelling(t)) /\ Spelling(t)[2] # "offset"
  BY <1>4, <1>5, <1>6
<1>8. PICK p : p = ip'
  OBVIOUS
<1>9. p = at[i] + 2 - 1
  BY <1>2, <1>3, <1>4, <1>8
<1>10. PICK r : r = rs'
  OBVIOUS
<1>11. Rises(t)[k] = 0 /\ Rises(t)[2] = 0
  BY <1>4 DEF Rises
<1>12. PICK w \in BOOLEAN : w
  OBVIOUS
<1>13. Kept(r, w, depth, skipped, i - 1, Rises(t)[2])
  BY <1>2, <1>11, <1>12 DEF Kept
<1>14. Standing(i, 2, p, r, w, depth, skipped)
  BY <1>2, <1>7, <1>9, <1>12, <1>13 DEF Standing
<1>15. w = wild'
  BY <1>3, <1>12
<1> QED
  BY <1>3, <1>8, <1>10, <1>14, <1>15 DEF Stands

-----------------------------------------------------------------------------
(* The loops, and EXIT.                                                    *)

LEMMA ParenDoOn ==
  ASSUME Whole, On, skipped \in Nat, ParenDo
  PROVE  Stands(ip', rs', wild', depth', skipped')
<1>1. PICK i, k : Standing(i, k, ip, rs, wild, depth, skipped)
  BY DEF On, Stands
<1> DEFINE t == Tok(i)
<1>2. /\ t \in AllTokens /\ k \in 1..Len(Spelling(t)) /\ code[ip].op = Spelling(t)[k]
      /\ at[i] \in Nat /\ ip = at[i] + k - 1 /\ Len(Spelling(t)) \in Nat
      /\ Types /\ AllHoused /\ i - 1 \in Nat /\ Nested(i - 1) \in Nat /\ Items(i - 1) \in Int
      /\ t # "exit" => i \in 1..Len(src) /\ t = src[i]
      /\ Kept(rs, wild, depth, skipped, i - 1, Rises(t)[k])
  BY <1>1, StandingFacts
<1>3. /\ code[ip].op = "(do)" /\ wild' = wild /\ ip' = ip + 1 /\ skipped' = skipped
      /\ depth' = depth - 2 /\ rs' = <<"index", "limit">> \o rs
  BY DEF ParenDo, At
<1>4. t \in Loops /\ k = Len(Spelling(t)) /\ Rises(t)[k] = 2
  BY <1>2, <1>3, BranchShapes
<1>5. t # "exit" /\ t # "leave" /\ LGain(t) = 1 /\ IGain(t) = 0
  BY <1>4 DEF Loops, LGain, IGain
<1>6. PICK n : n = k + 1
  OBVIOUS
<1>7. PICK p2 : p2 = ip'
  OBVIOUS
<1>8. PICK d2 : d2 = depth'
  OBVIOUS
<1>9. PICK r2 : r2 = rs'
  OBVIOUS
<1>10. /\ n \in 2..(Len(Spelling(t)) + 1) /\ ~(n <= Len(Spelling(t)))
       /\ p2 = at[i] + n - 1
  BY <1>2, <1>3, <1>4, <1>6, <1>7, SMTT(30)
<1>11. Kept(r2, wild, d2, skipped, i, 0)
  <2>1. Nested(i) = Nested(i - 1) + 1 /\ Items(i) = Items(i - 1) + 0
    BY <1>2, <1>5, Gains
  <2>2. <<"index", "limit">> \o Frame(Nested(i - 1)) = Frame(Nested(i))
    BY <1>2, <2>1, FrameMore
  <2>3. /\ depth \in Int /\ depth >= Items(i - 1) + 2 * skipped + 2
        /\ ~wild => rs = Frame(Nested(i - 1)) /\ depth = Items(i - 1) + 2 * skipped + 2
    BY <1>2, <1>4 DEF Kept
  <2>4. /\ d2 \in Int /\ d2 >= Items(i) + 2 * skipped + 0
        /\ depth = Items(i - 1) + 2 * skipped + 2 => d2 = Items(i) + 2 * skipped + 0
    <3>1. d2 = depth - 2 /\ Items(i - 1) \in Int /\ skipped \in Nat
      BY <1>2, <1>3, <1>8
    <3> QED
      BY <2>1, <2>3, <3>1
  <2>5. ~wild => r2 = Frame(Nested(i))
    BY <1>3, <1>9, <2>2, <2>3
  <2> QED
    BY <2>3, <2>4, <2>5 DEF Kept
<1>12. Stands(p2, r2, wild, d2, skipped)
  BY <1>1, <1>5, <1>10, <1>11, Onward
<1> QED
  BY <1>3, <1>7, <1>8, <1>9, <1>12

LEMMA ParenLoopOn ==
  ASSUME Whole, On, skipped \in Nat, ParenLoop
  PROVE  Stands(ip', rs', wild', depth', skipped')
<1>1. PICK i, k : Standing(i, k, ip, rs, wild, depth, skipped)
  BY DEF On, Stands
<1> DEFINE t == Tok(i)
<1>2. /\ t \in AllTokens /\ k \in 1..Len(Spelling(t)) /\ code[ip].op = Spelling(t)[k]
      /\ at[i] \in Nat /\ ip = at[i] + k - 1 /\ Len(Spelling(t)) \in Nat
      /\ Types /\ AllHoused /\ i - 1 \in Nat /\ Nested(i - 1) \in Nat /\ Items(i - 1) \in Int
      /\ t # "exit" => i \in 1..Len(src) /\ t = src[i]
      /\ Kept(rs, wild, depth, skipped, i - 1, Rises(t)[k])
  BY <1>1, StandingFacts
<1>3. /\ code[ip].op \in {"(loop)", "(+loop)"} /\ ~wild /\ wild' = wild /\ skipped' = skipped
      /\ depth' = IF code[ip].op = "(+loop)" THEN depth - 1 ELSE depth
      /\ (rs' = Tail(Tail(rs)) /\ Pass) \/ (rs' = rs /\ Jump)
  BY DEF ParenLoop, At
<1>4. /\ Offsets(t, k) /\ t \in {"loop", "+loop"} /\ k + 1 = Len(Spelling(t))
      /\ Rises(t)[k] = IF code[ip].op = "(+loop)" THEN 1 ELSE 0
  BY <1>2, <1>3, BranchShapes
<1>5. t # "exit" /\ t # "leave" /\ LGain(t) = -1 /\ IGain(t) = 0
  BY <1>4 DEF Loops, LGain, IGain
<1>6. PICK d2 : d2 = depth'
  OBVIOUS
<1>7. Kept(rs, wild, d2, skipped, i - 1, 0)
  <2>1. PICK x : x = Rises(t)[k]
    OBVIOUS
  <2>2. Kept(rs, wild, depth, skipped, i - 1, x) /\ depth \in Int
    BY <1>2, <2>1 DEF Kept
  <2>3. x \in Int /\ 0 \in Int /\ d2 \in Int /\ d2 + 2 * skipped + x = depth + 2 * skipped + 0
    <3>1. CASE code[ip].op = "(+loop)"
      <4>1. x = 1 /\ d2 = depth - 1
        BY <1>3, <1>4, <1>6, <2>1, <3>1
      <4> QED
        BY <2>2, <4>1
    <3>2. CASE code[ip].op # "(+loop)"
      <4>1. x = 0 /\ d2 = depth
        BY <1>3, <1>4, <1>6, <2>1, <3>2
      <4> QED
        BY <2>2, <4>1
    <3> QED
      BY <3>1, <3>2
  <2>4. i - 1 \in Nat
    BY <1>2
  <2> QED
    BY <2>2, <2>3, <2>4, KeptShift
<1>8. CASE rs' = Tail(Tail(rs)) /\ Pass
  <2>1. PICK n : n = k + 2
    OBVIOUS
  <2>2. PICK p2 : p2 = ip'
    OBVIOUS
  <2>3. PICK r2 : r2 = rs'
    OBVIOUS
  <2>4. p2 = ip + 2
    BY <1>8, <2>2 DEF Pass
  <2>5. /\ n \in 2..(Len(Spelling(t)) + 1) /\ ~(n <= Len(Spelling(t)))
        /\ p2 = at[i] + n - 1
    BY <1>2, <1>4, <2>1, <2>4, SMTT(30)
  <2>6. Nested(i) = Nested(i - 1) - 1 /\ Items(i) = Items(i - 1) + 0
    <3>1. Nested(i) = Nested(i - 1) + (-1) /\ Items(i) = Items(i - 1) + 0
      BY <1>2, <1>5, Gains
    <3> QED
      BY <1>2, <3>1
  <2>7. Nested(i) \in Nat
    <3>1. i \in Nat
      BY <1>2, <1>5
    <3> QED
      BY <3>1, CountsTyped
  <2>8. Nested(i - 1) = Nested(i) + 1
    BY <1>2, <2>6, <2>7
  <2>9. Tail(Tail(Frame(Nested(i - 1)))) = Frame(Nested(i))
    BY <2>7, <2>8, FrameMore
  <2>10. Kept(r2, wild, d2, skipped, i, 0)
    <3>1. /\ rs = Frame(Nested(i - 1)) /\ d2 = Items(i - 1) + 2 * skipped + 0 /\ d2 \in Int
      BY <1>3, <1>7 DEF Kept
    <3>2. r2 = Frame(Nested(i))
      BY <1>8, <2>3, <2>9, <3>1
    <3>3. d2 = Items(i) + 2 * skipped + 0 /\ d2 >= Items(i) + 2 * skipped + 0
      BY <1>2, <2>6, <3>1
    <3> QED
      BY <3>1, <3>2, <3>3 DEF Kept
  <2>11. Stands(p2, r2, wild, d2, skipped)
    BY <1>1, <1>5, <2>5, <2>10, Onward
  <2> QED
    BY <1>3, <1>6, <2>2, <2>3, <2>11
<1>9. CASE rs' = rs /\ Jump
  <2>1. Stands(ip', rs, wild, d2, skipped)
    BY <1>1, <1>4, <1>5, <1>7, <1>9, Jumped
  <2> QED
    BY <1>3, <1>6, <1>9, <2>1
<1> QED
  BY <1>3, <1>8, <1>9

(* An EXIT, typed or compiled by ;, is inside no loop and no CASE.         *)
LEMMA NothingAround ==
  ASSUME Whole, NEW i \in 1..(Len(src) + 1), Tok(i) = "exit"
  PROVE  Nested(i - 1) = 0 /\ Items(i - 1) = 0
<1>1. Len(src) \in Nat /\ i - 1 \in Nat
  BY TypedLengths DEF Whole
<1>2. Around(i - 1) \cap {x \in Nat : src[x] \in Loops \cup {"case", "of"}} = {}
  <2>1. CASE i <= Len(src)
    <3>1. i \in 1..Len(src) /\ src[i] = "exit"
      BY <1>1, <2>1 DEF Tok
    <3>2. Housed(i)
      BY <3>1 DEF Whole, AllHoused
    <3>3. "exit" \notin Opens /\ "exit" \notin Closes
      BY DEF Opens, Closes
    <3>4. Around(i) = Around(i - 1)
      BY <1>1, <3>1, <3>3, AroundStays
    <3>5. \A x \in Around(i) : src[x] \notin Loops \cup {"case", "of"}
      BY <3>1, <3>2 DEF Housed
    <3> QED
      BY <3>4, <3>5
  <2>2. CASE ~(i <= Len(src))
    <3>1. i - 1 = Len(src)
      BY <1>1, <2>2
    <3>2. ASSUME NEW x \in Around(Len(src)) PROVE FALSE
      <4>1. Len(src) \in 1..Len(src)
        <5>1. x \in 1..Len(src)
          BY <3>2 DEF Around
        <5> QED
          BY <1>1, <5>1
      <4>2. PICK c \in 1..Len(src) : Len(src) < c
        BY <3>2, <4>1, ClosedBehind
      <4> QED
        BY <1>1, <4>2
    <3> QED
      BY <3>1, <3>2
  <2> QED
    BY <2>1, <2>2
<1>3. ASSUME NEW x \in Around(i - 1) PROVE src[x] \notin Loops \cup {"case", "of"}
  <2>1. x \in Nat
    BY <1>1 DEF Around
  <2> QED
    BY <1>2, <2>1
<1>4. Open(Loops, i - 1) = {} /\ Open({"case"}, i - 1) = {} /\ Open({"of"}, i - 1) = {}
  BY <1>3 DEF Open
<1>5. Cardinality({}) = 0
  BY FS_EmptySet
<1>6. Nested(i - 1) = 0
  BY <1>4, <1>5 DEF Nested
<1>7. Items(i - 1) = Cardinality({}) - Cardinality({})
  BY <1>4 DEF Items
<1> QED
  BY <1>5, <1>6, <1>7

(* Where an EXIT stands, nothing but the return address is on top.         *)
LEMMA AtExit ==
  ASSUME Whole, On, skipped \in Nat, At({"exit"}), ~wild
  PROVE  rs = Frame(0) /\ depth = 2 * skipped
<1>1. PICK i, k : Standing(i, k, ip, rs, wild, depth, skipped)
  BY DEF On, Stands
<1> DEFINE t == Tok(i)
<1>2. /\ t \in AllTokens /\ k \in 1..Len(Spelling(t)) /\ code[ip].op = Spelling(t)[k]
      /\ i \in 1..(Len(src) + 1)
      /\ Kept(rs, wild, depth, skipped, i - 1, Rises(t)[k])
  BY <1>1, StandingFacts
<1>3. t = "exit" /\ k = 1
  <2>1. PICK o : o = Spelling(t)[k]
    OBVIOUS
  <2>2. o = "exit" => t = "exit" /\ k = 1
    BY <1>2, <2>1, BranchShapes
  <2> QED
    BY <1>2, <2>1, <2>2 DEF At
<1>4. Nested(i - 1) = 0 /\ Items(i - 1) = 0
  BY <1>2, <1>3, NothingAround
<1>5. Rises(t)[1] = 0
  BY <1>2, RisesAre
<1>6. rs = Frame(0) /\ depth = 0 + 2 * skipped + 0
  BY <1>2, <1>3, <1>4, <1>5 DEF Kept
<1> QED
  BY <1>6

LEMMA ExitOn ==
  ASSUME Whole, On, skipped \in Nat, ExitWord
  PROVE  ip' = 0 /\ rs' = <<>> /\ depth' = 2 * skipped'
<1>1. /\ At({"exit"}) /\ ~wild /\ skipped' = skipped
      /\ depth' = depth /\ ip' = 0 /\ rs' = Tail(rs)
  BY DEF ExitWord
<1>2. rs = Frame(0) /\ depth = 2 * skipped
  BY <1>1, AtExit
<1> QED
  BY <1>1, <1>2, FrameNone

(* NEXT goes through something else only when UNLOOP has lost RSP.         *)
LEMMA CrashesWild ==
  ASSUME Whole, On, skipped \in Nat, Crash
  PROVE  wild
<1> SUFFICES ASSUME ~wild PROVE FALSE
  OBVIOUS
<1>1. At({"exit"}) /\ Head(rs) # "return"
  BY DEF Crash
<1>2. rs = Frame(0)
  BY <1>1, AtExit
<1>3. Head(Frame(0)) = "return"
  BY FrameNone
<1> QED
  BY <1>1, <1>2, <1>3

-----------------------------------------------------------------------------
(* The invariant: with no LEAVE abandoned before it, a running word stands *)
(* where a token has it.                                                   *)

StackItems == {"return", "index", "limit"}

Runs ==
  /\ skipped \in Nat /\ wild \in BOOLEAN /\ crashed \in BOOLEAN
  /\ ~stale => rs \in Seq(StackItems) /\ (crashed => wild)
  /\ ~stale => /\ ip = 0 => rs = <<>> /\ depth = 2 * skipped
               /\ ip # 0 => mode = "ready" /\ On

RunInv(b) == BranchInv(b) /\ Static /\ Runs

LEMMA WholeIs ==
  ASSUME NEW b, BranchInv(b), Static, ~stale, mode = "ready"
  PROVE  Whole
<1>1. PICK pos, B : Word(b, pos, B) /\ Sound(pos, B)
  BY DEF BranchInv, Branches
<1>2. Types /\ Hist(pos) /\ Right /\ Spelled /\ AllHoused
  BY <1>1 DEF BranchInv, WordInv, Word, Sound, Static
<1>3. open = <<>>
  BY <1>2 DEF Types
<1>4. Len(open) = 0
  BY <1>3
<1>5. ASSUME NEW i \in 1..Len(src), src[i] \in Opens
      PROVE  \E c \in 1..Len(src) : Ends(i, c)
  <2>1. Closed(i)
    BY <1>2, <1>4, <1>5 DEF Hist
  <2> QED
    BY <2>1 DEF Closed
<1> QED
  BY <1>2, <1>5 DEF Whole

(* What a token says does not change while the word stays.                 *)
LEMMA StandsQuiet ==
  ASSUME UNCHANGED cfVars, Stands(ip', rs', wild', depth', skipped')
  PROVE  On'
<1>1. src' = src /\ at' = at
  BY DEF cfVars
<1>2. \A i : Depth(i)' = Depth(i)
  BY <1>1 DEF Depth, Count
<1>3. \A m : Around(m)' = Around(m)
  BY <1>1, <1>2 DEF Around
<1>4. \A kinds, m : Open(kinds, m)' = Open(kinds, m)
  BY <1>1, <1>3 DEF Open
<1>5. \A m : Nested(m)' = Nested(m) /\ Items(m)' = Items(m)
  BY <1>4 DEF Nested, Items
<1>6. \A i : Tok(i)' = Tok(i)
  BY <1>1 DEF Tok
<1>7. PICK i, k : Standing(i, k, ip', rs', wild', depth', skipped')
  BY DEF Stands
<1>8. /\ i \in 1..(Len(src) + 1) /\ k \in 1..Len(Spelling(Tok(i)))
      /\ ip' = at[i] + k - 1 /\ Spelling(Tok(i))[k] # "offset"
      /\ Tok(i) = "leave" /\ k > 1 => wild'
      /\ Kept(rs', wild', depth', skipped', i - 1, Rises(Tok(i))[k])
  BY <1>7 DEF Standing
<1>9. /\ i \in 1..(Len(src') + 1) /\ k \in 1..Len(Spelling(Tok(i)'))
      /\ ip' = at'[i] + k - 1 /\ Spelling(Tok(i)')[k] # "offset"
      /\ Tok(i)' = "leave" /\ k > 1 => wild'
  BY <1>1, <1>6, <1>8
<1>10. PICK x : x = Rises(Tok(i))[k]
  OBVIOUS
<1>11. Kept(rs, wild, depth, skipped, i - 1, x)'
  BY <1>5, <1>8, <1>10 DEF Kept
<1>12. x = Rises(Tok(i)')[k]
  BY <1>6, <1>10
<1> QED
  BY <1>9, <1>11, <1>12 DEF On, Stands, Standing

LEMMA StandsSomewhere ==
  ASSUME Whole, NEW p, NEW r, NEW w, NEW d, NEW s \in Nat, Stands(p, r, w, d, s)
  PROVE  /\ p \in 1..Len(code) /\ code[p].op # "offset" /\ d \in Nat
         /\ ~w => r \in Seq(StackItems)
<1>1. PICK i, k : Standing(i, k, p, r, w, d, s)
  BY DEF Stands
<1>2. /\ p \in 1..Len(code) /\ code[p].op = Spelling(Tok(i))[k] /\ Types /\ AllHoused
      /\ Len(src) \in Nat /\ i \in 1..(Len(src) + 1) /\ i - 1 \in Nat
      /\ Tok(i) \in AllTokens /\ k \in 1..Len(Spelling(Tok(i)))
      /\ Kept(r, w, d, s, i - 1, Rises(Tok(i))[k])
      /\ Nested(i - 1) \in Nat /\ Items(i - 1) \in Int
      /\ ~w => r = Frame(Nested(i - 1))
  BY <1>1, StandingFacts
<1>3. Spelling(Tok(i))[k] # "offset"
  BY <1>1 DEF Standing
<1>4. d \in Nat
  <2>1. PICK e : e = Rises(Tok(i))[k]
    OBVIOUS
  <2>2. e \in Nat
    BY <1>2, <2>1, RisesNat
  <2>3. d \in Int /\ d >= Items(i - 1) + 2 * s + e
    BY <1>2, <2>1 DEF Kept
  <2>4. Items(i - 1) >= 0
    <3>1. i - 1 \in 0..Len(src)
      BY <1>2
    <3> QED
      BY <1>2, <3>1, ItemsHigh DEF High
  <2> QED
    BY <1>2, <2>2, <2>3, <2>4
<1>5. ~w => r \in Seq(StackItems)
  BY <1>2, FrameType DEF StackItems
<1> QED
  BY <1>2, <1>3, <1>4, <1>5

LEMMA RunningStep ==
  ASSUME NEW b, RunInv(b), Running
  PROVE  RunInv(b)'
<1>1. BranchInv(b) /\ Static /\ skipped \in Nat
  BY DEF RunInv, Runs
<1>2. UNCHANGED cfVars
  BY DEF Running, Docol, Primitive, Branch, ZBranch, ParenDo, ParenLoop, Unloop, ExitWord, Crash
<1>3. stale' = stale /\ mode' = mode /\ code' = code
  BY <1>2 DEF cfVars
<1>4. BranchInv(b)' /\ Static'
  BY <1>1, <1>2, <1>3, StutterStep, StutterBranches, StaticQuiet DEF BranchInv
<1>5. skipped' \in Nat /\ wild' \in BOOLEAN /\ crashed' \in BOOLEAN
  <2>1. wild \in BOOLEAN /\ crashed \in BOOLEAN
    BY DEF RunInv, Runs
  <2>2. skipped' \in Nat
    BY <1>1 DEF Running, Docol, Primitive, Branch, ZBranch, ParenDo, ParenLoop, Unloop,
         ExitWord, Crash
  <2>3. wild' = wild \/ wild' = TRUE \/ wild' = FALSE
    BY DEF Running, Docol, Primitive, Branch, ZBranch, ParenDo, ParenLoop, Unloop, ExitWord, Crash
  <2>4. crashed' = crashed \/ crashed' = TRUE
    BY DEF Running, Docol, Primitive, Branch, ZBranch, ParenDo, ParenLoop, Unloop, ExitWord, Crash
  <2> QED
    BY <2>1, <2>2, <2>3, <2>4
<1>6. ASSUME ~stale
      PROVE  /\ rs' \in Seq(StackItems) /\ (crashed' => wild')
             /\ ip' = 0 => rs' = <<>> /\ depth' = 2 * skipped'
             /\ ip' # 0 => mode' = "ready" /\ On'
  <2>1. mode = "ready" /\ (ip # 0 => On)
    <3>1. CASE Docol
      BY <3>1 DEF Docol
    <3>2. CASE ~Docol
      <4>1. ip # 0
        BY <3>2 DEF Running, Primitive, Branch, ZBranch, ParenDo, ParenLoop, Unloop, ExitWord,
             Crash, At
      <4> QED
        BY <1>6, <4>1 DEF RunInv, Runs
    <3> QED
      BY <3>1, <3>2
  <2>2. Whole
    BY <1>1, <1>6, <2>1, WholeIs
  <2>3. wild' => rs' \in Seq(StackItems)
    <3>1. rs \in Seq(StackItems)
      BY <1>6 DEF RunInv, Runs
    <3>2. <<>> \in Seq(StackItems) /\ <<"index", "limit">> \o rs \in Seq(StackItems)
      <4>1. <<"index", "limit">> \in Seq(StackItems)
        BY DEF StackItems
      <4> HIDE DEF StackItems
      <4> QED
        BY <3>1, <4>1, ConcatProperties
    <3> QED
      BY <3>1, <3>2 DEF Running, Docol, Primitive, Branch, ZBranch, ParenDo, ParenLoop, Unloop,
           ExitWord, Crash
  <2>4. crashed' => wild'
    <3>1. CASE Crash
      <4>1. On /\ wild' = wild
        BY <2>1, <3>1 DEF Crash, At
      <4> QED
        BY <1>1, <2>2, <3>1, <4>1, CrashesWild
    <3>2. CASE ~Crash
      BY <3>2 DEF Running, Docol, Primitive, Branch, ZBranch, ParenDo, ParenLoop, Unloop,
           ExitWord, At
    <3> QED
      BY <3>1, <3>2
  <2>5. ASSUME Stands(ip', rs', wild', depth', skipped')
        PROVE  ip' # 0 /\ On' /\ rs' \in Seq(StackItems)
    <3>1. PICK p : p = ip'
      OBVIOUS
    <3>2. PICK s : s = skipped'
      OBVIOUS
    <3>3. s \in Nat /\ Stands(p, rs', wild', depth', s)
      BY <1>5, <2>5, <3>1, <3>2
    <3>4. p \in 1..Len(code) /\ (~wild' => rs' \in Seq(StackItems))
      BY <2>2, <3>3, StandsSomewhere
    <3> QED
      BY <1>2, <2>3, <2>5, <3>1, <3>4, StandsQuiet
  <2>6. CASE Docol
    BY <1>3, <2>1, <2>2, <2>5, <2>6, <2>4, DocolOn
  <2>7. CASE Primitive
    <3>1. On
      BY <2>1, <2>7 DEF Primitive, At
    <3> QED
      BY <1>1, <1>3, <2>1, <2>2, <2>5, <2>7, <2>4, <3>1, PrimitiveOn
  <2>8. CASE Branch
    <3>1. On
      BY <2>1, <2>8 DEF Branch, At
    <3> QED
      BY <1>1, <1>3, <2>1, <2>2, <2>5, <2>8, <2>4, <3>1, BranchOn
  <2>9. CASE ZBranch
    <3>1. On
      BY <2>1, <2>9 DEF ZBranch, At
    <3> QED
      BY <1>1, <1>3, <2>1, <2>2, <2>5, <2>9, <2>4, <3>1, ZBranchOn
  <2>10. CASE ParenDo
    <3>1. On
      BY <2>1, <2>10 DEF ParenDo, At
    <3> QED
      BY <1>1, <1>3, <2>1, <2>2, <2>5, <2>10, <2>4, <3>1, ParenDoOn
  <2>11. CASE ParenLoop
    <3>1. On
      BY <2>1, <2>11 DEF ParenLoop, At
    <3> QED
      BY <1>1, <1>3, <2>1, <2>2, <2>5, <2>11, <2>4, <3>1, ParenLoopOn
  <2>12. CASE Unloop
    <3>1. On
      BY <2>1, <2>12 DEF Unloop, At
    <3> QED
      BY <1>1, <1>3, <2>1, <2>2, <2>5, <2>12, <2>4, <3>1, UnloopOn
  <2>13. CASE ExitWord
    <3>1. On
      BY <2>1, <2>13 DEF ExitWord, At
    <3>2. ip' = 0 /\ rs' = <<>> /\ depth' = 2 * skipped'
      BY <1>1, <2>2, <2>13, <3>1, ExitOn
    <3> QED
      BY <2>4, <3>2
  <2>14. CASE Crash
    <3>1. On
      BY <2>1, <2>14 DEF Crash, At
    <3>2. ip' = ip /\ rs' = rs /\ wild' = wild /\ depth' = depth /\ skipped' = skipped
      BY <2>14 DEF Crash
    <3>3. Stands(ip', rs', wild', depth', skipped')
      BY <3>1, <3>2 DEF On
    <3> QED
      BY <1>3, <2>1, <2>5, <2>4, <3>3
  <2> QED
    BY <2>6, <2>7, <2>8, <2>9, <2>10, <2>11, <2>12, <2>13, <2>14 DEF Running
<1> QED
  BY <1>3, <1>4, <1>5, <1>6 DEF RunInv, Runs

-----------------------------------------------------------------------------
(* The steps that compile, the reboot, and the theorems.                   *)

LEMMA CompilingStep ==
  ASSUME NEW b \in Nat, RunInv(b), Compiling
  PROVE  \E c \in Nat : RunInv(c)'
<1>1. BranchInv(b) /\ WordInv(b) /\ Static /\ CFNext
  BY DEF RunInv, BranchInv, Compiling
<1>2. PICK c \in Nat : BranchInv(c)'
  BY <1>1, BranchStep
<1>3. Static'
  BY <1>1, StaticStep
<1>4. ip' = 0 /\ rs' = <<>> /\ depth' = 0 /\ skipped' = 0
  BY DEF Compiling
<1>5. 0 \in Nat /\ 0 = 2 * 0
  OBVIOUS
<1>6. wild' \in BOOLEAN /\ crashed' \in BOOLEAN /\ rs' \in Seq(StackItems)
      /\ ~crashed'
  <2>1. crashed \in BOOLEAN
    BY DEF RunInv, Runs
  <2>2. wild' \in BOOLEAN /\ crashed' \in BOOLEAN /\ ~crashed'
    BY <2>1 DEF Compiling
  <2>3. rs' \in Seq(StackItems)
    BY <1>4
  <2> QED
    BY <2>2, <2>3
<1>7. Runs'
  BY <1>4, <1>5, <1>6 DEF Runs
<1> QED
  BY <1>2, <1>3, <1>7 DEF RunInv

LEMMA RebootStep ==
  ASSUME NEW b \in Nat, RunInv(b), Reboot
  PROVE  \E c \in Nat : RunInv(c)'
<1>1. /\ cs' = <<>> /\ ls' = <<>> /\ stale' = FALSE /\ code' = <<>>
      /\ mode' = "compile" /\ open' = <<>> /\ src' = <<>> /\ at' = <<1>>
      /\ ip' = 0 /\ rs' = <<>> /\ depth' = 0 /\ skipped' = 0
  BY DEF Reboot, NewWord
<1>2. /\ cs' \in Seq(Nat) /\ ls' \in Seq(Nat \ {0}) /\ Len(cs') = 0
      /\ Len(ls') <= LeaveCells
  BY <1>1, ControlFlowAssumption
<1>3. Fresh'
  BY <1>1, <1>2 DEF Fresh
<1>4. BranchInv(Len(cs))'
  BY <1>3, FreshInv
<1>5. Static'
  BY StaticNew DEF Reboot
<1>6. 0 \in Nat /\ 0 = 2 * 0
  OBVIOUS
<1>7. Runs'
  <2>1. wild' \in BOOLEAN /\ crashed' \in BOOLEAN /\ ~crashed'
    BY DEF Reboot
  <2>2. rs' \in Seq(StackItems)
    BY <1>1
  <2> QED
    BY <1>1, <1>6, <2>1, <2>2 DEF Runs
<1>8. Len(cs') \in Nat
  BY <1>2
<1> QED
  BY <1>4, <1>5, <1>7, <1>8 DEF RunInv

LEMMA RunsFirst == Init => RunInv(0)
<1> SUFFICES ASSUME Init PROVE RunInv(0)
  OBVIOUS
<1>1. CFInit /\ Idle
  BY DEF Init
<1>2. /\ cs \in Seq(Nat) /\ ls \in Seq(Nat \ {0}) /\ Len(cs) = 0 /\ ~stale
      /\ Len(ls) <= LeaveCells
  BY <1>1, ControlFlowAssumption DEF CFInit
<1>3. Fresh
  BY <1>1, <1>2 DEF CFInit, Fresh
<1>4. BranchInv(0)
  BY <1>2, <1>3, FreshWord, FreshBranches DEF BranchInv
<1>5. Static
  <2>1. src = <<>> /\ at = <<1>> /\ mode = "compile"
    BY <1>1 DEF CFInit
  <2>2. Len(src) = 0 /\ at[1] = 1
    BY <2>1
  <2> QED
    BY <2>1, <2>2 DEF Static, Spelled, AllHoused
<1>6. 0 \in Nat /\ 0 = 2 * 0
  OBVIOUS
<1>7. Runs
  <2>1. rs \in Seq(StackItems)
    BY <1>1 DEF Idle
  <2> QED
    BY <1>1, <1>6, <2>1 DEF Runs, Idle
<1> QED
  BY <1>4, <1>5, <1>7 DEF RunInv

LEMMA RunStep ==
  ASSUME NEW b \in Nat, RunInv(b), [Next]_vars
  PROVE  \E c \in Nat : RunInv(c)'
<1>1. CASE Compiling
  BY <1>1, CompilingStep
<1>2. CASE Running
  BY <1>2, RunningStep
<1>3. CASE Reboot
  BY <1>3, RebootStep
<1>4. CASE UNCHANGED vars
  <2>1. UNCHANGED cfVars /\ stale' = stale /\ mode' = mode
    BY <1>4 DEF vars, cfVars
  <2>2. ip' = ip /\ rs' = rs /\ wild' = wild /\ depth' = depth /\ skipped' = skipped
        /\ crashed' = crashed
    BY <1>4 DEF vars, runVars
  <2>3. BranchInv(b)' /\ Static'
    BY <2>1, StutterStep, StutterBranches, StaticQuiet DEF BranchInv, RunInv
  <2>4. On => On'
    <3> SUFFICES ASSUME On PROVE On'
      OBVIOUS
    <3>1. Stands(ip', rs', wild', depth', skipped')
      BY <2>2 DEF On
    <3> QED
      BY <2>1, <3>1, StandsQuiet
  <2>5. Runs'
    BY <2>1, <2>2, <2>4 DEF RunInv, Runs
  <2> QED
    BY <2>3, <2>5 DEF RunInv
<1> QED
  BY <1>1, <1>2, <1>3, <1>4 DEF Next

(* Standing at a token is what the discipline speaks of.                   *)
LEMMA AtToken ==
  ASSUME Whole, On, skipped \in Nat, NEW i \in 1..Len(src), ip = at[i], ~wild
  PROVE  rs = Frame(Nested(i - 1)) /\ depth = Items(i - 1) + 2 * skipped
<1>1. PICK j, k : Standing(j, k, ip, rs, wild, depth, skipped)
  BY DEF On, Stands
<1>2. /\ Types /\ Spelled /\ AllHoused /\ Len(src) \in Nat
      /\ j \in 1..(Len(src) + 1) /\ k \in 1..Len(Spelling(Tok(j))) /\ at[j] \in Nat
      /\ Len(Spelling(Tok(j))) \in Nat /\ Tok(j) \in AllTokens
      /\ ip = at[j] + k - 1 /\ Items(j - 1) \in Int
      /\ rs = Frame(Nested(j - 1)) /\ depth = Items(j - 1) + 2 * skipped + Rises(Tok(j))[k]
  BY <1>1, StandingFacts
<1>3. i <= j
  <2> SUFFICES ASSUME j < i PROVE FALSE
    BY <1>2
  <2>1. j <= Len(src)
    BY <1>2
  <2>2. at[j + 1] = at[j] + Len(Spelling(Tok(j))) /\ at[j + 1] \in Nat
    BY <1>2, <2>1, CellBounds
  <2>3. PICK m : m = j + 1
    OBVIOUS
  <2>4. m \in 1..(Len(src) + 1) /\ i \in m..(Len(src) + 1)
    BY <1>2, <2>1, <2>3
  <2>5. at[m] <= at[i] /\ at[i] \in Nat
    BY <1>2, <2>4, CellBounds
  <2> QED
    BY <1>2, <2>2, <2>3, <2>5, SMTT(30)
<1>4. at[i] <= at[j] /\ at[i] \in Nat
  <2>1. i \in 1..(Len(src) + 1) /\ j \in i..(Len(src) + 1)
    BY <1>2, <1>3
  <2>2. i \in i..(Len(src) + 1)
    BY <1>2
  <2> QED
    BY <1>2, <2>1, <2>2, CellBounds
<1>5. k = 1 /\ at[j] = at[i]
  BY <1>2, <1>4
<1>6. Same(j - 1, i - 1)
  <2>1. i \in 1..(Len(src) + 1) /\ j \in i..(Len(src) + 1)
    BY <1>2, <1>3
  <2> QED
    BY <1>2, <1>5, <2>1, LevelRun
<1>7. Nested(j - 1) = Nested(i - 1) /\ Items(j - 1) = Items(i - 1)
  BY <1>6 DEF Same
<1>8. Rises(Tok(j))[k] = 0
  BY <1>2, <1>5, RisesAre
<1>9. depth = Items(i - 1) + 2 * skipped
  BY <1>2, <1>7, <1>8
<1> QED
  BY <1>2, <1>7, <1>9

LEMMA AroundAre ==
  ASSUME Types, NEW i \in 1..Len(src)
  PROVE  LoopsAround(i) = Nested(i - 1) /\ ItemsAround(i) = Items(i - 1)
<1>1. Len(src) \in Nat
  BY TypedLengths
<1>2. {"do", "?do"} \in SUBSET Opens /\ {"case"} \in SUBSET Opens /\ {"of"} \in SUBSET Opens
  BY DEF Opens
<1>3. LoopsAround(i) = Cardinality(Open({"do", "?do"}, i - 1))
  BY <1>1, <1>2, AroundEncloses DEF LoopsAround
<1>4. Enclosing({"case"}, i) = Cardinality(Open({"case"}, i - 1))
  BY <1>1, <1>2, AroundEncloses
<1>5. Enclosing({"of"}, i) = Cardinality(Open({"of"}, i - 1))
  BY <1>1, <1>2, AroundEncloses
<1> QED
  BY <1>3, <1>4, <1>5 DEF Nested, Items, ItemsAround, Loops

LEMMA RunsDisciplined ==
  ASSUME NEW b \in Nat, RunInv(b), ~stale
  PROVE  FrameDiscipline /\ TypeOK /\ (~wild => WordsReturn)
<1>1. BranchInv(b) /\ Static /\ skipped \in Nat /\ Types
  BY DEF RunInv, Runs, BranchInv, WordInv
<1>2. Len(code) \in Nat
  BY <1>1, TypedLengths
<1>3. ip = 0 => rs = <<>> /\ depth = 2 * skipped
  BY DEF RunInv, Runs
<1>4. ASSUME ip # 0 PROVE Whole /\ On
  BY <1>1, <1>4, WholeIs DEF RunInv, Runs
<1>5. ASSUME ip # 0 PROVE ip \in 1..Len(code) /\ code[ip].op # "offset" /\ depth \in Nat
  BY <1>1, <1>4, <1>5, StandsSomewhere DEF On
<1>6. ASSUME NEW i \in 1..Len(src), ip = at[i], ~wild
      PROVE  /\ rs = [k \in 1..(2 * LoopsAround(i) + 1) |->
                        IF k = 2 * LoopsAround(i) + 1 THEN "return"
                        ELSE IF k % 2 = 1 THEN "index" ELSE "limit"]
             /\ depth = ItemsAround(i) + 2 * skipped
  <2>1. ip # 0
    <3>1. /\ Len(at) = Len(src) + 1 /\ Len(src) \in Nat /\ at \in Seq(Nat)
          /\ \A j, k \in 1..Len(at) : j <= k => at[j] <= at[k]
      BY <1>1, TypedLengths DEF Types
    <3>2. 1 \in 1..Len(at) /\ i \in 1..Len(at) /\ 1 <= i
      BY <3>1
    <3>3. 1 <= at[i] /\ at[i] \in Nat
      BY <1>1, <3>1, <3>2 DEF Static
    <3> QED
      BY <1>6, <3>3
  <2>2. rs = Frame(Nested(i - 1)) /\ depth = Items(i - 1) + 2 * skipped
    BY <1>1, <1>4, <1>6, <2>1, AtToken
  <2>3. LoopsAround(i) = Nested(i - 1) /\ ItemsAround(i) = Items(i - 1)
    BY <1>1, AroundAre
  <2>4. rs = Frame(LoopsAround(i)) /\ depth = ItemsAround(i) + 2 * skipped
    BY <2>2, <2>3
  <2> QED
    BY <2>4 DEF Frame
<1>7. FrameDiscipline
  BY <1>3, <1>6 DEF FrameDiscipline
<1>8. TypeOK
  <2>1. CFTypeOK
    BY <1>1, CompilerTyped
  <2>2. ip \in 0..Len(code) /\ (ip # 0 => code[ip].op # "offset") /\ depth \in Nat
    BY <1>1, <1>2, <1>3, <1>5
  <2>3. \A k \in 1..Len(rs) : rs[k] \in {"return", "index", "limit"}
    <3>1. rs \in Seq(StackItems)
      BY DEF RunInv, Runs
    <3> QED
      BY <3>1, ElementOfSeq DEF StackItems
  <2>4. wild \in BOOLEAN /\ crashed \in BOOLEAN
    BY DEF RunInv, Runs
  <2> QED
    BY <1>1, <2>1, <2>2, <2>3, <2>4 DEF TypeOK
<1>9. ~wild => WordsReturn
  BY DEF RunInv, Runs, WordsReturn
<1> QED
  BY <1>7, <1>8, <1>9

(* With no LEAVE abandoned before it, a word finds at every token the      *)
(* stacks its source says, however it is nested and whichever way its      *)
(* tests go.                                                               *)
THEOREM FramesAreKept == Spec => [](~stale => FrameDiscipline)
<1> DEFINE Inv == \E b \in Nat : RunInv(b)
<1>1. Init => Inv
  BY RunsFirst
<1>2. Inv /\ [Next]_vars => Inv'
  BY RunStep
<1>3. Inv => (~stale => FrameDiscipline)
  BY RunsDisciplined
<1> HIDE DEF Inv
<1> QED
  BY <1>1, <1>2, <1>3, PTL DEF Spec

(* NEXT takes nothing but instructions: the IP stays inside the word and   *)
(* never stops on an offset; nor does a word take from the data stack what *)
(* was there before it.                                                    *)
THEOREM InstructionsOnly == Spec => [](~stale => TypeOK)
<1> DEFINE Inv == \E b \in Nat : RunInv(b)
<1>1. Init => Inv
  BY RunsFirst
<1>2. Inv /\ [Next]_vars => Inv'
  BY RunStep
<1>3. Inv => (~stale => TypeOK)
  BY RunsDisciplined
<1> HIDE DEF Inv
<1> QED
  BY <1>1, <1>2, <1>3, PTL DEF Spec

(* A word brings the system down only when UNLOOP has loaded RSP with what *)
(* is not the return stack, as the UNLOOP of LEAVE does: without that,     *)
(* every word that starts finds its return address where EXIT takes it.    *)
THEOREM OnlyUnloopCrashes == Spec => [](~stale /\ ~wild => WordsReturn)
<1> DEFINE Inv == \E b \in Nat : RunInv(b)
<1>1. Init => Inv
  BY RunsFirst
<1>2. Inv /\ [Next]_vars => Inv'
  BY RunStep
<1>3. Inv => (~stale /\ ~wild => WordsReturn)
  BY RunsDisciplined
<1> HIDE DEF Inv
<1> QED
  BY <1>1, <1>2, <1>3, PTL DEF Spec

-----------------------------------------------------------------------------
(* A system whose programs do not have LEAVE, the only one of the tokens   *)
(* that compiles UNLOOP.                                                   *)

NoLeave == "leave" \notin Vocabulary

WithoutLeave ==
  /\ ls = <<>> /\ stale = FALSE /\ wild = FALSE
  /\ \A i \in 1..Len(src) : src[i] # "leave"

LEMMA TokenWithout ==
  ASSUME NoLeave, NEW b, WordInv(b), WithoutLeave, CompileToken
  PROVE  /\ ls' = <<>> /\ stale' = FALSE
         /\ \A i \in 1..Len(src') : src'[i] # "leave"
<1>1. PICK t : Enters(t)
  BY TokenSpelt DEF Spelt
<1>2. stale' = FALSE /\ src' = Append(src, t) /\ t # "leave"
  BY <1>1 DEF Enters, Extended, WithoutLeave, NoLeave
<1>3. \A i \in 1..Len(src') : src'[i] # "leave"
  <2>1. src \in Seq(AllTokens)
    BY DEF WordInv, Types
  <2> QED
    BY <1>2, <2>1 DEF WithoutLeave
<1>4. ls' = <<>>
  <2>1. ls = <<>>
    BY DEF WithoutLeave
  <2>2. ~Leave
    BY DEF Leave, Token, NoLeave
  <2>3. ASSUME Loop \/ PlusLoop PROVE ls' = <<>>
    <3>1. PICK n : n = Resolvable(cs[2])
      OBVIOUS
    <3>2. n = 0
      <4>1. Len(ls) = 0 /\ 0..Len(ls) = {0}
        BY <2>1
      <4> QED
        BY <3>1, <4>1 DEF Resolvable
    <3>3. ls' = SubSeq(ls, n + 1, Len(ls))
      BY <2>3, <3>1 DEF Loop, PlusLoop, CompileLoop
    <3>4. n + 1 = 1 /\ Len(ls) = 0
      BY <2>1, <3>2
    <3>5. ls' = SubSeq(ls, 1, 0)
      BY <3>3, <3>4
    <3>6. SubSeq(ls, 1, 0) = <<>>
      BY SubSeqEmpty
    <3> QED
      BY <3>5, <3>6
  <2>4. CASE ~(Loop \/ PlusLoop)
    <3>1. Work \/ Exit \/ If \/ Unless \/ Else \/ Then => ls' = ls
      BY DEF Work, Exit, If, Unless, CompileIf, Else, CompileElse, Then
    <3>2. Begin \/ Until \/ Again \/ While \/ Repeat => ls' = ls
      BY DEF Begin, Until, Again, While, Repeat
    <3>3. Case \/ Of \/ EndOf \/ EndCase \/ Do \/ QDo => ls' = ls
      BY DEF Case, Of, EndOf, CompileElse, EndCase, Do, QDo
    <3> QED
      BY <2>1, <2>2, <2>4, <3>1, <3>2, <3>3 DEF CompileToken
  <2> QED
    BY <2>3, <2>4
<1> QED
  BY <1>2, <1>3, <1>4

LEMMA UnloopIsOfLeave ==
  ASSUME NEW b, RunInv(b), ~stale, At({"unloop"})
  PROVE  \E i \in 1..Len(src) : src[i] = "leave"
<1>1. ip # 0 /\ code[ip].op = "unloop"
  BY DEF At
<1>2. Whole /\ On
  BY <1>1, WholeIs DEF RunInv, Runs
<1>3. PICK i, k : Standing(i, k, ip, rs, wild, depth, skipped)
  BY <1>2 DEF On, Stands
<1>4. /\ Tok(i) \in AllTokens /\ k \in 1..Len(Spelling(Tok(i)))
      /\ code[ip].op = Spelling(Tok(i))[k]
      /\ Tok(i) # "exit" => i \in 1..Len(src) /\ Tok(i) = src[i]
  <2>1. skipped \in Nat
    BY DEF RunInv, Runs
  <2> QED
    BY <1>2, <1>3, <2>1, StandingFacts
<1>5. Tok(i) = "leave"
  BY <1>1, <1>4, BranchShapes
<1> QED
  BY <1>4, <1>5

LEMMA WithoutStep ==
  ASSUME NoLeave, NEW b \in Nat, RunInv(b), WithoutLeave, [Next]_vars
  PROVE  WithoutLeave'
<1>1. CASE Compiling
  <2>1. wild' = FALSE /\ CFNext /\ WordInv(b)
    BY <1>1 DEF Compiling, RunInv, BranchInv
  <2>2. CASE CompileToken
    BY <2>1, <2>2, TokenWithout DEF WithoutLeave
  <2>3. CASE Semicolon
    BY <2>1, <2>3 DEF Semicolon, WithoutLeave
  <2>4. CASE Abandon \/ Forget \/ Restart
    <3>1. src' = <<>> /\ Len(src') = 0 /\ ls' = <<>> /\ stale' = FALSE
      BY <2>4 DEF Abandon, Forget, Restart, NewWord, WithoutLeave
    <3> QED
      BY <2>1, <3>1 DEF WithoutLeave
  <2> QED
    BY <2>1, <2>2, <2>3, <2>4 DEF CFNext
<1>2. CASE Running
  <2>1. ls' = ls /\ stale' = stale /\ src' = src
    BY <1>2 DEF Running, Docol, Primitive, Branch, ZBranch, ParenDo, ParenLoop, Unloop,
         ExitWord, Crash, cfVars
  <2>2. ~Unloop
    BY UnloopIsOfLeave DEF WithoutLeave, Unloop
  <2>3. wild' = FALSE
    BY <1>2, <2>2 DEF Running, Docol, Primitive, Branch, ZBranch, ParenDo, ParenLoop,
         ExitWord, Crash, WithoutLeave
  <2> QED
    BY <2>1, <2>3 DEF WithoutLeave
<1>3. CASE Reboot
  <2>1. src' = <<>> /\ Len(src') = 0 /\ ls' = <<>> /\ stale' = FALSE /\ wild' = FALSE
    BY <1>3 DEF Reboot, NewWord
  <2> QED
    BY <2>1 DEF WithoutLeave
<1>4. CASE UNCHANGED vars
  BY <1>4 DEF vars, cfVars, runVars, WithoutLeave
<1> QED
  BY <1>1, <1>2, <1>3, <1>4 DEF Next

(* Where programs have no LEAVE, no word brings the system down, however   *)
(* they nest their structures and whatever words they give up.             *)
THEOREM WordsWithoutLeaveReturn ==
  ASSUME NoLeave PROVE Spec => []WordsReturn
<1> DEFINE Inv == (\E b \in Nat : RunInv(b)) /\ WithoutLeave
<1>1. Init => Inv
  <2> SUFFICES ASSUME Init PROVE Inv
    OBVIOUS
  <2>1. src = <<>> /\ Len(src) = 0 /\ ls = <<>> /\ stale = FALSE /\ wild = FALSE
    BY DEF Init, CFInit, Idle
  <2>2. WithoutLeave
    BY <2>1 DEF WithoutLeave
  <2> QED
    BY <2>2, RunsFirst
<1>2. Inv /\ [Next]_vars => Inv'
  BY RunStep, WithoutStep
<1>3. Inv => WordsReturn
  BY RunsDisciplined DEF WithoutLeave
<1> HIDE DEF Inv
<1> QED
  BY <1>1, <1>2, <1>3, PTL DEF Spec

=============================================================================
