------------------------- MODULE BranchTargets_proofs -------------------------
(***************************************************************************)
(* Where the branches that the control-flow words compile lead, for every  *)
(* vocabulary, every nesting and every length of a word.                   *)
(***************************************************************************)
EXTENDS ControlFlow_proofs

-----------------------------------------------------------------------------
(* Where the branches go.  A token has at most one offset, in one of the   *)
(* last two of its cells.                                                  *)

Forward   == {"else", "while", "of", "?do", "endof"}
Back      == {"until", "again", "repeat", "loop", "+loop"}
Ahead     == Forward \cup {"if", "unless"}
Branching == Ahead \cup Back \cup {"leave"}

Behind(t) == IF t \in {"of", "?do"} THEN 2 ELSE 1
Site(i)   == After(i) - Behind(src[i])

(* A cell with an offset that is filled in, and where that leads.          *)
LedIn(c, b, a) ==
  b \in 1..Len(c) /\ c[b].op = "offset" /\ c[b].arg # 0 /\ b + c[b].arg = a
Led(b, a) == LedIn(code, b, a)

(* Cells that hold no offset, added behind c.                              *)
PlainCell(x) == x.op # "offset" /\ x.arg = 0

Plainly(c, p) ==
  /\ p \in Seq(CodeCells) /\ Len(p) >= Len(c)
  /\ \A a \in 1..Len(c) : p[a] = c[a]
  /\ \A a \in (Len(c) + 1)..Len(p) : PlainCell(p[a])

(* What a token t does to the cells c: it adds its own, its offset is one  *)
(* back to dest or still to be filled in, and those in the cells A now     *)
(* lead behind it.                                                         *)
Written(c, p, t, A, dest) ==
  LET s == Len(p) + 1 - Behind(t) IN
  /\ p \in Seq(CodeCells) /\ Len(p) >= Len(c)
  /\ \A a \in 1..Len(c) :
       /\ a \notin A => p[a] = c[a]
       /\ a \in A => p[a].op = c[a].op /\ a + p[a].arg = Len(p) + 1
  /\ t \in Branching =>
       /\ s > Len(c) + 1 /\ s <= Len(p) /\ p[s].op = "offset"
       /\ p[s].arg = IF t \in Back THEN dest - s ELSE 0
  /\ \A a \in (Len(c) + 1)..Len(p) : PlainCell(p[a]) \/ (t \in Branching /\ a = s)

LEMMA OperandFacts ==
  ASSUME NEW k \in {1, 2}
  PROVE  /\ Operands(k) \in Seq(CodeCells) /\ Len(Operands(k)) = k
         /\ \A i \in 1..k : Operands(k)[i] = Op("lit")
<1>1. Op("lit") \in CodeCells
  BY CellFacts DEF Ops
<1>2. Operands(k) \in [1..k -> CodeCells] /\ k \in Nat
  BY <1>1 DEF Operands
<1>3. Operands(k) \in Seq(CodeCells)
  BY <1>2, IsASeq
<1>4. DOMAIN Operands(k) = 1..k /\ DOMAIN Operands(k) = 1..Len(Operands(k))
      /\ Len(Operands(k)) \in Nat
  BY <1>2, <1>3, LenProperties
<1>5. \A i \in 1..k : Operands(k)[i] = Op("lit")
  BY DEF Operands
<1> QED
  BY <1>2, <1>3, <1>4, <1>5

LEMMA PlainFacts ==
  ASSUME NEW c \in Seq(CodeCells)
  PROVE  /\ Plainly(c, c)
         /\ \A p : Plainly(c, p) =>
              /\ \A new \in Seq(CodeCells) :
                   (\A k \in 1..Len(new) : PlainCell(new[k])) => Plainly(c, p \o new)
              /\ \A o \in Ops \ {"offset"} : Plainly(c, Append(p, Op(o)))
              /\ \A k \in {1, 2} : Plainly(c, p \o Operands(k))
<1>1. Len(c) \in Nat
  BY LenProperties
<1>2. Plainly(c, c)
  BY <1>1 DEF Plainly
<1>3. ASSUME NEW p, Plainly(c, p), NEW new \in Seq(CodeCells),
             \A k \in 1..Len(new) : PlainCell(new[k])
      PROVE  Plainly(c, p \o new)
  <2>1. /\ p \in Seq(CodeCells) /\ Len(p) >= Len(c)
        /\ \A a \in 1..Len(c) : p[a] = c[a]
        /\ \A a \in (Len(c) + 1)..Len(p) : PlainCell(p[a])
    BY <1>3 DEF Plainly
  <2> DEFINE q == p \o new
  <2>2. /\ q \in Seq(CodeCells) /\ Len(p) \in Nat /\ Len(new) \in Nat
        /\ Len(q) = Len(p) + Len(new)
        /\ \A a \in 1..Len(p) : q[a] = p[a]
        /\ \A k \in 1..Len(new) : q[Len(p) + k] = new[k]
    BY <2>1, AppendFacts
  <2> HIDE DEF q
  <2>3. ASSUME NEW a \in (Len(c) + 1)..Len(q) PROVE PlainCell(q[a])
    <3>1. CASE a <= Len(p)
      BY <1>1, <2>1, <2>2, <3>1
    <3>2. CASE ~(a <= Len(p))
      <4>1. a - Len(p) \in 1..Len(new) /\ Len(p) + (a - Len(p)) = a
        BY <1>1, <2>2, <3>2
      <4> QED
        BY <1>3, <2>2, <4>1
    <3> QED
      BY <3>1, <3>2
  <2>4. \A a \in 1..Len(c) : q[a] = c[a]
    BY <1>1, <2>1, <2>2
  <2>5. Len(q) >= Len(c) /\ q \in Seq(CodeCells)
    BY <1>1, <2>1, <2>2
  <2>6. Plainly(c, q)
    BY <2>3, <2>4, <2>5 DEF Plainly
  <2> QED
    BY <2>6 DEF q
<1>4. ASSUME NEW p, Plainly(c, p), NEW o \in Ops \ {"offset"}
      PROVE  Plainly(c, Append(p, Op(o)))
  <2>1. /\ p \in Seq(CodeCells) /\ Op(o) \in CodeCells /\ PlainCell(Op(o))
    BY <1>4, CellFacts DEF Plainly, PlainCell
  <2>2. /\ <<Op(o)>> \in Seq(CodeCells) /\ Len(<<Op(o)>>) = 1
        /\ <<Op(o)>>[1] = Op(o) /\ Append(p, Op(o)) = p \o <<Op(o)>>
    BY <2>1, AppendIsConcat
  <2>3. \A k \in 1..Len(<<Op(o)>>) : PlainCell(<<Op(o)>>[k])
    BY <2>1, <2>2
  <2> QED
    BY <1>3, <1>4, <2>2, <2>3
<1>5. ASSUME NEW p, Plainly(c, p), NEW k \in {1, 2}
      PROVE  Plainly(c, p \o Operands(k))
  <2>1. Op("lit") \in CodeCells /\ PlainCell(Op("lit"))
    BY CellFacts DEF PlainCell, Ops
  <2>2. /\ Operands(k) \in Seq(CodeCells) /\ Len(Operands(k)) = k
        /\ \A i \in 1..k : Operands(k)[i] = Op("lit")
    BY <2>1, OperandFacts
  <2> QED
    BY <1>3, <1>5, <2>1, <2>2
<1> QED
  BY <1>2, <1>3, <1>4, <1>5
(* A token without an offset.                                              *)
LEMMA WrittenPlain ==
  ASSUME NEW c, NEW p, Plainly(c, p), NEW t, t \notin Branching, NEW dest
  PROVE  Written(c, p, t, {}, dest)
BY DEF Plainly, Written

(* A token whose last cells are new, among them its offset.                *)
LEMMA WrittenEnd ==
  ASSUME NEW c \in Seq(CodeCells), NEW p, Plainly(c, p), NEW new \in Seq(CodeCells),
         NEW t \in Branching, NEW dest, NEW m, m = Len(new),
         NEW k \in 1..m, k = m + 1 - Behind(t), Len(p) + k > Len(c) + 1,
         new[k].op = "offset",
         new[k].arg = IF t \in Back THEN dest - (Len(p) + k) ELSE 0,
         \A i \in 1..m : i = k \/ PlainCell(new[i])
  PROVE  Written(c, p \o new, t, {}, dest)
<1> DEFINE q == p \o new
<1>1. /\ Len(c) \in Nat /\ p \in Seq(CodeCells) /\ Len(p) >= Len(c)
      /\ \A a \in 1..Len(c) : p[a] = c[a]
      /\ \A a \in (Len(c) + 1)..Len(p) : PlainCell(p[a])
  BY LenProperties DEF Plainly
<1>2. /\ q \in Seq(CodeCells) /\ Len(p) \in Nat /\ m \in Nat
      /\ Len(q) = Len(p) + m
      /\ \A a \in 1..Len(p) : q[a] = p[a]
      /\ \A i \in 1..m : q[Len(p) + i] = new[i]
  BY <1>1, AppendFacts
<1> HIDE DEF q
<1>3. Len(q) + 1 - Behind(t) = Len(p) + k
  BY <1>2 DEF Behind
<1>4. \A a \in 1..Len(c) : q[a] = c[a]
  BY <1>1, <1>2
<1>5. /\ Len(p) + k > Len(c) + 1 /\ Len(p) + k <= Len(q)
      /\ q[Len(p) + k].op = "offset"
      /\ q[Len(p) + k].arg = IF t \in Back THEN dest - (Len(p) + k) ELSE 0
  <2>1. q[Len(p) + k] = new[k] /\ Len(p) + k <= Len(q)
    BY <1>2
  <2> QED
    BY <2>1
<1>6. ASSUME NEW a \in (Len(c) + 1)..Len(q)
      PROVE  PlainCell(q[a]) \/ a = Len(p) + k
  <2>1. CASE a <= Len(p)
    BY <1>1, <1>2, <2>1
  <2>2. CASE ~(a <= Len(p))
    <3>1. a - Len(p) \in 1..m /\ Len(p) + (a - Len(p)) = a
      BY <1>1, <1>2, <2>2
    <3>2. a - Len(p) = k \/ PlainCell(new[a - Len(p)])
      BY <3>1
    <3>3. q[a] = new[a - Len(p)]
      BY <1>2, <3>1
    <3> QED
      BY <1>2, <3>1, <3>2, <3>3
  <2> QED
    BY <2>1, <2>2
<1>7. Len(q) >= Len(c)
  BY <1>1, <1>2
<1> QED
  BY <1>2, <1>3, <1>4, <1>5, <1>6, <1>7 DEF Written, q

LEMMA WrittenBack ==
  ASSUME NEW c \in Seq(CodeCells), NEW p, Plainly(c, p), Len(p) > Len(c),
         NEW t \in Back, NEW dest \in Nat
  PROVE  Written(c, BackTo(p, dest), t, {}, dest)
<1>1. /\ p \in Seq(CodeCells) /\ Len(p) \in Nat /\ Len(c) \in Nat
  BY LenProperties DEF Plainly
<1> DEFINE x == Offset(dest - (Len(p) + 1))
           new == <<x>>
<1>2. x \in CodeCells /\ x.op = "offset" /\ x.arg = dest - (Len(p) + 1)
  BY <1>1, CellFacts
<1>3. BackTo(p, dest) = p \o new
  BY <1>1, <1>2, AppendIsConcat DEF BackTo
<1> HIDE DEF x
<1>4. new \in Seq(CodeCells) /\ Len(new) = 1 /\ new[1] = x
  BY <1>2
<1>5. t \in Branching /\ Behind(t) = 1
  BY DEF Branching, Back, Behind
<1> HIDE DEF new
<1>6. /\ 1 \in 1..1 /\ 1 = 1 + 1 - Behind(t) /\ Len(p) + 1 > Len(c) + 1
      /\ new[1].op = "offset"
      /\ new[1].arg = IF t \in Back THEN dest - (Len(p) + 1) ELSE 0
      /\ \A i \in 1..1 : i = 1 \/ PlainCell(new[i])
  BY <1>1, <1>2, <1>4, <1>5
<1> QED
  BY <1>3, <1>4, <1>5, <1>6, WrittenEnd

LEMMA WrittenResolve ==
  ASSUME NEW c \in Seq(CodeCells), NEW p, NEW t, NEW A, NEW dest,
         Written(c, p, t, A, dest)
  PROVE  /\ \A a \in 1..Len(c) : Written(c, Resolve(p, a), t, A \cup {a}, dest)
         /\ \A as \in SUBSET (1..Len(c)) :
              Written(c, ResolveAll(p, as), t, A \cup as, dest)
<1>1. /\ Len(c) \in Nat /\ p \in Seq(CodeCells) /\ Len(p) >= Len(c)
      /\ Len(p) \in Nat
  BY LenProperties DEF Written
<1>2. ASSUME NEW as \in SUBSET (1..Len(c)), NEW q \in Seq(CodeCells), Len(q) = Len(p),
             \A i \in 1..Len(p) : /\ q[i].op = p[i].op
                                  /\ i \notin as => q[i] = p[i]
                                  /\ i \in as => q[i].arg = Len(p) + 1 - i
      PROVE  Written(c, q, t, A \cup as, dest)
  <2> DEFINE s == Len(p) + 1 - Behind(t)
  <2>1. /\ \A a \in 1..Len(c) :
             /\ a \notin A => p[a] = c[a]
             /\ a \in A => p[a].op = c[a].op /\ a + p[a].arg = Len(p) + 1
        /\ t \in Branching =>
             /\ s > Len(c) + 1 /\ s <= Len(p) /\ p[s].op = "offset"
             /\ p[s].arg = IF t \in Back THEN dest - s ELSE 0
        /\ \A a \in (Len(c) + 1)..Len(p) :
             PlainCell(p[a]) \/ (t \in Branching /\ a = s)
    BY DEF Written
  <2>2. s \in Int /\ s = Len(q) + 1 - Behind(t)
    BY <1>1, <1>2 DEF Behind
  <2> HIDE DEF s
  <2>3. ASSUME NEW a \in 1..Len(p), a > Len(c) PROVE q[a] = p[a]
    <3>1. a \notin as
      <4>1. \A x \in as : x \in 1..Len(c)
        OBVIOUS
      <4>2. a \notin 1..Len(c)
        BY <1>1, <2>3
      <4> QED
        BY <4>1, <4>2
    <3> QED
      BY <1>2, <3>1
  <2>4. ASSUME NEW a \in 1..Len(c)
        PROVE  /\ a \notin A \cup as => q[a] = c[a]
               /\ a \in A \cup as => q[a].op = c[a].op /\ a + q[a].arg = Len(q) + 1
    <3>1. a \in 1..Len(p)
      BY <1>1
    <3>2. CASE a \in as
      <4>1. q[a].op = p[a].op /\ q[a].arg = Len(p) + 1 - a
        BY <1>2, <3>1, <3>2
      <4>2. p[a].op = c[a].op
        BY <2>1
      <4>3. a + q[a].arg = Len(p) + 1
        BY <1>1, <4>1
      <4> QED
        BY <1>2, <3>2, <4>1, <4>2, <4>3
    <3>3. CASE a \notin as
      BY <1>2, <2>1, <3>1, <3>3
    <3> QED
      BY <3>2, <3>3
  <2>5. t \in Branching =>
          /\ s > Len(c) + 1 /\ s <= Len(q) /\ q[s].op = "offset"
          /\ q[s].arg = IF t \in Back THEN dest - s ELSE 0
    <3>1. ASSUME t \in Branching PROVE q[s] = p[s]
      <4>1. s \in 1..Len(p) /\ s > Len(c)
        BY <1>1, <2>1, <2>2, <3>1
      <4> QED
        BY <2>3, <4>1
    <3> QED
      BY <1>2, <2>1, <3>1
  <2>6. ASSUME NEW a \in (Len(c) + 1)..Len(q)
        PROVE  PlainCell(q[a]) \/ (t \in Branching /\ a = s)
    <3>1. q[a] = p[a] /\ a \in (Len(c) + 1)..Len(p)
      BY <1>1, <1>2, <2>3
    <3> QED
      BY <2>1, <3>1
  <2> QED
    BY <1>1, <1>2, <2>2, <2>4, <2>5, <2>6 DEF Written
<1>3. ASSUME NEW a \in 1..Len(c)
      PROVE  Written(c, Resolve(p, a), t, A \cup {a}, dest)
  <2>1. a \in Int /\ {a} \in SUBSET (1..Len(c))
    BY <1>1
  <2>2. /\ Resolve(p, a) \in Seq(CodeCells) /\ Len(Resolve(p, a)) = Len(p)
        /\ \A i \in 1..Len(p) :
             /\ Resolve(p, a)[i].op = p[i].op
             /\ i \notin {a} => Resolve(p, a)[i] = p[i]
             /\ i \in {a} => Resolve(p, a)[i].arg = Len(p) + 1 - i
    <3>1. /\ Resolve(p, a) \in Seq(CodeCells) /\ Len(Resolve(p, a)) = Len(p)
          /\ \A i \in 1..Len(p) :
               /\ Resolve(p, a)[i].op = p[i].op
               /\ i # a => Resolve(p, a)[i] = p[i]
               /\ i = a => Resolve(p, a)[i].arg = Len(p) + 1 - a
      BY <1>1, <2>1, ResolveFacts
    <3> QED
      BY <3>1
  <2> QED
    BY <1>2, <2>1, <2>2
<1>4. ASSUME NEW as \in SUBSET (1..Len(c))
      PROVE  Written(c, ResolveAll(p, as), t, A \cup as, dest)
  <2>1. /\ ResolveAll(p, as) \in Seq(CodeCells) /\ Len(ResolveAll(p, as)) = Len(p)
        /\ \A i \in 1..Len(p) :
             /\ ResolveAll(p, as)[i].op = p[i].op
             /\ i \notin as => ResolveAll(p, as)[i] = p[i]
             /\ i \in as => ResolveAll(p, as)[i].arg = Len(p) + 1 - i
    <3>1. p \in Seq(CodeCells)
      BY <1>1
    <3>2. \A bs : /\ ResolveAll(p, bs) \in Seq(CodeCells)
                  /\ Len(ResolveAll(p, bs)) = Len(p)
                  /\ \A i \in 1..Len(p) :
                       /\ ResolveAll(p, bs)[i].op = p[i].op
                       /\ i \notin bs => ResolveAll(p, bs)[i] = p[i]
                       /\ i \in bs => ResolveAll(p, bs)[i].arg = Len(p) + 1 - i
      BY <3>1, ResolveFacts
    <3> QED
      BY <3>2
  <2> QED
    BY <1>2, <2>1
<1> QED
  BY <1>3, <1>4

-----------------------------------------------------------------------------
(* What the open structures still owe: the tokens whose offsets are to be  *)
(* filled in, those of the structure at depth d and those of all of them,  *)
(* the LEAVEs of open loops included.                                      *)

Hanging(p, d) == {j \in p[d]..Len(src) : Depth(j) = d /\ src[j] \in Forward}
NoneHangs(p, d) == Hanging(p, d) = {}

Owed(p, d) == Hanging(p, d) \cup {j \in {p[d]} : Up(open, d) \in {"if", "unless"}}

Left    == {i \in 1..Len(src) : src[i] = "leave" /\ \E m \in 1..Len(ls) : ls[m] = Site(i)}
Below(p, k) == UNION {Owed(p, d) : d \in 1..k}
Pending(p)  == Below(p, Len(open)) \cup Left

Zero(c, a) == a \in 1..Len(c) /\ c[a].op = "offset" /\ c[a].arg = 0

(* A holds the cells of the offsets of the tokens D.                       *)
Sites(A, D) == \A a : a \in A <=> \E j \in D : a = Site(j)

(* Each branch has its offset among its own cells.                         *)
Sited ==
  \A j \in 1..Len(src) : src[j] \in Branching => at[j] < Site(j) /\ Site(j) < at[j + 1]

(* The offsets not filled in are those of the pending tokens.              *)
Cells(p) ==
  /\ \A j \in Pending(p) : j \in 1..Len(src) /\ src[j] \in Branching /\ Zero(code, Site(j))
  /\ \A a \in 1..Len(code) :
       /\ code[a].op # "offset" => code[a].arg = 0
       /\ Zero(code, a) => \E j \in Pending(p) : Site(j) = a

LEMMA SiteStays ==
  ASSUME Types, NEW t, Enters(t), NEW N, N = Len(src) + 1
  PROVE  /\ Len(src) \in Nat /\ Len(code) \in Nat /\ Len(code') \in Nat
         /\ Len(src') = Len(src) + 1 /\ src'[N] = t /\ N \in Nat
         /\ \A i \in 1..Len(src) : /\ src'[i] = src[i] /\ After(i)' = After(i)
                                   /\ Site(i)' = Site(i) /\ at'[i] = at[i]
                                   /\ at'[i + 1] = at[i + 1]
         /\ at'[N] = Len(code) + 1 /\ at[N] = Len(code) + 1
         /\ at'[N + 1] = Len(code') + 1
         /\ After(N)' = Len(code') + 1
         /\ Site(N)' = Len(code') + 1 - Behind(t)
         /\ \A i \in 1..N : at[i] \in Nat /\ at[i] <= Len(code) + 1
         /\ \A i, j \in 1..N : i <= j => at[i] <= at[j]
<1>1. /\ Len(src) \in Nat /\ Len(code) \in Nat /\ at \in Seq(Nat)
      /\ Len(at) = Len(src) + 1 /\ mode = "compile"
      /\ \A k \in 1..Len(at) : at[k] <= Len(code) + 1
      /\ at[Len(at)] = Len(code) + 1
      /\ \A j, k \in 1..Len(at) : j <= k => at[j] <= at[k]
  BY TypedLengths DEF Types, Enters
<1>2. /\ Len(src') = Len(src) + 1 /\ src'[Len(src) + 1] = t
      /\ \A k \in 1..Len(src) : src'[k] = src[k]
  BY SrcFacts DEF Enters
<1>3. /\ \A k \in 1..(Len(src) + 1) : at'[k] = at[k]
      /\ at'[Len(src) + 2] = Len(code') + 1 /\ Len(code') \in Nat
  BY AtFacts
<1>4. ASSUME NEW i \in 1..Len(src)
      PROVE  /\ src'[i] = src[i] /\ After(i)' = After(i) /\ Site(i)' = Site(i)
             /\ at'[i] = at[i] /\ at'[i + 1] = at[i + 1]
  <2>1. i \in 1..(Len(src) + 1) /\ i + 1 \in 1..(Len(src) + 1)
    BY <1>1
  <2>2. src'[i] = src[i] /\ at'[i] = at[i] /\ at'[i + 1] = at[i + 1]
    BY <1>2, <1>3, <2>1
  <2> QED
    BY <2>2 DEF Site, After
<1>5. N \in 1..(Len(src) + 1) /\ N = Len(at) /\ N \in Nat
  BY <1>1
<1>6. at'[N] = Len(code) + 1 /\ at[N] = Len(code) + 1
  BY <1>1, <1>3, <1>5
<1>7. at'[N + 1] = Len(code') + 1
  <2>1. N + 1 = Len(src) + 2
    BY <1>1
  <2> QED
    BY <1>3, <2>1
<1>8. After(N)' = Len(code') + 1
  BY <1>7 DEF After
<1>9. Site(N)' = Len(code') + 1 - Behind(t)
  <2>1. src'[N] = t
    BY <1>2
  <2>2. Len(code') \in Nat /\ Behind(t) \in Nat
    BY <1>3 DEF Behind
  <2>3. Site(N)' = at'[N + 1] - Behind(src'[N])
    <3>1. ASSUME NEW M PROVE Site(M)' = at'[M + 1] - Behind(src'[M])
      BY DEF Site, After, Behind
    <3> QED
      BY <3>1
  <2> QED
    BY <1>7, <2>1, <2>2, <2>3
<1>10. \A i \in 1..N : at[i] \in Nat /\ at[i] <= Len(code) + 1
  BY <1>1, ElementOfSeq
<1> QED
  BY <1>1, <1>2, <1>3, <1>4, <1>5, <1>6, <1>7, <1>8, <1>9, <1>10

LEMMA SiteBounds ==
  ASSUME Types, Sited, NEW j \in 1..Len(src), src[j] \in Branching
  PROVE  /\ Site(j) \in Nat /\ at[j] \in Nat /\ at[j] < Site(j) /\ Site(j) <= Len(code)
         /\ Site(j) < at[j + 1] /\ at[j + 1] \in Nat
         /\ \A k \in 1..Len(src) :
              /\ src[k] \in Branching /\ Site(k) = Site(j) => k = j
              /\ k < j => at[k + 1] < Site(j)
              /\ k > j => Site(j) < at[k]
<1>1. /\ Len(src) \in Nat /\ Len(code) \in Nat /\ at \in Seq(Nat)
      /\ Len(at) = Len(src) + 1
      /\ \A k \in 1..Len(at) : at[k] <= Len(code) + 1
      /\ \A i, k \in 1..Len(at) : i <= k => at[i] <= at[k]
  BY TypedLengths DEF Types
<1>2. \A k \in 1..Len(at) : at[k] \in Nat
  BY <1>1, ElementOfSeq
<1>3. \A k \in 1..Len(src) : k \in 1..Len(at) /\ k + 1 \in 1..Len(at)
  BY <1>1
<1>4. \A k \in 1..Len(src) : src[k] \in Branching =>
         at[k] < Site(k) /\ Site(k) < at[k + 1] /\ Site(k) \in Int
  BY <1>2, <1>3 DEF Sited, Site, After, Behind
<1>5. /\ Site(j) \in Nat /\ at[j] \in Nat /\ at[j] < Site(j) /\ Site(j) <= Len(code)
      /\ Site(j) < at[j + 1] /\ at[j + 1] \in Nat
  BY <1>1, <1>2, <1>3, <1>4
<1>6. ASSUME NEW k \in 1..Len(src)
      PROVE  /\ k < j => at[k + 1] < Site(j)
             /\ k > j => Site(j) < at[k]
  <2>1. k < j => at[k + 1] <= at[j]
    <3>1. k < j => k + 1 <= j
      BY <1>1
    <3> QED
      BY <1>1, <1>3, <3>1
  <2>2. k > j => at[j + 1] <= at[k]
    <3>1. k > j => j + 1 <= k
      BY <1>1
    <3> QED
      BY <1>1, <1>3, <3>1
  <2>3. at[k] \in Nat /\ at[k + 1] \in Nat
    BY <1>2, <1>3
  <2> QED
    BY <1>5, <2>1, <2>2, <2>3
<1>7. ASSUME NEW k \in 1..Len(src), src[k] \in Branching, Site(k) = Site(j)
      PROVE  k = j
  <2>1. at[k] < Site(k) /\ Site(k) < at[k + 1] /\ at[k] \in Nat /\ at[k + 1] \in Nat
    BY <1>2, <1>3, <1>4, <1>7
  <2>2. k \in Nat /\ j \in Nat
    BY <1>1
  <2> QED
    BY <1>5, <1>6, <1>7, <2>1, <2>2
<1> QED
  BY <1>5, <1>6, <1>7

(* What a token does to the cells: it fills in the offsets of the tokens D, *)
(* none of the others, and leaves its own to be filled in if it must.      *)
LEMMA CellStep ==
  ASSUME Types, NEW t, Enters(t), NEW N, N = Len(src) + 1, NEW pos, Sited, Cells(pos),
         NEW D, D \subseteq Pending(pos), NEW A, Sites(A, D),
         NEW dest, t \in Back => dest \in Nat /\ dest <= Len(code) + 1,
         Written(code, code', t, A, dest), NEW new,
         Pending(new)' = (Pending(pos) \ D) \cup {j \in {N} : t \in Ahead \cup {"leave"}}
  PROVE  /\ Sited' /\ Cells(new)'
         /\ \A b, a : Led(b, a) => Led(b, a)'
         /\ \A j \in D : LedIn(code', Site(j), Len(code') + 1)
         /\ t \in Back => LedIn(code', Len(code'), dest)
<1>1. /\ Len(src) \in Nat /\ Len(code) \in Nat /\ Len(code') \in Nat
      /\ Len(src') = Len(src) + 1 /\ src'[N] = t /\ N \in Nat
      /\ \A i \in 1..Len(src) : /\ src'[i] = src[i] /\ Site(i)' = Site(i)
                                /\ at'[i] = at[i] /\ at'[i + 1] = at[i + 1]
      /\ at'[N] = Len(code) + 1 /\ at'[N + 1] = Len(code') + 1
      /\ Site(N)' = Len(code') + 1 - Behind(t)
  BY SiteStays
<1> DEFINE s == Len(code') + 1 - Behind(t)
<1>2. s \in Int /\ s = Site(N)'
  BY <1>1 DEF Behind
<1>3. /\ Len(code') >= Len(code)
      /\ \A a \in 1..Len(code) :
           /\ a \notin A => code'[a] = code[a]
           /\ a \in A => code'[a].op = code[a].op /\ a + code'[a].arg = Len(code') + 1
      /\ t \in Branching =>
           /\ s > Len(code) + 1 /\ s <= Len(code') /\ code'[s].op = "offset"
           /\ code'[s].arg = IF t \in Back THEN dest - s ELSE 0
      /\ \A a \in (Len(code) + 1)..Len(code') :
           PlainCell(code'[a]) \/ (t \in Branching /\ a = s)
  BY DEF Written
<1>4. \A j \in Pending(pos) :
        /\ j \in 1..Len(src) /\ src[j] \in Branching /\ Zero(code, Site(j))
  BY DEF Cells
<1>5. \A j, k \in Pending(pos) : Site(j) = Site(k) => j = k
  BY <1>4, SiteBounds
<1> HIDE DEF s
<1>6. Sited'
  <2> SUFFICES ASSUME NEW j \in 1..Len(src'), src'[j] \in Branching
               PROVE  at'[j] < Site(j)' /\ Site(j)' < at'[j + 1]
    BY DEF Sited
  <2>1. CASE j \in 1..Len(src)
    BY <1>1, <2>1 DEF Sited
  <2>2. CASE j = N
    <3>1. t \in Branching
      BY <1>1, <2>2
    <3>2. Site(j)' = s /\ s > Len(code) + 1 /\ s <= Len(code')
      BY <1>2, <1>3, <2>2, <3>1
    <3>3. at'[j] = Len(code) + 1 /\ at'[j + 1] = Len(code') + 1
      BY <1>1, <2>2
    <3> QED
      BY <1>1, <1>2, <3>2, <3>3
  <2> QED
    BY <1>1, <2>1, <2>2
<1>0. \A a : a \in A <=> \E j \in D : a = Site(j)
  BY DEF Sites
<1>7. \A a \in A : Zero(code, a)
  BY <1>0, <1>4
<1>8. ASSUME NEW b, NEW a, Led(b, a) PROVE Led(b, a)'
  <2>1. b \in 1..Len(code) /\ code[b].op = "offset" /\ code[b].arg # 0 /\ b + code[b].arg = a
    BY <1>8 DEF Led, LedIn
  <2>2. b \notin A
    BY <1>7, <2>1 DEF Zero
  <2>3. code'[b] = code[b] /\ b \in 1..Len(code')
    BY <1>1, <1>3, <2>1, <2>2
  <2> QED
    BY <2>1, <2>3 DEF Led, LedIn
<1>9. ASSUME NEW j \in D PROVE LedIn(code', Site(j), Len(code') + 1)
  <2>1. Site(j) \in A /\ Site(j) \in 1..Len(code) /\ code[Site(j)].op = "offset"
    BY <1>0, <1>4 DEF Zero
  <2>2. code'[Site(j)].op = "offset" /\ Site(j) + code'[Site(j)].arg = Len(code') + 1
    BY <1>3, <2>1
  <2>3. Site(j) \in 1..Len(code') /\ Site(j) < Len(code') + 1 /\ Site(j) \in Nat
    BY <1>1, <1>3, <2>1
  <2>4. code'[Site(j)].arg # 0
    BY <1>1, <2>2, <2>3
  <2> QED
    BY <2>2, <2>3, <2>4 DEF LedIn
<1>10. ASSUME t \in Back PROVE LedIn(code', Len(code'), dest)
  <2>1. t \in Branching /\ s = Len(code')
    BY <1>1, <1>10 DEF Branching, Behind, Back, s
  <2>2. /\ code'[Len(code')].op = "offset" /\ Len(code') > Len(code) + 1
        /\ code'[Len(code')].arg = dest - Len(code')
    BY <1>3, <1>10, <2>1
  <2>3. dest \in Nat /\ dest <= Len(code) + 1
    BY <1>10
  <2> QED
    BY <1>1, <2>2, <2>3 DEF LedIn
<1>11. ASSUME NEW j \in Pending(new)'
       PROVE  j \in 1..Len(src') /\ src'[j] \in Branching /\ Zero(code', Site(j)')
  <2>1. CASE j \in Pending(pos) /\ j \notin D
    <3>1. j \in 1..Len(src) /\ src[j] \in Branching /\ Zero(code, Site(j))
      BY <1>4, <2>1
    <3>2. Site(j) \notin A
      BY <1>0, <1>5, <2>1
    <3>3. Site(j) \in 1..Len(code) /\ code'[Site(j)] = code[Site(j)]
      BY <1>3, <3>1, <3>2 DEF Zero
    <3>4. Site(j) \in 1..Len(code') /\ j \in 1..Len(src') /\ src'[j] = src[j]
          /\ Site(j)' = Site(j)
      BY <1>1, <1>3, <3>1, <3>3
    <3> QED
      BY <3>1, <3>3, <3>4 DEF Zero
  <2>2. CASE j = N /\ t \in Ahead \cup {"leave"}
    <3>1. t \in Branching /\ t \notin Back
      BY <2>2 DEF Branching, Ahead, Forward, Back
    <3>2. s > Len(code) + 1 /\ s <= Len(code') /\ code'[s].op = "offset" /\ code'[s].arg = 0
      BY <1>3, <3>1
    <3>3. s \in 1..Len(code')
      BY <1>1, <1>2, <3>2
    <3> QED
      BY <1>1, <1>2, <2>2, <3>1, <3>2, <3>3 DEF Zero
  <2> QED
    BY <1>11, <2>1, <2>2
<1>12. ASSUME NEW a \in 1..Len(code')
       PROVE  /\ code'[a].op # "offset" => code'[a].arg = 0
              /\ Zero(code', a) => \E j \in Pending(new)' : Site(j)' = a
  <2>1. CASE a \in 1..Len(code) /\ a \notin A
    <3>1. code'[a] = code[a] /\ (code[a].op # "offset" => code[a].arg = 0)
      BY <1>3, <2>1 DEF Cells
    <3>2. ASSUME Zero(code', a) PROVE \E j \in Pending(new)' : Site(j)' = a
      <4>1. Zero(code, a)
        BY <2>1, <3>1, <3>2 DEF Zero
      <4>2. PICK j \in Pending(pos) : Site(j) = a
        BY <2>1, <4>1 DEF Cells
      <4>3. j \notin D
        BY <1>0, <2>1, <4>2
      <4>4. j \in Pending(new)' /\ Site(j)' = Site(j)
        BY <1>1, <1>4, <4>2, <4>3
      <4> QED
        BY <4>2, <4>4
    <3> QED
      BY <3>1, <3>2
  <2>2. CASE a \in A
    <3>1. PICK j \in D : a = Site(j)
      BY <1>0, <2>2
    <3>2. LedIn(code', a, Len(code') + 1)
      BY <1>9, <3>1
    <3> QED
      BY <3>2 DEF LedIn, Zero
  <2>3. CASE a \notin 1..Len(code)
    <3>1. a \in (Len(code) + 1)..Len(code')
      BY <1>1, <2>3
    <3>2. CASE PlainCell(code'[a])
      BY <3>2 DEF PlainCell, Zero
    <3>3. CASE t \in Branching /\ a = s
      <4>1. /\ code'[s].op = "offset" /\ s > Len(code) + 1
            /\ code'[s].arg = IF t \in Back THEN dest - s ELSE 0
        BY <1>3, <3>3
      <4>2. CASE t \in Back
        <5>1. dest - s # 0
          BY <1>1, <1>2, <4>1, <4>2
        <5> QED
          BY <3>3, <4>1, <4>2, <5>1 DEF Zero
      <4>3. CASE t \notin Back
        <5>1. t \in Ahead \cup {"leave"}
          BY <3>3, <4>3 DEF Branching
        <5>2. N \in Pending(new)' /\ Site(N)' = a
          BY <1>2, <3>3, <5>1
        <5> QED
          BY <3>3, <4>1, <5>2
      <4> QED
        BY <4>2, <4>3
    <3> QED
      BY <1>3, <3>1, <3>2, <3>3
  <2> QED
    BY <2>1, <2>2, <2>3
<1>13. Cells(new)'
  BY <1>11, <1>12 DEF Cells
<1> QED
  BY <1>6, <1>8, <1>9, <1>10, <1>13

LEMMA OwedFacts ==
  ASSUME Types, NEW pos, Hist(pos)
  PROVE  /\ Len(src) \in Nat /\ Len(open) \in Nat
         /\ \A d \in 1..Len(open) : \A j \in Owed(pos, d) :
              j \in pos[d]..Len(src) /\ j \in 1..Len(src) /\ Depth(j) = d
<1>1. Len(src) \in Nat /\ Len(open) \in Nat
  BY TypedLengths
<1>2. \A d \in 1..Len(open) : pos[d] \in 1..Len(src) /\ Depth(pos[d]) = d
  BY DEF Hist
<1>3. ASSUME NEW d \in 1..Len(open), NEW j \in Owed(pos, d)
      PROVE  j \in pos[d]..Len(src) /\ j \in 1..Len(src) /\ Depth(j) = d
  <2>1. pos[d] \in 1..Len(src) /\ Depth(pos[d]) = d
    BY <1>2
  <2>2. j = pos[d] \/ (j \in pos[d]..Len(src) /\ Depth(j) = d)
    BY <1>3 DEF Owed, Hanging
  <2> QED
    BY <1>1, <2>1, <2>2
<1> QED
  BY <1>1, <1>3

(* The other tokens of an open structure are not its business.             *)
LEMMA OwedKept ==
  ASSUME Types, NEW t, Enters(t), NEW N, N = Len(src) + 1, NEW pos, Hist(pos),
         NEW new, NEW d \in 1..Len(open), new[d] = pos[d]
  PROVE  /\ Hanging(new, d)' = Hanging(pos, d) \cup {j \in {N} : Depth(N)' = d /\ t \in Forward}
         /\ Up(open', d) = Up(open, d) =>
              Owed(new, d)' = Owed(pos, d) \cup {j \in {N} : Depth(N)' = d /\ t \in Forward}
<1>1. /\ Len(src) \in Nat /\ Len(src') = Len(src) + 1 /\ src'[N] = t /\ N \in Nat
      /\ \A i \in 1..Len(src) : src'[i] = src[i]
  BY SiteStays
<1>2. \A i \in 0..Len(src) : Depth(i)' = Depth(i)
  BY DepthExtended DEF Enters
<1>3. pos[d] \in 1..Len(src)
  BY DEF Hist
<1>4. \A j : j \in pos[d]..Len(src') <=> (j \in pos[d]..Len(src) \/ j = N)
  BY <1>1, <1>3
<1>5. \A j \in pos[d]..Len(src) : j \in 1..Len(src) /\ j \in 0..Len(src) /\ j # N
  BY <1>1, <1>3
<1>6. Hanging(new, d)' = {j \in pos[d]..Len(src') : Depth(j)' = d /\ src'[j] \in Forward}
  BY DEF Hanging
<1>7. ASSUME NEW j
      PROVE  j \in Hanging(new, d)' <=>
               j \in Hanging(pos, d) \/ (j = N /\ Depth(N)' = d /\ t \in Forward)
  <2>1. CASE j \in pos[d]..Len(src)
    <3>1. Depth(j)' = Depth(j) /\ src'[j] = src[j] /\ j # N
      BY <1>1, <1>2, <1>5, <2>1
    <3> QED
      BY <1>4, <1>6, <2>1, <3>1 DEF Hanging
  <2>2. CASE j = N
    <3>1. N \in pos[d]..Len(src') /\ N \notin pos[d]..Len(src)
      BY <1>1, <1>4
    <3>2. N \in Hanging(new, d)' <=> Depth(N)' = d /\ t \in Forward
      BY <1>1, <1>6, <3>1
    <3>3. N \notin Hanging(pos, d)
      BY <3>1 DEF Hanging
    <3> QED
      BY <2>2, <3>2, <3>3
  <2>3. CASE j \notin pos[d]..Len(src) /\ j # N
    BY <1>4, <1>6, <2>3 DEF Hanging
  <2> QED
    BY <2>1, <2>2, <2>3
<1>8. Hanging(new, d)' = Hanging(pos, d) \cup {j \in {N} : Depth(N)' = d /\ t \in Forward}
  BY <1>7
<1>9. Owed(new, d)' = Hanging(new, d)' \cup {j \in {pos[d]} : Up(open', d) \in {"if", "unless"}}
  BY DEF Owed
<1> QED
  BY <1>8, <1>9 DEF Owed

LEMMA BelowKept ==
  ASSUME Types, NEW t, Enters(t), NEW N, N = Len(src) + 1, NEW pos, Hist(pos),
         NEW new, NEW k \in 0..Len(open),
         \A d \in 1..k : new[d] = pos[d] /\ Up(open', d) = Up(open, d)
  PROVE  Below(new, k)' = Below(pos, k) \cup {j \in {N} : Depth(N)' \in 1..k /\ t \in Forward}
<1>1. Len(open) \in Nat /\ \A d \in 1..k : d \in 1..Len(open)
  BY TypedLengths
<1>2. ASSUME NEW d \in 1..k
      PROVE  Owed(new, d)' = Owed(pos, d) \cup {j \in {N} : Depth(N)' = d /\ t \in Forward}
  BY <1>1, OwedKept
<1>3. Below(new, k)' = UNION {Owed(new, d)' : d \in 1..k}
  BY DEF Below
<1>4. ASSUME NEW j
      PROVE  j \in Below(new, k)' <=>
               j \in Below(pos, k) \/ (j = N /\ Depth(N)' \in 1..k /\ t \in Forward)
  <2>1. j \in Below(new, k)' <=> \E d \in 1..k : j \in Owed(new, d)'
    BY <1>3
  <2>2. j \in Below(pos, k) <=> \E d \in 1..k : j \in Owed(pos, d)
    BY DEF Below
  <2>3. \A d \in 1..k : j \in Owed(new, d)' <=>
           j \in Owed(pos, d) \/ (j = N /\ Depth(N)' = d /\ t \in Forward)
    BY <1>2
  <2> QED
    BY <2>1, <2>2, <2>3
<1> QED
  BY <1>4

(* The addresses a token takes from the leave stack.                       *)
Taken(r) == {i \in Left : \E m \in 1..r : ls[m] = Site(i)}

LEMMA LeftStays ==
  ASSUME Types, NEW t, Enters(t), t # "leave", NEW pos, Leaves(pos),
         NEW r \in 0..Len(ls), Len(ls') = Len(ls) - r,
         \A k \in 1..(Len(ls) - r) : ls'[k] = ls[r + k]
  PROVE  /\ Left' = Left \ Taken(r)
         /\ \A i \in Left : i \in 1..Len(src) /\ src[i] = "leave"
<1> DEFINE N == Len(src) + 1
<1>1. /\ Len(src) \in Nat /\ Len(src') = N /\ src'[N] = t
      /\ \A i \in 1..Len(src) : src'[i] = src[i] /\ Site(i)' = Site(i)
  <2>1. PICK M : M = Len(src) + 1
    OBVIOUS
  <2> QED
    BY <2>1, SiteStays
<1>2. Len(ls) \in Nat /\ r \in Nat
  BY TypedLengths
<1>3. \A j, k \in 1..Len(ls) : ls[j] = ls[k] => j = k
  <2>1. \A j \in 1..Len(ls) : ls[j] \in Nat
    <3>1. ls \in Seq(Nat \ {0})
      BY DEF Types
    <3> QED
      BY <3>1, ElementOfSeq
  <2>2. \A j, k \in 1..Len(ls) : j < k => ls[j] > ls[k]
    BY DEF Leaves
  <2> QED
    BY <1>2, <2>1, <2>2
<1>4. Left' = {i \in 1..Len(src') : src'[i] = "leave" /\ \E m \in 1..Len(ls') : ls'[m] = Site(i)'}
  BY DEF Left
<1>5. ASSUME NEW i PROVE i \in Left' <=> i \in Left /\ i \notin Taken(r)
  <2>1. CASE i \in 1..Len(src)
    <3>1. src'[i] = src[i] /\ Site(i)' = Site(i) /\ i \in 1..Len(src')
      BY <1>1, <2>1
    <3>2. ASSUME i \in Left' PROVE i \in Left /\ i \notin Taken(r)
      <4>1. PICK m \in 1..Len(ls') : ls'[m] = Site(i)
        BY <1>4, <3>1, <3>2
      <4>2. r + m \in 1..Len(ls) /\ ls[r + m] = Site(i) /\ r + m \notin 1..r
        BY <1>2, <4>1
      <4>3. i \in Left
        BY <1>4, <2>1, <3>1, <3>2, <4>2 DEF Left
      <4>4. ASSUME NEW k \in 1..r, ls[k] = Site(i) PROVE FALSE
        <5>1. k \in 1..Len(ls)
          BY <1>2
        <5> QED
          BY <1>3, <4>2, <4>4, <5>1
      <4> QED
        BY <4>3, <4>4 DEF Taken
    <3>3. ASSUME i \in Left, i \notin Taken(r) PROVE i \in Left'
      <4>1. PICK m \in 1..Len(ls) : ls[m] = Site(i)
        BY <3>3 DEF Left
      <4>2. m \notin 1..r
        BY <3>3, <4>1 DEF Taken
      <4>3. m - r \in 1..(Len(ls) - r) /\ m - r \in 1..Len(ls') /\ r + (m - r) = m
        BY <1>2, <4>1, <4>2
      <4>4. ls'[m - r] = Site(i)
        BY <4>1, <4>3
      <4>5. src[i] = "leave"
        BY <3>3 DEF Left
      <4> QED
        BY <1>4, <3>1, <4>3, <4>4, <4>5
    <3> QED
      BY <3>2, <3>3
  <2>2. CASE i = N
    <3>1. i \notin 1..Len(src) /\ src'[i] # "leave"
      BY <1>1, <2>2
    <3> QED
      BY <1>4, <3>1 DEF Left
  <2>3. CASE i \notin 1..Len(src) /\ i # N
    <3>1. i \notin 1..Len(src')
      BY <1>1, <2>3
    <3> QED
      BY <1>4, <2>3, <3>1 DEF Left
  <2> QED
    BY <2>1, <2>2, <2>3
<1>6. \A i \in Left : i \in 1..Len(src) /\ src[i] = "leave"
  BY DEF Left
<1> QED
  BY <1>5, <1>6

LEMMA LeftGrows ==
  ASSUME Types, Enters("leave"), NEW N, N = Len(src) + 1, Sited,
         Len(code') > Len(code), ls' = <<Len(code')>> \o ls
  PROVE  Left' = Left \cup {N} /\ N \notin Left
<1>1. /\ Len(src) \in Nat /\ Len(code) \in Nat /\ Len(code') \in Nat
      /\ Len(src') = Len(src) + 1 /\ src'[N] = "leave" /\ N \in Nat
      /\ \A i \in 1..Len(src) : src'[i] = src[i] /\ Site(i)' = Site(i)
      /\ Site(N)' = Len(code') + 1 - Behind("leave")
  BY SiteStays
<1>2. Site(N)' = Len(code')
  BY <1>1 DEF Behind
<1>3. /\ Len(ls') = Len(ls) + 1 /\ Len(ls) \in Nat /\ ls'[1] = Len(code')
      /\ \A k \in 1..Len(ls) : ls'[k + 1] = ls[k]
  <2>1. ls \in Seq(Nat \ {0}) /\ Len(code') \in Nat \ {0}
    BY <1>1 DEF Types
  <2> QED
    BY <2>1, PushFacts
<1>4. Left' = {i \in 1..Len(src') : src'[i] = "leave" /\ \E m \in 1..Len(ls') : ls'[m] = Site(i)'}
  BY DEF Left
<1>5. ASSUME NEW i \in 1..Len(src), src[i] = "leave" PROVE Site(i) # Len(code')
  <2>1. src[i] \in Branching
    BY <1>5 DEF Branching
  <2>2. Site(i) \in Nat /\ Site(i) <= Len(code)
    BY <2>1, SiteBounds
  <2> QED
    BY <1>1, <2>2
<1>6. ASSUME NEW i PROVE i \in Left' <=> i \in Left \/ i = N
  <2>1. CASE i \in 1..Len(src)
    <3>1. src'[i] = src[i] /\ Site(i)' = Site(i) /\ i \in 1..Len(src') /\ i # N
      BY <1>1, <2>1
    <3>2. ASSUME i \in Left' PROVE i \in Left
      <4>1. PICK m \in 1..Len(ls') : ls'[m] = Site(i)
        BY <1>4, <3>1, <3>2
      <4>2. src[i] = "leave"
        BY <1>4, <3>1, <3>2
      <4>3. m # 1
        BY <1>3, <1>5, <2>1, <4>1, <4>2
      <4>4. m - 1 \in 1..Len(ls) /\ (m - 1) + 1 = m
        BY <1>3, <4>1, <4>3
      <4>5. ls[m - 1] = Site(i)
        BY <1>3, <4>1, <4>4
      <4> QED
        BY <2>1, <4>2, <4>4, <4>5 DEF Left
    <3>3. ASSUME i \in Left PROVE i \in Left'
      <4>1. src[i] = "leave" /\ \E m \in 1..Len(ls) : ls[m] = Site(i)
        BY <3>3 DEF Left
      <4>2. PICK m \in 1..Len(ls) : ls[m] = Site(i)
        BY <4>1
      <4>3. m + 1 \in 1..Len(ls') /\ ls'[m + 1] = Site(i)
        BY <1>3, <4>2
      <4> QED
        BY <1>4, <3>1, <4>1, <4>3
    <3> QED
      BY <3>1, <3>2, <3>3
  <2>2. CASE i = N
    <3>1. 1 \in 1..Len(ls') /\ N \in 1..Len(src')
      BY <1>1, <1>3
    <3> QED
      BY <1>1, <1>2, <1>3, <1>4, <2>2, <3>1
  <2>3. CASE i \notin 1..Len(src) /\ i # N
    <3>1. i \notin 1..Len(src')
      BY <1>1, <2>3
    <3> QED
      BY <1>4, <2>3, <3>1 DEF Left
  <2> QED
    BY <2>1, <2>2, <2>3
<1>7. N \notin Left
  BY <1>1 DEF Left
<1> QED
  BY <1>6, <1>7

LEMMA BelowSplit ==
  ASSUME NEW n \in Nat, n >= 1, NEW p
  PROVE  /\ Below(p, n) = Below(p, n - 1) \cup Owed(p, n)
         /\ Below(p, n)' = Below(p, n - 1)' \cup Owed(p, n)'
<1>1. \A d : d \in 1..n <=> d \in 1..(n - 1) \/ d = n
  OBVIOUS
<1>2. Below(p, n) = Below(p, n - 1) \cup Owed(p, n)
  BY <1>1 DEF Below
<1>3. Below(p, n)' = UNION {Owed(p, d)' : d \in 1..n}
      /\ Below(p, n - 1)' = UNION {Owed(p, d)' : d \in 1..(n - 1)}
  BY DEF Below
<1> QED
  BY <1>1, <1>2, <1>3

LEMMA PendingIs ==
  /\ \A p, n : n = Len(open) => Pending(p) = Below(p, n) \cup Left
  /\ \A p, n : n = Len(open') => Pending(p)' = Below(p, n)' \cup Left'
<1>1. ASSUME NEW p, NEW n, n = Len(open') PROVE Pending(p)' = Below(p, n)' \cup Left'
  <2>1. ASSUME NEW j PROVE j \in Pending(p)' <=> j \in Below(p, n)' \/ j \in Left'
    <3>1. j \in Below(p, n)' <=> \E d \in 1..n : j \in Owed(p, d)'
      BY DEF Below
    <3>2. j \in Pending(p)' <=> (\E d \in 1..Len(open') : j \in Owed(p, d)') \/ j \in Left'
      BY DEF Pending, Below
    <3> QED
      BY <1>1, <3>1, <3>2
  <2> QED
    BY <2>1
<1> QED
  BY <1>1 DEF Pending

(* The depth behind a token.                                               *)
LEMMA DepthNow ==
  ASSUME Types, NEW t, Enters(t), NEW N, N = Len(src) + 1, NEW pos, Hist(pos)
  PROVE  /\ Depth(N)' = Len(open) + Weight(t)
         /\ Depth(Len(src)) = Len(open) /\ Len(src) \in Nat /\ Len(open) \in Nat
         /\ \A i \in 0..Len(src) : Depth(i)' = Depth(i) /\ Depth(i) \in Int
<1>1. Len(src) \in Nat /\ Len(open) \in Nat
  BY TypedLengths
<1>2. PICK M \in Nat : M = Len(src)
  BY <1>1
<1>3. Depth(M) = Len(open)
  BY <1>2 DEF Hist
<1>4. Depth(Len(src)) = Len(open)
  BY <1>2, <1>3
<1>5. /\ Depth(N)' = Depth(Len(src)) + Weight(t)
      /\ \A i \in 0..Len(src) : Depth(i)' = Depth(i) /\ Depth(i) \in Int
  BY DepthExtended DEF Enters
<1> QED
  BY <1>1, <1>4, <1>5

LEMMA OwedBranches ==
  ASSUME Types, NEW b, NEW B, NEW pos, Hist(pos), Shaped(open, src, at, cs, b, B, pos),
         NEW d \in 1..Len(open), NEW j \in Owed(pos, d)
  PROVE  src[j] \in Branching /\ src[j] # "leave"
<1>1. CASE src[j] \in Forward
  BY <1>1 DEF Branching, Ahead, Forward
<1>2. CASE src[j] \notin Forward
  <2>1. j = pos[d] /\ Up(open, d) \in {"if", "unless"}
    BY <1>2 DEF Owed, Hanging
  <2>2. src[pos[d]] \in Source(Up(open, d))
    BY DEF Shaped, FrameFits
  <2>3. src[j] \in {"if", "unless"}
    BY <2>1, <2>2 DEF Source
  <2> QED
    BY <2>3 DEF Branching, Ahead, Forward
<1> QED
  BY <1>1, <1>2

(* Without what the innermost structure owes, what those around it do.     *)
LEMMA PendingSplit ==
  ASSUME Types, NEW b, NEW B, NEW pos, Hist(pos), Shaped(open, src, at, cs, b, B, pos),
         NEW n, n = Len(open), n >= 1, NEW r
  PROVE  /\ Pending(pos) \ (Owed(pos, n) \cup Taken(r)) =
              Below(pos, n - 1) \cup (Left \ Taken(r))
         /\ Owed(pos, n) \cup Taken(r) \subseteq Pending(pos)
<1>1. n \in Nat /\ n \in 1..Len(open) /\ \A d \in 1..(n - 1) : d \in 1..Len(open) /\ d # n
  BY TypedLengths
<1>2. Pending(pos) = (Below(pos, n - 1) \cup Owed(pos, n)) \cup Left
  BY <1>1, PendingIs, BelowSplit
<1>3. \A d \in 1..Len(open) : \A j \in Owed(pos, d) :
        Depth(j) = d /\ src[j] # "leave"
  BY OwedFacts, OwedBranches
<1>4. \A j \in Owed(pos, n) : j \notin Below(pos, n - 1) /\ j \notin Left
  <2>1. ASSUME NEW j \in Owed(pos, n), j \in Below(pos, n - 1) PROVE FALSE
    <3>1. PICK d \in 1..(n - 1) : j \in Owed(pos, d)
      BY <2>1 DEF Below
    <3>2. Depth(j) = d /\ Depth(j) = n
      BY <1>1, <1>3, <3>1
    <3> QED
      BY <1>1, <3>2
  <2>2. ASSUME NEW j \in Owed(pos, n), j \in Left PROVE FALSE
    BY <1>1, <1>3, <2>2 DEF Left
  <2> QED
    BY <2>1, <2>2
<1>5. \A j \in Below(pos, n - 1) : j \notin Left
  <2>1. ASSUME NEW j \in Below(pos, n - 1), j \in Left PROVE FALSE
    <3>1. PICK d \in 1..(n - 1) : j \in Owed(pos, d)
      BY <2>1 DEF Below
    <3>2. src[j] # "leave"
      BY <1>1, <1>3, <3>1
    <3> QED
      BY <2>1, <3>2 DEF Left
  <2> QED
    BY <2>1
<1>6. Taken(r) \subseteq Left
  BY DEF Taken
<1> QED
  BY <1>2, <1>4, <1>5, <1>6

LEMMA PendPush ==
  ASSUME Types, NEW t \in Opens, Enters(t), NEW N, N = Len(src) + 1, NEW pos, Hist(pos),
         Leaves(pos), open' = <<t>> \o open, ls' = ls,
         NEW m, m = Len(open) + 1, NEW new, new[m] = N,
         \A d \in 1..Len(open) : new[d] = pos[d]
  PROVE  /\ Pending(new)' = (Pending(pos) \ {}) \cup {j \in {N} : t \in Ahead \cup {"leave"}}
         /\ Owed(new, m)' = {j \in {N} : t \in Ahead}
         /\ Len(open') = m /\ Up(open', m) = t
         /\ \A d \in 1..Len(open) : Up(open', d) = Up(open, d) /\ Owed(new, d)' = Owed(pos, d)
<1>1. /\ Depth(N)' = m /\ Len(open) \in Nat /\ m \in Nat
  BY DepthNow DEF Weight
<1>2. /\ Len(open') = m /\ Up(open', m) = t
      /\ \A d \in 1..Len(open) : Up(open', d) = Up(open, d)
  <2>1. open \in Seq(OpenKinds) /\ t \in OpenKinds
    BY DEF Types, OpenKinds
  <2> QED
    BY <2>1, PushFacts
<1>3. PICK n : n = Len(open)
  OBVIOUS
<1>4. Below(new, n)' = Below(pos, n)
  <2>1. n \in 0..Len(open) /\ \A d \in 1..n : new[d] = pos[d] /\ Up(open', d) = Up(open, d)
    BY <1>1, <1>2, <1>3
  <2>2. Below(new, n)' = Below(pos, n) \cup {j \in {N} : Depth(N)' \in 1..n /\ t \in Forward}
    BY <2>1, BelowKept
  <2> QED
    BY <1>1, <1>3, <2>2
<1>5. Owed(new, m)' = {j \in {N} : t \in Ahead}
  <2>1. Owed(new, m)' = {j \in N..Len(src') : Depth(j)' = m /\ src'[j] \in Forward}
                          \cup {j \in {N} : t \in {"if", "unless"}}
    <3>1. ASSUME NEW M, new[M] = N, Up(open', M) = t
          PROVE  Owed(new, M)' = {j \in N..Len(src') : Depth(j)' = M /\ src'[j] \in Forward}
                                   \cup {j \in {N} : t \in {"if", "unless"}}
      BY <3>1 DEF Owed, Hanging
    <3> QED
      BY <1>2, <3>1
  <2>2. Len(src') = N /\ N \in Nat /\ src'[N] = t
    BY SiteStays
  <2>3. \A j : j \in N..Len(src') <=> j = N
    BY <2>2
  <2> QED
    BY <1>1, <2>1, <2>2, <2>3 DEF Ahead
<1>6. Left' = Left
  <2>1. t # "leave"
    BY DEF Opens
  <2>2. /\ 0 \in 0..Len(ls) /\ Len(ls') = Len(ls) - 0
        /\ \A k \in 1..(Len(ls) - 0) : ls'[k] = ls[0 + k]
    BY TypedLengths
  <2>3. Left' = Left \ Taken(0)
    BY <2>1, <2>2, LeftStays
  <2>4. Taken(0) = {}
    BY DEF Taken
  <2> QED
    BY <2>3, <2>4
<1>7. Pending(pos) = Below(pos, n) \cup Left
  BY <1>3, PendingIs
<1>8. Pending(new)' = (Below(new, m - 1)' \cup Owed(new, m)') \cup Left'
  BY <1>1, <1>2, PendingIs, BelowSplit
<1>9. m - 1 = n /\ t # "leave"
  BY <1>1, <1>3 DEF Opens
<1>10. ASSUME NEW d \in 1..Len(open) PROVE Owed(new, d)' = Owed(pos, d)
  <2>1. Owed(new, d)' = Owed(pos, d) \cup {j \in {N} : Depth(N)' = d /\ t \in Forward}
    BY <1>2, OwedKept
  <2> QED
    BY <1>1, <2>1
<1> QED
  BY <1>2, <1>4, <1>5, <1>6, <1>7, <1>8, <1>9, <1>10

LEMMA LeftUnmoved ==
  ASSUME Types, NEW t, Enters(t), t # "leave", NEW pos, Leaves(pos), ls' = ls
  PROVE  Left' = Left /\ Taken(0) = {}
<1>1. /\ 0 \in 0..Len(ls) /\ Len(ls') = Len(ls) - 0
      /\ \A k \in 1..(Len(ls) - 0) : ls'[k] = ls[0 + k]
  BY TypedLengths
<1>2. Left' = Left \ Taken(0)
  BY <1>1, LeftStays
<1>3. Taken(0) = {}
  BY DEF Taken
<1> QED
  BY <1>2, <1>3

LEMMA PendLevel ==
  ASSUME Types, NEW t, Enters(t), t \notin Opens \cup Closes \cup Forward,
         NEW N, N = Len(src) + 1, NEW pos, Hist(pos), Leaves(pos), open' = open,
         Left' = Left \cup {j \in {N} : t = "leave"}
  PROVE  /\ Pending(pos)' = (Pending(pos) \ {}) \cup {j \in {N} : t \in Ahead \cup {"leave"}}
         /\ \A d \in 1..Len(open) : Owed(pos, d)' = Owed(pos, d)
<1>1. PICK n : n = Len(open)
  OBVIOUS
<1>2. Len(open) \in Nat /\ n = Len(open')
  BY <1>1, TypedLengths
<1>3. n \in 0..Len(open) /\ \A d \in 1..n : pos[d] = pos[d] /\ Up(open', d) = Up(open, d)
  BY <1>1, <1>2
<1>4. Below(pos, n)' = Below(pos, n) \cup {j \in {N} : Depth(N)' \in 1..n /\ t \in Forward}
  BY <1>3, BelowKept
<1>5. Pending(pos) = Below(pos, n) \cup Left /\ Pending(pos)' = Below(pos, n)' \cup Left'
  BY <1>1, <1>2, PendingIs
<1>6. t \notin Forward /\ t \notin Ahead
  BY DEF Ahead, Opens
<1>7. \A d \in 1..Len(open) : Owed(pos, d)' = Owed(pos, d)
  <2> TAKE d \in 1..Len(open)
  <2>1. Up(open', d) = Up(open, d)
    OBVIOUS
  <2>2. Owed(pos, d)' = Owed(pos, d) \cup {j \in {N} : Depth(N)' = d /\ t \in Forward}
    BY <2>1, OwedKept
  <2> QED
    BY <1>6, <2>2
<1> QED
  BY <1>4, <1>5, <1>6, <1>7

(* What a token that turns a structure into a t leaves pending.            *)
Turned(p, n, N, t) ==
  /\ Pending(p)' = (Pending(p) \ Owed(p, n)) \cup {j \in {N} : t \in Ahead \cup {"leave"}}
  /\ Owed(p, n) \subseteq Pending(p)
  /\ Owed(p, n)' = {N} /\ Len(open') = n /\ Up(open', n) = t
  /\ \A d \in 1..(n - 1) : Up(open', d) = Up(open, d) /\ Owed(p, d)' = Owed(p, d)

LEMMA PendTurn ==
  ASSUME Types, NEW t \in {"else", "while"}, Enters(t), NEW N, N = Len(src) + 1,
         NEW b, NEW B, NEW pos, Hist(pos), Shaped(open, src, at, cs, b, B, pos),
         Leaves(pos), open # <<>>, open' = <<t>> \o Tail(open), ls' = ls,
         NEW n, n = Len(open), NoneHangs(pos, n)
  PROVE  Turned(pos, n, N, t)
<1>1. /\ open \in Seq(OpenKinds) /\ t \in OpenKinds /\ n \in Nat /\ n >= 1
  <2>1. open \in Seq(OpenKinds)
    BY DEF Types
  <2> QED
    BY <2>1, PopFacts DEF OpenKinds
<1>2. /\ Len(open') = n /\ Up(open', n) = t
      /\ \A d \in 1..(n - 1) : Up(open', d) = Up(open, d)
  <2>1. /\ Len(open') = Len(open) /\ Up(open', Len(open)) = t
        /\ \A d \in 1..(Len(open) - 1) : Up(open', d) = Up(open, d)
    BY <1>1, TurnFacts
  <2> QED
    BY <2>1
<1>3. Depth(N)' = n
  <2>1. Weight(t) = 0
    BY DEF Weight, Opens, Closes
  <2> QED
    BY <1>1, <2>1, DepthNow
<1>4. t \in Forward /\ t \in Ahead
  BY DEF Ahead, Forward
<1>5. Owed(pos, n)' = {N}
  <2>1. n \in 1..Len(open) /\ pos[n] = pos[n]
    BY <1>1
  <2>2. Hanging(pos, n)' = Hanging(pos, n) \cup {j \in {N} : Depth(N)' = n /\ t \in Forward}
    BY <2>1, OwedKept
  <2>3. Hanging(pos, n)' = {N}
    BY <1>3, <1>4, <2>2 DEF NoneHangs
  <2>4. Owed(pos, n)' = Hanging(pos, n)' \cup {j \in {pos[n]} : Up(open', n) \in {"if", "unless"}}
    BY DEF Owed
  <2> QED
    BY <1>2, <2>3, <2>4
<1>6. Below(pos, n - 1)' = Below(pos, n - 1)
  <2>1. n - 1 \in 0..Len(open)
        /\ \A d \in 1..(n - 1) : pos[d] = pos[d] /\ Up(open', d) = Up(open, d)
    BY <1>1, <1>2
  <2>2. Below(pos, n - 1)' = Below(pos, n - 1)
                              \cup {j \in {N} : Depth(N)' \in 1..(n - 1) /\ t \in Forward}
    BY <2>1, BelowKept
  <2>3. Depth(N)' \notin 1..(n - 1)
    BY <1>1, <1>3
  <2> QED
    BY <2>2, <2>3
<1>7. Left' = Left /\ Taken(0) = {}
  BY LeftUnmoved
<1>8. /\ Pending(pos) \ (Owed(pos, n) \cup Taken(0)) = Below(pos, n - 1) \cup (Left \ Taken(0))
      /\ Owed(pos, n) \cup Taken(0) \subseteq Pending(pos)
  BY <1>1, PendingSplit
<1>9. Pending(pos)' = (Below(pos, n - 1)' \cup Owed(pos, n)') \cup Left'
  <2>1. Pending(pos)' = Below(pos, n)' \cup Left'
    BY <1>2, PendingIs
  <2>2. Below(pos, n)' = Below(pos, n - 1)' \cup Owed(pos, n)'
    BY <1>1, BelowSplit
  <2> QED
    BY <2>1, <2>2
<1>10. ASSUME NEW d \in 1..(n - 1) PROVE Owed(pos, d)' = Owed(pos, d)
  <2>1. d \in 1..Len(open) /\ Up(open', d) = Up(open, d) /\ d # n
    BY <1>1, <1>2
  <2>2. Owed(pos, d)' = Owed(pos, d) \cup {j \in {N} : Depth(N)' = d /\ t \in Forward}
    BY <2>1, OwedKept
  <2> QED
    BY <1>3, <2>1, <2>2
<1> QED
  BY <1>2, <1>4, <1>5, <1>6, <1>7, <1>8, <1>9, <1>10 DEF Turned

(* A token t that closes the structure at depth n and takes the top r      *)
(* leave addresses, and what it leaves pending.                            *)
Drops(r) ==
  /\ r \in 0..Len(ls) /\ Len(ls') = Len(ls) - r
  /\ \A k \in 1..(Len(ls) - r) : ls'[k] = ls[r + k]

Shut(new, p, n, r, N, t) ==
  /\ Pending(new)' = (Pending(p) \ (Owed(p, n) \cup Taken(r)))
                       \cup {j \in {N} : t \in Ahead \cup {"leave"}}
  /\ Owed(p, n) \cup Taken(r) \subseteq Pending(p)
  /\ Len(open') = n - 1
  /\ \A d \in 1..(n - 1) :
       /\ Up(open', d) = Up(open, d)
       /\ Owed(new, d)' = Owed(p, d) \cup {j \in {N} : t = "endof" /\ d = n - 1}

LEMMA PendClose ==
  ASSUME Types, NEW t \in Closes, Enters(t), NEW N, N = Len(src) + 1,
         NEW b, NEW B, NEW pos, Hist(pos), Shaped(open, src, at, cs, b, B, pos),
         Leaves(pos), open # <<>>, open' = Tail(open),
         NEW n, n = Len(open), t = "endof" => n > 1,
         NEW r, Drops(r), NEW new, Agree(new, pos, n - 1)
  PROVE  Shut(new, pos, n, r, N, t)
<1>0. /\ r \in 0..Len(ls) /\ Len(ls') = Len(ls) - r
      /\ \A k \in 1..(Len(ls) - r) : ls'[k] = ls[r + k]
      /\ \A d \in 1..(n - 1) : new[d] = pos[d]
  BY DEF Drops, Agree
<1>1. /\ open \in Seq(OpenKinds) /\ n \in Nat /\ n >= 1 /\ Len(open') = n - 1
      /\ \A d \in 1..(n - 1) : Up(open', d) = Up(open, d)
  BY OpenPopped
<1>2. Depth(N)' = n - 1
  <2>1. Weight(t) = 0 - 1
    BY DEF Weight, Opens, Closes
  <2> QED
    BY <1>1, <2>1, DepthNow
<1>3. /\ t \in Forward <=> t = "endof"
      /\ t \in Ahead \cup {"leave"} <=> t = "endof"
      /\ t # "leave"
  BY DEF Ahead, Forward, Closes
<1>4. Below(new, n - 1)' = Below(pos, n - 1) \cup {j \in {N} : t = "endof"}
  <2>1. n - 1 \in 0..Len(open)
        /\ \A d \in 1..(n - 1) : new[d] = pos[d] /\ Up(open', d) = Up(open, d)
    BY <1>0, <1>1
  <2>2. Below(new, n - 1)' = Below(pos, n - 1)
                              \cup {j \in {N} : Depth(N)' \in 1..(n - 1) /\ t \in Forward}
    <3>1. PICK k : k = n - 1
      OBVIOUS
    <3>2. k \in 0..Len(open) /\ \A d \in 1..k : new[d] = pos[d] /\ Up(open', d) = Up(open, d)
      BY <2>1, <3>1
    <3>3. Below(new, k)' = Below(pos, k) \cup {j \in {N} : Depth(N)' \in 1..k /\ t \in Forward}
      BY <3>2, BelowKept
    <3> QED
      BY <3>1, <3>3
  <2>3. t = "endof" => n - 1 \in 1..(n - 1)
    BY <1>1
  <2> QED
    BY <1>2, <1>3, <2>2, <2>3
<1>5. Left' = Left \ Taken(r)
  BY <1>0, <1>3, LeftStays
<1>6. /\ Pending(pos) \ (Owed(pos, n) \cup Taken(r)) = Below(pos, n - 1) \cup (Left \ Taken(r))
      /\ Owed(pos, n) \cup Taken(r) \subseteq Pending(pos)
  <2>1. \A q : q = Len(open) /\ q >= 1 => \A x :
          /\ Pending(pos) \ (Owed(pos, q) \cup Taken(x)) = Below(pos, q - 1) \cup (Left \ Taken(x))
          /\ Owed(pos, q) \cup Taken(x) \subseteq Pending(pos)
    BY PendingSplit
  <2> QED
    BY <1>1, <2>1
<1>7. Pending(new)' = Below(new, n - 1)' \cup Left'
  BY <1>1, PendingIs
<1>8. ASSUME NEW d \in 1..(n - 1)
      PROVE  Owed(new, d)' = Owed(pos, d) \cup {j \in {N} : t = "endof" /\ d = n - 1}
  <2>1. d \in 1..Len(open)
    BY <1>1
  <2>3. Up(open', d) = Up(open, d) /\ new[d] = pos[d]
    BY <1>0, <1>1
  <2>2. Owed(new, d)' = Owed(pos, d) \cup {j \in {N} : Depth(N)' = d /\ t \in Forward}
    BY <2>1, <2>3, OwedKept
  <2> QED
    BY <1>2, <1>3, <2>2
<1> QED
  BY <1>1, <1>3, <1>4, <1>5, <1>6, <1>7, <1>8 DEF Shut

-----------------------------------------------------------------------------
(* What the items of the parameter stack are: the offsets a structure owes *)
(* and where its way back leads.                                           *)

Owes(p, B, d) ==
  LET kind == Up(open, d)
      owed == Owed(p, d)
      top  == Up(cs, B[d])
  IN /\ kind \in {"if", "unless", "of"} => owed = {p[d]} /\ top = Site(p[d])
     /\ kind = "else" =>
          \E j \in owed : /\ owed = {j} /\ src[j] = "else" /\ top = Site(j)
                          /\ Led(Site(p[d]), After(j))
     /\ kind = "begin" => owed = {} /\ top = After(p[d])
     /\ kind = "while" =>
          \E j \in owed : owed = {j} /\ Up(cs, B[d] - 1) = Site(j) /\ top = After(p[d])
     /\ kind = "case" => {Up(cs, q) : q \in (B[d - 1] + 2)..B[d]} = {Site(j) : j \in owed}
     /\ kind = "do" => owed = {} /\ top = 0
     /\ kind = "?do" => owed = {p[d]} /\ top # 0

LEMMA OwesStays ==
  ASSUME Types, NEW t, Enters(t), NEW b, NEW B, NEW pos, Hist(pos),
         Shaped(open, src, at, cs, b, B, pos), NEW d \in 1..Len(open), Owes(pos, B, d),
         NEW new, new[d] = pos[d], Up(open', d) = Up(open, d),
         NEW B2, B2[d] = B[d], B2[d - 1] = B[d - 1],
         \A q \in 1..B[d] : Up(cs', q) = Up(cs, q),
         Owed(new, d)' = Owed(pos, d), \A x, a : Led(x, a) => Led(x, a)'
  PROVE  Owes(new, B2, d)'
<1>1. PICK N : N = Len(src) + 1
  OBVIOUS
<1>2. \A i \in 1..Len(src) : src'[i] = src[i] /\ After(i)' = After(i) /\ Site(i)' = Site(i)
  BY <1>1, SiteStays
<1>3. \A j \in Owed(pos, d) : j \in 1..Len(src)
  BY OwedFacts
<1>4. pos[d] \in 1..Len(src)
  BY DEF Hist
<1>5. /\ B[d] \in Nat /\ B[d - 1] \in Nat /\ B[d - 1] < B[d]
      /\ Up(open, d) = "while" => B[d] = B[d - 1] + 2
  <2>1. Up(open, d) # "case" => B[d] = B[d - 1] + Wide(Up(open, d))
    BY DEF Shaped, FrameFits
  <2> QED
    BY <2>1, ShapeFacts DEF Wide
<1>6. Up(cs', B2[d]) = Up(cs, B[d])
  BY <1>5
<1>7. Site(new[d])' = Site(pos[d]) /\ After(new[d])' = After(pos[d])
  <2>1. Site(pos[d])' = Site(pos[d]) /\ After(pos[d])' = After(pos[d])
    BY <1>2, <1>4
  <2> QED
    BY <2>1
<1> DEFINE kind == Up(open, d)
           owed == Owed(pos, d)
           top == Up(cs, B[d])
<1>8. kind \in {"if", "unless", "of"} => owed = {new[d]} /\ top = Site(new[d])'
  BY <1>7 DEF Owes
<1>9. kind = "else" =>
        \E j \in owed : /\ owed = {j} /\ src'[j] = "else" /\ top = Site(j)'
                        /\ Led(Site(new[d]), After(j))'
  <2>1. ASSUME kind = "else"
        PROVE  \E j \in owed : /\ owed = {j} /\ src'[j] = "else" /\ top = Site(j)'
                               /\ Led(Site(new[d]), After(j))'
    <3>1. PICK j \in owed : /\ owed = {j} /\ src[j] = "else" /\ top = Site(j)
                            /\ Led(Site(pos[d]), After(j))
      BY <2>1 DEF Owes
    <3>2. src'[j] = src[j] /\ Site(j)' = Site(j) /\ After(j)' = After(j)
      BY <1>2, <1>3
    <3>3. Led(Site(new[d]), After(j))'
      <4>1. PICK x : x = Site(pos[d])
        OBVIOUS
      <4>2. PICK a : a = After(j)
        OBVIOUS
      <4>3. Led(x, a)'
        BY <3>1, <4>1, <4>2
      <4>4. x = Site(new[d])' /\ a = After(j)'
        BY <1>7, <3>2, <4>1, <4>2
      <4> QED
        BY <4>3, <4>4 DEF Led
    <3> QED
      BY <3>1, <3>2, <3>3
  <2> QED
    BY <2>1
<1>10. kind = "begin" => owed = {} /\ top = After(new[d])'
  BY <1>7 DEF Owes
<1>11. kind = "while" =>
         \E j \in owed : /\ owed = {j} /\ Up(cs', B2[d] - 1) = Site(j)'
                         /\ top = After(new[d])'
  <2>1. ASSUME kind = "while"
        PROVE  \E j \in owed : /\ owed = {j} /\ Up(cs', B2[d] - 1) = Site(j)'
                               /\ top = After(new[d])'
    <3>1. PICK j \in owed : /\ owed = {j} /\ Up(cs, B[d] - 1) = Site(j)
                            /\ top = After(pos[d])
      BY <2>1 DEF Owes
    <3>2. B[d] - 1 \in 1..B[d] /\ B2[d] - 1 = B[d] - 1
      BY <1>5, <2>1
    <3>3. Up(cs', B2[d] - 1) = Up(cs, B[d] - 1)
      BY <3>2
    <3>4. Site(j)' = Site(j)
      BY <1>2, <1>3
    <3> QED
      BY <1>7, <3>1, <3>3, <3>4
  <2> QED
    BY <2>1
<1>12. kind = "case" =>
         {Up(cs', q) : q \in (B2[d - 1] + 2)..B2[d]} = {Site(j)' : j \in owed}
  <2>1. ASSUME kind = "case"
        PROVE  {Up(cs', q) : q \in (B2[d - 1] + 2)..B2[d]} = {Site(j)' : j \in owed}
    <3>1. {Up(cs, q) : q \in (B[d - 1] + 2)..B[d]} = {Site(j) : j \in owed}
      BY <2>1 DEF Owes
    <3>2. \A q \in (B[d - 1] + 2)..B[d] : Up(cs', q) = Up(cs, q)
      BY <1>5
    <3>3. {Up(cs', q) : q \in (B2[d - 1] + 2)..B2[d]} = {Up(cs, q) : q \in (B[d - 1] + 2)..B[d]}
      BY <3>2
    <3>4. \A j \in owed : Site(j)' = Site(j)
      BY <1>2, <1>3
    <3> QED
      BY <3>1, <3>3, <3>4
  <2> QED
    BY <2>1
<1>13. /\ kind = "do" => owed = {} /\ top = 0
       /\ kind = "?do" => owed = {new[d]} /\ top # 0
  BY DEF Owes
<1>14. kind = Up(open', d) /\ owed = Owed(new, d)' /\ top = Up(cs', B2[d])
  BY <1>6
<1> HIDE DEF kind, owed, top
<1> QED
  BY <1>8, <1>9, <1>10, <1>11, <1>12, <1>13, <1>14 DEF Owes

-----------------------------------------------------------------------------
(* A closed structure.                                                     *)

(* One token changes the depth by its weight.                              *)
LEMMA DepthStep ==
  ASSUME Len(src) \in Nat, NEW i \in 1..Len(src)
  PROVE  Depth(i) = Depth(i - 1) + Weight(src[i]) /\ Depth(i) \in Int /\ Depth(i - 1) \in Int
<1>1. ASSUME NEW kinds
      PROVE  /\ Count(i, kinds) = Count(i - 1, kinds) + (IF src[i] \in kinds THEN 1 ELSE 0)
             /\ Count(i, kinds) \in Nat /\ Count(i - 1, kinds) \in Nat
  <2> DEFINE C(j) == {k \in 1..j : src[k] \in kinds}
  <2>1. i \in Nat /\ i - 1 \in Nat
    OBVIOUS
  <2>2. \A j \in Nat : IsFiniteSet(C(j)) /\ Cardinality(C(j)) \in Nat
    <3> TAKE j \in Nat
    <3>1. IsFiniteSet(1..j)
      BY FS_Interval
    <3>2. IsFiniteSet(C(j))
      BY <3>1, FS_Subset
    <3> QED
      BY <3>2, FS_CardinalityType
  <2>3. C(i) = IF src[i] \in kinds THEN C(i - 1) \cup {i} ELSE C(i - 1)
    <3>1. \A k : k \in 1..i <=> k \in 1..(i - 1) \/ k = i
      BY <2>1
    <3> QED
      BY <3>1
  <2>4. i \notin C(i - 1)
    BY <2>1
  <2>5. Count(i, kinds) = Cardinality(C(i)) /\ Count(i - 1, kinds) = Cardinality(C(i - 1))
    BY DEF Count
  <2>6. CASE src[i] \in kinds
    <3>1. Cardinality(C(i - 1) \cup {i}) = Cardinality(C(i - 1)) + 1
      BY <2>1, <2>2, <2>4, FS_AddElement
    <3>2. C(i) = C(i - 1) \cup {i}
      BY <2>3, <2>6
    <3>3. Cardinality(C(i - 1)) \in Nat
      BY <2>1, <2>2
    <3> HIDE DEF C
    <3> QED
      BY <2>5, <2>6, <3>1, <3>2, <3>3
  <2>7. CASE src[i] \notin kinds
    <3>1. C(i) = C(i - 1) /\ Cardinality(C(i - 1)) \in Nat
      BY <2>1, <2>2, <2>3, <2>7
    <3> HIDE DEF C
    <3> QED
      BY <2>5, <2>7, <3>1
  <2> QED
    BY <2>6, <2>7
<1>2. /\ Count(i, Opens) = Count(i - 1, Opens) + (IF src[i] \in Opens THEN 1 ELSE 0)
      /\ Count(i, Opens) \in Nat /\ Count(i - 1, Opens) \in Nat
      /\ Count(i, Closes) = Count(i - 1, Closes) + (IF src[i] \in Closes THEN 1 ELSE 0)
      /\ Count(i, Closes) \in Nat /\ Count(i - 1, Closes) \in Nat
  BY <1>1
<1>3. ~(src[i] \in Opens /\ src[i] \in Closes)
  BY DEF Opens, Closes
<1> QED
  BY <1>2, <1>3 DEF Depth, Weight

(* What a token closes begins where the innermost structure does, or       *)
(* inside it.                                                              *)
LEMMA NewlyClosed ==
  ASSUME Types, NEW t, Enters(t), NEW N, N = Len(src) + 1, NEW pos, Hist(pos),
         NEW n, n = Len(open), NEW i \in 1..Len(src), Ends(i, N)'
  PROVE  /\ t \in Closes /\ Depth(i) = n
         /\ n >= 1 => i >= pos[n] /\ (src[i] \in Opens => i = pos[n])
<1>1. /\ Depth(N)' = n + Weight(t) /\ Depth(Len(src)) = n /\ Len(src) \in Nat /\ n \in Nat
      /\ \A k \in 0..Len(src) : Depth(k)' = Depth(k) /\ Depth(k) \in Int
  BY DepthNow
<1>2. /\ i < N /\ Depth(N)' < Depth(i) /\ \A k \in i..Len(src) : Depth(k) >= Depth(i)
  <2>1. /\ i < N /\ Depth(N)' < Depth(i)' /\ \A k \in i..(N - 1) : Depth(k)' >= Depth(i)'
    BY DEF Ends
  <2>2. i \in 0..Len(src) /\ \A k \in i..Len(src) : k \in 0..Len(src) /\ k \in i..(N - 1)
    BY <1>1
  <2> QED
    BY <1>1, <2>1, <2>2
<1>3. n >= Depth(i) /\ Depth(i) \in Int
  <2>1. Len(src) \in i..Len(src) /\ i \in 0..Len(src)
    BY <1>1
  <2> QED
    BY <1>1, <1>2, <2>1
<1>4. t \in Closes /\ Depth(i) = n
  <2>1. Weight(t) < 0 /\ Weight(t) \in {0 - 1, 0, 1}
    <3>1. Weight(t) \in {0 - 1, 0, 1}
      BY DEF Weight
    <3> QED
      BY <1>1, <1>2, <1>3, <3>1
  <2>2. t \in Closes
    BY <2>1 DEF Weight
  <2>3. Weight(t) = 0 - 1
    BY <2>1
  <2> QED
    BY <1>1, <1>2, <1>3, <2>2, <2>3
<1>5. ~Closed(i)
  <2>1. ASSUME NEW j \in 1..Len(src), Ends(i, j) PROVE FALSE
    <3>1. Ends(i, j)'
      BY <2>1, EndsExtended DEF Enters
    <3>2. i \in Nat /\ j \in Nat /\ N \in Nat /\ j # N
      BY <1>1
    <3> QED
      BY <3>1, <3>2, EndsUnique
  <2> QED
    BY <2>1 DEF Closed
<1>6. ASSUME n >= 1 PROVE i >= pos[n]
  <2>1. ASSUME i < pos[n] PROVE FALSE
    <3>1. pos[n] \in 1..Len(src) /\ src[pos[n]] \in Opens /\ Depth(pos[n]) = n
      BY <1>1, <1>6 DEF Hist
    <3>2. Depth(pos[n]) = Depth(pos[n] - 1) + 1 /\ Depth(pos[n] - 1) \in Int
      BY <1>1, <3>1, DepthStep DEF Weight
    <3>3. pos[n] - 1 \in i..Len(src)
      BY <1>1, <2>1, <3>1
    <3>4. Depth(pos[n] - 1) >= n
      BY <1>2, <1>4, <3>3
    <3> QED
      BY <1>1, <3>1, <3>2, <3>4
  <2>2. pos[n] \in Nat
    BY <1>1, <1>6 DEF Hist
  <2> QED
    BY <2>1, <2>2
<1>7. ASSUME src[i] \in Opens PROVE i = pos[n]
  <2>1. PICK d \in 1..Len(open) : pos[d] = i
    BY <1>5, <1>7 DEF Hist
  <2>2. Depth(i) = d
    BY <2>1 DEF Hist
  <2> QED
    BY <1>4, <2>1, <2>2
<1> QED
  BY <1>4, <1>6, <1>7

(* The branches of what token i opens and token c closes: the same as in   *)
(* BranchesMatch, without its choices.                                     *)

Elses(i, c) == {k \in i..c : src[k] = "else" /\ Depth(k) = Depth(i)}

AheadLeads(i, c) ==
  \A k \in i..c : Depth(k) = Depth(i) /\ src[k] \in Forward => Led(Site(k), After(c))

IfLeads(i, c) ==
  src[i] \in {"if", "unless"} =>
    \/ Elses(i, c) = {} /\ Led(Site(i), After(c))
    \/ \E k \in i..c : Elses(i, c) = {k} /\ Led(Site(i), After(k))

BackLeads(i, c) == src[i] \in {"begin", "do", "?do"} => Led(After(c) - 1, After(i))

OfEnds(i, c) == src[i] = "of" => src[c] = "endof" /\ Depth(c) = Depth(i) - 1

CaseEnds(i, c) ==
  src[i] = "case" =>
    \A j \in i..c : src[j] = "of" /\ Depth(j) = Depth(i) + 1 => Closed(j) /\ Closer(j) <= c

LeavesLead(i, c) ==
  src[i] \in Loops =>
    \A k \in i..c : src[k] = "leave" =>
      /\ \E x : IsInnermost(x, Loops, k)
      /\ IsInnermost(i, Loops, k) => Led(Site(k), After(c))

Settled(i, c) ==
  /\ AheadLeads(i, c) /\ IfLeads(i, c) /\ BackLeads(i, c)
  /\ OfEnds(i, c) /\ CaseEnds(i, c) /\ LeavesLead(i, c)

LEMMA SettledStays ==
  ASSUME Types, NEW t, Enters(t), NEW i \in 1..Len(src), NEW c \in 1..Len(src),
         Settled(i, c), \A x, a : Led(x, a) => Led(x, a)'
  PROVE  Settled(i, c)'
<1>1. PICK N : N = Len(src) + 1
  OBVIOUS
<1>2. /\ Len(src) \in Nat /\ Extended(t)
      /\ \A k \in 1..Len(src) : src'[k] = src[k] /\ After(k)' = After(k) /\ Site(k)' = Site(k)
  BY <1>1, SiteStays DEF Enters
<1>3. \A k \in 1..Len(src) : Depth(k)' = Depth(k)
  <2>1. \A k \in 1..Len(src) : k \in 0..Len(src)
    BY <1>2
  <2> QED
    BY <1>2, <2>1, DepthExtended
<1>4. \A k \in i..c : k \in 1..Len(src)
  BY <1>2
<1>5. ASSUME NEW k \in 1..Len(src), NEW j \in 1..Len(src), Led(Site(k), After(j))
      PROVE  Led(Site(k), After(j))'
  <2>1. PICK x : x = Site(k)
    OBVIOUS
  <2>2. PICK a : a = After(j)
    OBVIOUS
  <2>3. Led(x, a)'
    BY <1>5, <2>1, <2>2
  <2>4. x = Site(k)' /\ a = After(j)'
    BY <1>2, <2>1, <2>2
  <2> QED
    BY <2>3, <2>4 DEF Led
<1>6. Elses(i, c)' = Elses(i, c)
  BY <1>2, <1>3, <1>4 DEF Elses
<1>7. AheadLeads(i, c)'
  <2> SUFFICES ASSUME NEW k \in i..c, Depth(k)' = Depth(i)', src'[k] \in Forward
               PROVE  Led(Site(k), After(c))'
    BY DEF AheadLeads
  <2>1. Depth(k) = Depth(i) /\ src[k] \in Forward
    BY <1>2, <1>3, <1>4
  <2> QED
    BY <1>4, <1>5, <2>1 DEF Settled, AheadLeads
<1>8. IfLeads(i, c)'
  <2> SUFFICES ASSUME src'[i] \in {"if", "unless"}
               PROVE  \/ Elses(i, c) = {} /\ Led(Site(i), After(c))'
                      \/ \E k \in i..c : Elses(i, c) = {k} /\ Led(Site(i), After(k))'
    BY <1>6 DEF IfLeads
  <2>1. src[i] \in {"if", "unless"}
    BY <1>2
  <2>2. CASE Elses(i, c) = {} /\ Led(Site(i), After(c))
    BY <1>5, <2>2
  <2>3. CASE \E k \in i..c : Elses(i, c) = {k} /\ Led(Site(i), After(k))
    BY <1>4, <1>5, <2>3
  <2> QED
    BY <2>1, <2>2, <2>3 DEF Settled, IfLeads
<1>9. BackLeads(i, c)'
  <2> SUFFICES ASSUME src'[i] \in {"begin", "do", "?do"} PROVE Led(After(c) - 1, After(i))'
    BY DEF BackLeads
  <2>1. PICK x : x = After(c) - 1
    OBVIOUS
  <2>2. PICK a : a = After(i)
    OBVIOUS
  <2>3. Led(After(c) - 1, After(i))
    BY <1>2 DEF Settled, BackLeads
  <2>4. Led(x, a)'
    BY <2>1, <2>2, <2>3
  <2>5. x = After(c)' - 1 /\ a = After(i)'
    BY <1>2, <2>1, <2>2
  <2> QED
    BY <2>4, <2>5 DEF Led
<1>10. OfEnds(i, c)'
  BY <1>2, <1>3 DEF Settled, OfEnds
<1>11. CaseEnds(i, c)'
  <2> SUFFICES ASSUME src'[i] = "case", NEW j \in i..c, src'[j] = "of",
                      Depth(j)' = Depth(i)' + 1
               PROVE  Closed(j)' /\ Closer(j)' <= c
    BY DEF CaseEnds
  <2>1. j \in 1..Len(src)
    BY <1>4
  <2>2. src[i] = "case" /\ src[j] = "of" /\ Depth(j) = Depth(i) + 1
    BY <1>2, <1>3, <2>1
  <2>3. Closed(j) /\ Closer(j) <= c
    BY <2>2 DEF Settled, CaseEnds
  <2> QED
    BY <1>2, <2>1, <2>3, ClosedExtended
<1>12. LeavesLead(i, c)'
  <2> SUFFICES ASSUME src'[i] \in Loops, NEW k \in i..c, src'[k] = "leave"
               PROVE  /\ \E x : IsInnermost(x, Loops, k)'
                      /\ IsInnermost(i, Loops, k)' => Led(Site(k), After(c))'
    BY DEF LeavesLead
  <2>1. k \in 1..Len(src) /\ src[i] \in Loops /\ src[k] = "leave"
    BY <1>2, <1>4
  <2>2. \A x : IsInnermost(x, Loops, k)' <=> IsInnermost(x, Loops, k)
    BY <1>2, <2>1, IsInnermostExtended
  <2>3. /\ \E x : IsInnermost(x, Loops, k)
        /\ IsInnermost(i, Loops, k) => Led(Site(k), After(c))
    BY <2>1 DEF Settled, LeavesLead
  <2> QED
    BY <1>5, <2>1, <2>2, <2>3
<1> QED
  BY <1>7, <1>8, <1>9, <1>10, <1>11, <1>12 DEF Settled

Right == \A i, c \in 1..Len(src) : Ends(i, c) => Settled(i, c)

LEMMA RightStays ==
  ASSUME Types, NEW t, Enters(t), NEW N, N = Len(src) + 1, Right,
         \A x, a : Led(x, a) => Led(x, a)',
         \A i \in 1..Len(src) : Ends(i, N)' => Settled(i, N)'
  PROVE  Right'
<1>1. Len(src) \in Nat /\ Len(src') = Len(src) + 1
  BY SiteStays
<1>2. \A i : i \in 1..Len(src') <=> i \in 1..Len(src) \/ i = N
  BY <1>1
<1>3. SUFFICES ASSUME NEW i \in 1..Len(src'), NEW c \in 1..Len(src'), Ends(i, c)'
               PROVE  Settled(i, c)'
  BY DEF Right
<1>4. i < c
  BY <1>3 DEF Ends
<1>5. i \in 1..Len(src)
  BY <1>1, <1>2, <1>4
<1>6. CASE c = N
  BY <1>3, <1>5, <1>6
<1>7. CASE c \in 1..Len(src)
  <2>1. Ends(i, c)
    BY <1>3, <1>5, <1>7, EndsExtended DEF Enters
  <2>2. Settled(i, c)
    BY <1>5, <1>7, <2>1 DEF Right
  <2> QED
    BY <1>5, <1>7, <2>2, SettledStays
<1> QED
  BY <1>2, <1>6, <1>7

(* Which token closes which structure.                                     *)
Ending(kind) ==
  IF kind \in {"if", "unless", "else"} THEN {"then"}
  ELSE IF kind = "begin" THEN {"until", "again"}
  ELSE IF kind = "while" THEN {"repeat"}
  ELSE IF kind = "case" THEN {"endcase"}
  ELSE IF kind = "of" THEN {"endof"} ELSE {"loop", "+loop"}

LEMMA NowSettled ==
  ASSUME Types, NEW t, Enters(t), NEW N, N = Len(src) + 1,
         NEW b, NEW B, NEW pos, Hist(pos), Shaped(open, src, at, cs, b, B, pos),
         NEW n, n = Len(open), n >= 1, t \in Ending(Up(open, n)), Owes(pos, B, n),
         \A x, a : Led(x, a) => Led(x, a)',
         \A j \in Owed(pos, n) : LedIn(code', Site(j), Len(code') + 1),
         t \in Back => LedIn(code', Len(code'), After(pos[n])),
         \A k \in 1..Len(src) :
           src[k] = "leave" =>
             /\ \E x : IsInnermost(x, Loops, k)
             /\ Up(open, n) \in Loops /\ IsInnermost(pos[n], Loops, k) =>
                  LedIn(code', Site(k), Len(code') + 1),
         NEW i \in 1..Len(src), Ends(i, N)'
  PROVE  Settled(i, N)'
<1>1. /\ Len(src) \in Nat /\ Len(src') = Len(src) + 1 /\ src'[N] = t /\ N \in Nat
      /\ \A k \in 1..Len(src) : src'[k] = src[k] /\ After(k)' = After(k) /\ Site(k)' = Site(k)
      /\ After(N)' = Len(code') + 1 /\ Len(code') \in Nat
  BY SiteStays
<1>2. t \in Closes /\ Depth(i) = n /\ i >= pos[n] /\ (src[i] \in Opens => i = pos[n])
  BY NewlyClosed
<1>3. /\ Depth(N)' = n - 1 /\ n \in Nat /\ n \in 1..Len(open)
      /\ \A k \in 0..Len(src) : Depth(k)' = Depth(k) /\ Depth(k) \in Int
  <2>1. Weight(t) = 0 - 1
    BY <1>2 DEF Weight, Opens, Closes
  <2> QED
    BY <2>1, DepthNow
<1>4. pos[n] \in 1..Len(src) /\ Depth(pos[n]) = n
  BY <1>3 DEF Hist
<1>5. \A k \in i..N : k = N \/ (k \in 1..Len(src) /\ k \in pos[n]..Len(src) /\ k \in 0..Len(src))
  BY <1>1, <1>2, <1>4
<1>6. ASSUME NEW k \in 1..Len(src), LedIn(code', Site(k), Len(code') + 1)
      PROVE  Led(Site(k), After(N))'
  <2>1. Site(k)' = Site(k) /\ After(N)' = Len(code') + 1
    BY <1>1
  <2> QED
    BY <1>6, <2>1 DEF Led
<1>7. \A j \in Owed(pos, n) : j \in 1..Len(src) /\ j \in pos[n]..Len(src) /\ Depth(j) = n
  BY <1>3, OwedFacts
<1>8. \A j \in Owed(pos, n) : Led(Site(j), After(N))'
  BY <1>6, <1>7
<1>9. Depth(i)' = n /\ src'[i] = src[i]
  BY <1>1, <1>2, <1>3
<1>10. ASSUME NEW k \in i..N, Depth(k)' = n
       PROVE  /\ k \in 1..Len(src) /\ k \in pos[n]..Len(src) /\ src'[k] = src[k]
              /\ Depth(k) = n /\ (src[k] \in Forward => k \in Owed(pos, n))
  <2>1. k # N
    BY <1>3, <1>10
  <2>2. k \in 1..Len(src) /\ k \in pos[n]..Len(src) /\ k \in 0..Len(src)
    BY <1>5, <2>1
  <2>3. Depth(k) = n /\ src'[k] = src[k]
    BY <1>1, <1>3, <1>10, <2>2
  <2> QED
    BY <2>2, <2>3 DEF Owed, Hanging
<1> DEFINE kind == Up(open, n)
<1>11. src[pos[n]] \in Source(kind)
  BY <1>3 DEF Shaped, FrameFits
<1>12. AheadLeads(i, N)'
  <2> SUFFICES ASSUME NEW k \in i..N, Depth(k)' = Depth(i)', src'[k] \in Forward
               PROVE  Led(Site(k), After(N))'
    BY DEF AheadLeads
  <2>1. k \in Owed(pos, n)
    BY <1>9, <1>10
  <2> QED
    BY <1>8, <2>1
<1>13. IfLeads(i, N)'
  <2> SUFFICES ASSUME src'[i] \in {"if", "unless"}
               PROVE  \/ Elses(i, N)' = {} /\ Led(Site(i), After(N))'
                      \/ \E k \in i..N : Elses(i, N)' = {k} /\ Led(Site(i), After(k))'
    BY DEF IfLeads
  <2>1. src[i] \in {"if", "unless"} /\ i = pos[n]
    BY <1>2, <1>9 DEF Opens
  <2>2. kind \in {"if", "unless", "else"}
    BY <1>11, <2>1 DEF Source
  <2>3. \A k : k \in Elses(i, N)' => k \in Owed(pos, n) /\ src[k] = "else"
    <3>1. "else" \in Forward
      BY DEF Forward
    <3> QED
      BY <1>9, <1>10, <3>1 DEF Elses
  <2>4. CASE kind \in {"if", "unless"}
    <3>1. Owed(pos, n) = {i}
      BY <2>1, <2>4 DEF Owes
    <3>2. Elses(i, N)' = {}
      BY <2>1, <2>3, <3>1
    <3>3. Led(Site(i), After(N))'
      BY <1>8, <3>1
    <3> QED
      BY <3>2, <3>3
  <2>5. CASE kind = "else"
    <3>1. PICK j \in Owed(pos, n) : /\ Owed(pos, n) = {j} /\ src[j] = "else"
                                    /\ Led(Site(i), After(j))
      BY <2>1, <2>5 DEF Owes
    <3>2. j \in 1..Len(src) /\ j \in i..N /\ Depth(j) = n
      BY <1>1, <1>7, <2>1
    <3>3. src'[j] = "else" /\ Depth(j)' = n
      BY <1>1, <1>3, <3>1, <3>2
    <3>4. j \in Elses(i, N)'
      BY <1>9, <3>2, <3>3 DEF Elses
    <3>5. Elses(i, N)' = {j}
      BY <2>3, <3>1, <3>4
    <3>6. Led(Site(i), After(j))'
      <4>1. PICK x : x = Site(i)
        OBVIOUS
      <4>2. PICK a : a = After(j)
        OBVIOUS
      <4>3. Led(x, a)'
        BY <3>1, <4>1, <4>2
      <4>4. x = Site(i)' /\ a = After(j)'
        BY <1>1, <3>2, <4>1, <4>2
      <4> QED
        BY <4>3, <4>4 DEF Led
    <3> QED
      BY <3>2, <3>5, <3>6
  <2> QED
    BY <2>2, <2>4, <2>5
<1>14. BackLeads(i, N)'
  <2> SUFFICES ASSUME src'[i] \in {"begin", "do", "?do"} PROVE Led(After(N) - 1, After(i))'
    BY DEF BackLeads
  <2>1. src[i] \in {"begin", "do", "?do"} /\ i = pos[n]
    BY <1>2, <1>9 DEF Opens
  <2>2. kind \in {"begin", "while", "do", "?do"}
    BY <1>11, <2>1 DEF Source
  <2>3. t \in Back
    BY <2>2 DEF Ending, Back
  <2>4. LedIn(code', Len(code'), After(i))
    BY <2>1, <2>3
  <2>5. After(N)' - 1 = Len(code') /\ After(i)' = After(i)
    BY <1>1
  <2> QED
    BY <2>4, <2>5 DEF Led
<1>15. OfEnds(i, N)'
  <2> SUFFICES ASSUME src'[i] = "of" PROVE src'[N] = "endof" /\ Depth(N)' = Depth(i)' - 1
    BY DEF OfEnds
  <2>1. src[i] = "of" /\ i = pos[n]
    BY <1>2, <1>9 DEF Opens
  <2>2. kind = "of"
    BY <1>11, <2>1 DEF Source
  <2>3. t = "endof"
    BY <2>2 DEF Ending
  <2> QED
    BY <1>1, <1>3, <1>9, <2>3
<1>16. CaseEnds(i, N)'
  <2> SUFFICES ASSUME src'[i] = "case", NEW j \in i..N, src'[j] = "of",
                      Depth(j)' = Depth(i)' + 1
               PROVE  Closed(j)' /\ Closer(j)' <= N
    BY DEF CaseEnds
  <2>1. j # N
    BY <1>3, <1>9
  <2>2. j \in 1..Len(src) /\ j \in 0..Len(src)
    BY <1>5, <2>1
  <2>3. src[j] = "of" /\ Depth(j) = n + 1
    BY <1>1, <1>3, <1>9, <2>2
  <2>4. Closed(j)
    <3>1. ASSUME ~Closed(j) PROVE FALSE
      <4>1. PICK d \in 1..Len(open) : pos[d] = j
        BY <2>2, <2>3, <3>1 DEF Hist, Opens
      <4>2. Depth(j) = d
        BY <4>1 DEF Hist
      <4> QED
        BY <1>3, <2>3, <4>1, <4>2
    <3> QED
      BY <3>1
  <2>5. Closed(j)' /\ Closer(j)' = Closer(j) /\ Closer(j) \in 1..Len(src)
    BY <2>2, <2>4, ClosedExtended DEF Enters
  <2> QED
    BY <1>1, <2>5
<1>17. LeavesLead(i, N)'
  <2> SUFFICES ASSUME src'[i] \in Loops, NEW k \in i..N, src'[k] = "leave"
               PROVE  /\ \E x : IsInnermost(x, Loops, k)'
                      /\ IsInnermost(i, Loops, k)' => Led(Site(k), After(N))'
    BY DEF LeavesLead
  <2>1. k # N
    BY <1>1, <1>2 DEF Closes
  <2>2. k \in 1..Len(src)
    BY <1>5, <2>1
  <2>3. src[k] = "leave" /\ src[i] \in Loops
    BY <1>1, <1>9, <2>2
  <2>4. i = pos[n] /\ kind \in Loops
    <3>1. i = pos[n]
      BY <1>2, <2>3 DEF Loops, Opens
    <3> QED
      BY <1>11, <2>3, <3>1 DEF Source, Loops
  <2>5. \A x : IsInnermost(x, Loops, k)' <=> IsInnermost(x, Loops, k)
    BY <2>2, IsInnermostExtended DEF Enters
  <2>6. /\ \E x : IsInnermost(x, Loops, k)
        /\ IsInnermost(i, Loops, k) => LedIn(code', Site(k), Len(code') + 1)
    BY <2>2, <2>3, <2>4
  <2> QED
    BY <1>6, <2>2, <2>5, <2>6
<1> QED
  BY <1>12, <1>13, <1>14, <1>15, <1>16, <1>17 DEF Settled

-----------------------------------------------------------------------------
(* What holds of the branches while a word is compiled, and afterwards.    *)

(* Every LEAVE is in a loop, and pending until that is closed.             *)
LeavesIn ==
  \A k \in 1..Len(src) :
    src[k] = "leave" =>
      \E x \in 1..Len(src) : IsInnermost(x, Loops, k) /\ (~Closed(x) => k \in Left)

Underway(pos, B) ==
  /\ Sited /\ Cells(pos) /\ LeavesIn
  /\ \A d \in 1..Len(open) : Owes(pos, B, d)

Sound(pos, B) ==
  /\ Right
  /\ \A a \in 1..Len(code) : code[a].op # "offset" => code[a].arg = 0
  /\ mode = "ready" => \A a \in 1..Len(code) : ~Zero(code, a)
  /\ mode = "compile" => Underway(pos, B)

LEMMA LeavesInStays ==
  ASSUME Types, NEW t, Enters(t), t # "leave", NEW N, N = Len(src) + 1, LeavesIn,
         \A k \in Left : k \in Left' \/ \A x \in 1..Len(src) : IsInnermost(x, Loops, k) => Closed(x)'
  PROVE  LeavesIn'
<1>1. /\ Len(src) \in Nat /\ Len(src') = Len(src) + 1 /\ src'[N] = t /\ Extended(t)
      /\ \A k \in 1..Len(src) : src'[k] = src[k]
  BY SiteStays DEF Enters
<1> SUFFICES ASSUME NEW k \in 1..Len(src'), src'[k] = "leave"
             PROVE  \E x \in 1..Len(src') :
                      IsInnermost(x, Loops, k)' /\ (~Closed(x)' => k \in Left')
  BY DEF LeavesIn
<1>2. k # N
  BY <1>1
<1>3. k \in 1..Len(src)
  BY <1>1, <1>2
<1>4. src[k] = "leave"
  BY <1>1, <1>3
<1>5. PICK x \in 1..Len(src) : IsInnermost(x, Loops, k) /\ (~Closed(x) => k \in Left)
  BY <1>3, <1>4 DEF LeavesIn
<1>6. IsInnermost(x, Loops, k)' /\ x \in 1..Len(src')
  BY <1>1, <1>3, <1>5, IsInnermostExtended
<1>7. ~Closed(x)' => k \in Left'
  <2>1. Closed(x) => Closed(x)'
    BY <1>1, ClosedExtended
  <2> QED
    BY <1>5, <2>1
<1> QED
  BY <1>6, <1>7

(* The items a token puts on top.                                          *)
Tops(t) ==
  LET top == Up(cs', Len(cs')) IN
  /\ t \in {"if", "unless", "of"} => top = Len(code') + 1 - Behind(t)
  /\ t = "begin" => top = Len(code') + 1
  /\ t = "do" => top = 0
  /\ t = "?do" => top # 0

LEMMA SoundPush ==
  ASSUME Types, NEW b, NEW pos, NEW B, Word(b, pos, B), ~stale, Sound(pos, B),
         NEW t \in Opens, Enters(t), Pushes(t), Tops(t), ls' = ls, mode' = mode,
         NEW dest, Written(code, code', t, {}, dest),
         NEW new, NEW B2, Word(b, new, B2)', new[Len(open) + 1] = Len(src) + 1,
         \A d \in 1..Len(open) : new[d] = pos[d],
         \A d \in 0..Len(open) : B2[d] = B[d]
  PROVE  Sound(new, B2)'
<1>1. /\ Hist(pos) /\ Shaped(open, src, at, cs, b, B, pos) /\ Leaves(pos)
      /\ mode = "compile" /\ mode' = "compile" /\ Right /\ Underway(pos, B)
      /\ Shaped(open', src', at', cs', b, B2, new)
  BY DEF Word, Sound, Enters
<1>2. PICK N : N = Len(src) + 1
  OBVIOUS
<1>3. PICK m : m = Len(open) + 1
  OBVIOUS
<1>4. /\ open' = <<t>> \o open /\ cs' \in Seq(Nat) /\ Len(cs') = Len(cs) + Wide(t)
      /\ \A q \in 1..Len(cs) : Up(cs', q) = Up(cs, q)
  BY DEF Pushes
<1>5. /\ Pending(new)' = (Pending(pos) \ {}) \cup {j \in {N} : t \in Ahead \cup {"leave"}}
      /\ Owed(new, m)' = {j \in {N} : t \in Ahead}
      /\ Len(open') = m /\ Up(open', m) = t
      /\ \A d \in 1..Len(open) : Up(open', d) = Up(open, d) /\ Owed(new, d)' = Owed(pos, d)
  <2>1. Hist(pos) /\ Leaves(pos) /\ open' = <<t>> \o open /\ new[m] = N
    BY <1>1, <1>2, <1>3, <1>4
  <2>2. ASSUME NEW M, M = Len(src) + 1, NEW y, y = Len(open) + 1, new[y] = M
        PROVE  /\ Pending(new)' = (Pending(pos) \ {}) \cup {j \in {M} : t \in Ahead \cup {"leave"}}
               /\ Owed(new, y)' = {j \in {M} : t \in Ahead}
               /\ Len(open') = y /\ Up(open', y) = t
               /\ \A d \in 1..Len(open) :
                    Up(open', d) = Up(open, d) /\ Owed(new, d)' = Owed(pos, d)
    BY <2>1, <2>2, PendPush
  <2> QED
    BY <1>2, <1>3, <2>1, <2>2
<1>6. t \notin Back /\ t # "leave" /\ t \notin Closes
  BY DEF Opens, Back, Closes
<1>7. /\ Sited' /\ Cells(new)' /\ \A x, a : Led(x, a) => Led(x, a)'
  <2>1. {} \subseteq Pending(pos) /\ Sites({}, {})
    BY DEF Sites
  <2>2. Sited /\ Cells(pos)
    BY <1>1 DEF Underway
  <2>3. Pending(new)' = (Pending(pos) \ {}) \cup {j \in {N} : t \in Ahead \cup {"leave"}}
    BY <1>5
  <2> QED
    BY <1>2, <1>6, <2>1, <2>2, <2>3, CellStep
<1>8. Right'
  <2>1. \A i \in 1..Len(src) : ~Ends(i, N)'
    BY <1>1, <1>2, <1>6, NewlyClosed
  <2> QED
    BY <1>1, <1>2, <1>7, <2>1, RightStays
<1>9. LeavesIn'
  <2>1. Left' = Left
    BY <1>1, <1>6, LeftUnmoved
  <2> QED
    BY <1>1, <1>2, <1>6, <2>1, LeavesInStays DEF Underway
<1>10. ASSUME NEW d \in 1..Len(open) PROVE Owes(new, B2, d)'
  <2>1. /\ new[d] = pos[d] /\ Up(open', d) = Up(open, d) /\ Owed(new, d)' = Owed(pos, d)
        /\ B2[d] = B[d] /\ B2[d - 1] = B[d - 1]
    BY <1>5, TypedLengths
  <2>2. \A q \in 1..B[d] : Up(cs', q) = Up(cs, q)
    BY <1>1, <1>4, ShapeFacts, TypedLengths
  <2>3. Owes(pos, B, d)
    BY <1>1 DEF Underway
  <2> QED
    BY <1>1, <1>7, <2>1, <2>2, <2>3, OwesStays
<1>11. Owes(new, B2, m)'
  <2>1. /\ B2[m] = Len(cs') /\ B2[m - 1] = Len(cs) /\ Len(cs) \in Nat /\ m \in Nat
    <3>1. B2[Len(open')] = Len(cs') /\ Len(open) \in Nat /\ Len(cs) \in Nat
      BY <1>1, TypedLengths DEF Shaped
    <3>2. B2[Len(open)] = B[Len(open)] /\ B[Len(open)] = Len(cs)
      BY <1>1, <3>1, ShapeFacts
    <3>3. m - 1 = Len(open) /\ m \in Nat
      BY <1>3, <3>1
    <3> QED
      BY <1>5, <3>1, <3>2, <3>3
  <2>2. /\ Site(N)' = Len(code') + 1 - Behind(t) /\ After(N)' = Len(code') + 1
    BY <1>2, SiteStays
  <2>3. new[m] = N
    BY <1>2, <1>3
  <2>4. /\ t \in {"if", "unless", "of", "?do"} => Owed(new, m)' = {N}
        /\ t \in {"begin", "case", "do"} => Owed(new, m)' = {}
    BY <1>5 DEF Ahead, Forward
  <2>5. t \in {"if", "unless", "of"} => Up(cs', B2[m]) = Site(N)'
    BY <2>1, <2>2 DEF Tops
  <2>6. t = "begin" => Up(cs', B2[m]) = After(N)'
    BY <2>1, <2>2 DEF Tops
  <2>7. /\ t = "do" => Up(cs', B2[m]) = 0
        /\ t = "?do" => Up(cs', B2[m]) # 0
    BY <2>1 DEF Tops
  <2>8. t = "case" => {Up(cs', q) : q \in (B2[m - 1] + 2)..B2[m]} = {}
    <3>1. ASSUME t = "case" PROVE (B2[m - 1] + 2)..B2[m] = {}
      BY <1>4, <2>1, <3>1 DEF Wide
    <3> QED
      BY <3>1
  <2>9. t \notin {"else", "while"} /\ Up(open', m) = t
    BY <1>5 DEF Opens
  <2> QED
    BY <2>3, <2>4, <2>5, <2>6, <2>7, <2>8, <2>9 DEF Owes
<1>12. \A d \in 1..Len(open') : Owes(new, B2, d)'
  <2>1. \A d : d \in 1..Len(open') => d \in 1..Len(open) \/ d = m
    BY <1>3, <1>5, TypedLengths
  <2> QED
    BY <1>10, <1>11, <2>1
<1>13. Underway(new, B2)'
  BY <1>7, <1>9, <1>12 DEF Underway
<1> QED
  BY <1>1, <1>7, <1>8, <1>13 DEF Sound, Cells

LEMMA SoundLevel ==
  ASSUME Types, NEW b, NEW pos, NEW B, Word(b, pos, B), ~stale, Sound(pos, B),
         NEW t \in {"work", "exit"}, Enters(t), open' = open, cs' = cs, ls' = ls, mode' = mode,
         NEW dest, Written(code, code', t, {}, dest),
         NEW B2, Word(b, pos, B2)', \A d \in 0..(Len(open) - 1) : B2[d] = B[d]
  PROVE  Sound(pos, B2)'
<1>1. /\ Hist(pos) /\ Shaped(open, src, at, cs, b, B, pos) /\ Leaves(pos)
      /\ mode = "compile" /\ mode' = "compile" /\ Right /\ Underway(pos, B)
      /\ Shaped(open', src', at', cs', b, B2, pos)
  BY DEF Word, Sound, Enters
<1>2. PICK N : N = Len(src) + 1
  OBVIOUS
<1>3. /\ t \notin Opens \cup Closes \cup Forward /\ t # "leave" /\ t \notin Back /\ t \notin Closes
  BY DEF Opens, Closes, Forward, Back
<1>4. Left' = Left
  BY <1>1, <1>3, LeftUnmoved
<1>5. /\ Pending(pos)' = (Pending(pos) \ {}) \cup {j \in {N} : t \in Ahead \cup {"leave"}}
      /\ \A d \in 1..Len(open) : Owed(pos, d)' = Owed(pos, d)
  <2>1. Left' = Left \cup {j \in {N} : t = "leave"}
    BY <1>3, <1>4
  <2> QED
    BY <1>1, <1>2, <1>3, <2>1, PendLevel
<1>6. /\ Sited' /\ Cells(pos)' /\ \A x, a : Led(x, a) => Led(x, a)'
  <2>1. {} \subseteq Pending(pos) /\ Sites({}, {})
    BY DEF Sites
  <2>2. Sited /\ Cells(pos)
    BY <1>1 DEF Underway
  <2>3. Pending(pos)' = (Pending(pos) \ {}) \cup {j \in {N} : t \in Ahead \cup {"leave"}}
    BY <1>5
  <2> QED
    BY <1>2, <1>3, <2>1, <2>2, <2>3, CellStep
<1>7. Right'
  <2>1. \A i \in 1..Len(src) : ~Ends(i, N)'
    BY <1>1, <1>2, <1>3, NewlyClosed
  <2> QED
    BY <1>1, <1>2, <1>6, <2>1, RightStays
<1>8. LeavesIn'
  BY <1>1, <1>2, <1>3, <1>4, LeavesInStays DEF Underway
<1>9. \A d \in 0..Len(open) : B2[d] = B[d]
  <2>1. B2[Len(open)] = Len(cs) /\ B[Len(open)] = Len(cs) /\ Len(open) \in Nat
    BY <1>1, TypedLengths DEF Shaped
  <2> QED
    BY <2>1
<1>10. ASSUME NEW d \in 1..Len(open') PROVE Owes(pos, B2, d)'
  <2>1. /\ d \in 1..Len(open) /\ Up(open', d) = Up(open, d) /\ Owed(pos, d)' = Owed(pos, d)
        /\ B2[d] = B[d] /\ B2[d - 1] = B[d - 1]
    BY <1>5, <1>9, TypedLengths
  <2>2. \A q \in 1..B[d] : Up(cs', q) = Up(cs, q)
    OBVIOUS
  <2>3. Owes(pos, B, d)
    BY <1>1, <2>1 DEF Underway
  <2> QED
    BY <1>1, <1>6, <2>1, <2>2, <2>3, OwesStays
<1>11. Underway(pos, B2)'
  BY <1>6, <1>8, <1>10 DEF Underway
<1> QED
  BY <1>1, <1>6, <1>7, <1>11 DEF Sound, Cells

(* ELSE and WHILE.                                                         *)
LEMMA SoundTurn ==
  ASSUME Types, NEW b, NEW pos, NEW B, Word(b, pos, B), ~stale, Sound(pos, B),
         NEW t \in {"else", "while"}, Enters(t), Turns(t), ls' = ls, mode' = mode,
         NEW n, n = Len(open), NEW A, Sites(A, Owed(pos, n)),
         NEW dest, Written(code, code', t, A, dest),
         t = "else" => Up(cs', Len(cs')) = Len(code'),
         t = "while" => /\ Up(cs', Len(cs')) = Up(cs, Len(cs))
                        /\ Up(cs', Len(cs') - 1) = Len(code'),
         NEW B2, Word(b, pos, B2)', \A d \in 0..(n - 1) : B2[d] = B[d]
  PROVE  Sound(pos, B2)'
<1>1. /\ Hist(pos) /\ Shaped(open, src, at, cs, b, B, pos) /\ Leaves(pos)
      /\ mode = "compile" /\ mode' = "compile" /\ Right /\ Underway(pos, B)
      /\ Shaped(open', src', at', cs', b, B2, pos)
  BY DEF Word, Sound, Enters
<1>2. PICK N : N = Len(src) + 1
  OBVIOUS
<1>3. /\ open # <<>> /\ Head(open) \in Source(t) /\ open' = <<t>> \o Tail(open)
      /\ \A q \in 1..(Len(cs) - 1) : Up(cs', q) = Up(cs, q)
  BY DEF Turns, Inside
<1>4. t \notin Closes /\ t # "leave" /\ t \notin Back
  BY DEF Closes, Back
<1>5. n \in Nat /\ n >= 1 /\ n \in 1..Len(open) /\ Up(open, n) = Head(open)
  <2>1. open \in Seq(OpenKinds)
    BY DEF Types
  <2> QED
    BY <1>3, <2>1, PopFacts
<1>6. Owes(pos, B, n) /\ src[pos[n]] \in Source(Up(open, n)) /\ pos[n] \in 1..Len(src)
  BY <1>1, <1>5 DEF Underway, Shaped, FrameFits, Hist
<1>7. /\ NoneHangs(pos, n)
      /\ t = "else" => Owed(pos, n) = {pos[n]}
      /\ t = "while" => Up(cs, B[n]) = After(pos[n])
  <2>1. CASE t = "else"
    <3>1. Up(open, n) \in {"if", "unless"}
      BY <1>3, <1>5, <2>1 DEF Source
    <3>2. Owed(pos, n) = {pos[n]} /\ src[pos[n]] \notin Forward
      BY <1>6, <3>1 DEF Owes, Source, Forward
    <3> QED
      BY <2>1, <3>2 DEF NoneHangs, Owed, Hanging
  <2>2. CASE t = "while"
    <3>1. Up(open, n) = "begin"
      BY <1>3, <1>5, <2>2 DEF Source
    <3>2. Owed(pos, n) = {} /\ Up(cs, B[n]) = After(pos[n])
      BY <1>6, <3>1 DEF Owes
    <3> QED
      BY <2>2, <3>2 DEF NoneHangs, Owed
  <2> QED
    BY <2>1, <2>2
<1>8. /\ Pending(pos)' = (Pending(pos) \ Owed(pos, n))
                           \cup {j \in {N} : t \in Ahead \cup {"leave"}}
      /\ Owed(pos, n) \subseteq Pending(pos)
      /\ Owed(pos, n)' = {N} /\ Len(open') = n /\ Up(open', n) = t
      /\ \A d \in 1..(n - 1) : Up(open', d) = Up(open, d) /\ Owed(pos, d)' = Owed(pos, d)
  <2>1. /\ Hist(pos) /\ Shaped(open, src, at, cs, b, B, pos) /\ Leaves(pos)
        /\ open # <<>> /\ open' = <<t>> \o Tail(open) /\ NoneHangs(pos, n)
    BY <1>1, <1>3, <1>7
  <2>2. ASSUME NEW M, M = Len(src) + 1, NEW y, y = Len(open), NoneHangs(pos, y)
        PROVE  Turned(pos, y, M, t)
    BY <2>1, <2>2, PendTurn
  <2>3. Turned(pos, n, N, t)
    BY <1>2, <2>1, <2>2
  <2> QED
    BY <2>3 DEF Turned
<1>9. /\ Sited' /\ Cells(pos)' /\ \A x, a : Led(x, a) => Led(x, a)'
      /\ \A j \in Owed(pos, n) : LedIn(code', Site(j), Len(code') + 1)
  <2>1. Sited /\ Cells(pos)
    BY <1>1 DEF Underway
  <2>2. PICK D : D = Owed(pos, n)
    OBVIOUS
  <2>3. /\ Pending(pos)' = (Pending(pos) \ D) \cup {j \in {N} : t \in Ahead \cup {"leave"}}
        /\ D \subseteq Pending(pos) /\ Sites(A, D)
    BY <1>8, <2>2
  <2>4. /\ Sited' /\ Cells(pos)' /\ \A x, a : Led(x, a) => Led(x, a)'
        /\ \A j \in D : LedIn(code', Site(j), Len(code') + 1)
    BY <1>2, <1>4, <2>1, <2>3, CellStep
  <2> QED
    BY <2>2, <2>4
<1>10. Right'
  <2>1. \A i \in 1..Len(src) : ~Ends(i, N)'
    BY <1>1, <1>2, <1>4, NewlyClosed
  <2> QED
    BY <1>1, <1>2, <1>9, <2>1, RightStays
<1>11. LeavesIn'
  <2>1. Left' = Left
    BY <1>1, <1>4, LeftUnmoved
  <2> QED
    BY <1>1, <1>2, <1>4, <2>1, LeavesInStays DEF Underway
<1>12. ASSUME NEW d \in 1..(n - 1) PROVE Owes(pos, B2, d)'
  <2>1. /\ d \in 1..Len(open) /\ Up(open', d) = Up(open, d) /\ Owed(pos, d)' = Owed(pos, d)
        /\ B2[d] = B[d] /\ B2[d - 1] = B[d - 1]
    BY <1>5, <1>8
  <2>2. \A q \in 1..B[d] : Up(cs', q) = Up(cs, q)
    <3>1. B[d] < B[n] /\ B[n] = Len(cs) /\ B[d] \in Nat /\ Len(cs) \in Nat
      <4>1. d \in 0..Len(open) /\ n \in 0..Len(open) /\ d < n
        BY <1>5
      <4>2. \A x, y \in 0..Len(open) : x < y => B[x] < B[y]
        BY <1>1 DEF Shaped
      <4>3. B[n] = Len(cs) /\ B[d] \in Nat /\ Len(cs) \in Nat
        BY <1>1, <4>1, ShapeFacts, TypedLengths
      <4> QED
        BY <4>1, <4>2, <4>3
    <3> QED
      BY <1>3, <3>1
  <2>3. Owes(pos, B, d)
    BY <1>1, <2>1 DEF Underway
  <2> QED
    BY <1>1, <1>9, <2>1, <2>2, <2>3, OwesStays
<1>13. Owes(pos, B2, n)'
  <2>1. B2[n] = Len(cs') /\ B[n] = Len(cs)
    BY <1>1, <1>5, <1>8, ShapeFacts DEF Shaped
  <2>2. Site(N)' = Len(code') /\ After(N)' = Len(code') + 1 /\ src'[N] = t
    <3>1. /\ Site(N)' = Len(code') + 1 - Behind(t) /\ Len(code') \in Nat
          /\ After(N)' = Len(code') + 1 /\ src'[N] = t
      BY <1>2, SiteStays
    <3>2. Behind(t) = 1
      BY DEF Behind
    <3> QED
      BY <3>1, <3>2
  <2>3. /\ After(pos[n])' = After(pos[n]) /\ Site(pos[n])' = Site(pos[n])
    BY <1>2, <1>6, SiteStays
  <2>4. CASE t = "else"
    <3>1. Led(Site(pos[n]), After(N))'
      <4>1. LedIn(code', Site(pos[n]), Len(code') + 1)
        BY <1>7, <1>9, <2>4
      <4> QED
        BY <2>2, <2>3, <4>1 DEF Led
    <3>2. Up(cs', B2[n]) = Site(N)'
      BY <2>1, <2>2, <2>4
    <3> QED
      BY <1>8, <2>2, <2>4, <3>1, <3>2 DEF Owes
  <2>5. CASE t = "while"
    <3>1. Up(cs', B2[n]) = After(pos[n])' /\ Up(cs', B2[n] - 1) = Site(N)'
      BY <1>7, <2>1, <2>2, <2>3, <2>5
    <3> QED
      BY <1>8, <2>5, <3>1 DEF Owes
  <2> QED
    BY <2>4, <2>5
<1>14. \A d \in 1..Len(open') : Owes(pos, B2, d)'
  <2>1. \A d : d \in 1..Len(open') => d \in 1..(n - 1) \/ d = n
    BY <1>5, <1>8
  <2> QED
    BY <1>12, <1>13, <2>1
<1>15. Underway(pos, B2)'
  BY <1>9, <1>11, <1>14 DEF Underway
<1> QED
  BY <1>1, <1>9, <1>10, <1>15 DEF Sound, Cells

(* LEAVE with room on its stack: its offset is pending, and it is in the   *)
(* innermost loop.                                                         *)
LEMMA SoundLeave ==
  ASSUME Types, NEW b, NEW pos, NEW B, Word(b, pos, B), ~stale, Sound(pos, B),
         Enters("leave"), open' = open, cs' = cs, mode' = mode,
         ls' = <<Len(code')>> \o ls, Len(code') > Len(code) + 1,
         NEW dest, Written(code, code', "leave", {}, dest), Word(b, pos, B)'
  PROVE  Sound(pos, B)'
<1>1. /\ Hist(pos) /\ Shaped(open, src, at, cs, b, B, pos) /\ Leaves(pos)
      /\ mode = "compile" /\ mode' = "compile" /\ Right /\ Underway(pos, B)
      /\ Leaves(pos)'
  BY DEF Word, Sound, Enters
<1>2. PICK N : N = Len(src) + 1
  OBVIOUS
<1>3. "leave" \notin Opens \cup Closes \cup Forward /\ "leave" \notin Back /\ "leave" \notin Closes
  BY DEF Opens, Closes, Forward, Back
<1>4. Len(code') > Len(code) /\ Len(code') \in Nat /\ Len(code) \in Nat
  BY TypedLengths, AtFacts
<1>5. Left' = Left \cup {N} /\ N \notin Left
  <2>1. Sited
    BY <1>1 DEF Underway
  <2> QED
    BY <1>2, <1>4, <2>1, LeftGrows
<1>6. /\ Pending(pos)' = (Pending(pos) \ {}) \cup {j \in {N} : "leave" \in Ahead \cup {"leave"}}
      /\ \A d \in 1..Len(open) : Owed(pos, d)' = Owed(pos, d)
  <2>1. Left' = Left \cup {j \in {N} : "leave" = "leave"}
    BY <1>5
  <2> QED
    BY <1>1, <1>2, <1>3, <2>1, PendLevel
<1>7. /\ Sited' /\ Cells(pos)' /\ \A x, a : Led(x, a) => Led(x, a)'
  <2>1. {} \subseteq Pending(pos) /\ Sites({}, {})
    BY DEF Sites
  <2>2. Sited /\ Cells(pos)
    BY <1>1 DEF Underway
  <2>3. Pending(pos)' = (Pending(pos) \ {}) \cup {j \in {N} : "leave" \in Ahead \cup {"leave"}}
    BY <1>6
  <2> QED
    BY <1>2, <1>3, <2>1, <2>2, <2>3, CellStep
<1>8. Right'
  <2>1. \A i \in 1..Len(src) : ~Ends(i, N)'
    BY <1>1, <1>2, <1>3, NewlyClosed
  <2> QED
    BY <1>1, <1>2, <1>7, <2>1, RightStays
<1>9. /\ Len(src) \in Nat /\ Len(src') = Len(src) + 1 /\ N \in 1..Len(src')
      /\ Extended("leave") /\ \A k \in 1..Len(src) : src'[k] = src[k]
      /\ \A k \in 1..Len(src) : After(k)' = After(k) /\ After(k) \in Nat
                                /\ After(k) <= Len(code) + 1
  <2>1. \A k \in 1..Len(src) : k + 1 \in 1..N
    BY <1>2, TypedLengths
  <2>2. \A k \in 1..N : at[k] \in Nat /\ at[k] <= Len(code) + 1
    BY <1>2, SiteStays
  <2>3. \A k \in 1..Len(src) : After(k) \in Nat /\ After(k) <= Len(code) + 1
    BY <2>1, <2>2 DEF After
  <2>4. Extended("leave")
    BY DEF Enters
  <2> QED
    BY <1>2, <2>3, <2>4, SiteStays
<1>10. LeavesIn'
  <2> SUFFICES ASSUME NEW k \in 1..Len(src'), src'[k] = "leave"
               PROVE  \E x \in 1..Len(src') :
                        IsInnermost(x, Loops, k)' /\ (~Closed(x)' => k \in Left')
    BY DEF LeavesIn
  <2>1. CASE k = N
    <3>1. 1 \in 1..Len(ls') /\ ls'[1] = Len(code')
      <4>1. ls \in Seq(Nat \ {0}) /\ Len(code') \in Nat \ {0}
        BY <1>4 DEF Types
      <4>2. Len(ls') = Len(ls) + 1 /\ ls'[1] = Len(code') /\ Len(ls) \in Nat
        BY <4>1, PushFacts, TypedLengths
      <4> QED
        BY <4>2
    <3>0. PICK a : a = ls'[1]
      OBVIOUS
    <3>2. PICK d, i : LeaveOf(pos, d, i, a)'
      BY <1>1, <3>0, <3>1 DEF Leaves
    <3>3. /\ i \in 1..Len(src') /\ After(i)' - 1 = Len(code')
          /\ IsInnermost(pos[d], Loops, i)'
      BY <3>0, <3>1, <3>2 DEF LeaveOf
    <3>4. i = N
      <4>1. i \in 1..Len(src) => After(i)' <= Len(code) + 1 /\ After(i)' \in Nat
        BY <1>9
      <4>2. i \notin 1..Len(src)
        BY <1>4, <3>3, <4>1
      <4> QED
        BY <1>2, <1>9, <3>3, <4>2
    <3>5. IsInnermost(pos[d], Loops, k)' /\ k \in Left' /\ pos[d] \in 1..Len(src')
      <4>1. IsInnermost(pos[d], Loops, N)'
        BY <3>3, <3>4
      <4>2. pos[d] \in 1..(N - 1)
        BY <4>1 DEF IsInnermost
      <4> QED
        BY <1>2, <1>5, <1>9, <2>1, <4>1, <4>2
    <3> QED
      BY <3>5
  <2>2. CASE k \in 1..Len(src)
    <3>1. PICK x \in 1..Len(src) : IsInnermost(x, Loops, k) /\ (~Closed(x) => k \in Left)
      BY <1>1, <1>9, <2>2 DEF Underway, LeavesIn
    <3>2. IsInnermost(x, Loops, k)' /\ x \in 1..Len(src')
      BY <1>9, <2>2, <3>1, IsInnermostExtended
    <3>3. Closed(x) => Closed(x)'
      BY <1>9, ClosedExtended
    <3> QED
      BY <1>5, <3>1, <3>2, <3>3
  <2> QED
    BY <1>2, <1>9, <2>1, <2>2
<1>11. ASSUME NEW d \in 1..Len(open') PROVE Owes(pos, B, d)'
  <2>1. /\ d \in 1..Len(open) /\ Up(open', d) = Up(open, d) /\ Owed(pos, d)' = Owed(pos, d)
    BY <1>6
  <2>2. \A q \in 1..B[d] : Up(cs', q) = Up(cs, q)
    OBVIOUS
  <2>3. Owes(pos, B, d)
    BY <1>1, <2>1 DEF Underway
  <2> QED
    BY <1>1, <1>7, <2>1, <2>2, <2>3, OwesStays
<1>12. Underway(pos, B)'
  BY <1>7, <1>10, <1>11 DEF Underway
<1> QED
  BY <1>1, <1>7, <1>8, <1>12 DEF Sound, Cells

(* LEAVE without room: the word is given up, its branches stay.            *)
LEMMA SoundAborted ==
  ASSUME Types, NEW b, NEW pos, NEW B, Word(b, pos, B), Sound(pos, B),
         Enters("leave"), mode' = "aborted", Plainly(code, code')
  PROVE  Sound(pos, B)'
<1>1. Hist(pos) /\ Right
  BY DEF Word, Sound
<1>2. PICK N : N = Len(src) + 1
  OBVIOUS
<1>3. "leave" \notin Closes
  BY DEF Closes
<1>4. Len(code) \in Nat /\ Len(code') \in Nat /\ Len(code') >= Len(code)
  BY TypedLengths, AtFacts DEF Plainly
<1>5. \A x, a : Led(x, a) => Led(x, a)'
  BY <1>4 DEF Led, LedIn, Plainly
<1>6. Right'
  <2>1. \A i \in 1..Len(src) : ~Ends(i, N)'
    BY <1>1, <1>2, <1>3, NewlyClosed
  <2> QED
    BY <1>1, <1>2, <1>5, <2>1, RightStays
<1>7. \A a \in 1..Len(code') : code'[a].op # "offset" => code'[a].arg = 0
  BY <1>4 DEF Sound, Plainly, PlainCell
<1> QED
  BY <1>6, <1>7 DEF Sound

(* The top r leave addresses are those of the structure at depth n, when   *)
(* that is a loop: those of the cells behind its start.                    *)
Takes(p, n, r) ==
  /\ Up(open, n) \notin Loops => r = 0
  /\ Up(open, n) \in Loops => \A m \in 1..Len(ls) : m <= r <=> ls[m] > After(p[n])

LEMMA TakenAre ==
  ASSUME Types, NEW b, NEW B, NEW pos, Hist(pos), Shaped(open, src, at, cs, b, B, pos),
         Sited, LeavesIn, NEW n, n = Len(open), n >= 1,
         NEW r \in 0..Len(ls), Takes(pos, n, r)
  PROVE  /\ \A k \in 1..Len(src) :
              src[k] = "leave" /\ Up(open, n) \in Loops /\ IsInnermost(pos[n], Loops, k) =>
                k \in Taken(r)
         /\ \A k \in Taken(r) : \A x \in 1..Len(src) :
              IsInnermost(x, Loops, k) => x = pos[n] \/ Closed(x)
<1>1. /\ Len(src) \in Nat /\ n \in Nat /\ n \in 1..Len(open) /\ Len(ls) \in Nat
      /\ \A m \in 1..Len(ls) : ls[m] \in Nat
  BY TypedLengths, ElementOfSeq DEF Types
<1>2. /\ pos[n] \in 1..Len(src) /\ pos[n] \in Nat /\ ~Closed(pos[n])
      /\ \A d \in 1..Len(open) : pos[d] \in Nat /\ (d # n => pos[d] < pos[n])
  <2>1. \A d \in 1..Len(open) : d # n => d < n
    BY <1>1
  <2> QED
    BY <1>1, <2>1, HistOrder
<1>3. src[pos[n]] \in Opens /\ (Up(open, n) \in Loops => src[pos[n]] \in Loops)
  <2>1. src[pos[n]] \in Opens
    BY <1>1 DEF Hist
  <2>2. src[pos[n]] \in Source(Up(open, n))
    BY <1>1 DEF Shaped, FrameFits
  <2> QED
    BY <2>1, <2>2 DEF Source, Loops
<1>4. "leave" \in Branching /\ "leave" \notin Opens
  BY DEF Branching, Opens
<1>5. ASSUME NEW k \in 1..Len(src), src[k] = "leave", Up(open, n) \in Loops,
             IsInnermost(pos[n], Loops, k)
      PROVE  k \in Taken(r)
  <2>1. PICK x \in 1..Len(src) : IsInnermost(x, Loops, k) /\ (~Closed(x) => k \in Left)
    BY <1>5 DEF LeavesIn
  <2>2. x = pos[n]
    <3>1. k \in Nat
      BY <1>1
    <3>2. Innermost(Loops, k) = x
      BY <2>1, <3>1, InnermostIs
    <3>3. Innermost(Loops, k) = pos[n]
      BY <1>5, <3>1, InnermostIs
    <3> QED
      BY <3>2, <3>3
  <2>3. k \in Left
    BY <1>2, <2>1, <2>2
  <2>4. PICK m \in 1..Len(ls) : ls[m] = Site(k)
    BY <2>3 DEF Left
  <2>5. pos[n] < k
    BY <1>1, <1>5 DEF IsInnermost
  <2>6. at[pos[n] + 1] < Site(k)
    BY <1>2, <1>4, <1>5, <2>5, SiteBounds
  <2> DEFINE after == After(pos[n])
  <2>7. ls[m] > after
    <3>1. after \in Nat
      <4>1. Len(at) = Len(src) + 1 /\ at \in Seq(Nat)
        BY DEF Types
      <4>2. pos[n] + 1 \in 1..Len(at)
        BY <1>1, <1>2, <4>1
      <4> QED
        BY <4>1, <4>2, ElementOfSeq DEF After
    <3>2. after < Site(k)
      BY <2>6 DEF After
    <3> HIDE DEF after
    <3>3. ls[m] > after
      BY <1>1, <2>4, <3>1, <3>2
    <3> QED
      BY <3>3 DEF after
  <2>8. m <= r /\ m \in 1..r
    BY <1>1, <1>5, <2>7 DEF Takes
  <2> QED
    BY <2>3, <2>4, <2>8 DEF Taken
<1>6. ASSUME NEW k \in Taken(r), NEW x \in 1..Len(src), IsInnermost(x, Loops, k), x # pos[n]
      PROVE  Closed(x)
  <2>1. PICK m \in 1..r : ls[m] = Site(k)
    BY DEF Taken
  <2>2. k \in 1..Len(src) /\ src[k] = "leave"
    BY DEF Taken, Left
  <2>3. Up(open, n) \in Loops
    BY <2>1 DEF Takes
  <2>4. Site(k) > After(pos[n])
    <3>1. m \in 1..Len(ls) /\ m <= r
      BY <1>1, <2>1
    <3> QED
      BY <2>1, <2>3, <3>1 DEF Takes
  <2>5. pos[n] < k
    <3>1. k \in Nat /\ pos[n] # k
      BY <1>1, <1>3, <1>4, <2>2
    <3>2. ASSUME pos[n] > k PROVE FALSE
      <4>1. Site(k) < at[pos[n]] /\ Site(k) \in Nat
        BY <1>2, <1>4, <2>2, <3>2, SiteBounds
      <4>2. at[pos[n]] <= at[pos[n] + 1] /\ at[pos[n]] \in Nat /\ at[pos[n] + 1] \in Nat
        <5>1. /\ Len(at) = Len(src) + 1 /\ at \in Seq(Nat)
              /\ \A j, l \in 1..Len(at) : j <= l => at[j] <= at[l]
          BY DEF Types
        <5>2. pos[n] \in 1..Len(at) /\ pos[n] + 1 \in 1..Len(at) /\ pos[n] <= pos[n] + 1
          BY <1>1, <1>2, <5>1
        <5> QED
          BY <5>1, <5>2, ElementOfSeq
      <4> QED
        BY <2>4, <4>1, <4>2 DEF After
    <3> QED
      BY <1>2, <3>1, <3>2
  <2>6. Encloses(pos[n], k)
    BY <1>2, <1>3, <2>5 DEF Encloses
  <2>7. x > pos[n] /\ x \in Nat
    <3>1. pos[n] \notin (x + 1)..(k - 1)
      BY <1>3, <1>6, <2>3, <2>6 DEF IsInnermost
    <3> QED
      BY <1>1, <1>2, <1>6, <2>2, <2>5, <3>1
  <2>8. src[x] \in Opens
    BY <1>6 DEF IsInnermost, Encloses
  <2>9. ASSUME ~Closed(x) PROVE FALSE
    <3>1. PICK d \in 1..Len(open) : pos[d] = x
      BY <2>8, <2>9 DEF Hist
    <3> QED
      BY <1>2, <1>6, <2>7, <3>1
  <2> QED
    BY <2>9
<1> QED
  BY <1>5, <1>6

(* ENDOF: the item of OF becomes one more of the CASE around it.           *)
LEMMA OwesHanded ==
  ASSUME Types, Enters("endof"), NEW N, N = Len(src) + 1,
         NEW b, NEW B, NEW pos, Hist(pos), Shaped(open, src, at, cs, b, B, pos),
         HandsOver, Up(cs', Len(cs')) = Len(code'),
         NEW k \in 1..Len(open), k + 1 = Len(open), Owes(pos, B, k),
         NEW new, new[k] = pos[k], Up(open', k) = Up(open, k),
         Owed(new, k)' = Owed(pos, k) \cup {N},
         NEW B2, B2[k] = Len(cs'), B2[k - 1] = B[k - 1]
  PROVE  Owes(new, B2, k)'
<1>1. /\ Len(open) \in Nat /\ Len(cs) \in Nat /\ k \in Nat /\ k - 1 \in 0..Len(open)
      /\ k + 1 \in 1..Len(open)
  BY TypedLengths
<1>2. Up(open, Len(open)) = "of"
  <2>1. open \in Seq(OpenKinds) /\ open # <<>> /\ Head(open) = "of"
    BY DEF Types, HandsOver, Inside
  <2> QED
    BY <2>1, PopFacts
<1>3. FrameFits(open, src, at, cs, B, pos, k + 1)
  BY <1>1 DEF Shaped
<1>4. /\ Up(open, k) = "case" /\ B[k + 1] = B[k] + 1
  <2>1. (k + 1) - 1 = k
    BY <1>1
  <2> QED
    BY <1>2, <1>3, <2>1 DEF FrameFits, Wide
<1>5. /\ B[k + 1] = Len(cs) /\ B[k] \in Nat /\ B[k - 1] \in Nat /\ B[k - 1] < B[k]
  BY <1>1, ShapeFacts
<1>6. /\ Len(cs') = Len(cs) /\ \A q \in 1..(Len(cs) - 1) : Up(cs', q) = Up(cs, q)
  BY DEF HandsOver
<1>7. Site(N)' = Len(code') /\ \A j \in 1..Len(src) : Site(j)' = Site(j)
  <2>1. /\ Site(N)' = Len(code') + 1 - Behind("endof") /\ Len(code') \in Nat
        /\ \A j \in 1..Len(src) : Site(j)' = Site(j)
    BY SiteStays
  <2>2. Behind("endof") = 1
    BY DEF Behind
  <2> QED
    BY <2>1, <2>2
<1>8. {Up(cs, q) : q \in (B[k - 1] + 2)..B[k]} = {Site(j) : j \in Owed(pos, k)}
  BY <1>4 DEF Owes
<1>9. {Up(cs', q) : q \in (B2[k - 1] + 2)..B2[k]} =
        {Up(cs, q) : q \in (B[k - 1] + 2)..B[k]} \cup {Len(code')}
  <2>0. PICK x \in Nat, y \in Nat, z \in Nat :
          /\ x = B[k - 1] /\ y = B[k] /\ z = Len(cs) /\ x < y /\ z = y + 1
          /\ B2[k - 1] = x /\ B2[k] = z
    BY <1>1, <1>4, <1>5, <1>6
  <2>1. \A q : q \in (B2[k - 1] + 2)..B2[k] <=> q \in (B[k - 1] + 2)..B[k] \/ q = Len(cs)
    <3>1. \A q : q \in (x + 2)..z <=> q \in (x + 2)..y \/ q = z
      BY <2>0
    <3> QED
      BY <2>0, <3>1
  <2>2. \A q \in (B[k - 1] + 2)..B[k] : Up(cs', q) = Up(cs, q)
    <3>1. \A q \in (x + 2)..y : q \in 1..(z - 1)
      BY <2>0
    <3> QED
      BY <1>6, <2>0, <3>1
  <2>3. Up(cs', Len(cs)) = Len(code')
    BY <1>6
  <2> QED
    BY <2>1, <2>2, <2>3
<1>10. {Site(j)' : j \in Owed(new, k)'} = {Site(j) : j \in Owed(pos, k)} \cup {Len(code')}
  <2>1. \A j \in Owed(pos, k) : Site(j)' = Site(j)
    BY <1>7, OwedFacts
  <2> QED
    BY <1>7, <2>1
<1>11. {Up(cs', q) : q \in (B2[k - 1] + 2)..B2[k]} = {Site(j)' : j \in Owed(new, k)'}
  BY <1>8, <1>9, <1>10
<1>12. Up(open', k) = "case"
  BY <1>4
<1> QED
  BY <1>11, <1>12 DEF Owes

(* A token that closes the innermost structure.                            *)
Closing2(B, n, t) ==
  /\ t # "endof" => Pops(B[n - 1])
  /\ t = "endof" => HandsOver /\ Up(cs', Len(cs')) = Len(code')

LEMMA SoundClose ==
  ASSUME Types, NEW b, NEW pos, NEW B, Word(b, pos, B), ~stale, Sound(pos, B),
         NEW n, n = Len(open), open # <<>>, open' = Tail(open), mode' = mode,
         NEW t \in Ending(Up(open, n)), Enters(t), Closing2(B, n, t),
         NEW r, Drops(r), Takes(pos, n, r), NEW A, Sites(A, Owed(pos, n) \cup Taken(r)),
         NEW dest, t \in Back => dest = After(pos[n]), Written(code, code', t, A, dest),
         NEW new, NEW B2, Word(b, new, B2)', Agree(new, pos, n - 1),
         \A d \in 0..(n - 2) : B2[d] = B[d]
  PROVE  Sound(new, B2)'
<1>1. /\ Hist(pos) /\ Shaped(open, src, at, cs, b, B, pos) /\ Leaves(pos)
      /\ mode = "compile" /\ mode' = "compile" /\ Right /\ Underway(pos, B)
      /\ Shaped(open', src', at', cs', b, B2, new) /\ Sited /\ Cells(pos) /\ LeavesIn
  BY DEF Word, Sound, Enters, Underway
<1>2. PICK N : N = Len(src) + 1
  OBVIOUS
<1>3. t \in Closes /\ t # "leave" /\ t \notin {"leave"}
  BY DEF Ending, Closes
<1>4. /\ n \in Nat /\ n >= 1 /\ n \in 1..Len(open) /\ Len(open') = n - 1
      /\ \A d \in 1..(n - 1) : d \in 1..Len(open) /\ new[d] = pos[d]
  BY OpenPopped DEF Agree
<1>5. Owes(pos, B, n) /\ pos[n] \in 1..Len(src) /\ FrameFits(open, src, at, cs, B, pos, n)
  BY <1>1, <1>4 DEF Underway, Shaped, Hist
<1>6. t = "endof" => Up(open, n) = "of" /\ n > 1
  <2>1. t = "endof" => Up(open, n) = "of"
    BY DEF Ending
  <2>2. Up(open, n) = "of" => n > 1
    BY <1>5 DEF FrameFits
  <2> QED
    BY <2>1, <2>2
<1>7. Shut(new, pos, n, r, N, t)
  <2>1. ASSUME NEW M, M = Len(src) + 1 PROVE Shut(new, pos, n, r, M, t)
    BY <1>1, <1>3, <1>6, <2>1, PendClose
  <2> QED
    BY <1>2, <2>1
<1>8. After(pos[n]) \in Nat /\ After(pos[n]) <= Len(code) + 1
  <2>1. pos[n] + 1 \in 1..N
    BY <1>2, <1>5, TypedLengths
  <2>2. \A k \in 1..N : at[k] \in Nat /\ at[k] <= Len(code) + 1
    BY <1>2, SiteStays
  <2> QED
    BY <2>1, <2>2 DEF After
<1>9. /\ Sited' /\ Cells(new)' /\ \A x, a : Led(x, a) => Led(x, a)'
      /\ \A j \in Owed(pos, n) \cup Taken(r) : LedIn(code', Site(j), Len(code') + 1)
      /\ t \in Back => LedIn(code', Len(code'), dest)
  <2>1. PICK D : D = Owed(pos, n) \cup Taken(r)
    OBVIOUS
  <2>2. /\ Pending(new)' = (Pending(pos) \ D) \cup {j \in {N} : t \in Ahead \cup {"leave"}}
        /\ D \subseteq Pending(pos) /\ Sites(A, D)
    BY <1>7, <2>1 DEF Shut
  <2>3. t \in Back => dest \in Nat /\ dest <= Len(code) + 1
    BY <1>8
  <2>4. /\ Sited' /\ Cells(new)' /\ \A x, a : Led(x, a) => Led(x, a)'
        /\ \A j \in D : LedIn(code', Site(j), Len(code') + 1)
        /\ t \in Back => LedIn(code', Len(code'), dest)
    BY <1>1, <1>2, <2>2, <2>3, CellStep
  <2> QED
    BY <2>1, <2>4
<1>10. r \in 0..Len(ls)
  BY DEF Drops
<1>11. /\ \A k \in 1..Len(src) :
            src[k] = "leave" /\ Up(open, n) \in Loops /\ IsInnermost(pos[n], Loops, k) =>
              k \in Taken(r)
       /\ \A k \in Taken(r) : \A x \in 1..Len(src) :
            IsInnermost(x, Loops, k) => x = pos[n] \/ Closed(x)
  BY <1>1, <1>4, <1>10, TakenAre
<1>12. Right'
  <2>1. \A k \in 1..Len(src) :
          src[k] = "leave" =>
            /\ \E x : IsInnermost(x, Loops, k)
            /\ Up(open, n) \in Loops /\ IsInnermost(pos[n], Loops, k) =>
                 LedIn(code', Site(k), Len(code') + 1)
    BY <1>1, <1>9, <1>11 DEF LeavesIn
  <2>2. \A j \in Owed(pos, n) : LedIn(code', Site(j), Len(code') + 1)
    BY <1>9
  <2>3. t \in Back => LedIn(code', Len(code'), After(pos[n]))
    BY <1>9
  <2>4. \A i \in 1..Len(src) : Ends(i, N)' => Settled(i, N)'
    BY <1>1, <1>2, <1>4, <1>5, <1>9, <2>1, <2>2, <2>3, NowSettled
  <2> QED
    BY <1>1, <1>2, <1>9, <2>4, RightStays
<1>13. LeavesIn'
  <2>1. Left' = Left \ Taken(r)
    BY <1>1, <1>3, LeftStays DEF Drops
  <2>2. /\ Closed(pos[n])' /\ Extended(t)
    <3>1. Extended(t) /\ Len(open) \in Nat /\ Len(open) >= 1
      BY <1>4 DEF Enters
    <3>2. \A i, M : i = pos[Len(open)] /\ M = Len(src) + 1 => Closed(i)'
      BY <1>1, <1>3, <3>1, TopCloses
    <3> QED
      BY <1>2, <3>1, <3>2
  <2>3. \A x \in 1..Len(src) : Closed(x) => Closed(x)'
    BY <2>2, ClosedExtended
  <2>4. \A k \in Left : k \in Left' \/ \A x \in 1..Len(src) : IsInnermost(x, Loops, k) => Closed(x)'
    <3>1. ASSUME NEW k \in Left, k \notin Left', NEW x \in 1..Len(src), IsInnermost(x, Loops, k)
          PROVE  Closed(x)'
      <4>1. k \in Taken(r)
        BY <2>1, <3>1
      <4>2. x = pos[n] \/ Closed(x)
        BY <1>11, <3>1, <4>1
      <4> QED
        BY <2>2, <2>3, <4>2
    <3> QED
      BY <3>1
  <2> QED
    BY <1>1, <1>2, <1>3, <2>4, LeavesInStays
<1>14. B2[n - 1] = Len(cs') /\ B[n] = Len(cs)
  BY <1>1, <1>4, ShapeFacts DEF Shaped
<1>15. ASSUME NEW d \in 1..(n - 1), t = "endof" => d # n - 1 PROVE Owes(new, B2, d)'
  <2>1. /\ d \in 1..Len(open) /\ new[d] = pos[d] /\ Up(open', d) = Up(open, d)
        /\ Owed(new, d)' = Owed(pos, d)
    BY <1>4, <1>7, <1>15 DEF Shut
  <2>2. Owes(pos, B, d)
    BY <1>1, <2>1 DEF Underway
  <2>3. /\ B[d] \in Nat /\ B[n - 1] \in Nat /\ B[n - 1] < B[n] /\ B[d] <= B[n - 1]
    <3>1. d \in 0..Len(open) /\ n - 1 \in 0..Len(open) /\ (d = n - 1 \/ d < n - 1)
      BY <1>4
    <3>2. /\ \A x \in 0..Len(open) : B[x] \in Nat
          /\ \A x, y \in 0..Len(open) : x < y => B[x] < B[y]
      BY <1>1 DEF Shaped
    <3>3. B[n - 1] < B[n]
      BY <1>1, <1>4, ShapeFacts
    <3> QED
      BY <3>1, <3>2, <3>3
  <2>4. \A q \in 1..B[d] : Up(cs', q) = Up(cs, q)
    <3>1. CASE t = "endof"
      <4>1. \A q \in 1..B[d] : q \in 1..(Len(cs) - 1)
        BY <1>14, <2>3, TypedLengths
      <4> QED
        BY <3>1, <4>1 DEF Closing2, HandsOver
    <3>2. CASE t # "endof"
      <4>1. \A q \in 1..B[d] : q \in 1..B[n - 1]
        BY <2>3
      <4> QED
        BY <3>2, <4>1 DEF Closing2, Pops
    <3> QED
      BY <3>1, <3>2
  <2>5. B2[d] = B[d] /\ B2[d - 1] = B[d - 1]
    <3>1. d - 1 \in 0..(n - 2) /\ (d = n - 1 \/ d \in 0..(n - 2))
      BY <1>4
    <3>2. d = n - 1 => B2[n - 1] = B[n - 1]
      BY <1>14, <1>15 DEF Closing2, Pops
    <3> QED
      BY <3>1, <3>2
  <2> QED
    BY <1>1, <1>9, <2>1, <2>2, <2>4, <2>5, OwesStays
<1>16. ASSUME t = "endof" PROVE Owes(new, B2, n - 1)'
  <2>1. PICK k : k = n - 1
    OBVIOUS
  <2>2. /\ k \in 1..Len(open) /\ k + 1 = Len(open) /\ k \in 1..(n - 1)
    BY <1>4, <1>6, <1>16, <2>1
  <2>3. /\ new[k] = pos[k] /\ Up(open', k) = Up(open, k)
        /\ Owed(new, k)' = Owed(pos, k) \cup {N}
    BY <1>4, <1>7, <1>16, <2>1, <2>2 DEF Shut
  <2>4. Owes(pos, B, k)
    BY <1>1, <2>2 DEF Underway
  <2>5. B2[k] = Len(cs') /\ B2[k - 1] = B[k - 1]
    <3>1. k - 1 \in 0..(n - 2)
      BY <1>4, <1>6, <1>16, <2>1
    <3> QED
      BY <1>14, <2>1, <3>1
  <2>6. HandsOver /\ Up(cs', Len(cs')) = Len(code') /\ Enters("endof")
    BY <1>16 DEF Closing2
  <2>7. Owes(new, B2, k)'
    BY <1>1, <1>2, <2>2, <2>3, <2>4, <2>5, <2>6, OwesHanded
  <2> QED
    BY <2>1, <2>7
<1>17. \A d \in 1..Len(open') : Owes(new, B2, d)'
  BY <1>4, <1>15, <1>16
<1>18. Underway(new, B2)'
  BY <1>9, <1>13, <1>17 DEF Underway
<1> QED
  BY <1>1, <1>9, <1>12, <1>18 DEF Sound, Cells

-----------------------------------------------------------------------------
(* The tokens, one by one: what each writes, pushes and takes.             *)

(* The cells of the tokens whose offset is to be filled in.                *)
LEMMA TailCells ==
  ASSUME NEW c \in Seq(CodeCells), NEW p, Plainly(c, p)
  PROVE  /\ \A o \in Ops \ {"offset"} : \A t \in {"if", "unless", "while", "else", "endof"} :
              Written(c, p \o <<Op(o), Unresolved>>, t, {}, 0)
         /\ Written(c, p \o <<Op("unloop"), Op("branch"), Unresolved>>, "leave", {}, 0)
         /\ \A v, w, x, y \in Ops \ {"offset"} : \A t \in {"of", "?do"} :
              Written(c, p \o <<Op(v), Op(w), Op(x), Unresolved, Op(y)>>, t, {}, 0)
<1>1. Len(c) \in Nat /\ Len(p) \in Nat /\ Len(p) >= Len(c)
  BY LenProperties DEF Plainly
<1>2. /\ Unresolved \in CodeCells /\ Unresolved.op = "offset" /\ Unresolved.arg = 0
      /\ \A o \in Ops \ {"offset"} : Op(o) \in CodeCells /\ PlainCell(Op(o))
  BY CellFacts DEF PlainCell
<1>3. ASSUME NEW o \in Ops \ {"offset"}, NEW t \in {"if", "unless", "while", "else", "endof"}
      PROVE  Written(c, p \o <<Op(o), Unresolved>>, t, {}, 0)
  <2> DEFINE x == Op(o)
             u == Unresolved
             new == <<x, u>>
  <2>1. x \in CodeCells /\ PlainCell(x) /\ u \in CodeCells /\ u.op = "offset" /\ u.arg = 0
    BY <1>2
  <2> HIDE DEF x, u
  <2>2. new \in Seq(CodeCells) /\ Len(new) = 2 /\ new[1] = x /\ new[2] = u
    BY <2>1
  <2>3. t \in Branching /\ t \notin Back /\ Behind(t) = 1
    BY DEF Branching, Ahead, Forward, Back, Behind
  <2> HIDE DEF new
  <2>4. /\ 2 \in 1..2 /\ 2 = 2 + 1 - Behind(t) /\ Len(p) + 2 > Len(c) + 1
        /\ new[2].op = "offset" /\ new[2].arg = IF t \in Back THEN 0 - (Len(p) + 2) ELSE 0
        /\ \A i \in 1..2 : i = 2 \/ PlainCell(new[i])
    BY <1>1, <2>1, <2>2, <2>3
  <2>5. Written(c, p \o new, t, {}, 0)
    BY <2>2, <2>3, <2>4, WrittenEnd
  <2> QED
    BY <2>5 DEF new, x, u
<1>4. Written(c, p \o <<Op("unloop"), Op("branch"), Unresolved>>, "leave", {}, 0)
  <2> DEFINE x == Op("unloop")
             y == Op("branch")
             u == Unresolved
             new == <<x, y, u>>
  <2>1. /\ x \in CodeCells /\ PlainCell(x) /\ y \in CodeCells /\ PlainCell(y)
        /\ u \in CodeCells /\ u.op = "offset" /\ u.arg = 0
    BY <1>2 DEF Ops
  <2> HIDE DEF x, y, u
  <2>2. /\ new \in Seq(CodeCells) /\ Len(new) = 3
        /\ new[1] = x /\ new[2] = y /\ new[3] = u
    BY <2>1
  <2>3. "leave" \in Branching /\ "leave" \notin Back /\ Behind("leave") = 1
    BY DEF Branching, Back, Behind
  <2> HIDE DEF new
  <2>4. /\ 3 \in 1..3 /\ 3 = 3 + 1 - Behind("leave") /\ Len(p) + 3 > Len(c) + 1
        /\ new[3].op = "offset" /\ new[3].arg = IF "leave" \in Back THEN 0 - (Len(p) + 3) ELSE 0
        /\ \A i \in 1..3 : i = 3 \/ PlainCell(new[i])
    BY <1>1, <2>1, <2>2, <2>3
  <2>5. Written(c, p \o new, "leave", {}, 0)
    BY <2>2, <2>3, <2>4, WrittenEnd
  <2> QED
    BY <2>5 DEF new, x, y, u
<1>5. ASSUME NEW o1 \in Ops \ {"offset"}, NEW o2 \in Ops \ {"offset"},
             NEW o3 \in Ops \ {"offset"}, NEW o4 \in Ops \ {"offset"}, NEW t \in {"of", "?do"}
      PROVE  Written(c, p \o <<Op(o1), Op(o2), Op(o3), Unresolved, Op(o4)>>, t, {}, 0)
  <2> DEFINE v == Op(o1)
             w == Op(o2)
             x == Op(o3)
             y == Op(o4)
             u == Unresolved
             new == <<v, w, x, u, y>>
  <2>1. /\ v \in CodeCells /\ PlainCell(v) /\ w \in CodeCells /\ PlainCell(w)
        /\ x \in CodeCells /\ PlainCell(x) /\ y \in CodeCells /\ PlainCell(y)
        /\ u \in CodeCells /\ u.op = "offset" /\ u.arg = 0
    BY <1>2
  <2> HIDE DEF v, w, x, y, u
  <2>2. /\ new \in Seq(CodeCells) /\ Len(new) = 5
        /\ new[1] = v /\ new[2] = w /\ new[3] = x /\ new[4] = u /\ new[5] = y
    BY <2>1
  <2>3. t \in Branching /\ t \notin Back /\ Behind(t) = 2
    BY DEF Branching, Ahead, Forward, Back, Behind
  <2> HIDE DEF new
  <2>4. /\ 4 \in 1..5 /\ 4 = 5 + 1 - Behind(t) /\ Len(p) + 4 > Len(c) + 1
        /\ new[4].op = "offset" /\ new[4].arg = IF t \in Back THEN 0 - (Len(p) + 4) ELSE 0
        /\ \A i \in 1..5 : i = 4 \/ PlainCell(new[i])
    BY <1>1, <2>1, <2>2, <2>3
  <2>5. Written(c, p \o new, t, {}, 0)
    BY <2>2, <2>3, <2>4, WrittenEnd
  <2> QED
    BY <2>5 DEF new, v, w, x, y, u
<1> QED
  BY <1>3, <1>4, <1>5

LEMMA WrittenEnters ==
  ASSUME Types, NEW t, Token(t), at' = Append(at, Len(code') + 1), NEW A, NEW dest,
         Written(code, code', t, A, dest)
  PROVE  Enters(t)
BY EntersIs DEF Written

(* The tokens that open a structure.                                       *)
Opened(t) ==
  /\ Enters(t) /\ Pushes(t) /\ Tops(t) /\ ls' = ls /\ mode' = mode
  /\ Written(code, code', t, {}, 0)

LEMMA OneItem ==
  ASSUME Types, NEW t \in Opens \ {"do", "?do"}, Typed(t), open' = <<t>> \o open,
         ls' = ls, mode' = mode, Written(code, code', t, {}, 0),
         NEW x \in Nat, cs' = <<x>> \o cs,
         t \in {"if", "unless", "of"} => x = Len(code') + 1 - Behind(t),
         t = "begin" => x = Len(code') + 1, t = "case" => x = 0,
         t = "of" => Inside({"case"})
  PROVE  Opened(t)
<1>1. Enters(t)
  BY WrittenEnters DEF Typed
<1>2. /\ cs' \in Seq(Nat) /\ Len(cs') = Len(cs) + 1 /\ Up(cs', Len(cs) + 1) = x
      /\ \A q \in 1..Len(cs) : Up(cs', q) = Up(cs, q)
  <2>1. cs \in Seq(Nat)
    BY DEF Types
  <2> QED
    <3>1. LET p == <<x>> \o cs IN
          /\ p \in Seq(Nat) /\ Len(p) = Len(cs) + 1 /\ Up(p, Len(cs) + 1) = x
          /\ \A q \in 1..Len(cs) : Up(p, q) = Up(cs, q)
      BY <2>1, PushFacts
    <3> QED
      BY <3>1
<1>3. Pushes(t)
  <2>1. Wide(t) = 1 /\ t \notin {"do", "?do"}
    BY DEF Wide, Opens
  <2>2. t = "of" => open # <<>> /\ Head(open) = "case"
    BY DEF Inside
  <2>3. t = "case" => Up(cs', Len(cs) + 1) = 0
    BY <1>2
  <2> QED
    BY <1>2, <2>1, <2>2, <2>3 DEF Pushes
<1>4. Tops(t)
  BY <1>2 DEF Tops
<1> QED
  BY <1>1, <1>3, <1>4 DEF Opened

LEMMA TwoItems ==
  ASSUME Types, NEW t \in {"do", "?do"}, Typed(t), open' = <<t>> \o open,
         ls' = ls, mode' = mode, Written(code, code', t, {}, 0),
         NEW x \in Nat, cs' = <<x, Len(code') + 1>> \o cs, t = "do" <=> x = 0
  PROVE  Opened(t)
<1>1. Enters(t)
  BY WrittenEnters DEF Typed
<1>2. Len(code') + 1 \in Nat
  BY <1>1, AtFacts
<1>3. /\ cs' \in Seq(Nat) /\ Len(cs') = Len(cs) + 2 /\ Up(cs', Len(cs) + 1) = Len(code') + 1
      /\ Up(cs', Len(cs) + 2) = x
      /\ \A q \in 1..Len(cs) : Up(cs', q) = Up(cs, q)
  <2>1. cs \in Seq(Nat)
    BY DEF Types
  <2>2. PICK y : y = Len(code') + 1
    OBVIOUS
  <2>3. cs' = <<x, y>> \o cs /\ y \in Nat
    BY <1>2, <2>2
  <2> QED
    BY <2>1, <2>2, <2>3, PushTwo
<1>4. Pushes(t)
  BY <1>3 DEF Pushes, Wide
<1>5. Tops(t)
  BY <1>3 DEF Tops
<1> QED
  BY <1>1, <1>4, <1>5 DEF Opened

LEMMA OpeningFacts ==
  ASSUME Types, If \/ Unless \/ Begin \/ Case \/ Of \/ Do \/ QDo
  PROVE  \E t \in Opens : Opened(t)
<1>1. code \in Seq(CodeCells) /\ Len(code) \in Nat /\ Plainly(code, code)
  BY TypedLengths, PlainFacts DEF Types
<1>2. Plainly(code, code \o Operands(1)) /\ Plainly(code, code \o Operands(2))
  BY <1>1, PlainFacts
<1>3. ASSUME NEW t, NEW A, NEW dest, Written(code, code', t, A, dest)
      PROVE  /\ Len(code') \in Nat /\ Len(code') + 1 \in Nat
             /\ t = "of" => Len(code') - 1 \in Nat
  <2>1. Len(code') \in Nat
    BY <1>3, LenProperties DEF Written
  <2>2. t = "of" => Len(code') > 1
    BY <1>1, <1>3, <2>1 DEF Written, Branching, Ahead, Forward, Behind
  <2> QED
    BY <2>1, <2>2
<1>4. CASE If
  <2>1. code' = (code \o Operands(1)) \o <<Op("0branch"), Unresolved>>
    BY <1>4 DEF If, CompileIf
  <2>2. Written(code, code', "if", {}, 0)
    BY <1>1, <1>2, <2>1, TailCells DEF Ops
  <2>3. /\ Typed("if") /\ open' = <<"if">> \o open /\ ls' = ls /\ mode' = mode
        /\ cs' = <<Len(code')>> \o cs /\ Len(code') \in Nat
    BY <1>3, <1>4, <2>2 DEF If, CompileIf, Opening
  <2>4. "if" \in Opens \ {"do", "?do"} /\ Len(code') = Len(code') + 1 - Behind("if")
    BY <2>3 DEF Opens, Behind
  <2> QED
    BY <2>2, <2>3, <2>4, OneItem
<1>5. CASE Unless
  <2> DEFINE test == Append(Operands(1), Op("not"))
             c == code \o test
  <2>1. code' = c \o <<Op("0branch"), Unresolved>>
    BY <1>5 DEF Unless, CompileIf
  <2>2. Plainly(code, c)
    <3>1. /\ Operands(1) \in Seq(CodeCells) /\ Len(Operands(1)) = 1
          /\ Operands(1)[1] = Op("lit")
      BY OperandFacts
    <3>2. Op("not") \in CodeCells /\ PlainCell(Op("not")) /\ PlainCell(Op("lit"))
      BY CellFacts DEF Ops, PlainCell
    <3>3. /\ test \in Seq(CodeCells) /\ Len(test) = 2
          /\ test[1] = Op("lit") /\ test[2] = Op("not")
      <4>1. ASSUME NEW o \in Seq(CodeCells), Len(o) = 1, NEW x \in CodeCells
            PROVE  /\ Append(o, x) \in Seq(CodeCells) /\ Len(Append(o, x)) = 2
                   /\ Append(o, x)[1] = o[1] /\ Append(o, x)[2] = x
        <5>1. /\ Append(o, x) \in Seq(CodeCells) /\ Len(Append(o, x)) = Len(o) + 1
              /\ \A i \in 1..Len(o) : Append(o, x)[i] = o[i]
              /\ Append(o, x)[Len(o) + 1] = x
          BY AppendProperties
        <5>2. 1 \in 1..Len(o) /\ Len(o) + 1 = 2
          BY <4>1
        <5> QED
          BY <5>1, <5>2
      <4> QED
        BY <3>1, <3>2, <4>1
    <3> HIDE DEF test
    <3>4. \A k \in 1..Len(test) : PlainCell(test[k])
      BY <3>2, <3>3
    <3> QED
      BY <1>1, <3>3, <3>4, PlainFacts
  <2>3. /\ Typed("unless") /\ open' = <<"unless">> \o open /\ ls' = ls /\ mode' = mode
        /\ cs' = <<Len(code')>> \o cs
    BY <1>5 DEF Unless, CompileIf, Opening
  <2> HIDE DEF c
  <2>4. Written(code, code', "unless", {}, 0)
    BY <1>1, <2>1, <2>2, TailCells DEF Ops
  <2>5. /\ "unless" \in Opens \ {"do", "?do"} /\ Len(code') \in Nat
        /\ Len(code') = Len(code') + 1 - Behind("unless")
    BY <1>3, <2>4 DEF Opens, Behind
  <2> QED
    BY <2>3, <2>4, <2>5, OneItem
<1>6. CASE Begin
  <2>1. /\ Typed("begin") /\ open' = <<"begin">> \o open /\ ls' = ls /\ mode' = mode
        /\ code' = code /\ cs' = <<Len(code) + 1>> \o cs
    BY <1>6 DEF Begin, Opening, Here
  <2>2. "begin" \notin Branching /\ "begin" \in Opens \ {"do", "?do"}
    BY DEF Branching, Ahead, Forward, Back, Opens
  <2>3. Written(code, code', "begin", {}, 0)
    BY <1>1, <2>1, <2>2, WrittenPlain
  <2>4. Len(code) + 1 \in Nat /\ Len(code) + 1 = Len(code') + 1
    BY <1>1, <2>1
  <2> QED
    BY <2>1, <2>2, <2>3, <2>4, OneItem
<1>7. CASE Case
  <2>1. /\ Typed("case") /\ open' = <<"case">> \o open /\ ls' = ls /\ mode' = mode
        /\ code' = code \o Operands(1) /\ cs' = <<0>> \o cs
    BY <1>7 DEF Case, Opening
  <2>2. "case" \notin Branching /\ "case" \in Opens \ {"do", "?do"}
    BY DEF Branching, Ahead, Forward, Back, Opens
  <2>3. Written(code, code', "case", {}, 0)
    BY <1>2, <2>1, <2>2, WrittenPlain
  <2> QED
    BY <2>1, <2>2, <2>3, OneItem
<1>8. CASE Of
  <2>1. code' = (code \o Operands(1))
                  \o <<Op("over"), Op("="), Op("0branch"), Unresolved, Op("drop")>>
    BY <1>8 DEF Of
  <2>2. Written(code, code', "of", {}, 0)
    BY <1>1, <1>2, <2>1, TailCells DEF Ops
  <2>3. /\ Typed("of") /\ open' = <<"of">> \o open /\ ls' = ls /\ mode' = mode
        /\ cs' = <<Len(code') - 1>> \o cs /\ Inside({"case"})
    BY <1>8 DEF Of, Opening
  <2>4. /\ "of" \in Opens \ {"do", "?do"} /\ Len(code') - 1 \in Nat
        /\ Len(code') - 1 = Len(code') + 1 - Behind("of")
    <3>1. Len(code') \in Nat /\ Len(code') - 1 \in Nat
      BY <1>3, <2>2
    <3> QED
      BY <3>1 DEF Opens, Behind
  <2> QED
    BY <2>2, <2>3, <2>4, OneItem
<1>9. CASE Do
  <2>1. code' = Append(code \o Operands(2), Op("(do)"))
    <3>1. code' = (code \o Operands(2)) \o <<Op("(do)")>>
      BY <1>9 DEF Do
    <3>2. code \o Operands(2) \in Seq(CodeCells) /\ Op("(do)") \in CodeCells
      BY <1>1, CellFacts, Appended DEF Ops
    <3> QED
      BY <3>1, <3>2, AppendIsConcat
  <2>2. "do" \notin Branching
    BY DEF Branching, Ahead, Forward, Back
  <2>3. Written(code, code', "do", {}, 0)
    <3>1. Plainly(code, code')
      BY <1>1, <1>2, <2>1, PlainFacts DEF Ops
    <3> QED
      BY <2>2, <3>1, WrittenPlain
  <2>4. /\ Typed("do") /\ open' = <<"do">> \o open /\ ls' = ls /\ mode' = mode
        /\ cs' = <<0, Len(code') + 1>> \o cs
    BY <1>9 DEF Do, Opening
  <2> QED
    BY <2>3, <2>4, TwoItems DEF Opens
<1>10. CASE QDo
  <2>1. code' = (code \o Operands(2))
                  \o <<Op("2dup"), Op("<>"), Op("0branch"), Unresolved, Op("(do)")>>
    BY <1>10 DEF QDo
  <2>2. Written(code, code', "?do", {}, 0)
    BY <1>1, <1>2, <2>1, TailCells DEF Ops
  <2>3. /\ Typed("?do") /\ open' = <<"?do">> \o open /\ ls' = ls /\ mode' = mode
        /\ cs' = <<1, Len(code') + 1>> \o cs
    BY <1>10 DEF QDo, Opening
  <2> QED
    BY <2>2, <2>3, TwoItems DEF Opens
<1> QED
  BY <1>4, <1>5, <1>6, <1>7, <1>8, <1>9, <1>10

(* The word so far is compiled as it should be.                            *)
Branches(b) == \E pos, B : Word(b, pos, B) /\ Sound(pos, B)

LEMMA OpeningBranches ==
  ASSUME NEW b, WordInv(b), Branches(b), ~stale,
         If \/ Unless \/ Begin \/ Case \/ Of \/ Do \/ QDo
  PROVE  Branches(b)'
<1>1. Types /\ Len(ls) <= LeaveCells
  BY DEF WordInv
<1>2. PICK pos, B : Word(b, pos, B) /\ Sound(pos, B)
  BY DEF Branches
<1>3. PICK t \in Opens : Opened(t)
  BY <1>1, OpeningFacts
<1>4. /\ Enters(t) /\ Pushes(t) /\ Tops(t) /\ ls' = ls /\ mode' = mode
      /\ Written(code, code', t, {}, 0)
  BY <1>3 DEF Opened
<1>5. PICK new, B2 : /\ Word(b, new, B2)'
                     /\ new[Len(open) + 1] = Len(src) + 1
                     /\ \A d \in 1..Len(open) : new[d] = pos[d]
                     /\ \A d \in 0..Len(open) : B2[d] = B[d]
  BY <1>1, <1>2, <1>4, WordPushed
<1>6. Sound(new, B2)'
  BY <1>1, <1>2, <1>4, <1>5, SoundPush
<1> QED
  BY <1>5, <1>6 DEF Branches

(* Words that hold nothing of the control-flow words, EXIT among them.     *)
LEMMA LevelBranches ==
  ASSUME NEW b, WordInv(b), Branches(b), ~stale, Work \/ Exit
  PROVE  Branches(b)'
<1>1. Types /\ Len(ls) <= LeaveCells /\ code \in Seq(CodeCells)
  BY DEF WordInv, Types
<1>2. PICK pos, B : Word(b, pos, B) /\ Sound(pos, B)
  BY DEF Branches
<1>3. PICK t \in {"work", "exit"} :
        /\ Typed(t) /\ code' = Append(code, Op(t))
        /\ cs' = cs /\ ls' = ls /\ mode' = mode /\ open' = open
  BY DEF Work, Exit
<1>4. Written(code, code', t, {}, 0)
  <2>1. Plainly(code, code')
    <3>1. t \in Ops \ {"offset"}
      BY DEF Ops
    <3> QED
      BY <1>1, <1>3, <3>1, PlainFacts
  <2>2. t \notin Branching
    BY DEF Branching, Ahead, Forward, Back
  <2> QED
    BY <2>1, <2>2, WrittenPlain
<1>5. Enters(t) /\ t \notin Opens /\ t \notin Closes
  BY <1>1, <1>3, <1>4, WrittenEnters DEF Typed, Opens, Closes
<1>6. PICK B2 : Word(b, pos, B2)' /\ \A d \in 0..(Len(open) - 1) : B2[d] = B[d]
  BY <1>1, <1>2, <1>3, <1>5, WordLevel
<1>7. Sound(pos, B2)'
  BY <1>1, <1>2, <1>3, <1>4, <1>5, <1>6, SoundLevel
<1> QED
  BY <1>6, <1>7 DEF Branches

LEMMA WhileBranches ==
  ASSUME NEW b, WordInv(b), Branches(b), ~stale, While
  PROVE  Branches(b)'
<1>1. Types /\ Len(ls) <= LeaveCells /\ code \in Seq(CodeCells)
  BY DEF WordInv, Types
<1>2. PICK pos, B : Word(b, pos, B) /\ Sound(pos, B)
  BY DEF Branches
<1>3. /\ Inside({"begin"}) /\ Typed("while") /\ open' = <<"while">> \o Tail(open)
      /\ code' = (code \o Operands(1)) \o <<Op("0branch"), Unresolved>>
      /\ cs' = <<Head(cs), Len(code')>> \o Tail(cs) /\ ls' = ls /\ mode' = mode
  BY DEF While, Changing
<1>4. open # <<>> /\ Head(open) = "begin"
  BY <1>3 DEF Inside
<1>5. Written(code, code', "while", {}, 0)
  BY <1>1, <1>3, PlainFacts, TailCells DEF Ops
<1>6. Enters("while") /\ Len(code') \in Nat
  BY <1>1, <1>3, <1>5, WrittenEnters, AtFacts DEF Typed
<1>7. /\ Head(cs) \in Nat /\ Tail(cs) \in Seq(Nat) /\ Len(Tail(cs)) = Len(cs) - 1
      /\ Head(cs) = Up(cs, Len(cs)) /\ Len(cs) \in Nat
      /\ \A q \in 1..(Len(cs) - 1) : Up(Tail(cs), q) = Up(cs, q)
  BY <1>4, StackFacts
<1>8. /\ cs' \in Seq(Nat) /\ Len(cs') = Len(cs) - 1 + 2
      /\ \A q \in 1..(Len(cs) - 1) : Up(cs', q) = Up(cs, q)
      /\ Up(cs', Len(cs')) = Up(cs, Len(cs)) /\ Up(cs', Len(cs') - 1) = Len(code')
  <2>1. ASSUME NEW x \in Nat, NEW y \in Nat, NEW s \in Seq(Nat), cs' = <<x, y>> \o s
        PROVE  /\ cs' \in Seq(Nat) /\ Len(cs') = Len(s) + 2
               /\ \A q \in 1..Len(s) : Up(cs', q) = Up(s, q)
               /\ Up(cs', Len(s) + 1) = y /\ Up(cs', Len(s) + 2) = x
    BY <2>1, PushTwo
  <2>4. PICK x, y, s : x = Head(cs) /\ y = Len(code') /\ s = Tail(cs)
    OBVIOUS
  <2>5. x \in Nat /\ y \in Nat /\ s \in Seq(Nat) /\ cs' = <<x, y>> \o s
    BY <1>3, <1>6, <1>7, <2>4
  <2>6. /\ cs' \in Seq(Nat) /\ Len(cs') = Len(s) + 2
        /\ \A q \in 1..Len(s) : Up(cs', q) = Up(s, q)
        /\ Up(cs', Len(s) + 1) = y /\ Up(cs', Len(s) + 2) = x
    BY <2>1, <2>5
  <2>2. /\ cs' \in Seq(Nat) /\ Len(cs') = Len(Tail(cs)) + 2
        /\ \A q \in 1..Len(Tail(cs)) : Up(cs', q) = Up(Tail(cs), q)
        /\ Up(cs', Len(Tail(cs)) + 1) = Len(code') /\ Up(cs', Len(Tail(cs)) + 2) = Head(cs)
    BY <2>4, <2>6
  <2>3. Len(Tail(cs)) + 2 = Len(cs') /\ Len(Tail(cs)) + 1 = Len(cs') - 1
    BY <1>7, <2>2
  <2> QED
    BY <1>7, <2>2, <2>3
<1>9. Turns("while")
  BY <1>3, <1>8 DEF Turns, Wide, Source
<1>10. PICK B2 : Word(b, pos, B2)' /\ \A d \in 0..(Len(open) - 1) : B2[d] = B[d]
  <2>1. "while" \notin Opens /\ "while" \notin Closes
    BY DEF Opens, Closes
  <2> QED
    BY <1>1, <1>2, <1>3, <1>6, <1>9, <2>1, WordLevel
<1>11. PICK n : n = Len(open)
  OBVIOUS
<1>12. Owed(pos, n) = {}
  <2>1. n \in 1..Len(open) /\ Up(open, n) = "begin"
    <3>1. open \in Seq(OpenKinds)
      BY <1>1 DEF Types
    <3> QED
      BY <1>4, <1>11, <3>1, PopFacts
  <2>2. Underway(pos, B)
    BY <1>2, <1>6 DEF Sound, Enters
  <2> QED
    BY <2>1, <2>2 DEF Underway, Owes
<1>13. Sites({}, Owed(pos, n))
  BY <1>12 DEF Sites
<1>14. Sound(pos, B2)'
  <2>1. \A d \in 0..(n - 1) : B2[d] = B[d]
    BY <1>10, <1>11
  <2> QED
    BY <1>1, <1>2, <1>3, <1>5, <1>6, <1>8, <1>9, <1>10, <1>11, <1>13, <2>1, SoundTurn
<1> QED
  BY <1>10, <1>14 DEF Branches

(* The innermost open structure and the offsets it owes.                   *)
LEMMA TopFacts ==
  ASSUME Types, NEW b, NEW pos, NEW B, Word(b, pos, B), Sound(pos, B),
         mode = "compile", open # <<>>, NEW n, n = Len(open)
  PROVE  /\ n \in Nat /\ n >= 1 /\ n \in 1..Len(open) /\ Up(open, n) = Head(open)
         /\ Hist(pos) /\ Shaped(open, src, at, cs, b, B, pos)
         /\ Owes(pos, B, n) /\ B[n] = Len(cs) /\ B[n - 1] \in Nat /\ Len(cs) \in Nat
         /\ FrameFits(open, src, at, cs, B, pos, n)
         /\ Sited /\ pos[n] \in 1..Len(src)
         /\ \A j \in Owed(pos, n) : j \in 1..Len(src) /\ Site(j) \in 1..Len(code)
<1>1. Hist(pos) /\ Shaped(open, src, at, cs, b, B, pos) /\ Underway(pos, B)
  BY DEF Word, Sound
<1>2. n \in Nat /\ n >= 1 /\ n \in 1..Len(open) /\ Up(open, n) = Head(open)
  <2>1. open \in Seq(OpenKinds)
    BY DEF Types
  <2> QED
    BY <2>1, PopFacts
<1>3. Owes(pos, B, n) /\ Sited
  BY <1>1, <1>2 DEF Underway
<1>4. B[n] = Len(cs) /\ B[n - 1] \in Nat /\ Len(cs) \in Nat
  BY <1>1, <1>2, ShapeFacts, TypedLengths
<1>5. pos[n] \in 1..Len(src) /\ FrameFits(open, src, at, cs, B, pos, n)
  BY <1>1, <1>2 DEF Hist, Shaped
<1>6. ASSUME NEW j \in Owed(pos, n)
      PROVE  j \in 1..Len(src) /\ Site(j) \in 1..Len(code)
  <2>1. j \in 1..Len(src)
    BY <1>1, <1>2, OwedFacts
  <2>2. src[j] \in Branching
    BY <1>1, <1>2, OwedBranches
  <2>3. /\ Site(j) \in Nat /\ at[j] \in Nat /\ at[j] < Site(j) /\ Site(j) <= Len(code)
    BY <1>3, <2>1, <2>2, SiteBounds
  <2> QED
    BY <2>1, <2>3, TypedLengths
<1> QED
  BY <1>1, <1>2, <1>3, <1>4, <1>5, <1>6

LEMMA ElseBranches ==
  ASSUME NEW b, WordInv(b), Branches(b), ~stale, Else
  PROVE  Branches(b)'
<1>1. Types /\ Len(ls) <= LeaveCells /\ code \in Seq(CodeCells) /\ cs \in Seq(Nat)
  BY DEF WordInv, Types
<1>2. PICK pos, B : Word(b, pos, B) /\ Sound(pos, B)
  BY DEF Branches
<1>3. /\ Inside({"if", "unless"}) /\ Typed("else") /\ open' = <<"else">> \o Tail(open)
      /\ code' = Resolve(code \o <<Op("branch"), Unresolved>>, Head(cs))
      /\ cs' = <<Len(code')>> \o Tail(cs) /\ ls' = ls /\ mode' = mode
  BY DEF Else, Changing, CompileElse
<1>4. open # <<>> /\ Head(open) \in {"if", "unless"} /\ mode = "compile"
  BY <1>3 DEF Inside, Typed, Token
<1>5. PICK n : n = Len(open)
  OBVIOUS
<1>6. /\ n \in 1..Len(open) /\ Up(open, n) = Head(open)
      /\ Owes(pos, B, n) /\ B[n] = Len(cs)
      /\ \A j \in Owed(pos, n) : Site(j) \in 1..Len(code)
  BY <1>1, <1>2, <1>4, <1>5, TopFacts
<1>7. Head(cs) = Up(cs, Len(cs)) /\ cs # <<>> /\ Len(cs) \in Nat
  BY <1>4, StackFacts
<1>8. Owed(pos, n) = {pos[n]} /\ Head(cs) = Site(pos[n]) /\ Head(cs) \in 1..Len(code)
  BY <1>4, <1>6, <1>7 DEF Owes
<1>9. Sites({} \cup {Head(cs)}, Owed(pos, n))
  BY <1>8 DEF Sites
<1>10. Written(code, code', "else", {} \cup {Head(cs)}, 0)
  <2>1. Plainly(code, code)
    BY <1>1, PlainFacts
  <2>2. Written(code, code \o <<Op("branch"), Unresolved>>, "else", {}, 0)
    BY <1>1, <2>1, TailCells DEF Ops
  <2> QED
    BY <1>1, <1>3, <1>8, <2>2, WrittenResolve
<1>11. Enters("else") /\ Len(code') \in Nat
  BY <1>1, <1>3, <1>10, WrittenEnters, AtFacts DEF Typed
<1>12. /\ cs' \in Seq(Nat) /\ Len(cs') = Len(cs) /\ Up(cs', Len(cs')) = Len(code')
       /\ \A q \in 1..(Len(cs) - 1) : Up(cs', q) = Up(cs, q)
  <2>1. LET p == <<Len(code')>> \o Tail(cs) IN
        /\ p \in Seq(Nat) /\ Len(p) = Len(cs) /\ Up(p, Len(cs)) = Len(code')
        /\ \A q \in 1..(Len(cs) - 1) : Up(p, q) = Up(cs, q)
    BY <1>1, <1>7, <1>11, TurnFacts
  <2> QED
    BY <1>3, <2>1
<1>13. Turns("else")
  <2>1. Wide("else") = 1 /\ Source("else") = {"if", "unless"}
    BY DEF Wide, Source
  <2>2. Inside(Source("else"))
    BY <1>3, <2>1
  <2>3. Len(cs') = Len(cs) - 1 + Wide("else")
    BY <1>7, <1>12, <2>1
  <2> QED
    BY <1>3, <1>12, <2>2, <2>3 DEF Turns
<1>14. PICK B2 : Word(b, pos, B2)' /\ \A d \in 0..(Len(open) - 1) : B2[d] = B[d]
  <2>1. "else" \notin Opens /\ "else" \notin Closes
    BY DEF Opens, Closes
  <2> QED
    BY <1>1, <1>2, <1>3, <1>11, <1>13, <2>1, WordLevel
<1>15. Sound(pos, B2)'
  <2>1. \A d \in 0..(n - 1) : B2[d] = B[d]
    BY <1>5, <1>14
  <2> QED
    BY <1>1, <1>2, <1>3, <1>5, <1>9, <1>10, <1>11, <1>12, <1>13, <1>14, <2>1, SoundTurn
<1> QED
  BY <1>14, <1>15 DEF Branches

LEMMA LeaveBranches ==
  ASSUME NEW b, WordInv(b), Branches(b), ~stale, Leave
  PROVE  Branches(b)'
<1>1. Types /\ Len(ls) <= LeaveCells /\ code \in Seq(CodeCells) /\ Len(code) \in Nat
  BY TypedLengths DEF WordInv, Types
<1>2. PICK pos, B : Word(b, pos, B) /\ Sound(pos, B)
  BY DEF Branches
<1>3. /\ Hist(pos) /\ Shaped(open, src, at, cs, b, B, pos) /\ Leaves(pos)
      /\ Plainly(code, code)
  BY <1>1, <1>2, PlainFacts DEF Word
<1>4. /\ open' = open /\ cs' = cs /\ \E i \in 1..Len(open) : open[i] \in Loops
      /\ Token("leave") /\ at' = Append(at, Len(code') + 1)
  BY DEF Leave, Loops
<1>5. ASSUME Enters("leave") PROVE Hist(pos)' /\ Shaped(open', src', at', cs', b, B, pos)
  <2>1. Extended("leave") /\ "leave" \notin Opens /\ "leave" \notin Closes
    BY <1>5 DEF Opens, Closes, Enters
  <2>2. Hist(pos)'
    BY <1>1, <1>3, <1>4, <2>1, HistKeeps, TypedLengths
  <2> QED
    BY <1>1, <1>3, <1>4, <1>5, <2>2, ShapeKeep
<1>6. CASE LeaveFull
  <2>1. /\ code' = code \o <<Op("unloop"), Op("branch")>>
        /\ mode' = "aborted" /\ ls' = ls
    BY <1>6 DEF Leave
  <2>2. Plainly(code, code')
    <3>1. /\ Op("unloop") \in CodeCells /\ PlainCell(Op("unloop"))
          /\ Op("branch") \in CodeCells /\ PlainCell(Op("branch"))
      BY CellFacts DEF Ops, PlainCell
    <3> DEFINE new == <<Op("unloop"), Op("branch")>>
    <3>2. new \in Seq(CodeCells) /\ \A k \in 1..Len(new) : PlainCell(new[k])
      BY <3>1
    <3> HIDE DEF new
    <3>3. Plainly(code, code \o new)
      BY <1>1, <1>3, <3>2, PlainFacts
    <3> QED
      BY <2>1, <3>3 DEF new
  <2>3. Enters("leave")
    BY <1>1, <1>4, <2>2, EntersIs DEF Plainly
  <2>4. Word(b, pos, B)'
    <3>1. Leaves(pos)'
      <4>1. /\ 0 \in 0..Len(ls) /\ Len(ls') = Len(ls) - 0
            /\ \A k \in 1..(Len(ls) - 0) : ls'[k] = ls[0 + k]
        BY <1>1, <2>1, TypedLengths
      <4>2. \A d, i, a : LeaveOf(pos, d, i, a) =>
              d \in 1..Len(open') /\ Up(open', d) = Up(open, d) /\ pos[d] = pos[d]
        BY <1>4 DEF LeaveOf
      <4> QED
        BY <1>1, <1>3, <2>3, <4>1, <4>2, LeavesKept
    <3> QED
      BY <1>5, <2>3, <3>1 DEF Word
  <2>5. Sound(pos, B)'
    BY <1>1, <1>2, <2>1, <2>2, <2>3, SoundAborted
  <2> QED
    BY <2>4, <2>5 DEF Branches
<1>7. CASE ~LeaveFull
  <2>1. /\ code' = code \o <<Op("unloop"), Op("branch"), Unresolved>>
        /\ mode' = mode /\ ls' = <<Len(code')>> \o ls
    BY <1>7 DEF Leave
  <2>2. Written(code, code', "leave", {}, 0)
    BY <1>1, <1>3, <2>1, TailCells
  <2>3. Enters("leave")
    BY <1>1, <1>4, <2>2, WrittenEnters
  <2>4. Len(code') > Len(code) + 1
    <3>1. /\ Op("unloop") \in CodeCells /\ Op("branch") \in CodeCells
          /\ Unresolved \in CodeCells
      BY CellFacts DEF Ops
    <3>2. Len(code') = Len(code) + 3
      BY <1>1, <2>1, <3>1, Appended
    <3> QED
      BY <1>1, <3>2
  <2>5. Leaves(pos)'
    BY <1>1, <1>3, <1>4, <2>1, <2>3, <2>4, LeavesGrow
  <2>6. Word(b, pos, B)'
    BY <1>5, <2>3, <2>5 DEF Word
  <2>7. Sound(pos, B)'
    BY <1>1, <1>2, <1>4, <2>1, <2>2, <2>3, <2>4, <2>6, SoundLeave
  <2> QED
    BY <2>6, <2>7 DEF Branches
<1> QED
  BY <1>6, <1>7

(* The word without its innermost structure, whose leave addresses go.      *)
Spares(pos, r) ==
  \A k \in (r + 1)..Len(ls) : \A d, i : LeaveOf(pos, d, i, ls[k]) => d # Len(open)
LEMMA WordShut ==
  ASSUME Types, Len(ls) <= LeaveCells, NEW b, NEW pos, NEW B, Word(b, pos, B),
         NEW t \in Closes, Enters(t), Pops(B[Len(open) - 1]) \/ HandsOver,
         mode' = mode, ls' \in Seq(Nat \ {0}), NEW r, Drops(r), Spares(pos, r)
  PROVE  \E new, B2 : Shorter(b, pos, B, new, B2)
<1>1. /\ r \in 0..Len(ls) /\ Len(ls') = Len(ls) - r
      /\ \A k \in 1..(Len(ls) - r) : ls'[k] = ls[r + k]
  BY DEF Drops
<1>2. ~stale => \A k \in (r + 1)..Len(ls) : \A d, i :
                    LeaveOf(pos, d, i, ls[k]) => d # Len(open)
  BY DEF Spares
<1> QED
  BY <1>1, <1>2, WordClosed

(* The tokens that close a structure.                                      *)
LEMMA ClosingBranches ==
  ASSUME Types, Len(ls) <= LeaveCells, NEW b, NEW pos, NEW B, Word(b, pos, B), ~stale,
         Sound(pos, B), NEW n, n = Len(open), open # <<>>, open' = Tail(open), mode' = mode,
         NEW t \in Ending(Up(open, n)), Typed(t), Closing2(B, n, t),
         NEW r, Drops(r), ls' \in Seq(Nat \ {0}), Takes(pos, n, r),
         NEW A, Sites(A, Owed(pos, n) \cup Taken(r)),
         NEW dest, t \in Back => dest = After(pos[n]), Written(code, code', t, A, dest)
  PROVE  Branches(b)'
<1>1. Enters(t) /\ t \in Closes
  BY WrittenEnters DEF Typed, Ending, Closes
<1>2. /\ r \in 0..Len(ls) /\ Len(ls') = Len(ls) - r
      /\ \A k \in 1..(Len(ls) - r) : ls'[k] = ls[r + k]
  BY DEF Drops
<1>3. Pops(B[Len(open) - 1]) \/ HandsOver
  BY DEF Closing2
<1>4. ASSUME NEW k \in (r + 1)..Len(ls), NEW d, NEW i, LeaveOf(pos, d, i, ls[k]),
             d = Len(open)
      PROVE  FALSE
  <2>1. Up(open, n) \in Loops /\ at[pos[n] + 1] < ls[k]
    BY <1>4 DEF LeaveOf
  <2>2. k \in 1..Len(ls) /\ ~(k <= r)
    BY <1>2, <1>4, TypedLengths
  <2>3. ls[k] > After(pos[n])
    <3>1. After(pos[n]) < ls[k]
      BY <2>1 DEF After
    <3> QED
      BY <3>1
  <2> QED
    BY <2>1, <2>2, <2>3 DEF Takes
<1>5. Spares(pos, r)
  BY <1>4 DEF Spares
<1>6. PICK new, B2 : Shorter(b, pos, B, new, B2)
  BY <1>1, <1>3, <1>5, WordShut
<1>7. /\ Word(b, new, B2)' /\ Agree(new, pos, n - 1)
      /\ \A d \in 0..(n - 2) : B2[d] = B[d]
  BY <1>6 DEF Shorter
<1>8. Sound(new, B2)'
  BY <1>1, <1>7, SoundClose
<1> QED
  BY <1>7, <1>8 DEF Branches

(* Those that leave the addresses of LEAVEs alone.                         *)
LEMMA QuietClosing ==
  ASSUME Types, Len(ls) <= LeaveCells, NEW b, NEW pos, NEW B, Word(b, pos, B), ~stale,
         Sound(pos, B), NEW n, n = Len(open), open # <<>>, open' = Tail(open), mode' = mode,
         Up(open, n) \notin Loops, ls' = ls,
         NEW t \in Ending(Up(open, n)), Typed(t), Closing2(B, n, t),
         NEW A, Sites(A, Owed(pos, n)),
         NEW dest, t \in Back => dest = After(pos[n]), Written(code, code', t, A, dest)
  PROVE  Branches(b)'
<1>1. Drops(0) /\ ls' \in Seq(Nat \ {0})
  <2>1. ls \in Seq(Nat \ {0}) /\ Len(ls) \in Nat
    BY TypedLengths DEF Types
  <2> QED
    BY <2>1 DEF Drops
<1>2. Takes(pos, n, 0)
  BY DEF Takes
<1>3. Sites(A, Owed(pos, n) \cup Taken(0))
  <2>1. Taken(0) = {}
    BY DEF Taken
  <2>2. Owed(pos, n) \cup Taken(0) = Owed(pos, n)
    BY <2>1
  <2> QED
    BY <2>2
<1> QED
  BY <1>1, <1>2, <1>3, ClosingBranches

(* A structure other than CASE takes its one or two items.                 *)
LEMMA ItemsPopped ==
  ASSUME Types, NEW b, NEW pos, NEW B, Word(b, pos, B), Sound(pos, B), mode = "compile",
         open # <<>>, NEW n, n = Len(open), open' = Tail(open), Head(open) # "case",
         cs' \in Seq(Nat), Len(cs') = Len(cs) - Wide(Head(open)),
         \A q \in 1..Len(cs') : Up(cs', q) = Up(cs, q)
  PROVE  Pops(B[n - 1])
<1>1. /\ Up(open, n) = Head(open) /\ B[n] = Len(cs) /\ B[n - 1] \in Nat
      /\ FrameFits(open, src, at, cs, B, pos, n)
  BY TopFacts
<1>2. B[n] = B[n - 1] + Wide(Head(open)) /\ Wide(Head(open)) \in Nat
  BY <1>1 DEF FrameFits, Wide
<1>3. Len(cs') = B[n - 1]
  BY <1>1, <1>2
<1> QED
  BY <1>3 DEF Pops

LEMMA ThenBranches ==
  ASSUME NEW b, WordInv(b), Branches(b), ~stale, Then
  PROVE  Branches(b)'
<1>1. Types /\ Len(ls) <= LeaveCells /\ code \in Seq(CodeCells)
  BY DEF WordInv, Types
<1>2. PICK pos, B : Word(b, pos, B) /\ Sound(pos, B)
  BY DEF Branches
<1>3. /\ Inside({"if", "unless", "else"}) /\ Typed("then") /\ open' = Tail(open)
      /\ code' = Resolve(code, Head(cs)) /\ cs' = Tail(cs) /\ ls' = ls /\ mode' = mode
  BY DEF Then, Closing
<1>4. open # <<>> /\ Head(open) \in {"if", "unless", "else"} /\ mode = "compile"
  BY <1>3 DEF Inside, Typed, Token
<1>5. PICK n : n = Len(open)
  OBVIOUS
<1>6. /\ Up(open, n) = Head(open) /\ Owes(pos, B, n) /\ B[n] = Len(cs)
      /\ \A j \in Owed(pos, n) : Site(j) \in 1..Len(code)
  BY <1>1, <1>2, <1>4, <1>5, TopFacts
<1>7. /\ Head(cs) = Up(cs, Len(cs)) /\ Len(cs) \in Nat
      /\ Tail(cs) \in Seq(Nat) /\ Len(Tail(cs)) = Len(cs) - 1
      /\ \A q \in 1..(Len(cs) - 1) : Up(Tail(cs), q) = Up(cs, q)
  BY <1>4, StackFacts
<1>8. PICK j : Owed(pos, n) = {j} /\ Head(cs) = Site(j)
  BY <1>4, <1>6, <1>7 DEF Owes
<1>9. Sites({} \cup {Head(cs)}, Owed(pos, n)) /\ Head(cs) \in 1..Len(code)
  BY <1>6, <1>8 DEF Sites
<1>10. Written(code, code', "then", {} \cup {Head(cs)}, 0)
  <2>1. Plainly(code, code) /\ "then" \notin Branching
    BY <1>1, PlainFacts DEF Branching, Ahead, Forward, Back
  <2>2. Written(code, code, "then", {}, 0)
    BY <2>1, WrittenPlain
  <2> QED
    BY <1>1, <1>3, <1>9, <2>2, WrittenResolve
<1>11. Pops(B[n - 1])
  <2>1. Wide(Head(open)) = 1 /\ Head(open) # "case"
    BY <1>4 DEF Wide
  <2>2. /\ cs' \in Seq(Nat) /\ Len(cs') = Len(cs) - Wide(Head(open))
        /\ \A q \in 1..Len(cs') : Up(cs', q) = Up(cs, q)
    BY <1>3, <1>7, <2>1
  <2> QED
    BY <1>1, <1>2, <1>3, <1>4, <1>5, <2>1, <2>2, ItemsPopped
<1>12. Closing2(B, n, "then") /\ "then" \notin Back
  BY <1>11 DEF Closing2, Back
<1>13. "then" \in Ending(Up(open, n)) /\ Up(open, n) \notin Loops
  BY <1>4, <1>6 DEF Ending, Loops
<1> QED
  BY <1>1, <1>2, <1>3, <1>4, <1>5, <1>9, <1>10, <1>12, <1>13, QuietClosing

(* The cells a token that branches back adds before its offset.            *)
LEMMA BackCells ==
  ASSUME NEW c \in Seq(CodeCells), NEW dest \in Nat
  PROVE  \A t \in Back :
           /\ \A o \in Ops \ {"offset"} :
                /\ Written(c, BackTo(Append(c, Op(o)), dest), t, {}, dest)
                /\ Len(Append(c, Op(o))) >= Len(c)
           /\ \A o \in Ops \ {"offset"} :
                /\ Written(c, BackTo((c \o Operands(1)) \o <<Op(o)>>, dest), t, {}, dest)
                /\ Len((c \o Operands(1)) \o <<Op(o)>>) >= Len(c)
<1>1. Plainly(c, c) /\ Plainly(c, c \o Operands(1)) /\ c \o Operands(1) \in Seq(CodeCells)
  BY PlainFacts DEF Plainly
<1>2. Len(c) \in Nat /\ Len(c \o Operands(1)) = Len(c) + 1
  <2>1. Operands(1) \in Seq(CodeCells) /\ Len(Operands(1)) = 1
    BY OperandFacts
  <2> QED
    BY <2>1, LenProperties, AppendFacts
<1>3. ASSUME NEW t \in Back, NEW o \in Ops \ {"offset"}
      PROVE  /\ Written(c, BackTo(Append(c, Op(o)), dest), t, {}, dest)
             /\ Len(Append(c, Op(o))) >= Len(c)
             /\ Written(c, BackTo((c \o Operands(1)) \o <<Op(o)>>, dest), t, {}, dest)
             /\ Len((c \o Operands(1)) \o <<Op(o)>>) >= Len(c)
  <2> DEFINE x == Op(o)
             p == Append(c, x)
             d == c \o Operands(1)
             q == Append(d, x)
  <2>1. x \in CodeCells /\ PlainCell(x)
    BY CellFacts DEF PlainCell
  <2>2. Plainly(c, p) /\ Plainly(c, q)
    BY <1>1, PlainFacts
  <2>3. q = d \o <<x>>
    BY <1>1, <2>1, AppendIsConcat
  <2> HIDE DEF x, d
  <2>4. Len(p) = Len(c) + 1 /\ Len(q) = Len(d) + 1
    BY <1>1, <2>1 DEF d
  <2>5. Len(p) > Len(c) /\ Len(q) > Len(c)
    BY <1>2, <2>4 DEF d
  <2> HIDE DEF p, q
  <2>6. Written(c, BackTo(p, dest), t, {}, dest) /\ Written(c, BackTo(q, dest), t, {}, dest)
    BY <1>3, <2>2, <2>5, WrittenBack
  <2>7. Len(p) >= Len(c) /\ Len(q) >= Len(c)
    BY <2>2 DEF Plainly
  <2> QED
    BY <2>3, <2>6, <2>7 DEF p, x, d
<1> QED
  BY <1>3

LEMMA UntilBranches ==
  ASSUME NEW b, WordInv(b), Branches(b), ~stale, Until \/ Again
  PROVE  Branches(b)'
<1>1. Types /\ Len(ls) <= LeaveCells /\ code \in Seq(CodeCells)
  BY DEF WordInv, Types
<1>2. PICK pos, B : Word(b, pos, B) /\ Sound(pos, B)
  BY DEF Branches
<1>3. /\ Inside({"begin"}) /\ open' = Tail(open) /\ cs' = Tail(cs) /\ ls' = ls
      /\ mode' = mode
  BY DEF Until, Again, Closing
<1>4. mode = "compile"
  BY DEF Until, Again, Typed, Token
<1>5. open # <<>> /\ Head(open) = "begin"
  BY <1>3 DEF Inside
<1>6. PICK n : n = Len(open)
  OBVIOUS
<1>7. Up(open, n) = Head(open) /\ Owes(pos, B, n) /\ B[n] = Len(cs)
  BY <1>1, <1>2, <1>4, <1>5, <1>6, TopFacts
<1>8. /\ Head(cs) = Up(cs, Len(cs)) /\ Head(cs) \in Nat /\ Len(cs) \in Nat
      /\ Tail(cs) \in Seq(Nat) /\ Len(Tail(cs)) = Len(cs) - 1
      /\ \A q \in 1..(Len(cs) - 1) : Up(Tail(cs), q) = Up(cs, q)
  BY <1>5, StackFacts
<1>9. Owed(pos, n) = {} /\ Head(cs) = After(pos[n])
  BY <1>5, <1>7, <1>8 DEF Owes
<1>10. PICK t \in {"until", "again"} :
         Typed(t) /\ Written(code, code', t, {}, After(pos[n]))
  <2>1. /\ "until" \in Back /\ "again" \in Back
        /\ "0branch" \in Ops \ {"offset"} /\ "branch" \in Ops \ {"offset"}
    BY DEF Back, Ops
  <2>2. CASE Until
    <3>1. code' = BackTo((code \o Operands(1)) \o <<Op("0branch")>>, Head(cs))
      BY <2>2 DEF Until
    <3>2. Written(code, code', "until", {}, Head(cs))
      BY <1>1, <1>8, <2>1, <3>1, BackCells
    <3> QED
      BY <1>9, <2>2, <3>2 DEF Until
  <2>3. CASE Again
    <3>1. code' = BackTo(Append(code, Op("branch")), Head(cs))
      BY <2>3 DEF Again
    <3>2. Written(code, code', "again", {}, Head(cs))
      BY <1>1, <1>8, <2>1, <3>1, BackCells
    <3> QED
      BY <1>9, <2>3, <3>2 DEF Again
  <2> QED
    BY <2>2, <2>3
<1>11. Pops(B[n - 1])
  <2>1. Wide(Head(open)) = 1 /\ Head(open) # "case"
    BY <1>5 DEF Wide
  <2>2. /\ cs' \in Seq(Nat) /\ Len(cs') = Len(cs) - Wide(Head(open))
        /\ \A q \in 1..Len(cs') : Up(cs', q) = Up(cs, q)
    BY <1>3, <1>8, <2>1
  <2> QED
    BY <1>1, <1>2, <1>3, <1>4, <1>5, <1>6, <2>1, <2>2, ItemsPopped
<1>12. Closing2(B, n, t)
  BY <1>11 DEF Closing2
<1>13. t \in Ending(Up(open, n)) /\ Up(open, n) \notin Loops
  BY <1>5, <1>7 DEF Ending, Loops
<1>14. Sites({}, Owed(pos, n))
  BY <1>9 DEF Sites
<1> QED
  BY <1>1, <1>2, <1>3, <1>5, <1>6, <1>10, <1>12, <1>13, <1>14, QuietClosing

(* REPEAT leads back behind BEGIN, and WHILE behind REPEAT.                *)
LEMMA RepeatBranches ==
  ASSUME NEW b, WordInv(b), Branches(b), ~stale, Repeat
  PROVE  Branches(b)'
<1>1. Types /\ Len(ls) <= LeaveCells /\ code \in Seq(CodeCells)
  BY DEF WordInv, Types
<1>2. PICK pos, B : Word(b, pos, B) /\ Sound(pos, B)
  BY DEF Branches
<1>3. /\ Inside({"while"}) /\ Typed("repeat") /\ open' = Tail(open)
      /\ cs' = Tail(Tail(cs)) /\ ls' = ls /\ mode' = mode
      /\ code' = Resolve(BackTo(Append(code, Op("branch")), Head(cs)), cs[2])
  BY DEF Repeat, Closing
<1>4. open # <<>> /\ Head(open) = "while" /\ mode = "compile"
  BY <1>3 DEF Inside, Typed, Token
<1>5. PICK n : n = Len(open)
  OBVIOUS
<1>6. /\ Up(open, n) = Head(open) /\ Owes(pos, B, n) /\ B[n] = Len(cs)
      /\ \A j \in Owed(pos, n) : Site(j) \in 1..Len(code)
  BY <1>1, <1>2, <1>4, <1>5, TopFacts
<1>7. /\ Head(cs) = Up(cs, Len(cs)) /\ Head(cs) \in Nat /\ Len(cs) \in Nat
      /\ cs[2] = Up(cs, Len(cs) - 1)
      /\ Tail(Tail(cs)) \in Seq(Nat) /\ Len(Tail(Tail(cs))) = Len(cs) - 2
      /\ \A q \in 1..(Len(cs) - 2) : Up(Tail(Tail(cs)), q) = Up(cs, q)
  BY <1>4, StackFacts
<1>8. PICK j : Owed(pos, n) = {j} /\ cs[2] = Site(j) /\ Head(cs) = After(pos[n])
  BY <1>4, <1>6, <1>7 DEF Owes
<1>9. Sites({} \cup {cs[2]}, Owed(pos, n)) /\ cs[2] \in 1..Len(code)
  BY <1>6, <1>8 DEF Sites
<1>10. Written(code, code', "repeat", {} \cup {cs[2]}, After(pos[n]))
  <2>1. "repeat" \in Back /\ "branch" \in Ops \ {"offset"}
    BY DEF Back, Ops
  <2>2. Written(code, BackTo(Append(code, Op("branch")), Head(cs)), "repeat", {}, Head(cs))
    BY <1>1, <1>7, <2>1, BackCells
  <2>3. Written(code, code', "repeat", {} \cup {cs[2]}, Head(cs))
    BY <1>1, <1>3, <1>9, <2>2, WrittenResolve
  <2> QED
    BY <1>8, <2>3
<1>11. Pops(B[n - 1])
  <2>1. Wide(Head(open)) = 2 /\ Head(open) # "case"
    BY <1>4 DEF Wide
  <2>2. /\ cs' \in Seq(Nat) /\ Len(cs') = Len(cs) - Wide(Head(open))
        /\ \A q \in 1..Len(cs') : Up(cs', q) = Up(cs, q)
    BY <1>3, <1>7, <2>1
  <2> QED
    BY <1>1, <1>2, <1>3, <1>4, <1>5, <2>1, <2>2, ItemsPopped
<1>12. Closing2(B, n, "repeat")
  BY <1>11 DEF Closing2
<1>13. "repeat" \in Ending(Up(open, n)) /\ Up(open, n) \notin Loops
  BY <1>4, <1>6 DEF Ending, Loops
<1> QED
  BY <1>1, <1>2, <1>3, <1>4, <1>5, <1>9, <1>10, <1>12, <1>13, QuietClosing

(* ENDOF leads OF behind itself, and owes its own offset to its CASE.      *)
LEMMA EndOfBranches ==
  ASSUME NEW b, WordInv(b), Branches(b), ~stale, EndOf
  PROVE  Branches(b)'
<1>1. Types /\ Len(ls) <= LeaveCells /\ code \in Seq(CodeCells) /\ cs \in Seq(Nat)
  BY DEF WordInv, Types
<1>2. PICK pos, B : Word(b, pos, B) /\ Sound(pos, B)
  BY DEF Branches
<1>3. /\ Inside({"of"}) /\ Typed("endof") /\ open' = Tail(open)
      /\ code' = Resolve(code \o <<Op("branch"), Unresolved>>, Head(cs))
      /\ cs' = <<Len(code')>> \o Tail(cs) /\ ls' = ls /\ mode' = mode
  BY DEF EndOf, Closing, CompileElse
<1>4. open # <<>> /\ Head(open) = "of" /\ mode = "compile"
  BY <1>3 DEF Inside, Typed, Token
<1>5. PICK n : n = Len(open)
  OBVIOUS
<1>6. /\ Up(open, n) = Head(open) /\ Owes(pos, B, n) /\ B[n] = Len(cs)
      /\ \A j \in Owed(pos, n) : Site(j) \in 1..Len(code)
  BY <1>1, <1>2, <1>4, <1>5, TopFacts
<1>7. Head(cs) = Up(cs, Len(cs)) /\ cs # <<>> /\ Len(cs) \in Nat
  BY <1>4, StackFacts
<1>8. Owed(pos, n) = {pos[n]} /\ Head(cs) = Site(pos[n]) /\ Head(cs) \in 1..Len(code)
  BY <1>4, <1>6, <1>7 DEF Owes
<1>9. Sites({} \cup {Head(cs)}, Owed(pos, n))
  BY <1>8 DEF Sites
<1>10. Written(code, code', "endof", {} \cup {Head(cs)}, 0)
  <2>1. Plainly(code, code)
    BY <1>1, PlainFacts
  <2>2. Written(code, code \o <<Op("branch"), Unresolved>>, "endof", {}, 0)
    BY <1>1, <2>1, TailCells DEF Ops
  <2> QED
    BY <1>1, <1>3, <1>8, <2>2, WrittenResolve
<1>11. Enters("endof") /\ Len(code') \in Nat
  BY <1>1, <1>3, <1>10, WrittenEnters, AtFacts DEF Typed
<1>12. /\ cs' \in Seq(Nat) /\ Len(cs') = Len(cs) /\ Up(cs', Len(cs')) = Len(code')
       /\ \A q \in 1..(Len(cs) - 1) : Up(cs', q) = Up(cs, q)
  <2>1. LET p == <<Len(code')>> \o Tail(cs) IN
        /\ p \in Seq(Nat) /\ Len(p) = Len(cs) /\ Up(p, Len(cs)) = Len(code')
        /\ \A q \in 1..(Len(cs) - 1) : Up(p, q) = Up(cs, q)
    BY <1>1, <1>7, <1>11, TurnFacts
  <2> QED
    BY <1>3, <2>1
<1>13. Len(code') # 0
  <2>1. Len(code) \in Nat /\ Len(code') >= Len(code) /\ 1 <= Len(code)
    <3>1. Len(code) \in Nat /\ Len(code') >= Len(code)
      BY <1>1, <1>10, LenProperties DEF Written
    <3>2. 1 <= Len(code)
      BY <1>8, <3>1
    <3> QED
      BY <3>1, <3>2
  <2> QED
    BY <1>11, <2>1
<1>14. HandsOver
  <2>1. Up(cs', Len(cs)) # 0
    BY <1>12, <1>13
  <2> QED
    BY <1>3, <1>12, <2>1 DEF HandsOver
<1>15. Closing2(B, n, "endof") /\ "endof" \notin Back
  BY <1>12, <1>14 DEF Closing2, Back
<1>16. "endof" \in Ending(Up(open, n)) /\ Up(open, n) \notin Loops
  BY <1>4, <1>6 DEF Ending, Loops
<1> QED
  BY <1>1, <1>2, <1>3, <1>4, <1>5, <1>9, <1>10, <1>15, <1>16, QuietClosing

(* ENDCASE leads every ENDOF of its CASE behind itself.                    *)
LEMMA EndCaseBranches ==
  ASSUME NEW b, WordInv(b), Branches(b), ~stale, EndCase
  PROVE  Branches(b)'
<1>1. Types /\ Len(ls) <= LeaveCells /\ code \in Seq(CodeCells) /\ cs \in Seq(Nat)
  BY DEF WordInv, Types
<1>2. PICK pos, B : Word(b, pos, B) /\ Sound(pos, B)
  BY DEF Branches
<1>3. PICK m : m = CHOOSE k \in 1..Len(cs) :
                     cs[k] = 0 /\ \A j \in 1..(k - 1) : cs[j] # 0
  OBVIOUS
<1>4. PICK A : A = {cs[k] : k \in 1..(m - 1)}
  OBVIOUS
<1>5. /\ Inside({"case"}) /\ Typed("endcase") /\ open' = Tail(open)
      /\ code' = ResolveAll(Append(code, Op("drop")), A)
      /\ cs' = SubSeq(cs, m + 1, Len(cs)) /\ ls' = ls /\ mode' = mode
  BY <1>3, <1>4 DEF EndCase, Closing
<1>6. open # <<>> /\ Head(open) = "case" /\ mode = "compile"
  BY <1>5 DEF Inside, Typed, Token
<1>7. PICK n : n = Len(open)
  OBVIOUS
<1>8. /\ Up(open, n) = Head(open) /\ Owes(pos, B, n) /\ B[n] = Len(cs)
      /\ \A j \in Owed(pos, n) : Site(j) \in 1..Len(code)
  BY <1>1, <1>2, <1>6, <1>7, TopFacts
<1>9. m \in 1..Len(cs) /\ Len(cs) \in Nat /\ Len(cs) - m = B[n - 1]
  BY <1>1, <1>2, <1>3, <1>5, <1>7, CaseZero
<1>10. \A a : a \in A <=> \E q \in (B[n - 1] + 2)..B[n] : a = Up(cs, q)
  <2>1. ASSUME NEW k \in 1..(m - 1)
        PROVE  \E q \in (B[n - 1] + 2)..B[n] : cs[k] = Up(cs, q)
    <3>1. PICK q : q = Len(cs) + 1 - k
      OBVIOUS
    <3>2. q \in (B[n - 1] + 2)..B[n] /\ k = Len(cs) + 1 - q
      BY <1>8, <1>9, <3>1
    <3>3. cs[k] = Up(cs, q)
      BY <3>2 DEF Up
    <3> QED
      BY <3>2, <3>3
  <2>2. ASSUME NEW q \in (B[n - 1] + 2)..B[n]
        PROVE  \E k \in 1..(m - 1) : Up(cs, q) = cs[k]
    <3>1. PICK k : k = Len(cs) + 1 - q
      OBVIOUS
    <3>2. k \in 1..(m - 1)
      BY <1>8, <1>9, <3>1
    <3> QED
      BY <3>1, <3>2 DEF Up
  <2> QED
    BY <1>4, <2>1, <2>2
<1>11. Sites(A, Owed(pos, n))
  <2>1. {Up(cs, q) : q \in (B[n - 1] + 2)..B[n]} = {Site(j) : j \in Owed(pos, n)}
    BY <1>6, <1>8 DEF Owes
  <2>2. \A a : a \in A <=> a \in {Up(cs, q) : q \in (B[n - 1] + 2)..B[n]}
    BY <1>10
  <2>3. \A a : a \in A <=> a \in {Site(j) : j \in Owed(pos, n)}
    BY <2>1, <2>2
  <2> QED
    BY <2>3 DEF Sites
<1>12. A \in SUBSET (1..Len(code))
  BY <1>8, <1>11 DEF Sites
<1>13. Written(code, code', "endcase", A, 0)
  <2>1. Plainly(code, Append(code, Op("drop")))
    BY <1>1, PlainFacts DEF Ops
  <2>2. "endcase" \notin Branching
    BY DEF Branching, Ahead, Forward, Back
  <2>3. Written(code, Append(code, Op("drop")), "endcase", {}, 0)
    BY <2>1, <2>2, WrittenPlain
  <2>4. Written(code, code', "endcase", {} \cup A, 0)
    BY <1>1, <1>5, <1>12, <2>3, WrittenResolve
  <2>5. {} \cup A = A
    OBVIOUS
  <2> QED
    BY <2>4, <2>5
<1>14. Pops(B[n - 1])
  <2>1. m \in 0..Len(cs)
    BY <1>9
  <2>2. /\ cs' \in Seq(Nat) /\ Len(cs') = Len(cs) - m
        /\ \A q \in 1..(Len(cs) - m) : Up(cs', q) = Up(cs, q)
    BY <1>1, <1>5, <2>1, DropFacts
  <2> QED
    BY <1>5, <1>6, <1>9, <2>2 DEF Pops
<1>15. Closing2(B, n, "endcase") /\ "endcase" \notin Back
  BY <1>14 DEF Closing2, Back
<1>16. "endcase" \in Ending(Up(open, n)) /\ Up(open, n) \notin Loops
  BY <1>6, <1>8 DEF Ending, Loops
<1> QED
  BY <1>1, <1>2, <1>5, <1>6, <1>7, <1>11, <1>13, <1>15, <1>16, QuietClosing

(* The leave addresses behind a loop's start: those that it takes, and     *)
(* each the offset of a LEAVE.                                             *)
LEMMA LoopTakes ==
  ASSUME Types, NEW b, NEW pos, NEW B, Word(b, pos, B), ~stale, Sound(pos, B),
         mode = "compile", NEW n, n = Len(open), Up(open, n) \in Loops,
         NEW dest \in Nat, dest = After(pos[n]), NEW r, r = Resolvable(dest)
  PROVE  /\ r \in 0..Len(ls) /\ Takes(pos, n, r)
         /\ Sites({ls[k] : k \in 1..r}, Taken(r))
         /\ {ls[k] : k \in 1..r} \in SUBSET (1..Len(code))
<1>1. Leaves(pos) /\ Cells(pos)
  BY DEF Word, Sound, Underway
<1>2. Len(ls) \in Nat /\ \A k \in 1..Len(ls) : ls[k] \in Nat
  BY TypedLengths, ElementOfSeq DEF Types
<1>3. /\ r \in 0..Len(ls) /\ \A k \in 1..r : ls[k] > dest
      /\ r < Len(ls) => ls[r + 1] <= dest
  BY ResolvableFacts
<1>4. Takes(pos, n, r)
  <2>1. ASSUME NEW m \in 1..Len(ls), m <= r PROVE ls[m] > dest
    BY <1>3, <2>1
  <2>2. ASSUME NEW m \in 1..Len(ls), ls[m] > dest PROVE m <= r
    <3>1. CASE m <= r
      BY <3>1
    <3>2. CASE ~(m <= r)
      <4>1. r + 1 \in 1..Len(ls) /\ r < Len(ls) /\ (r + 1 = m \/ r + 1 < m)
        BY <1>2, <1>3, <3>2
      <4>2. ls[r + 1] <= dest /\ ls[r + 1] \in Nat /\ ls[m] \in Nat
        BY <1>2, <1>3, <4>1
      <4>3. ls[m] <= ls[r + 1]
        BY <1>1, <4>1, <4>2 DEF Leaves
      <4> QED
        BY <2>2, <4>2, <4>3
    <3> QED
      BY <3>1, <3>2
  <2>3. \A m \in 1..Len(ls) : m <= r <=> ls[m] > After(pos[n])
    BY <2>1, <2>2
  <2> QED
    BY <2>3 DEF Takes
<1>5. Sites({ls[k] : k \in 1..r}, Taken(r))
  <2>1. ASSUME NEW k \in 1..r PROVE \E j \in Taken(r) : ls[k] = Site(j)
    <3>1. k \in 1..Len(ls)
      BY <1>2, <1>3
    <3>2. PICK d, i : LeaveOf(pos, d, i, ls[k])
      BY <1>1, <3>1 DEF Leaves
    <3>3. i \in 1..Len(src) /\ src[i] = "leave" /\ ls[k] = After(i) - 1
      BY <3>2 DEF LeaveOf
    <3>4. ls[k] = Site(i)
      BY <3>3 DEF Site, Behind
    <3> QED
      BY <3>1, <3>3, <3>4 DEF Taken, Left
  <2>2. ASSUME NEW j \in Taken(r) PROVE \E k \in 1..r : Site(j) = ls[k]
    BY DEF Taken
  <2> QED
    BY <2>1, <2>2 DEF Sites
<1>6. {ls[k] : k \in 1..r} \in SUBSET (1..Len(code))
  <2>1. \A j \in Taken(r) : Site(j) \in 1..Len(code)
    BY <1>1 DEF Taken, Pending, Cells, Zero
  <2> DEFINE T == {ls[k] : k \in 1..r}
  <2>2. \A a : a \in T <=> \E j \in Taken(r) : a = Site(j)
    BY <1>5 DEF Sites
  <2> HIDE DEF T
  <2>3. \A a \in T : a \in 1..Len(code)
    BY <2>1, <2>2
  <2>4. T \in SUBSET (1..Len(code))
    BY <2>3
  <2> QED
    BY <2>4 DEF T
<1> QED
  BY <1>3, <1>4, <1>5, <1>6

(* LOOP and +LOOP lead back behind DO, and every LEAVE of the loop, and    *)
(* the branch of ?DO, behind themselves.                                   *)
LEMMA LoopBranches ==
  ASSUME NEW b, WordInv(b), Branches(b), ~stale, Loop \/ PlusLoop
  PROVE  Branches(b)'
<1>1. Types /\ Len(ls) <= LeaveCells /\ code \in Seq(CodeCells) /\ ls \in Seq(Nat \ {0})
  BY DEF WordInv, Types
<1>2. PICK pos, B : Word(b, pos, B) /\ Sound(pos, B)
  BY DEF Branches
<1>3. /\ Inside({"do", "?do"}) /\ open' = Tail(open) /\ mode' = mode
  BY DEF Loop, PlusLoop, Closing
<1>4. mode = "compile"
  BY DEF Loop, PlusLoop, Typed, Token
<1>5. open # <<>> /\ Head(open) \in {"do", "?do"}
  BY <1>3 DEF Inside
<1>6. PICK n : n = Len(open)
  OBVIOUS
<1>7. /\ Up(open, n) = Head(open) /\ Owes(pos, B, n) /\ B[n] = Len(cs)
      /\ FrameFits(open, src, at, cs, B, pos, n) /\ B[n - 1] \in Nat
      /\ \A j \in Owed(pos, n) : Site(j) \in 1..Len(code)
  BY <1>1, <1>2, <1>4, <1>5, <1>6, TopFacts
<1>8. PICK dest : dest = cs[2]
  OBVIOUS
<1>9. /\ Head(cs) = Up(cs, Len(cs)) /\ Len(cs) \in Nat
      /\ dest \in Nat /\ dest = Up(cs, Len(cs) - 1)
      /\ Tail(Tail(cs)) \in Seq(Nat) /\ Len(Tail(Tail(cs))) = Len(cs) - 2
      /\ \A q \in 1..(Len(cs) - 2) : Up(Tail(Tail(cs)), q) = Up(cs, q)
  BY <1>5, <1>8, StackFacts
<1>10. dest = After(pos[n])
  <2>1. B[n] = B[n - 1] + 2 /\ Up(cs, B[n - 1] + 1) = at[pos[n] + 1]
    BY <1>5, <1>7 DEF FrameFits, Wide
  <2>2. B[n - 1] + 1 = Len(cs) - 1
    BY <1>7, <1>9, <2>1
  <2> QED
    BY <1>9, <2>1, <2>2 DEF After
<1>11. PICK r : r = Resolvable(dest)
  OBVIOUS
<1>12. PICK T : T = {ls[k] : k \in 1..r}
  OBVIOUS
<1>13. Up(open, n) \in Loops
  BY <1>5, <1>7 DEF Loops
<1>14. /\ r \in 0..Len(ls) /\ Takes(pos, n, r)
       /\ Sites(T, Taken(r)) /\ T \in SUBSET (1..Len(code))
  BY <1>1, <1>2, <1>4, <1>6, <1>9, <1>10, <1>11, <1>12, <1>13, LoopTakes
<1>15. PICK t, c :
         /\ t \in {"loop", "+loop"} /\ CompileLoop(c) /\ Typed(t) /\ Written(code, BackTo(c, dest), t, {}, dest)
  <2>1. /\ "loop" \in Back /\ "+loop" \in Back
        /\ "(loop)" \in Ops \ {"offset"} /\ "(+loop)" \in Ops \ {"offset"}
    BY DEF Back, Ops
  <2>2. CASE Loop
    <3>1. Written(code, BackTo(Append(code, Op("(loop)")), dest), "loop", {}, dest)
      BY <1>1, <1>9, <2>1, BackCells
    <3> QED
      BY <2>2, <3>1 DEF Loop
  <2>3. CASE PlusLoop
    <3>1. Written(code, BackTo((code \o Operands(1)) \o <<Op("(+loop)")>>, dest), "+loop",
                  {}, dest)
      BY <1>1, <1>9, <2>1, BackCells
    <3> QED
      BY <2>3, <3>1 DEF PlusLoop
  <2> QED
    BY <2>2, <2>3
<1>16. PICK c2 : c2 = IF Head(cs) # 0 THEN Resolve(BackTo(c, dest), dest - 2)
                      ELSE BackTo(c, dest)
  OBVIOUS
<1>17. /\ code' = ResolveAll(c2, T) /\ ls' = SubSeq(ls, r + 1, Len(ls))
       /\ cs' = Tail(Tail(cs))
  BY <1>8, <1>11, <1>12, <1>15, <1>16 DEF CompileLoop
<1>18. PICK A : Sites(A, Owed(pos, n)) /\ Written(code, c2, t, A, dest)
  <2>1. CASE Head(open) = "do"
    <3>1. Owed(pos, n) = {} /\ Head(cs) = 0
      BY <1>7, <1>9, <2>1 DEF Owes
    <3>2. Sites({}, Owed(pos, n))
      BY <3>1 DEF Sites
    <3> QED
      BY <1>15, <1>16, <3>1, <3>2
  <2>2. CASE Head(open) = "?do"
    <3>1. Owed(pos, n) = {pos[n]} /\ Head(cs) # 0
      BY <1>7, <1>9, <2>2 DEF Owes
    <3>2. src[pos[n]] = "?do"
      BY <1>7, <2>2 DEF FrameFits, Source
    <3>3. Site(pos[n]) = dest - 2
      BY <1>10, <3>2 DEF Site, Behind
    <3>4. dest - 2 \in 1..Len(code)
      BY <1>7, <3>1, <3>3
    <3>5. Sites({} \cup {dest - 2}, Owed(pos, n))
      BY <3>1, <3>3 DEF Sites
    <3>6. Written(code, c2, t, {} \cup {dest - 2}, dest)
      BY <1>1, <1>15, <1>16, <3>1, <3>4, WrittenResolve
    <3> QED
      BY <3>5, <3>6
  <2> QED
    BY <1>5, <2>1, <2>2
<1>19. Written(code, code', t, A \cup T, dest)
  BY <1>1, <1>14, <1>17, <1>18, WrittenResolve
<1>20. Sites(A \cup T, Owed(pos, n) \cup Taken(r))
  BY <1>14, <1>18 DEF Sites
<1>21. Drops(r) /\ ls' \in Seq(Nat \ {0})
  <2>1. /\ ls' \in Seq(Nat \ {0}) /\ Len(ls') = Len(ls) - r
        /\ \A k \in 1..(Len(ls) - r) : ls'[k] = ls[r + k]
    BY <1>1, <1>14, <1>17, DropFacts
  <2> QED
    BY <1>14, <2>1 DEF Drops
<1>22. Pops(B[n - 1])
  <2>1. Wide(Head(open)) = 2 /\ Head(open) # "case"
    BY <1>5 DEF Wide
  <2>2. /\ cs' \in Seq(Nat) /\ Len(cs') = Len(cs) - Wide(Head(open))
        /\ \A q \in 1..Len(cs') : Up(cs', q) = Up(cs, q)
    BY <1>9, <1>17, <2>1
  <2> QED
    BY <1>1, <1>2, <1>3, <1>4, <1>5, <1>6, <2>1, <2>2, ItemsPopped
<1>23. Closing2(B, n, t) /\ t \in Ending(Up(open, n))
  BY <1>5, <1>7, <1>15, <1>22 DEF Closing2, Ending
<1> QED
  BY <1>1, <1>2, <1>3, <1>5, <1>6, <1>10, <1>14, <1>15, <1>19, <1>20, <1>21, <1>23,
     ClosingBranches

LEMMA TokenBranches ==
  ASSUME NEW b, WordInv(b), Branches(b), ~stale, CompileToken
  PROVE  Branches(b)'
BY OpeningBranches, LevelBranches, ElseBranches, WhileBranches, LeaveBranches,
   ThenBranches, UntilBranches, RepeatBranches, EndOfBranches, EndCaseBranches,
   LoopBranches DEF CompileToken

-----------------------------------------------------------------------------
(* The words around a definition.                                          *)

(* A step that types no token and fills nothing in.                        *)
LEMMA RightQuiet ==
  ASSUME Right, UNCHANGED <<src, at>>, \A x, a : Led(x, a) => Led(x, a)'
  PROVE  Right'
<1>1. src' = src /\ at' = at
  OBVIOUS
<1>2. \A i : Depth(i)' = Depth(i) /\ After(i)' = After(i) /\ Site(i)' = Site(i)
  BY <1>1 DEF Depth, Count, After, Site
<1>3. \A i, j : Ends(i, j)' <=> Ends(i, j)
  BY <1>2 DEF Ends
<1>4. \A i : (Closed(i)' <=> Closed(i)) /\ Closer(i)' = Closer(i)
  BY <1>1, <1>3 DEF Closed, Closer
<1>5. \A i, kinds, j : IsInnermost(i, kinds, j)' <=> IsInnermost(i, kinds, j)
  BY <1>1, <1>4 DEF IsInnermost, Encloses
<1>6. \A i, c : Elses(i, c)' = Elses(i, c)
  BY <1>1, <1>2 DEF Elses
<1>7. ASSUME NEW i, NEW c, Settled(i, c) PROVE Settled(i, c)'
  <2>1. ASSUME NEW k, NEW e, Led(Site(k), After(e)) PROVE Led(Site(k), After(e))'
    <3>1. PICK x, a : x = Site(k) /\ a = After(e)
      OBVIOUS
    <3>2. Led(x, a)'
      BY <2>1, <3>1
    <3> QED
      BY <1>2, <3>1, <3>2 DEF Led
  <2>2. AheadLeads(i, c)'
    BY <1>1, <1>2, <1>7, <2>1 DEF Settled, AheadLeads
  <2>3. IfLeads(i, c)'
    BY <1>1, <1>6, <1>7, <2>1 DEF Settled, IfLeads
  <2>4. BackLeads(i, c)'
    <3>1. ASSUME Led(After(c) - 1, After(i)) PROVE Led(After(c) - 1, After(i))'
      <4>1. PICK x, a : x = After(c) - 1 /\ a = After(i)
        OBVIOUS
      <4>2. Led(x, a)'
        BY <3>1, <4>1
      <4> QED
        BY <1>2, <4>1, <4>2 DEF Led
    <3> QED
      BY <1>1, <1>7, <3>1 DEF Settled, BackLeads
  <2>5. OfEnds(i, c)' /\ CaseEnds(i, c)'
    BY <1>1, <1>2, <1>4, <1>7 DEF Settled, OfEnds, CaseEnds
  <2>6. LeavesLead(i, c)'
    BY <1>1, <1>5, <1>7, <2>1 DEF Settled, LeavesLead
  <2> QED
    BY <2>2, <2>3, <2>4, <2>5, <2>6 DEF Settled
<1> QED
  BY <1>1, <1>3, <1>7 DEF Right

LEMMA WordQuiet ==
  ASSUME NEW b, NEW pos, NEW B, Word(b, pos, B),
         UNCHANGED <<cs, ls, open, src, at, stale>>
  PROVE  Word(b, pos, B)'
<1>1. Hist(pos) /\ Shaped(open, src, at, cs, b, B, pos) /\ (~stale => Leaves(pos))
  BY DEF Word
<1>2. /\ open' = open /\ src' = src /\ at' = at /\ ls' = ls /\ cs' = cs
      /\ stale' = stale
  OBVIOUS
<1>3. \A i : Depth(i)' = Depth(i)
  BY <1>2 DEF Depth, Count
<1>4. \A i, j : Ends(i, j)' <=> Ends(i, j)
  BY <1>3 DEF Ends
<1>5. \A i : /\ Closed(i)' <=> Closed(i)
             /\ Closer(i)' = Closer(i)
  BY <1>2, <1>4 DEF Closed, Closer
<1>6. \A i, kinds, j : IsInnermost(i, kinds, j)' <=> IsInnermost(i, kinds, j)
  BY <1>2, <1>5 DEF IsInnermost, Encloses
<1>7. Hist(pos)'
  BY <1>1, <1>2, <1>3, <1>5 DEF Hist
<1>8. Shaped(open, src, at, cs, b, B, pos)'
  BY <1>1
<1>9. ~stale => Leaves(pos)'
  <2>1. \A d, i, a : LeaveOf(pos, d, i, a) => LeaveOf(pos, d, i, a)'
    BY <1>2, <1>6 DEF LeaveOf, After
  <2> QED
    BY <1>1, <1>2, <2>1 DEF Leaves
<1> QED
  BY <1>7, <1>8, <1>9 DEF Word

(* ; ends a word in which nothing is open: no offset is pending.           *)
LEMMA SemicolonBranches ==
  ASSUME NEW b, WordInv(b), Branches(b), ~stale, Semicolon
  PROVE  Branches(b)'
<1>1. code \in Seq(CodeCells) /\ Len(code) \in Nat
  BY TypedLengths DEF WordInv, Types
<1>2. PICK pos, B : Word(b, pos, B) /\ Sound(pos, B)
  BY DEF Branches
<1>3. /\ mode = "compile" /\ mode' = "ready" /\ open = <<>> /\ Len(open) = 0
      /\ code' = Append(code, Op("exit")) /\ UNCHANGED <<cs, ls, open, src, at, stale>>
  BY DEF Semicolon
<1>4. /\ Right /\ Cells(pos)
  BY <1>2, <1>3 DEF Sound, Underway
<1>5. /\ code' \in Seq(CodeCells) /\ Len(code') = Len(code) + 1
      /\ \A a \in 1..Len(code) : code'[a] = code[a]
      /\ code'[Len(code) + 1].op # "offset" /\ code'[Len(code) + 1].arg = 0
  <2> DEFINE x == Op("exit")
  <2>1. x \in CodeCells /\ x.op # "offset" /\ x.arg = 0
    BY CellFacts DEF Ops
  <2> HIDE DEF x
  <2>2. /\ Append(code, x) \in Seq(CodeCells) /\ Len(Append(code, x)) = Len(code) + 1
        /\ \A a \in 1..Len(code) : Append(code, x)[a] = code[a]
        /\ Append(code, x)[Len(code) + 1] = x
    BY <1>1, <2>1, AppendProperties
  <2>3. code' = Append(code, x)
    BY <1>3 DEF x
  <2> QED
    BY <2>1, <2>2, <2>3
<1>6. \A x, a : Led(x, a) => Led(x, a)'
  BY <1>1, <1>5 DEF Led, LedIn
<1>7. Right'
  BY <1>3, <1>4, <1>6, RightQuiet
<1>8. Pending(pos) = {}
  <2>1. ls = <<>> /\ Len(ls) = 0
    BY <1>3, NothingOpen
  <2>2. Left = {}
    BY <2>1 DEF Left
  <2>3. Below(pos, Len(open)) = {}
    BY <1>3 DEF Below
  <2> QED
    BY <2>2, <2>3 DEF Pending
<1>9. \A a \in 1..Len(code) :
        (code[a].op # "offset" => code[a].arg = 0) /\ ~Zero(code, a)
  BY <1>4, <1>8 DEF Cells
<1>10. \A a \in 1..Len(code') :
         (code'[a].op # "offset" => code'[a].arg = 0) /\ ~Zero(code', a)
  <2> SUFFICES ASSUME NEW a \in 1..Len(code')
               PROVE  (code'[a].op # "offset" => code'[a].arg = 0) /\ ~Zero(code', a)
    OBVIOUS
  <2>1. CASE a = Len(code) + 1
    BY <1>5, <2>1 DEF Zero
  <2>2. CASE a # Len(code) + 1
    <3>1. a \in 1..Len(code)
      BY <1>1, <1>5, <2>2
    <3> QED
      BY <1>5, <1>9, <3>1 DEF Zero
  <2> QED
    BY <2>1, <2>2
<1>11. Sound(pos, B)'
  BY <1>3, <1>7, <1>10 DEF Sound
<1>12. Word(b, pos, B)'
  BY <1>2, <1>3, WordQuiet
<1> QED
  BY <1>11, <1>12 DEF Branches

LEMMA StutterBranches ==
  ASSUME NEW b, Branches(b), UNCHANGED cfVars
  PROVE  Branches(b)'
<1>1. /\ code' = code /\ cs' = cs /\ ls' = ls /\ mode' = mode /\ open' = open
      /\ src' = src /\ at' = at /\ stale' = stale
  BY DEF cfVars
<1>2. PICK pos, B : Word(b, pos, B) /\ Sound(pos, B)
  BY DEF Branches
<1>3. \A i : Depth(i)' = Depth(i) /\ After(i)' = After(i) /\ Site(i)' = Site(i)
  BY <1>1 DEF Depth, Count, After, Site
<1>4. \A x, a : Led(x, a)' <=> Led(x, a)
  BY <1>1 DEF Led
<1>5. Right'
  BY <1>1, <1>2, <1>4, RightQuiet DEF Sound
<1>6. Left' = Left
  BY <1>1, <1>3 DEF Left
<1>7. \A d : Owed(pos, d)' = Owed(pos, d)
  BY <1>1, <1>3 DEF Owed, Hanging
<1>8. Pending(pos)' = Pending(pos)
  BY <1>1, <1>6, <1>7 DEF Pending, Below
<1>9. Cells(pos) => Cells(pos)'
  BY <1>1, <1>3, <1>8 DEF Cells
<1>10. Sited => Sited'
  BY <1>1, <1>3 DEF Sited
<1>11. LeavesIn => LeavesIn'
  <2>1. \A i, j : Ends(i, j)' <=> Ends(i, j)
    BY <1>3 DEF Ends
  <2>2. \A i : (Closed(i)' <=> Closed(i)) /\ Closer(i)' = Closer(i)
    BY <1>1, <2>1 DEF Closed, Closer
  <2>3. \A i, kinds, j : IsInnermost(i, kinds, j)' <=> IsInnermost(i, kinds, j)
    BY <1>1, <2>2 DEF IsInnermost, Encloses
  <2> QED
    BY <1>1, <1>6, <2>2, <2>3 DEF LeavesIn
<1>12. \A d : Owes(pos, B, d) => Owes(pos, B, d)'
  <2> SUFFICES ASSUME NEW d, Owes(pos, B, d) PROVE Owes(pos, B, d)'
    OBVIOUS
  <2>1. ASSUME NEW j, Led(Site(pos[d]), After(j)) PROVE Led(Site(pos[d]), After(j))'
    <3>1. PICK x, a : x = Site(pos[d]) /\ a = After(j)
      OBVIOUS
    <3>2. Led(x, a)'
      BY <1>4, <2>1, <3>1
    <3> QED
      BY <1>3, <3>1, <3>2 DEF Led
  <2>2. \A S : {Site(j) : j \in S}' = {Site(j) : j \in S}
    BY <1>3
  <2> QED
    BY <1>1, <1>3, <1>7, <2>1, <2>2 DEF Owes
<1>13. Sound(pos, B)'
  BY <1>1, <1>2, <1>5, <1>9, <1>10, <1>11, <1>12 DEF Sound, Underway, Zero
<1>14. Word(b, pos, B)'
  BY <1>1, <1>2, WordQuiet
<1> QED
  BY <1>13, <1>14 DEF Branches

LEMMA FreshBranches == Fresh /\ ~stale => Branches(Len(cs))
<1> SUFFICES ASSUME Fresh, ~stale PROVE Branches(Len(cs))
  OBVIOUS
<1>1. /\ Len(code) = 0 /\ Len(open) = 0 /\ Len(src) = 0 /\ Len(ls) = 0
      /\ mode = "compile"
  BY DEF Fresh
<1>2. PICK pos, B : Word(Len(cs), pos, B)
  BY FreshWord DEF WordInv
<1>3. Right
  BY <1>1 DEF Right
<1>4. \A a \in 1..Len(code) : FALSE
  BY <1>1
<1>5. Left = {} /\ Below(pos, Len(open)) = {}
  BY <1>1 DEF Left, Below
<1>6. Cells(pos)
  BY <1>4, <1>5 DEF Cells, Pending
<1>7. Sited /\ LeavesIn
  BY <1>1 DEF Sited, LeavesIn
<1>8. Sound(pos, B)
  BY <1>1, <1>3, <1>4, <1>6, <1>7 DEF Sound, Underway
<1> QED
  BY <1>2, <1>8 DEF Branches

LEMMA FreshBranchesNext == Fresh' /\ ~stale' => Branches(Len(cs))'
BY FreshBranches, PTL

-----------------------------------------------------------------------------
(* The theorem.                                                            *)

BranchInv(b) == WordInv(b) /\ (~stale => Branches(b))

LEMMA FreshInv == Fresh' => BranchInv(Len(cs))'
BY FreshWordNext, FreshBranchesNext DEF BranchInv

LEMMA BranchStep ==
  ASSUME NEW b \in Nat, BranchInv(b), CFNext
  PROVE  \E c \in Nat : BranchInv(c)'
<1>1. WordInv(b) /\ Types /\ Len(ls) <= LeaveCells /\ Len(cs) \in Nat
      /\ cs \in Seq(Nat) /\ ls \in Seq(Nat \ {0}) /\ stale \in BOOLEAN
  BY TypedLengths DEF BranchInv, WordInv, Types
<1>2. CASE CompileToken
  <2>1. WordInv(b)' /\ stale' = stale
    <3>1. stale' = stale
      BY <1>2 DEF CompileToken, Work, Exit, If, Unless, CompileIf, Else, Then,
           Begin, Until, Again, While, Repeat, Case, Of, EndOf, EndCase, Do, QDo,
           Leave, Loop, PlusLoop, Typed, Token
    <3> QED
      BY <1>1, <1>2, <3>1, TokenStep
  <2>2. ~stale => Branches(b)'
    BY <1>1, <1>2, TokenBranches DEF BranchInv
  <2> QED
    BY <2>1, <2>2 DEF BranchInv
<1>3. CASE Semicolon
  <2>1. WordInv(b)' /\ stale' = stale
    BY <1>1, <1>3, SemicolonStep DEF Semicolon
  <2>2. ~stale => Branches(b)'
    BY <1>1, <1>3, SemicolonBranches DEF BranchInv
  <2> QED
    BY <2>1, <2>2 DEF BranchInv
<1>4. CASE Forget
  <2>1. open = <<>>
    BY <1>1, <1>4 DEF Types, Forget
  <2>2. Len(cs) = b /\ (~stale => ls = <<>>)
    BY <1>1, <2>1, NothingOpen
  <2>3. /\ cs' = cs /\ ls' = ls /\ stale' = stale /\ code' = <<>>
        /\ mode' = "compile" /\ open' = <<>> /\ src' = <<>> /\ at' = <<1>>
    BY <1>4 DEF Forget, NewWord
  <2>4. Fresh'
    BY <1>1, <2>2, <2>3 DEF Fresh
  <2> QED
    BY <1>1, <2>3, <2>4, FreshInv
<1>5. CASE Abandon
  <2>1. Fresh'
    BY <1>1, <1>5 DEF Abandon, NewWord, Fresh
  <2>2. Len(cs') = Len(cs)
    BY <1>5 DEF Abandon
  <2> QED
    BY <1>1, <2>1, <2>2, FreshInv
<1>6. CASE Restart
  <2>1. /\ cs' = <<>> /\ ls' = <<>> /\ stale' = FALSE /\ code' = <<>>
        /\ mode' = "compile" /\ open' = <<>> /\ src' = <<>> /\ at' = <<1>>
    BY <1>6 DEF Restart, NewWord
  <2>2. /\ cs' \in Seq(Nat) /\ ls' \in Seq(Nat \ {0}) /\ Len(cs') = 0
        /\ Len(ls') <= LeaveCells
    BY <2>1, ControlFlowAssumption
  <2>3. Fresh'
    BY <2>1, <2>2 DEF Fresh
  <2> QED
    BY <2>2, <2>3, FreshInv
<1> QED
  BY <1>2, <1>3, <1>4, <1>5, <1>6 DEF CFNext

(* Every offset is the one its structure asks for: over the words typed    *)
(* with no LEAVE abandoned before them, however they are nested.           *)
LEMMA SoundMatches ==
  ASSUME NEW b, BranchInv(b)
  PROVE  BranchesMatch
<1> SUFFICES ASSUME ~stale
             PROVE  /\ \A i \in 1..Len(src) :
                         Closed(i) =>
                           /\ src[i] \in {"if", "unless"} => IfMatches(i)
                           /\ \A j \in Middles(i, "else") :
                                Leads(After(j) - 1, After(Closer(i)))
                           /\ src[i] = "begin" => BeginMatches(i)
                           /\ src[i] = "case" => CaseMatches(i)
                           /\ src[i] \in {"do", "?do"} => DoMatches(i)
                    /\ \A a \in 1..Len(code) :
                         /\ code[a].op # "offset" => code[a].arg = 0
                         /\ code[a].op = "offset" /\ mode = "ready" => code[a].arg # 0
  BY DEF BranchesMatch
<1>1. PICK pos, B : Sound(pos, B)
  BY DEF BranchInv, Branches
<1>2. Len(src) \in Nat
  BY TypedLengths DEF BranchInv, WordInv
<1>3. \A x, a : Led(x, a) => Leads(x, a)
  BY DEF Led, LedIn, Leads
<1>4. ASSUME NEW i \in 1..Len(src), Closed(i)
      PROVE  /\ src[i] \in {"if", "unless"} => IfMatches(i)
             /\ \A j \in Middles(i, "else") : Leads(After(j) - 1, After(Closer(i)))
             /\ src[i] = "begin" => BeginMatches(i)
             /\ src[i] = "case" => CaseMatches(i)
             /\ src[i] \in {"do", "?do"} => DoMatches(i)
  <2>1. PICK c \in 1..Len(src) : Ends(i, c)
    BY <1>4 DEF Closed
  <2>2. Closer(i) = c
    BY <1>2, <2>1, CloserIs
  <2>3. Settled(i, c)
    BY <1>1, <2>1 DEF Sound, Right
  <2>4. i \in i..c /\ c \in i..c
    BY <1>2, <2>1 DEF Ends
  <2>5. \A t : Middles(i, t) = {j \in i..c : src[j] = t /\ Depth(j) = Depth(i)}
    BY <2>2 DEF Middles
  <2>6. \A j \in i..c : Depth(j) = Depth(i) /\ src[j] \in Forward =>
                          Leads(Site(j), After(c))
    BY <1>3, <2>3 DEF Settled, AheadLeads
  <2>7. \A j : src[j] \notin {"of", "?do"} => Site(j) = After(j) - 1
    BY DEF Site, Behind
  <2>8. ASSUME src[i] \in {"if", "unless"} PROVE IfMatches(i)
    <3>1. Site(i) = After(i) - 1
      BY <2>7, <2>8
    <3>2. Middles(i, "else") = Elses(i, c)
      BY <2>5 DEF Elses
    <3>3. CASE Elses(i, c) = {} /\ Led(Site(i), After(c))
      BY <1>3, <2>2, <3>1, <3>2, <3>3 DEF IfMatches
    <3>4. CASE \E k \in i..c : Elses(i, c) = {k} /\ Led(Site(i), After(k))
      <4>1. PICK k : Elses(i, c) = {k} /\ Led(Site(i), After(k))
        BY <3>4
      <4>2. (CHOOSE j \in Middles(i, "else") : TRUE) = k /\ Middles(i, "else") # {}
        BY <3>2, <4>1
      <4>3. Leads(After(i) - 1, After(k))
        BY <1>3, <3>1, <4>1
      <4> QED
        BY <4>2, <4>3 DEF IfMatches
    <3> QED
      BY <2>3, <2>8, <3>3, <3>4 DEF Settled, IfLeads
  <2>9. ASSUME NEW j \in Middles(i, "else") PROVE Leads(After(j) - 1, After(Closer(i)))
    <3>1. j \in i..c /\ src[j] = "else" /\ Depth(j) = Depth(i)
      BY <2>5
    <3>2. Leads(Site(j), After(c)) /\ Site(j) = After(j) - 1
      BY <2>6, <2>7, <3>1 DEF Forward
    <3> QED
      BY <2>2, <3>2
  <2>10. ASSUME src[i] = "begin" PROVE BeginMatches(i)
    <3>1. Leads(After(c) - 1, After(i))
      BY <1>3, <2>3, <2>10 DEF Settled, BackLeads
    <3>2. ASSUME NEW k \in Middles(i, "while") PROVE Leads(After(k) - 1, After(c))
      <4>1. k \in i..c /\ src[k] = "while" /\ Depth(k) = Depth(i)
        BY <2>5
      <4> QED
        BY <2>6, <2>7, <4>1 DEF Forward
    <3> QED
      BY <2>2, <3>1, <3>2 DEF BeginMatches
  <2>11. ASSUME src[i] = "case" PROVE CaseMatches(i)
    <3> SUFFICES ASSUME NEW j \in i..c, src[j] = "of", Depth(j) = Depth(i) + 1
                 PROVE  /\ Leads(After(j) - 2, After(Closer(j)))
                        /\ Leads(After(Closer(j)) - 1, After(c))
      BY <2>2 DEF CaseMatches
    <3>1. j \in 1..Len(src) /\ j \in Nat
      BY <1>2, <2>1
    <3>2. Closed(j) /\ Closer(j) <= c
      BY <2>3, <2>11 DEF Settled, CaseEnds
    <3>3. PICK e \in 1..Len(src) : Ends(j, e)
      BY <3>2 DEF Closed
    <3>4. Closer(j) = e
      BY <1>2, <3>1, <3>3, CloserIs
    <3>5. Settled(j, e)
      BY <1>1, <3>1, <3>3 DEF Sound, Right
    <3>6. Leads(After(j) - 2, After(e))
      <4>1. j \in j..e
        BY <3>1, <3>3 DEF Ends
      <4>2. Led(Site(j), After(e))
        BY <3>5, <4>1 DEF Settled, AheadLeads, Forward
      <4>3. Site(j) = After(j) - 2
        BY DEF Site, Behind
      <4> QED
        BY <1>3, <4>2, <4>3
    <3>7. src[e] = "endof" /\ Depth(e) = Depth(i)
      <4>1. src[e] = "endof" /\ Depth(e) = Depth(j) - 1
        BY <3>5 DEF Settled, OfEnds
      <4>2. Depth(i) \in Int
        BY <1>2, DepthType
      <4> QED
        BY <4>1, <4>2
    <3>8. e \in i..c
      BY <1>2, <3>1, <3>2, <3>3, <3>4 DEF Ends
    <3>9. Leads(After(e) - 1, After(c))
      BY <2>6, <2>7, <3>7, <3>8 DEF Forward
    <3> QED
      BY <3>4, <3>6, <3>9
  <2>12. ASSUME src[i] \in {"do", "?do"} PROVE DoMatches(i)
    <3>1. Leads(After(c) - 1, After(i))
      BY <1>3, <2>3, <2>12 DEF Settled, BackLeads
    <3>2. ASSUME src[i] = "?do" PROVE Leads(After(i) - 2, After(c))
      <4>1. Site(i) = After(i) - 2
        BY <3>2 DEF Site, Behind
      <4> QED
        BY <2>4, <2>6, <3>2, <4>1 DEF Forward
    <3>3. ASSUME NEW k \in i..c, src[k] = "leave", Innermost({"do", "?do"}, k) = i
          PROVE  Leads(After(k) - 1, After(c))
      <4>1. PICK x : IsInnermost(x, {"do", "?do"}, k)
        BY <2>3, <2>12, <3>3 DEF Settled, LeavesLead, Loops
      <4>2. k \in Nat
        BY <1>2, <2>1
      <4>3. x = i
        BY <3>3, <4>1, <4>2, InnermostIs
      <4>4. Led(Site(k), After(c))
        BY <2>3, <2>12, <3>3, <4>1, <4>3 DEF Settled, LeavesLead, Loops
      <4> QED
        BY <1>3, <2>7, <3>3, <4>4
    <3> QED
      BY <2>2, <3>1, <3>2, <3>3 DEF DoMatches
  <2> QED
    BY <2>8, <2>9, <2>10, <2>11, <2>12
<1>5. ASSUME NEW a \in 1..Len(code)
      PROVE  /\ code[a].op # "offset" => code[a].arg = 0
             /\ code[a].op = "offset" /\ mode = "ready" => code[a].arg # 0
  BY <1>1 DEF Sound, Zero
<1> QED
  BY <1>4, <1>5

(* Every branch the immediate words compile leads where its structure says:*)
(* IF to its ELSE or THEN, UNTIL, AGAIN and REPEAT to their BEGIN, WHILE   *)
(* behind its REPEAT, an OF behind its ENDOF and that behind ENDCASE, LOOP *)
(* to its DO, ?DO and every LEAVE behind the loop that is the innermost    *)
(* around it; and ; finds no offset still to be filled in.                 *)
THEOREM BranchesLeadRight == CFSpec => []BranchesMatch
<1> DEFINE Inv == \E b \in Nat : BranchInv(b)
<1>1. CFInit => Inv
  <2> SUFFICES ASSUME CFInit PROVE BranchInv(0)
    OBVIOUS
  <2>1. /\ cs \in Seq(Nat) /\ ls \in Seq(Nat \ {0}) /\ Len(cs) = 0 /\ ~stale
        /\ Len(ls) <= LeaveCells
    BY ControlFlowAssumption DEF CFInit
  <2>2. Fresh
    BY <2>1 DEF CFInit, Fresh
  <2> QED
    BY <2>1, <2>2, FreshWord, FreshBranches DEF BranchInv
<1>2. Inv /\ [CFNext]_cfVars => Inv'
  <2> SUFFICES ASSUME NEW b \in Nat, BranchInv(b), [CFNext]_cfVars
               PROVE  \E c \in Nat : BranchInv(c)'
    OBVIOUS
  <2>1. CASE UNCHANGED cfVars
    <3>1. stale' = stale
      BY <2>1 DEF cfVars
    <3>2. BranchInv(b)'
      BY <2>1, <3>1, StutterStep, StutterBranches DEF BranchInv
    <3> QED
      BY <3>2
  <2> QED
    BY <2>1, BranchStep
<1>3. Inv => BranchesMatch
  BY SoundMatches
<1> HIDE DEF Inv
<1> QED
  BY <1>1, <1>2, <1>3, PTL DEF CFSpec
=============================================================================
