------------------------- MODULE Dictionary_proofs -------------------------
(***************************************************************************)
(* What the dictionary guarantees for every vocabulary, every length of    *)
(* names and every size of memory.                                         *)
(***************************************************************************)
EXTENDS Dictionary, TLAPS

-----------------------------------------------------------------------------
(* Headers.                                                                *)

LEMMA HeaderCellsFacts ==
  /\ \A len \in 0..32 : HeaderCells(len) \in Nat /\ HeaderCells(len) >= 2
  /\ \A len \in 1..31 : HeaderCells(len % 32) = HeaderCells(len)
  /\ HeaderCells(32 % 32) = 2
BY DEF HeaderCells

(* The codeword >CFA computes lies at the end of the header, or, for a     *)
(* name of 32 characters, inside it.                                       *)
LEMMA StoredLenFacts ==
  ASSUME NEW t \in Tokens
  PROVE  /\ HeaderCells(NameLen[t]) \in Nat
         /\ HeaderCells(NameLen[t]) >= 2
         /\ HeaderCells(StoredLen(t)) \in Nat
         /\ HeaderCells(StoredLen(t)) >= 2
         /\ HeaderCells(StoredLen(t)) <= HeaderCells(NameLen[t])
         /\ NameLen[t] <= 31 =>
              HeaderCells(StoredLen(t)) = HeaderCells(NameLen[t])
<1>1. NameLen[t] \in 1..32
  BY DictionaryAssumption
<1>2. CASE NameLen[t] = 32
  BY <1>2, HeaderCellsFacts DEF StoredLen
<1>3. CASE NameLen[t] \in 1..31
  BY <1>3, HeaderCellsFacts DEF StoredLen
<1> QED
  BY <1>1, <1>2, <1>3

LEMMA BootFacts ==
  /\ BaseWord \in Tokens
  /\ BaseHeader = 1
  /\ BaseCfa \in Nat /\ BaseCfa >= 3
  /\ BaseCfa = BaseHeader + HeaderCells(NameLen[BaseWord])
  /\ DataStart \in Nat /\ DataStart = BaseCfa + 2
  /\ DataStart <= MemTop
  /\ MemTop \in Nat /\ SegCells \in Nat
BY StoredLenFacts, DictionaryAssumption, BaseFits
   DEF BaseHeader, BaseCfa, DataStart, Tokens

(* HEADER, fills the cells of the header and no other.                     *)
LEMMA WriteHeaderFacts ==
  ASSUME NEW m \in Memory, NEW h \in Addr, NEW link \in Addr \cup {NULL},
         NEW n \in Tokens
  PROVE  /\ WriteHeader(m, h, link, n) \in Memory
         /\ WriteHeader(m, h, link, n)[h] = Cell("link", link)
         /\ h + 1 \in Addr =>
              WriteHeader(m, h, link, n)[h + 1] = Cell("name", n)
         /\ \A a \in Addr : a < h => WriteHeader(m, h, link, n)[a] = m[a]
         /\ \A a \in Addr : h <= a /\ a < h + HeaderCells(NameLen[n]) =>
              WriteHeader(m, h, link, n)[a].kind # "xt"
<1> DEFINE W == WriteHeader(m, h, link, n)
           C == Cells
<1>1. DOMAIN m = Addr
  BY DEF Memory
<1>2. Cell("link", link) \in C /\ Cell("name", n) \in C /\ Plain("pad") \in C
  BY DEF Cell, Plain, Kinds, Cells
<1>3. \A a \in Addr : m[a] \in C
  BY DEF Memory
<1>4. \A a \in Addr :
        W[a] = IF a = h THEN Cell("link", link)
               ELSE IF a = h + 1 THEN Cell("name", n)
               ELSE IF a \in (h + 2)..(h + HeaderCells(NameLen[n]) - 1)
                 THEN Plain("pad")
               ELSE m[a]
  BY <1>1 DEF WriteHeader
<1>5. h \in Nat /\ HeaderCells(NameLen[n]) \in Nat
  BY StoredLenFacts DEF Addr
<1>6. W[h] = Cell("link", link)
  BY <1>4, <1>5
<1>7. h + 1 \in Addr => W[h + 1] = Cell("name", n)
  BY <1>4, <1>5
<1>8. \A a \in Addr : a < h => W[a] = m[a]
  BY <1>4, <1>5 DEF Addr
<1>9. \A a \in Addr : W[a] \in C
  <2> TAKE a \in Addr
  <2>1. CASE a = h
    BY <2>1, <1>6, <1>2
  <2>2. CASE a = h + 1
    BY <2>2, <1>7, <1>2
  <2>3. CASE a # h /\ a # h + 1
    <3>1. W[a] = Plain("pad") \/ W[a] = m[a]
      BY <2>3, <1>4
    <3> QED
      BY <3>1, <1>2, <1>3
  <2> QED
    BY <2>1, <2>2, <2>3
<1>10. W = [a \in Addr |-> W[a]]
  BY <1>1 DEF WriteHeader
<1>11. W \in Memory
  BY <1>9, <1>10 DEF Memory
<1>12. \A a \in Addr : h <= a /\ a < h + HeaderCells(NameLen[n]) =>
         W[a].kind # "xt"
  <2> TAKE a \in Addr
  <2> HAVE h <= a /\ a < h + HeaderCells(NameLen[n])
  <2>1. a = h \/ a = h + 1
        \/ a \in (h + 2)..(h + HeaderCells(NameLen[n]) - 1)
    BY <1>5 DEF Addr
  <2>2. W[a] \in {Cell("link", link), Cell("name", n), Plain("pad")}
    BY <2>1, <1>4
  <2> QED
    BY <2>2 DEF Cell, Plain
<1> QED
  BY <1>6, <1>7, <1>8, <1>11, <1>12

LEMMA PutFacts ==
  ASSUME NEW m \in Memory, NEW a \in Addr, NEW c \in Cells
  PROVE  /\ Put(m, a, c) \in Memory
         /\ Put(m, a, c)[a] = c
         /\ \A x \in Addr : x # a => Put(m, a, c)[x] = m[x]
BY DEF Put, Memory

LEMMA CellFacts ==
  /\ \A k \in Kinds : Plain(k) \in Cells /\ Plain(k).kind = k
  /\ \A k \in Kinds : \A x \in Addr : Cell(k, x) \in Cells
BY DEF Plain, Cell, Cells

(* The cells the words append.                                             *)
LEMMA AppendedCells ==
  /\ Plain("docol") \in Cells /\ Plain("docol").kind = "docol"
  /\ Plain("dodoes") \in Cells /\ Plain("dodoes").kind = "dodoes"
  /\ Plain("lit") \in Cells /\ Plain("lit").kind = "lit"
  /\ Plain("num") \in Cells /\ Plain("num").kind = "num"
  /\ Plain("exit") \in Cells /\ Plain("exit").kind = "exit"
  /\ \A x \in Addr : Cell("xt", x) \in Cells /\ Cell("xt", x).arg = x
BY DEF Plain, Cell, Cells, Kinds

-----------------------------------------------------------------------------
(* The invariant: the list is well formed, and so is everything else.      *)
(* Neither half is inductive alone: HEADER, links to LATEST, which has to  *)
(* be a header, and >CFA reads the name cell of whatever (FIND) returns.   *)

(* BaseKept says that FORGET of a user's name never takes the vocabulary,  *)
(* and never sets DP back into it.                                         *)

BaseKept ==
  /\ BaseHeader \in live
  /\ mem[BaseHeader + 1].arg = BaseWord
  /\ \A h \in live : h = BaseHeader \/ h >= DataStart

IInv == TypeOK /\ ChainSound /\ BaseKept

LEMMA TypeFacts ==
  ASSUME IInv
  PROVE  /\ mem \in Memory
         /\ hidden \subseteq Addr /\ immed \subseteq Addr /\ live \subseteq Addr
         /\ dp \in Nat /\ dp >= DataStart /\ dp >= 1 /\ dp <= MemTop + 1
         /\ latest \in Addr
         /\ state \in {0, 1}
         /\ report \in {"ok", "error", "full"}
         /\ trapped \in BOOLEAN
<1>1. TypeOK
  BY DEF IInv
<1>2. mem \in Memory /\ latest \in Addr /\ trapped \in BOOLEAN
  BY <1>1 DEF TypeOK
<1>3. hidden \subseteq Addr /\ immed \subseteq Addr /\ live \subseteq Addr
  BY <1>1 DEF TypeOK
<1>4. state \in {0, 1} /\ report \in {"ok", "error", "full"}
  BY <1>1 DEF TypeOK
<1>5. dp \in DataStart..(MemTop + 1)
  BY <1>1 DEF TypeOK
<1>6. DataStart \in Nat /\ DataStart >= 1 /\ MemTop \in Nat
  BY BootFacts
<1>7. dp \in Nat /\ dp >= DataStart /\ dp >= 1 /\ dp <= MemTop + 1
  BY <1>5, <1>6
<1> QED
  BY <1>2, <1>3, <1>4, <1>7

(* What ChainSound says of one header on the list.                         *)
LEMMA HeaderFacts ==
  ASSUME IInv, NEW h \in live
  PROVE  /\ h \in Nat /\ h >= 1 /\ h <= latest
         /\ h \in Addr /\ h + 1 \in Addr /\ h + 1 < dp
         /\ mem[h].kind = "link"
         /\ mem[h + 1].arg \in Tokens
         /\ HeaderEnd(h) \in Addr /\ HeaderEnd(h) > h + 1 /\ HeaderEnd(h) < dp
         /\ TCFA(h) \in Addr /\ TCFA(h) > h + 1 /\ TCFA(h) < dp
         /\ dp \in Nat /\ dp <= MemTop + 1
<1>1. /\ h \in Addr /\ BaseHeader <= h /\ h <= latest /\ h + 1 < dp
      /\ mem[h].kind = "link" /\ mem[h + 1].arg \in Tokens
      /\ HeaderEnd(h) < dp
  BY DEF IInv, TypeOK, ChainSound, LinkDescends
<1>2. dp \in Nat /\ dp <= MemTop + 1 /\ MemTop \in Nat
  BY BootFacts DEF IInv, TypeOK
<1>3. h \in Nat /\ h >= 1
  BY <1>1 DEF Addr
<1>4. h + 1 \in Addr
  BY <1>1, <1>2, <1>3 DEF Addr
<1> DEFINE t == mem[h + 1].arg
<1>5. /\ HeaderCells(NameLen[t]) \in Nat /\ HeaderCells(NameLen[t]) >= 2
      /\ HeaderCells(StoredLen(t)) \in Nat /\ HeaderCells(StoredLen(t)) >= 2
      /\ HeaderCells(StoredLen(t)) <= HeaderCells(NameLen[t])
  BY <1>1, StoredLenFacts
<1>6. HeaderEnd(h) = h + HeaderCells(NameLen[t])
  BY DEF HeaderEnd
<1>7. TCFA(h) = h + HeaderCells(StoredLen(t))
  BY DEF TCFA
<1> HIDE DEF t
<1>8. HeaderEnd(h) \in Addr /\ HeaderEnd(h) > h + 1
  BY <1>1, <1>2, <1>3, <1>5, <1>6 DEF Addr
<1>9. TCFA(h) \in Addr /\ TCFA(h) > h + 1 /\ TCFA(h) < dp
  BY <1>1, <1>2, <1>3, <1>5, <1>6, <1>7 DEF Addr
<1> QED
  BY <1>1, <1>2, <1>3, <1>4, <1>8, <1>9

(* A step that leaves the list and the cells below DP alone.               *)
LEMMA ChainFrame ==
  ASSUME IInv,
         dp' \in Nat, dp' >= dp, live' = live, latest' = latest,
         \A a \in Addr : a < dp => mem'[a] = mem[a]
  PROVE  ChainSound'
<1>1. latest' \in live'
  BY DEF IInv, ChainSound
<1>2. ASSUME NEW h \in live'
      PROVE  /\ BaseHeader <= h /\ h <= latest' /\ h + 1 < dp'
             /\ LinkDescends(h)'
             /\ mem'[h + 1].kind = "name"
             /\ mem'[h + 1].arg \in Tokens
             /\ HeaderEnd(h)' < dp'
             /\ \A f \in live' : h < f => HeaderEnd(h)' < f
  <2>1. /\ h \in live /\ h \in Nat /\ h \in Addr /\ h + 1 \in Addr /\ h + 1 < dp
        /\ dp \in Nat /\ HeaderEnd(h) \in Addr /\ HeaderEnd(h) < dp
    BY <1>2, HeaderFacts
  <2>2. mem'[h] = mem[h] /\ mem'[h + 1] = mem[h + 1]
    BY <2>1
  <2>3. HeaderEnd(h)' = HeaderEnd(h)
    BY <2>2 DEF HeaderEnd
  <2>4. LinkDescends(h)'
    BY <2>1, <2>2 DEF IInv, ChainSound, LinkDescends
  <2>5. /\ BaseHeader <= h /\ h <= latest
        /\ mem[h + 1].kind = "name" /\ mem[h + 1].arg \in Tokens
        /\ \A f \in live : h < f => HeaderEnd(h) < f
    BY <2>1 DEF IInv, ChainSound
  <2>6. h + 1 < dp' /\ HeaderEnd(h) < dp'
    BY <2>1 DEF Addr
  <2> QED
    BY <2>2, <2>3, <2>4, <2>5, <2>6
<1> QED
  BY <1>1, <1>2 DEF ChainSound

(* A step that puts a header at DP.                                        *)
LEMMA ChainGrows ==
  ASSUME IInv, NEW n \in Tokens,
         dp \in Addr, dp + 1 \in Addr,
         dp' \in Nat, dp + HeaderCells(NameLen[n]) < dp',
         live' = live \cup {dp}, latest' = dp,
         \A a \in Addr : a < dp => mem'[a] = mem[a],
         mem'[dp] = Cell("link", latest), mem'[dp + 1] = Cell("name", n)
  PROVE  ChainSound'
<1>1. latest \in live /\ latest \in Nat /\ latest + 1 < dp /\ dp \in Nat
      /\ latest >= 1
  BY HeaderFacts DEF IInv, ChainSound
<1>2. \A f \in live : f \in Nat /\ f <= latest /\ f < dp /\ f >= 1
  BY <1>1, HeaderFacts
<1>3. HeaderCells(NameLen[n]) \in Nat /\ HeaderCells(NameLen[n]) >= 2
  BY StoredLenFacts
<1>4. ASSUME NEW h \in live'
      PROVE  /\ BaseHeader <= h /\ h <= latest' /\ h + 1 < dp'
             /\ LinkDescends(h)'
             /\ mem'[h + 1].kind = "name"
             /\ mem'[h + 1].arg \in Tokens
             /\ HeaderEnd(h)' < dp'
             /\ \A f \in live' : h < f => HeaderEnd(h)' < f
  <2>1. CASE h = dp
    <3>1. BaseHeader <= h /\ h <= latest' /\ h + 1 < dp'
      BY <2>1, <1>1, <1>3 DEF BaseHeader
    <3>2. mem'[h + 1].kind = "name" /\ mem'[h + 1].arg = n
      BY <2>1 DEF Cell
    <3>3. HeaderEnd(h)' = h + HeaderCells(NameLen[n])
      BY <3>2 DEF HeaderEnd
    <3>4. \A f \in live' : ~(h < f)
      <4> TAKE f \in live'
      <4>1. CASE f \in live
        BY <4>1, <2>1, <1>1, <1>2
      <4>2. CASE f = dp
        BY <4>2, <2>1, <1>1
      <4> QED
        BY <4>1, <4>2
    <3>5. mem'[h].kind = "link" /\ mem'[h].arg = latest
      BY <2>1 DEF Cell
    <3>6. LinkDescends(h)'
      <4>1. \A f \in live' : f < h => f <= latest
        <5> TAKE f \in live'
        <5>1. CASE f \in live
          BY <5>1, <1>2
        <5>2. CASE f = dp
          BY <5>2, <2>1, <1>1
        <5> QED
          BY <5>1, <5>2
      <4>2. latest \in live' /\ latest < h
        BY <2>1, <1>1
      <4> QED
        BY <4>1, <4>2, <3>5 DEF LinkDescends
    <3> QED
      BY <2>1, <3>1, <3>2, <3>3, <3>4, <3>6
  <2>2. CASE h \in live
    <3>1. /\ h \in Nat /\ h \in Addr /\ h + 1 \in Addr /\ h + 1 < dp
          /\ HeaderEnd(h) \in Addr /\ HeaderEnd(h) < dp
      BY <2>2, HeaderFacts
    <3>2. mem'[h] = mem[h] /\ mem'[h + 1] = mem[h + 1]
      BY <3>1, <1>1
    <3>3. HeaderEnd(h)' = HeaderEnd(h)
      BY <3>2 DEF HeaderEnd
    <3>4. LinkDescends(h)'
      <4>1. LinkDescends(h)
        BY <2>2 DEF IInv, ChainSound
      <4>2. \A f \in live' : f < h => f \in live
        BY <3>1, <1>1
      <4> QED
        BY <4>1, <4>2, <3>2 DEF LinkDescends
    <3>5. /\ BaseHeader <= h /\ h <= latest
          /\ mem[h + 1].kind = "name" /\ mem[h + 1].arg \in Tokens
          /\ \A f \in live : h < f => HeaderEnd(h) < f
      BY <2>2 DEF IInv, ChainSound
    <3>6. dp < dp'
      BY <1>1, <1>3
    <3>7. h + 1 < dp' /\ HeaderEnd(h) < dp' /\ h <= latest'
      BY <3>1, <3>6, <1>1 DEF Addr
    <3>8. \A f \in live' : h < f => HeaderEnd(h) < f
      BY <3>1, <3>5
    <3> QED
      BY <3>2, <3>3, <3>4, <3>5, <3>7, <3>8
  <2> QED
    BY <1>4, <2>1, <2>2
<1>5. latest' \in live'
  OBVIOUS
<1> QED
  BY <1>4, <1>5 DEF ChainSound

(* FORGET: the list up to the link of a header, the memory up to it.       *)
LEMMA ChainShrinks ==
  ASSUME IInv, NEW g \in live, mem[g].arg # NULL,
         dp' = g, latest' = mem[g].arg, live' = {f \in live : f < g},
         mem' = mem
  PROVE  ChainSound'
<1>1. /\ LinkDescends(g)
      /\ g \in Nat
  BY HeaderFacts DEF IInv, ChainSound
<1>2. mem[g].arg \in live /\ mem[g].arg < g
  BY <1>1 DEF LinkDescends
<1>3. latest' \in live'
  BY <1>2
<1>4. ASSUME NEW h \in live'
      PROVE  /\ BaseHeader <= h /\ h <= latest' /\ h + 1 < dp'
             /\ LinkDescends(h)'
             /\ mem'[h + 1].kind = "name"
             /\ mem'[h + 1].arg \in Tokens
             /\ HeaderEnd(h)' < dp'
             /\ \A f \in live' : h < f => HeaderEnd(h)' < f
  <2>1. h \in live /\ h < g /\ h \in Nat /\ HeaderEnd(h) \in Nat
        /\ HeaderEnd(h) > h + 1
    BY <1>4, HeaderFacts DEF Addr
  <2>2. /\ BaseHeader <= h /\ LinkDescends(h)
        /\ mem[h + 1].kind = "name" /\ mem[h + 1].arg \in Tokens
        /\ \A f \in live : h < f => HeaderEnd(h) < f
    BY <2>1 DEF IInv, ChainSound
  <2>3. h <= latest'
    BY <1>1, <2>1 DEF LinkDescends
  <2>4. HeaderEnd(h)' = HeaderEnd(h) /\ HeaderEnd(h) < g
    BY <2>1, <2>2 DEF HeaderEnd
  <2>5. h + 1 < g
    BY <2>1, <2>4, <1>1
  <2>6. LinkDescends(h)'
    <3>1. /\ mem[h].kind = "link" /\ mem[h].arg \in live \cup {NULL}
          /\ mem[h].arg < h /\ \A f \in live : f < h => f <= mem[h].arg
      BY <2>2 DEF LinkDescends
    <3>2. CASE mem[h].arg = NULL
      BY <3>1, <3>2 DEF LinkDescends
    <3>3. CASE mem[h].arg \in live
      <4>1. mem[h].arg \in Nat
        BY <3>3, HeaderFacts
      <4>2. mem[h].arg \in live'
        BY <4>1, <3>1, <3>3, <2>1, <1>1
      <4> QED
        BY <4>2, <3>1 DEF LinkDescends
    <3> QED
      BY <3>1, <3>2, <3>3
  <2>7. \A f \in live' : h < f => HeaderEnd(h)' < f
    BY <2>2, <2>4
  <2> QED
    BY <2>2, <2>3, <2>4, <2>5, <2>6, <2>7
<1> QED
  BY <1>3, <1>4 DEF ChainSound

-----------------------------------------------------------------------------
(* The four ways a step can treat the dictionary.                          *)

(* , and what is built on it: new cells at DP, the list as it was; the     *)
(* references among them come from >CFA.                                   *)
Extends ==
  /\ dp' >= dp /\ live' = live /\ latest' = latest
  /\ \A a \in Addr : a < dp => mem'[a] = mem[a]
  /\ \A a \in Addr : dp <= a /\ a < dp' /\ mem'[a].kind = "xt" =>
       \E h \in live : mem'[a].arg = TCFA(h)

(* HEADER, and what its callers append: a header and its codeword.         *)
GrowsBy(n) ==
  /\ dp \in Addr /\ dp + 1 \in Addr
  /\ dp + HeaderCells(NameLen[n]) < dp'
  /\ live' = live \cup {dp} /\ latest' = dp
  /\ \A a \in Addr : a < dp => mem'[a] = mem[a]
  /\ mem'[dp] = Cell("link", latest) /\ mem'[dp + 1] = Cell("name", n)
  /\ mem'[dp + HeaderCells(NameLen[n])].kind \in {"docol", "dodoes"}
  /\ \A a \in Addr : dp <= a /\ a < dp' => mem'[a].kind # "xt"

Shrinks ==
  \E g \in live : /\ g # BaseHeader /\ mem[g].arg # NULL
                  /\ dp' = g /\ latest' = mem[g].arg
                  /\ live' = {f \in live : f < g}
                  /\ mem' = mem

Restarts ==
  /\ mem' = BootMem /\ dp' = DataStart
  /\ live' = {BaseHeader} /\ latest' = BaseHeader

(* HEADER, with room left.                                                 *)
LEMMA HeaderWithRoom ==
  ASSUME IInv, Room, NEW n \in Names, HeaderDp(n) <= MemTop
  PROVE  LET e == dp + HeaderCells(NameLen[n]) IN
         /\ HeaderDp(n) = e /\ HeaderLatest = dp /\ HeaderLive = live \cup {dp}
         /\ dp \in Addr /\ dp + 1 \in Addr /\ e \in Addr /\ e > dp + 1
         /\ HeaderMem(n) \in Memory
         /\ HeaderMem(n)[dp] = Cell("link", latest)
         /\ HeaderMem(n)[dp + 1] = Cell("name", n)
         /\ \A a \in Addr : a < dp => HeaderMem(n)[a] = mem[a]
         /\ \A a \in Addr : dp <= a /\ a < e => HeaderMem(n)[a].kind # "xt"
         /\ HeaderHidden(n) \subseteq Addr /\ HeaderImmed \subseteq Addr
<1>1. n \in Tokens
  BY DEF Tokens
<1>2. HeaderCells(NameLen[n]) \in Nat /\ HeaderCells(NameLen[n]) >= 2
  BY <1>1, StoredLenFacts
<1>3. HeaderDp(n) = dp + HeaderCells(NameLen[n])
  BY DEF HeaderDp
<1>4. /\ dp \in Nat /\ dp >= 1 /\ MemTop \in Nat
      /\ mem \in Memory /\ latest \in Addr
      /\ hidden \subseteq Addr /\ immed \subseteq Addr
  BY TypeFacts, BootFacts
<1>5. /\ dp \in Addr /\ dp + 1 \in Addr
      /\ HeaderDp(n) \in Addr /\ HeaderDp(n) > dp + 1
  BY <1>2, <1>3, <1>4 DEF Addr
<1>6. HeaderMem(n) = WriteHeader(mem, dp, latest, n)
  BY DEF HeaderMem
<1>7. HeaderHidden(n) \subseteq Addr /\ HeaderImmed \subseteq Addr
  BY <1>4, <1>5 DEF HeaderHidden, HeaderImmed
<1>8. HeaderLatest = dp /\ HeaderLive = live \cup {dp}
  BY DEF HeaderLatest, HeaderLive
<1>9. /\ HeaderMem(n) \in Memory
      /\ HeaderMem(n)[dp] = Cell("link", latest)
      /\ HeaderMem(n)[dp + 1] = Cell("name", n)
      /\ \A a \in Addr : a < dp => HeaderMem(n)[a] = mem[a]
      /\ \A a \in Addr : dp <= a /\ a < dp + HeaderCells(NameLen[n]) =>
           HeaderMem(n)[a].kind # "xt"
  <2> DEFINE W == WriteHeader(mem, dp, latest, n)
  <2>1. latest \in Addr \cup {NULL}
    BY <1>4
  <2>2. W \in Memory
    BY <1>1, <1>4, <1>5, <2>1, WriteHeaderFacts
  <2>3. W[dp] = Cell("link", latest) /\ W[dp + 1] = Cell("name", n)
    <3>1. W[dp] = Cell("link", latest)
      BY <1>1, <1>4, <1>5, <2>1, WriteHeaderFacts
    <3>2. dp + 1 \in Addr
      BY <1>5
    <3>3. dp + 1 \in Addr => W[dp + 1] = Cell("name", n)
      BY <1>1, <1>4, <1>5, <2>1, WriteHeaderFacts
    <3> QED
      BY <3>1, <3>2, <3>3
  <2>4. \A a \in Addr : a < dp => W[a] = mem[a]
    <3> TAKE a \in Addr
    <3> HAVE a < dp
    <3> QED
      BY <1>1, <1>4, <1>5, <2>1, WriteHeaderFacts
  <2>5. \A a \in Addr : dp <= a /\ a < dp + HeaderCells(NameLen[n]) =>
          W[a].kind # "xt"
    BY <1>1, <1>4, <1>5, <2>1, WriteHeaderFacts
  <2> HIDE DEF W
  <2> QED
    BY <1>6, <2>2, <2>3, <2>4, <2>5 DEF W
<1> QED
  BY <1>3, <1>5, <1>7, <1>8, <1>9

(* HEADER, when the segment is used up: nothing changes.                   *)
LEMMA HeaderWithoutRoom ==
  ASSUME IInv, ~Room, NEW n \in Names
  PROVE  /\ HeaderDp(n) = dp /\ HeaderLatest = latest /\ HeaderLive = live
         /\ HeaderMem(n) = mem
         /\ HeaderHidden(n) = hidden /\ HeaderImmed = immed
BY DEF HeaderDp, HeaderLatest, HeaderLive, HeaderMem, HeaderHidden, HeaderImmed

LEMMA ToggleFacts ==
  ASSUME NEW S \in SUBSET Addr, NEW h \in Addr
  PROVE  Toggle(S, h) \subseteq Addr
BY DEF Toggle

LEMMA HeaderTypes ==
  ASSUME IInv, NEW n \in Names, HeaderDp(n) <= MemTop
  PROVE  /\ HeaderMem(n) \in Memory
         /\ HeaderDp(n) \in Addr /\ HeaderDp(n) >= dp
         /\ HeaderDp(n) \in Nat
         /\ HeaderLatest \in Addr /\ HeaderLive \subseteq Addr
         /\ HeaderHidden(n) \subseteq Addr /\ HeaderImmed \subseteq Addr
         /\ HeaderReport \in {"ok", "error", "full"}
<1>1. dp \in Nat /\ dp >= 1 /\ mem \in Memory /\ latest \in Addr
      /\ live \subseteq Addr /\ hidden \subseteq Addr /\ immed \subseteq Addr
  BY TypeFacts
<1>2. MemTop \in Nat
  BY BootFacts
<1>3. HeaderReport \in {"ok", "error", "full"}
  BY DEF HeaderReport
<1>4. CASE Room
  <2>1. HeaderDp(n) = dp + HeaderCells(NameLen[n])
        /\ HeaderDp(n) \in Addr /\ HeaderDp(n) > dp + 1
        /\ dp \in Addr
        /\ HeaderLatest = dp /\ HeaderLive = live \cup {dp}
        /\ HeaderMem(n) \in Memory
        /\ HeaderHidden(n) \subseteq Addr /\ HeaderImmed \subseteq Addr
    BY <1>4, HeaderWithRoom
  <2>2. HeaderDp(n) >= dp /\ HeaderDp(n) \in Nat
    BY <1>1, <2>1 DEF Addr
  <2> QED
    BY <1>1, <1>3, <2>1, <2>2
<1>5. CASE ~Room
  <2>1. HeaderDp(n) \in Addr
    BY <1>1, <1>2, <1>5, HeaderWithoutRoom DEF Addr
  <2> QED
    BY <1>1, <1>3, <1>5, <2>1, HeaderWithoutRoom
<1> QED
  BY <1>4, <1>5

(* A word that calls HEADER, and appends a codeword and plain cells.       *)
LEMMA HeaderStep ==
  ASSUME IInv, NEW n \in Names,
         dp' \in Nat, dp' > HeaderDp(n), dp' <= MemTop + 1,
         latest' = HeaderLatest, live' = HeaderLive,
         \A a \in Addr : a < HeaderDp(n) => mem'[a] = HeaderMem(n)[a],
         mem'[HeaderDp(n)].kind \in {"docol", "dodoes"},
         \A a \in Addr : HeaderDp(n) <= a /\ a < dp' => mem'[a].kind # "xt"
  PROVE  Extends \/ GrowsBy(n)
<1> DEFINE e == HeaderDp(n)
           H == HeaderMem(n)
<1>1. dp \in Nat /\ MemTop \in Nat /\ dp >= 1
  BY TypeFacts, BootFacts
<1>2. CASE Room
  <2>1. e = dp + HeaderCells(NameLen[n]) /\ HeaderCells(NameLen[n]) \in Nat
    BY <1>2, StoredLenFacts DEF HeaderDp, Tokens
  <2>2. e <= MemTop
    BY <1>1, <2>1
  <2>3. /\ HeaderLatest = dp /\ HeaderLive = live \cup {dp}
        /\ dp \in Addr /\ dp + 1 \in Addr /\ e \in Addr /\ e > dp + 1
    BY <1>2, <2>1, <2>2, HeaderWithRoom
  <2>4. H[dp] = Cell("link", latest) /\ H[dp + 1] = Cell("name", n)
    BY <1>2, <2>2, HeaderWithRoom
  <2>5. \A a \in Addr : a < dp => H[a] = mem[a]
    BY <1>2, <2>2, HeaderWithRoom
  <2>6. \A a \in Addr : dp <= a /\ a < e => H[a].kind # "xt"
    BY <1>2, <2>1, <2>2, HeaderWithRoom
  <2> HIDE DEF e, H
  <2>7. /\ dp' > e /\ dp' \in Nat /\ latest' = HeaderLatest /\ live' = HeaderLive
        /\ \A a \in Addr : a < e => mem'[a] = H[a]
        /\ mem'[e].kind \in {"docol", "dodoes"}
        /\ \A a \in Addr : e <= a /\ a < dp' => mem'[a].kind # "xt"
    BY DEF e, H
  <2>8. dp < e /\ dp + 1 < e /\ e \in Nat
    BY <1>1, <2>3 DEF Addr
  <2>9. mem'[dp] = Cell("link", latest) /\ mem'[dp + 1] = Cell("name", n)
    BY <2>3, <2>4, <2>7, <2>8
  <2>10. \A a \in Addr : a < dp => mem'[a] = mem[a]
    BY <1>1, <2>5, <2>7, <2>8 DEF Addr
  <2>11. \A a \in Addr : dp <= a /\ a < dp' => mem'[a].kind # "xt"
    <3> TAKE a \in Addr
    <3> HAVE dp <= a /\ a < dp'
    <3>1. CASE a < e
      BY <3>1, <2>6, <2>7
    <3>2. CASE ~(a < e)
      BY <3>2, <2>7, <2>8 DEF Addr
    <3> QED
      BY <3>1, <3>2
  <2>12. dp + HeaderCells(NameLen[n]) < dp'
    BY <2>1, <2>7
  <2>13. mem'[dp + HeaderCells(NameLen[n])].kind \in {"docol", "dodoes"}
    BY <2>1, <2>7
  <2>14. live' = live \cup {dp} /\ latest' = dp
    BY <2>3, <2>7
  <2> QED
    BY <2>3, <2>9, <2>10, <2>11, <2>12, <2>13, <2>14 DEF GrowsBy
<1>3. CASE ~Room
  <2>1. e = dp /\ HeaderLatest = latest /\ HeaderLive = live /\ H = mem
    BY <1>3, HeaderWithoutRoom
  <2>2. dp' >= dp
    BY <1>1, <2>1
  <2> QED
    BY <2>1, <2>2 DEF Extends
<1> QED
  BY <1>2, <1>3

-----------------------------------------------------------------------------
(* Every action is one of them.                                            *)

LEMMA ColonStep ==
  ASSUME IInv, NEW n \in Names, Colon(n)
  PROVE  TypeOK' /\ (Extends \/ GrowsBy(n))
<1> DEFINE e == HeaderDp(n)
           c == Plain("docol")
<1>1. /\ mem' = Put(HeaderMem(n), e, c) /\ dp' = e + 1
      /\ latest' = HeaderLatest /\ live' = HeaderLive
      /\ hidden' = Toggle(HeaderHidden(n), HeaderLatest)
      /\ immed' = HeaderImmed /\ state' = 1 /\ report' = HeaderReport
      /\ trapped' = trapped /\ e + 1 - 1 <= MemTop
  BY DEF Colon, Fits
<1>2. trapped \in BOOLEAN /\ dp \in Nat /\ dp >= DataStart
      /\ DataStart \in Nat /\ MemTop \in Nat
  BY TypeFacts, BootFacts
<1>3. HeaderDp(n) <= MemTop
  BY <1>1, <1>2, StoredLenFacts DEF HeaderDp, Tokens
<1>4. /\ HeaderMem(n) \in Memory
      /\ e \in Addr /\ e >= dp /\ e \in Nat
      /\ HeaderLatest \in Addr /\ HeaderLive \subseteq Addr
      /\ HeaderHidden(n) \subseteq Addr /\ HeaderImmed \subseteq Addr
      /\ HeaderReport \in {"ok", "error", "full"}
  BY <1>3, HeaderTypes
<1>5. c \in Cells /\ c.kind = "docol"
  BY AppendedCells
<1> HIDE DEF c, e
<1>6. mem' \in Memory /\ mem'[e] = c
  BY <1>1, <1>4, <1>5, PutFacts
<1>7. \A x \in Addr : x # e => mem'[x] = HeaderMem(n)[x]
  BY <1>1, <1>4, <1>5, PutFacts
<1>8. TypeOK'
  <2>1. hidden' \subseteq Addr
    BY <1>1, <1>4, ToggleFacts
  <2>2. dp' \in DataStart..(MemTop + 1)
    BY <1>1, <1>2, <1>4
  <2> QED
    BY <1>1, <1>2, <1>4, <1>6, <2>1, <2>2 DEF TypeOK
<1>9. Extends \/ GrowsBy(n)
  <2>1. dp' \in Nat /\ dp' > e /\ dp' <= MemTop + 1
    BY <1>1, <1>2, <1>4
  <2>2. \A a \in Addr : a < e => mem'[a] = HeaderMem(n)[a]
    BY <1>4, <1>7 DEF Addr
  <2>3. \A a \in Addr : e <= a /\ a < dp' => mem'[a].kind # "xt"
    BY <1>1, <1>4, <1>5, <1>6 DEF Addr
  <2> QED
    BY <1>1, <1>5, <1>6, <2>1, <2>2, <2>3, HeaderStep DEF e
<1> QED
  BY <1>8, <1>9

LEMMA CreateStep ==
  ASSUME IInv, NEW n \in Names, Create(n)
  PROVE  /\ TypeOK' /\ (Extends \/ GrowsBy(n))
         /\ dp' = HeaderDp(n) + 2 /\ mem'[HeaderDp(n)].kind = "dodoes"
<1> DEFINE e == HeaderDp(n)
           c0 == Plain("dodoes")
           c1 == Plain("num")
           m0 == Put(HeaderMem(n), e, c0)
<1>1. /\ mem' = Put(m0, e + 1, c1) /\ dp' = e + 2
      /\ latest' = HeaderLatest /\ live' = HeaderLive
      /\ hidden' = HeaderHidden(n)
      /\ immed' = HeaderImmed /\ state' = state /\ report' = HeaderReport
      /\ trapped' = trapped /\ e + 2 - 1 <= MemTop
  BY DEF Create, Fits
<1>2. trapped \in BOOLEAN /\ state \in {0, 1} /\ dp \in Nat /\ dp >= DataStart
      /\ DataStart \in Nat /\ MemTop \in Nat
  BY TypeFacts, BootFacts
<1>3. HeaderDp(n) <= MemTop
  BY <1>1, <1>2, StoredLenFacts DEF HeaderDp, Tokens
<1>4. /\ HeaderMem(n) \in Memory
      /\ e \in Addr /\ e >= dp /\ e \in Nat
      /\ HeaderLatest \in Addr /\ HeaderLive \subseteq Addr
      /\ HeaderHidden(n) \subseteq Addr /\ HeaderImmed \subseteq Addr
      /\ HeaderReport \in {"ok", "error", "full"}
  BY <1>3, HeaderTypes
<1>5. c0 \in Cells /\ c0.kind = "dodoes" /\ c1 \in Cells /\ c1.kind = "num"
  BY AppendedCells
<1> HIDE DEF c0, c1, e, m0
<1>6. /\ m0 \in Memory /\ m0[e] = c0
      /\ \A x \in Addr : x # e => m0[x] = HeaderMem(n)[x]
  BY <1>4, <1>5, PutFacts DEF m0
<1>7. e + 1 \in Addr
  BY <1>1, <1>2, <1>4 DEF Addr
<1>8. mem' \in Memory /\ mem'[e + 1] = c1
  BY <1>1, <1>5, <1>6, <1>7, PutFacts
<1>9. \A x \in Addr : x # e + 1 => mem'[x] = m0[x]
  BY <1>1, <1>5, <1>6, <1>7, PutFacts
<1>10. TypeOK'
  <2>1. dp' \in DataStart..(MemTop + 1)
    BY <1>1, <1>2, <1>4
  <2> QED
    BY <1>1, <1>2, <1>4, <1>8, <2>1 DEF TypeOK
<1>11. mem'[e] = c0
  BY <1>4, <1>6, <1>9
<1>12. Extends \/ GrowsBy(n)
  <2>1. dp' \in Nat /\ dp' > e /\ dp' <= MemTop + 1
    BY <1>1, <1>2, <1>4
  <2>2. \A a \in Addr : a < e => mem'[a] = HeaderMem(n)[a]
    BY <1>4, <1>6, <1>9 DEF Addr
  <2>3. mem'[e] = c0
    BY <1>11
  <2>4. \A a \in Addr : e <= a /\ a < dp' => mem'[a].kind # "xt"
    <3> TAKE a \in Addr
    <3> HAVE e <= a /\ a < dp'
    <3>1. a = e \/ a = e + 1
      BY <1>1, <1>4 DEF Addr
    <3> QED
      BY <3>1, <1>5, <1>8, <2>3
  <2> QED
    BY <1>1, <1>5, <2>1, <2>2, <2>3, <2>4, HeaderStep DEF e
<1>13. dp' = HeaderDp(n) + 2 /\ mem'[HeaderDp(n)].kind = "dodoes"
  BY <1>1, <1>5, <1>11 DEF e
<1> QED
  BY <1>10, <1>12, <1>13

LEMMA ConstantStep ==
  ASSUME IInv, NEW n \in Names, Constant(n)
  PROVE  /\ TypeOK' /\ (Extends \/ GrowsBy(n))
         /\ dp' = HeaderDp(n) + 4 /\ mem'[HeaderDp(n) + 3].kind = "exit"
<1> DEFINE e == HeaderDp(n)
           c0 == Plain("docol")
           c1 == Plain("lit")
           c2 == Plain("num")
           c3 == Plain("exit")
           m0 == Put(HeaderMem(n), e, c0)
           m1 == Put(m0, e + 1, c1)
           m2 == Put(m1, e + 2, c2)
           m3 == Put(m2, e + 3, c3)
<1>1. /\ mem' = m3 /\ dp' = e + 4
      /\ latest' = HeaderLatest /\ live' = HeaderLive
      /\ hidden' = HeaderHidden(n)
      /\ immed' = HeaderImmed /\ state' = state /\ report' = HeaderReport
      /\ trapped' = trapped /\ e + 4 - 1 <= MemTop
  BY DEF Constant, Fits
<1>2. trapped \in BOOLEAN /\ state \in {0, 1} /\ dp \in Nat /\ dp >= DataStart
      /\ DataStart \in Nat /\ MemTop \in Nat
  BY TypeFacts, BootFacts
<1>3. HeaderDp(n) <= MemTop
  BY <1>1, <1>2, StoredLenFacts DEF HeaderDp, Tokens
<1>4. /\ HeaderMem(n) \in Memory
      /\ e \in Addr /\ e >= dp /\ e \in Nat
      /\ HeaderLatest \in Addr /\ HeaderLive \subseteq Addr
      /\ HeaderHidden(n) \subseteq Addr /\ HeaderImmed \subseteq Addr
      /\ HeaderReport \in {"ok", "error", "full"}
  BY <1>3, HeaderTypes
<1>5. /\ c0 \in Cells /\ c0.kind = "docol" /\ c1 \in Cells /\ c1.kind = "lit"
      /\ c2 \in Cells /\ c2.kind = "num" /\ c3 \in Cells /\ c3.kind = "exit"
  BY AppendedCells
<1> HIDE DEF c0, c1, c2, c3, e, m0, m1, m2, m3
<1>6. e + 1 \in Addr /\ e + 2 \in Addr /\ e + 3 \in Addr
  BY <1>1, <1>2, <1>4 DEF Addr
<1>7. /\ m0 \in Memory /\ m0[e] = c0
      /\ \A x \in Addr : x # e => m0[x] = HeaderMem(n)[x]
  <2>1. HeaderMem(n) \in Memory /\ e \in Addr /\ c0 \in Cells
    BY <1>4, <1>5
  <2>2. m0 \in Memory
    BY <2>1, PutFacts DEF m0
  <2>3. m0[e] = c0
    BY <2>1, PutFacts DEF m0
  <2>4. \A x \in Addr : x # e => m0[x] = HeaderMem(n)[x]
    BY <2>1, PutFacts DEF m0
  <2> QED
    BY <2>2, <2>3, <2>4
<1>8. /\ m1 \in Memory /\ m1[e + 1] = c1
      /\ \A x \in Addr : x # e + 1 => m1[x] = m0[x]
  BY <1>5, <1>6, <1>7, PutFacts DEF m1
<1>9. /\ m2 \in Memory /\ m2[e + 2] = c2
      /\ \A x \in Addr : x # e + 2 => m2[x] = m1[x]
  BY <1>5, <1>6, <1>8, PutFacts DEF m2
<1>10. /\ m3 \in Memory /\ m3[e + 3] = c3
       /\ \A x \in Addr : x # e + 3 => m3[x] = m2[x]
  BY <1>5, <1>6, <1>9, PutFacts DEF m3
<1>11. /\ mem' \in Memory /\ mem'[e + 3] = c3
       /\ \A x \in Addr : x # e + 3 => mem'[x] = m2[x]
  BY <1>1, <1>10
<1>12. TypeOK'
  <2>1. dp' \in DataStart..(MemTop + 1)
    BY <1>1, <1>2, <1>4
  <2> QED
    BY <1>1, <1>2, <1>4, <1>11, <2>1 DEF TypeOK
<1>13. Extends \/ GrowsBy(n)
  <2>1. dp' \in Nat /\ dp' > e /\ dp' <= MemTop + 1
    BY <1>1, <1>2, <1>4
  <2>2. \A a \in Addr : a < e => mem'[a] = HeaderMem(n)[a]
    <3> TAKE a \in Addr
    <3> HAVE a < e
    <3>1. a # e /\ a # e + 1 /\ a # e + 2 /\ a # e + 3
      BY <1>4 DEF Addr
    <3> QED
      BY <3>1, <1>7, <1>8, <1>9, <1>11
  <2>3. mem'[e] = c0
    <3>1. e # e + 1 /\ e # e + 2 /\ e # e + 3
      BY <1>4
    <3> QED
      BY <3>1, <1>4, <1>7, <1>8, <1>9, <1>11
  <2>4. mem'[e + 1] = c1
    <3>1. e + 1 # e + 2 /\ e + 1 # e + 3
      BY <1>4
    <3> QED
      BY <3>1, <1>6, <1>8, <1>9, <1>11
  <2>5. mem'[e + 2] = c2
    <3>1. e + 2 # e + 3
      BY <1>4
    <3> QED
      BY <3>1, <1>6, <1>9, <1>11
  <2>6. \A a \in Addr : e <= a /\ a < dp' => mem'[a].kind # "xt"
    <3> TAKE a \in Addr
    <3> HAVE e <= a /\ a < dp'
    <3>1. a = e \/ a = e + 1 \/ a = e + 2 \/ a = e + 3
      BY <1>1, <1>4 DEF Addr
    <3> QED
      BY <3>1, <1>5, <1>11, <2>3, <2>4, <2>5
  <2> QED
    BY <1>1, <1>5, <2>1, <2>2, <2>3, <2>6, HeaderStep DEF e
<1>14. dp' = HeaderDp(n) + 4 /\ mem'[HeaderDp(n) + 3].kind = "exit"
  BY <1>1, <1>5, <1>11 DEF e
<1> QED
  BY <1>12, <1>13, <1>14

(* One more cell.                                                          *)
LEMMA AppendStep ==
  ASSUME IInv, NEW c \in Cells,
         c.kind = "xt" => \E h \in live : c.arg = TCFA(h),
         dp <= MemTop, mem' = Put(mem, dp, c), dp' = dp + 1,
         live' = live, latest' = latest
  PROVE  /\ Extends
         /\ mem' \in Memory /\ dp' \in DataStart..(MemTop + 1)
         /\ mem'[dp] = c
<1>1. dp \in Nat /\ dp >= 1 /\ dp >= DataStart /\ mem \in Memory
      /\ MemTop \in Nat /\ DataStart \in Nat
  BY TypeFacts, BootFacts
<1>2. dp \in Addr
  BY <1>1 DEF Addr
<1>3. mem' \in Memory /\ mem'[dp] = c
  BY <1>1, <1>2, PutFacts
<1>4. \A x \in Addr : x # dp => mem'[x] = mem[x]
  BY <1>1, <1>2, PutFacts
<1>5. \A a \in Addr : a < dp => mem'[a] = mem[a]
  BY <1>1, <1>4
<1>6. \A a \in Addr : dp <= a /\ a < dp' => a = dp
  BY <1>1 DEF Addr
<1>7. dp' \in DataStart..(MemTop + 1) /\ dp' >= dp
  BY <1>1
<1> QED
  BY <1>3, <1>5, <1>6, <1>7 DEF Extends

(* CompileWord, BracketCompile and Recurse append what >CFA returns.       *)
LEMMA CompileStep ==
  ASSUME IInv, NEW h \in live, CompileCell(Cell("xt", TCFA(h)))
  PROVE  TypeOK' /\ Extends
<1> DEFINE c == Cell("xt", TCFA(h))
<1>1. TCFA(h) \in Addr
  BY HeaderFacts
<1>2. c \in Cells /\ c.arg = TCFA(h)
  BY <1>1, AppendedCells
<1>3. /\ dp <= MemTop /\ mem' = Put(mem, dp, c) /\ dp' = dp + 1
      /\ report' = "ok" /\ hidden' = hidden /\ immed' = immed
      /\ latest' = latest /\ live' = live /\ state' = state
      /\ trapped' = trapped
  BY DEF CompileCell
<1> HIDE DEF c
<1>4. Extends /\ mem' \in Memory /\ dp' \in DataStart..(MemTop + 1)
  BY <1>2, <1>3, AppendStep
<1>5. /\ hidden \subseteq Addr /\ immed \subseteq Addr /\ live \subseteq Addr
      /\ latest \in Addr /\ state \in {0, 1} /\ trapped \in BOOLEAN
  BY TypeFacts
<1> QED
  BY <1>3, <1>4, <1>5 DEF TypeOK

LEMMA SemicolonStep ==
  ASSUME IInv, Semicolon
  PROVE  TypeOK' /\ Extends /\ mem'[dp].kind = "exit"
<1> DEFINE c == Plain("exit")
<1>1. c \in Cells /\ c.kind = "exit"
  BY AppendedCells
<1>2. /\ dp <= MemTop /\ mem' = Put(mem, dp, c) /\ dp' = dp + 1
      /\ report' = "ok" /\ hidden' = Toggle(hidden, latest) /\ immed' = immed
      /\ latest' = latest /\ live' = live /\ state' = 0
      /\ trapped' = trapped
  BY DEF Semicolon
<1> HIDE DEF c
<1>3. /\ Extends /\ mem' \in Memory /\ dp' \in DataStart..(MemTop + 1)
      /\ mem'[dp] = c
  BY <1>1, <1>2, AppendStep
<1>4. /\ hidden \subseteq Addr /\ immed \subseteq Addr /\ live \subseteq Addr
      /\ latest \in Addr /\ trapped \in BOOLEAN
  BY TypeFacts
<1>5. hidden' \subseteq Addr
  BY <1>2, <1>4, ToggleFacts
<1> QED
  BY <1>1, <1>2, <1>3, <1>4, <1>5 DEF TypeOK

LEMMA CompileNumberStep ==
  ASSUME IInv, CompileNumber
  PROVE  TypeOK' /\ Extends
<1> DEFINE c0 == Plain("lit")
           c1 == Plain("num")
           m0 == Put(mem, dp, c0)
           m1 == Put(m0, dp + 1, c1)
<1>1. /\ c0 \in Cells /\ c0.kind = "lit" /\ c1 \in Cells /\ c1.kind = "num"
  BY AppendedCells
<1>2. /\ dp + 1 <= MemTop /\ mem' = m1 /\ dp' = dp + 2
      /\ report' = "ok" /\ hidden' = hidden /\ immed' = immed
      /\ latest' = latest /\ live' = live /\ state' = state
      /\ trapped' = trapped
  BY DEF CompileNumber
<1> HIDE DEF c0, c1, m0, m1
<1>3. /\ hidden \subseteq Addr /\ immed \subseteq Addr /\ live \subseteq Addr
      /\ latest \in Addr /\ state \in {0, 1} /\ trapped \in BOOLEAN
      /\ dp \in Nat /\ dp >= 1 /\ dp >= DataStart /\ mem \in Memory
      /\ MemTop \in Nat /\ DataStart \in Nat
  BY TypeFacts, BootFacts
<1>4. dp \in Addr /\ dp + 1 \in Addr
  BY <1>2, <1>3 DEF Addr
<1>5. /\ m0 \in Memory /\ m0[dp] = c0
      /\ \A x \in Addr : x # dp => m0[x] = mem[x]
  BY <1>1, <1>3, <1>4, PutFacts DEF m0
<1>6. /\ m1 \in Memory /\ m1[dp + 1] = c1
      /\ \A x \in Addr : x # dp + 1 => m1[x] = m0[x]
  BY <1>1, <1>4, <1>5, PutFacts DEF m1
<1>7. dp' \in DataStart..(MemTop + 1) /\ dp' >= dp
  BY <1>2, <1>3
<1>8. \A a \in Addr : a < dp => mem'[a] = mem[a]
  <2> TAKE a \in Addr
  <2> HAVE a < dp
  <2>1. a # dp /\ a # dp + 1
    BY <1>3 DEF Addr
  <2> QED
    BY <2>1, <1>2, <1>5, <1>6
<1>9. \A a \in Addr : dp <= a /\ a < dp' => mem'[a].kind # "xt"
  <2> TAKE a \in Addr
  <2> HAVE dp <= a /\ a < dp'
  <2>1. a = dp \/ a = dp + 1
    BY <1>2, <1>3 DEF Addr
  <2>2. m1[dp] = c0
    BY <1>3, <1>4, <1>5, <1>6
  <2> QED
    BY <2>1, <2>2, <1>1, <1>2, <1>6
<1>10. TypeOK'
  BY <1>2, <1>3, <1>6, <1>7 DEF TypeOK
<1> QED
  BY <1>2, <1>7, <1>8, <1>9, <1>10 DEF Extends

(* The tokens that only move flags, and those that change nothing.         *)
LEMMA QuietStep ==
  ASSUME IInv,
         UNCHANGED <<mem, dp, latest, live>>,
         hidden' \subseteq Addr, immed' \subseteq Addr,
         state' \in {0, 1}, report' \in {"ok", "error", "full"},
         trapped' \in BOOLEAN
  PROVE  TypeOK' /\ Extends
<1>1. /\ mem \in Memory /\ live \subseteq Addr /\ latest \in Addr
      /\ dp \in Nat /\ dp >= DataStart /\ dp <= MemTop + 1
      /\ MemTop \in Nat /\ DataStart \in Nat
  BY TypeFacts, BootFacts
<1>2. dp' \in DataStart..(MemTop + 1)
  BY <1>1
<1>3. \A a \in Addr : ~(dp <= a /\ a < dp)
  BY <1>1 DEF Addr
<1> QED
  BY <1>1, <1>2, <1>3 DEF TypeOK, Extends

LEMMA ForgetStep ==
  ASSUME IInv, NEW n \in Names, Forget(n)
  PROVE  TypeOK' /\ Shrinks
<1>1. PICK g \in live : /\ Found(g, n)
                        /\ latest' = mem[g].arg
                        /\ dp' = g
                        /\ live' = {f \in live : f < g}
  BY DEF Forget
<1>2. /\ report' = "ok" /\ mem' = mem /\ hidden' = hidden /\ immed' = immed
      /\ state' = state /\ trapped' = trapped
  BY DEF Forget
<1>3. /\ hidden \subseteq Addr /\ immed \subseteq Addr /\ live \subseteq Addr
      /\ state \in {0, 1} /\ trapped \in BOOLEAN /\ mem \in Memory
      /\ MemTop \in Nat /\ DataStart \in Nat
  BY TypeFacts, BootFacts
<1>4. g # BaseHeader
  <2>1. mem[g + 1].arg = n
    BY <1>1 DEF Found, Matches
  <2>2. mem[BaseHeader + 1].arg = BaseWord /\ BaseWord # n
    BY DictionaryAssumption DEF IInv, BaseKept
  <2> QED
    BY <2>1, <2>2
<1>5. BaseHeader \in live /\ BaseHeader = 1
  BY BootFacts DEF IInv, BaseKept
<1>6. g \in Nat /\ g >= 1 /\ g + 1 < dp /\ dp \in Nat /\ dp <= MemTop + 1
  BY HeaderFacts
<1>7. LinkDescends(g) /\ LinkDescends(BaseHeader)
  BY <1>5 DEF IInv, ChainSound
<1>8. mem[g].arg \in live \cup {NULL} /\ BaseHeader <= mem[g].arg
  BY <1>4, <1>5, <1>6, <1>7 DEF LinkDescends
<1>9. mem[g].arg # NULL /\ mem[g].arg \in live
  BY <1>5, <1>8 DEF NULL
<1>10. Shrinks
  BY <1>1, <1>2, <1>4, <1>9 DEF Shrinks
<1>11. TypeOK'
  <2>1. latest' \in Addr /\ live' \subseteq Addr
    BY <1>1, <1>3, <1>9
  <2>2. dp' \in DataStart..(MemTop + 1)
    BY <1>1, <1>3, <1>4, <1>6 DEF IInv, BaseKept
  <2> QED
    BY <1>2, <1>3, <2>1, <2>2 DEF TypeOK
<1> QED
  BY <1>10, <1>11

LEMMA BootMemFacts ==
  /\ BootMem \in Memory
  /\ BootMem[BaseHeader] = Cell("link", NULL)
  /\ BootMem[BaseHeader + 1] = Cell("name", BaseWord)
  /\ BootMem[BaseCfa].kind = "docol"
  /\ BootMem[BaseCfa + 1].kind = "exit"
  /\ \A a \in Addr : BootMem[a].kind # "xt"
<1> DEFINE free == [a \in Addr |-> Plain("free")]
           w == WriteHeader(free, BaseHeader, NULL, BaseWord)
           c0 == Plain("docol")
           c1 == Plain("exit")
           m0 == Put(w, BaseCfa, c0)
           b == BaseCfa + 1
           m1 == Put(m0, b, c1)
<1>1. Plain("free") \in Cells /\ Plain("free").kind = "free"
  BY DEF Plain, Cell, Cells, Kinds
<1>2. free \in Memory
  BY <1>1 DEF Memory
<1>3. /\ BaseHeader \in Addr /\ BaseHeader + 1 \in Addr
      /\ BaseCfa \in Addr /\ b \in Addr /\ b > BaseCfa
      /\ BaseCfa > BaseHeader + 1
      /\ BaseHeader = 1 /\ BaseWord \in Tokens /\ BaseCfa \in Nat
      /\ BaseCfa = BaseHeader + HeaderCells(NameLen[BaseWord])
  BY BootFacts DEF Addr
<1>4. NULL \in Addr \cup {NULL}
  OBVIOUS
<1>5. c0 \in Cells /\ c0.kind = "docol" /\ c1 \in Cells /\ c1.kind = "exit"
  BY AppendedCells
<1>6. BootMem = m1
  BY DEF BootMem
<1>7. \A a \in Addr : free[a].kind # "xt"
  BY <1>1
<1> HIDE DEF c0, c1, m0, m1, w, free, b
<1>8. w \in Memory /\ w[BaseHeader] = Cell("link", NULL)
  <2>1. w \in Memory
    BY <1>2, <1>3, <1>4, WriteHeaderFacts DEF w
  <2>2. w[BaseHeader] = Cell("link", NULL)
    BY <1>2, <1>3 DEF w, WriteHeader, Memory
  <2> QED
    BY <2>1, <2>2
<1>9. w[BaseHeader + 1] = Cell("name", BaseWord)
  BY <1>2, <1>3 DEF w, WriteHeader, Memory
<1>10. \A a \in Addr : w[a].kind # "xt"
  BY <1>1, <1>3 DEF w, free, WriteHeader, Cell, Plain
<1>11. /\ m0 \in Memory /\ m0[BaseCfa] = c0
       /\ \A x \in Addr : x # BaseCfa => m0[x] = w[x]
  <2>1. m0 \in Memory
    BY <1>3, <1>5, <1>8, PutFacts DEF m0
  <2>2. m0[BaseCfa] = c0
    BY <1>3, <1>5, <1>8, PutFacts DEF m0
  <2>3. \A x \in Addr : x # BaseCfa => m0[x] = w[x]
    BY <1>3, <1>5, <1>8, PutFacts DEF m0
  <2> QED
    BY <2>1, <2>2, <2>3
<1>12. /\ m1 \in Memory /\ m1[b] = c1
       /\ \A x \in Addr : x # b => m1[x] = m0[x]
  <2>1. m1 \in Memory
    BY <1>3, <1>5, <1>11, PutFacts DEF m1
  <2>2. m1[b] = c1
    BY <1>3, <1>5, <1>11, PutFacts DEF m1
  <2>3. \A x \in Addr : x # b => m1[x] = m0[x]
    BY <1>3, <1>5, <1>11, PutFacts DEF m1
  <2> QED
    BY <2>1, <2>2, <2>3
<1>13. m1[BaseHeader] = w[BaseHeader] /\ m1[BaseHeader + 1] = w[BaseHeader + 1]
  BY <1>3, <1>11, <1>12
<1>14. m1[BaseCfa] = c0
  BY <1>3, <1>11, <1>12
<1>15. \A a \in Addr : m1[a].kind # "xt"
  <2> TAKE a \in Addr
  <2>1. m1[a] \in {c0, c1, w[a]}
    BY <1>11, <1>12
  <2> QED
    BY <2>1, <1>5, <1>10
<1>16. BootMem[BaseCfa + 1].kind = "exit"
  BY <1>5, <1>6, <1>12 DEF b
<1> QED
  BY <1>5, <1>6, <1>8, <1>9, <1>12, <1>13, <1>14, <1>15, <1>16

LEMMA RestartTypes ==
  ASSUME Restarts, hidden' = {}, immed' = {}, state' = 0, report' = "ok",
         trapped' = FALSE
  PROVE  TypeOK'
<1>1. /\ DataStart \in Nat /\ MemTop \in Nat /\ DataStart <= MemTop
      /\ BaseHeader = 1
  BY BootFacts
<1>2. BaseHeader \in Addr
  BY <1>1, BootFacts DEF Addr
<1>3. DataStart \in DataStart..(MemTop + 1)
  BY <1>1
<1> QED
  BY <1>2, <1>3, BootMemFacts DEF Restarts, TypeOK

(* Every step keeps the types and is of one of the four kinds.             *)
LEMMA NextStep ==
  ASSUME IInv, [Next]_vars
  PROVE  /\ TypeOK'
         /\ \/ Extends
            \/ \E n \in Names : GrowsBy(n)
            \/ Shrinks
            \/ Restarts /\ trapped
<1> DEFINE Goal == /\ TypeOK'
                   /\ \/ Extends
                      \/ \E n \in Names : GrowsBy(n)
                      \/ Shrinks
                      \/ Restarts /\ trapped
<1>0. /\ hidden \subseteq Addr /\ immed \subseteq Addr /\ live \subseteq Addr
      /\ latest \in Addr /\ state \in {0, 1} /\ trapped \in BOOLEAN
      /\ report \in {"ok", "error", "full"}
  BY TypeFacts
<1>1. ASSUME NEW n \in Names, Colon(n) PROVE Goal
  BY <1>1, ColonStep
<1>2. ASSUME NEW n \in Names, Constant(n) PROVE Goal
  BY <1>2, ConstantStep
<1>3. ASSUME NEW n \in Names, Create(n) PROVE Goal
  BY <1>3, CreateStep
<1>4. ASSUME NEW n \in Names, Forget(n) PROVE Goal
  BY <1>4, ForgetStep
<1>5. ASSUME NEW t \in Tokens, CompileWord(t) PROVE Goal
  <2>1. PICK h \in live : CompileCell(Cell("xt", TCFA(h)))
    BY <1>5 DEF CompileWord
  <2> QED
    BY <2>1, CompileStep
<1>6. ASSUME NEW t \in Tokens, BracketCompile(t) PROVE Goal
  <2>1. PICK h \in live : CompileCell(Cell("xt", TCFA(h)))
    BY <1>6 DEF BracketCompile
  <2> QED
    BY <2>1, CompileStep
<1>7. ASSUME Recurse PROVE Goal
  <2>1. latest \in live /\ CompileCell(Cell("xt", TCFA(latest)))
    BY <1>7 DEF Recurse, IInv, ChainSound
  <2> QED
    BY <2>1, CompileStep
<1>8. ASSUME Semicolon PROVE Goal
  BY <1>8, SemicolonStep
<1>9. ASSUME CompileNumber PROVE Goal
  BY <1>9, CompileNumberStep
<1>10. ASSUME NEW t \in Tokens, ExecuteWord(t) PROVE Goal
  BY <1>0, <1>10, QuietStep DEF ExecuteWord
<1>11. ASSUME NEW t \in Tokens, UnknownWord(t) PROVE Goal
  BY <1>0, <1>11, QuietStep DEF UnknownWord
<1>12. ASSUME NEW t \in Tokens, NullReference(t) PROVE Goal
  BY <1>0, <1>12, QuietStep DEF NullReference
<1>13. ASSUME NEW t \in Tokens, Hide(t) PROVE Goal
  <2>1. PICK h \in live : hidden' = Toggle(hidden, h)
    BY <1>13 DEF Hide
  <2>2. hidden' \subseteq Addr
    BY <1>0, <2>1, ToggleFacts
  <2> QED
    BY <1>0, <1>13, <2>2, QuietStep DEF Hide
<1>14. ASSUME Immediate PROVE Goal
  <2>1. immed' \subseteq Addr
    BY <1>0, <1>14, ToggleFacts DEF Immediate
  <2> QED
    BY <1>0, <1>14, <2>1, QuietStep DEF Immediate
<1>15. ASSUME LBrac PROVE Goal
  BY <1>0, <1>15, QuietStep DEF LBrac
<1>16. ASSUME RBrac PROVE Goal
  BY <1>0, <1>16, QuietStep DEF RBrac
<1>17. ASSUME Reboot PROVE Goal
  <2>1. Restarts /\ trapped
    BY <1>17 DEF Reboot, Restarts
  <2> QED
    BY <1>17, <2>1, RestartTypes DEF Reboot
<1>18. ASSUME UNCHANGED vars PROVE Goal
  BY <1>0, <1>18, QuietStep DEF vars
<1> HIDE DEF Goal
<1>19. Goal
  BY <1>1, <1>2, <1>3, <1>4, <1>5, <1>6, <1>7, <1>8, <1>9, <1>10, <1>11,
     <1>12, <1>13, <1>14, <1>15, <1>16, <1>17, <1>18 DEF Next
<1> QED
  BY <1>19 DEF Goal

-----------------------------------------------------------------------------
(* The inductive invariant.                                                *)

LEMMA RestartKeeps ==
  ASSUME Restarts
  PROVE  ChainSound' /\ BaseKept'
<1>1. /\ mem'[BaseHeader] = Cell("link", NULL)
      /\ mem'[BaseHeader + 1] = Cell("name", BaseWord)
      /\ live' = {BaseHeader} /\ latest' = BaseHeader /\ dp' = DataStart
  BY BootMemFacts DEF Restarts
<1>2. /\ BaseHeader = 1 /\ BaseWord \in Tokens
      /\ BaseCfa \in Nat /\ BaseCfa >= 3 /\ DataStart = BaseCfa + 2
      /\ BaseCfa = BaseHeader + HeaderCells(NameLen[BaseWord])
  BY BootFacts
<1>3. /\ mem'[BaseHeader].kind = "link" /\ mem'[BaseHeader].arg = NULL
      /\ mem'[BaseHeader + 1].kind = "name"
      /\ mem'[BaseHeader + 1].arg = BaseWord
  BY <1>1 DEF Cell
<1>4. HeaderEnd(BaseHeader)' = BaseCfa
  BY <1>2, <1>3 DEF HeaderEnd
<1>5. LinkDescends(BaseHeader)'
  BY <1>1, <1>2, <1>3 DEF LinkDescends, NULL
<1>6. ChainSound'
  BY <1>1, <1>2, <1>3, <1>4, <1>5 DEF ChainSound
<1>7. BaseKept'
  BY <1>1, <1>3 DEF BaseKept
<1> QED
  BY <1>6, <1>7

LEMMA ExtendsKeeps ==
  ASSUME IInv, TypeOK', Extends
  PROVE  ChainSound' /\ BaseKept'
<1>1. /\ dp' \in Nat /\ dp' >= dp /\ live' = live /\ latest' = latest
      /\ \A a \in Addr : a < dp => mem'[a] = mem[a]
  BY BootFacts DEF TypeOK, Extends
<1>2. ChainSound'
  BY <1>1, ChainFrame
<1>3. BaseHeader \in live /\ mem[BaseHeader + 1].arg = BaseWord
      /\ \A h \in live : h = BaseHeader \/ h >= DataStart
  BY DEF IInv, BaseKept
<1>4. BaseHeader + 1 \in Addr /\ BaseHeader + 1 < dp
  BY <1>3, HeaderFacts
<1>5. mem'[BaseHeader + 1] = mem[BaseHeader + 1]
  BY <1>1, <1>4
<1> QED
  BY <1>1, <1>2, <1>3, <1>5 DEF BaseKept

LEMMA GrowsKeeps ==
  ASSUME IInv, TypeOK', NEW n \in Names, GrowsBy(n)
  PROVE  ChainSound' /\ BaseKept'
<1>1. dp' \in Nat /\ n \in Tokens
  BY BootFacts DEF TypeOK, Tokens
<1>2. /\ dp \in Addr /\ dp + 1 \in Addr
      /\ dp + HeaderCells(NameLen[n]) < dp'
      /\ live' = live \cup {dp} /\ latest' = dp
      /\ \A a \in Addr : a < dp => mem'[a] = mem[a]
      /\ mem'[dp] = Cell("link", latest) /\ mem'[dp + 1] = Cell("name", n)
  BY DEF GrowsBy
<1>3. ChainSound'
  BY <1>1, <1>2, ChainGrows
<1>4. BaseHeader \in live /\ mem[BaseHeader + 1].arg = BaseWord
      /\ \A h \in live : h = BaseHeader \/ h >= DataStart
  BY DEF IInv, BaseKept
<1>5. BaseHeader + 1 \in Addr /\ BaseHeader + 1 < dp /\ dp >= DataStart
  BY <1>4, HeaderFacts, TypeFacts
<1>6. mem'[BaseHeader + 1] = mem[BaseHeader + 1]
  BY <1>2, <1>5
<1> QED
  BY <1>2, <1>3, <1>4, <1>5, <1>6 DEF BaseKept

LEMMA ShrinksKeeps ==
  ASSUME IInv, Shrinks
  PROVE  ChainSound' /\ BaseKept'
<1>1. PICK g \in live : /\ g # BaseHeader /\ mem[g].arg # NULL
                        /\ dp' = g /\ latest' = mem[g].arg
                        /\ live' = {f \in live : f < g}
                        /\ mem' = mem
  BY DEF Shrinks
<1>2. ChainSound'
  BY <1>1, ChainShrinks
<1>3. BaseHeader \in live /\ mem[BaseHeader + 1].arg = BaseWord
      /\ \A h \in live : h = BaseHeader \/ h >= DataStart
  BY DEF IInv, BaseKept
<1>4. g >= DataStart /\ g \in Nat /\ DataStart \in Nat /\ BaseHeader = 1
      /\ DataStart > BaseHeader
  BY <1>1, <1>3, HeaderFacts, BootFacts
<1>5. BaseHeader \in live'
  BY <1>1, <1>3, <1>4
<1> QED
  BY <1>1, <1>2, <1>3, <1>5 DEF BaseKept

LEMMA IInvInit == Init => IInv
<1> SUFFICES ASSUME Init PROVE IInv
  OBVIOUS
<1>1. /\ mem = BootMem /\ dp = DataStart
      /\ live = {BaseHeader} /\ latest = BaseHeader
      /\ hidden = {} /\ immed = {} /\ state = 0 /\ report = "ok"
      /\ trapped = FALSE
  BY DEF Init
<1>2. /\ BaseHeader = 1 /\ BaseWord \in Tokens
      /\ BaseCfa \in Nat /\ BaseCfa >= 3 /\ DataStart = BaseCfa + 2
      /\ BaseCfa = BaseHeader + HeaderCells(NameLen[BaseWord])
      /\ DataStart <= MemTop /\ MemTop \in Nat /\ DataStart \in Nat
  BY BootFacts
<1>3. /\ mem[BaseHeader].kind = "link" /\ mem[BaseHeader].arg = NULL
      /\ mem[BaseHeader + 1].kind = "name"
      /\ mem[BaseHeader + 1].arg = BaseWord
      /\ mem \in Memory
  BY <1>1, BootMemFacts DEF Cell
<1>4. HeaderEnd(BaseHeader) = BaseCfa
  BY <1>2, <1>3 DEF HeaderEnd
<1>5. LinkDescends(BaseHeader)
  BY <1>1, <1>2, <1>3 DEF LinkDescends, NULL
<1>6. ChainSound
  BY <1>1, <1>2, <1>3, <1>4, <1>5 DEF ChainSound
<1>7. BaseKept
  BY <1>1, <1>3 DEF BaseKept
<1>8. BaseHeader \in Addr /\ DataStart \in DataStart..(MemTop + 1)
  BY <1>2 DEF Addr
<1>9. TypeOK
  BY <1>1, <1>3, <1>8 DEF TypeOK
<1> QED
  BY <1>6, <1>7, <1>9 DEF IInv

LEMMA IInvStep == IInv /\ [Next]_vars => IInv'
<1> SUFFICES ASSUME IInv, [Next]_vars PROVE IInv'
  OBVIOUS
<1>1. /\ TypeOK'
      /\ \/ Extends
         \/ \E n \in Names : GrowsBy(n)
         \/ Shrinks
         \/ Restarts /\ trapped
  BY NextStep
<1>2. ChainSound' /\ BaseKept'
  BY <1>1, ExtendsKeeps, GrowsKeeps, ShrinksKeeps, RestartKeeps
<1> QED
  BY <1>1, <1>2 DEF IInv

THEOREM InvariantHolds == Spec => []IInv
BY IInvInit, IInvStep, PTL DEF Spec

(* Every variable keeps its type, whatever is typed.                       *)
THEOREM TypeCorrect == Spec => []TypeOK
<1>1. IInv => TypeOK
  BY DEF IInv
<1> QED
  BY <1>1, InvariantHolds, PTL

(* HEADER, , and FORGET keep the list (FIND) walks well formed.            *)
THEOREM ChainIsSound == Spec => []ChainSound
<1>1. IInv => ChainSound
  BY DEF IInv
<1> QED
  BY <1>1, InvariantHolds, PTL

-----------------------------------------------------------------------------
(* References.  A name of 32 characters loses its length in the length     *)
(* byte, so what follows is about vocabularies of shorter names.           *)

ShortNames == \A t \in Tokens : NameLen[t] <= 31

(* Every header is followed by its codeword; without this conjunct the     *)
(* invariant says nothing of the word a new reference leads to.            *)
CodewordsInPlace == \A h \in live : IsCodeword(HeaderEnd(h))

RefInv == IInv /\ CodewordsInPlace /\ NoDanglingReference

LEMMA RangeFacts ==
  ASSUME NEW d \in Nat
  PROVE  \A x \in BaseHeader..(d - 1) : x \in Nat /\ x >= 1 /\ x < d
BY DEF BaseHeader

LEMMA ShortNamesFacts ==
  ASSUME ShortNames, IInv, NEW h \in live
  PROVE  TCFA(h) = HeaderEnd(h)
BY HeaderFacts, StoredLenFacts DEF ShortNames, TCFA, HeaderEnd

LEMMA ExtendsReferences ==
  ASSUME ShortNames, RefInv, TypeOK', Extends
  PROVE  CodewordsInPlace' /\ NoDanglingReference'
<1>1. IInv /\ CodewordsInPlace /\ NoDanglingReference
  BY DEF RefInv
<1>2. dp \in Nat /\ dp <= MemTop + 1 /\ MemTop \in Nat
  BY <1>1, TypeFacts, BootFacts
<1>3. dp' \in Nat /\ dp' <= MemTop + 1 /\ dp' >= dp
      /\ live' = live
  BY BootFacts DEF TypeOK, Extends
<1>4. \A a \in Addr : a < dp => mem'[a] = mem[a]
  BY DEF Extends
<1>5. ASSUME NEW h \in live
      PROVE  /\ HeaderEnd(h)' = HeaderEnd(h)
             /\ IsCodeword(HeaderEnd(h))'
             /\ h \in Nat /\ h + 1 < dp
  <2>1. /\ h + 1 \in Addr /\ h + 1 < dp /\ h \in Nat
        /\ HeaderEnd(h) \in Addr /\ HeaderEnd(h) < dp
    BY <1>1, <1>5, HeaderFacts
  <2>2. mem'[h + 1] = mem[h + 1]
    BY <2>1, <1>4
  <2>3. HeaderEnd(h)' = HeaderEnd(h)
    BY <2>2 DEF HeaderEnd
  <2>4. HeaderEnd(h) < dp'
    BY <2>1, <1>2, <1>3 DEF Addr
  <2>5. mem[HeaderEnd(h)].kind \in {"docol", "dodoes"}
    BY <1>1, <1>5 DEF CodewordsInPlace, IsCodeword
  <2>6. mem'[HeaderEnd(h)] = mem[HeaderEnd(h)]
    BY <2>1, <1>4
  <2> QED
    BY <2>1, <2>3, <2>4, <2>5, <2>6 DEF IsCodeword
<1>6. CodewordsInPlace'
  BY <1>3, <1>5 DEF CodewordsInPlace
<1>7. ASSUME NEW a \in BaseHeader..(dp' - 1), mem'[a].kind = "xt"
      PROVE  \E h \in live' : /\ h < a
                              /\ mem'[a].arg = HeaderEnd(h)'
                              /\ IsCodeword(HeaderEnd(h))'
  <2>1. a \in Nat /\ a >= 1 /\ a < dp' /\ a \in Addr
    <3>1. dp' \in Nat
      BY <1>3
    <3>2. a \in Nat /\ a >= 1 /\ a < dp'
      BY <3>1, RangeFacts
    <3> QED
      BY <1>2, <1>3, <3>2 DEF Addr
  <2>2. CASE a < dp
    <3>1. a \in BaseHeader..(dp - 1) /\ mem[a].kind = "xt" /\ mem'[a] = mem[a]
      BY <1>2, <1>4, <1>7, <2>1, <2>2, BootFacts
    <3>2. PICK h \in live : h < a /\ mem[a].arg = HeaderEnd(h)
      BY <1>1, <3>1 DEF NoDanglingReference
    <3> QED
      BY <1>3, <1>5, <3>1, <3>2
  <2>3. CASE ~(a < dp)
    <3>1. PICK h \in live : mem'[a].arg = TCFA(h)
      BY <1>2, <1>7, <2>1, <2>3 DEF Extends
    <3>2. TCFA(h) = HeaderEnd(h)
      BY <1>1, ShortNamesFacts
    <3>3. h < a
      BY <1>2, <1>5, <2>1, <2>3
    <3> QED
      BY <1>3, <1>5, <3>1, <3>2, <3>3
  <2> QED
    BY <2>2, <2>3
<1>8. NoDanglingReference'
  BY <1>7 DEF NoDanglingReference
<1> QED
  BY <1>6, <1>8

LEMMA GrowsReferences ==
  ASSUME RefInv, TypeOK', NEW n \in Names, GrowsBy(n)
  PROVE  CodewordsInPlace' /\ NoDanglingReference'
<1>1. IInv /\ CodewordsInPlace /\ NoDanglingReference
  BY DEF RefInv
<1>2. dp \in Nat /\ dp <= MemTop + 1 /\ MemTop \in Nat
  BY <1>1, TypeFacts, BootFacts
<1>3. dp' \in Nat /\ dp' <= MemTop + 1
  BY BootFacts DEF TypeOK
<1>4. /\ dp \in Addr /\ dp + HeaderCells(NameLen[n]) < dp'
      /\ live' = live \cup {dp}
      /\ mem'[dp + 1] = Cell("name", n)
      /\ mem'[dp + HeaderCells(NameLen[n])].kind \in {"docol", "dodoes"}
  BY DEF GrowsBy
<1>5. \A a \in Addr : a < dp => mem'[a] = mem[a]
  BY DEF GrowsBy
<1>6. \A a \in Addr : dp <= a /\ a < dp' => mem'[a].kind # "xt"
  BY DEF GrowsBy
<1>7. HeaderCells(NameLen[n]) \in Nat
  BY StoredLenFacts DEF Tokens
<1>8. ASSUME NEW h \in live
      PROVE  /\ HeaderEnd(h)' = HeaderEnd(h)
             /\ IsCodeword(HeaderEnd(h))'
  <2>1. /\ h + 1 \in Addr /\ h + 1 < dp /\ h \in Nat
        /\ HeaderEnd(h) \in Addr /\ HeaderEnd(h) < dp
    BY <1>1, <1>8, HeaderFacts
  <2>2. mem'[h + 1] = mem[h + 1]
    BY <2>1, <1>5
  <2>3. HeaderEnd(h)' = HeaderEnd(h)
    BY <2>2 DEF HeaderEnd
  <2>4. HeaderEnd(h) < dp'
    BY <2>1, <1>2, <1>3, <1>4, <1>7 DEF Addr
  <2>5. mem[HeaderEnd(h)].kind \in {"docol", "dodoes"}
    BY <1>1, <1>8 DEF CodewordsInPlace, IsCodeword
  <2>6. mem'[HeaderEnd(h)] = mem[HeaderEnd(h)]
    BY <2>1, <1>5
  <2> QED
    BY <2>3, <2>4, <2>5, <2>6 DEF IsCodeword
<1>9. ASSUME NEW h \in live', h = dp
      PROVE  IsCodeword(HeaderEnd(h))'
  <2>1. mem'[h + 1].arg = n
    BY <1>4, <1>9 DEF Cell
  <2>2. HeaderEnd(h)' = dp + HeaderCells(NameLen[n])
    BY <1>9, <2>1 DEF HeaderEnd
  <2> QED
    BY <1>4, <2>2 DEF IsCodeword
<1>10. CodewordsInPlace'
  BY <1>4, <1>8, <1>9 DEF CodewordsInPlace
<1>11. ASSUME NEW a \in BaseHeader..(dp' - 1), mem'[a].kind = "xt"
       PROVE  \E h \in live' : /\ h < a
                               /\ mem'[a].arg = HeaderEnd(h)'
                               /\ IsCodeword(HeaderEnd(h))'
  <2>1. a \in Nat /\ a >= 1 /\ a < dp' /\ a \in Addr
    <3>1. dp' \in Nat
      BY <1>3
    <3>2. a \in Nat /\ a >= 1 /\ a < dp'
      BY <3>1, RangeFacts
    <3> QED
      BY <1>2, <1>3, <3>2 DEF Addr
  <2>2. a < dp
    BY <1>2, <1>6, <1>11, <2>1
  <2>3. a \in BaseHeader..(dp - 1) /\ mem[a].kind = "xt" /\ mem'[a] = mem[a]
    BY <1>2, <1>5, <1>11, <2>1, <2>2, BootFacts
  <2>4. PICK h \in live : h < a /\ mem[a].arg = HeaderEnd(h)
    BY <1>1, <2>3 DEF NoDanglingReference
  <2> QED
    BY <1>4, <1>8, <2>3, <2>4
<1>12. NoDanglingReference'
  BY <1>11 DEF NoDanglingReference
<1> QED
  BY <1>10, <1>12

LEMMA ShrinksReferences ==
  ASSUME RefInv, Shrinks
  PROVE  CodewordsInPlace' /\ NoDanglingReference'
<1>1. IInv /\ CodewordsInPlace /\ NoDanglingReference
  BY DEF RefInv
<1>2. PICK g \in live : dp' = g /\ live' = {f \in live : f < g} /\ mem' = mem
  BY DEF Shrinks
<1>3. g \in Nat /\ g + 1 < dp /\ dp \in Nat
  BY <1>1, HeaderFacts
<1>4. ASSUME NEW h \in live, h < g
      PROVE  HeaderEnd(h)' = HeaderEnd(h) /\ IsCodeword(HeaderEnd(h))'
  <2>1. HeaderEnd(h) < g
    BY <1>1, <1>4 DEF IInv, ChainSound
  <2>2. HeaderEnd(h)' = HeaderEnd(h)
    BY <1>2 DEF HeaderEnd
  <2>3. mem[HeaderEnd(h)].kind \in {"docol", "dodoes"}
    BY <1>1, <1>4 DEF CodewordsInPlace, IsCodeword
  <2> QED
    BY <1>2, <2>1, <2>2, <2>3 DEF IsCodeword
<1>5. CodewordsInPlace'
  BY <1>2, <1>4 DEF CodewordsInPlace
<1>6. ASSUME NEW a \in BaseHeader..(dp' - 1), mem'[a].kind = "xt"
      PROVE  \E h \in live' : /\ h < a
                              /\ mem'[a].arg = HeaderEnd(h)'
                              /\ IsCodeword(HeaderEnd(h))'
  <2>1. a \in Nat /\ a < g /\ a \in BaseHeader..(dp - 1) /\ mem[a].kind = "xt"
    BY <1>2, <1>3, <1>6, BootFacts
  <2>2. PICK h \in live : h < a /\ mem[a].arg = HeaderEnd(h)
    BY <1>1, <2>1 DEF NoDanglingReference
  <2>3. h < g
    BY <1>1, <1>3, <2>1, <2>2, HeaderFacts
  <2> QED
    BY <1>2, <1>4, <2>2, <2>3
<1>7. NoDanglingReference'
  BY <1>6 DEF NoDanglingReference
<1> QED
  BY <1>5, <1>7

LEMMA RestartReferences ==
  ASSUME Restarts, ChainSound'
  PROVE  CodewordsInPlace' /\ NoDanglingReference'
<1>1. mem' = BootMem /\ dp' = DataStart /\ live' = {BaseHeader}
  BY DEF Restarts
<1>2. /\ BaseCfa \in Nat /\ DataStart = BaseCfa + 2 /\ BaseHeader = 1
      /\ BaseCfa = BaseHeader + HeaderCells(NameLen[BaseWord])
      /\ DataStart \in Nat /\ DataStart <= MemTop /\ MemTop \in Nat
  BY BootFacts
<1>3. mem'[BaseHeader + 1].arg = BaseWord
  BY <1>1, BootMemFacts DEF Cell
<1>4. HeaderEnd(BaseHeader)' = BaseCfa
  BY <1>2, <1>3 DEF HeaderEnd
<1>5. CodewordsInPlace'
  BY <1>1, <1>2, <1>4, BootMemFacts DEF CodewordsInPlace, IsCodeword
<1>6. \A a \in BaseHeader..(dp' - 1) : mem'[a].kind # "xt"
  BY <1>1, <1>2, BootMemFacts DEF Addr
<1> QED
  BY <1>5, <1>6 DEF NoDanglingReference

LEMMA RefInvInit == Init => RefInv
<1> SUFFICES ASSUME Init PROVE RefInv
  OBVIOUS
<1>1. IInv
  BY IInvInit
<1>2. mem = BootMem /\ dp = DataStart /\ live = {BaseHeader}
  BY DEF Init
<1>3. /\ BaseCfa \in Nat /\ DataStart = BaseCfa + 2 /\ BaseHeader = 1
      /\ BaseCfa = BaseHeader + HeaderCells(NameLen[BaseWord])
      /\ DataStart \in Nat /\ DataStart <= MemTop /\ MemTop \in Nat
  BY BootFacts
<1>4. mem[BaseHeader + 1].arg = BaseWord
  BY <1>2, BootMemFacts DEF Cell
<1>5. HeaderEnd(BaseHeader) = BaseCfa
  BY <1>3, <1>4 DEF HeaderEnd
<1>6. CodewordsInPlace
  BY <1>2, <1>3, <1>5, BootMemFacts DEF CodewordsInPlace, IsCodeword
<1>7. \A a \in BaseHeader..(dp - 1) : mem[a].kind # "xt"
  BY <1>2, <1>3, BootMemFacts DEF Addr
<1> QED
  BY <1>1, <1>6, <1>7 DEF RefInv, NoDanglingReference

LEMMA RefInvStep == ASSUME ShortNames PROVE RefInv /\ [Next]_vars => RefInv'
<1> SUFFICES ASSUME RefInv, [Next]_vars PROVE RefInv'
  OBVIOUS
<1>1. IInv
  BY DEF RefInv
<1>2. /\ TypeOK'
      /\ \/ Extends
         \/ \E n \in Names : GrowsBy(n)
         \/ Shrinks
         \/ Restarts /\ trapped
  BY <1>1, NextStep
<1>3. IInv' /\ ChainSound'
  BY <1>1, IInvStep DEF IInv
<1>4. CodewordsInPlace' /\ NoDanglingReference'
  BY <1>2, <1>3, ExtendsReferences, GrowsReferences, ShrinksReferences,
     RestartReferences
<1> QED
  BY <1>3, <1>4 DEF RefInv

THEOREM ReferenceInvariant == ASSUME ShortNames PROVE Spec => []RefInv
BY RefInvInit, RefInvStep, PTL DEF Spec

(* Whatever is defined, redefined, hidden or forgotten, no cell below DP   *)
(* leads NEXT to memory that is free or reused.                            *)
THEOREM NothingDangles ==
  ASSUME ShortNames PROVE Spec => []NoDanglingReference
<1>1. RefInv => NoDanglingReference
  BY DEF RefInv
<1> QED
  BY <1>1, ReferenceInvariant, PTL

(* >CFA finds the codeword of every word (FIND) can return.                *)
THEOREM CodewordAlwaysFound ==
  ASSUME ShortNames PROVE Spec => []CodewordFound
<1>1. RefInv => CodewordFound
  <2> SUFFICES ASSUME RefInv, NEW t \in Tokens, NEW h \in live
               PROVE  IsCodeword(TCFA(h))
    BY DEF CodewordFound
  <2>1. TCFA(h) = HeaderEnd(h)
    BY ShortNamesFacts DEF RefInv
  <2> QED
    BY <2>1 DEF RefInv, CodewordsInPlace
<1> QED
  BY <1>1, ReferenceInvariant, PTL

LEMMA MeaningStep ==
  ASSUME RefInv, [Next]_vars, ~trapped,
         NEW a \in Addr, a < dp, a < dp', mem[a].kind = "xt"
  PROVE  /\ mem'[a] = mem[a]
         /\ \A h \in live : HeaderEnd(h) = mem[a].arg =>
               h \in live' /\ mem'[h + 1] = mem[h + 1]
<1>1. IInv /\ NoDanglingReference
  BY DEF RefInv
<1>2. Extends \/ (\E n \in Names : GrowsBy(n)) \/ Shrinks
  BY <1>1, NextStep
<1>3. CASE Extends \/ \E n \in Names : GrowsBy(n)
  <2>1. live \subseteq live' /\ \A x \in Addr : x < dp => mem'[x] = mem[x]
    BY <1>3 DEF Extends, GrowsBy
  <2>2. \A h \in live : h + 1 \in Addr /\ h + 1 < dp
    BY <1>1, HeaderFacts
  <2> QED
    BY <2>1, <2>2
<1>4. CASE Shrinks
  <2>1. PICK g \in live : dp' = g /\ live' = {f \in live : f < g} /\ mem' = mem
    BY <1>4 DEF Shrinks
  <2>2. a \in Nat /\ a >= 1 /\ dp \in Nat /\ g \in Nat
    BY <1>1, HeaderFacts DEF Addr
  <2>3. a \in BaseHeader..(dp - 1)
    BY <2>2, BootFacts
  <2>4. PICK k \in live : k < a /\ mem[a].arg = HeaderEnd(k)
    BY <1>1, <2>3 DEF NoDanglingReference
  <2>5. ASSUME NEW h \in live, HeaderEnd(h) = mem[a].arg PROVE h \in live'
    <3>1. /\ h \in Nat /\ k \in Nat
          /\ HeaderEnd(h) \in Nat /\ HeaderEnd(h) > h + 1
          /\ HeaderEnd(k) \in Nat /\ HeaderEnd(k) > k + 1
      BY <1>1, HeaderFacts DEF Addr
    <3>2. /\ h < k => HeaderEnd(h) < k
          /\ k < h => HeaderEnd(k) < h
      BY <1>1 DEF IInv, ChainSound
    <3>3. h = k
      BY <2>4, <2>5, <3>1, <3>2
    <3>4. h < g
      BY <2>1, <2>2, <2>4, <3>1, <3>3
    <3> QED
      BY <2>1, <3>4
  <2> QED
    BY <2>1, <2>5
<1> QED
  BY <1>2, <1>3, <1>4

(* A compiled reference keeps leading to the word it was compiled for,     *)
(* whatever is redefined, hidden or forgotten later.                       *)
THEOREM MeaningKept ==
  ASSUME ShortNames PROVE Spec => ReferencesKeepTheirMeaning
<1>1. RefInv /\ [Next]_vars =>
        [~trapped =>
           \A a \in Addr :
             a < dp /\ a < dp' /\ mem[a].kind = "xt" =>
               /\ mem'[a] = mem[a]
               /\ \A h \in live : HeaderEnd(h) = mem[a].arg =>
                     h \in live' /\ mem'[h + 1] = mem[h + 1]]_vars
  BY MeaningStep
<1> QED
  BY <1>1, ReferenceInvariant, PTL DEF Spec, ReferencesKeepTheirMeaning

-----------------------------------------------------------------------------
(* Finished words.                                                         *)

Complete(h) ==
  \E a \in Region(h) :
    \/ mem[a].kind = "exit"
    \/ a = HeaderEnd(h) /\ mem[a].kind = "dodoes"

(* VisibleComplete says nothing while DP is beyond the segment, and has to *)
(* hold again after FORGET: in the meantime only the newest word may be    *)
(* visible and unfinished, because HEADER, makes no header there.          *)
OlderComplete ==
  \A h \in live \ hidden :
    h # latest \/ dp <= DataEnd + 1 => Complete(h)

VisInv == IInv /\ OlderComplete

LEMMA InRange ==
  ASSUME NEW lo \in Nat, NEW d \in Nat, NEW x \in Nat, lo <= x, x < d
  PROVE  x \in lo..(d - 1)
OBVIOUS

(* A finished word stays finished when cells or a header follow it,        *)
LEMMA CompleteKept ==
  ASSUME IInv, TypeOK', NEW h \in live, Complete(h),
         Extends \/ \E n \in Names : GrowsBy(n)
  PROVE  Complete(h)'
<1>1. PICK a \in Region(h) :
        \/ mem[a].kind = "exit"
        \/ a = HeaderEnd(h) /\ mem[a].kind = "dodoes"
  BY DEF Complete
<1>2. dp \in Nat /\ dp' \in Nat /\ h + 1 \in Addr /\ h + 1 < dp
      /\ HeaderEnd(h) \in Nat /\ HeaderEnd(h) >= 1 /\ dp <= MemTop + 1
      /\ MemTop \in Nat
  BY HeaderFacts, BootFacts DEF TypeOK, Addr
<1>3. a \in Nat /\ HeaderEnd(h) <= a /\ a < dp /\ a \in Addr
  BY <1>1, <1>2 DEF Region, Addr
<1>4. dp' >= dp
  BY <1>2, StoredLenFacts DEF Extends, GrowsBy, Tokens
<1>5. \A f \in live' : f \in live \/ f = dp
  BY DEF Extends, GrowsBy
<1>6. mem'[a] = mem[a] /\ mem'[h + 1] = mem[h + 1]
  BY <1>2, <1>3 DEF Extends, GrowsBy
<1>7. HeaderEnd(h)' = HeaderEnd(h)
  BY <1>6 DEF HeaderEnd
<1>8. \A f \in live' : h < f => a < f
  BY <1>1, <1>3, <1>5 DEF Region
<1>9. a \in Region(h)'
  <2>1. dp' \in Nat /\ a \in Nat /\ a < dp'
    BY <1>2, <1>3, <1>4
  <2>2. a \in HeaderEnd(h)'..(dp' - 1)
    BY <1>2, <1>3, <1>7, <2>1, InRange
  <2> QED
    BY <1>8, <2>2 DEF Region
<1> QED
  BY <1>1, <1>6, <1>7, <1>9 DEF Complete

(* and when the words after it are forgotten.                              *)
LEMMA CompleteSurvives ==
  ASSUME IInv, NEW g \in live, NEW h \in live, h < g, Complete(h),
         dp' = g, live' = {f \in live : f < g}, mem' = mem
  PROVE  Complete(h)'
<1>1. PICK a \in Region(h) :
        \/ mem[a].kind = "exit"
        \/ a = HeaderEnd(h) /\ mem[a].kind = "dodoes"
  BY DEF Complete
<1>2. g \in Nat /\ dp \in Nat /\ HeaderEnd(h) \in Nat
  BY HeaderFacts DEF Addr
<1>3. a \in Nat /\ HeaderEnd(h) <= a /\ a < g
  BY <1>1, <1>2 DEF Region
<1>4. HeaderEnd(h)' = HeaderEnd(h)
  BY DEF HeaderEnd
<1>5. a \in Region(h)'
  BY <1>1, <1>2, <1>3, <1>4 DEF Region
<1> QED
  BY <1>1, <1>4, <1>5 DEF Complete

(* A step that reveals no word.                                            *)
LEMMA QuietlyComplete ==
  ASSUME VisInv, TypeOK', Extends, hidden \cap live \subseteq hidden'
  PROVE  OlderComplete'
<1>1. IInv /\ OlderComplete
  BY DEF VisInv
<1>2. dp' >= dp /\ live' = live /\ latest' = latest
  BY DEF Extends
<1>4. dp \in Nat /\ dp' \in Nat /\ DataEnd \in Nat
  <2>1. dp \in Nat
    BY <1>1, TypeFacts
  <2>2. dp' \in Nat
    BY BootFacts DEF TypeOK
  <2>3. DataEnd \in Nat
    BY BootFacts DEF DataEnd
  <2> QED
    BY <2>1, <2>2, <2>3
<1>3. ASSUME NEW h \in live' \ hidden', h # latest' \/ dp' <= DataEnd + 1
      PROVE  Complete(h)'
  <2>1. h \in live \ hidden /\ (h # latest \/ dp <= DataEnd + 1)
    BY <1>2, <1>3, <1>4
  <2>2. Complete(h)
    BY <1>1, <2>1 DEF OlderComplete
  <2> QED
    BY <1>1, <2>1, <2>2, CompleteKept
<1> QED
  BY <1>3 DEF OlderComplete, DataEnd, DataStart, BaseCfa

(* ; makes the newest word visible only with its EXIT.                     *)
LEMMA SemicolonComplete ==
  ASSUME VisInv, Semicolon
  PROVE  OlderComplete'
<1>1. IInv /\ OlderComplete
  BY DEF VisInv
<1>2. /\ TypeOK' /\ Extends /\ mem'[dp].kind = "exit" /\ dp' = dp + 1
      /\ hidden' = Toggle(hidden, latest) /\ live' = live /\ latest' = latest
  BY <1>1, SemicolonStep DEF Semicolon
<1>3. latest \in live /\ dp \in Nat
  BY <1>1, TypeFacts DEF IInv, ChainSound
<1>4. ASSUME NEW h \in live, h = latest PROVE Complete(h)'
  <2>1. /\ h \in Nat /\ h + 1 \in Addr /\ h + 1 < dp
        /\ HeaderEnd(h) \in Nat /\ HeaderEnd(h) < dp
    BY <1>1, HeaderFacts DEF Addr
  <2>2. mem'[h + 1] = mem[h + 1]
    BY <1>2, <2>1 DEF Extends
  <2>3. HeaderEnd(h)' = HeaderEnd(h)
    BY <2>2 DEF HeaderEnd
  <2>4. \A f \in live' : ~(h < f)
    BY <1>1, <1>2, <1>4, <2>1, HeaderFacts
  <2>5. dp \in HeaderEnd(h)..(dp' - 1)
    BY <1>2, <1>3, <2>1
  <2>6. dp \in HeaderEnd(h)'..(dp' - 1)
    BY <2>3, <2>5
  <2>7. \E a \in Region(h)' : a = dp
    BY <2>4, <2>6 DEF Region
  <2> QED
    BY <1>2, <2>7 DEF Complete
<1>5. ASSUME NEW h \in live' \ hidden', h # latest
      PROVE  Complete(h)'
  <2>1. h \in live \ hidden
    BY <1>2, <1>5 DEF Toggle
  <2>2. Complete(h)
    BY <1>1, <1>5, <2>1 DEF OlderComplete
  <2> QED
    BY <1>1, <1>2, <2>1, <2>2, CompleteKept
<1>6. ASSUME NEW h \in live' \ hidden' PROVE Complete(h)'
  BY <1>2, <1>4, <1>5
<1> QED
  BY <1>6 DEF OlderComplete

(* HEADER, makes room for a word the caller hides or finishes, or none.    *)
LEMMA HeaderKind ==
  ASSUME IInv, NEW n \in Names, Extends \/ GrowsBy(n),
         live' = HeaderLive, latest' = HeaderLatest
  PROVE  IF Room THEN GrowsBy(n) ELSE Extends
<1>1. latest \in live /\ \A h \in live : h \in Nat /\ h + 1 < dp
  BY HeaderFacts DEF IInv, ChainSound
<1>2. dp \in Nat
  BY TypeFacts
<1>3. dp \notin live /\ latest # dp
  BY <1>1, <1>2
<1>4. CASE Room
  <2>1. live' = live \cup {dp}
    BY <1>4 DEF HeaderLive
  <2> QED
    BY <1>3, <1>4, <2>1 DEF Extends
<1>5. CASE ~Room
  <2>1. latest' = latest
    BY <1>5 DEF HeaderLatest
  <2> QED
    BY <1>3, <1>5, <2>1 DEF GrowsBy
<1> QED
  BY <1>4, <1>5

LEMMA HeaderComplete ==
  ASSUME ShortNames, VisInv, TypeOK', NEW n \in Names,
         Extends \/ GrowsBy(n), dp' > HeaderDp(n), live' = HeaderLive,
         latest' = HeaderLatest,
         HeaderHidden(n) \ {HeaderLatest} \subseteq hidden',
         Room => \A h \in live' : h = dp => h \in hidden' \/ Complete(h)'
  PROVE  OlderComplete'
<1>1. IInv /\ OlderComplete
  BY DEF VisInv
<1>2. dp \in Nat /\ dp' \in Nat /\ DataEnd \in Nat
      /\ DataEnd + 1 = DataStart + SegCells
      /\ DataStart \in Nat /\ SegCells \in Nat
  <2>1. dp \in Nat
    BY <1>1, TypeFacts
  <2>2. dp' \in Nat
    BY BootFacts DEF TypeOK
  <2>3. DataEnd \in Nat /\ DataEnd + 1 = DataStart + SegCells
    BY BootFacts DEF DataEnd
  <2> QED
    BY <2>1, <2>2, <2>3, BootFacts
<1>3. \A h \in live : h \in Nat /\ h + 1 < dp
  BY <1>1, HeaderFacts
<1>4. n \in Tokens /\ ~BornHidden(n)
  <2>1. n \in Tokens /\ NameLen[n] \in 1..32 /\ NameLen[n] <= 31
    BY DictionaryAssumption DEF Tokens, ShortNames
  <2> QED
    BY <2>1 DEF BornHidden
<1>5. ASSUME NEW h \in live' \ hidden', h # latest' \/ dp' <= DataEnd + 1
      PROVE  Complete(h)'
  <2>1. CASE Room
    <3>1. dp < DataEnd + 1 /\ live' = live \cup {dp} /\ latest' = dp
      BY <1>2, <2>1 DEF Room, HeaderLive, HeaderLatest
    <3>4. hidden \ {dp} \subseteq hidden'
      BY <1>4, <2>1 DEF HeaderLatest, HeaderHidden
    <3>2. CASE h = dp
      BY <1>5, <2>1, <3>2
    <3>3. CASE h # dp
      <4>1. h \in live \ hidden
        BY <1>5, <3>1, <3>3, <3>4
      <4>2. dp <= DataEnd + 1
        BY <1>2, <3>1
      <4>3. Complete(h)
        BY <1>1, <4>1, <4>2 DEF OlderComplete
      <4> QED
        BY <1>1, <4>1, <4>3, CompleteKept
    <3> QED
      BY <3>2, <3>3
  <2>2. CASE ~Room
    <3>1. /\ HeaderDp(n) = dp /\ HeaderLatest = latest /\ HeaderLive = live
          /\ HeaderHidden(n) = hidden
      BY <1>1, <2>2, HeaderWithoutRoom
    <3>2. ~(dp' <= DataEnd + 1)
      BY <1>2, <2>2, <3>1 DEF Room
    <3>3. h # latest /\ h \in live \ hidden
      BY <1>5, <3>1, <3>2
    <3>4. Complete(h)
      BY <1>1, <3>3 DEF OlderComplete
    <3> QED
      BY <1>1, <3>3, <3>4, CompleteKept
  <2> QED
    BY <2>1, <2>2
<1> QED
  BY <1>5 DEF OlderComplete, DataEnd, DataStart, BaseCfa

(* An older word is not touched by FORGET, and the newest is never older.  *)
LEMMA ForgetComplete ==
  ASSUME VisInv, Shrinks, hidden' = hidden
  PROVE  OlderComplete'
<1>1. IInv /\ OlderComplete
  BY DEF VisInv
<1>2. PICK g \in live : dp' = g /\ live' = {f \in live : f < g} /\ mem' = mem
  BY DEF Shrinks
<1>3. ASSUME NEW h \in live' \ hidden' PROVE Complete(h)'
  <2>1. h \in live \ hidden /\ h < g
    BY <1>2, <1>3
  <2>2. h # latest
    BY <1>1, <2>1, HeaderFacts
  <2>3. Complete(h)
    BY <1>1, <2>1, <2>2 DEF OlderComplete
  <2> QED
    BY <1>1, <1>2, <2>1, <2>3, CompleteSurvives
<1> QED
  BY <1>3 DEF OlderComplete

LEMMA BootComplete ==
  /\ Init => OlderComplete
  /\ Restarts => OlderComplete'
<1>1. /\ BaseCfa \in Nat /\ DataStart = BaseCfa + 2 /\ BaseHeader = 1
      /\ BaseCfa = BaseHeader + HeaderCells(NameLen[BaseWord])
  BY BootFacts
<1>2. BootMem[BaseHeader + 1].arg = BaseWord
  BY BootMemFacts DEF Cell
<1>3. BootMem[BaseCfa + 1].kind = "exit"
  BY BootMemFacts
<1>4. ASSUME Init PROVE OlderComplete
  <2>1. mem = BootMem /\ dp = DataStart /\ live = {BaseHeader}
    BY <1>4 DEF Init
  <2>2. HeaderEnd(BaseHeader) = BaseCfa
    BY <1>1, <1>2, <2>1 DEF HeaderEnd
  <2>3. BaseCfa + 1 \in Region(BaseHeader)
    BY <1>1, <2>1, <2>2 DEF Region
  <2>4. Complete(BaseHeader)
    BY <1>3, <2>1, <2>3 DEF Complete
  <2> QED
    BY <2>1, <2>4 DEF OlderComplete
<1>5. ASSUME Restarts PROVE OlderComplete'
  <2>1. mem' = BootMem /\ dp' = DataStart /\ live' = {BaseHeader}
    BY <1>5 DEF Restarts
  <2>2. HeaderEnd(BaseHeader)' = BaseCfa
    BY <1>1, <1>2, <2>1 DEF HeaderEnd
  <2>3. BaseCfa + 1 \in Region(BaseHeader)'
    BY <1>1, <2>1, <2>2 DEF Region
  <2>4. Complete(BaseHeader)'
    BY <1>3, <2>1, <2>3 DEF Complete
  <2> QED
    BY <2>1, <2>4 DEF OlderComplete
<1> QED
  BY <1>4, <1>5

LEMMA VisInvStep == ASSUME ShortNames PROVE VisInv /\ [Next]_vars => VisInv'
<1> SUFFICES ASSUME VisInv, [Next]_vars PROVE VisInv'
  OBVIOUS
<1>1. IInv
  BY DEF VisInv
<1>2. IInv' /\ TypeOK'
  BY <1>1, IInvStep DEF IInv
<1>3. /\ hidden \subseteq Addr /\ latest \in live
  BY <1>1, TypeFacts DEF IInv, ChainSound
<1>4. ASSUME NEW n \in Names, Colon(n) PROVE OlderComplete'
  <2>1. /\ dp' = HeaderDp(n) + 1 /\ live' = HeaderLive /\ latest' = HeaderLatest
        /\ hidden' = Toggle(HeaderHidden(n), HeaderLatest)
    BY <1>4 DEF Colon
  <2>2. Extends \/ GrowsBy(n)
    BY <1>1, <1>4, ColonStep
  <2>3. HeaderDp(n) \in Nat
    BY <1>1, TypeFacts, StoredLenFacts DEF HeaderDp, Tokens
  <2>4. HeaderHidden(n) \ {HeaderLatest} \subseteq hidden'
    BY <2>1 DEF Toggle
  <2>5. Room => \A h \in live' : h = dp => h \in hidden'
    <3>1. ~BornHidden(n)
      <4>1. NameLen[n] \in 1..32 /\ NameLen[n] <= 31
        BY DictionaryAssumption DEF Tokens, ShortNames
      <4> QED
        BY <4>1 DEF BornHidden
    <3> QED
      BY <2>1, <3>1 DEF Toggle, HeaderHidden, HeaderLatest
  <2> QED
    BY <1>2, <2>1, <2>2, <2>3, <2>4, <2>5, HeaderComplete
<1>5. ASSUME NEW n \in Names, Constant(n) PROVE OlderComplete'
  <2>1. /\ live' = HeaderLive /\ latest' = HeaderLatest
        /\ hidden' = HeaderHidden(n)
    BY <1>5 DEF Constant
  <2>2. /\ Extends \/ GrowsBy(n)
        /\ dp' = HeaderDp(n) + 4 /\ mem'[HeaderDp(n) + 3].kind = "exit"
    BY <1>1, <1>5, ConstantStep
  <2>3. HeaderDp(n) \in Nat
    BY <1>1, TypeFacts, StoredLenFacts DEF HeaderDp, Tokens
  <2>4. ASSUME Room, NEW h \in live', h = dp PROVE Complete(h)'
    <3>1. mem'[h + 1].arg = n /\ HeaderDp(n) = h + HeaderCells(NameLen[n])
      BY <1>1, <2>1, <2>2, <2>4, HeaderKind DEF GrowsBy, HeaderDp, Cell
    <3>2. HeaderEnd(h)' = HeaderDp(n)
      BY <3>1 DEF HeaderEnd
    <3>3. HeaderDp(n) + 3 \in HeaderEnd(h)'..(dp' - 1)
      BY <2>2, <2>3, <3>2
    <3>4. \A f \in live' : ~(h < f)
      <4>1. live' = live \cup {dp}
        BY <2>1, <2>4 DEF HeaderLive
      <4>2. dp \in Nat /\ \A f \in live : f \in Nat /\ f + 1 < dp
        BY <1>1, TypeFacts, HeaderFacts
      <4> QED
        BY <2>4, <4>1, <4>2
    <3>5. HeaderDp(n) + 3 \in Region(h)'
      BY <3>3, <3>4 DEF Region
    <3> QED
      BY <2>2, <3>5 DEF Complete
  <2> QED
    BY <1>2, <2>1, <2>2, <2>3, <2>4, HeaderComplete
<1>6. ASSUME NEW n \in Names, Create(n) PROVE OlderComplete'
  <2>1. /\ live' = HeaderLive /\ latest' = HeaderLatest
        /\ hidden' = HeaderHidden(n)
    BY <1>6 DEF Create
  <2>2. /\ Extends \/ GrowsBy(n)
        /\ dp' = HeaderDp(n) + 2 /\ mem'[HeaderDp(n)].kind = "dodoes"
    BY <1>1, <1>6, CreateStep
  <2>3. HeaderDp(n) \in Nat
    BY <1>1, TypeFacts, StoredLenFacts DEF HeaderDp, Tokens
  <2>4. ASSUME Room, NEW h \in live', h = dp PROVE Complete(h)'
    <3>1. mem'[h + 1].arg = n /\ HeaderDp(n) = h + HeaderCells(NameLen[n])
      BY <1>1, <2>1, <2>2, <2>4, HeaderKind DEF GrowsBy, HeaderDp, Cell
    <3>2. HeaderEnd(h)' = HeaderDp(n)
      BY <3>1 DEF HeaderEnd
    <3>3. HeaderEnd(h)' \in HeaderEnd(h)'..(dp' - 1)
      BY <2>2, <2>3, <3>2
    <3>4. \A f \in live' : ~(h < f)
      <4>1. live' = live \cup {dp}
        BY <2>1, <2>4 DEF HeaderLive
      <4>2. dp \in Nat /\ \A f \in live : f \in Nat /\ f + 1 < dp
        BY <1>1, TypeFacts, HeaderFacts
      <4> QED
        BY <2>4, <4>1, <4>2
    <3>5. HeaderEnd(h)' \in Region(h)'
      BY <3>3, <3>4 DEF Region
    <3> QED
      BY <2>2, <3>2, <3>5 DEF Complete
  <2> QED
    BY <1>2, <2>1, <2>2, <2>3, <2>4, HeaderComplete
<1>7. ASSUME NEW n \in Names, Forget(n) PROVE OlderComplete'
  BY <1>1, <1>7, ForgetStep, ForgetComplete DEF Forget
<1>8. ASSUME NEW t \in Tokens, Hide(t) PROVE OlderComplete'
  <2>1. PICK h \in live : Found(h, t) /\ hidden' = Toggle(hidden, h)
    BY <1>8 DEF Hide
  <2>2. h \notin hidden
    <3>1. mem[h + 1].arg = t /\ MaskedLen(h) = NameLen[t]
      BY <2>1 DEF Found, Matches
    <3>2. NameLen[t] \in 1..32 /\ NameLen[t] <= 31
      BY DictionaryAssumption DEF ShortNames
    <3>3. StoredLen(t) = NameLen[t]
      BY <3>2 DEF StoredLen
    <3> QED
      BY <3>1, <3>2, <3>3 DEF MaskedLen
  <2>3. hidden \subseteq hidden'
    BY <2>1, <2>2 DEF Toggle
  <2>4. UNCHANGED <<mem, dp, latest, live>>
    BY <1>8 DEF Hide
  <2>5. Extends
    BY <1>1, <2>4, TypeFacts DEF Extends, Addr
  <2> QED
    BY <1>2, <2>3, <2>5, QuietlyComplete
<1>9. ASSUME Semicolon PROVE OlderComplete'
  BY <1>9, SemicolonComplete
<1>10. ASSUME Reboot PROVE OlderComplete'
  BY <1>10, BootComplete DEF Reboot, Restarts
<1>11. ASSUME NEW h \in live, CompileCell(Cell("xt", TCFA(h)))
       PROVE  OlderComplete'
  <2>1. Extends /\ hidden' = hidden
    BY <1>1, <1>11, CompileStep DEF CompileCell
  <2> QED
    BY <1>2, <2>1, QuietlyComplete
<1>12. ASSUME CompileNumber PROVE OlderComplete'
  <2>1. Extends /\ hidden' = hidden
    BY <1>1, <1>12, CompileNumberStep DEF CompileNumber
  <2> QED
    BY <1>2, <2>1, QuietlyComplete
<1>13. ASSUME UNCHANGED <<mem, dp, latest, live, hidden>> PROVE OlderComplete'
  <2>1. Extends
    BY <1>1, <1>13, TypeFacts DEF Extends, Addr
  <2> QED
    BY <1>2, <1>13, <2>1, QuietlyComplete
<1>14. ASSUME NEW t \in Tokens,
              CompileWord(t) \/ ExecuteWord(t) \/ UnknownWord(t)
                \/ BracketCompile(t) \/ NullReference(t)
       PROVE  OlderComplete'
  <2>1. CASE CompileWord(t)
    BY <1>11, <2>1 DEF CompileWord
  <2>2. CASE BracketCompile(t)
    BY <1>11, <2>2 DEF BracketCompile
  <2>3. CASE ExecuteWord(t) \/ UnknownWord(t) \/ NullReference(t)
    BY <1>13, <2>3 DEF ExecuteWord, UnknownWord, NullReference
  <2> QED
    BY <1>14, <2>1, <2>2, <2>3
<1>15. ASSUME Recurse PROVE OlderComplete'
  BY <1>3, <1>11, <1>15 DEF Recurse
<1>16. ASSUME Immediate \/ LBrac \/ RBrac \/ UNCHANGED vars
       PROVE  OlderComplete'
  BY <1>13, <1>16 DEF Immediate, LBrac, RBrac, vars
<1>17. OlderComplete'
  BY <1>4, <1>5, <1>6, <1>7, <1>8, <1>9, <1>10, <1>12, <1>14, <1>15, <1>16
     DEF Next
<1> QED
  BY <1>2, <1>17 DEF VisInv

(* Whatever is typed while DP is inside the segment, a word that (FIND)    *)
(* returns has its EXIT or its DODOES: : hides the word it starts, ; shows *)
(* it with its EXIT, and nothing else shows a hidden word.                 *)
THEOREM FoundWordsAreFinished ==
  ASSUME ShortNames PROVE Spec => []VisibleComplete
<1>1. Init => VisInv
  BY IInvInit, BootComplete DEF VisInv
<1>2. VisInv /\ [Next]_vars => VisInv'
  BY VisInvStep
<1>3. VisInv => VisibleComplete
  BY DEF VisInv, OlderComplete, VisibleComplete, Complete
<1> QED
  BY <1>1, <1>2, <1>3, PTL DEF Spec

=============================================================================
