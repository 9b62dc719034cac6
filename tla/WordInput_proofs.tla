-------------------------- MODULE WordInput_proofs --------------------------
(***************************************************************************)
(* What _KEY guarantees for every vocabulary, window, FIFO and buffer.     *)
(***************************************************************************)
EXTENDS WordInput, SequenceFacts, TLAPS

Char == 0..255

-----------------------------------------------------------------------------
(* The next window makes what has been read of the text longer, and what   *)
(* is cut off the front and what stays make up the whole.                  *)
LEMMA NextWindow ==
  ASSUME NEW S, NEW s \in Seq(S), NEW m \in 0..Len(s), NEW n \in m..Len(s)
  PROVE  /\ SubSeq(s, 1, m) \in Seq(S) /\ SubSeq(s, m + 1, n) \in Seq(S)
         /\ SubSeq(s, 1, m) \o SubSeq(s, m + 1, n) = SubSeq(s, 1, n)
<1>1. Len(s) \in Nat /\ \A i \in 1..Len(s) : s[i] \in S
  BY ElementOfSeq, LenProperties
<1>2. SubSeq(s, 1, m) \in Seq(S) /\ SubSeq(s, m + 1, n) \in Seq(S)
  BY <1>1
<1>3. 1 \in 1..Len(s) + 1 /\ m \in 1 - 1..Len(s)
  BY <1>1
<1> QED
  BY <1>2, <1>3, ConcatAdjacentSubSeq

LEMMA Cut ==
  ASSUME NEW S, NEW s \in Seq(S), NEW n \in 0..Len(s)
  PROVE  /\ SubSeq(s, 1, n) \in Seq(S) /\ SubSeq(s, n + 1, Len(s)) \in Seq(S)
         /\ SubSeq(s, 1, n) \o SubSeq(s, n + 1, Len(s)) = s
<1>1. Len(s) \in n..Len(s)
  BY LenProperties
<1>2. SubSeq(s, 1, Len(s)) = s
  BY SubSeqFull
<1>3. /\ SubSeq(s, 1, n) \in Seq(S) /\ SubSeq(s, n + 1, Len(s)) \in Seq(S)
      /\ SubSeq(s, 1, n) \o SubSeq(s, n + 1, Len(s)) = SubSeq(s, 1, Len(s))
  BY <1>1, NextWindow
<1> QED
  BY <1>2, <1>3

(* The front of one sequence moves to the end of another.                  *)
LEMMA MoveFront ==
  ASSUME NEW S, NEW x \in Seq(S), NEW y \in Seq(S), NEW n \in 0..Len(y)
  PROVE  /\ SubSeq(y, 1, n) \in Seq(S) /\ SubSeq(y, n + 1, Len(y)) \in Seq(S)
         /\ (x \o SubSeq(y, 1, n)) \o SubSeq(y, n + 1, Len(y)) = x \o y
<1> DEFINE A == SubSeq(y, 1, n)
           B == SubSeq(y, n + 1, Len(y))
<1>1. A \in Seq(S) /\ B \in Seq(S)
  BY Cut
<1>2. A \o B = y
  BY Cut
<1> HIDE DEF A, B
<1>3. (x \o A) \o B = x \o (A \o B)
  BY <1>1, Assoc
<1>4. (x \o A) \o B = x \o y
  BY <1>2, <1>3
<1> QED
  BY <1>1, <1>4 DEF A, B

LEMMA MinFacts ==
  ASSUME NEW a \in Nat, NEW b \in Nat
  PROVE  Min({a, b}) \in Nat /\ Min({a, b}) <= a /\ Min({a, b}) <= b
<1>1. \E x \in {a, b} : \A y \in {a, b} : x =< y
  OBVIOUS
<1>2. Min({a, b}) \in {a, b} /\ \A y \in {a, b} : Min({a, b}) =< y
  BY <1>1 DEF Min
<1> QED
  BY <1>2

-----------------------------------------------------------------------------
(* While the vocabulary is read nothing is taken out of the FIFO, so what  *)
(* was typed meanwhile comes after all of it.                              *)
StreamInv ==
  /\ romPos \in 0..Len(Rom)
  /\ fifo \in Seq(Char) /\ inbuf \in Seq(Char)
  /\ got \in Seq(Char) /\ typed \in Seq(Char)
  /\ initializing => fifo = typed
  /\ NothingSkipped

LEMMA RomFacts == Rom \in Seq(Char) /\ Len(Rom) \in Nat /\ Window \in Nat
BY WordInputAssumption, LenProperties DEF Char

LEMMA InitStream == Init => StreamInv
<1> SUFFICES ASSUME Init
             PROVE  StreamInv
  OBVIOUS
<1>1. /\ fifo = <<>> /\ inbuf = <<>> /\ got = <<>> /\ typed = <<>> /\ romPos = 0
  BY DEF Init
<1>2. <<>> \in Seq(Char) /\ <<>> \o <<>> = <<>>
  BY EmptySeq, ConcatEmptySeq
<1>3. SubSeq(Rom, 1, 0) = <<>>
  BY SubSeqEmpty
<1> QED
  BY <1>1, <1>2, <1>3, RomFacts DEF StreamInv, NothingSkipped

(* A character typed is the last of both sides.                            *)
LEMMA TypeKeeps ==
  ASSUME StreamInv, Type
  PROVE  StreamInv'
<1> DEFINE G == got \o inbuf
           R == SubSeq(Rom, 1, romPos)
<1>1. /\ fifo \in Seq(Char) /\ typed \in Seq(Char)
      /\ G \in Seq(Char) /\ R \in Seq(Char)
  <2>1. /\ romPos \in 0..Len(Rom) /\ got \in Seq(Char) /\ inbuf \in Seq(Char)
        /\ fifo \in Seq(Char) /\ typed \in Seq(Char)
    BY DEF StreamInv
  <2>2. R \in Seq(Char)
    BY <2>1, RomFacts, Cut
  <2>3. G \in Seq(Char)
    BY <2>1, ConcatProperties
  <2> QED
    BY <2>1, <2>2, <2>3
<1>2. G \o fifo = R \o typed
  BY DEF StreamInv, NothingSkipped
<1>3. UNCHANGED <<romPos, inbuf, got, initializing>>
  BY DEF Type
<1>4. CASE UNCHANGED <<fifo, typed>>
  BY <1>3, <1>4 DEF StreamInv, NothingSkipped
<1>5. ASSUME NEW c \in Keys, fifo' = Append(fifo, c), typed' = Append(typed, c)
      PROVE  StreamInv'
  <2>1. c \in Char
    BY WordInputAssumption DEF Char
  <2>2. /\ Append(fifo, c) \in Seq(Char) /\ Append(typed, c) \in Seq(Char)
        /\ G \o Append(fifo, c) = R \o Append(typed, c)
    <3> HIDE DEF G, R
    <3>1. Append(fifo, c) \in Seq(Char) /\ G \o Append(fifo, c) = Append(G \o fifo, c)
      BY <1>1, <2>1, AppendLast
    <3>2. Append(typed, c) \in Seq(Char) /\ R \o Append(typed, c) = Append(R \o typed, c)
      BY <1>1, <2>1, AppendLast
    <3> QED
      BY <1>2, <3>1, <3>2
  <2>3. initializing' => fifo' = typed'
    BY <1>3, <1>5 DEF StreamInv
  <2> QED
    BY <1>3, <1>5, <2>2, <2>3 DEF StreamInv, NothingSkipped
<1> QED
  BY <1>4, <1>5 DEF Type

(* A window of the vocabulary goes in before anything that was typed.      *)
LEMMA ReadRomKeeps ==
  ASSUME StreamInv, ReadRom
  PROVE  StreamInv'
<1> DEFINE R == SubSeq(Rom, 1, romPos)
           W == SubSeq(Rom, romPos + 1, romPos + Window)
<1>1. /\ romPos \in 0..Len(Rom) /\ romPos + Window \in romPos..Len(Rom)
      /\ romPos' = romPos + Window /\ inbuf = <<>> /\ inbuf' = W
      /\ initializing /\ UNCHANGED <<fifo, typed, got, initializing>>
  BY RomFacts DEF ReadRom, Asking, lineVars, StreamInv
<1>2. R \in Seq(Char) /\ W \in Seq(Char) /\ R \o W = SubSeq(Rom, 1, romPos')
  BY <1>1, RomFacts, NextWindow
<1>3. /\ got \in Seq(Char) /\ typed \in Seq(Char) /\ fifo = typed
      /\ (got \o inbuf) \o fifo = R \o typed
  BY <1>1 DEF StreamInv, NothingSkipped
<1>4. got \o typed = R \o typed
  BY <1>1, <1>3, ConcatEmptySeq
<1>5. got = R
  BY <1>2, <1>3, <1>4, ConcatSimplifications, Zenon
<1>6. (got \o inbuf') \o fifo' = SubSeq(Rom, 1, romPos') \o typed'
  <2>1. got \o inbuf' = SubSeq(Rom, 1, romPos')
    BY <1>1, <1>2, <1>5
  <2> QED
    BY <1>1, <1>3, <2>1
<1>7. romPos' \in 0..Len(Rom)
  BY <1>1, RomFacts
<1> HIDE DEF W
<1>8. /\ fifo' \in Seq(Char) /\ inbuf' \in Seq(Char)
      /\ got' \in Seq(Char) /\ typed' \in Seq(Char) /\ fifo' = typed'
  BY <1>1, <1>2, <1>3
<1>9. NothingSkipped'
  BY <1>1, <1>6 DEF NothingSkipped
<1> QED
  BY <1>7, <1>8, <1>9 DEF StreamInv

(* A read takes the front of the FIFO and leaves the rest.                 *)
LEMMA UartReadKeeps ==
  ASSUME StreamInv, UartRead
  PROVE  StreamInv'
<1> DEFINE n == Min({Len(fifo), BufSize})
           A == SubSeq(fifo, 1, n)
           B == SubSeq(fifo, n + 1, Len(fifo))
<1>1. /\ fifo \in Seq(Char) /\ got \in Seq(Char) /\ typed \in Seq(Char)
      /\ inbuf = <<>> /\ ~initializing /\ inbuf' = A /\ fifo' = B
      /\ UNCHANGED <<romPos, typed, got, initializing>>
  BY DEF UartRead, Asking, StreamInv
<1>2. n \in 0..Len(fifo)
  <2>1. Len(fifo) \in Nat /\ BufSize \in Nat
    BY <1>1, LenProperties, WordInputAssumption
  <2> QED
    BY <2>1, MinFacts
<1>3. A \in Seq(Char) /\ B \in Seq(Char) /\ (got \o A) \o B = got \o fifo
  <2> HIDE DEF n
  <2>1. fifo \in Seq(Char) /\ got \in Seq(Char)
    BY <1>1
  <2>2. A = SubSeq(fifo, 1, n) /\ B = SubSeq(fifo, n + 1, Len(fifo))
    OBVIOUS
  <2> HIDE DEF A, B
  <2> QED
    BY <1>2, <2>1, <2>2, MoveFront
<1> HIDE DEF A, B
<1>4. got \o inbuf = got
  BY <1>1, ConcatEmptySeq
<1>5. (got \o inbuf') \o fifo' = SubSeq(Rom, 1, romPos') \o typed'
  BY <1>1, <1>3, <1>4 DEF StreamInv, NothingSkipped
<1> QED
  BY <1>1, <1>3, <1>5 DEF StreamInv, NothingSkipped

(* A character taken from the buffer is the next one that was got.         *)
LEMMA KeyKeeps ==
  ASSUME StreamInv, Key
  PROVE  StreamInv'
<1>1. /\ fifo \in Seq(Char) /\ got \in Seq(Char) /\ inbuf \in Seq(Char)
      /\ inbuf # <<>> /\ inbuf' = Tail(inbuf) /\ got' = Append(got, Head(inbuf))
      /\ UNCHANGED <<romPos, fifo, typed, initializing>>
  BY DEF Key, lineVars, StreamInv
<1>2. got' \in Seq(Char) /\ inbuf' \in Seq(Char) /\ got' \o inbuf' = got \o inbuf
  BY <1>1, MoveHead
<1> QED
  BY <1>1, <1>2 DEF StreamInv, NothingSkipped

LEMMA NextStream == StreamInv /\ [Next]_vars => StreamInv'
<1> SUFFICES ASSUME StreamInv, [Next]_vars
             PROVE  StreamInv'
  OBVIOUS
<1>1. CASE Type
  BY <1>1, TypeKeeps
<1>2. CASE Read
  BY <1>2, ReadRomKeeps, UartReadKeeps DEF Read
<1>3. CASE Scan \/ TakeKey
  BY <1>3, KeyKeeps DEF Scan, Skip, Comment, Collect, TakeKey
<1>4. CASE \/ InterpretInitDone \/ InterpretTrue \/ InterpretEcho
           \/ InterpretKey \/ InterpretOther \/ InterpretNumber \/ UNCHANGED vars
  <2>1. /\ UNCHANGED <<romPos, fifo, inbuf, typed, got>>
        /\ initializing' => initializing
    BY <1>4 DEF InterpretInitDone, InterpretTrue, InterpretEcho, InterpretKey,
                InterpretOther, InterpretNumber, Run, vars
  <2> QED
    BY <2>1 DEF StreamInv, NothingSkipped
<1> QED
  BY <1>1, <1>2, <1>3, <1>4 DEF Next, Interpret

(* Nothing is skipped, doubled or moved between the FIFO and what _KEY     *)
(* returns, across refills of any size and from the vocabulary, in windows *)
(* of any length, to the terminal.                                         *)
THEOREM StreamIsTheText == Spec => []NothingSkipped
<1>1. StreamInv => NothingSkipped
  BY DEF StreamInv
<1> QED
  BY <1>1, InitStream, NextStream, PTL DEF Spec
=============================================================================
