---------------------------- MODULE SequenceFacts ----------------------------
(***************************************************************************)
(* Two sequences one after the other, as a buffer is filled behind another *)
(* and emptied into it: facts that the proofs about buffers share.         *)
(***************************************************************************)
EXTENDS Naturals, Sequences, SequenceTheorems, TLAPS

(* The library's fact, in the form in which the SMT solver finds it.       *)
LEMMA Assoc ==
  ASSUME NEW S, NEW a, NEW b, NEW c, a \in Seq(S), b \in Seq(S), c \in Seq(S)
  PROVE  (a \o b) \o c = a \o (b \o c)
BY ConcatAssociative

(* Moving the head of the second sequence to the end of the first changes  *)
(* nothing about the two together.                                         *)
LEMMA MoveHead ==
  ASSUME NEW S, NEW s \in Seq(S), NEW t \in Seq(S), t # <<>>
  PROVE  /\ Append(s, Head(t)) \in Seq(S) /\ Tail(t) \in Seq(S)
         /\ Append(s, Head(t)) \o Tail(t) = s \o t
<1>1. Head(t) \in S /\ Tail(t) \in Seq(S)
  BY HeadTailProperties
<1>2. Append(s, Head(t)) = s \o <<Head(t)>> /\ Append(s, Head(t)) \in Seq(S)
  BY <1>1, AppendIsConcat, AppendProperties
<1>3. t = <<Head(t)>> \o Tail(t)
  <2>1. <<Head(t)>> \in Seq(S) /\ Len(<<Head(t)>>) = 1 /\ <<Head(t)>>[1] = Head(t)
    BY <1>1
  <2>2. /\ Len(t) \in Nat \ {0} /\ Head(t) = t[1] /\ Len(Tail(t)) = Len(t) - 1
        /\ \A i \in 1..Len(t) - 1 : Tail(t)[i] = t[i + 1]
    BY HeadTailProperties, EmptySeq
  <2>3. /\ <<Head(t)>> \o Tail(t) \in Seq(S)
        /\ Len(<<Head(t)>> \o Tail(t)) = 1 + (Len(t) - 1)
        /\ \A i \in 1..1 + (Len(t) - 1) :
             (<<Head(t)>> \o Tail(t))[i] = IF i <= 1 THEN <<Head(t)>>[i] ELSE Tail(t)[i - 1]
    BY <1>1, <2>1, <2>2, ConcatProperties
  <2>4. \A i \in 1..Len(t) : t[i] = (<<Head(t)>> \o Tail(t))[i]
    BY <2>1, <2>2, <2>3
  <2> QED
    BY <2>2, <2>3, <2>4, SeqEqual
<1>4. <<Head(t)>> \in Seq(S)
  BY <1>1
<1>5. (s \o <<Head(t)>>) \o Tail(t) = s \o (<<Head(t)>> \o Tail(t))
  BY <1>1, <1>4, ConcatAssociative
<1> QED
  BY <1>1, <1>2, <1>3, <1>5

(* An element put at the end of the second is put at the end of the whole. *)
LEMMA AppendLast ==
  ASSUME NEW S, NEW x \in Seq(S), NEW y \in Seq(S), NEW e \in S
  PROVE  Append(y, e) \in Seq(S) /\ x \o Append(y, e) = Append(x \o y, e)
<1> DEFINE E == <<e>>
<1>1. E \in Seq(S) /\ x \o y \in Seq(S)
  BY ConcatProperties
<1>2. /\ Append(y, e) \in Seq(S) /\ Append(y, e) = y \o E
      /\ Append(x \o y, e) = (x \o y) \o E
  BY <1>1, AppendIsConcat, AppendProperties
<1> HIDE DEF E
<1>3. (x \o y) \o E = x \o (y \o E)
  BY <1>1, Assoc
<1> QED
  BY <1>2, <1>3
=============================================================================
