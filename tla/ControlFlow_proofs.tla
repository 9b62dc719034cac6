-------------------------- MODULE ControlFlow_proofs --------------------------
(***************************************************************************)
(* What the control-flow words keep on their stacks, for every vocabulary, *)
(* every nesting, every length of a word and every size of LEAVE-SP.       *)
(***************************************************************************)
EXTENDS ControlFlow, FiniteSetTheorems, SequenceTheorems, WellFoundedInduction,
        TLAPS

-----------------------------------------------------------------------------
(* Stacks.  A stack is a sequence with its top first, so what is pushed    *)
(* moves every index; counted from the bottom nothing moves.               *)

Up(s, q) == s[Len(s) + 1 - q]

LEMMA PushFacts ==
  ASSUME NEW T, NEW s \in Seq(T), NEW x \in T
  PROVE  LET p == <<x>> \o s IN
         /\ p \in Seq(T) /\ Len(p) = Len(s) + 1 /\ Len(s) \in Nat
         /\ Head(p) = x /\ Tail(p) = s /\ p # <<>>
         /\ \A q \in 1..Len(s) : Up(p, q) = Up(s, q)
         /\ Up(p, Len(s) + 1) = x
         /\ p[1] = x /\ \A k \in 1..Len(s) : p[k + 1] = s[k]
<1> DEFINE p == <<x>> \o s
<1>1. /\ p \in Seq(T) /\ Len(p) = Len(s) + 1 /\ Len(s) \in Nat
      /\ p[1] = x /\ \A k \in 1..Len(s) : p[k + 1] = s[k]
  <2>1. <<x>> \in Seq(T) /\ Len(<<x>>) = 1 /\ <<x>>[1] = x
    OBVIOUS
  <2>2. /\ p \in Seq(T) /\ Len(p) = 1 + Len(s)
        /\ \A i \in 1..1 + Len(s) :
             p[i] = IF i <= 1 THEN <<x>>[i] ELSE s[i - 1]
    BY <2>1, ConcatProperties
  <2>3. Len(s) \in Nat
    BY LenProperties
  <2> HIDE DEF p
  <2> QED
    BY <2>1, <2>2, <2>3
<1> HIDE DEF p
<1>2. p # <<>>
  BY <1>1
<1>3. /\ Head(p) = p[1] /\ Tail(p) \in Seq(T) /\ Len(Tail(p)) = Len(p) - 1
      /\ \A i \in 1..Len(p) - 1 : Tail(p)[i] = p[i + 1]
  BY <1>1, <1>2, HeadTailProperties
<1>4. Tail(p) = s
  <2>1. Len(Tail(p)) = Len(s) /\ \A i \in 1..Len(s) : Tail(p)[i] = s[i]
    BY <1>1, <1>3
  <2> QED
    BY <1>3, <2>1, SeqEqual
<1>5. \A q \in 1..Len(s) : Up(p, q) = Up(s, q)
  <2> TAKE q \in 1..Len(s)
  <2>1. Len(s) + 1 - q \in 1..Len(s) /\ Len(p) + 1 - q = (Len(s) + 1 - q) + 1
    BY <1>1
  <2> QED
    BY <1>1, <2>1 DEF Up
<1>6. Up(p, Len(s) + 1) = x
  <2>1. Len(p) + 1 - (Len(s) + 1) = 1
    BY <1>1
  <2> QED
    BY <1>1, <2>1 DEF Up
<1> QED
  BY <1>1, <1>2, <1>3, <1>4, <1>5, <1>6 DEF p

LEMMA PopFacts ==
  ASSUME NEW T, NEW s \in Seq(T), s # <<>>
  PROVE  /\ Tail(s) \in Seq(T) /\ Len(s) \in Nat /\ Len(s) >= 1
         /\ Len(Tail(s)) = Len(s) - 1
         /\ Head(s) \in T /\ Head(s) = s[1] /\ Head(s) = Up(s, Len(s))
         /\ \A q \in 1..(Len(s) - 1) : Up(Tail(s), q) = Up(s, q)
         /\ \A k \in 1..(Len(s) - 1) : Tail(s)[k] = s[k + 1]
<1>1. /\ Head(s) \in T /\ Head(s) = s[1] /\ Tail(s) \in Seq(T)
      /\ Len(Tail(s)) = Len(s) - 1
      /\ \A i \in 1..Len(s) - 1 : Tail(s)[i] = s[i + 1]
  BY HeadTailProperties
<1>2. Len(s) \in Nat /\ Len(s) >= 1
  BY EmptySeq, LenProperties
<1>3. \A q \in 1..(Len(s) - 1) : Up(Tail(s), q) = Up(s, q)
  <2> TAKE q \in 1..(Len(s) - 1)
  <2>1. /\ Len(Tail(s)) + 1 - q \in 1..(Len(s) - 1)
        /\ (Len(Tail(s)) + 1 - q) + 1 = Len(s) + 1 - q
    BY <1>1, <1>2
  <2> QED
    BY <1>1, <2>1 DEF Up
<1>4. Head(s) = Up(s, Len(s))
  <2>1. Len(s) + 1 - Len(s) = 1
    BY <1>2
  <2> QED
    BY <1>1, <2>1 DEF Up
<1> QED
  BY <1>1, <1>2, <1>3, <1>4

LEMMA PushTwo ==
  ASSUME NEW s \in Seq(Nat), NEW x \in Nat, NEW y \in Nat
  PROVE  LET p == <<x, y>> \o s IN
         /\ p \in Seq(Nat) /\ Len(p) = Len(s) + 2
         /\ \A q \in 1..Len(s) : Up(p, q) = Up(s, q)
         /\ Up(p, Len(s) + 1) = y /\ Up(p, Len(s) + 2) = x
<1> DEFINE p == <<x, y>> \o s
<1>1. /\ p \in Seq(Nat) /\ Len(p) = 2 + Len(s) /\ Len(s) \in Nat
      /\ p[1] = x /\ p[2] = y /\ \A k \in 1..Len(s) : p[k + 2] = s[k]
  <2>1. <<x, y>> \in Seq(Nat) /\ Len(<<x, y>>) = 2
    OBVIOUS
  <2>2. /\ p \in Seq(Nat) /\ Len(p) = 2 + Len(s)
        /\ \A i \in 1..2 + Len(s) :
             p[i] = IF i <= 2 THEN <<x, y>>[i] ELSE s[i - 2]
    BY <2>1, ConcatProperties
  <2>3. Len(s) \in Nat
    BY LenProperties
  <2> HIDE DEF p
  <2>4. p[1] = x /\ p[2] = y
    <3>1. 1 \in 1..2 + Len(s) /\ 2 \in 1..2 + Len(s)
      BY <2>3
    <3> QED
      BY <2>2, <3>1
  <2>5. ASSUME NEW k \in 1..Len(s) PROVE p[k + 2] = s[k]
    <3>1. k + 2 \in 1..2 + Len(s) /\ ~(k + 2 <= 2) /\ (k + 2) - 2 = k
      BY <2>3
    <3>2. p[k + 2] = s[(k + 2) - 2]
      BY <2>2, <3>1
    <3> QED
      BY <3>1, <3>2
  <2> QED
    BY <2>2, <2>3, <2>4, <2>5
<1> HIDE DEF p
<1>2. \A q \in 1..Len(s) : Up(p, q) = Up(s, q)
  <2> TAKE q \in 1..Len(s)
  <2>1. Len(s) + 1 - q \in 1..Len(s) /\ Len(p) + 1 - q = (Len(s) + 1 - q) + 2
    BY <1>1
  <2> QED
    BY <1>1, <2>1 DEF Up
<1>3. Up(p, Len(s) + 1) = y /\ Up(p, Len(s) + 2) = x
  <2>1. Len(p) + 1 - (Len(s) + 1) = 2 /\ Len(p) + 1 - (Len(s) + 2) = 1
    BY <1>1
  <2> QED
    BY <1>1, <2>1 DEF Up
<1>4. p \in Seq(Nat) /\ Len(p) = Len(s) + 2
  BY <1>1
<1> QED
  BY <1>2, <1>3, <1>4 DEF p

(* A new item in the place of the top.                                     *)
LEMMA TurnFacts ==
  ASSUME NEW T, NEW s \in Seq(T), s # <<>>, NEW x \in T
  PROVE  LET p == <<x>> \o Tail(s) IN
         /\ p \in Seq(T) /\ Len(p) = Len(s) /\ p # <<>>
         /\ Head(p) = x /\ Tail(p) = Tail(s)
         /\ Up(p, Len(s)) = x
         /\ \A q \in 1..(Len(s) - 1) : Up(p, q) = Up(s, q)
<1> DEFINE r == Tail(s)
<1>1. /\ r \in Seq(T) /\ Len(s) \in Nat /\ Len(s) >= 1 /\ Len(r) = Len(s) - 1
      /\ \A q \in 1..(Len(s) - 1) : Up(r, q) = Up(s, q)
  BY PopFacts
<1> HIDE DEF r
<1>2. LET p == <<x>> \o r IN
      /\ p \in Seq(T) /\ Len(p) = Len(r) + 1 /\ p # <<>> /\ Head(p) = x /\ Tail(p) = r
      /\ \A q \in 1..Len(r) : Up(p, q) = Up(r, q)
      /\ Up(p, Len(r) + 1) = x
  BY <1>1, PushFacts
<1>3. Len(r) + 1 = Len(s)
  BY <1>1
<1> QED
  BY <1>1, <1>2, <1>3 DEF r

(* What is left of a stack when its first n items are taken.               *)
LEMMA DropFacts ==
  ASSUME NEW T, NEW s \in Seq(T), NEW n \in 0..Len(s)
  PROVE  LET d == SubSeq(s, n + 1, Len(s)) IN
         /\ d \in Seq(T) /\ Len(d) = Len(s) - n /\ Len(s) \in Nat
         /\ \A k \in 1..(Len(s) - n) : d[k] = s[n + k]
         /\ \A q \in 1..(Len(s) - n) : Up(d, q) = Up(s, q)
<1> DEFINE d == SubSeq(s, n + 1, Len(s))
<1>1. Len(s) \in Nat /\ n \in Nat /\ n <= Len(s)
  BY LenProperties
<1>2. /\ d \in Seq(T) /\ Len(d) = Len(s) - n
      /\ \A k \in 1..(Len(s) - n) : d[k] = s[n + k]
  <2>1. n + 1 \in 1..(Len(s) + 1) /\ Len(s) \in n..Len(s)
    BY <1>1
  <2>2. \A i \in (n + 1)..Len(s) : s[i] \in T
    BY <1>1, ElementOfSeq
  <2>3. /\ d \in Seq(T)
        /\ Len(d) = IF n + 1 <= Len(s) THEN Len(s) - (n + 1) + 1 ELSE 0
        /\ \A i \in 1..Len(s) - (n + 1) + 1 : d[i] = s[n + 1 + i - 1]
    BY <1>1, <2>2, SubSeqProperties
  <2> HIDE DEF d
  <2> QED
    BY <1>1, <2>3
<1> HIDE DEF d
<1>3. \A q \in 1..(Len(s) - n) : Up(d, q) = Up(s, q)
  <2> TAKE q \in 1..(Len(s) - n)
  <2>1. /\ Len(d) + 1 - q \in 1..(Len(s) - n)
        /\ n + (Len(d) + 1 - q) = Len(s) + 1 - q
    BY <1>1, <1>2
  <2> QED
    BY <1>2, <2>1 DEF Up
<1> QED
  BY <1>1, <1>2, <1>3 DEF d

-----------------------------------------------------------------------------
(* Depths.  A token changes the depth of no earlier one.                   *)

Extended(t) == src \in Seq(AllTokens) /\ t \in AllTokens /\ src' = Append(src, t)

LEMMA SrcFacts ==
  ASSUME NEW t, Extended(t)
  PROVE  /\ src' \in Seq(AllTokens) /\ Len(src) \in Nat
         /\ Len(src') = Len(src) + 1 /\ src'[Len(src) + 1] = t
         /\ \A k \in 1..Len(src) : src'[k] = src[k]
BY AppendProperties, LenProperties DEF Extended

LEMMA CountExtended ==
  ASSUME NEW t, Extended(t), NEW kinds, NEW N, N = Len(src) + 1
  PROVE  /\ \A i \in 0..Len(src) : Count(i, kinds)' = Count(i, kinds)
                                   /\ Count(i, kinds) \in Nat
         /\ Count(N, kinds)' =
              Count(Len(src), kinds) + (IF t \in kinds THEN 1 ELSE 0)
<1> DEFINE C(i) == {k \in 1..i : src[k] \in kinds}
           D(i) == {k \in 1..i : src'[k] \in kinds}
<1>1. /\ Len(src) \in Nat /\ src'[N] = t
      /\ \A k \in 1..Len(src) : src'[k] = src[k]
  BY SrcFacts
<1>2. \A i \in 0..Len(src) : D(i) = C(i)
  BY <1>1
<1>3. \A i \in Nat : IsFiniteSet(C(i)) /\ Cardinality(C(i)) \in Nat
  <2> TAKE i \in Nat
  <2>1. IsFiniteSet(1..i)
    BY FS_Interval
  <2>2. IsFiniteSet(C(i))
    BY <2>1, FS_Subset
  <2> QED
    BY <2>2, FS_CardinalityType
<1>4. D(N) = IF t \in kinds THEN C(Len(src)) \cup {N} ELSE C(Len(src))
  <2>1. \A k : k \in 1..N <=> k \in 1..Len(src) \/ k = N
    BY <1>1
  <2> QED
    BY <1>1, <2>1
<1>5. N \notin C(Len(src))
  BY <1>1
<1>6. Cardinality(D(N)) =
        Cardinality(C(Len(src))) + (IF t \in kinds THEN 1 ELSE 0)
  <2>1. CASE t \in kinds
    <3>1. Cardinality(C(Len(src)) \cup {N}) = Cardinality(C(Len(src))) + 1
      BY <1>1, <1>3, <1>5, FS_AddElement
    <3> QED
      BY <1>4, <2>1, <3>1
  <2>2. CASE t \notin kinds
    <3>1. D(N) = C(Len(src)) /\ Cardinality(C(Len(src))) \in Nat
      BY <1>1, <1>3, <1>4, <2>2
    <3> HIDE DEF C, D
    <3> QED
      BY <2>2, <3>1
  <2> QED
    BY <2>1, <2>2
<1>7. \A i \in 0..Len(src) : Count(i, kinds)' = Count(i, kinds)
                             /\ Count(i, kinds) \in Nat
  <2> TAKE i \in 0..Len(src)
  <2>1. Count(i, kinds) = Cardinality(C(i)) /\ Count(i, kinds)' = Cardinality(D(i))
    BY DEF Count
  <2>2. i \in Nat /\ D(i) = C(i)
    BY <1>1, <1>2
  <2> HIDE DEF C, D
  <2> QED
    BY <1>3, <2>1, <2>2
<1>8. /\ Count(N, kinds)' = Cardinality(D(N))
      /\ Count(Len(src), kinds) = Cardinality(C(Len(src)))
  BY DEF Count
<1> HIDE DEF C, D
<1> QED
  BY <1>6, <1>7, <1>8

Weight(t) == IF t \in Opens THEN 1 ELSE IF t \in Closes THEN 0 - 1 ELSE 0

LEMMA DepthExtended ==
  ASSUME NEW t, Extended(t), NEW N, N = Len(src) + 1
  PROVE  /\ \A i \in 0..Len(src) : Depth(i)' = Depth(i) /\ Depth(i) \in Int
         /\ Depth(N)' = Depth(Len(src)) + Weight(t) /\ Depth(N)' \in Int
<1>1. Len(src) \in Nat
  BY SrcFacts
<1>2. \A i \in 0..Len(src) :
        /\ Count(i, Opens)' = Count(i, Opens) /\ Count(i, Opens) \in Nat
        /\ Count(i, Closes)' = Count(i, Closes) /\ Count(i, Closes) \in Nat
  <2>1. \A i \in 0..Len(src) :
          Count(i, Opens)' = Count(i, Opens) /\ Count(i, Opens) \in Nat
    BY CountExtended
  <2>2. \A i \in 0..Len(src) :
          Count(i, Closes)' = Count(i, Closes) /\ Count(i, Closes) \in Nat
    BY CountExtended
  <2> QED
    BY <2>1, <2>2
<1>3. /\ Count(N, Opens)' = Count(Len(src), Opens) + (IF t \in Opens THEN 1 ELSE 0)
      /\ Count(N, Closes)' = Count(Len(src), Closes) + (IF t \in Closes THEN 1 ELSE 0)
  BY CountExtended
<1>4. ~(t \in Opens /\ t \in Closes)
  BY DEF Opens, Closes
<1>5. \A i : Depth(i) = Count(i, Opens) - Count(i, Closes)
  BY DEF Depth
<1>6. \A i : Depth(i)' = Count(i, Opens)' - Count(i, Closes)'
  BY DEF Depth
<1>7. \A i \in 0..Len(src) : Depth(i)' = Depth(i) /\ Depth(i) \in Int
  BY <1>2, <1>5, <1>6
<1>8. Depth(N)' = Depth(Len(src)) + Weight(t) /\ Depth(N)' \in Int
  <2>1. Len(src) \in 0..Len(src)
    BY <1>1
  <2>2. /\ Count(Len(src), Opens) \in Nat /\ Count(Len(src), Closes) \in Nat
    BY <1>2, <2>1
  <2>3. CASE t \in Opens
    BY <1>3, <1>4, <1>5, <1>6, <2>2, <2>3 DEF Weight
  <2>4. CASE t \in Closes
    BY <1>3, <1>4, <1>5, <1>6, <2>2, <2>4 DEF Weight
  <2>5. CASE t \notin Opens \cup Closes
    BY <1>3, <1>5, <1>6, <2>2, <2>5 DEF Weight
  <2> QED
    BY <2>3, <2>4, <2>5
<1> QED
  BY <1>7, <1>8

LEMMA DepthType ==
  /\ \A i \in Nat : Depth(i) \in Int
  /\ \A i \in Nat : Depth(i)' \in Int
<1>1. ASSUME NEW i \in Nat, NEW S, NEW kinds
      PROVE  Cardinality({k \in 1..i : S[k] \in kinds}) \in Nat
  <2>1. IsFiniteSet(1..i)
    BY FS_Interval
  <2>2. IsFiniteSet({k \in 1..i : S[k] \in kinds})
    BY <2>1, FS_Subset
  <2> QED
    BY <2>2, FS_CardinalityType
<1>2. \A i \in Nat : Depth(i) \in Int
  <2> TAKE i \in Nat
  <2>1. Count(i, Opens) \in Nat /\ Count(i, Closes) \in Nat
    BY <1>1 DEF Count
  <2> QED
    BY <2>1 DEF Depth
<1>3. \A i \in Nat : Depth(i)' \in Int
  <2> TAKE i \in Nat
  <2>1. Count(i, Opens)' \in Nat /\ Count(i, Closes)' \in Nat
    BY <1>1 DEF Count
  <2> QED
    BY <2>1 DEF Depth
<1> QED
  BY <1>2, <1>3

-----------------------------------------------------------------------------
(* Where a structure ends.                                                 *)

LEMMA EndsUnique ==
  ASSUME NEW i \in Nat, NEW j \in Nat, NEW k \in Nat
  PROVE  /\ Ends(i, j) /\ Ends(i, k) => j = k
         /\ Ends(i, j)' /\ Ends(i, k)' => j = k
<1>1. ASSUME NEW D, \A x \in Nat : D[x] \in Int,
             i < j, D[j] < D[i], \A x \in i..(j - 1) : D[x] >= D[i],
             i < k, D[k] < D[i], \A x \in i..(k - 1) : D[x] >= D[i]
      PROVE  j = k
  <2>1. j < k => j \in i..(k - 1)
    BY <1>1
  <2>2. k < j => k \in i..(j - 1)
    BY <1>1
  <2> QED
    BY <1>1, <2>1, <2>2
<1>2. Ends(i, j) /\ Ends(i, k) => j = k
  <2> DEFINE D == [x \in Nat |-> Depth(x)]
  <2>1. \A x \in Nat : D[x] = Depth(x) /\ D[x] \in Int
    BY DepthType
  <2> HIDE DEF D
  <2>2. ASSUME Ends(i, j), Ends(i, k)
        PROVE  /\ i < j /\ D[j] < D[i] /\ \A x \in i..(j - 1) : D[x] >= D[i]
               /\ i < k /\ D[k] < D[i] /\ \A x \in i..(k - 1) : D[x] >= D[i]
    BY <2>1, <2>2 DEF Ends
  <2> QED
    BY <1>1, <2>1, <2>2
<1>3. Ends(i, j)' /\ Ends(i, k)' => j = k
  <2> DEFINE D == [x \in Nat |-> Depth(x)']
  <2>1. \A x \in Nat : D[x] = Depth(x)' /\ D[x] \in Int
    BY DepthType
  <2> HIDE DEF D
  <2>2. ASSUME Ends(i, j)', Ends(i, k)'
        PROVE  /\ i < j /\ D[j] < D[i] /\ \A x \in i..(j - 1) : D[x] >= D[i]
               /\ i < k /\ D[k] < D[i] /\ \A x \in i..(k - 1) : D[x] >= D[i]
    BY <2>1, <2>2 DEF Ends
  <2> QED
    BY <1>1, <2>1, <2>2
<1> QED
  BY <1>2, <1>3

LEMMA CloserIs ==
  ASSUME NEW i \in Nat, NEW j \in Nat
  PROVE  /\ Len(src) \in Nat /\ j \in 1..Len(src) /\ Ends(i, j) =>
              Closed(i) /\ Closer(i) = j
         /\ Len(src') \in Nat /\ j \in 1..Len(src') /\ Ends(i, j)' =>
              Closed(i)' /\ Closer(i)' = j
<1>1. ASSUME Len(src) \in Nat, j \in 1..Len(src), Ends(i, j)
      PROVE  Closed(i) /\ Closer(i) = j
  <2>1. \A k \in 1..Len(src) : Ends(i, k) => k = j
    BY <1>1, EndsUnique
  <2> QED
    BY <1>1, <2>1 DEF Closed, Closer
<1>2. ASSUME Len(src') \in Nat, j \in 1..Len(src'), Ends(i, j)'
      PROVE  Closed(i)' /\ Closer(i)' = j
  <2>1. \A k \in 1..Len(src') : Ends(i, k)' => k = j
    BY <1>2, EndsUnique
  <2> QED
    BY <1>2, <2>1 DEF Closed, Closer
<1> QED
  BY <1>1, <1>2

LEMMA EndsExtended ==
  ASSUME NEW t, Extended(t), NEW i \in 1..Len(src), NEW j \in 1..Len(src)
  PROVE  Ends(i, j)' <=> Ends(i, j)
<1>1. Len(src) \in Nat
  BY SrcFacts
<1>2. \A k \in 0..Len(src) : Depth(k)' = Depth(k)
  BY DepthExtended
<1>3. i \in 0..Len(src) /\ j \in 0..Len(src)
      /\ \A k \in i..(j - 1) : k \in 0..Len(src)
  BY <1>1
<1> QED
  BY <1>2, <1>3 DEF Ends

LEMMA ClosedExtended ==
  ASSUME NEW t, Extended(t), NEW i \in 1..Len(src)
  PROVE  /\ Closed(i) => /\ Closed(i)' /\ Closer(i)' = Closer(i)
                         /\ Closer(i) \in 1..Len(src) /\ Ends(i, Closer(i))
         /\ ~Closed(i) /\ Closed(i)' => Closer(i)' = Len(src) + 1
<1>1. Len(src) \in Nat /\ Len(src') = Len(src) + 1 /\ i \in Nat
  BY SrcFacts
<1>2. ASSUME Closed(i)
      PROVE  /\ Closed(i)' /\ Closer(i)' = Closer(i)
             /\ Closer(i) \in 1..Len(src) /\ Ends(i, Closer(i))
  <2>1. PICK j \in 1..Len(src) : Ends(i, j)
    BY <1>2 DEF Closed
  <2>2. Ends(i, j)' /\ j \in Nat /\ j \in 1..Len(src')
    BY <1>1, <2>1, EndsExtended
  <2> QED
    BY <1>1, <2>1, <2>2, CloserIs
<1>3. ASSUME ~Closed(i), Closed(i)' PROVE Closer(i)' = Len(src) + 1
  <2>1. PICK j \in 1..Len(src') : Ends(i, j)'
    BY <1>3 DEF Closed
  <2>2. j \notin 1..Len(src)
    BY <1>3, <2>1, EndsExtended DEF Closed
  <2>3. j = Len(src) + 1
    BY <1>1, <2>1, <2>2
  <2> QED
    BY <1>1, <2>1, <2>3, CloserIs
<1> QED
  BY <1>2, <1>3

LEMMA EnclosesExtended ==
  ASSUME NEW t, Extended(t), NEW i \in 1..Len(src), NEW j \in 1..Len(src)
  PROVE  Encloses(i, j)' <=> Encloses(i, j)
<1>1. Len(src) \in Nat /\ src'[i] = src[i]
  BY SrcFacts
<1>2. CASE Closed(i)
  BY <1>1, <1>2, ClosedExtended DEF Encloses
<1>3. CASE ~Closed(i)
  BY <1>1, <1>3, ClosedExtended DEF Encloses
<1> QED
  BY <1>2, <1>3

(* What Innermost picks, without the choice.                               *)
IsInnermost(i, kinds, j) ==
  /\ i \in 1..(j - 1) /\ src[i] \in kinds /\ Encloses(i, j)
  /\ \A k \in (i + 1)..(j - 1) : ~(src[k] \in kinds /\ Encloses(k, j))

LEMMA InnermostIs ==
  ASSUME NEW j \in Nat, NEW kinds, NEW i, IsInnermost(i, kinds, j)
  PROVE  Innermost(kinds, j) = i
<1> DEFINE P(x) == /\ src[x] \in kinds /\ Encloses(x, j)
                   /\ \A k \in (x + 1)..(j - 1) : ~(src[k] \in kinds /\ Encloses(k, j))
<1>1. i \in 1..(j - 1) /\ P(i)
  BY DEF IsInnermost
<1>2. ASSUME NEW x \in 1..(j - 1), P(x) PROVE x = i
  <2>1. x < i => i \in (x + 1)..(j - 1)
    BY <1>1
  <2>2. i < x => x \in (i + 1)..(j - 1)
    BY <1>1
  <2>3. ~(x < i) /\ ~(i < x)
    BY <1>1, <1>2, <2>1, <2>2
  <2> QED
    BY <1>1, <2>3
<1> QED
  BY <1>1, <1>2 DEF Innermost

LEMMA IsInnermostExtended ==
  ASSUME NEW t, Extended(t), NEW kinds, NEW i, NEW j \in 1..Len(src)
  PROVE  IsInnermost(i, kinds, j)' <=> IsInnermost(i, kinds, j)
<1>1. Len(src) \in Nat /\ \A k \in 1..Len(src) : src'[k] = src[k]
  BY SrcFacts
<1>2. \A k \in 1..Len(src) : Encloses(k, j)' <=> Encloses(k, j)
  BY EnclosesExtended
<1>3. \A k \in 1..(j - 1) : k \in 1..Len(src)
  BY <1>1
<1>4. i \in 1..(j - 1) => \A k \in (i + 1)..(j - 1) : k \in 1..(j - 1)
  BY <1>1
<1> QED
  BY <1>1, <1>2, <1>3, <1>4 DEF IsInnermost

-----------------------------------------------------------------------------
(* The open structures and the tokens that opened them: pos[d] is the      *)
(* token that opened the structure at depth d, and nothing else is open.   *)

Hist(pos) ==
  /\ pos \in [1..Len(open) -> 1..Len(src)]
  /\ \A N \in Nat : N = Len(src) => Depth(N) = Len(open)
  /\ \A d \in 1..Len(open) :
       /\ src[pos[d]] \in Opens /\ Depth(pos[d]) = d
       /\ \A j \in pos[d]..Len(src) : Depth(j) >= d
  /\ \A i \in 1..Len(src) :
       src[i] \in Opens /\ ~Closed(i) => \E d \in 1..Len(open) : pos[d] = i

(* An inner structure was opened after the one around it.                  *)
LEMMA HistOrder ==
  ASSUME NEW pos, Hist(pos), Len(open) \in Nat, Len(src) \in Nat
  PROVE  /\ \A d \in 1..Len(open) : pos[d] \in Nat /\ pos[d] \in 1..Len(src)
         /\ \A d, e \in 1..Len(open) : d < e => pos[d] < pos[e]
         /\ \A d \in 1..Len(open) : ~Closed(pos[d])
<1>1. \A d \in 1..Len(open) : pos[d] \in Nat /\ pos[d] \in 1..Len(src)
  BY DEF Hist
<1>2. \A d \in 1..Len(open) :
        Depth(pos[d]) = d /\ \A j \in pos[d]..Len(src) : Depth(j) >= d
  BY DEF Hist
<1>3. ASSUME NEW d \in 1..Len(open), NEW e \in 1..Len(open), d < e
      PROVE  pos[d] < pos[e]
  <2>1. ASSUME ~(pos[d] < pos[e]) PROVE FALSE
    <3>1. pos[d] \in pos[e]..Len(src)
      BY <1>1, <2>1
    <3>2. Depth(pos[d]) >= e /\ Depth(pos[d]) = d
      BY <1>2, <3>1
    <3> QED
      BY <1>3, <3>2
  <2> QED
    BY <2>1
<1>4. ASSUME NEW d \in 1..Len(open), Closed(pos[d]) PROVE FALSE
  <2>1. PICK j \in 1..Len(src) : Ends(pos[d], j)
    BY <1>4 DEF Closed
  <2>2. pos[d] < j /\ Depth(j) < Depth(pos[d])
    BY <2>1 DEF Ends
  <2>3. j \in pos[d]..Len(src)
    BY <1>1, <2>2
  <2>4. Depth(j) >= d /\ Depth(pos[d]) = d /\ Depth(j) \in Int
    BY <1>2, <2>3, DepthType
  <2> QED
    BY <2>2, <2>4
<1> QED
  BY <1>1, <1>3, <1>4

(* A token in the middle of a structure, or inside it.                     *)
LEMMA HistKeeps ==
  ASSUME NEW t, Extended(t), t \notin Opens, t \notin Closes,
         Len(open) \in Nat, Len(open') = Len(open), NEW pos, Hist(pos)
  PROVE  Hist(pos)'
<1> DEFINE n == Len(open)
<1>1. /\ Len(src) \in Nat /\ Len(src') = Len(src) + 1
      /\ src'[Len(src) + 1] = t /\ \A k \in 1..Len(src) : src'[k] = src[k]
  BY SrcFacts
<1>2. pos \in [1..Len(open') -> 1..Len(src')]
  BY <1>1 DEF Hist
<1>3. \A i \in 0..Len(src) : Depth(i)' = Depth(i)
  BY DepthExtended
<1>4. \A N \in Nat : N = Len(src') => Depth(N)' = Len(open')
  <2> TAKE N \in Nat
  <2> HAVE N = Len(src')
  <2>1. Depth(N)' = Depth(Len(src)) + 0
    BY <1>1, DepthExtended DEF Weight
  <2>2. Depth(Len(src)) = Len(open)
    BY <1>1 DEF Hist
  <2> QED
    BY <2>1, <2>2
<1>5. ASSUME NEW d \in 1..Len(open')
      PROVE  /\ src'[pos[d]] \in Opens /\ Depth(pos[d])' = d
             /\ \A j \in pos[d]..Len(src') : Depth(j)' >= d
  <2>1. /\ d \in 1..Len(open) /\ pos[d] \in 1..Len(src)
        /\ src[pos[d]] \in Opens /\ Depth(pos[d]) = d
        /\ \A j \in pos[d]..Len(src) : Depth(j) >= d
    BY <1>5 DEF Hist
  <2>2. pos[d] \in 0..Len(src)
    BY <1>1, <2>1
  <2>3. src'[pos[d]] \in Opens /\ Depth(pos[d])' = d
    BY <1>1, <1>3, <2>1, <2>2
  <2>4. ASSUME NEW j \in pos[d]..Len(src') PROVE Depth(j)' >= d
    <3>1. CASE j = Len(src')
      BY <1>1, <1>4, <1>5, <3>1
    <3>2. CASE j # Len(src')
      <4>1. j \in pos[d]..Len(src) /\ j \in 0..Len(src)
        BY <1>1, <2>1, <2>4, <3>2
      <4> QED
        BY <1>3, <2>1, <4>1
    <3> QED
      BY <3>1, <3>2
  <2> QED
    BY <2>3, <2>4
<1>6. ASSUME NEW i \in 1..Len(src'), src'[i] \in Opens, ~Closed(i)'
      PROVE  \E d \in 1..Len(open') : pos[d] = i
  <2>1. i # Len(src) + 1
    BY <1>1, <1>6
  <2>2. i \in 1..Len(src)
    BY <1>1, <2>1
  <2>3. src[i] \in Opens /\ ~Closed(i)
    BY <1>1, <1>6, <2>2, ClosedExtended
  <2> QED
    BY <2>2, <2>3 DEF Hist
<1> QED
  BY <1>2, <1>4, <1>5, <1>6 DEF Hist

(* A token that opens a structure.                                         *)
LEMMA HistOpens ==
  ASSUME NEW t, Extended(t), t \in Opens,
         Len(open) \in Nat, Len(open') = Len(open) + 1, NEW pos, Hist(pos),
         NEW new, new = [d \in 1..(Len(open) + 1) |->
                           IF d <= Len(open) THEN pos[d] ELSE Len(src) + 1]
  PROVE  Hist(new)'
<1>1. /\ Len(src) \in Nat /\ Len(src') = Len(src) + 1
      /\ src'[Len(src) + 1] = t /\ \A k \in 1..Len(src) : src'[k] = src[k]
  BY SrcFacts
<1>2. new \in [1..Len(open') -> 1..Len(src')]
  BY <1>1 DEF Hist
<1>3. \A i \in 0..Len(src) : Depth(i)' = Depth(i)
  BY DepthExtended
<1>4. \A N \in Nat : N = Len(src') => Depth(N)' = Len(open')
  <2> TAKE N \in Nat
  <2> HAVE N = Len(src')
  <2>1. Depth(N)' = Depth(Len(src)) + 1
    BY <1>1, DepthExtended DEF Weight
  <2>2. Depth(Len(src)) = Len(open)
    BY <1>1 DEF Hist
  <2> QED
    BY <2>1, <2>2
<1>5. ASSUME NEW d \in 1..Len(open')
      PROVE  /\ src'[new[d]] \in Opens /\ Depth(new[d])' = d
             /\ \A j \in new[d]..Len(src') : Depth(j)' >= d
  <2>1. CASE d = Len(open) + 1
    <3>1. new[d] = Len(src') /\ Len(src') \in Nat
      BY <1>1, <2>1
    <3>2. \A j \in new[d]..Len(src') : j = Len(src')
      BY <3>1
    <3>3. Depth(new[d])' = d
      BY <1>4, <2>1, <3>1
    <3> QED
      BY <1>1, <2>1, <3>1, <3>2, <3>3
  <2>2. CASE d # Len(open) + 1
    <3>1. d \in 1..Len(open) /\ new[d] = pos[d]
      BY <1>5, <2>2
    <3>2. /\ pos[d] \in 1..Len(src)
          /\ src[pos[d]] \in Opens /\ Depth(pos[d]) = d
          /\ \A j \in pos[d]..Len(src) : Depth(j) >= d
      BY <3>1 DEF Hist
    <3>3. pos[d] \in 0..Len(src)
      BY <1>1, <3>2
    <3>4. src'[pos[d]] \in Opens /\ Depth(pos[d])' = d
      BY <1>1, <1>3, <3>2, <3>3
    <3>5. ASSUME NEW j \in pos[d]..Len(src') PROVE Depth(j)' >= d
      <4>1. CASE j = Len(src')
        BY <1>1, <1>4, <1>5, <4>1
      <4>2. CASE j # Len(src')
        <5>1. j \in pos[d]..Len(src) /\ j \in 0..Len(src)
          BY <1>1, <3>2, <3>5, <4>2
        <5> QED
          BY <1>3, <3>2, <5>1
      <4> QED
        BY <4>1, <4>2
    <3> QED
      BY <3>1, <3>4, <3>5
  <2> QED
    BY <2>1, <2>2
<1>6. ASSUME NEW i \in 1..Len(src'), src'[i] \in Opens, ~Closed(i)'
      PROVE  \E d \in 1..Len(open') : new[d] = i
  <2>1. CASE i = Len(src) + 1
    BY <1>1, <2>1
  <2>2. CASE i # Len(src) + 1
    <3>1. i \in 1..Len(src)
      BY <1>1, <2>2
    <3>2. src[i] \in Opens /\ ~Closed(i)
      BY <1>1, <1>6, <3>1, ClosedExtended
    <3>3. PICK d \in 1..Len(open) : pos[d] = i
      BY <3>1, <3>2 DEF Hist
    <3>4. d \in 1..Len(open') /\ new[d] = pos[d]
      BY <3>3
    <3> QED
      BY <3>3, <3>4
  <2> QED
    BY <2>1, <2>2
<1> QED
  BY <1>2, <1>4, <1>5, <1>6 DEF Hist

(* A token that closes the innermost structure.                            *)
LEMMA TopCloses ==
  ASSUME NEW t, Extended(t), t \in Closes,
         Len(open) \in Nat, Len(open) >= 1, NEW pos, Hist(pos),
         NEW i, i = pos[Len(open)], NEW N, N = Len(src) + 1
  PROVE  Ends(i, N)' /\ Closed(i)' /\ Closer(i)' = N
<1>1. /\ Len(src) \in Nat /\ Len(src') = Len(src) + 1
  BY SrcFacts
<1>2. \A k \in 0..Len(src) : Depth(k)' = Depth(k)
  BY DepthExtended
<1>3. /\ i \in 1..Len(src) /\ Depth(i) = Len(open)
      /\ \A k \in i..Len(src) : Depth(k) >= Len(open)
  BY DEF Hist
<1>4. Depth(N)' = Len(open) - 1
  <2>1. t \notin Opens
    BY DEF Opens, Closes
  <2>2. Depth(N)' = Depth(Len(src)) + (0 - 1)
    BY <2>1, DepthExtended DEF Weight
  <2>3. Depth(Len(src)) = Len(open)
    BY <1>1 DEF Hist
  <2> QED
    BY <2>2, <2>3
<1>5. Depth(i)' = Len(open) /\ \A k \in i..(N - 1) : Depth(k)' >= Len(open)
  <2>1. i \in 0..Len(src) /\ \A k \in i..(N - 1) : k \in 0..Len(src) /\ k \in i..Len(src)
    BY <1>1, <1>3
  <2> QED
    BY <1>2, <1>3, <2>1
<1>6. Ends(i, N)'
  <2>1. i < N
    BY <1>1, <1>3
  <2> QED
    BY <1>4, <1>5, <2>1 DEF Ends
<1>7. i \in Nat /\ N \in Nat /\ N \in 1..Len(src')
  BY <1>1, <1>3
<1> QED
  BY <1>1, <1>6, <1>7, CloserIs

LEMMA HistCloses ==
  ASSUME NEW t, Extended(t), t \in Closes,
         Len(open) \in Nat, Len(open) >= 1, Len(open') = Len(open) - 1,
         NEW pos, Hist(pos),
         NEW new, new = [d \in 1..(Len(open) - 1) |-> pos[d]]
  PROVE  Hist(new)'
<1>1. /\ Len(src) \in Nat /\ Len(src') = Len(src) + 1
      /\ src'[Len(src) + 1] = t /\ \A k \in 1..Len(src) : src'[k] = src[k]
  BY SrcFacts
<1>2. new \in [1..Len(open') -> 1..Len(src')]
  BY <1>1 DEF Hist
<1>3. \A i \in 0..Len(src) : Depth(i)' = Depth(i)
  BY DepthExtended
<1>4. \A N \in Nat : N = Len(src') => Depth(N)' = Len(open')
  <2> TAKE N \in Nat
  <2> HAVE N = Len(src')
  <2>1. t \notin Opens
    BY DEF Opens, Closes
  <2>2. Depth(N)' = Depth(Len(src)) + (0 - 1)
    BY <1>1, <2>1, DepthExtended DEF Weight
  <2>3. Depth(Len(src)) = Len(open)
    BY <1>1 DEF Hist
  <2> QED
    BY <2>2, <2>3
<1>5. ASSUME NEW d \in 1..Len(open')
      PROVE  /\ src'[new[d]] \in Opens /\ Depth(new[d])' = d
             /\ \A j \in new[d]..Len(src') : Depth(j)' >= d
  <2>1. d \in 1..Len(open) /\ new[d] = pos[d]
    BY <1>5
  <2>2. /\ pos[d] \in 1..Len(src)
        /\ src[pos[d]] \in Opens /\ Depth(pos[d]) = d
        /\ \A j \in pos[d]..Len(src) : Depth(j) >= d
    BY <2>1 DEF Hist
  <2>3. pos[d] \in 0..Len(src)
    BY <1>1, <2>2
  <2>4. src'[pos[d]] \in Opens /\ Depth(pos[d])' = d
    BY <1>1, <1>3, <2>2, <2>3
  <2>5. ASSUME NEW j \in pos[d]..Len(src') PROVE Depth(j)' >= d
    <3>1. CASE j = Len(src')
      BY <1>1, <1>4, <1>5, <3>1
    <3>2. CASE j # Len(src')
      <4>1. j \in pos[d]..Len(src) /\ j \in 0..Len(src)
        BY <1>1, <2>2, <2>5, <3>2
      <4> QED
        BY <1>3, <2>2, <4>1
    <3> QED
      BY <3>1, <3>2
  <2> QED
    BY <2>1, <2>4, <2>5
<1>6. ASSUME NEW i \in 1..Len(src'), src'[i] \in Opens, ~Closed(i)'
      PROVE  \E d \in 1..Len(open') : new[d] = i
  <2>1. i # Len(src) + 1
    BY <1>1, <1>6 DEF Opens, Closes
  <2>2. i \in 1..Len(src)
    BY <1>1, <2>1
  <2>3. src[i] \in Opens /\ ~Closed(i)
    BY <1>1, <1>6, <2>2, ClosedExtended
  <2>4. PICK d \in 1..Len(open) : pos[d] = i
    BY <2>2, <2>3 DEF Hist
  <2>5. d # Len(open)
    BY <1>1, <1>6, <2>4, TopCloses, CloserIs
  <2>6. d \in 1..Len(open') /\ new[d] = pos[d]
    BY <2>4, <2>5
  <2> QED
    BY <2>4, <2>6
<1> QED
  BY <1>2, <1>4, <1>5, <1>6 DEF Hist

-----------------------------------------------------------------------------
(* Cells.                                                                  *)

Ops == {"lit", "work", "exit", "not", "branch", "0branch", "over", "=", "drop",
        "(do)", "2dup", "<>", "(loop)", "(+loop)", "unloop", "offset"}

CodeCells == [op : Ops, arg : Int]

LEMMA CellFacts ==
  /\ \A o \in Ops : Op(o) \in CodeCells /\ Op(o).op = o /\ Op(o).arg = 0
  /\ \A n \in Int : /\ Offset(n) \in CodeCells
                     /\ Offset(n).op = "offset" /\ Offset(n).arg = n
  /\ Unresolved \in CodeCells /\ Unresolved.op = "offset" /\ Unresolved.arg = 0
<1>1. \A o \in Ops : Op(o) \in CodeCells /\ Op(o).op = o /\ Op(o).arg = 0
  BY DEF CodeCells, Op
<1>2. \A n \in Int : /\ Offset(n) \in CodeCells
                     /\ Offset(n).op = "offset" /\ Offset(n).arg = n
  BY DEF CodeCells, Offset, Ops
<1> QED
  BY <1>1, <1>2 DEF Unresolved

(* Cells appended to a word.                                               *)
LEMMA AppendFacts ==
  ASSUME NEW c \in Seq(CodeCells), NEW new \in Seq(CodeCells)
  PROVE  /\ c \o new \in Seq(CodeCells) /\ Len(c) \in Nat /\ Len(new) \in Nat
         /\ Len(c \o new) = Len(c) + Len(new)
         /\ \A a \in 1..Len(c) : (c \o new)[a] = c[a]
         /\ \A k \in 1..Len(new) : (c \o new)[Len(c) + k] = new[k]
<1>1. /\ c \o new \in Seq(CodeCells) /\ Len(c \o new) = Len(c) + Len(new)
      /\ \A i \in 1..Len(c) + Len(new) :
           (c \o new)[i] = IF i <= Len(c) THEN c[i] ELSE new[i - Len(c)]
  BY ConcatProperties
<1>2. Len(c) \in Nat /\ Len(new) \in Nat
  BY LenProperties
<1>3. \A a \in 1..Len(c) : (c \o new)[a] = c[a]
  BY <1>1, <1>2
<1>4. \A k \in 1..Len(new) : (c \o new)[Len(c) + k] = new[k]
  <2> TAKE k \in 1..Len(new)
  <2>1. /\ Len(c) + k \in 1..Len(c) + Len(new) /\ ~(Len(c) + k <= Len(c))
        /\ (Len(c) + k) - Len(c) = k
    BY <1>2
  <2> QED
    BY <1>1, <2>1
<1> QED
  BY <1>1, <1>2, <1>3, <1>4

(* RESOLVE fills in one cell, ResolveAll those of a set.                   *)
LEMMA ResolveFacts ==
  ASSUME NEW c \in Seq(CodeCells)
  PROVE  /\ \A a \in Int :
              /\ Resolve(c, a) \in Seq(CodeCells) /\ Len(Resolve(c, a)) = Len(c)
              /\ \A i \in 1..Len(c) :
                   /\ Resolve(c, a)[i].op = c[i].op
                   /\ i # a => Resolve(c, a)[i] = c[i]
                   /\ i = a => Resolve(c, a)[i].arg = Len(c) + 1 - a
         /\ \A as :
              /\ ResolveAll(c, as) \in Seq(CodeCells) /\ Len(ResolveAll(c, as)) = Len(c)
              /\ \A i \in 1..Len(c) :
                   /\ ResolveAll(c, as)[i].op = c[i].op
                   /\ i \notin as => ResolveAll(c, as)[i] = c[i]
                   /\ i \in as => ResolveAll(c, as)[i].arg = Len(c) + 1 - i
<1>1. /\ Len(c) \in Nat /\ DOMAIN c = 1..Len(c)
      /\ \A i \in 1..Len(c) : c[i] \in CodeCells
  BY LenProperties, ElementOfSeq
<1>2. ASSUME NEW r, r \in [1..Len(c) -> CodeCells]
      PROVE  r \in Seq(CodeCells) /\ Len(r) = Len(c)
  <2>1. r \in Seq(CodeCells)
    BY <1>1, <1>2, IsASeq
  <2>2. DOMAIN r = 1..Len(c) /\ DOMAIN r = 1..Len(r) /\ Len(r) \in Nat
    BY <1>2, <2>1, LenProperties
  <2> QED
    BY <1>1, <2>1, <2>2
<1>3. \A i \in 1..Len(c) : \A n \in Int :
        /\ [c[i] EXCEPT !.arg = n] \in CodeCells
        /\ [c[i] EXCEPT !.arg = n].op = c[i].op
        /\ [c[i] EXCEPT !.arg = n].arg = n
  BY <1>1 DEF CodeCells
<1>4. ASSUME NEW a \in Int
      PROVE  /\ Resolve(c, a) \in Seq(CodeCells) /\ Len(Resolve(c, a)) = Len(c)
             /\ \A i \in 1..Len(c) :
                  /\ Resolve(c, a)[i].op = c[i].op
                  /\ i # a => Resolve(c, a)[i] = c[i]
                  /\ i = a => Resolve(c, a)[i].arg = Len(c) + 1 - a
  <2> DEFINE r == Resolve(c, a)
  <2>1. r = [i \in 1..Len(c) |->
              IF i = a THEN [c[i] EXCEPT !.arg = Len(c) + 1 - a] ELSE c[i]]
    BY <1>1 DEF Resolve
  <2>2. Len(c) + 1 - a \in Int
    BY <1>1
  <2> HIDE DEF r
  <2>3. \A i \in 1..Len(c) : r[i] \in CodeCells /\ r[i].op = c[i].op
    BY <1>1, <1>3, <2>1, <2>2
  <2>4. r \in [1..Len(c) -> CodeCells]
    BY <2>1, <2>3
  <2>5. r \in Seq(CodeCells) /\ Len(r) = Len(c)
    BY <1>2, <2>4
  <2>6. \A i \in 1..Len(c) : /\ i # a => r[i] = c[i]
                             /\ i = a => r[i].arg = Len(c) + 1 - a
    BY <1>3, <2>1, <2>2
  <2> QED
    BY <2>3, <2>5, <2>6 DEF r
<1>5. ASSUME NEW as
      PROVE  /\ ResolveAll(c, as) \in Seq(CodeCells)
             /\ Len(ResolveAll(c, as)) = Len(c)
             /\ \A i \in 1..Len(c) :
                  /\ ResolveAll(c, as)[i].op = c[i].op
                  /\ i \notin as => ResolveAll(c, as)[i] = c[i]
                  /\ i \in as => ResolveAll(c, as)[i].arg = Len(c) + 1 - i
  <2> DEFINE r == ResolveAll(c, as)
  <2>1. r = [i \in 1..Len(c) |->
              IF i \in as THEN [c[i] EXCEPT !.arg = Len(c) + 1 - i] ELSE c[i]]
    BY <1>1 DEF ResolveAll
  <2>2. \A i \in 1..Len(c) : Len(c) + 1 - i \in Int
    BY <1>1
  <2> HIDE DEF r
  <2>3. \A i \in 1..Len(c) : r[i] \in CodeCells /\ r[i].op = c[i].op
    BY <1>1, <1>3, <2>1, <2>2
  <2>4. r \in [1..Len(c) -> CodeCells]
    BY <2>1, <2>3
  <2>5. r \in Seq(CodeCells) /\ Len(r) = Len(c)
    BY <1>2, <2>4
  <2>6. \A i \in 1..Len(c) : /\ i \notin as => r[i] = c[i]
                             /\ i \in as => r[i].arg = Len(c) + 1 - i
    BY <1>3, <2>1, <2>2
  <2> QED
    BY <2>3, <2>5, <2>6 DEF r
<1> QED
  BY <1>4, <1>5

-----------------------------------------------------------------------------
(* The types, and HERE never moving back.                                  *)

OpenKinds == Opens \cup {"else", "while"}

Types ==
  /\ code \in Seq(CodeCells) /\ cs \in Seq(Nat) /\ ls \in Seq(Nat \ {0})
  /\ mode \in {"compile", "aborted", "ready"} /\ stale \in BOOLEAN
  /\ open \in Seq(OpenKinds) /\ (mode = "ready" => open = <<>>)
  /\ src \in Seq(AllTokens) /\ \A i \in 1..Len(src) : src[i] \in Vocabulary
  /\ at \in Seq(Nat) /\ Len(at) = Len(src) + 1
  /\ \A j, k \in 1..Len(at) : j <= k => at[j] <= at[k]
  /\ \A k \in 1..Len(at) : at[k] <= Len(code) + 1
  /\ mode # "ready" => at[Len(at)] = Len(code) + 1

LEMMA TypedLengths ==
  ASSUME Types
  PROVE  /\ Len(code) \in Nat /\ Len(cs) \in Nat /\ Len(ls) \in Nat
         /\ Len(open) \in Nat /\ Len(src) \in Nat /\ Len(at) \in Nat
BY LenProperties DEF Types

(* What every token does to the history.                                   *)
Enters(t) ==
  /\ mode = "compile" /\ t \in Vocabulary /\ Extended(t)
  /\ code' \in Seq(CodeCells) /\ Len(code') >= Len(code)
  /\ at' = Append(at, Len(code') + 1)
  /\ UNCHANGED stale

LEMMA AtFacts ==
  ASSUME Types, NEW t, Enters(t)
  PROVE  /\ at' \in Seq(Nat) /\ Len(at') = Len(src) + 2
         /\ \A k \in 1..(Len(src) + 1) : at'[k] = at[k]
         /\ at'[Len(src) + 2] = Len(code') + 1
         /\ Len(code') \in Nat
<1>1. Len(code') \in Nat
  BY LenProperties DEF Enters
<1>2. at \in Seq(Nat) /\ Len(at) = Len(src) + 1 /\ Len(code') + 1 \in Nat
  BY <1>1 DEF Types
<1>3. Len(src) \in Nat
  BY TypedLengths
<1> QED
  BY <1>1, <1>2, <1>3, AppendProperties DEF Enters

LEMMA EntersTypes ==
  ASSUME Types, NEW t, Enters(t),
         cs' \in Seq(Nat), ls' \in Seq(Nat \ {0}), open' \in Seq(OpenKinds),
         mode' \in {"compile", "aborted"}
  PROVE  Types'
<1>1. /\ Len(src) \in Nat /\ Len(code) \in Nat /\ Len(code') \in Nat
      /\ Len(code') >= Len(code)
  BY TypedLengths, AtFacts DEF Enters
<1>2. /\ src' \in Seq(AllTokens) /\ Len(src') = Len(src) + 1
      /\ \A i \in 1..Len(src') : src'[i] \in Vocabulary
  <2>1. /\ src' \in Seq(AllTokens) /\ Len(src') = Len(src) + 1
        /\ src'[Len(src) + 1] = t /\ \A k \in 1..Len(src) : src'[k] = src[k]
    BY SrcFacts DEF Enters
  <2>2. \A i \in 1..Len(src) : src[i] \in Vocabulary
    BY DEF Types
  <2>3. t \in Vocabulary
    BY DEF Enters
  <2>4. ASSUME NEW i \in 1..Len(src') PROVE src'[i] \in Vocabulary
    <3>1. i = Len(src) + 1 \/ i \in 1..Len(src)
      BY <1>1, <2>1, <2>4
    <3> QED
      BY <2>1, <2>2, <2>3, <3>1
  <2> QED
    BY <2>1, <2>4
<1>3. /\ at' \in Seq(Nat) /\ Len(at') = Len(src) + 2
      /\ \A k \in 1..(Len(src) + 1) : at'[k] = at[k]
      /\ at'[Len(src) + 2] = Len(code') + 1
  BY AtFacts
<1>4. \A k \in 1..(Len(src) + 1) : at[k] \in Nat /\ at[k] <= Len(code) + 1
  BY <1>1, ElementOfSeq DEF Types
<1>5. \A k \in 1..Len(at') : at'[k] <= Len(code') + 1
  <2> TAKE k \in 1..Len(at')
  <2>1. k \in 1..(Len(src) + 1) \/ k = Len(src) + 2
    BY <1>1, <1>3
  <2> QED
    BY <1>1, <1>3, <1>4, <2>1
<1>6. \A j, k \in 1..Len(at') : j <= k => at'[j] <= at'[k]
  <2> TAKE j, k \in 1..Len(at')
  <2> HAVE j <= k
  <2>1. CASE k = Len(src) + 2
    BY <1>3, <1>5, <2>1
  <2>2. CASE k # Len(src) + 2
    <3>1. j \in 1..(Len(src) + 1) /\ k \in 1..(Len(src) + 1)
      BY <1>1, <1>3, <2>2
    <3>2. at[j] <= at[k]
      BY <3>1 DEF Types
    <3> QED
      BY <1>3, <3>1, <3>2
  <2> QED
    BY <2>1, <2>2
<1>7. /\ stale' \in BOOLEAN /\ code' \in Seq(CodeCells)
      /\ mode' # "ready" /\ mode' \in {"compile", "aborted", "ready"}
  BY DEF Types, Enters
<1>8. Len(at') = Len(src') + 1 /\ at'[Len(at')] = Len(code') + 1
  BY <1>1, <1>2, <1>3
<1> QED
  BY <1>2, <1>3, <1>5, <1>6, <1>7, <1>8 DEF Types

-----------------------------------------------------------------------------
(* The parameter stack while a word is compiled: what earlier words left,  *)
(* B[0] items, and above them what belongs to the open structures, the     *)
(* items B[d-1]+1 to B[d] to the one at depth d.                           *)

Wide(t) == IF t \in {"while", "do", "?do"} THEN 2 ELSE 1

(* The tokens that open what is now a t.                                   *)
Source(t) == IF t = "else" THEN {"if", "unless"}
             ELSE IF t = "while" THEN {"begin"} ELSE {t}

FrameFits(o, s, a, c, B, pos, d) ==
  /\ Up(o, d) # "case" => B[d] = B[d - 1] + Wide(Up(o, d))
  /\ Up(o, d) = "case" => /\ Up(c, B[d - 1] + 1) = 0
                          /\ \A q \in (B[d - 1] + 2)..B[d] : Up(c, q) # 0
  /\ Up(o, d) = "of" => d > 1 /\ Up(o, d - 1) = "case"
  /\ Up(o, d) \in {"do", "?do"} => Up(c, B[d - 1] + 1) = a[pos[d] + 1]
  /\ s[pos[d]] \in Source(Up(o, d))

Shaped(o, s, a, c, b, B, pos) ==
  /\ B \in [0..Len(o) -> Nat] /\ B[0] = b /\ B[Len(o)] = Len(c)
  /\ \A d, e \in 0..Len(o) : d < e => B[d] < B[e]
  /\ \A d \in 1..Len(o) : FrameFits(o, s, a, c, B, pos, d)

LEMMA FrameStays ==
  ASSUME NEW o, NEW s, NEW a, NEW c, NEW B, NEW pos, NEW d \in Nat,
         NEW o2, NEW s2, NEW a2, NEW c2, NEW B2, NEW pos2,
         FrameFits(o, s, a, c, B, pos, d),
         Up(o2, d) = Up(o, d), d > 1 => Up(o2, d - 1) = Up(o, d - 1),
         s2[pos2[d]] = s[pos[d]], a2[pos2[d] + 1] = a[pos[d] + 1],
         B2[d] = B[d], B2[d - 1] = B[d - 1],
         B[d] \in Nat, B[d - 1] \in Nat, B[d - 1] < B[d],
         \A q \in 1..B[d] : Up(c2, q) = Up(c, q)
  PROVE  FrameFits(o2, s2, a2, c2, B2, pos2, d)
<1>1. B[d - 1] + 1 \in 1..B[d] /\ \A q \in (B[d - 1] + 2)..B[d] : q \in 1..B[d]
  OBVIOUS
<1> QED
  BY <1>1 DEF FrameFits

(* A token that leaves the k outer structures and their items alone.       *)
LEMMA LowerFrames ==
  ASSUME Types, NEW t, Enters(t), NEW pos, Hist(pos), NEW b, NEW B,
         Shaped(open, src, at, cs, b, B, pos),
         NEW k \in 0..Len(open), NEW pos2, NEW B2,
         \A d \in 1..k : pos2[d] = pos[d] /\ Up(open', d) = Up(open, d),
         \A d \in 0..k : B2[d] = B[d],
         \A q \in 1..B[k] : Up(cs', q) = Up(cs, q)
  PROVE  \A d \in 1..k : FrameFits(open', src', at', cs', B2, pos2, d)
<1> TAKE d \in 1..k
<1>1. Len(open) \in Nat /\ Len(src) \in Nat
  BY TypedLengths
<1>2. /\ d \in Nat /\ d \in 1..Len(open) /\ d \in 0..k /\ d - 1 \in 0..k
      /\ d \in 0..Len(open) /\ d - 1 \in 0..Len(open) /\ k \in 0..Len(open)
      /\ d - 1 < d /\ (d > 1 => d - 1 \in 1..k)
  BY <1>1
<1>3. /\ B[d] \in Nat /\ B[d - 1] \in Nat /\ B[k] \in Nat /\ B[d - 1] < B[d]
      /\ (d < k => B[d] < B[k])
  BY <1>2 DEF Shaped
<1>4. B[d] <= B[k]
  BY <1>2, <1>3
<1>5. \A q \in 1..B[d] : Up(cs', q) = Up(cs, q)
  BY <1>3, <1>4
<1>6. pos[d] \in 1..Len(src)
  BY <1>2 DEF Hist
<1>7. src'[pos[d]] = src[pos[d]] /\ at'[pos[d] + 1] = at[pos[d] + 1]
  <2>1. src'[pos[d]] = src[pos[d]]
    BY <1>6, SrcFacts DEF Enters
  <2>2. pos[d] + 1 \in 1..(Len(src) + 1)
    BY <1>1, <1>6
  <2> QED
    BY <2>1, <2>2, AtFacts
<1>8. FrameFits(open, src, at, cs, B, pos, d)
  BY <1>2 DEF Shaped
<1>9. pos2[d] = pos[d] /\ Up(open', d) = Up(open, d) /\ B2[d] = B[d]
      /\ B2[d - 1] = B[d - 1] /\ (d > 1 => Up(open', d - 1) = Up(open, d - 1))
  BY <1>2
<1> QED
  BY <1>2, <1>3, <1>5, <1>7, <1>8, <1>9, FrameStays

-----------------------------------------------------------------------------
(* The shape of the stack after a token.  Each of these lemmas is about    *)
(* the tokens that treat the open structures alike; pos and B describe the *)
(* state before it.                                                        *)

LEMMA ShapeFacts ==
  ASSUME Types, NEW pos, NEW b, NEW B, Shaped(open, src, at, cs, b, B, pos)
  PROVE  /\ \A d \in 0..Len(open) : B[d] \in Nat /\ B[d] <= Len(cs)
         /\ \A d \in 1..Len(open) : B[d - 1] < B[d] /\ d - 1 \in 0..Len(open)
         /\ B[Len(open)] = Len(cs) /\ B[0] = b
<1>1. /\ \A d \in 0..Len(open) : B[d] \in Nat
      /\ B[Len(open)] = Len(cs) /\ B[0] = b
      /\ \A d, e \in 0..Len(open) : d < e => B[d] < B[e]
  BY DEF Shaped
<1>2. Len(open) \in Nat /\ Len(cs) \in Nat
  BY TypedLengths
<1>3. \A d \in 0..Len(open) : d = Len(open) \/ d < Len(open)
  BY <1>2
<1>4. \A d \in 1..Len(open) : d - 1 < d /\ d - 1 \in 0..Len(open) /\ d \in 0..Len(open)
  BY <1>2
<1>5. Len(open) \in 0..Len(open)
  BY <1>2
<1> QED
  BY <1>1, <1>2, <1>3, <1>4, <1>5

(* A token that opens a structure puts its items on top.                   *)
Pushes(t) ==
  /\ open' = <<t>> \o open
  /\ cs' \in Seq(Nat) /\ Len(cs') = Len(cs) + Wide(t)
  /\ \A q \in 1..Len(cs) : Up(cs', q) = Up(cs, q)
  /\ t = "case" => Up(cs', Len(cs) + 1) = 0
  /\ t = "of" => open # <<>> /\ Head(open) = "case"
  /\ t \in {"do", "?do"} => Up(cs', Len(cs) + 1) = Len(code') + 1

LEMMA ShapePush ==
  ASSUME Types, NEW t \in Opens, Enters(t), NEW pos, Hist(pos), NEW b, NEW B,
         Shaped(open, src, at, cs, b, B, pos), Pushes(t),
         NEW new, new[Len(open) + 1] = Len(src) + 1,
         \A d \in 1..Len(open) : new[d] = pos[d]
  PROVE  \E B2 : /\ Shaped(open', src', at', cs', b, B2, new)
                  /\ \A d \in 0..Len(open) : B2[d] = B[d]
<1> DEFINE n == Len(open)
           B2 == [d \in 0..(n + 1) |-> IF d <= n THEN B[d] ELSE Len(cs')]
<1>1. /\ n \in Nat /\ Len(src) \in Nat /\ Len(cs) \in Nat /\ Len(cs') \in Nat
      /\ Len(cs') = Len(cs) + Wide(t)
  BY TypedLengths, LenProperties DEF Pushes
<1>2. /\ \A d \in 0..n : B[d] \in Nat /\ B[d] <= Len(cs)
      /\ B[n] = Len(cs) /\ B[0] = b
  BY ShapeFacts
<1>3. /\ \A d \in 0..n : B2[d] = B[d]
      /\ B2[n + 1] = Len(cs') /\ B2 \in [0..(n + 1) -> Nat]
  BY <1>1, <1>2
<1>4. /\ Len(open') = n + 1 /\ Up(open', n + 1) = t
      /\ \A d \in 1..n : Up(open', d) = Up(open, d)
  <2>1. open \in Seq(OpenKinds) /\ t \in OpenKinds /\ open' = <<t>> \o open
    BY DEF Types, OpenKinds, Pushes
  <2> QED
    BY <2>1, PushFacts
<1>5. Len(cs') > Len(cs)
  BY <1>1 DEF Wide
<1> HIDE DEF B2
<1>6. \A d \in 1..n : FrameFits(open', src', at', cs', B2, new, d)
  <2>1. n \in 0..n /\ \A d \in 1..n : new[d] = pos[d]
    BY <1>1
  <2>2. \A q \in 1..B[n] : Up(cs', q) = Up(cs, q)
    BY <1>2 DEF Pushes
  <2>3. \A d \in 1..n : new[d] = pos[d] /\ Up(open', d) = Up(open, d)
    BY <1>4, <2>1
  <2>4. \A d \in 0..n : B2[d] = B[d]
    BY <1>3
  <2>5. n \in 0..Len(open)
    BY <2>1
  <2> QED
    BY <2>2, <2>3, <2>4, <2>5, LowerFrames
<1>7. FrameFits(open', src', at', cs', B2, new, n + 1)
  <2>1. /\ B2[n + 1] = Len(cs') /\ B2[(n + 1) - 1] = Len(cs)
    <3>1. (n + 1) - 1 = n /\ n \in 0..n
      BY <1>1
    <3> QED
      BY <1>2, <1>3, <3>1
  <2>2. new[n + 1] = Len(src) + 1
    BY <1>1
  <2>3. src'[Len(src) + 1] = t
    BY SrcFacts DEF Enters
  <2>4. at'[(Len(src) + 1) + 1] = Len(code') + 1
    BY <1>1, AtFacts
  <2>5. t # "else" /\ t # "while"
    BY DEF Opens
  <2>6. t = "of" => n + 1 > 1 /\ Up(open', (n + 1) - 1) = "case"
    <3>1. ASSUME t = "of" PROVE n + 1 > 1 /\ Up(open', (n + 1) - 1) = "case"
      <4>1. open \in Seq(OpenKinds) /\ open # <<>> /\ Head(open) = "case"
        BY <3>1 DEF Types, Pushes
      <4>2. n >= 1 /\ Up(open, n) = "case"
        BY <4>1, PopFacts
      <4>3. (n + 1) - 1 = n /\ n \in 1..n /\ n + 1 > 1
        BY <1>1, <4>2
      <4> QED
        BY <1>4, <4>2, <4>3
    <3> QED
      BY <3>1
  <2>7. t = "case" => \A q \in (Len(cs) + 2)..Len(cs') : Up(cs', q) # 0
    <3>1. t = "case" => Len(cs') = Len(cs) + 1
      BY <1>1 DEF Wide
    <3> QED
      BY <1>1, <3>1
  <2> QED
    BY <1>1, <1>4, <2>1, <2>2, <2>3, <2>4, <2>5, <2>6, <2>7
       DEF FrameFits, Source, Pushes
<1>8. \A d, e \in 0..(n + 1) : d < e => B2[d] < B2[e]
  <2> TAKE d, e \in 0..(n + 1)
  <2> HAVE d < e
  <2>1. CASE e = n + 1
    <3>1. d \in 0..n
      BY <1>1, <2>1
    <3>2. B2[d] \in Nat /\ B2[d] <= Len(cs) /\ B2[e] = Len(cs')
      BY <1>2, <1>3, <2>1, <3>1
    <3> QED
      BY <1>1, <1>5, <3>2
  <2>2. CASE e # n + 1
    <3>1. d \in 0..n /\ e \in 0..n
      BY <1>1, <2>2
    <3> QED
      BY <1>3, <3>1 DEF Shaped
  <2> QED
    BY <2>1, <2>2
<1>9. B2[0] = b /\ B2[Len(open')] = Len(cs')
  BY <1>1, <1>2, <1>3, <1>4
<1>10. \A d \in 1..(n + 1) : FrameFits(open', src', at', cs', B2, new, d)
  <2>1. \A d \in 1..(n + 1) : d \in 1..n \/ d = n + 1
    BY <1>1
  <2> QED
    BY <1>6, <1>7, <2>1
<1> QED
  BY <1>3, <1>4, <1>8, <1>9, <1>10 DEF Shaped

(* A token inside a structure leaves the stack alone.                      *)
LEMMA ShapeKeep ==
  ASSUME Types, NEW t, Enters(t), NEW pos, Hist(pos), NEW b, NEW B,
         Shaped(open, src, at, cs, b, B, pos), open' = open, cs' = cs
  PROVE  Shaped(open', src', at', cs', b, B, pos)
<1>1. Len(open) \in Nat /\ Len(open) \in 0..Len(open)
  BY TypedLengths
<1>2. \A d \in 1..Len(open) : FrameFits(open', src', at', cs', B, pos, d)
  BY <1>1, LowerFrames
<1> QED
  BY <1>2 DEF Shaped

(* A token in the middle of the innermost structure gives it other items.  *)
Turns(t) ==
  /\ Inside(Source(t)) /\ open' = <<t>> \o Tail(open)
  /\ cs' \in Seq(Nat) /\ Len(cs') = Len(cs) - 1 + Wide(t)
  /\ \A q \in 1..(Len(cs) - 1) : Up(cs', q) = Up(cs, q)

LEMMA ShapeTurn ==
  ASSUME Types, NEW t \in {"else", "while"}, Enters(t), NEW pos, Hist(pos),
         NEW b, NEW B, Shaped(open, src, at, cs, b, B, pos), Turns(t)
  PROVE  \E B2 : /\ Shaped(open', src', at', cs', b, B2, pos)
                  /\ \A d \in 0..(Len(open) - 1) : B2[d] = B[d]
<1> DEFINE n == Len(open)
           B2 == [d \in 0..n |-> IF d < n THEN B[d] ELSE Len(cs')]
<1>1. /\ n \in Nat /\ Len(src) \in Nat /\ Len(cs) \in Nat /\ Len(cs') \in Nat
      /\ open # <<>> /\ n >= 1 /\ open \in Seq(OpenKinds)
      /\ Up(open, n) \in Source(t) /\ Len(cs') = Len(cs) - 1 + Wide(t)
  BY TypedLengths, LenProperties, PopFacts DEF Inside, Types, Turns
<1>2. /\ \A d \in 0..n : B[d] \in Nat /\ B[d] <= Len(cs)
      /\ \A d \in 1..n : B[d - 1] < B[d]
      /\ B[n] = Len(cs) /\ B[0] = b
  BY ShapeFacts
<1>3. /\ \A d \in 0..(n - 1) : B2[d] = B[d]
      /\ B2[n] = Len(cs') /\ B2 \in [0..n -> Nat]
  BY <1>1, <1>2
<1>4. /\ Len(open') = n /\ Up(open', n) = t
      /\ \A d \in 1..(n - 1) : Up(open', d) = Up(open, d)
  <2>1. t \in OpenKinds /\ open' = <<t>> \o Tail(open)
    BY DEF OpenKinds, Turns
  <2> QED
    BY <1>1, <2>1, TurnFacts
<1>5. /\ n \in 1..n /\ FrameFits(open, src, at, cs, B, pos, n)
  BY <1>1 DEF Shaped
<1>6. /\ B[n - 1] \in Nat /\ B[n - 1] = Len(cs) - 1
      /\ Len(cs') = B[n - 1] + Wide(t) /\ src[pos[n]] \in Source(t)
  <2>1. Up(open, n) \in {"if", "unless", "begin"} /\ Up(open, n) # "case"
    BY <1>1 DEF Source
  <2>2. Source(Up(open, n)) = {Up(open, n)} /\ Wide(Up(open, n)) = 1
    BY <2>1 DEF Source, Wide
  <2>3. B[n] = B[n - 1] + 1 /\ src[pos[n]] = Up(open, n)
    BY <1>5, <2>1, <2>2 DEF FrameFits
  <2>4. B[n - 1] \in Nat /\ Wide(t) \in Nat
    BY <1>1, <1>2 DEF Wide
  <2> QED
    BY <1>1, <1>2, <2>3, <2>4
<1> HIDE DEF B2
<1>7. \A d \in 1..(n - 1) : FrameFits(open', src', at', cs', B2, pos, d)
  <2>1. n - 1 \in 0..n /\ n - 1 \in 0..(n - 1)
    BY <1>1
  <2>2. \A q \in 1..B[n - 1] : Up(cs', q) = Up(cs, q)
    BY <1>6 DEF Turns
  <2> QED
    BY <1>3, <1>4, <2>1, <2>2, LowerFrames
<1>8. FrameFits(open', src', at', cs', B2, pos, n)
  <2>1. B2[n] = Len(cs') /\ B2[n - 1] = B[n - 1]
    BY <1>1, <1>3
  <2>2. src'[pos[n]] = src[pos[n]]
    BY <1>5, SrcFacts DEF Enters, Hist
  <2> QED
    BY <1>4, <1>6, <2>1, <2>2 DEF FrameFits
<1>9. \A d, e \in 0..n : d < e => B2[d] < B2[e]
  <2> TAKE d, e \in 0..n
  <2> HAVE d < e
  <2>1. CASE e = n
    <3>1. d \in 0..(n - 1) /\ (d = n - 1 \/ d < n - 1) /\ n - 1 \in 0..n
      BY <1>1, <2>1
    <3>2. B[d] \in Nat /\ B[n - 1] \in Nat /\ d \in 0..n
      BY <1>1, <1>2, <3>1
    <3>3. d < n - 1 => B[d] < B[n - 1]
      BY <3>1, <3>2 DEF Shaped
    <3>4. B[d] <= B[n - 1]
      BY <3>1, <3>2, <3>3
    <3>5. B[n - 1] < Len(cs')
      BY <1>1, <1>2, <1>6, <3>2 DEF Wide
    <3> QED
      BY <1>1, <1>3, <2>1, <3>1, <3>2, <3>4, <3>5
  <2>2. CASE e # n
    <3>1. d \in 0..(n - 1) /\ e \in 0..(n - 1)
      BY <1>1, <2>2
    <3> QED
      BY <1>3, <3>1 DEF Shaped
  <2> QED
    BY <2>1, <2>2
<1>10. B2[0] = b /\ B2[Len(open')] = Len(cs')
  BY <1>1, <1>2, <1>3, <1>4
<1>11. \A d \in 1..n : FrameFits(open', src', at', cs', B2, pos, d)
  <2>1. \A d \in 1..n : d \in 1..(n - 1) \/ d = n
    BY <1>1
  <2> QED
    BY <1>7, <1>8, <2>1
<1> QED
  BY <1>3, <1>4, <1>9, <1>10, <1>11 DEF Shaped

(* A token that closes a structure takes all its items away.               *)
Pops(base) ==
  /\ open # <<>> /\ open' = Tail(open)
  /\ cs' \in Seq(Nat) /\ Len(cs') = base
  /\ \A q \in 1..base : Up(cs', q) = Up(cs, q)

LEMMA OpenPopped ==
  ASSUME Types, open # <<>>, open' = Tail(open)
  PROVE  /\ Len(open) \in Nat /\ Len(open) >= 1 /\ Len(open') = Len(open) - 1
         /\ open' \in Seq(OpenKinds) /\ Head(open) = Up(open, Len(open))
         /\ Head(open) = open[1] /\ open \in Seq(OpenKinds)
         /\ \A d \in 1..(Len(open) - 1) : Up(open', d) = Up(open, d)
<1>1. open \in Seq(OpenKinds)
  BY DEF Types
<1> QED
  BY <1>1, PopFacts

(* Two functions that agree on 1 to n.                                     *)
Agree(f, g, n) == \A d \in 1..n : f[d] = g[d]

LEMMA ShapePop ==
  ASSUME Types, NEW t, Enters(t), NEW pos, Hist(pos), NEW b, NEW B,
         Shaped(open, src, at, cs, b, B, pos), Pops(B[Len(open) - 1]),
         NEW new, Agree(new, pos, Len(open) - 1)
  PROVE  \E B2 : /\ Shaped(open', src', at', cs', b, B2, new)
                  /\ \A d \in 0..(Len(open) - 2) : B2[d] = B[d]
<1> DEFINE n == Len(open)
           B2 == [d \in 0..(n - 1) |-> B[d]]
<1>1. /\ n \in Nat /\ n >= 1 /\ Len(open') = n - 1
      /\ \A d \in 1..(n - 1) : Up(open', d) = Up(open, d)
  BY OpenPopped DEF Pops
<1>2. /\ \A d \in 0..n : B[d] \in Nat
      /\ B[0] = b /\ \A d, e \in 0..n : d < e => B[d] < B[e]
  BY DEF Shaped
<1>3. /\ \A d \in 0..(n - 1) : B2[d] = B[d] /\ d \in 0..n
      /\ B2 \in [0..(n - 1) -> Nat] /\ n - 1 \in 0..(n - 1)
  BY <1>1, <1>2
<1> HIDE DEF B2
<1>4. \A d \in 1..(n - 1) : FrameFits(open', src', at', cs', B2, new, d)
  <2>1. \A d \in 1..(n - 1) : new[d] = pos[d] /\ Up(open', d) = Up(open, d)
    BY <1>1 DEF Agree
  <2>2. n - 1 \in 0..Len(open)
    BY <1>1
  <2>3. \A d \in 0..(n - 1) : B2[d] = B[d]
    BY <1>3
  <2>4. \A q \in 1..B[n - 1] : Up(cs', q) = Up(cs, q)
    BY DEF Pops
  <2> DEFINE k == n - 1
  <2>5. /\ k \in 0..Len(open)
        /\ \A d \in 1..k : new[d] = pos[d] /\ Up(open', d) = Up(open, d)
        /\ \A d \in 0..k : B2[d] = B[d]
        /\ \A q \in 1..B[k] : Up(cs', q) = Up(cs, q)
    BY <2>1, <2>2, <2>3, <2>4
  <2> HIDE DEF k
  <2>6. \A d \in 1..k : FrameFits(open', src', at', cs', B2, new, d)
    BY <2>5, LowerFrames
  <2> QED
    BY <2>6 DEF k
<1>5. B2[0] = b /\ B2[Len(open')] = Len(cs')
  BY <1>1, <1>2, <1>3 DEF Pops
<1>6. \A d, e \in 0..(n - 1) : d < e => B2[d] < B2[e]
  BY <1>2, <1>3
<1>7. \A d \in 0..(n - 2) : B2[d] = B[d]
  <2>1. \A d \in 0..(n - 2) : d \in 0..(n - 1)
    BY <1>1
  <2> QED
    BY <1>3, <2>1
<1> QED
  BY <1>1, <1>3, <1>4, <1>5, <1>6, <1>7 DEF Shaped

(* ENDOF closes OF, but its item stays with the CASE around it.            *)
HandsOver ==
  /\ Inside({"of"}) /\ open' = Tail(open)
  /\ cs' \in Seq(Nat) /\ Len(cs') = Len(cs) /\ Up(cs', Len(cs)) # 0
  /\ \A q \in 1..(Len(cs) - 1) : Up(cs', q) = Up(cs, q)

LEMMA ShapeEndOf ==
  ASSUME Types, NEW t, Enters(t), NEW pos, Hist(pos), NEW b, NEW B,
         Shaped(open, src, at, cs, b, B, pos), HandsOver,
         NEW new, \A d \in 1..(Len(open) - 1) : new[d] = pos[d]
  PROVE  \E B2 : /\ Shaped(open', src', at', cs', b, B2, new)
                  /\ \A d \in 0..(Len(open) - 2) : B2[d] = B[d]
<1> DEFINE n == Len(open)
           B2 == [d \in 0..(n - 1) |-> IF d < n - 1 THEN B[d] ELSE Len(cs)]
<1>1. /\ n \in Nat /\ n >= 1 /\ Len(open') = n - 1
      /\ Up(open, n) = "of"
      /\ \A d \in 1..(n - 1) : Up(open', d) = Up(open, d)
  BY OpenPopped DEF HandsOver, Inside
<1>2. /\ \A d \in 0..n : B[d] \in Nat
      /\ B[0] = b /\ B[n] = Len(cs)
      /\ \A d, e \in 0..n : d < e => B[d] < B[e]
  BY DEF Shaped
<1>3. /\ n > 1 /\ Up(open, n - 1) = "case" /\ B[n] = B[n - 1] + 1
  <2>1. FrameFits(open, src, at, cs, B, pos, n)
    BY <1>1 DEF Shaped
  <2> QED
    BY <1>1, <2>1 DEF FrameFits, Wide
<1>4. Len(cs) \in Nat /\ Len(cs') = Len(cs) /\ Len(src) \in Nat
  BY TypedLengths DEF HandsOver
<1>5. /\ \A d \in 0..(n - 2) : B2[d] = B[d] /\ d \in 0..n
      /\ B2 \in [0..(n - 1) -> Nat] /\ B2[n - 1] = Len(cs)
      /\ n - 1 \in 0..n /\ n - 2 \in 0..n /\ n - 2 \in 0..(n - 2)
      /\ n - 1 \in 1..n /\ n \in 0..n
  BY <1>1, <1>2, <1>3, <1>4
<1> HIDE DEF B2
<1>6. B[n - 1] = Len(cs) - 1 /\ B[n - 1] \in Nat /\ B[n - 2] < B[n - 1]
      /\ B[n - 2] \in Nat
  BY <1>2, <1>3, <1>4, <1>5
<1>7. \A d \in 1..(n - 2) : FrameFits(open', src', at', cs', B2, new, d)
  <2>1. \A d \in 1..(n - 2) : new[d] = pos[d] /\ Up(open', d) = Up(open, d)
    BY <1>1
  <2>2. n - 2 \in 0..Len(open)
    BY <1>5
  <2>3. \A d \in 0..(n - 2) : B2[d] = B[d]
    BY <1>5
  <2>4. \A q \in 1..B[n - 2] : Up(cs', q) = Up(cs, q)
    BY <1>4, <1>6 DEF HandsOver
  <2> DEFINE k == n - 2
  <2>5. /\ k \in 0..Len(open)
        /\ \A d \in 1..k : new[d] = pos[d] /\ Up(open', d) = Up(open, d)
        /\ \A d \in 0..k : B2[d] = B[d]
        /\ \A q \in 1..B[k] : Up(cs', q) = Up(cs, q)
    BY <2>1, <2>2, <2>3, <2>4
  <2> HIDE DEF k
  <2>6. \A d \in 1..k : FrameFits(open', src', at', cs', B2, new, d)
    BY <2>5, LowerFrames
  <2> QED
    BY <2>6 DEF k
<1>8. FrameFits(open', src', at', cs', B2, new, n - 1)
  <2>1. FrameFits(open, src, at, cs, B, pos, n - 1)
    BY <1>5 DEF Shaped
  <2>2. /\ src[pos[n - 1]] = "case" /\ Up(cs, B[n - 2] + 1) = 0
        /\ \A q \in (B[n - 2] + 2)..B[n - 1] : Up(cs, q) # 0
    <3>1. (n - 1) - 1 = n - 2
      BY <1>1
    <3> QED
      BY <1>3, <2>1, <3>1 DEF FrameFits, Source
  <2>3. src'[new[n - 1]] = "case"
    <3>1. n - 1 \in 1..Len(open) /\ new[n - 1] = pos[n - 1]
      BY <1>3, <1>5
    <3>2. pos[n - 1] \in 1..Len(src)
      BY <3>1 DEF Hist
    <3> QED
      BY <2>2, <3>1, <3>2, SrcFacts DEF Enters
  <2>4. Up(cs', B[n - 2] + 1) = 0
    <3>1. B[n - 2] + 1 \in 1..(Len(cs) - 1)
      BY <1>4, <1>6
    <3> QED
      BY <2>2, <3>1 DEF HandsOver
  <2>5. \A q \in (B[n - 2] + 2)..Len(cs) : Up(cs', q) # 0
    <3> TAKE q \in (B[n - 2] + 2)..Len(cs)
    <3>1. CASE q = Len(cs)
      BY <3>1 DEF HandsOver
    <3>2. CASE q # Len(cs)
      <4>1. q \in (B[n - 2] + 2)..B[n - 1] /\ q \in 1..(Len(cs) - 1)
        BY <1>4, <1>6, <3>2
      <4> QED
        BY <2>2, <4>1 DEF HandsOver
    <3> QED
      BY <3>1, <3>2
  <2>6. /\ B2[n - 1] = Len(cs) /\ B2[(n - 1) - 1] = B[n - 2]
        /\ Up(open', n - 1) = "case"
    <3>1. (n - 1) - 1 = n - 2 /\ n - 1 \in 1..(n - 1)
      BY <1>1, <1>3
    <3> QED
      BY <1>1, <1>3, <1>5, <3>1
  <2> QED
    BY <2>3, <2>4, <2>5, <2>6 DEF FrameFits, Source
<1>9. B2[0] = b /\ B2[Len(open')] = Len(cs')
  <2>1. 0 \in 0..(n - 2)
    BY <1>1, <1>3
  <2> QED
    BY <1>1, <1>2, <1>4, <1>5, <2>1
<1>10. \A d, e \in 0..(n - 1) : d < e => B2[d] < B2[e]
  <2> TAKE d, e \in 0..(n - 1)
  <2> HAVE d < e
  <2>1. d \in 0..(n - 2) /\ d \in 0..n
    BY <1>1
  <2>2. CASE e = n - 1
    <3>1. B[d] < B[n]
      BY <1>1, <1>2, <1>5, <2>1
    <3> QED
      BY <1>2, <1>5, <2>1, <2>2, <3>1
  <2>3. CASE e # n - 1
    <3>1. n \in Nat /\ e \in 0..(n - 1)
      BY <1>1
    <3>2. e \in 0..(n - 2) /\ e \in 0..n
      BY <2>3, <3>1
    <3> QED
      BY <1>2, <1>5, <2>1, <3>2
  <2> QED
    BY <2>2, <2>3
<1>11. \A d \in 1..(n - 1) : FrameFits(open', src', at', cs', B2, new, d)
  <2>1. \A d \in 1..(n - 1) : d \in 1..(n - 2) \/ d = n - 1
    BY <1>1
  <2> QED
    BY <1>7, <1>8, <2>1
<1> QED
  BY <1>1, <1>5, <1>9, <1>10, <1>11 DEF Shaped

-----------------------------------------------------------------------------
(* The leave stack.  As long as no abandoned word has left anything on it, *)
(* each of its addresses is the offset of a LEAVE in a loop that is open,  *)
(* and lies behind that loop's start; the newest is on top.                *)

Loops == {"do", "?do"}

LeaveOf(pos, d, i, a) ==
  /\ d \in 1..Len(open) /\ Up(open, d) \in Loops
  /\ i \in 1..Len(src) /\ src[i] = "leave" /\ After(i) - 1 = a
  /\ IsInnermost(pos[d], Loops, i) /\ at[pos[d] + 1] < a

Leaves(pos) ==
  /\ \A j, k \in 1..Len(ls) : j < k => ls[j] > ls[k]
  /\ \A k \in 1..Len(ls) : \E d, i : LeaveOf(pos, d, i, ls[k])

LEMMA LeaveOfStays ==
  ASSUME Types, NEW t, Enters(t), NEW pos, Hist(pos), NEW d, NEW i, NEW a,
         LeaveOf(pos, d, i, a), d \in 1..Len(open'), Up(open', d) = Up(open, d),
         NEW new, new[d] = pos[d]
  PROVE  LeaveOf(new, d, i, a)'
<1>1. /\ Len(src) \in Nat /\ d \in 1..Len(open) /\ i \in 1..Len(src)
  BY TypedLengths DEF LeaveOf
<1>2. /\ Len(src') = Len(src) + 1 /\ \A k \in 1..Len(src) : src'[k] = src[k]
  BY SrcFacts DEF Enters
<1>3. pos[d] \in 1..Len(src)
  BY <1>1 DEF Hist
<1>4. at'[i + 1] = at[i + 1] /\ at'[pos[d] + 1] = at[pos[d] + 1]
  <2>1. i + 1 \in 1..(Len(src) + 1) /\ pos[d] + 1 \in 1..(Len(src) + 1)
    BY <1>1, <1>3
  <2> QED
    BY <2>1, AtFacts
<1>5. IsInnermost(pos[d], Loops, i)'
  BY <1>1, IsInnermostExtended DEF LeaveOf, Enters
<1>6. IsInnermost(new[d], Loops, i)'
  BY <1>5
<1>7. i \in 1..Len(src') /\ src'[i] = "leave"
  BY <1>1, <1>2 DEF LeaveOf
<1>8. Up(open', d) \in Loops /\ After(i)' - 1 = a /\ at'[new[d] + 1] < a
  BY <1>4 DEF LeaveOf, After
<1> QED
  BY <1>6, <1>7, <1>8 DEF LeaveOf

(* A token takes the top r addresses away; the loops of the others stay.   *)
LEMMA LeavesKept ==
  ASSUME Types, NEW t, Enters(t), NEW pos, Hist(pos), Leaves(pos),
         NEW r \in 0..Len(ls), Len(ls') = Len(ls) - r,
         \A k \in 1..(Len(ls) - r) : ls'[k] = ls[r + k],
         NEW new,
         \A k \in (r + 1)..Len(ls) : \A d, i :
            LeaveOf(pos, d, i, ls[k]) =>
              d \in 1..Len(open') /\ Up(open', d) = Up(open, d) /\ new[d] = pos[d]
  PROVE  Leaves(new)'
<1>1. Len(ls) \in Nat /\ r \in Nat
  BY TypedLengths
<1>2. ASSUME NEW k \in 1..Len(ls') PROVE r + k \in 1..Len(ls) /\ ls'[k] = ls[r + k]
  BY <1>1, <1>2
<1>3. \A j, k \in 1..Len(ls') : j < k => ls'[j] > ls'[k]
  <2> TAKE j, k \in 1..Len(ls')
  <2>1. j < k => r + j < r + k
    BY <1>1
  <2> QED
    BY <1>2, <2>1 DEF Leaves
<1>4. ASSUME NEW k \in 1..Len(ls'), NEW a, a = ls'[k]
      PROVE  \E d, i : LeaveOf(new, d, i, a)'
  <2>1. r + k \in 1..Len(ls) /\ r + k \in (r + 1)..Len(ls) /\ ls'[k] = ls[r + k]
    BY <1>1, <1>2, <1>4
  <2>2. PICK d, i : LeaveOf(pos, d, i, ls[r + k])
    BY <2>1 DEF Leaves
  <2>3. d \in 1..Len(open') /\ Up(open', d) = Up(open, d) /\ new[d] = pos[d]
    BY <2>1, <2>2
  <2>4. LeaveOf(pos, d, i, a)
    BY <1>4, <2>1, <2>2
  <2>5. LeaveOf(new, d, i, a)'
    BY <2>3, <2>4, LeaveOfStays
  <2> QED
    BY <2>5
<1> QED
  BY <1>3, <1>4 DEF Leaves

LEMMA LeastNat ==
  ASSUME NEW S \in SUBSET Nat, S # {}
  PROVE  \E x \in S : \A y \in S : x <= y
<1> DEFINE R == OpToRel(<, Nat)
<1>1. \E x \in S : \A y \in S : ~(<<y, x>> \in R)
  <2>1. IsWellFoundedOn(R, Nat)
    BY NatLessThanWellFounded
  <2> HIDE DEF R
  <2> QED
    BY <2>1, WFMin
<1>2. \A x, y \in Nat : <<y, x>> \in R <=> y < x
  BY DEF OpToRel
<1>3. PICK x \in S : \A y \in S : ~(<<y, x>> \in R)
  BY <1>1
<1>4. \A y \in S : ~(y < x) /\ y \in Nat /\ x \in Nat
  <2> HIDE DEF R
  <2> QED
    BY <1>2, <1>3
<1>5. \A y \in S : x <= y
  BY <1>4
<1> QED
  BY <1>5

LEMMA InnermostLoop ==
  ASSUME Types, \E i \in 1..Len(open) : open[i] \in Loops
  PROVE  \E d \in 1..Len(open) :
           /\ Up(open, d) \in Loops
           /\ \A e \in 1..Len(open) : d < e => Up(open, e) \notin Loops
<1> DEFINE S == {i \in 1..Len(open) : open[i] \in Loops}
<1>1. Len(open) \in Nat
  BY TypedLengths
<1>2. S \in SUBSET Nat /\ S # {}
  OBVIOUS
<1> HIDE DEF S
<1>3. PICK i \in S : \A j \in S : i <= j
  BY <1>2, LeastNat
<1>4. i \in 1..Len(open) /\ open[i] \in Loops
  BY <1>3 DEF S
<1> DEFINE d == Len(open) + 1 - i
<1>5. d \in 1..Len(open) /\ Len(open) + 1 - d = i
  BY <1>1, <1>4
<1>6. ASSUME NEW e \in 1..Len(open), d < e, Up(open, e) \in Loops PROVE FALSE
  <2>1. Len(open) + 1 - e \in 1..Len(open) /\ ~(i <= Len(open) + 1 - e)
    BY <1>1, <1>4, <1>6
  <2>2. Len(open) + 1 - e \in S
    BY <1>6, <2>1 DEF S, Up
  <2> QED
    BY <1>3, <2>1, <2>2
<1> QED
  BY <1>4, <1>5, <1>6 DEF Up

(* LEAVE puts the address of its offset on top.                            *)
LEMMA LeavesGrow ==
  ASSUME Types, Enters("leave"), NEW pos, Hist(pos), NEW b, NEW B,
         Shaped(open, src, at, cs, b, B, pos), Leaves(pos),
         open' = open, \E i \in 1..Len(open) : open[i] \in Loops,
         Len(code') > Len(code) + 1, ls' = <<Len(code')>> \o ls
  PROVE  Leaves(pos)'
<1>1. /\ Len(src) \in Nat /\ Len(open) \in Nat /\ Len(code) \in Nat
      /\ Len(code') \in Nat \ {0} /\ Len(ls) \in Nat
  BY TypedLengths, AtFacts
<1>2. /\ Len(src') = Len(src) + 1 /\ src'[Len(src) + 1] = "leave"
      /\ \A k \in 1..Len(src) : src'[k] = src[k]
  BY SrcFacts DEF Enters
<1>3. /\ \A k \in 1..(Len(src) + 1) : at'[k] = at[k] /\ at[k] \in Nat
                                      /\ at[k] <= Len(code) + 1
      /\ at'[Len(src) + 2] = Len(code') + 1
  <2>1. \A k \in 1..(Len(src) + 1) : at[k] \in Nat /\ at[k] <= Len(code) + 1
    BY ElementOfSeq DEF Types
  <2> QED
    BY <2>1, AtFacts
<1>4. /\ Len(ls') = Len(ls) + 1 /\ ls'[1] = Len(code')
      /\ \A k \in 1..Len(ls) : ls'[k + 1] = ls[k]
  <2>1. ls \in Seq(Nat \ {0})
    BY DEF Types
  <2> QED
    BY <1>1, <2>1, PushFacts
<1>5. \A k \in 1..Len(ls) : ls[k] \in Nat /\ ls[k] <= Len(code)
  <2> TAKE k \in 1..Len(ls)
  <2>1. PICK d, i : LeaveOf(pos, d, i, ls[k])
    BY DEF Leaves
  <2>2. i + 1 \in 1..(Len(src) + 1) /\ ls[k] = at[i + 1] - 1
    BY <1>1, <2>1 DEF LeaveOf, After
  <2>3. ls[k] \in Nat
    BY ElementOfSeq DEF Types
  <2> QED
    <3>1. at[i + 1] \in Nat /\ at[i + 1] <= Len(code) + 1
      BY <1>3, <2>2
    <3> QED
      BY <1>1, <2>2, <2>3, <3>1
<1>6. \A j, k \in 1..Len(ls') : j < k => ls'[j] > ls'[k]
  <2> TAKE j, k \in 1..Len(ls')
  <2> HAVE j < k
  <2>1. k - 1 \in 1..Len(ls) /\ (k - 1) + 1 = k
    BY <1>1, <1>4
  <2>2. ls'[k] = ls[k - 1]
    BY <1>4, <2>1
  <2>3. CASE j = 1
    BY <1>1, <1>4, <1>5, <2>1, <2>2, <2>3
  <2>4. CASE j # 1
    <3>1. j - 1 \in 1..Len(ls) /\ (j - 1) + 1 = j /\ j - 1 < k - 1
      BY <1>1, <1>4, <2>4
    <3> QED
      BY <1>4, <2>1, <2>2, <3>1 DEF Leaves
  <2> QED
    BY <2>3, <2>4
<1>7. Hist(pos)'
  <2>1. Extended("leave") /\ "leave" \notin Opens /\ "leave" \notin Closes
    BY DEF Opens, Closes, Enters
  <2>2. Len(open) \in Nat /\ Len(open') = Len(open)
    BY <1>1
  <2> QED
    BY <2>1, <2>2, HistKeeps
<1>8. PICK d \in 1..Len(open) :
        /\ Up(open, d) \in Loops
        /\ \A e \in 1..Len(open) : d < e => Up(open, e) \notin Loops
  BY InnermostLoop
<1>12. PICK N \in Nat : N = Len(src) + 1
  BY <1>1
<1>9. IsInnermost(pos[d], Loops, N)'
  <2>1. /\ pos[d] \in 1..Len(src) /\ src[pos[d]] \in Loops
    <3>1. FrameFits(open, src, at, cs, B, pos, d)
      BY DEF Shaped
    <3> QED
      BY <1>8, <3>1 DEF FrameFits, Source, Loops, Hist
  <2>2. /\ Len(src') \in Nat /\ src'[pos[d]] \in Opens
        /\ Depth(pos[d])' = d /\ \A j \in pos[d]..Len(src') : Depth(j)' >= d
    BY <1>1, <1>2, <1>7 DEF Hist
  <2>3. ~Closed(pos[d])'
    <3>1. ASSUME NEW j \in 1..Len(src'), Ends(pos[d], j)' PROVE FALSE
      <4>1. pos[d] < j /\ Depth(j)' < Depth(pos[d])'
        BY <3>1 DEF Ends
      <4>2. j \in pos[d]..Len(src') /\ j \in Nat
        BY <2>1, <2>2, <4>1
      <4>3. Depth(j)' >= d /\ Depth(j)' \in Int
        BY <2>2, <4>2, DepthType
      <4> QED
        BY <2>2, <4>1, <4>3
    <3> QED
      BY <3>1 DEF Closed
  <2>4. ASSUME NEW k \in (pos[d] + 1)..(N - 1), src'[k] \in Loops, Encloses(k, N)'
        PROVE  FALSE
    <3>1. k \in 1..Len(src) /\ src[k] = src'[k] /\ src[k] \in Opens
      <4>1. k \in 1..Len(src)
        BY <1>1, <1>12, <2>1
      <4>2. src[k] = src'[k]
        BY <1>2, <4>1
      <4> QED
        BY <2>4, <4>1, <4>2 DEF Loops, Opens
    <3>2. ~Closed(k)
      <4>1. Closed(k) => Closed(k)' /\ Closer(k)' \in 1..Len(src)
        BY <3>1, ClosedExtended DEF Enters
      <4>2. Closed(k)' => N <= Closer(k)'
        BY <2>4 DEF Encloses
      <4> QED
        BY <1>1, <1>12, <4>1, <4>2
    <3>3. PICK e \in 1..Len(open) : pos[e] = k
      BY <3>1, <3>2 DEF Hist
    <3>4. Up(open, e) \in Loops
      <4>1. FrameFits(open, src, at, cs, B, pos, e)
        BY DEF Shaped
      <4>2. src[k] \in Source(Up(open, e)) /\ src[k] \in {"do", "?do"}
        BY <2>4, <3>1, <3>3, <4>1 DEF FrameFits, Loops
      <4> QED
        BY <4>2 DEF Source, Loops
    <3>5. d < e
      <4>1. pos[d] < k /\ pos[d] \in Nat
        BY <2>1, <1>12
      <4>2. e < d => pos[e] < pos[d]
        BY <1>1, HistOrder
      <4>3. k \in Nat
        BY <3>1
      <4> QED
        BY <3>3, <4>1, <4>2, <4>3
    <3> QED
      BY <1>8, <3>4, <3>5
  <2>5. src'[pos[d]] \in Loops /\ pos[d] \in 1..(N - 1) /\ pos[d] < N
    BY <1>1, <1>2, <1>12, <2>1
  <2>6. Encloses(pos[d], N)'
    BY <2>2, <2>3, <2>5 DEF Encloses
  <2> QED
    BY <2>4, <2>5, <2>6 DEF IsInnermost
<1>10. ASSUME NEW a, a = ls'[1] PROVE LeaveOf(pos, d, N, a)'
  <2>1. /\ d \in 1..Len(open') /\ Up(open', d) \in Loops
        /\ N \in 1..Len(src') /\ src'[N] = "leave"
    BY <1>1, <1>2, <1>8, <1>12
  <2>2. N + 1 = Len(src) + 2
    BY <1>1, <1>12
  <2>3. After(N)' - 1 = a
    <3>1. After(N)' = at'[N + 1]
      BY DEF After
    <3> QED
      BY <1>1, <1>3, <1>4, <1>10, <2>2, <3>1
  <2>4. pos[d] \in 1..Len(src)
    BY DEF Hist
  <2>5. at'[pos[d] + 1] < a
    <3>1. pos[d] + 1 \in 1..(Len(src) + 1)
      BY <1>1, <2>4
    <3>2. at[pos[d] + 1] < Len(code')
      <4>1. at[pos[d] + 1] \in Nat /\ at[pos[d] + 1] <= Len(code) + 1
        BY <1>3, <3>1
      <4> QED
        BY <1>1, <4>1
    <3> QED
      BY <1>3, <1>4, <1>10, <3>1, <3>2
  <2> QED
    BY <1>9, <2>1, <2>3, <2>5 DEF LeaveOf
<1>11. ASSUME NEW k \in 1..Len(ls'), NEW a, a = ls'[k]
       PROVE  \E e, i : LeaveOf(pos, e, i, a)'
  <2>1. CASE k = 1
    BY <1>10, <1>11, <2>1
  <2>2. CASE k # 1
    <3>1. k - 1 \in 1..Len(ls) /\ a = ls[k - 1]
      <4>1. k - 1 \in 1..Len(ls) /\ (k - 1) + 1 = k
        BY <1>1, <1>4, <2>2
      <4> QED
        BY <1>4, <1>11, <4>1
    <3>2. PICK e, i : LeaveOf(pos, e, i, a)
      BY <3>1 DEF Leaves
    <3>3. e \in 1..Len(open') /\ Up(open', e) = Up(open, e)
      BY <3>2 DEF LeaveOf
    <3>4. LeaveOf(pos, e, i, a)'
      BY <3>2, <3>3, LeaveOfStays
    <3> QED
      BY <3>4
  <2> QED
    BY <2>1, <2>2
<1> QED
  BY <1>6, <1>11 DEF Leaves

-----------------------------------------------------------------------------
(* The inductive invariant: b items that earlier words left are below the  *)
(* word's own.                                                             *)

Word(b, pos, B) ==
  /\ Hist(pos)
  /\ Shaped(open, src, at, cs, b, B, pos)
  /\ ~stale => Leaves(pos)

WordInv(b) == Types /\ Len(ls) <= LeaveCells /\ \E pos, B : Word(b, pos, B)

(* A token that opens a structure.                                         *)
LEMMA WordPushed ==
  ASSUME Types, Len(ls) <= LeaveCells, NEW b, NEW pos, NEW B, Word(b, pos, B),
         NEW t \in Opens, Enters(t), Pushes(t), ls' = ls, mode' = mode
  PROVE  /\ Types' /\ Len(ls') <= LeaveCells
         /\ \E new, B2 : /\ Word(b, new, B2)'
                         /\ new[Len(open) + 1] = Len(src) + 1
                         /\ \A d \in 1..Len(open) : new[d] = pos[d]
                         /\ \A d \in 0..Len(open) : B2[d] = B[d]
<1>1. Types /\ Len(ls) <= LeaveCells
  OBVIOUS
<1>3. Hist(pos) /\ Shaped(open, src, at, cs, b, B, pos) /\ (~stale => Leaves(pos))
  BY DEF Word
<1>4. /\ open' \in Seq(OpenKinds) /\ Len(open') = Len(open) + 1 /\ Len(open) \in Nat
      /\ \A d \in 1..Len(open) : Up(open', d) = Up(open, d)
  <2>1. open \in Seq(OpenKinds) /\ t \in OpenKinds /\ open' = <<t>> \o open
    BY <1>1 DEF Types, OpenKinds, Pushes
  <2> QED
    BY <2>1, PushFacts
<1>5. Types'
  <2>1. cs' \in Seq(Nat) /\ ls' \in Seq(Nat \ {0}) /\ mode' \in {"compile", "aborted"}
    BY <1>1 DEF Types, Pushes, Enters
  <2> QED
    BY <1>1, <1>4, <2>1, EntersTypes
<1>6. PICK new : new = [d \in 1..(Len(open) + 1) |->
                          IF d <= Len(open) THEN pos[d] ELSE Len(src) + 1]
  OBVIOUS
<1>7. Hist(new)'
  <2>1. Extended(t)
    BY DEF Enters
  <2> QED
    BY <1>3, <1>4, <1>6, <2>1, HistOpens
<1>8. new[Len(open) + 1] = Len(src) + 1 /\ \A d \in 1..Len(open) : new[d] = pos[d]
  BY <1>4, <1>6
<1>9. PICK B2 : /\ Shaped(open', src', at', cs', b, B2, new)
                /\ \A d \in 0..Len(open) : B2[d] = B[d]
  BY <1>1, <1>3, <1>8, ShapePush
<1>10. ~stale => Leaves(new)'
  <2>1. ASSUME ~stale PROVE Leaves(new)'
    <3>1. Leaves(pos) /\ Len(ls) \in Nat
      BY <1>1, <1>3, <2>1, TypedLengths
    <3>2. /\ 0 \in 0..Len(ls) /\ Len(ls') = Len(ls) - 0
          /\ \A k \in 1..(Len(ls) - 0) : ls'[k] = ls[0 + k]
      BY <3>1
    <3>3. \A d, i, a : LeaveOf(pos, d, i, a) =>
            d \in 1..Len(open') /\ Up(open', d) = Up(open, d) /\ new[d] = pos[d]
      BY <1>4, <1>8 DEF LeaveOf
    <3> QED
      BY <1>1, <1>3, <3>1, <3>2, <3>3, LeavesKept
  <2> QED
    BY <2>1
<1>11. Len(ls') <= LeaveCells /\ stale' = stale
  BY <1>1 DEF Enters
<1>12. Word(b, new, B2)'
  BY <1>7, <1>9, <1>10, <1>11 DEF Word
<1> QED
  BY <1>5, <1>8, <1>9, <1>11, <1>12

LEMMA PushStep ==
  ASSUME NEW b, WordInv(b), NEW t \in Opens, Enters(t), Pushes(t),
         ls' = ls, mode' = mode
  PROVE  WordInv(b)'
<1>1. PICK pos, B : Word(b, pos, B)
  BY DEF WordInv
<1> QED
  BY <1>1, WordPushed DEF WordInv

(* A token that neither opens nor closes.                                  *)
LEMMA WordLevel ==
  ASSUME Types, Len(ls) <= LeaveCells, NEW b, NEW pos, NEW B, Word(b, pos, B),
         NEW t, t \notin Opens, t \notin Closes, Enters(t),
         \/ open' = open /\ cs' = cs
         \/ t \in {"else", "while"} /\ Turns(t),
         ls' = ls, mode' = mode
  PROVE  /\ Types' /\ Len(ls') <= LeaveCells
         /\ \E B2 : /\ Word(b, pos, B2)'
                    /\ \A d \in 0..(Len(open) - 1) : B2[d] = B[d]
<1>1. Types /\ Len(ls) <= LeaveCells /\ Len(open) \in Nat
  BY TypedLengths
<1>3. Hist(pos) /\ Shaped(open, src, at, cs, b, B, pos) /\ (~stale => Leaves(pos))
  BY DEF Word
<1>4. /\ open' \in Seq(OpenKinds) /\ Len(open') = Len(open) /\ cs' \in Seq(Nat)
      /\ \A d \in 1..Len(open) : Up(open, d) \in Loops => Up(open', d) = Up(open, d)
  <2>1. CASE open' = open /\ cs' = cs
    BY <1>1, <2>1 DEF Types
  <2>2. CASE t \in {"else", "while"} /\ Turns(t)
    <3>1. /\ open \in Seq(OpenKinds) /\ open # <<>> /\ t \in OpenKinds
          /\ Head(open) \in Source(t) /\ open' = <<t>> \o Tail(open)
          /\ cs' \in Seq(Nat)
      BY <1>1, <2>2 DEF Types, OpenKinds, Turns, Inside
    <3>2. /\ open' \in Seq(OpenKinds) /\ Len(open') = Len(open)
          /\ \A d \in 1..(Len(open) - 1) : Up(open', d) = Up(open, d)
      BY <3>1, TurnFacts
    <3>3. Up(open, Len(open)) \notin Loops
      <4>1. Head(open) = Up(open, Len(open))
        BY <3>1, PopFacts
      <4> QED
        BY <2>2, <3>1, <4>1 DEF Source, Loops
    <3>4. \A d \in 1..Len(open) : d = Len(open) \/ d \in 1..(Len(open) - 1)
      BY <1>1
    <3> QED
      BY <3>1, <3>2, <3>3, <3>4
  <2> QED
    BY <2>1, <2>2
<1>5. Types'
  <2>1. ls' \in Seq(Nat \ {0}) /\ mode' \in {"compile", "aborted"}
    BY <1>1 DEF Types, Enters
  <2> QED
    BY <1>1, <1>4, <2>1, EntersTypes
<1>6. Hist(pos)'
  <2>1. Extended(t)
    BY DEF Enters
  <2> QED
    BY <1>1, <1>3, <1>4, <2>1, HistKeeps
<1>7. PICK B2 : /\ Shaped(open', src', at', cs', b, B2, pos)
                /\ \A d \in 0..(Len(open) - 1) : B2[d] = B[d]
  BY <1>1, <1>3, ShapeKeep, ShapeTurn
<1>8. ~stale => Leaves(pos)'
  <2>1. ASSUME ~stale PROVE Leaves(pos)'
    <3>1. Leaves(pos) /\ Len(ls) \in Nat
      BY <1>1, <1>3, <2>1, TypedLengths
    <3>2. /\ 0 \in 0..Len(ls) /\ Len(ls') = Len(ls) - 0
          /\ \A k \in 1..(Len(ls) - 0) : ls'[k] = ls[0 + k]
      BY <3>1
    <3>3. \A d, i, a : LeaveOf(pos, d, i, a) =>
            d \in 1..Len(open') /\ Up(open', d) = Up(open, d) /\ pos[d] = pos[d]
      BY <1>4 DEF LeaveOf
    <3> QED
      BY <1>1, <1>3, <3>1, <3>2, <3>3, LeavesKept
  <2> QED
    BY <2>1
<1>9. Len(ls') <= LeaveCells /\ stale' = stale
  BY <1>1 DEF Enters
<1>10. Word(b, pos, B2)'
  BY <1>6, <1>7, <1>8, <1>9 DEF Word
<1> QED
  BY <1>5, <1>7, <1>9, <1>10

LEMMA LevelStep ==
  ASSUME NEW b, WordInv(b), NEW t, t \notin Opens, t \notin Closes, Enters(t),
         \/ open' = open /\ cs' = cs
         \/ t \in {"else", "while"} /\ Turns(t),
         ls' = ls, mode' = mode
  PROVE  WordInv(b)'
<1>1. Types /\ Len(ls) <= LeaveCells
  BY DEF WordInv
<1>2. PICK pos, B : Word(b, pos, B)
  BY DEF WordInv
<1>3. Types' /\ Len(ls') <= LeaveCells /\ \E B2 : Word(b, pos, B2)'
  BY <1>1, <1>2, WordLevel
<1> QED
  BY <1>3 DEF WordInv

(* A word whose structures are those of the word before, without the last. *)
Shorter(b, pos, B, new, B2) ==
  /\ Word(b, new, B2)' /\ Agree(new, pos, Len(open) - 1)
  /\ \A d \in 0..(Len(open) - 2) : B2[d] = B[d]

(* A token that closes the innermost structure, and takes the top r leave  *)
(* addresses, among them all of that structure.                            *)
LEMMA WordClosed ==
  ASSUME Types, Len(ls) <= LeaveCells, NEW b, NEW pos, NEW B, Word(b, pos, B),
         NEW t \in Closes, Enters(t), Pops(B[Len(open) - 1]) \/ HandsOver,
         mode' = mode, ls' \in Seq(Nat \ {0}),
         NEW r \in 0..Len(ls), Len(ls') = Len(ls) - r,
         \A k \in 1..(Len(ls) - r) : ls'[k] = ls[r + k],
         ~stale => \A k \in (r + 1)..Len(ls) : \A d, i :
                      LeaveOf(pos, d, i, ls[k]) => d # Len(open)
  PROVE  Types' /\ Len(ls') <= LeaveCells /\ \E new, B2 : Shorter(b, pos, B, new, B2)
<1>1. Hist(pos) /\ Shaped(open, src, at, cs, b, B, pos) /\ (~stale => Leaves(pos))
  BY DEF Word
<1>2. open # <<>> /\ open' = Tail(open) /\ cs' \in Seq(Nat)
  BY DEF Pops, HandsOver, Inside
<1>3. /\ Len(open) \in Nat /\ Len(open) >= 1 /\ Len(open') = Len(open) - 1
      /\ open' \in Seq(OpenKinds)
      /\ \A d \in 1..(Len(open) - 1) : Up(open', d) = Up(open, d)
  BY <1>2, OpenPopped
<1>4. Types'
  <2>1. mode' \in {"compile", "aborted"}
    BY DEF Enters
  <2> QED
    BY <1>2, <1>3, <2>1, EntersTypes
<1>5. PICK new : new = [d \in 1..(Len(open) - 1) |-> pos[d]]
  OBVIOUS
<1>6. Hist(new)'
  <2>1. Extended(t)
    BY DEF Enters
  <2> QED
    BY <1>1, <1>3, <1>5, <2>1, HistCloses
<1>7. \A d \in 1..(Len(open) - 1) : new[d] = pos[d]
  BY <1>5
<1>8. PICK B2 : /\ Shaped(open', src', at', cs', b, B2, new)
                /\ \A d \in 0..(Len(open) - 2) : B2[d] = B[d]
  <2>1. CASE Pops(B[Len(open) - 1])
    <3>1. Agree(new, pos, Len(open) - 1)
      BY <1>7 DEF Agree
    <3> QED
      BY <1>1, <2>1, <3>1, ShapePop
  <2>2. CASE HandsOver
    BY <1>1, <1>7, <2>2, ShapeEndOf
  <2> QED
    BY <2>1, <2>2
<1>9. ~stale => Leaves(new)'
  <2>1. ASSUME ~stale PROVE Leaves(new)'
    <3>1. ASSUME NEW k \in (r + 1)..Len(ls), NEW d, NEW i, LeaveOf(pos, d, i, ls[k])
          PROVE  d \in 1..Len(open') /\ Up(open', d) = Up(open, d) /\ new[d] = pos[d]
      <4>1. d \in 1..Len(open) /\ d # Len(open)
        BY <2>1, <3>1 DEF LeaveOf
      <4>2. d \in 1..(Len(open) - 1)
        BY <1>3, <4>1
      <4> QED
        BY <1>3, <1>7, <4>2
    <3> QED
      BY <1>1, <2>1, <3>1, LeavesKept
  <2> QED
    BY <2>1
<1>10. Len(ls') <= LeaveCells /\ stale' = stale
  <2>1. Len(ls) \in Nat /\ LeaveCells \in Nat
    BY TypedLengths, ControlFlowAssumption
  <2> QED
    BY <2>1 DEF Enters
<1>11. Word(b, new, B2)'
  BY <1>6, <1>8, <1>9, <1>10 DEF Word
<1>12. Shorter(b, pos, B, new, B2)
  BY <1>7, <1>8, <1>11 DEF Shorter, Agree
<1> QED
  BY <1>4, <1>10, <1>12

LEMMA CloseStep ==
  ASSUME Types, Len(ls) <= LeaveCells, NEW b, NEW pos, NEW B, Word(b, pos, B),
         NEW t \in Closes, Enters(t), Pops(B[Len(open) - 1]) \/ HandsOver,
         mode' = mode, ls' \in Seq(Nat \ {0}),
         NEW r \in 0..Len(ls), Len(ls') = Len(ls) - r,
         \A k \in 1..(Len(ls) - r) : ls'[k] = ls[r + k],
         ~stale => \A k \in (r + 1)..Len(ls) : \A d, i :
                      LeaveOf(pos, d, i, ls[k]) => d # Len(open)
  PROVE  WordInv(b)'
<1>1. Types' /\ Len(ls') <= LeaveCells /\ \E new, B2 : Word(b, new, B2)'
  BY WordClosed DEF Shorter
<1> QED
  BY <1>1 DEF WordInv

(* A token that closes something other than a loop, and leaves the leave   *)
(* stack as it is.                                                         *)
LEMMA PopStep ==
  ASSUME NEW b, WordInv(b), NEW t \in Closes, Enters(t),
         NEW kinds, Inside(kinds), kinds \cap Loops = {},
         \/ "case" \notin kinds /\ open' = Tail(open) /\ cs' \in Seq(Nat)
              /\ Len(cs') = Len(cs) - Wide(Head(open))
              /\ \A q \in 1..Len(cs') : Up(cs', q) = Up(cs, q)
         \/ \A pos, B : Word(b, pos, B) => Pops(B[Len(open) - 1])
         \/ HandsOver,
         ls' = ls, mode' = mode
  PROVE  WordInv(b)'
<1>1. Types /\ Len(ls) <= LeaveCells /\ Len(ls) \in Nat /\ open # <<>>
      /\ Head(open) \in kinds
  BY TypedLengths DEF WordInv, Inside
<1>2. PICK pos, B : Word(b, pos, B)
  BY DEF WordInv
<1>3. Hist(pos) /\ Shaped(open, src, at, cs, b, B, pos)
  BY <1>2 DEF Word
<1>4. Len(open) \in Nat /\ Len(open) >= 1 /\ Head(open) = Up(open, Len(open))
  <2>1. open \in Seq(OpenKinds)
    BY <1>1 DEF Types
  <2> QED
    BY <1>1, <2>1, PopFacts
<1>5. Pops(B[Len(open) - 1]) \/ HandsOver
  <2>1. ASSUME "case" \notin kinds, open' = Tail(open), cs' \in Seq(Nat),
               Len(cs') = Len(cs) - Wide(Head(open)),
               \A q \in 1..Len(cs') : Up(cs', q) = Up(cs, q)
        PROVE  Pops(B[Len(open) - 1])
    <3>1. FrameFits(open, src, at, cs, B, pos, Len(open))
      BY <1>3, <1>4 DEF Shaped
    <3>2. B[Len(open)] = B[Len(open) - 1] + Wide(Head(open))
      BY <1>1, <1>4, <2>1, <3>1 DEF FrameFits
    <3>3. B[Len(open)] = Len(cs) /\ B[Len(open) - 1] \in Nat
      BY <1>1, <1>3, <1>4, ShapeFacts
    <3>4. Len(cs') = B[Len(open) - 1]
      BY <2>1, <3>2, <3>3 DEF Wide
    <3> QED
      BY <1>1, <2>1, <3>4 DEF Pops
  <2> QED
    BY <1>2, <2>1
<1>6. \A d, i, a : LeaveOf(pos, d, i, a) => d # Len(open)
  BY <1>1, <1>4 DEF LeaveOf
<1>7. /\ 0 \in 0..Len(ls) /\ Len(ls') = Len(ls) - 0 /\ ls' \in Seq(Nat \ {0})
      /\ \A k \in 1..(Len(ls) - 0) : ls'[k] = ls[0 + k]
  BY <1>1 DEF Types
<1> QED
  BY <1>1, <1>2, <1>5, <1>6, <1>7, CloseStep

-----------------------------------------------------------------------------
(* The two words that search a stack.                                      *)

(* ENDCASE finds the zero that CASE left, under the addresses of the       *)
(* branches.                                                               *)
LEMMA CaseZero ==
  ASSUME Types, NEW b, NEW pos, NEW B, Word(b, pos, B), Inside({"case"}),
         NEW n, n = CHOOSE k \in 1..Len(cs) :
                      cs[k] = 0 /\ \A j \in 1..(k - 1) : cs[j] # 0
  PROVE  /\ n \in 1..Len(cs) /\ Len(cs) \in Nat /\ Len(cs) - n = B[Len(open) - 1]
         /\ cs[n] = 0 /\ \A j \in 1..(n - 1) : cs[j] # 0
<1> DEFINE top == Len(open)
           m == Len(cs) - B[top - 1]
           P(k) == cs[k] = 0 /\ \A j \in 1..(k - 1) : cs[j] # 0
<1>1. Shaped(open, src, at, cs, b, B, pos)
  BY DEF Word
<1>2. top \in Nat /\ top >= 1 /\ Up(open, top) = "case"
  <2>1. open \in Seq(OpenKinds) /\ open # <<>> /\ Head(open) = "case"
    BY DEF Types, Inside
  <2> QED
    BY <2>1, PopFacts
<1>3. /\ Len(cs) \in Nat /\ B[top - 1] \in Nat /\ B[top - 1] < B[top]
      /\ B[top] = Len(cs)
  BY <1>1, <1>2, ShapeFacts, TypedLengths
<1>4. /\ Up(cs, B[top - 1] + 1) = 0
      /\ \A q \in (B[top - 1] + 2)..Len(cs) : Up(cs, q) # 0
  <2>1. FrameFits(open, src, at, cs, B, pos, top)
    BY <1>1, <1>2 DEF Shaped
  <2> QED
    BY <1>2, <1>3, <2>1 DEF FrameFits
<1>5. m \in 1..Len(cs) /\ P(m)
  <2>1. m \in 1..Len(cs) /\ Len(cs) + 1 - (B[top - 1] + 1) = m
    BY <1>3
  <2>2. cs[m] = 0
    BY <1>4, <2>1 DEF Up
  <2>3. ASSUME NEW j \in 1..(m - 1) PROVE cs[j] # 0
    <3>1. /\ Len(cs) + 1 - j \in (B[top - 1] + 2)..Len(cs)
          /\ Len(cs) + 1 - (Len(cs) + 1 - j) = j
      BY <1>3, <2>1, <2>3
    <3> QED
      BY <1>4, <3>1 DEF Up
  <2> QED
    BY <2>1, <2>2, <2>3
<1> HIDE DEF m
<1>6. ASSUME NEW k \in 1..Len(cs), P(k) PROVE k = m
  <2>1. k < m => k \in 1..(m - 1)
    BY <1>3, <1>5
  <2>2. m < k => m \in 1..(k - 1)
    BY <1>3, <1>5
  <2>3. k \in Nat /\ m \in Nat
    BY <1>3, <1>5
  <2> QED
    BY <1>5, <1>6, <2>1, <2>2, <2>3
<1>7. n = CHOOSE k \in 1..Len(cs) : P(k)
  OBVIOUS
<1> HIDE DEF P
<1>8. n = m
  BY <1>5, <1>6, <1>7
<1>9. Len(cs) - m = B[top - 1]
  BY <1>3 DEF m
<1> QED
  BY <1>3, <1>5, <1>8, <1>9 DEF P

(* LOOP takes the leave addresses behind the start of the loop.            *)
LEMMA ResolvableFacts ==
  ASSUME Types, NEW dest \in Nat
  PROVE  LET r == Resolvable(dest) IN
         /\ r \in 0..Len(ls) /\ \A k \in 1..r : ls[k] > dest
         /\ r < Len(ls) => ls[r + 1] <= dest
<1> DEFINE Stop == {n \in 0..Len(ls) : n < Len(ls) => ls[n + 1] <= dest}
           P(n) == /\ \A k \in 1..n : ls[k] > dest
                   /\ n < Len(ls) => ls[n + 1] <= dest
<1>1. Len(ls) \in Nat /\ \A k \in 1..Len(ls) : ls[k] \in Nat
  BY TypedLengths, ElementOfSeq DEF Types
<1>2. Stop \in SUBSET Nat /\ Stop # {}
  <2>1. Len(ls) \in Stop
    BY <1>1
  <2> QED
    BY <2>1
<1> HIDE DEF Stop
<1>3. PICK n \in Stop : \A m \in Stop : n <= m
  BY <1>2, LeastNat
<1>4. n \in 0..Len(ls) /\ (n < Len(ls) => ls[n + 1] <= dest)
  BY <1>3 DEF Stop
<1>5. ASSUME NEW k \in 1..n PROVE ls[k] > dest
  <2>1. k - 1 \in 0..Len(ls) /\ k - 1 < Len(ls) /\ k \in 1..Len(ls) /\ ~(n <= k - 1)
    BY <1>1, <1>4
  <2>2. k - 1 \notin Stop
    BY <1>3, <2>1
  <2>3. ~(ls[(k - 1) + 1] <= dest) /\ (k - 1) + 1 = k
    BY <2>1, <2>2 DEF Stop
  <2> QED
    BY <1>1, <2>1, <2>3
<1>6. n \in 0..Len(ls) /\ P(n)
  BY <1>4, <1>5
<1>7. Resolvable(dest) = CHOOSE x \in 0..Len(ls) : P(x)
  BY DEF Resolvable
<1> HIDE DEF P
<1>8. Resolvable(dest) \in 0..Len(ls) /\ P(Resolvable(dest))
  BY <1>6, <1>7
<1> QED
  BY <1>8 DEF P

-----------------------------------------------------------------------------
(* What the words append.                                                  *)

LEMMA Appended ==
  ASSUME NEW c \in Seq(CodeCells)
  PROVE  /\ Len(c) \in Nat
         /\ \A o \in Ops : /\ Append(c, Op(o)) \in Seq(CodeCells)
                            /\ Len(Append(c, Op(o))) = Len(c) + 1
         /\ \A d \in Nat : /\ BackTo(c, d) \in Seq(CodeCells)
                            /\ Len(BackTo(c, d)) = Len(c) + 1
         /\ \A k \in {1, 2} : /\ c \o Operands(k) \in Seq(CodeCells)
                               /\ Len(c \o Operands(k)) = Len(c) + k
         /\ \A x \in CodeCells : /\ c \o <<x>> \in Seq(CodeCells)
                                  /\ Len(c \o <<x>>) = Len(c) + 1
         /\ \A x, y \in CodeCells : /\ c \o <<x, y>> \in Seq(CodeCells)
                                     /\ Len(c \o <<x, y>>) = Len(c) + 2
         /\ \A x, y, z \in CodeCells : /\ c \o <<x, y, z>> \in Seq(CodeCells)
                                        /\ Len(c \o <<x, y, z>>) = Len(c) + 3
         /\ \A v, w, x, y, z \in CodeCells :
              /\ c \o <<v, w, x, y, z>> \in Seq(CodeCells)
              /\ Len(c \o <<v, w, x, y, z>>) = Len(c) + 5
<1>1. Len(c) \in Nat
  BY LenProperties
<1>2. \A o \in Ops : Op(o) \in CodeCells
  BY CellFacts
<1>3. \A x \in CodeCells : /\ Append(c, x) \in Seq(CodeCells)
                            /\ Len(Append(c, x)) = Len(c) + 1
  BY AppendProperties
<1>4. \A d \in Nat : /\ BackTo(c, d) \in Seq(CodeCells)
                      /\ Len(BackTo(c, d)) = Len(c) + 1
  <2>1. \A d \in Nat : Offset(d - (Len(c) + 1)) \in CodeCells
    BY <1>1, CellFacts
  <2> QED
    BY <1>3, <2>1 DEF BackTo
<1>5. \A s \in Seq(CodeCells) : /\ c \o s \in Seq(CodeCells)
                                 /\ Len(c \o s) = Len(c) + Len(s)
  BY AppendFacts
<1>6. \A k \in {1, 2} : Operands(k) \in Seq(CodeCells) /\ Len(Operands(k)) = k
  <2> TAKE k \in {1, 2}
  <2>1. Op("lit") \in CodeCells
    BY CellFacts DEF Ops
  <2>2. Operands(k) \in [1..k -> CodeCells] /\ k \in Nat
    BY <2>1 DEF Operands
  <2>3. Operands(k) \in Seq(CodeCells)
    BY <2>2, IsASeq
  <2>4. DOMAIN Operands(k) = 1..k /\ DOMAIN Operands(k) = 1..Len(Operands(k))
        /\ Len(Operands(k)) \in Nat
    BY <2>2, <2>3, LenProperties
  <2> QED
    BY <2>2, <2>3, <2>4
<1>7. /\ \A x \in CodeCells : <<x>> \in Seq(CodeCells) /\ Len(<<x>>) = 1
      /\ \A x, y \in CodeCells : <<x, y>> \in Seq(CodeCells) /\ Len(<<x, y>>) = 2
      /\ \A x, y, z \in CodeCells :
           <<x, y, z>> \in Seq(CodeCells) /\ Len(<<x, y, z>>) = 3
      /\ \A v, w, x, y, z \in CodeCells :
           <<v, w, x, y, z>> \in Seq(CodeCells) /\ Len(<<v, w, x, y, z>>) = 5
  OBVIOUS
<1>8. \A k \in {1, 2} : /\ c \o Operands(k) \in Seq(CodeCells)
                         /\ Len(c \o Operands(k)) = Len(c) + k
  BY <1>5, <1>6
<1>9. /\ \A x \in CodeCells : /\ c \o <<x>> \in Seq(CodeCells)
                               /\ Len(c \o <<x>>) = Len(c) + 1
      /\ \A x, y \in CodeCells : /\ c \o <<x, y>> \in Seq(CodeCells)
                                  /\ Len(c \o <<x, y>>) = Len(c) + 2
  BY <1>5, <1>7
<1>10. \A x, y, z \in CodeCells : /\ c \o <<x, y, z>> \in Seq(CodeCells)
                                   /\ Len(c \o <<x, y, z>>) = Len(c) + 3
  BY <1>5, <1>7
<1>11. \A v, w, x, y, z \in CodeCells :
         /\ c \o <<v, w, x, y, z>> \in Seq(CodeCells)
         /\ Len(c \o <<v, w, x, y, z>>) = Len(c) + 5
  BY <1>5, <1>7
<1>12. \A o \in Ops : /\ Append(c, Op(o)) \in Seq(CodeCells)
                       /\ Len(Append(c, Op(o))) = Len(c) + 1
  BY <1>2, <1>3
<1> QED
  BY <1>1, <1>4, <1>8, <1>9, <1>10, <1>11, <1>12

(* A token that appends cells is entered in the history.                   *)
LEMMA EntersIs ==
  ASSUME Types, NEW t, Token(t), at' = Append(at, Len(code') + 1),
         code' \in Seq(CodeCells), Len(code') >= Len(code)
  PROVE  Enters(t)
<1>1. /\ mode = "compile" /\ t \in Vocabulary /\ src' = Append(src, t)
      /\ UNCHANGED stale
  BY DEF Token
<1>2. src \in Seq(AllTokens) /\ t \in AllTokens
  BY <1>1, ControlFlowAssumption DEF Types
<1> QED
  BY <1>1, <1>2 DEF Enters, Extended

(* The cells of each kind of token.                                        *)
LEMMA TokenCells ==
  ASSUME Types
  PROVE  /\ \A o \in Ops : LET c == Append(code, Op(o)) IN
              c \in Seq(CodeCells) /\ Len(c) = Len(code) + 1
         /\ \A k \in {1, 2} : LET c == code \o Operands(k) IN
              c \in Seq(CodeCells) /\ Len(c) = Len(code) + k
         /\ LET c == code \o <<Op("branch"), Unresolved>> IN
              c \in Seq(CodeCells) /\ Len(c) = Len(code) + 2
         /\ \A k \in {1, 2} : \A x, y \in CodeCells :
              LET c == (code \o Operands(k)) \o <<x, y>> IN
              c \in Seq(CodeCells) /\ Len(c) = Len(code) + k + 2
         /\ \A k \in {1, 2} : \A x \in CodeCells :
              LET c == (code \o Operands(k)) \o <<x>> IN
              c \in Seq(CodeCells) /\ Len(c) = Len(code) + k + 1
         /\ \A k \in {1, 2} : \A v, w, x, y, z \in CodeCells :
              LET c == (code \o Operands(k)) \o <<v, w, x, y, z>> IN
              c \in Seq(CodeCells) /\ Len(c) = Len(code) + k + 5
         /\ Len(code) \in Nat
<1>1. code \in Seq(CodeCells)
  BY DEF Types
<1>2. \A k \in {1, 2} : /\ code \o Operands(k) \in Seq(CodeCells)
                         /\ Len(code \o Operands(k)) = Len(code) + k
  BY <1>1, Appended
<1>3. Op("branch") \in CodeCells /\ Unresolved \in CodeCells
  BY CellFacts DEF Ops
<1>4. ASSUME NEW k \in {1, 2}
      PROVE  LET c == code \o Operands(k) IN
             /\ \A x \in CodeCells : c \o <<x>> \in Seq(CodeCells)
                                      /\ Len(c \o <<x>>) = Len(c) + 1
             /\ \A x, y \in CodeCells : c \o <<x, y>> \in Seq(CodeCells)
                                         /\ Len(c \o <<x, y>>) = Len(c) + 2
             /\ \A v, w, x, y, z \in CodeCells :
                  /\ c \o <<v, w, x, y, z>> \in Seq(CodeCells)
                  /\ Len(c \o <<v, w, x, y, z>>) = Len(c) + 5
  BY <1>2, Appended
<1>5. \A o \in Ops : /\ Append(code, Op(o)) \in Seq(CodeCells)
                      /\ Len(Append(code, Op(o))) = Len(code) + 1
  BY <1>1, Appended
<1>6. /\ code \o <<Op("branch"), Unresolved>> \in Seq(CodeCells)
      /\ Len(code \o <<Op("branch"), Unresolved>>) = Len(code) + 2
  BY <1>1, <1>3, Appended
<1>7. Len(code) \in Nat
  BY <1>1, LenProperties
<1>8. \A k \in {1, 2} : \A x, y \in CodeCells :
        /\ (code \o Operands(k)) \o <<x, y>> \in Seq(CodeCells)
        /\ Len((code \o Operands(k)) \o <<x, y>>) = Len(code) + k + 2
  BY <1>2, <1>4
<1>9. \A k \in {1, 2} : \A x \in CodeCells :
        /\ (code \o Operands(k)) \o <<x>> \in Seq(CodeCells)
        /\ Len((code \o Operands(k)) \o <<x>>) = Len(code) + k + 1
  BY <1>2, <1>4
<1>10. \A k \in {1, 2} : \A v, w, x, y, z \in CodeCells :
        /\ (code \o Operands(k)) \o <<v, w, x, y, z>> \in Seq(CodeCells)
        /\ Len((code \o Operands(k)) \o <<v, w, x, y, z>>) = Len(code) + k + 5
  BY <1>2, <1>4
<1> QED
  BY <1>2, <1>5, <1>6, <1>7, <1>8, <1>9, <1>10

-----------------------------------------------------------------------------
(* The steps, one by one.                                                  *)

(* What the words find on the stack.                                       *)
LEMMA StackFacts ==
  ASSUME NEW b, WordInv(b), open # <<>>
  PROVE  /\ cs \in Seq(Nat) /\ cs # <<>> /\ Len(cs) \in Nat /\ Len(cs) >= 1
         /\ Head(cs) \in Nat /\ Head(cs) = cs[1] /\ Head(cs) = Up(cs, Len(cs))
         /\ Tail(cs) \in Seq(Nat) /\ Len(Tail(cs)) = Len(cs) - 1
         /\ \A q \in 1..(Len(cs) - 1) : Up(Tail(cs), q) = Up(cs, q)
         /\ Head(open) \in {"while", "do", "?do"} =>
              /\ Len(cs) >= 2 /\ cs[2] \in Nat /\ cs[2] = Up(cs, Len(cs) - 1)
              /\ Tail(Tail(cs)) \in Seq(Nat) /\ Len(Tail(Tail(cs))) = Len(cs) - 2
              /\ \A q \in 1..(Len(cs) - 2) : Up(Tail(Tail(cs)), q) = Up(cs, q)
<1>1. Types /\ open \in Seq(OpenKinds) /\ cs \in Seq(Nat)
  BY DEF WordInv, Types
<1>2. PICK pos, B : Shaped(open, src, at, cs, b, B, pos)
  BY DEF WordInv, Word
<1>3. Len(open) \in Nat /\ Len(open) >= 1 /\ Head(open) = Up(open, Len(open))
  BY <1>1, PopFacts
<1>4. /\ B[Len(open)] = Len(cs) /\ B[Len(open) - 1] \in Nat
      /\ B[Len(open) - 1] < B[Len(open)] /\ Len(cs) \in Nat
  BY <1>1, <1>2, <1>3, ShapeFacts, TypedLengths
<1>5. Len(cs) >= 1 /\ cs # <<>>
  <2>1. Len(cs) >= 1
    BY <1>4
  <2> QED
    BY <2>1
<1>6. /\ Tail(cs) \in Seq(Nat) /\ Len(Tail(cs)) = Len(cs) - 1
      /\ Head(cs) \in Nat /\ Head(cs) = cs[1] /\ Head(cs) = Up(cs, Len(cs))
      /\ \A q \in 1..(Len(cs) - 1) : Up(Tail(cs), q) = Up(cs, q)
      /\ \A k \in 1..(Len(cs) - 1) : Tail(cs)[k] = cs[k + 1]
  BY <1>1, <1>5, PopFacts
<1>7. ASSUME Head(open) \in {"while", "do", "?do"}
      PROVE  /\ Len(cs) >= 2 /\ cs[2] \in Nat /\ cs[2] = Up(cs, Len(cs) - 1)
             /\ Tail(Tail(cs)) \in Seq(Nat) /\ Len(Tail(Tail(cs))) = Len(cs) - 2
             /\ \A q \in 1..(Len(cs) - 2) : Up(Tail(Tail(cs)), q) = Up(cs, q)
  <2>1. FrameFits(open, src, at, cs, B, pos, Len(open))
    BY <1>2, <1>3 DEF Shaped
  <2>2. B[Len(open)] = B[Len(open) - 1] + 2
    BY <1>3, <1>7, <2>1 DEF FrameFits, Wide
  <2>3. Len(cs) >= 2
    BY <1>4, <2>2
  <2> DEFINE r == Tail(cs)
  <2>4. r \in Seq(Nat) /\ Len(r) = Len(cs) - 1 /\ r # <<>>
    <3>1. Len(r) >= 1 /\ r \in Seq(Nat) /\ Len(r) = Len(cs) - 1
      BY <1>4, <1>6, <2>3
    <3>2. Len(<<>>) = 0
      OBVIOUS
    <3> HIDE DEF r
    <3> QED
      BY <3>1, <3>2
  <2>5. cs[2] = r[1]
    <3>1. 1 \in 1..(Len(cs) - 1) /\ 1 + 1 = 2
      BY <1>4, <2>3
    <3> QED
      BY <1>6, <3>1
  <2>6. \A q \in 1..(Len(cs) - 1) : Up(r, q) = Up(cs, q)
    BY <1>6
  <2> HIDE DEF r
  <2>7. /\ Tail(r) \in Seq(Nat) /\ Len(Tail(r)) = Len(r) - 1
        /\ Head(r) \in Nat /\ Head(r) = r[1] /\ Head(r) = Up(r, Len(r))
        /\ \A q \in 1..(Len(r) - 1) : Up(Tail(r), q) = Up(r, q)
    BY <2>4, PopFacts
  <2>8. /\ Len(Tail(r)) = Len(cs) - 2 /\ Len(cs) - 1 \in 1..(Len(cs) - 1)
        /\ \A q \in 1..(Len(cs) - 2) : q \in 1..(Len(r) - 1) /\ q \in 1..(Len(cs) - 1)
    BY <1>4, <2>3, <2>4, <2>7
  <2> QED
    BY <2>3, <2>4, <2>5, <2>6, <2>7, <2>8 DEF r
<1> QED
  BY <1>1, <1>4, <1>5, <1>6, <1>7

LEMMA OpeningStep ==
  ASSUME NEW b, WordInv(b), If \/ Unless \/ Begin \/ Case \/ Of \/ Do \/ QDo
  PROVE  WordInv(b)'
<1>1. /\ Types /\ cs \in Seq(Nat) /\ code \in Seq(CodeCells) /\ Len(cs) \in Nat
      /\ Len(code) \in Nat
  BY TypedLengths DEF WordInv, Types
<1>2. \A x \in Nat : LET p == <<x>> \o cs IN
        /\ p \in Seq(Nat) /\ Len(p) = Len(cs) + 1 /\ Up(p, Len(cs) + 1) = x
        /\ \A q \in 1..Len(cs) : Up(p, q) = Up(cs, q)
  <2>1. cs \in Seq(Nat)
    BY <1>1
  <2> TAKE x \in Nat
  <2> QED
    BY <2>1, PushFacts
<1>3. \A x, y \in Nat : LET p == <<x, y>> \o cs IN
        /\ p \in Seq(Nat) /\ Len(p) = Len(cs) + 2 /\ Up(p, Len(cs) + 1) = y
        /\ \A q \in 1..Len(cs) : Up(p, q) = Up(cs, q)
  <2>1. cs \in Seq(Nat)
    BY <1>1
  <2> TAKE x \in Nat, y \in Nat
  <2>2. LET p == <<x, y>> \o cs IN
        /\ p \in Seq(Nat) /\ Len(p) = Len(cs) + 2
        /\ \A q \in 1..Len(cs) : Up(p, q) = Up(cs, q)
        /\ Up(p, Len(cs) + 1) = y /\ Up(p, Len(cs) + 2) = x
    BY <2>1, PushTwo
  <2> QED
    BY <2>2
<1>4. \A o \in Ops : Op(o) \in CodeCells
  BY CellFacts
<1>5. Unresolved \in CodeCells
  BY CellFacts
<1>6. ASSUME NEW t \in {"if", "unless"}, NEW c \in Seq(CodeCells),
             Len(c) >= Len(code), code' = c, cs' = <<Len(code')>> \o cs,
             open' = <<t>> \o open, Typed(t), ls' = ls, mode' = mode
      PROVE  WordInv(b)'
  <2>1. Len(code') \in Nat
    BY <1>6, LenProperties
  <2>2. Enters(t)
    BY <1>1, <1>6, EntersIs DEF Typed
  <2>3. Pushes(t)
    BY <1>2, <1>6, <2>1 DEF Pushes, Wide
  <2> QED
    BY <1>6, <2>2, <2>3, PushStep DEF Opens
<1>7. CASE If
  <2>1. /\ code' \in Seq(CodeCells) /\ Len(code') = Len(code) + 1 + 2
    BY <1>1, <1>4, <1>5, <1>7, TokenCells DEF If, CompileIf, Ops
  <2>2. Len(code') >= Len(code)
    BY <1>1, <2>1
  <2> QED
    BY <1>6, <1>7, <2>1, <2>2 DEF If, CompileIf, Opening
<1>8. CASE Unless
  <2> DEFINE test == Append(Operands(1), Op("not"))
  <2>1. /\ code' \in Seq(CodeCells) /\ Len(code') >= Len(code)
    <3>1. /\ <<>> \o Operands(1) = Operands(1)
          /\ Operands(1) \in Seq(CodeCells)
      <4>1. Operands(1) \in Seq(CodeCells)
        <5>1. Op("lit") \in CodeCells
          BY <1>4 DEF Ops
        <5> QED
          BY <5>1, IsASeq DEF Operands
      <4> QED
        BY <4>1, ConcatEmptySeq
    <3>2. test \in Seq(CodeCells)
      BY <1>4, <3>1, AppendProperties DEF Ops
    <3> HIDE DEF test
    <3>3. code \o test \in Seq(CodeCells) /\ Len(code \o test) >= Len(code)
      <4>1. Len(test) \in Nat /\ Len(code \o test) = Len(code) + Len(test)
        BY <1>1, <3>2, AppendFacts
      <4> QED
        BY <1>1, <3>2, <4>1, AppendFacts
    <3>4. code' = (code \o test) \o <<Op("0branch"), Unresolved>>
      BY <1>8 DEF Unless, CompileIf, test
    <3>5. /\ code' \in Seq(CodeCells) /\ Len(code') = Len(code \o test) + 2
          /\ Len(code \o test) \in Nat
      BY <1>4, <1>5, <3>3, <3>4, Appended DEF Ops
    <3> QED
      BY <1>1, <3>3, <3>5
  <2> QED
    BY <1>6, <1>8, <2>1 DEF Unless, CompileIf, Opening
<1>9. CASE Begin
  <2>1. Here \in Nat /\ Here = Len(code) + 1
    BY <1>1 DEF Here
  <2>2. Enters("begin")
    BY <1>1, <1>9, EntersIs DEF Begin, Typed
  <2>3. Pushes("begin")
    BY <1>2, <1>9, <2>1 DEF Pushes, Wide, Begin, Opening
  <2> QED
    BY <1>9, <2>2, <2>3, PushStep DEF Opens, Begin
<1>10. CASE Case
  <2>1. /\ code' \in Seq(CodeCells) /\ Len(code') = Len(code) + 1
    BY <1>1, <1>10, TokenCells DEF Case
  <2>2. Enters("case")
    BY <1>1, <1>10, <2>1, EntersIs DEF Case, Typed
  <2>3. Pushes("case")
    BY <1>2, <1>10 DEF Pushes, Wide, Case, Opening
  <2> QED
    BY <1>10, <2>2, <2>3, PushStep DEF Opens, Case
<1>11. CASE Of
  <2>1. /\ code' \in Seq(CodeCells) /\ Len(code') = Len(code) + 1 + 5
    <3>1. \A v, w, x, y, z \in CodeCells :
            LET c == (code \o Operands(1)) \o <<v, w, x, y, z>> IN
            c \in Seq(CodeCells) /\ Len(c) = Len(code) + 1 + 5
      BY <1>1, TokenCells
    <3>2. /\ Op("over") \in CodeCells /\ Op("=") \in CodeCells
          /\ Op("0branch") \in CodeCells /\ Op("drop") \in CodeCells
      BY <1>4 DEF Ops
    <3>3. code' = (code \o Operands(1))
                     \o <<Op("over"), Op("="), Op("0branch"), Unresolved, Op("drop")>>
      BY <1>11 DEF Of
    <3> QED
      BY <1>5, <3>1, <3>2, <3>3
  <2>2. Len(code') - 1 \in Nat
    BY <1>1, <2>1
  <2>3. Enters("of")
    BY <1>1, <1>11, <2>1, EntersIs DEF Of, Typed
  <2>4. Pushes("of")
    BY <1>2, <1>11, <2>2 DEF Pushes, Wide, Of, Opening, Inside
  <2> QED
    BY <1>11, <2>3, <2>4, PushStep DEF Opens, Of
<1>12. CASE Do
  <2>1. /\ code' \in Seq(CodeCells) /\ Len(code') = Len(code) + 2 + 1
    BY <1>1, <1>4, <1>12, TokenCells DEF Do, Ops
  <2>2. Len(code') + 1 \in Nat
    BY <1>1, <2>1
  <2>3. Enters("do")
    BY <1>1, <1>12, <2>1, EntersIs DEF Do, Typed
  <2>4. Pushes("do")
    BY <1>3, <1>12, <2>2 DEF Pushes, Wide, Do, Opening
  <2> QED
    BY <1>12, <2>3, <2>4, PushStep DEF Opens, Do
<1>13. CASE QDo
  <2>1. /\ code' \in Seq(CodeCells) /\ Len(code') = Len(code) + 2 + 5
    <3>1. \A v, w, x, y, z \in CodeCells :
            LET c == (code \o Operands(2)) \o <<v, w, x, y, z>> IN
            c \in Seq(CodeCells) /\ Len(c) = Len(code) + 2 + 5
      BY <1>1, TokenCells
    <3>2. /\ Op("2dup") \in CodeCells /\ Op("<>") \in CodeCells
          /\ Op("0branch") \in CodeCells /\ Op("(do)") \in CodeCells
      BY <1>4 DEF Ops
    <3>3. code' = (code \o Operands(2))
                     \o <<Op("2dup"), Op("<>"), Op("0branch"), Unresolved, Op("(do)")>>
      BY <1>13 DEF QDo
    <3> QED
      BY <1>5, <3>1, <3>2, <3>3
  <2>2. Len(code') + 1 \in Nat
    BY <1>1, <2>1
  <2>3. Enters("?do")
    BY <1>1, <1>13, <2>1, EntersIs DEF QDo, Typed
  <2>4. Pushes("?do")
    BY <1>3, <1>13, <2>2 DEF Pushes, Wide, QDo, Opening
  <2> QED
    BY <1>13, <2>3, <2>4, PushStep DEF Opens, QDo
<1> QED
  BY <1>7, <1>8, <1>9, <1>10, <1>11, <1>12, <1>13

LEMMA MiddleStep ==
  ASSUME NEW b, WordInv(b), Work \/ Exit \/ Else \/ While
  PROVE  WordInv(b)'
<1>1. /\ Types /\ cs \in Seq(Nat) /\ code \in Seq(CodeCells) /\ Len(cs) \in Nat
      /\ Len(code) \in Nat
  BY TypedLengths DEF WordInv, Types
<1>2. CASE Work
  <2>1. code' \in Seq(CodeCells) /\ Len(code') = Len(code) + 1
    BY <1>1, <1>2, TokenCells DEF Work, Ops
  <2>2. Enters("work")
    BY <1>1, <1>2, <2>1, EntersIs DEF Work, Typed
  <2> QED
    BY <1>2, <2>2, LevelStep DEF Work, Opens, Closes
<1>3. CASE Exit
  <2>1. code' \in Seq(CodeCells) /\ Len(code') = Len(code) + 1
    BY <1>1, <1>3, TokenCells DEF Exit, Ops
  <2>2. Enters("exit")
    BY <1>1, <1>3, <2>1, EntersIs DEF Exit, Typed
  <2> QED
    BY <1>3, <2>2, LevelStep DEF Exit, Opens, Closes
<1>4. CASE Else
  <2>1. open # <<>> /\ Head(open) \in {"if", "unless"}
    BY <1>4 DEF Else, Inside
  <2>2. cs # <<>> /\ Head(cs) \in Nat
    BY <2>1, StackFacts
  <2>3. code' \in Seq(CodeCells) /\ Len(code') = Len(code) + 2
    <3>1. /\ code \o <<Op("branch"), Unresolved>> \in Seq(CodeCells)
          /\ Len(code \o <<Op("branch"), Unresolved>>) = Len(code) + 2
      BY <1>1, TokenCells
    <3>2. code' = Resolve(code \o <<Op("branch"), Unresolved>>, Head(cs))
      BY <1>4 DEF Else, CompileElse
    <3>3. Head(cs) \in Int
      BY <2>2
    <3> QED
      BY <3>1, <3>2, <3>3, ResolveFacts
  <2>4. Enters("else")
    BY <1>1, <1>4, <2>3, EntersIs DEF Else, Typed
  <2>5. Len(code') \in Nat /\ cs' = <<Len(code')>> \o Tail(cs)
    BY <1>1, <1>4, <2>3 DEF Else, CompileElse
  <2>6. /\ cs' \in Seq(Nat) /\ Len(cs') = Len(cs)
        /\ \A q \in 1..(Len(cs) - 1) : Up(cs', q) = Up(cs, q)
    BY <1>1, <2>2, <2>5, TurnFacts
  <2>7. Turns("else")
    BY <1>1, <1>4, <2>6 DEF Turns, Wide, Source, Else, Changing
  <2> QED
    BY <1>4, <2>4, <2>7, LevelStep DEF Else, CompileElse, Opens, Closes
<1>5. CASE While
  <2>1. open # <<>> /\ Head(open) = "begin"
    BY <1>5 DEF While, Inside
  <2>2. /\ Head(cs) \in Nat /\ Tail(cs) \in Seq(Nat) /\ Len(Tail(cs)) = Len(cs) - 1
        /\ \A q \in 1..(Len(cs) - 1) : Up(Tail(cs), q) = Up(cs, q)
    BY <2>1, StackFacts
  <2>3. code' \in Seq(CodeCells) /\ Len(code') = Len(code) + 1 + 2
    <3>1. Op("0branch") \in CodeCells /\ Unresolved \in CodeCells
      BY CellFacts DEF Ops
    <3> QED
      BY <1>1, <1>5, <3>1, TokenCells DEF While
  <2>4. Enters("while")
    BY <1>1, <1>5, <2>3, EntersIs DEF While, Typed
  <2>5. Len(code') \in Nat /\ cs' = <<Head(cs), Len(code')>> \o Tail(cs)
    BY <1>1, <1>5, <2>3 DEF While
  <2>6. /\ cs' \in Seq(Nat) /\ Len(cs') = Len(Tail(cs)) + 2
        /\ \A q \in 1..Len(Tail(cs)) : Up(cs', q) = Up(Tail(cs), q)
    <3>1. ASSUME NEW x \in Nat, NEW y \in Nat, NEW s \in Seq(Nat),
                 cs' = <<x, y>> \o s
          PROVE  /\ cs' \in Seq(Nat) /\ Len(cs') = Len(s) + 2
                 /\ \A q \in 1..Len(s) : Up(cs', q) = Up(s, q)
      BY <3>1, PushTwo
    <3> QED
      BY <2>2, <2>5, <3>1
  <2>7. /\ Len(cs') = Len(cs) - 1 + 2
        /\ \A q \in 1..(Len(cs) - 1) : Up(cs', q) = Up(cs, q)
    BY <1>1, <2>2, <2>6
  <2>8. Turns("while")
    BY <1>5, <2>6, <2>7 DEF Turns, Wide, Source, While, Changing
  <2> QED
    BY <1>5, <2>4, <2>8, LevelStep DEF While, Opens, Closes
<1> QED
  BY <1>2, <1>3, <1>4, <1>5

LEMMA LeaveStep ==
  ASSUME NEW b, WordInv(b), Leave
  PROVE  WordInv(b)'
<1>1. Types /\ Len(ls) <= LeaveCells /\ Len(open) \in Nat /\ Len(ls) \in Nat
      /\ Len(code) \in Nat /\ code \in Seq(CodeCells) /\ LeaveCells \in Nat
  BY TypedLengths, ControlFlowAssumption DEF WordInv, Types
<1>2. PICK pos, B : Word(b, pos, B)
  BY DEF WordInv
<1>3. Hist(pos) /\ Shaped(open, src, at, cs, b, B, pos) /\ (~stale => Leaves(pos))
  BY <1>2 DEF Word
<1>4. /\ open' = open /\ cs' = cs /\ \E i \in 1..Len(open) : open[i] \in Loops
      /\ Token("leave") /\ at' = Append(at, Len(code') + 1)
  BY DEF Leave, Loops
<1>5. /\ Op("unloop") \in CodeCells /\ Op("branch") \in CodeCells
      /\ Unresolved \in CodeCells
  BY CellFacts DEF Ops
<1>6. CASE LeaveFull
  <2>1. /\ code' = code \o <<Op("unloop"), Op("branch")>>
        /\ mode' = "aborted" /\ ls' = ls
    BY <1>6 DEF Leave
  <2>2. code' \in Seq(CodeCells) /\ Len(code') >= Len(code)
    BY <1>1, <1>5, <2>1, Appended
  <2>3. Enters("leave")
    BY <1>1, <1>4, <2>2, EntersIs
  <2>4. Types'
    BY <1>1, <1>4, <2>1, <2>3, EntersTypes DEF Types
  <2>5. Hist(pos)'
    <3>1. Extended("leave") /\ "leave" \notin Opens /\ "leave" \notin Closes
      BY <2>3 DEF Opens, Closes, Enters
    <3> QED
      BY <1>1, <1>3, <1>4, <3>1, HistKeeps
  <2>6. Shaped(open', src', at', cs', b, B, pos)
    BY <1>1, <1>3, <1>4, <2>3, ShapeKeep
  <2>7. ~stale => Leaves(pos)'
    <3>1. ASSUME ~stale PROVE Leaves(pos)'
      <4>1. /\ 0 \in 0..Len(ls) /\ Len(ls') = Len(ls) - 0
            /\ \A k \in 1..(Len(ls) - 0) : ls'[k] = ls[0 + k]
        BY <1>1, <2>1
      <4>2. \A d, i, a : LeaveOf(pos, d, i, a) =>
              d \in 1..Len(open') /\ Up(open', d) = Up(open, d) /\ pos[d] = pos[d]
        BY <1>4 DEF LeaveOf
      <4> QED
        BY <1>1, <1>3, <2>3, <3>1, <4>1, <4>2, LeavesKept
    <3> QED
      BY <3>1
  <2>8. stale' = stale /\ Len(ls') <= LeaveCells
    BY <1>1, <2>1, <2>3 DEF Enters
  <2>9. Word(b, pos, B)'
    BY <2>5, <2>6, <2>7, <2>8 DEF Word
  <2> QED
    BY <2>4, <2>8, <2>9 DEF WordInv
<1>7. CASE ~LeaveFull
  <2>1. /\ code' = code \o <<Op("unloop"), Op("branch"), Unresolved>>
        /\ mode' = mode /\ ls' = <<Len(code')>> \o ls
    BY <1>7 DEF Leave
  <2>2. code' \in Seq(CodeCells) /\ Len(code') = Len(code) + 3
    BY <1>1, <1>5, <2>1, Appended
  <2>3. Enters("leave")
    BY <1>1, <1>4, <2>2, EntersIs
  <2>4. ls' \in Seq(Nat \ {0}) /\ Len(ls') = Len(ls) + 1
    <3>1. ls \in Seq(Nat \ {0}) /\ Len(code') \in Nat \ {0}
      BY <1>1, <2>2 DEF Types
    <3> QED
      BY <2>1, <3>1, PushFacts
  <2>5. Types'
    <3>1. mode' \in {"compile", "aborted"}
      BY <2>1, <2>3 DEF Enters
    <3> QED
      BY <1>1, <1>4, <2>3, <2>4, <3>1, EntersTypes DEF Types
  <2>6. Hist(pos)'
    <3>1. Extended("leave") /\ "leave" \notin Opens /\ "leave" \notin Closes
      BY <2>3 DEF Opens, Closes, Enters
    <3> QED
      BY <1>1, <1>3, <1>4, <3>1, HistKeeps
  <2>7. Shaped(open', src', at', cs', b, B, pos)
    BY <1>1, <1>3, <1>4, <2>3, ShapeKeep
  <2>8. ~stale => Leaves(pos)'
    <3>1. Len(code') > Len(code) + 1
      BY <1>1, <2>2
    <3> QED
      BY <1>1, <1>3, <1>4, <2>1, <2>3, <3>1, LeavesGrow
  <2>9. stale' = stale /\ Len(ls') <= LeaveCells
    BY <1>1, <1>7, <2>3, <2>4 DEF Enters, LeaveFull
  <2>10. Word(b, pos, B)'
    BY <2>6, <2>7, <2>8, <2>9 DEF Word
  <2> QED
    BY <2>5, <2>9, <2>10 DEF WordInv
<1> QED
  BY <1>6, <1>7

LEMMA ClosingStep ==
  ASSUME NEW b, WordInv(b), Then \/ Until \/ Again \/ Repeat \/ EndOf
  PROVE  WordInv(b)'
<1>1. /\ Types /\ cs \in Seq(Nat) /\ code \in Seq(CodeCells) /\ Len(cs) \in Nat
      /\ Len(code) \in Nat /\ open # <<>>
  BY TypedLengths DEF WordInv, Types, Then, Until, Again, Repeat, EndOf, Inside
<1>2. /\ Head(cs) \in Nat /\ cs # <<>>
      /\ Tail(cs) \in Seq(Nat) /\ Len(Tail(cs)) = Len(cs) - 1
      /\ \A q \in 1..(Len(cs) - 1) : Up(Tail(cs), q) = Up(cs, q)
  BY <1>1, StackFacts
<1>3. CASE Then
  <2>1. code' \in Seq(CodeCells) /\ Len(code') = Len(code)
    BY <1>1, <1>2, <1>3, ResolveFacts DEF Then
  <2>2. Enters("then")
    BY <1>1, <1>3, <2>1, EntersIs DEF Then, Typed
  <2>3. Inside({"if", "unless", "else"}) /\ cs' = Tail(cs) /\ open' = Tail(open)
    BY <1>3 DEF Then, Closing
  <2>4. Wide(Head(open)) = 1
    BY <2>3 DEF Wide, Inside
  <2>5. /\ cs' \in Seq(Nat) /\ Len(cs') = Len(cs) - Wide(Head(open))
        /\ \A q \in 1..Len(cs') : Up(cs', q) = Up(cs, q)
    BY <1>2, <2>3, <2>4
  <2>6. {"if", "unless", "else"} \cap Loops = {} /\ "then" \in Closes
    BY DEF Loops, Closes
  <2> QED
    BY <1>3, <2>2, <2>3, <2>5, <2>6, PopStep DEF Then
<1>4. ASSUME NEW t \in {"until", "again"}, Inside({"begin"}), cs' = Tail(cs),
             open' = Tail(open), Enters(t), ls' = ls, mode' = mode
      PROVE  WordInv(b)'
  <2>1. Wide(Head(open)) = 1
    BY <1>4 DEF Wide, Inside
  <2>2. /\ cs' \in Seq(Nat) /\ Len(cs') = Len(cs) - Wide(Head(open))
        /\ \A q \in 1..Len(cs') : Up(cs', q) = Up(cs, q)
    BY <1>2, <1>4, <2>1
  <2>3. {"begin"} \cap Loops = {} /\ t \in Closes
    BY DEF Loops, Closes
  <2> QED
    BY <1>4, <2>2, <2>3, PopStep
<1>5. CASE Until
  <2>1. code' \in Seq(CodeCells) /\ Len(code') = Len(code) + 1 + 1 + 1
    <3> DEFINE c == (code \o Operands(1)) \o <<Op("0branch")>>
    <3>1. c \in Seq(CodeCells) /\ Len(c) = Len(code) + 1 + 1
      BY <1>1, CellFacts, TokenCells DEF Ops
    <3>2. code' = BackTo(c, Head(cs))
      BY <1>5 DEF Until
    <3> HIDE DEF c
    <3> QED
      BY <1>2, <3>1, <3>2, Appended
  <2>2. Enters("until")
    <3>1. Token("until") /\ at' = Append(at, Len(code') + 1)
      BY <1>5 DEF Until, Typed
    <3>2. Len(code') >= Len(code)
      BY <1>1, <2>1
    <3> QED
      BY <1>1, <2>1, <3>1, <3>2, EntersIs
  <2> QED
    BY <1>4, <1>5, <2>2 DEF Until, Closing
<1>6. CASE Again
  <2>1. code' \in Seq(CodeCells) /\ Len(code') = Len(code) + 1 + 1
    <3>1. /\ Append(code, Op("branch")) \in Seq(CodeCells)
          /\ Len(Append(code, Op("branch"))) = Len(code) + 1
      BY <1>1, TokenCells DEF Ops
    <3> QED
      BY <1>2, <1>6, <3>1, Appended DEF Again
  <2>2. Enters("again")
    BY <1>1, <1>6, <2>1, EntersIs DEF Again, Typed
  <2> QED
    BY <1>4, <1>6, <2>2 DEF Again, Closing
<1>7. CASE Repeat
  <2>1. Inside({"while"}) /\ Head(open) = "while" /\ open' = Tail(open)
        /\ cs' = Tail(Tail(cs))
    BY <1>7 DEF Repeat, Inside, Closing
  <2>2. /\ Len(cs) >= 2 /\ cs[2] \in Nat
        /\ cs' \in Seq(Nat) /\ Len(cs') = Len(cs) - 2
        /\ \A q \in 1..(Len(cs) - 2) : Up(cs', q) = Up(cs, q)
    BY <1>1, <2>1, StackFacts
  <2>3. code' \in Seq(CodeCells) /\ Len(code') = Len(code) + 1 + 1
    <3> DEFINE c == Append(code, Op("branch"))
    <3>1. c \in Seq(CodeCells) /\ Len(c) = Len(code) + 1
      BY <1>1, TokenCells DEF Ops
    <3>2. code' = Resolve(BackTo(c, Head(cs)), cs[2])
      BY <1>7 DEF Repeat
    <3> HIDE DEF c
    <3>3. /\ BackTo(c, Head(cs)) \in Seq(CodeCells)
          /\ Len(BackTo(c, Head(cs))) = Len(c) + 1
      BY <1>2, <3>1, Appended
    <3> QED
      BY <2>2, <3>1, <3>2, <3>3, ResolveFacts
  <2>4. Enters("repeat")
    BY <1>1, <1>7, <2>3, EntersIs DEF Repeat, Typed
  <2>5. /\ Len(cs') = Len(cs) - Wide(Head(open))
        /\ \A q \in 1..Len(cs') : Up(cs', q) = Up(cs, q)
    BY <2>1, <2>2 DEF Wide
  <2>6. {"while"} \cap Loops = {} /\ "repeat" \in Closes
    BY DEF Loops, Closes
  <2> QED
    BY <1>7, <2>1, <2>2, <2>4, <2>5, <2>6, PopStep DEF Repeat
<1>8. CASE EndOf
  <2>1. code' \in Seq(CodeCells) /\ Len(code') = Len(code) + 2
    <3>1. /\ code \o <<Op("branch"), Unresolved>> \in Seq(CodeCells)
          /\ Len(code \o <<Op("branch"), Unresolved>>) = Len(code) + 2
      BY <1>1, TokenCells
    <3>2. code' = Resolve(code \o <<Op("branch"), Unresolved>>, Head(cs))
      BY <1>8 DEF EndOf, CompileElse
    <3>3. Head(cs) \in Int
      BY <1>2
    <3> QED
      BY <3>1, <3>2, <3>3, ResolveFacts
  <2>2. Enters("endof")
    BY <1>1, <1>8, <2>1, EntersIs DEF EndOf, Typed
  <2>3. Len(code') \in Nat /\ Len(code') # 0 /\ cs' = <<Len(code')>> \o Tail(cs)
    BY <1>1, <1>8, <2>1 DEF EndOf, CompileElse
  <2>4. /\ cs' \in Seq(Nat) /\ Len(cs') = Len(cs) /\ Up(cs', Len(cs)) # 0
        /\ \A q \in 1..(Len(cs) - 1) : Up(cs', q) = Up(cs, q)
    BY <1>1, <1>2, <2>3, TurnFacts
  <2>5. HandsOver
    BY <1>8, <2>4 DEF HandsOver, EndOf, Closing
  <2>6. {"of"} \cap Loops = {} /\ "endof" \in Closes /\ Inside({"of"})
    BY <1>8 DEF Loops, Closes, EndOf
  <2> QED
    BY <1>8, <2>2, <2>5, <2>6, PopStep DEF EndOf, CompileElse
<1> QED
  BY <1>3, <1>5, <1>6, <1>7, <1>8

LEMMA EndCaseStep ==
  ASSUME NEW b, WordInv(b), EndCase
  PROVE  WordInv(b)'
<1>1. /\ Types /\ cs \in Seq(Nat) /\ code \in Seq(CodeCells) /\ Len(code) \in Nat
  BY TypedLengths DEF WordInv, Types
<1>2. PICK n : n = CHOOSE k \in 1..Len(cs) :
                     cs[k] = 0 /\ \A j \in 1..(k - 1) : cs[j] # 0
  OBVIOUS
<1>3. /\ Inside({"case"}) /\ open' = Tail(open)
      /\ code' = ResolveAll(Append(code, Op("drop")), {cs[k] : k \in 1..(n - 1)})
      /\ cs' = SubSeq(cs, n + 1, Len(cs))
  BY <1>2 DEF EndCase, Closing
<1>4. code' \in Seq(CodeCells) /\ Len(code') = Len(code) + 1
  <2>1. /\ Append(code, Op("drop")) \in Seq(CodeCells)
        /\ Len(Append(code, Op("drop"))) = Len(code) + 1
    BY <1>1, TokenCells DEF Ops
  <2> QED
    BY <1>3, <2>1, ResolveFacts
<1>5. Enters("endcase")
  <2>1. Token("endcase") /\ at' = Append(at, Len(code') + 1)
    BY DEF EndCase, Typed
  <2>2. Len(code') >= Len(code)
    BY <1>1, <1>4
  <2> QED
    BY <1>1, <1>4, <2>1, <2>2, EntersIs
<1>6. ASSUME NEW pos, NEW B, Word(b, pos, B) PROVE Pops(B[Len(open) - 1])
  <2>1. n \in 1..Len(cs) /\ Len(cs) \in Nat /\ Len(cs) - n = B[Len(open) - 1]
    BY <1>1, <1>2, <1>3, <1>6, CaseZero
  <2>2. n \in 0..Len(cs)
    BY <2>1
  <2>3. /\ cs' \in Seq(Nat) /\ Len(cs') = Len(cs) - n
        /\ \A q \in 1..(Len(cs) - n) : Up(cs', q) = Up(cs, q)
    BY <1>1, <1>3, <2>2, DropFacts
  <2> QED
    BY <1>3, <2>1, <2>3 DEF Pops, Inside
<1>7. {"case"} \cap Loops = {} /\ "endcase" \in Closes
  BY DEF Loops, Closes
<1>8. ls' = ls /\ mode' = mode
  BY DEF EndCase
<1> QED
  BY <1>3, <1>5, <1>6, <1>7, <1>8, PopStep

(* LOOP and +LOOP take every leave address of their loop and no other.     *)
LEMMA LoopStep ==
  ASSUME NEW b, WordInv(b), Loop \/ PlusLoop
  PROVE  WordInv(b)'
<1>1. /\ Types /\ cs \in Seq(Nat) /\ code \in Seq(CodeCells) /\ Len(code) \in Nat
      /\ Len(ls) <= LeaveCells /\ Len(ls) \in Nat /\ Len(open) \in Nat
      /\ ls \in Seq(Nat \ {0})
  BY TypedLengths DEF WordInv, Types
<1>2. PICK pos, B : Word(b, pos, B)
  BY DEF WordInv
<1>3. Hist(pos) /\ Shaped(open, src, at, cs, b, B, pos) /\ (~stale => Leaves(pos))
  BY <1>2 DEF Word
<1>4. PICK t \in {"loop", "+loop"}, c \in Seq(CodeCells) :
        /\ Inside({"do", "?do"}) /\ CompileLoop(c) /\ Len(c) >= Len(code)
        /\ open' = Tail(open) /\ Typed(t) /\ mode' = mode
  <2>1. CASE Loop
    <3>1. /\ Append(code, Op("(loop)")) \in Seq(CodeCells)
          /\ Len(Append(code, Op("(loop)"))) = Len(code) + 1
      BY <1>1, TokenCells DEF Ops
    <3>2. Len(Append(code, Op("(loop)"))) >= Len(code)
      BY <1>1, <3>1
    <3> QED
      BY <2>1, <3>1, <3>2 DEF Loop, Closing
  <2>2. CASE PlusLoop
    <3> DEFINE c == (code \o Operands(1)) \o <<Op("(+loop)")>>
    <3>1. c \in Seq(CodeCells) /\ Len(c) = Len(code) + 1 + 1
      BY <1>1, CellFacts, TokenCells DEF Ops
    <3>2. Len(c) >= Len(code)
      BY <1>1, <3>1
    <3>3. /\ Inside({"do", "?do"}) /\ CompileLoop(c)
          /\ open' = Tail(open) /\ Typed("+loop") /\ mode' = mode
      BY <2>2 DEF PlusLoop, Closing
    <3> HIDE DEF c
    <3> QED
      BY <3>1, <3>2, <3>3
  <2> QED
    BY <2>1, <2>2
<1>5. open # <<>> /\ Head(open) \in {"do", "?do"}
  BY <1>4 DEF Inside
<1>6. Len(open) >= 1 /\ Up(open, Len(open)) \in {"do", "?do"}
  <2>1. open \in Seq(OpenKinds)
    BY <1>1 DEF Types
  <2> QED
    BY <1>5, <2>1, PopFacts
<1> DEFINE n == Len(open)
           dest == cs[2]
<1>7. /\ Len(cs) >= 2 /\ Len(cs) \in Nat /\ dest \in Nat /\ Head(cs) \in Nat
      /\ dest = Up(cs, Len(cs) - 1)
      /\ Tail(Tail(cs)) \in Seq(Nat) /\ Len(Tail(Tail(cs))) = Len(cs) - 2
      /\ \A q \in 1..(Len(cs) - 2) : Up(Tail(Tail(cs)), q) = Up(cs, q)
  BY <1>5, StackFacts
<1>8. /\ B[n] = Len(cs) /\ B[n - 1] \in Nat /\ B[n] = B[n - 1] + 2
      /\ dest = at[pos[n] + 1]
  <2>1. FrameFits(open, src, at, cs, B, pos, n)
    BY <1>1, <1>3, <1>6 DEF Shaped
  <2>2. B[n] = Len(cs) /\ B[n - 1] \in Nat
    BY <1>1, <1>3, <1>6, ShapeFacts
  <2>3. B[n] = B[n - 1] + 2 /\ Up(cs, B[n - 1] + 1) = at[pos[n] + 1]
    BY <1>6, <2>1 DEF FrameFits, Wide
  <2>4. B[n - 1] + 1 = Len(cs) - 1
    BY <1>7, <2>2, <2>3
  <2> QED
    BY <1>7, <2>2, <2>3, <2>4
<1>9. PICK r : r = Resolvable(dest)
  OBVIOUS
<1>10. r \in 0..Len(ls) /\ (r < Len(ls) => ls[r + 1] <= dest)
  BY <1>1, <1>7, <1>9, ResolvableFacts
<1>11. /\ ls' = SubSeq(ls, r + 1, Len(ls)) /\ cs' = Tail(Tail(cs))
  BY <1>4, <1>9 DEF CompileLoop
<1>12. code' \in Seq(CodeCells) /\ Len(code') = Len(c) + 1
  <2> DEFINE c1 == BackTo(c, dest)
             c2 == IF Head(cs) # 0 THEN Resolve(c1, dest - 2) ELSE c1
  <2>1. c1 \in Seq(CodeCells) /\ Len(c1) = Len(c) + 1
    BY <1>7, Appended
  <2>2. c2 \in Seq(CodeCells) /\ Len(c2) = Len(c1)
    <3>1. CASE Head(cs) # 0
      <4>1. dest - 2 \in Int
        BY <1>7
      <4> QED
        BY <2>1, <3>1, <4>1, ResolveFacts
    <3> QED
      BY <2>1, <3>1
  <2>3. code' = ResolveAll(c2, {ls[k] : k \in 1..r})
    BY <1>4, <1>9 DEF CompileLoop
  <2> HIDE DEF c1, c2
  <2> QED
    BY <2>1, <2>2, <2>3, ResolveFacts
<1>13. Enters(t)
  <2>1. Len(code') >= Len(code)
    BY <1>1, <1>4, <1>12, LenProperties
  <2> QED
    BY <1>1, <1>4, <1>12, <2>1, EntersIs DEF Typed
<1>14. /\ ls' \in Seq(Nat \ {0}) /\ Len(ls') = Len(ls) - r
       /\ \A k \in 1..(Len(ls) - r) : ls'[k] = ls[r + k]
  BY <1>1, <1>10, <1>11, DropFacts
<1>15. Pops(B[n - 1])
  <2>1. B[n - 1] = Len(cs) - 2
    BY <1>7, <1>8
  <2> QED
    BY <1>4, <1>5, <1>7, <1>11, <2>1 DEF Pops
<1>16. ASSUME ~stale, NEW k \in (r + 1)..Len(ls), NEW d, NEW i,
              LeaveOf(pos, d, i, ls[k]), d = n
       PROVE  FALSE
  <2>1. dest < ls[k]
    BY <1>8, <1>16 DEF LeaveOf
  <2>2. r + 1 \in 1..Len(ls) /\ k \in 1..Len(ls) /\ (r + 1 = k \/ r + 1 < k)
        /\ r < Len(ls)
    BY <1>1, <1>10, <1>16
  <2>3. ls[k] \in Nat /\ ls[r + 1] \in Nat
    BY <1>1, <2>2, ElementOfSeq
  <2>4. ls[k] <= ls[r + 1]
    BY <1>3, <1>16, <2>2, <2>3 DEF Leaves
  <2>5. ls[r + 1] <= dest /\ dest \in Nat
    BY <1>7, <1>10, <2>2
  <2> HIDE DEF dest
  <2> QED
    BY <2>1, <2>3, <2>4, <2>5
<1>17. t \in Closes /\ mode' = mode
  BY <1>4 DEF Closes
<1> HIDE DEF dest
<1> QED
  BY <1>1, <1>2, <1>10, <1>13, <1>14, <1>15, <1>16, <1>17, CloseStep

-----------------------------------------------------------------------------
(* The words around a definition.                                          *)

(* A new word starts with no structure, on whatever is on the stacks.      *)
Fresh ==
  /\ code = <<>> /\ mode = "compile" /\ open = <<>> /\ src = <<>> /\ at = <<1>>
  /\ cs \in Seq(Nat) /\ ls \in Seq(Nat \ {0}) /\ Len(ls) <= LeaveCells
  /\ stale \in BOOLEAN /\ (ls = <<>> \/ stale)

LEMMA FreshWord == Fresh => WordInv(Len(cs))
<1> SUFFICES ASSUME Fresh PROVE WordInv(Len(cs))
  OBVIOUS
<1> DEFINE b == Len(cs)
<1>1. /\ Len(code) = 0 /\ Len(open) = 0 /\ Len(src) = 0
      /\ code \in Seq(CodeCells) /\ open \in Seq(OpenKinds) /\ src \in Seq(AllTokens)
  BY DEF Fresh
<1>2. at \in Seq(Nat) /\ Len(at) = 1 /\ at[1] = 1
  BY DEF Fresh
<1>3. Types
  BY <1>1, <1>2 DEF Types, Fresh
<1> DEFINE pos == [d \in 1..0 |-> 0]
           B == [d \in 0..0 |-> b]
<1>4. b \in Nat
  BY <1>3, TypedLengths
<1>5. Hist(pos)
  <2>1. Depth(0) = 0
    <3>1. \A S : {k \in 1..0 : src[k] \in S} = {}
      OBVIOUS
    <3>2. \A S : Count(0, S) = 0
      BY <3>1, FS_EmptySet DEF Count
    <3> QED
      BY <3>2 DEF Depth
  <2>2. /\ pos \in [1..Len(open) -> 1..Len(src)]
        /\ \A N \in Nat : N = Len(src) => Depth(N) = Len(open)
    BY <1>1, <2>1
  <2> QED
    BY <1>1, <2>2 DEF Hist
<1>6. Shaped(open, src, at, cs, b, B, pos)
  BY <1>1, <1>4 DEF Shaped
<1>7. ~stale => Leaves(pos)
  BY DEF Leaves, Fresh
<1>8. Word(b, pos, B)
  BY <1>5, <1>6, <1>7 DEF Word
<1> QED
  BY <1>3, <1>8 DEF WordInv, Fresh

LEMMA FreshWordNext == Fresh' => WordInv(Len(cs))'
BY FreshWord, PTL

(* Between words nothing of the last one is left.                          *)
LEMMA NothingOpen ==
  ASSUME NEW b, WordInv(b), open = <<>>
  PROVE  Len(cs) = b /\ (~stale => ls = <<>>)
<1>1. PICK pos, B : Word(b, pos, B)
  BY DEF WordInv
<1>2. Len(open) = 0
  OBVIOUS
<1>3. Len(cs) = b
  BY <1>1, <1>2 DEF Word, Shaped
<1>4. ASSUME ~stale PROVE ls = <<>>
  <2>1. Types /\ Len(ls) \in Nat /\ ls \in Seq(Nat \ {0})
    BY TypedLengths DEF WordInv, Types
  <2>2. ASSUME Len(ls) # 0 PROVE FALSE
    <3>1. 1 \in 1..Len(ls)
      BY <2>1, <2>2
    <3>2. PICK d, i : LeaveOf(pos, d, i, ls[1])
      BY <1>1, <1>4, <3>1 DEF Word, Leaves
    <3> QED
      BY <1>2, <3>2 DEF LeaveOf
  <2> QED
    BY <2>1, <2>2, EmptySeq
<1> QED
  BY <1>3, <1>4

LEMMA QuietStep ==
  ASSUME NEW b, WordInv(b), Types', UNCHANGED <<cs, ls, open, src, at, stale>>
  PROVE  WordInv(b)'
<1>1. PICK pos, B : Word(b, pos, B)
  BY DEF WordInv
<1>2. Hist(pos) /\ Shaped(open, src, at, cs, b, B, pos) /\ (~stale => Leaves(pos))
  BY <1>1 DEF Word
<1>3. /\ open' = open /\ src' = src /\ at' = at /\ ls' = ls /\ cs' = cs
      /\ stale' = stale
  OBVIOUS
<1>4. \A i : Depth(i)' = Depth(i)
  BY <1>3 DEF Depth, Count
<1>5. \A i, j : Ends(i, j)' <=> Ends(i, j)
  BY <1>4 DEF Ends
<1>6. \A i : /\ Closed(i)' <=> Closed(i)
             /\ Closer(i)' = Closer(i)
  BY <1>3, <1>5 DEF Closed, Closer
<1>7. \A i, kinds, j : IsInnermost(i, kinds, j)' <=> IsInnermost(i, kinds, j)
  BY <1>3, <1>6 DEF IsInnermost, Encloses
<1>8. Hist(pos)'
  BY <1>2, <1>3, <1>4, <1>6 DEF Hist
<1>9. Shaped(open, src, at, cs, b, B, pos)'
  BY <1>2
<1>10. ~stale => Leaves(pos)'
  <2>1. \A d, i, a : LeaveOf(pos, d, i, a) => LeaveOf(pos, d, i, a)'
    BY <1>3, <1>7 DEF LeaveOf, After
  <2> QED
    BY <1>2, <1>3, <2>1 DEF Leaves
<1>11. Word(b, pos, B)'
  BY <1>8, <1>9, <1>10 DEF Word
<1> QED
  BY <1>11 DEF WordInv

LEMMA SemicolonStep ==
  ASSUME NEW b, WordInv(b), Semicolon
  PROVE  WordInv(b)'
<1>1. /\ Types /\ code \in Seq(CodeCells) /\ Len(code) \in Nat
      /\ \A k \in 1..Len(at) : at[k] \in Nat
  BY TypedLengths, ElementOfSeq DEF WordInv, Types
<1>2. code' \in Seq(CodeCells) /\ Len(code') = Len(code) + 1
  BY <1>1, TokenCells DEF Semicolon, Ops
<1>3. \A k \in 1..Len(at) : at[k] <= Len(code') + 1
  BY <1>1, <1>2 DEF Types
<1>4. /\ UNCHANGED <<cs, ls, open, src, at, stale>> /\ mode' = "ready" /\ open = <<>>
  BY DEF Semicolon
<1>5. Types'
  BY <1>1, <1>2, <1>3, <1>4 DEF Types
<1> QED
  BY <1>4, <1>5, QuietStep

LEMMA TokenStep ==
  ASSUME NEW b, WordInv(b), CompileToken
  PROVE  WordInv(b)'
BY OpeningStep, MiddleStep, LeaveStep, ClosingStep, EndCaseStep, LoopStep
   DEF CompileToken

(* A step that abandons no word keeps what is under the word's items, and  *)
(* the leave stack clean.                                                  *)
LEMMA WordStep ==
  ASSUME NEW b \in Nat, WordInv(b), CFNext, ~Abandon, ~Restart
  PROVE  WordInv(b)' /\ stale' = stale
<1>1. CASE CompileToken
  <2>1. stale' = stale
    BY <1>1 DEF CompileToken, Work, Exit, If, Unless, CompileIf, Else, Then,
         Begin, Until, Again, While, Repeat, Case, Of, EndOf, EndCase, Do, QDo,
         Leave, Loop, PlusLoop, Typed, Token
  <2> QED
    BY <1>1, <2>1, TokenStep
<1>2. CASE Semicolon
  BY <1>2, SemicolonStep DEF Semicolon
<1>3. CASE Forget
  <2>1. Types /\ Len(ls) <= LeaveCells /\ open = <<>>
    BY <1>3 DEF WordInv, Types, Forget
  <2>2. Len(cs) = b /\ (~stale => ls = <<>>)
    BY <2>1, NothingOpen
  <2>3. /\ cs' = cs /\ ls' = ls /\ stale' = stale /\ code' = <<>>
        /\ mode' = "compile" /\ open' = <<>> /\ src' = <<>> /\ at' = <<1>>
    BY <1>3 DEF Forget, NewWord
  <2>4. cs \in Seq(Nat) /\ ls \in Seq(Nat \ {0}) /\ stale \in BOOLEAN
    BY <2>1 DEF Types
  <2> QED
    BY <2>1, <2>2, <2>3, <2>4, FreshWordNext DEF Fresh
<1> QED
  BY <1>1, <1>2, <1>3 DEF CFNext

LEMMA AbandonStep ==
  ASSUME NEW b \in Nat, WordInv(b), Abandon
  PROVE  \E c \in Nat : WordInv(c)'
<1>1. Types /\ Len(ls) <= LeaveCells /\ Len(cs) \in Nat
  BY TypedLengths DEF WordInv
<1>2. /\ cs' = cs /\ ls' = ls /\ stale' = (stale \/ ls # <<>>) /\ code' = <<>>
      /\ mode' = "compile" /\ open' = <<>> /\ src' = <<>> /\ at' = <<1>>
  BY DEF Abandon, NewWord
<1>3. cs \in Seq(Nat) /\ ls \in Seq(Nat \ {0}) /\ stale \in BOOLEAN
  BY <1>1 DEF Types
<1> QED
  BY <1>1, <1>2, <1>3, FreshWordNext DEF Fresh

LEMMA RestartStep ==
  ASSUME Restart
  PROVE  WordInv(0)' /\ stale' = FALSE
<1>1. /\ cs' = <<>> /\ ls' = <<>> /\ stale' = FALSE /\ code' = <<>>
      /\ mode' = "compile" /\ open' = <<>> /\ src' = <<>> /\ at' = <<1>>
  BY DEF Restart, NewWord
<1>2. /\ cs' \in Seq(Nat) /\ ls' \in Seq(Nat \ {0}) /\ Len(cs') = 0
      /\ Len(ls') <= LeaveCells
  BY <1>1, ControlFlowAssumption
<1> QED
  BY <1>1, <1>2, FreshWordNext DEF Fresh

LEMMA StutterStep ==
  ASSUME NEW b, WordInv(b), UNCHANGED cfVars
  PROVE  WordInv(b)'
<1>1. Types'
  BY DEF WordInv, Types, cfVars
<1> QED
  BY <1>1, QuietStep DEF cfVars

LEMMA FirstWord ==
  ASSUME CFInit
  PROVE  WordInv(0) /\ ~stale
<1>1. /\ cs \in Seq(Nat) /\ ls \in Seq(Nat \ {0}) /\ Len(cs) = 0
      /\ Len(ls) <= LeaveCells
  BY ControlFlowAssumption DEF CFInit
<1> QED
  BY <1>1, FreshWord DEF CFInit, Fresh

-----------------------------------------------------------------------------
(* The theorems.                                                           *)

CFInv == \E b \in Nat : WordInv(b)

LEMMA CFInvariant == CFSpec => []CFInv
<1>1. CFInit => CFInv
  BY FirstWord DEF CFInv
<1>2. CFInv /\ [CFNext]_cfVars => CFInv'
  <2> SUFFICES ASSUME NEW b \in Nat, WordInv(b), [CFNext]_cfVars
               PROVE  \E c \in Nat : WordInv(c)'
    BY DEF CFInv
  <2>1. CASE UNCHANGED cfVars
    BY <2>1, StutterStep
  <2>2. CASE Abandon
    BY <2>2, AbandonStep
  <2>3. CASE Restart
    BY <2>3, RestartStep
  <2>4. CASE CFNext /\ ~Abandon /\ ~Restart
    BY <2>4, WordStep
  <2> QED
    BY <2>1, <2>2, <2>3, <2>4
<1> QED
  BY <1>1, <1>2, PTL DEF CFSpec

LEMMA CompilerTyped == Types => CFTypeOK
<1> SUFFICES ASSUME Types PROVE CFTypeOK
  OBVIOUS
<1>1. \A i \in 1..Len(code) : code[i] \in CodeCells
  BY ElementOfSeq DEF Types
<1>2. \A i \in 1..Len(code) : code[i].arg \in Int
  BY <1>1 DEF CodeCells
<1>3. \A k \in 1..Len(cs) : cs[k] \in Nat
  BY ElementOfSeq DEF Types
<1>4. \A k \in 1..Len(ls) : ls[k] \in Nat \ {0}
  BY ElementOfSeq DEF Types
<1>5. \A k \in 1..Len(open) : open[k] \in Opens \cup {"else", "while"}
  BY ElementOfSeq DEF Types, OpenKinds
<1> QED
  BY <1>2, <1>3, <1>4, <1>5 DEF Types, CFTypeOK

(* The types of the compiler's state, in every state of every run.         *)
THEOREM CompilerTypes == CFSpec => []CFTypeOK
<1>1. CFInv => CFTypeOK
  BY CompilerTyped DEF CFInv, WordInv
<1> QED
  BY <1>1, CFInvariant, PTL

(* LEAVE-SP holds the offsets of LEAVEs in loops that are still open, and  *)
(* never more of them than it has room for and one: what RESOLVE-LEAVES    *)
(* takes, and what the test in >LEAVE bounds.                              *)
THEOREM LeavesAreOfOpenLoops == CFSpec => []LeavesOfThisWord
<1>1. CFInv => LeavesOfThisWord
  <2> SUFFICES ASSUME NEW b \in Nat, WordInv(b) PROVE LeavesOfThisWord
    BY DEF CFInv
  <2>1. PICK pos, B : Word(b, pos, B)
    BY DEF WordInv
  <2>2. ASSUME ~stale, NEW k \in 1..Len(ls)
        PROVE  \E i \in 1..Len(src) :
                 /\ src[i] = "leave" /\ After(i) - 1 = ls[k]
                 /\ ~Closed(Innermost({"do", "?do"}, i))
    <3>1. PICK d, i : LeaveOf(pos, d, i, ls[k])
      BY <2>1, <2>2 DEF Word, Leaves
    <3>2. /\ d \in 1..Len(open) /\ i \in 1..Len(src)
          /\ src[i] = "leave" /\ After(i) - 1 = ls[k]
          /\ IsInnermost(pos[d], {"do", "?do"}, i)
      BY <3>1 DEF LeaveOf, Loops
    <3>3. Innermost({"do", "?do"}, i) = pos[d]
      BY <3>2, InnermostIs
    <3>4. ~Closed(pos[d])
      BY <2>1, <3>2, HistOrder, TypedLengths DEF Word, WordInv
    <3> QED
      BY <3>2, <3>3, <3>4
  <2> QED
    BY <2>2 DEF LeavesOfThisWord, WordInv
<1> QED
  BY <1>1, CFInvariant, PTL

(* As long as no word is abandoned, a complete word leaves neither stack   *)
(* with an address of its own: every address the immediate words push is   *)
(* taken by the word that closes the structure, whatever is nested in it,  *)
(* how many OFs a CASE has and how many LEAVEs a loop.                     *)
THEOREM WordsLeaveNothing == CFSpec /\ [][~Abandon]_cfVars => []StacksBalanced
<1> DEFINE Clean == WordInv(0) /\ ~stale
<1>1. CFInit => Clean
  BY FirstWord
<1>2. Clean /\ [CFNext]_cfVars /\ [~Abandon]_cfVars => Clean'
  <2> SUFFICES ASSUME WordInv(0), ~stale, [CFNext]_cfVars, [~Abandon]_cfVars
               PROVE  WordInv(0)' /\ ~stale'
    OBVIOUS
  <2>1. CASE UNCHANGED cfVars
    BY <2>1, StutterStep DEF cfVars
  <2>2. CASE Restart
    BY <2>2, RestartStep
  <2>3. CASE CFNext /\ ~Abandon /\ ~Restart
    BY <2>3, WordStep
  <2> QED
    BY <2>1, <2>2, <2>3
<1>3. Clean => StacksBalanced
  <2> SUFFICES ASSUME WordInv(0), ~stale, open = <<>>
               PROVE  cs = <<>> /\ ls = <<>>
    BY DEF StacksBalanced
  <2>1. Len(cs) = 0 /\ ls = <<>>
    BY NothingOpen
  <2>2. cs \in Seq(Nat)
    BY DEF WordInv, Types
  <2> QED
    BY <2>1, <2>2, EmptySeq
<1> HIDE DEF Clean
<1> QED
  BY <1>1, <1>2, <1>3, PTL DEF CFSpec
=============================================================================
