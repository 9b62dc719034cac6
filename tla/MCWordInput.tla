----------------------------- MODULE MCWordInput -----------------------------
(***************************************************************************)
(* Small instances of WordInput for TLC, and what the text says without    *)
(* looking at buffers.                                                     *)
(***************************************************************************)
EXTENDS WordInput

(* init-done, true, echo and key, abbreviated.  The last characters of the *)
(* vocabulary as they fall into windows of four: the line end behind       *)
(* init-done is the first of its window, as in the generated text.         *)
MCInitDone == <<73>>
MCTrue     == <<84, 84, 84, 84>>
MCEcho     == <<69>>
MCKey      == <<75>>
MCRom      == <<32, 32, 32, 73>> \o <<10, 84, 84, 84>> \o <<84, 32, 69, 10>>
MCOther    == {<<45>>}

MCKeys     == {10, 32, 45, 49, 58, 69, 75, 84, 92}

-----------------------------------------------------------------------------
Prefix(s, n) == SubSeq(s, 1, n)
Rest(s, n)   == SubSeq(s, n + 1, Len(s))

(* The length of the run of s up to the first member of cs.                *)
RunUpTo(s, cs) == Min({i - 1 : i \in {j \in 1..Len(s) : s[j] \in cs}} \cup {Len(s)})

(* The words of a text: the runs between blanks, a longer run cut into     *)
(* pieces that fit the buffer; a word that starts with a backslash is a    *)
(* comment to the end of the line; KEY takes the character behind the one  *)
(* that ended it.  A run that the text does not end is no word yet.        *)
RECURSIVE WordsOf(_)
WordsOf(s) ==
  IF s = <<>> THEN <<>>
  ELSE IF Head(s) \in Blanks THEN WordsOf(Tail(s))
  ELSE IF Head(s) = Backslash THEN WordsOf(Rest(s, RunUpTo(s, {Newline}) + 1))
  ELSE LET n    == RunUpTo(s, Blanks)
           full == n >= WordSize
           w    == Prefix(s, IF full THEN WordSize ELSE n)
           used == IF full THEN WordSize ELSE n + 1
           keys == IF w = KeyWord THEN 1 ELSE 0
       IN IF ~full /\ n = Len(s) THEN <<>>
          ELSE <<w>> \o WordsOf(Rest(s, used + keys))

(* _WORD returns the words of the text, whatever refills fall into them.   *)
WordsAreTheText == words = WordsOf(got)

-----------------------------------------------------------------------------
Numerals == 48..(48 + Min({Base, 10}) - 1) \cup 65..(65 + Base - 11)

IsNumeral(w) ==
  LET digits == IF w[1] = Dash THEN Tail(w) ELSE w
  IN digits # <<>> /\ \A i \in 1..Len(digits) : digits[i] \in Numerals

RECURSIVE Magnitude(_)
Magnitude(digits) ==
  IF digits = <<>> THEN 0
  ELSE LET c == Last(digits)
       IN Base * Magnitude(Front(digits)) + (IF c > 57 THEN c - 55 ELSE c - 48)

(* A numeral is its value modulo the cell's range, and nothing else is     *)
(* taken for a number.                                                     *)
NumbersRead ==
  pc = "interpret" /\ word \notin Vocabulary =>
    IF IsNumeral(word)
      THEN /\ Number(word).left = 0
           /\ LET digits == IF word[1] = Dash THEN Tail(word) ELSE word
                  sum    == Number(word).value
                              + (IF word[1] = Dash THEN 1 ELSE -1) * Magnitude(digits)
              IN sum % Modulus = 0
      ELSE Number(word).left # 0
=============================================================================
