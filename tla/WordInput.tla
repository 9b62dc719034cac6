------------------------------ MODULE WordInput ------------------------------
(***************************************************************************)
(* How text becomes words: _KEY with its three sources (the vocabulary in  *)
(* the flash, the serial line), _WORD and the part of INTERPRET that reads *)
(* a word or a number (esp8266.S).                                         *)
(*                                                                         *)
(* At boot the vocabulary is read through a window of four characters at   *)
(* the start of the input buffer, because the flash is read by words; when *)
(* INIT-DONE has cleared the flag the same buffer is filled from the       *)
(* terminal.                                                               *)
(*                                                                         *)
(* A character is its ASCII code.                                          *)
(***************************************************************************)
EXTENDS Integers, Sequences, FiniteSetsExt, SequencesExt

CONSTANTS
  Rom,         (* the end of the vocabulary's text                          *)
  Window,      (* characters read from it at a time (4)                     *)
  Keys,        (* the characters somebody types                             *)
  InitDone, TrueWord, EchoWord, KeyWord,  (* the words INIT-DONE, TRUE ...  *)
  OtherWords,  (* words of the vocabulary that do not touch the input       *)
  WordSize,    (* word_buffer_size (32)                                     *)
  FifoSize,    (* what the UART's receive FIFO holds (128)                  *)
  BufSize,     (* what forthright_readChars asks for (63)                   *)
  Base,        (* the BASE of numbers                                       *)
  Modulus,     (* 2^w for cells of w bits (2^32)                            *)
  MaxTyped     (* bound: characters typed                                   *)

ASSUME WordInputAssumption ==
  /\ Rom \in Seq(0..255) /\ Keys \subseteq 0..255
  /\ Window \in Nat \ {0} /\ Len(Rom) % Window = 0
  /\ {InitDone, TrueWord, EchoWord, KeyWord} \cup OtherWords \subseteq Seq(33..255)
  /\ WordSize \in Nat \ {0}
  /\ FifoSize \in Nat \ {0} /\ BufSize \in Nat \ {0}
  /\ Base \in 2..36 /\ Modulus \in Nat \ {0}
  /\ MaxTyped \in Nat

Blanks    == 0..32
Newline   == 10
Backslash == 92
Dash      == 45

VARIABLES
  romPos,        (* characters read from Rom, kept at input_buffer + 4      *)
  fifo,          (* the UART's receive FIFO                                 *)
  inbuf,         (* the input buffer from currkey to bufftop                *)
  initializing,  (* system_t.initializing                                   *)
  echo,          (* system_t.echo # 0                                       *)
  word,          (* the word buffer up to word_buffer_ptr                   *)
  pc,            (* where _WORD is, or the word that follows it             *)
  top,           (* the top of the data stack is not zero                   *)
  number,        (* what _NUMBER returned last: its value, what is left     *)
  typed,         (* history: the characters the FIFO had room for           *)
  lost,          (* how many it had no room for                             *)
  got,           (* history: the characters _KEY returned                   *)
  words          (* history: the words _WORD returned                       *)

lineVars == <<fifo, typed, lost>>
keyVars  == <<romPos, fifo, inbuf, initializing, echo, typed, lost, got>>
vars     == <<romPos, fifo, inbuf, initializing, echo, word, pc, top, number,
              typed, lost, got, words>>

Init ==
  /\ romPos = 0
  /\ fifo = <<>> /\ inbuf = <<>>
  /\ initializing = TRUE /\ echo = FALSE
  /\ word = <<>> /\ pc = "skip"
  /\ top \in BOOLEAN
  /\ number = [value |-> 0, left |-> 0]
  /\ typed = <<>> /\ lost = 0
  /\ got = <<>> /\ words = <<>>

-----------------------------------------------------------------------------
(* The serial line.  What comes when the FIFO is full is gone.             *)
Type ==
  /\ Len(typed) + lost < MaxTyped
  /\ \E c \in Keys :
       IF Len(fifo) < FifoSize
         THEN fifo' = Append(fifo, c) /\ typed' = Append(typed, c) /\ UNCHANGED lost
         ELSE lost' = lost + 1 /\ UNCHANGED <<fifo, typed>>
  /\ UNCHANGED <<romPos, inbuf, initializing, echo, word, pc, top, number, got,
                 words>>

-----------------------------------------------------------------------------
(* _KEY, when the input buffer is used up.                                 *)
Asking == pc \in {"skip", "comment", "collect", "key"} /\ inbuf = <<>>

ReadRom ==
  /\ Asking /\ initializing
  /\ romPos + Window <= Len(Rom)
  /\ inbuf' = SubSeq(Rom, romPos + 1, romPos + Window)
  /\ romPos' = romPos + Window
  /\ UNCHANGED <<lineVars, initializing, echo, word, pc, top, number, got, words>>

(* Mutant: the count is of what the FIFO held, not of what was asked for.  *)
UartReadForgets ==
  /\ Asking /\ ~initializing
  /\ inbuf' = SubSeq(fifo, 1, Min({Len(fifo), BufSize}))
  /\ fifo' = <<>>
  /\ UNCHANGED <<romPos, typed, lost, initializing, echo, word, pc, top, number,
                 got, words>>

(* uart_read_chars; _KEY asks again when nothing came.                     *)
UartRead ==
  /\ Asking /\ ~initializing
  /\ LET n == Min({Len(fifo), BufSize})
     IN /\ inbuf' = SubSeq(fifo, 1, n)
        /\ fifo' = SubSeq(fifo, n + 1, Len(fifo))
  /\ UNCHANGED <<romPos, typed, lost, initializing, echo, word, pc, top, number,
                 got, words>>

(* _KEY returns the next character.                                        *)
Key ==
  /\ inbuf # <<>>
  /\ inbuf' = Tail(inbuf)
  /\ got' = Append(got, Head(inbuf))
  /\ UNCHANGED <<romPos, lineVars, initializing, echo>>

-----------------------------------------------------------------------------
(* _WORD: skip blanks and comments, then collect up to WordSize characters.*)
WordReadyLate(w) ==                       (* mutant: one character later     *)
  IF Len(w) > WordSize THEN "interpret" ELSE "collect"

WordReady(w) == IF Len(w) = WordSize THEN "interpret" ELSE "collect"

Returned == words' = Append(words, word')

Skip ==
  /\ pc = "skip" /\ Key
  /\ LET c == Head(inbuf)
     IN CASE c = Backslash -> pc' = "comment" /\ UNCHANGED <<word, words>>
          [] c \in Blanks  -> UNCHANGED <<pc, word, words>>
          [] OTHER -> /\ word' = <<c>>
                      /\ pc' = WordReady(word')
                      /\ IF pc' = "interpret" THEN Returned ELSE UNCHANGED words
  /\ UNCHANGED <<top, number>>

Comment ==
  /\ pc = "comment" /\ Key
  /\ pc' = IF Head(inbuf) = Newline THEN "skip" ELSE "comment"
  /\ UNCHANGED <<word, words, top, number>>

(* Mutant: the delimiter is stored before it is tested.                    *)
CollectDelimiter ==
  /\ pc = "collect" /\ Key
  /\ word' = Append(word, Head(inbuf))
  /\ pc' = IF Head(inbuf) \in Blanks THEN "interpret" ELSE WordReady(word')
  /\ IF pc' = "interpret" THEN Returned ELSE UNCHANGED words
  /\ UNCHANGED <<top, number>>

(* The buffer is full before the delimiter is seen: the word is returned   *)
(* and the rest of the text is the next one.                               *)
Collect ==
  /\ pc = "collect" /\ Key
  /\ IF Head(inbuf) \in Blanks
       THEN pc' = "interpret" /\ UNCHANGED word
       ELSE word' = Append(word, Head(inbuf)) /\ pc' = WordReady(word')
  /\ IF pc' = "interpret" THEN Returned ELSE UNCHANGED words
  /\ UNCHANGED <<top, number>>

-----------------------------------------------------------------------------
(* _NUMBER.  A digit is 0-9 or A-Z; -1 stands for the jump to the error.   *)
Digit(c) == CASE c < 48             -> -1
              [] c \in 48..57       -> c - 48
              [] c \in 58..64       -> -1
              [] OTHER              -> c - 48 - 17 + 10

AcceptBase(c) == Digit(c) \in 0..Base     (* mutant: BGE became BGT        *)

Accept(c) == Digit(c) \in 0..(Base - 1)

Wrapped(n) == n % Modulus

Horner(v, d) == Wrapped(v * Base + Digit(d))

(* A dash alone leaves nothing to convert: 0 and no error.                 *)
Number(w) ==
  LET negative == w[1] = Dash
      digits   == IF negative THEN Tail(w) ELSE w
      bad      == {i \in 1..Len(digits) : ~Accept(digits[i])}
      n        == FoldLeft(Horner, 0, digits)
  IN IF bad # {}  THEN [value |-> 0, left |-> Len(digits) - Min(bad) + 1]
     ELSE [value |-> Wrapped(IF negative THEN -n ELSE n), left |-> 0]

-----------------------------------------------------------------------------
(* INTERPRET with the word it was given, not compiling.                    *)
Vocabulary == {InitDone, TrueWord, EchoWord, KeyWord} \cup OtherWords

Run(w) ==
  /\ pc = "interpret" /\ word = w
  /\ UNCHANGED <<romPos, fifo, inbuf, typed, lost, got, words, word>>

InterpretInitDone ==
  /\ Run(InitDone)
  /\ initializing' = FALSE
  /\ pc' = "skip"
  /\ UNCHANGED <<echo, top, number>>

InterpretTrue ==
  /\ Run(TrueWord)
  /\ top' = TRUE
  /\ pc' = "skip"
  /\ UNCHANGED <<echo, initializing, number>>

InterpretEcho ==
  /\ Run(EchoWord)
  /\ echo' = top
  /\ top' \in BOOLEAN
  /\ pc' = "skip"
  /\ UNCHANGED <<initializing, number>>

InterpretKey ==
  /\ Run(KeyWord)
  /\ pc' = "key"
  /\ UNCHANGED <<echo, initializing, top, number>>

(* KEY takes the next character, whatever it is.                           *)
TakeKey ==
  /\ pc = "key" /\ Key
  /\ top' = (Head(inbuf) # 0)
  /\ pc' = "skip"
  /\ UNCHANGED <<word, words, number>>

InterpretOther ==
  /\ \E w \in OtherWords : Run(w)
  /\ top' \in BOOLEAN
  /\ pc' = "skip"
  /\ UNCHANGED <<echo, initializing, number>>

(* Not in the dictionary: a number, or a message.                          *)
InterpretNumber ==
  /\ word \notin Vocabulary /\ Run(word)
  /\ number' = Number(word)
  /\ top' = IF number'.left = 0 THEN number'.value # 0 ELSE top
  /\ pc' = "skip"
  /\ UNCHANGED <<echo, initializing>>

Read      == ReadRom \/ UartRead
Scan      == Skip \/ Comment \/ Collect
Interpret == \/ InterpretInitDone \/ InterpretTrue \/ InterpretEcho
             \/ InterpretKey \/ TakeKey \/ InterpretOther \/ InterpretNumber

Next == Type \/ Read \/ Scan \/ Interpret

Spec == Init /\ [][Next]_vars

-----------------------------------------------------------------------------
(* Type invariant.                                                         *)
TypeOK ==
  /\ romPos \in 0..Len(Rom)
  /\ fifo \in Seq(Keys) /\ Len(fifo) <= FifoSize
  /\ inbuf \in Seq(0..255)
  /\ initializing \in BOOLEAN /\ echo \in BOOLEAN /\ top \in BOOLEAN
  /\ word \in Seq(33..255) /\ Len(word) <= WordSize
  /\ pc \in {"skip", "comment", "collect", "interpret", "key"}
  /\ number.value \in 0..(Modulus - 1) /\ number.left \in 0..WordSize
  /\ typed \in Seq(Keys) /\ lost \in 0..MaxTyped
  /\ got \in Seq(0..255) /\ words \in Seq(Seq(33..255))

(* Across every refill, and from the vocabulary to the terminal, no        *)
(* character that got into the FIFO is skipped, doubled or moved: what has *)
(* been read is the text read at boot and what was typed after it.         *)
NothingSkipped ==
  got \o inbuf \o fifo = SubSeq(Rom, 1, romPos) \o typed
=============================================================================
