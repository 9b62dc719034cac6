----------------------------- MODULE Dictionary -----------------------------
(***************************************************************************)
(* The dictionary of the Forth system and the compiling half of the outer  *)
(* interpreter (arch/esp8266/user/esp8266.S, forthright.f): a linked list  *)
(* of headers that grows upwards through the data segment, the pointers DP *)
(* and LATEST, the STATE flag, and the words that change them.             *)
(*                                                                         *)
(* Memory is a function from cell addresses (4 bytes each) to tagged       *)
(* cells.  A header is a link cell, a name cell (length/flags byte and the *)
(* first characters) and as many pad cells as the name needs; the codeword *)
(* and the body follow.  There is one task, and every word runs to its     *)
(* NEXT before the interpreter reads another token, so one token is one    *)
(* step.  Addresses below DataEnd belong to the data segment; the cells    *)
(* beyond are whatever the linker put behind it.                           *)
(*                                                                         *)
(* Not represented: the parameter stack, and what a compiled word does     *)
(* when it runs (the definitions entered here use no defining words).      *)
(***************************************************************************)
EXTENDS Naturals

CONSTANTS
  Names,     (* the tokens a user gives to words                            *)
  BaseWord,  (* the newest word of the vocabulary loaded at boot            *)
  NameLen,   (* the number of characters of a token                         *)
  SegCells,  (* cells of the data segment that the boot vocabulary leaves   *)
  MemTop     (* bound: the last cell of memory the model follows            *)

Tokens == Names \cup {BaseWord}

NULL == 0

(* _WORD returns at most word_buffer_size = 32 characters.                 *)
ASSUME DictionaryAssumption ==
  /\ BaseWord \notin Names
  /\ NameLen \in [Tokens -> 1..32]
  /\ NameLen[BaseWord] <= 31
  /\ SegCells \in Nat
  /\ MemTop \in Nat

VARIABLES
  mem,       (* the memory: one tagged cell per address                     *)
  hidden,    (* headers whose length byte has F_HIDDEN set                  *)
  immed,     (* headers whose length byte has F_IMMED set                   *)
  dp,        (* system_t.dp: the next free cell                             *)
  latest,    (* system_t.latest: the newest header                          *)
  live,      (* history: the headers on the list that starts at latest      *)
  state,     (* system_t.state: 0 executing, 1 compiling                    *)
  report,    (* what the last token printed: "ok", "error" or "full"        *)
  trapped    (* TRUE when the CPU took an exception                         *)

vars == <<mem, hidden, immed, dp, latest, live, state, report, trapped>>

-----------------------------------------------------------------------------
(* Cells and headers.                                                      *)

Kinds == {"free", "link", "name", "pad", "docol", "dodoes", "lit", "num",
          "xt", "exit"}

Addr == 1..MemTop

Cells  == [kind : Kinds, arg : Addr \cup {NULL} \cup Tokens]
Memory == [Addr -> Cells]

Cell(k, x) == [kind |-> k, arg |-> x]
Plain(k)   == Cell(k, NULL)

(* Cells from the link to the codeword: (5 + len + 3) & ~3 bytes.          *)
HeaderCells(len) == (len + 8) \div 4

(* The length/flags byte is stored as it comes: bit 5 is F_HIDDEN.         *)
StoredLen(n)  == NameLen[n] % 32
BornHidden(n) == NameLen[n] >= 32

(* >CFA masks the flags away and rounds up to the codeword.                *)
TCFA(h) == h + HeaderCells(StoredLen(mem[h + 1].arg))

(* Mutant: the new header is not linked to the older ones.                 *)
WriteUnlinkedHeader(m, h, link, n) ==
  [a \in DOMAIN m |->
     IF a = h THEN Cell("link", NULL)
     ELSE IF a = h + 1 THEN Cell("name", n)
     ELSE IF a \in (h + 2)..(h + HeaderCells(NameLen[n]) - 1) THEN Plain("pad")
     ELSE m[a]]

(* HEADER, : the link, the length and the name at DP.                      *)
WriteHeader(m, h, link, n) ==
  [a \in DOMAIN m |->
     IF a = h THEN Cell("link", link)
     ELSE IF a = h + 1 THEN Cell("name", n)
     ELSE IF a \in (h + 2)..(h + HeaderCells(NameLen[n]) - 1) THEN Plain("pad")
     ELSE m[a]]

Put(m, a, c) == [m EXCEPT ![a] = c]

Toggle(set, h) == IF h \in set THEN set \ {h} ELSE set \cup {h}

-----------------------------------------------------------------------------
(* (FIND): the newest header on the list whose masked length byte and      *)
(* characters are the token's; NULL when there is none.                    *)

MaskedLen(h) == StoredLen(mem[h + 1].arg) + (IF h \in hidden THEN 32 ELSE 0)

Matches(h, t) == mem[h + 1].arg = t /\ MaskedLen(h) = NameLen[t]

Found(h, t) ==
  /\ h \in live
  /\ Matches(h, t)
  /\ \A f \in live : Matches(f, t) => f <= h

Missing(t) == \A h \in live : ~Matches(h, t)

-----------------------------------------------------------------------------
(* The boot vocabulary, reduced to its newest word : BaseWord ... ;        *)

BaseHeader == 1
BaseCfa    == BaseHeader + HeaderCells(NameLen[BaseWord])
DataStart  == BaseCfa + 2
DataEnd    == DataStart + SegCells - 1

ASSUME BaseFits == DataStart <= MemTop

BootMem ==
  Put(Put(WriteHeader([a \in Addr |-> Plain("free")],
                      BaseHeader, NULL, BaseWord),
          BaseCfa, Plain("docol")),
      BaseCfa + 1, Plain("exit"))

Init ==
  /\ mem = BootMem
  /\ hidden = {}
  /\ immed = {}
  /\ dp = DataStart
  /\ latest = BaseHeader
  /\ live = {BaseHeader}
  /\ state = 0
  /\ report = "ok"
  /\ trapped = FALSE

-----------------------------------------------------------------------------
(* HEADER, checks only where the header starts.  When the segment is used  *)
(* up it prints OUT_OF_MEMORY and returns, and its caller carries on.      *)

Room == dp < DataStart + SegCells

HeaderMem(n)    == IF Room THEN WriteHeader(mem, dp, latest, n) ELSE mem
HeaderDp(n)     == IF Room THEN dp + HeaderCells(NameLen[n]) ELSE dp
HeaderLatest    == IF Room THEN dp ELSE latest
HeaderHidden(n) == IF ~Room THEN hidden
                   ELSE IF BornHidden(n) THEN hidden \cup {dp}
                   ELSE hidden \ {dp}
HeaderImmed     == IF Room THEN immed \ {dp} ELSE immed
HeaderLive      == IF Room THEN live \cup {dp} ELSE live
HeaderReport    == IF Room THEN "ok" ELSE "full"

(* Model bound: the step's last cell lies inside the modelled memory.      *)
Fits(n, k) == HeaderDp(n) + k - 1 <= MemTop

Running == ~trapped

(* Mutant: the new word is not hidden while it is compiled.                *)
ColonUnhidden(n) ==
  /\ Running /\ state = 0 /\ Fits(n, 1)
  /\ mem' = Put(HeaderMem(n), HeaderDp(n), Plain("docol"))
  /\ dp' = HeaderDp(n) + 1
  /\ latest' = HeaderLatest /\ live' = HeaderLive
  /\ hidden' = HeaderHidden(n) /\ immed' = HeaderImmed
  /\ state' = 1 /\ report' = HeaderReport
  /\ UNCHANGED trapped

(* : reads a name, makes the header, appends DOCOL, hides the newest word  *)
(* and switches to compiling.                                              *)
Colon(n) ==
  /\ Running
  /\ state = 0
  /\ Fits(n, 1)
  /\ mem' = Put(HeaderMem(n), HeaderDp(n), Plain("docol"))
  /\ dp' = HeaderDp(n) + 1
  /\ latest' = HeaderLatest
  /\ live' = HeaderLive
  /\ hidden' = Toggle(HeaderHidden(n), HeaderLatest)
  /\ immed' = HeaderImmed
  /\ state' = 1
  /\ report' = HeaderReport
  /\ UNCHANGED trapped

(* Mutant: the codeword is left out.                                       *)
ConstantNoCodeword(n) ==
  /\ Running /\ state = 0 /\ Fits(n, 3)
  /\ LET a == HeaderDp(n)
     IN mem' = Put(Put(Put(HeaderMem(n), a, Plain("lit")),
                       a + 1, Plain("num")),
                   a + 2, Plain("exit"))
  /\ dp' = HeaderDp(n) + 3
  /\ latest' = HeaderLatest /\ live' = HeaderLive
  /\ hidden' = HeaderHidden(n) /\ immed' = HeaderImmed
  /\ report' = HeaderReport
  /\ UNCHANGED <<state, trapped>>

(* CONSTANT : a header, DOCOL, LIT, the value, EXIT.                       *)
Constant(n) ==
  /\ Running
  /\ state = 0
  /\ Fits(n, 4)
  /\ LET a == HeaderDp(n)
     IN mem' = Put(Put(Put(Put(HeaderMem(n), a, Plain("docol")),
                           a + 1, Plain("lit")),
                       a + 2, Plain("num")),
                   a + 3, Plain("exit"))
  /\ dp' = HeaderDp(n) + 4
  /\ latest' = HeaderLatest
  /\ live' = HeaderLive
  /\ hidden' = HeaderHidden(n)
  /\ immed' = HeaderImmed
  /\ report' = HeaderReport
  /\ UNCHANGED <<state, trapped>>

(* CREATE : a header, DODOES and a zero behaviour pointer.                 *)
Create(n) ==
  /\ Running
  /\ state = 0
  /\ Fits(n, 2)
  /\ mem' = Put(Put(HeaderMem(n), HeaderDp(n), Plain("dodoes")),
                HeaderDp(n) + 1, Plain("num"))
  /\ dp' = HeaderDp(n) + 2
  /\ latest' = HeaderLatest
  /\ live' = HeaderLive
  /\ hidden' = HeaderHidden(n)
  /\ immed' = HeaderImmed
  /\ report' = HeaderReport
  /\ UNCHANGED <<state, trapped>>

(* ; is immediate, so it also runs outside a definition: it appends EXIT,  *)
(* toggles the hidden flag of the newest word and stops compiling.         *)
Semicolon ==
  /\ Running
  /\ dp <= MemTop
  /\ mem' = Put(mem, dp, Plain("exit"))
  /\ dp' = dp + 1
  /\ hidden' = Toggle(hidden, latest)
  /\ state' = 0
  /\ report' = "ok"
  /\ UNCHANGED <<immed, latest, live, trapped>>

(* IMMEDIATE toggles the flag of the newest word, finished or not.         *)
Immediate ==
  /\ Running
  /\ immed' = Toggle(immed, latest)
  /\ report' = "ok"
  /\ UNCHANGED <<mem, hidden, dp, latest, live, state, trapped>>

(* [ is immediate; ] is compiled when it is met while compiling.           *)
LBrac ==
  /\ Running
  /\ state = 1
  /\ state' = 0
  /\ report' = "ok"
  /\ UNCHANGED <<mem, hidden, immed, dp, latest, live, trapped>>

RBrac ==
  /\ Running
  /\ state = 0
  /\ state' = 1
  /\ report' = "ok"
  /\ UNCHANGED <<mem, hidden, immed, dp, latest, live, trapped>>

-----------------------------------------------------------------------------
(* INTERPRET on a token that names a word, or none, or a number.           *)

CompileCell(c) ==
  /\ dp <= MemTop
  /\ mem' = Put(mem, dp, c)
  /\ dp' = dp + 1
  /\ report' = "ok"
  /\ UNCHANGED <<hidden, immed, latest, live, state, trapped>>

CompileWord(t) ==
  /\ Running
  /\ state = 1
  /\ \E h \in live : Found(h, t) /\ h \notin immed
                     /\ CompileCell(Cell("xt", TCFA(h)))

ExecuteWord(t) ==
  /\ Running
  /\ \E h \in live : Found(h, t) /\ (state = 0 \/ h \in immed)
  /\ report' = "ok"
  /\ UNCHANGED <<mem, hidden, immed, dp, latest, live, state, trapped>>

(* An unknown token is reported; STATE and the open definition stay.       *)
UnknownWord(t) ==
  /\ Running
  /\ Missing(t)
  /\ report' = "error"
  /\ UNCHANGED <<mem, hidden, immed, dp, latest, live, state, trapped>>

CompileNumber ==
  /\ Running
  /\ state = 1
  /\ dp + 1 <= MemTop
  /\ mem' = Put(Put(mem, dp, Plain("lit")), dp + 1, Plain("num"))
  /\ dp' = dp + 2
  /\ report' = "ok"
  /\ UNCHANGED <<hidden, immed, latest, live, state, trapped>>

(* Mutant: RECURSE without >CFA.                                           *)
RecurseHeader == Running /\ CompileCell(Cell("xt", latest))

(* RECURSE and [COMPILE] are immediate and append a codeword even outside  *)
(* a definition.                                                           *)
Recurse ==
  /\ Running
  /\ CompileCell(Cell("xt", TCFA(latest)))

BracketCompile(t) ==
  /\ Running
  /\ \E h \in live : Found(h, t) /\ CompileCell(Cell("xt", TCFA(h)))

-----------------------------------------------------------------------------
(* HIDE and FORGET use what (FIND) returns without looking at it.          *)

Hide(t) ==
  /\ Running
  /\ state = 0
  /\ \E h \in live : Found(h, t) /\ hidden' = Toggle(hidden, h)
  /\ report' = "ok"
  /\ UNCHANGED <<mem, immed, dp, latest, live, state, trapped>>

(* Mutant: the name cell is taken for the link.                            *)
ForgetByName(n) ==
  /\ Running /\ state = 0
  /\ \E h \in live :
       /\ Found(h, n)
       /\ latest' = mem[h + 1].arg
       /\ dp' = h
       /\ live' = {f \in live : f < h}
  /\ report' = "ok"
  /\ UNCHANGED <<mem, hidden, immed, state, trapped>>

(* Mutant: the memory is given back, the word stays on the list.           *)
ForgetKeepsLatest(n) ==
  /\ Running /\ state = 0
  /\ \E h \in live : Found(h, n) /\ dp' = h
  /\ report' = "ok"
  /\ UNCHANGED <<mem, hidden, immed, latest, live, state, trapped>>

(* Mutant: the word leaves the list, its memory is not given back.         *)
ForgetKeepsDp(n) ==
  /\ Running /\ state = 0
  /\ \E h \in live :
       /\ Found(h, n)
       /\ latest' = mem[h].arg
       /\ live' = {f \in live : f < h}
  /\ report' = "ok"
  /\ UNCHANGED <<mem, hidden, immed, dp, state, trapped>>

Forget(n) ==
  /\ Running
  /\ state = 0
  /\ \E h \in live :
       /\ Found(h, n)
       /\ latest' = mem[h].arg
       /\ dp' = h
       /\ live' = {f \in live : f < h}
  /\ report' = "ok"
  /\ UNCHANGED <<mem, hidden, immed, state, trapped>>

(* HIDE, FORGET and [COMPILE] of a token that is not found read address 0  *)
(* or 4; the exception stops the interpreter until the chip restarts.      *)
NullReference(t) ==
  /\ Running
  /\ Missing(t)
  /\ trapped' = TRUE
  /\ UNCHANGED <<mem, hidden, immed, dp, latest, live, state, report>>

(* The restart runs forthright_start and loads the vocabulary again.       *)
Reboot ==
  /\ trapped
  /\ mem' = BootMem
  /\ hidden' = {}
  /\ immed' = {}
  /\ dp' = DataStart
  /\ latest' = BaseHeader
  /\ live' = {BaseHeader}
  /\ state' = 0
  /\ report' = "ok"
  /\ trapped' = FALSE

Next ==
  \/ \E n \in Names : Colon(n) \/ Constant(n) \/ Create(n) \/ Forget(n)
  \/ \E t \in Tokens : \/ CompileWord(t) \/ ExecuteWord(t) \/ UnknownWord(t)
                       \/ BracketCompile(t) \/ Hide(t) \/ NullReference(t)
  \/ Semicolon \/ Immediate \/ LBrac \/ RBrac \/ CompileNumber \/ Recurse
  \/ Reboot

Spec == Init /\ [][Next]_vars

-----------------------------------------------------------------------------
(* Type invariant.                                                         *)
TypeOK ==
  /\ mem \in Memory
  /\ hidden \subseteq Addr
  /\ immed \subseteq Addr
  /\ dp \in DataStart..(MemTop + 1)
  /\ latest \in Addr
  /\ live \subseteq Addr
  /\ state \in {0, 1}
  /\ report \in {"ok", "error", "full"}
  /\ trapped \in BOOLEAN

(* The list (FIND) walks is well formed after every sequence of defining,  *)
(* forgetting and failing: LATEST is its newest header; each header lies   *)
(* whole below DP and clear of the next one; and its link cell, which no   *)
(* later HEADER, or , has overwritten, leads to the next older header.     *)
LinkDescends(h) ==
  /\ mem[h].kind = "link"
  /\ mem[h].arg \in live \cup {NULL}
  /\ mem[h].arg < h
  /\ \A f \in live : f < h => f <= mem[h].arg

HeaderEnd(h) == h + HeaderCells(NameLen[mem[h + 1].arg])

ChainSound ==
  /\ latest \in live
  /\ \A h \in live :
       /\ BaseHeader <= h /\ h <= latest /\ h + 1 < dp
       /\ LinkDescends(h)
       /\ mem[h + 1].kind = "name"
       /\ mem[h + 1].arg \in Tokens
       /\ HeaderEnd(h) < dp
       /\ \A f \in live : h < f => HeaderEnd(h) < f

(* NEXT jumps through every compiled cell: each reference below DP leads   *)
(* to the codeword of a word still in the dictionary, defined before the   *)
(* cell was compiled.  FORGET and redefinition leave no reference to       *)
(* memory that is free or reused.                                          *)
IsCodeword(a) == a < dp /\ mem[a].kind \in {"docol", "dodoes"}

NoDanglingReference ==
  \A a \in BaseHeader..(dp - 1) :
    mem[a].kind = "xt" =>
      \E h \in live : /\ h < a
                      /\ mem[a].arg = HeaderEnd(h)
                      /\ IsCodeword(HeaderEnd(h))

(* A word the interpreter can find and run has its EXIT: the definition    *)
(* under construction, and one abandoned by [ or by a parse error, stay    *)
(* out of reach of (FIND) until some ; has finished them.  A definition    *)
(* that HEADER, refuses breaks this for the word before it, but only until *)
(* FORGET has brought DP back into the segment.                            *)
Region(h) == {a \in HeaderEnd(h)..(dp - 1) : \A f \in live : h < f => a < f}

VisibleComplete ==
  dp <= DataEnd + 1 =>
    \A h \in live \ hidden :
      \E a \in Region(h) :
        \/ mem[a].kind = "exit"
        \/ a = HeaderEnd(h) /\ mem[a].kind = "dodoes"

(* "Words which were defined using the old definition continue to use the  *)
(* old definition": a reference that stays below DP is never rewritten,    *)
(* and the header it leads to keeps its name, whatever is redefined,       *)
(* hidden or forgotten later.                                              *)
ReferencesKeepTheirMeaning ==
  [][~trapped =>
       \A a \in Addr :
         a < dp /\ a < dp' /\ mem[a].kind = "xt" =>
           /\ mem'[a] = mem[a]
           /\ \A h \in live : HeaderEnd(h) = mem[a].arg =>
                 h \in live' /\ mem'[h + 1] = mem[h + 1]]_vars

(* >CFA "turns a dictionary pointer into a codeword pointer" for every     *)
(* word (FIND) can return.                                                 *)
CodewordFound ==
  \A t \in Tokens : \A h \in live : Found(h, t) => IsCodeword(TCFA(h))
=============================================================================
