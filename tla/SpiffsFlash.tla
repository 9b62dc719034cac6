---------------------------- MODULE SpiffsFlash -----------------------------
(***************************************************************************)
(* The pages of SPIFFS: the lower half of spiffs_nucleus.c, which finds,   *)
(* writes, moves and deletes pages, and spiffs_gc.c, which empties blocks. *)
(* Everything is an operator on a machine: the flash, the fields of the    *)
(* `spiffs` struct, the descriptor a call works through and the result of  *)
(* the call so far.  A step on a machine that has already failed changes   *)
(* nothing, as SPIFFS_CHECK_RES returns at once (Then).                    *)
(*                                                                         *)
(* Programming flash clears bits and only an erase sets them, so writing a *)
(* word stores its AND with what was there.  `log` collects the flash      *)
(* after each write: what a power loss within a call may leave behind.     *)
(* One write, one copy of a page and one erase are atomic here.            *)
(***************************************************************************)
EXTENDS Integers, Sequences, FiniteSets, SequencesExt, Bitwise

CONSTANTS
  Blocks,       (* block_count                                              *)
  Entries,      (* SPIFFS_OBJ_LOOKUP_MAX_ENTRIES: pages of a block, its     *)
                (* object lookup page not counted (7)                       *)
  PageUnits,    (* units of data in a page, SPIFFS_DATA_PAGE_SIZE           *)
  HdrIxLen,     (* SPIFFS_OBJ_HDR_IX_LEN; longer files are left out         *)
  GcMaxRuns,    (* SPIFFS_GC_MAX_RUNS (5)                                   *)
  WordBits      (* bits of an id, a size, a page index or a data unit       *)

ASSUME FlashAssumption ==
  /\ {Blocks, Entries, PageUnits, HdrIxLen, GcMaxRuns} \subseteq Nat \ {0}
  /\ Blocks > 2 /\ Entries > 1
  /\ WordBits \in Nat /\ Blocks * (Entries + 1) < 2^WordBits - 1

(* A word that was never written: SPIFFS_OBJ_ID_FREE, SPIFFS_UNDEFINED_LEN *)
(* and the page index -1.                                                  *)
Ones == 2^WordBits - 1

(* SPIFFS_OBJ_ID_DELETED, and no page: 0 is the first lookup page.         *)
Deleted == 0
NoPage == 0

IxFlag == 2^(WordBits - 1)
Ix(id) == IF id < IxFlag THEN id + IxFlag ELSE id
Obj(id) == IF id < IxFlag THEN id ELSE id - IxFlag
IsIx(id) == id >= IxFlag

PagesPerBlock == Entries + 1
IsLookupPage(p) == p % PagesPerBlock = 0
MaxPages == Blocks * PagesPerBlock
Pix == {p \in 0..MaxPages - 1 : ~IsLookupPage(p)}
BlockOf(p) == p \div PagesPerBlock
EntryOf(p) == (p % PagesPerBlock) - 1
PageAt(b, e) == b * PagesPerBlock + 1 + e
PagesOf(b) == [i \in 1..Entries |-> PageAt(b, i - 1)]

(* A page: its object lookup entry, then its header, then an index header  *)
(* page's size and references or a data page's units.                      *)
Blank == [lu |-> Ones, id |-> Ones, span |-> Ones, flags |-> {}, size |-> Ones,
          refs |-> [k \in 0..HdrIxLen - 1 |-> Ones],
          data |-> [k \in 0..PageUnits - 1 |-> Ones]]

(* The flags are kept as the set of bits that are cleared.                 *)
Cleared(pg, fs) == fs \subseteq pg.flags
Set(pg, fs) == fs \cap pg.flags = {}

Word(old, new) ==
  IF old = Ones \/ old = new THEN new ELSE IF new = Ones THEN old ELSE old & new

Programmed(old, new) ==
  [lu |-> Word(old.lu, new.lu), id |-> Word(old.id, new.id),
   span |-> Word(old.span, new.span), flags |-> old.flags \cup new.flags,
   size |-> Word(old.size, new.size),
   refs |-> [k \in DOMAIN old.refs |-> Word(old.refs[k], new.refs[k])],
   data |-> [k \in DOMAIN old.data |-> Word(old.data[k], new.data[k])]]

(* A machine as SPIFFS_mount finds it, before it counts the pages.         *)
Machine(flash, erased) ==
  [flash |-> flash, erased |-> erased, free |-> PageAt(0, 0), cursor |-> PageAt(0, 0),
   alloc |-> 0, dele |-> 0, blocks |-> 0, cleaning |-> FALSE,
   fd |-> [obj |-> 0, pix |-> NoPage, size |-> 0], work |-> Blank, lu |-> <<>>,
   found |-> NoPage, gc |-> "done", res |-> "ok", errors |-> FALSE, log |-> <<>>]

Ok(m) == m.res = "ok"
Fail(m, why) == IF Ok(m) THEN [m EXCEPT !.res = why] ELSE m
Then(m, Step(_)) == IF Ok(m) THEN Step(m) ELSE m

-----------------------------------------------------------------------------
(* Writing                                                                 *)

Logged(m) == [m EXCEPT !.log = Append(@, [flash |-> m.flash, erased |-> m.erased])]

Put(m, p, words) ==
  IF Ok(m) THEN Logged([m EXCEPT !.flash[p] = Programmed(@, words)]) ELSE m

PutLookup(m, p, id) == Put(m, p, [Blank EXCEPT !.lu = id])
PutFlags(m, p, fs) == Put(m, p, [Blank EXCEPT !.flags = fs])

Count(m, allocated, deleted) ==
  IF Ok(m) THEN [m EXCEPT !.alloc = @ + allocated, !.dele = @ + deleted] ELSE m

EraseBlockUncounted(m, b) == (* mutant: the block is not counted as free *)
  IF ~Ok(m) THEN m
  ELSE Logged([m EXCEPT !.flash = [p \in Pix |-> IF BlockOf(p) = b THEN Blank ELSE @[p]],
                        !.erased = Append(SelectSeq(@, LAMBDA c : c # b), b)])

(* The block is erased before its erase count is written again.            *)
EraseBlock(m, b) ==
  IF ~Ok(m) THEN m ELSE
    LET others == SelectSeq(m.erased, LAMBDA c : c # b)
        wiped == Logged([m EXCEPT
          !.flash = [p \in Pix |-> IF BlockOf(p) = b THEN Blank ELSE @[p]],
          !.erased = others, !.blocks = @ + 1])
    IN Logged([wiped EXCEPT !.erased = Append(others, b)])

-----------------------------------------------------------------------------
(* Looking up                                                              *)

VisitOrderMidBlock == (* mutant: the entry is kept when the block ends *)
  [p \in Pix |->
    LET start == (BlockOf(p) + (EntryOf(p) + 1) \div Entries) * Entries + EntryOf(p)
    IN [i \in 1..Blocks * Entries |->
          LET e == (start + i - 1) % (Blocks * Entries)
          IN PageAt(e \div Entries, e % Entries)]]

(* The order in which the lookup entries are visited from a page on: the   *)
(* last entry of a block is no place to start at.                          *)
VisitOrder ==
  [p \in Pix |->
    LET start == IF EntryOf(p) >= Entries - 1
                 THEN ((BlockOf(p) + 1) % Blocks) * Entries
                 ELSE BlockOf(p) * Entries + EntryOf(p)
    IN [i \in 1..Blocks * Entries |->
          LET e == (start + i - 1) % (Blocks * Entries)
          IN PageAt(e \div Entries, e % Entries)]]

FirstOf(order, Test(_)) ==
  LET i == SelectInSeq(order, Test) IN IF i = 0 THEN NoPage ELSE order[i]

FirstFrom(p, Test(_)) == FirstOf(VisitOrder[p], Test)

(* A header for this object and span: written, final and neither deleted   *)
(* nor, when it is an object's first index page, being deleted.            *)
IsHeaderOf(pg, id, span) ==
  /\ pg.id = id /\ pg.span = span
  /\ Cleared(pg, {"FINAL", "USED"}) /\ Set(pg, {"DELET"})
  /\ ~(IsIx(id) /\ span = 0 /\ Cleared(pg, {"IXDELE"}))

(* fs->lu_work holds the lookup page that was read last.                   *)
ReadLookup(m, b) == [m EXCEPT !.lu = [i \in 1..Entries |-> m.flash[PagesOf(b)[i]].lu]]

(* The search goes on where the last one ended, and remembers where it did.*)
Found(m, p) ==
  IF ~Ok(m) THEN m
  ELSE IF p = NoPage
  THEN [ReadLookup(m, BlockOf(Last(VisitOrder[m.cursor]))) EXCEPT !.found = NoPage]
  ELSE [ReadLookup(m, BlockOf(p)) EXCEPT !.found = p, !.cursor = p]

FindIdAndSpan(m, id, span, excluded) ==
  Found(m, FirstFrom(m.cursor, LAMBDA p :
    m.flash[p].lu = id /\ IsHeaderOf(m.flash[p], id, span) /\ p # excluded))

FindIdAndSpanByPhdr(m, id, span) ==
  Found(m, FirstFrom(m.cursor, LAMBDA p : IsHeaderOf(m.flash[p], id, span)))

(* Without names: a file is called by the id of its header.                *)
FindByName(m, obj) ==
  Found(m, FirstFrom(m.cursor, LAMBDA p :
    /\ m.flash[p].lu \notin {Ones, Deleted} /\ IsIx(m.flash[p].lu)
    /\ m.flash[p].span = 0 /\ Obj(m.flash[p].id) = obj
    /\ Cleared(m.flash[p], {"FINAL"}) /\ Set(m.flash[p], {"DELET", "IXDELE"})))

(* The least id that no lookup entry holds.                                *)
FreeObjId(m) ==
  CHOOSE i \in 1..IxFlag :
    /\ \A p \in Pix : m.flash[p].lu \in {Ones, Deleted} \/ Obj(m.flash[p].lu) # i
    /\ \A j \in 1..i - 1 : \E p \in Pix :
         m.flash[p].lu \notin {Ones, Deleted} /\ Obj(m.flash[p].lu) = j

(* Erases the first block whose entries are all deleted.                   *)
GcQuick(m) ==
  LET full == {b \in 0..Blocks - 1 :
                \A i \in 1..Entries : m.flash[PagesOf(b)[i]].lu = Deleted}
  IN IF full = {} THEN m
     ELSE LET b == CHOOSE b \in full : \A c \in full : b <= c
          IN EraseBlock([m EXCEPT !.dele = @ - Entries], b)

FreeAt(m, p) ==
  IF p = NoPage THEN Fail(m, "not found")
  ELSE [ReadLookup(m, BlockOf(p)) EXCEPT
          !.free = p, !.found = p, !.blocks = IF EntryOf(p) = 0 THEN @ - 1 ELSE @]

(* One block must stay free for the garbage collector.                     *)
ObjLuFindFree(m) ==
  Then(IF m.cleaning \/ m.blocks >= 2 THEN m ELSE Then(m, GcQuick), LAMBDA n :
    IF ~n.cleaning /\ n.blocks < 2 THEN Fail(n, "full")
    ELSE FreeAt(n, FirstFrom(n.free, LAMBDA q : n.flash[q].lu = Ones)))

-----------------------------------------------------------------------------
(* Pages                                                                   *)

Finalized(m, yes) == IF yes THEN PutFlags(m, m.found, {"FINAL", "USED"}) ELSE m

(* The header is written, then the data, and the page is finalized last.   *)
PageAllocateData(m, hdr, data, finalize) ==
  LET header == [Blank EXCEPT !.id = hdr.id, !.span = hdr.span,
                              !.flags = hdr.flags \cup {"USED"}]
  IN Finalized(
       Then(Then(ObjLuFindFree(m), LAMBDA n :
                 Put(Count(PutLookup(n, n.found, hdr.id), 1, 0), n.found, header)),
            LAMBDA n : IF data = Blank.data THEN n
                       ELSE Put(n, n.found, [Blank EXCEPT !.data = data])),
       finalize /\ "FINAL" \notin hdr.flags)

(* A page index that is none sends these writes elsewhere; what they then  *)
(* destroy is left out: the call ends as "astray".                         *)
PageDelete(m, p) ==
  IF p \in Pix THEN PutFlags(Count(PutLookup(m, p, Deleted), -1, 1), p, {"DELET", "USED"})
  ELSE Fail(m, "astray")

(* Writes `page` (a page's contents from memory) or a copy of the source   *)
(* to a free page, and only then its lookup entry; a page from memory is   *)
(* finalized after that.                                                   *)
PageMoveTo(m, page, isCopy, id, src) ==
  LET image == [page EXCEPT !.lu = Ones,
                  !.flags = IF isCopy THEN @ ELSE (@ \ {"FINAL"}) \cup {"USED"}]
  IN Then(ObjLuFindFree(m), LAMBDA n :
       PageDelete(Finalized(Count(PutLookup(Put(n, n.found, image), n.found, id), 1, 0),
                            ~isCopy /\ "FINAL" \in page.flags), src))

PageMove(m, page, id, src) == PageMoveTo(m, page, FALSE, id, src)
PageCopy(m, id, src) == PageMoveTo(m, m.flash[src], TRUE, id, src)

(* SPIFFS_VALIDATE_OBJIX and spiffs_page_index_check                       *)
IndexCheck(m, pg) ==
  IF Cleared(pg, {"USED", "FINAL", "INDEX"}) /\ Set(pg, {"DELET"}) /\ pg.span = 0
  THEN m ELSE Fail(m, "bad index")

(* spiffs_page_data_check                                                  *)
DataState(m, p, span) ==
  IF p = Ones THEN "ref free"
  ELSE IF p \notin Pix THEN "ref bad"
  ELSE IF Set(m.flash[p], {"USED"}) THEN "free"
  ELSE IF Cleared(m.flash[p], {"DELET"}) THEN "deleted"
  ELSE IF ~Cleared(m.flash[p], {"FINAL"}) \/ Cleared(m.flash[p], {"INDEX"})
          \/ m.flash[p].span # span THEN "mismatch"
  ELSE "ok"

DataCheck(m, p, span) ==
  IF DataState(m, p, span) = "ok" THEN m ELSE Fail(m, DataState(m, p, span))

(* Descriptors follow their object's header; size 0 stands for no change.  *)
ObjectEvent(m, id, p, size) ==
  IF Ok(m) /\ m.fd.obj = Obj(id)
  THEN [m EXCEPT !.fd.pix = p, !.fd.size = IF size = 0 THEN @ ELSE size]
  ELSE m

ObjectGone(m, id) ==
  IF Ok(m) /\ m.fd.obj = Obj(id) THEN [m EXCEPT !.fd.obj = 0] ELSE m

(* Stores the index header that is in fs->work at a new page.              *)
UpdateIndexHdr(m, id, src, size) ==
  LET hdr == IF size = 0 THEN m.work ELSE [m.work EXCEPT !.size = size]
  IN Then(PageMove(IndexCheck([m EXCEPT !.work = hdr], hdr), hdr, id, src),
          LAMBDA n : ObjectEvent(n, id, n.found, hdr.size))

-----------------------------------------------------------------------------
(* Garbage collection                                                      *)

FreePages(m) == Entries * (Blocks - 2) - m.alloc - m.dele

UsedIn(m, b) ==
  {i \in 1..Entries : m.flash[PagesOf(b)[i]].lu \notin {Ones, Deleted}}
DeletedIn(m, b) == {i \in 1..Entries : m.flash[PagesOf(b)[i]].lu = Deleted}

(* The scan of a block ends at its first free entry.                       *)
Scanned(m, b) ==
  {i \in 1..Entries : \A j \in 1..i : m.flash[PagesOf(b)[j]].lu # Ones}

(* Erases since the block's last one; a block without an erase count comes *)
(* before all others.                                                      *)
EraseAge(m, b) ==
  LET i == SelectInSeq(m.erased, LAMBDA c : c = b) IN Len(m.erased) - i

Score(m, b, crammed) ==
  LET dele == Cardinality(DeletedIn(m, b) \cap Scanned(m, b))
      used == Cardinality(UsedIn(m, b) \cap Scanned(m, b))
  IN 5 * dele - used + (IF crammed THEN 0 ELSE 50 * EraseAge(m, b))

(* The first of the blocks with the best score, or -1.                     *)
GcFindCandidate(m, crammed) ==
  LET cands == {b \in 0..Blocks - 1 : DeletedIn(m, b) \cap Scanned(m, b) # {}}
      Before(b, c) ==
        \/ Score(m, b, crammed) > Score(m, c, crammed)
        \/ Score(m, b, crammed) = Score(m, c, crammed) /\ b < c
  IN IF cands = {} THEN -1
     ELSE CHOOSE b \in cands : \A c \in cands \ {b} : Before(b, c)

(* Moves one data page of the object whose index is in fs->work.           *)
GcMoveData(m, obj, p) ==
  IF ~Ok(m) \/ m.flash[p].lu # obj THEN m ELSE
    LET live == Set(m.flash[p], {"DELET"})
        span == m.flash[p].span
    IN Then(IF live THEN PageCopy(m, obj, p) ELSE PageDelete(m, p), LAMBDA n :
         IF span \notin DOMAIN n.work.refs THEN Fail(n, "bad span")
         ELSE [n EXCEPT !.work.refs[span] = IF live THEN n.found ELSE Ones])

(* FIND_OBJ_DATA and MOVE_OBJ_DATA: all pages of the block that belong to  *)
(* the object found at this entry, then the object's index.                *)
GcCleanData(m, p) ==
  LET obj == m.flash[p].lu IN
  IF ~Ok(m) \/ obj \in {Deleted, Ones} \/ IsIx(obj) THEN m
  ELSE Then(FindIdAndSpan(m, Ix(obj), 0, NoPage), LAMBDA n :
         LET hdr == n.flash[n.found]
         IN IF n.found = NoPage THEN Fail(n, "not found")
            ELSE UpdateIndexHdr(FoldLeft(LAMBDA l, q : GcMoveData(l, obj, q),
                                         IndexCheck([n EXCEPT !.work = hdr], hdr),
                                         PagesOf(BlockOf(p))),
                                Ix(obj), n.found, 0))

GcCleanIndexSilently(m, p) == (* mutant: the descriptors are not told *)
  LET id == m.flash[p].lu IN
  IF ~Ok(m) \/ id \in {Deleted, Ones} \/ ~IsIx(id) THEN m
  ELSE IF Set(m.flash[p], {"DELET"}) THEN PageCopy(m, id, p) ELSE PageDelete(m, p)

(* MOVE_OBJ_IX                                                             *)
GcCleanIndex(m, p) ==
  LET id == m.flash[p].lu IN
  IF ~Ok(m) \/ id \in {Deleted, Ones} \/ ~IsIx(id) THEN m
  ELSE IF Set(m.flash[p], {"DELET"})
       THEN Then(PageCopy(m, id, p), LAMBDA n : ObjectEvent(n, id, n.found, 0))
       ELSE ObjectGone(PageDelete(m, p), id)

GcClean(m, b) ==
  LET m1 == [m EXCEPT !.free = IF BlockOf(@) = b THEN PageAt((b + 1) % Blocks, 0) ELSE @]
  IN FoldLeft(GcCleanIndex, FoldLeft(GcCleanData, m1, PagesOf(b)), PagesOf(b))

GcErasePageStats(m, b) ==
  Count(m, -Cardinality(UsedIn(m, b)), -Cardinality(DeletedIn(m, b)))

GcCollect(m, b) ==
  EraseBlock(GcErasePageStats([GcClean([m EXCEPT !.cleaning = TRUE], b) EXCEPT !.cleaning = FALSE],
                              b), b)

(* One round of spiffs_gc_check for `len` units of data, with a candidate. *)
GcRoundOn(m, len, b) ==
  LET before == FreePages(m)
      Enough(n) ==
        \/ before <= 0 /\ before = FreePages(n)
        \/ ~(n.blocks <= 2 \/ len > FreePages(n) * PageUnits)
  IN IF b # -1
     THEN Then(GcCollect(m, b), LAMBDA n : IF Enough(n) THEN [n EXCEPT !.gc = "done"] ELSE n)
     ELSE IF (len + PageUnits - 1) \div PageUnits < before
     THEN [m EXCEPT !.gc = "no candidate"] ELSE Fail(m, "full")

GcRound(m, len) ==
  IF ~Ok(m) \/ m.gc # "run" THEN m
  ELSE GcRoundOn(m, len, GcFindCandidate(m, FreePages(m) <= 0))

GcCheck(m, len) ==
  IF ~Ok(m) \/ (m.blocks > 3 /\ len < FreePages(m) * PageUnits) THEN m
  ELSE IF (len + PageUnits - 1) \div PageUnits > FreePages(m) + m.dele
  THEN Fail(m, "full")
  ELSE Then(FoldLeft(LAMBDA n, i : GcRound(n, len), [m EXCEPT !.gc = "run"],
                     [i \in 1..GcMaxRuns |-> i]),
            LAMBDA n : IF n.gc # "no candidate" /\ len > FreePages(n) * PageUnits
                       THEN Fail(n, "full") ELSE n)
=============================================================================
