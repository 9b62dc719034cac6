------------------------------- MODULE Spiffs -------------------------------
(***************************************************************************)
(* SPIFFS on its flash: the calls on objects (upper half of                *)
(* spiffs_nucleus.c) as programs reach them through fs.c, a power loss     *)
(* between any two writes of a call, and the start of the program that     *)
(* mends what it left.  A call opens its file, works on it and closes it,  *)
(* in one step: fs.c runs in one task.  A power loss leaves the flash as   *)
(* it was after one of the writes of the call it interrupts.               *)
(*                                                                         *)
(* A file goes by its object id.  Left out: files longer than the index in *)
(* their header, the read cache and writes waiting in memory (FileApi).    *)
(***************************************************************************)
EXTENDS SpiffsCheck, FiniteSetsExt, Functions

CONSTANTS
  MaxObj,       (* bound: the files that exist at a time                    *)
  Writes,       (* bound: object -> what is written to it, as <<offset,     *)
                (* data>>; no word is Ones                                  *)
  MaxLosses     (* bound: power losses                                      *)

VARIABLES
  flash,        (* page index -> page                                       *)
  erased,       (* the blocks with an erase count, in the order of erasure  *)
  ram,          (* the fields of `spiffs` that calls leave to each other    *)
  report,       (* what fs_task has reported of its checks; "off": the      *)
                (* program does not run                                     *)
  losses,       (* power losses so far                                      *)
  kept          (* history: the files before the call that the first loss   *)
                (* interrupted, what it was to do and with which object     *)

vars == <<flash, erased, ram, report, losses, kept>>

Kept(m) == [free |-> m.free, cursor |-> m.cursor, alloc |-> m.alloc,
            dele |-> m.dele, blocks |-> m.blocks]
Now == ram @@ Machine(flash, erased)

-----------------------------------------------------------------------------
(* Objects                                                                 *)

ObjectCreate(m, i) ==
  LET hdr == [Blank EXCEPT !.id = Ix(i), !.span = 0, !.flags = {"FINAL", "INDEX", "USED"}]
  IN Then(ObjLuFindFree(GcCheck(m, PageUnits)), LAMBDA n :
       Put(Count(PutLookup(n, n.found, Ix(i)), 1, 0), n.found, hdr))

(* SPIFFS_open of a file that exists: the descriptor holds where its       *)
(* header is and its size.                                                 *)
Open(m, i) ==
  Then(FindByName(m, i), LAMBDA n :
    LET pg == n.flash[n.found]
    IN IF n.found = NoPage THEN Fail(n, "not found")
       ELSE IndexCheck([n EXCEPT !.fd = [obj |-> Obj(pg.lu), pix |-> n.found,
                                         size |-> pg.size]], pg))

SizeOf(fd) == IF fd.size = Ones THEN 0 ELSE fd.size

Spans(offset, n) ==
  [i \in 1..((offset + n - 1) \div PageUnits - offset \div PageUnits + 1) |->
    offset \div PageUnits + i - 1]

(* The units of a write that fall into a page.                             *)
Part(span, offset, data) ==
  [k \in 0..PageUnits - 1 |->
    LET i == span * PageUnits + k - offset + 1
    IN IF i \in DOMAIN data THEN data[i] ELSE Ones]

Upto(span, offset, data) == Min({offset + Len(data), (span + 1) * PageUnits})

LoadIndex(m) ==
  IF ~Ok(m) THEN m
  ELSE IndexCheck([m EXCEPT !.work = m.flash[m.fd.pix]], m.flash[m.fd.pix])

(* A page is allocated, or the rest of the last page is filled in place.   *)
AppendPage(m, span, offset, data) ==
  IF ~Ok(m) THEN m ELSE
    LET inPlace == offset > span * PageUnits
        p == m.work.refs[span]
        part == Part(span, offset, data)
    IN Then(IF inPlace THEN Put(DataCheck(m, p, span), p, [Blank EXCEPT !.data = part])
            ELSE PageAllocateData(m, [id |-> m.fd.obj, span |-> span, flags |-> {"FINAL"}],
                                  part, TRUE),
            LAMBDA n : [n EXCEPT !.work.refs[span] = IF inPlace THEN p ELSE n.found,
                                 !.fd.size = Upto(span, offset, data)])

(* Without room for all the data the index is stored nevertheless.         *)
Stored(m, Store(_)) ==
  IF m.res \notin {"ok", "full", "not found"} THEN m
  ELSE Then(Store([m EXCEPT !.res = "ok"]), LAMBDA n : [n EXCEPT !.res = m.res])

(* The index of an empty object is written into the header page it has;    *)
(* otherwise the header moves.                                             *)
AppendIndex(m, offset) ==
  LET hdr == [m.work EXCEPT !.size = m.fd.size]
  IN IF offset > 0 THEN UpdateIndexHdr(m, Ix(m.fd.obj), m.fd.pix, m.fd.size)
     ELSE Put(IndexCheck(m, m.flash[m.fd.pix]), m.fd.pix, [hdr EXCEPT !.lu = Ones])

ObjectAppend(m, offset, data) ==
  Then(LoadIndex(GcCheck(m, Len(data) + PageUnits)), LAMBDA n :
    Stored(FoldLeft(LAMBDA l, s : AppendPage(l, s, offset, data),
                    [n EXCEPT !.fd.size = offset], Spans(offset, Len(data))),
           LAMBDA l : AppendIndex(l, offset)))

(* A page that is only modified in part is copied before it is final, and  *)
(* the original goes before the index knows of the new one.                *)
ModifyPage(m, span, offset, data) ==
  IF ~Ok(m) THEN m ELSE
    LET orig == m.work.refs[span]
        part == Part(span, offset, data)
        whole == \A k \in DOMAIN part : part[k] # Ones
        old == m.flash[orig].data
        rest == [k \in DOMAIN old |-> IF part[k] = Ones THEN old[k] ELSE Ones]
        hdr == [id |-> m.fd.obj, span |-> span, flags |-> {}]
        Fill(n) == Put(Put(n, n.found, [Blank EXCEPT !.data = rest]),
                       n.found, [Blank EXCEPT !.data = part])
        copy == IF whole THEN PageAllocateData(m, hdr, part, TRUE)
                ELSE Then(PageAllocateData(DataCheck(m, orig, span), hdr, Blank.data, FALSE),
                          LAMBDA n : PutFlags(Fill(n), n.found, {"FINAL", "USED"}))
    IN Then(PageDelete(copy, orig), LAMBDA n : [n EXCEPT !.work.refs[span] = n.found])

ObjectModify(m, offset, data) ==
  Then(LoadIndex(GcCheck(m, Len(data) + PageUnits)), LAMBDA n :
    Stored(FoldLeft(LAMBDA l, s : ModifyPage(l, s, offset, data), n, Spans(offset, Len(data))),
           LAMBDA l : UpdateIndexHdr(l, Ix(l.fd.obj), l.fd.pix, 0)))

(* spiffs_hydro_write: what lies within the file is modified, the rest     *)
(* appended.                                                               *)
Write(m, offset, data) ==
  LET within == IF m.fd.size # Ones /\ offset < m.fd.size
                THEN Min({m.fd.size - offset, Len(data)}) ELSE 0
  IN Then(IF within = 0 THEN m ELSE ObjectModify(m, offset, SubSeq(data, 1, within)),
          LAMBDA n : IF within = Len(data) THEN n
                     ELSE ObjectAppend(n, offset + within, SubSeq(data, within + 1, Len(data))))

TruncatePageForgets(m, span) == (* mutant: the page is not deleted *)
  IF ~Ok(m) THEN m ELSE [m EXCEPT !.work.refs[span] = Ones, !.fd.size = span * PageUnits]

(* Deletes one data page, from the last one on; a page that is already     *)
(* gone is passed over, anything else stops the truncation.                *)
TruncatePage(m, span) ==
  LET p == m.work.refs[span]
      m1 == [m EXCEPT !.work.refs[span] = Ones]
  IN IF ~Ok(m) THEN m
     ELSE IF DataState(m, p, span) \notin {"ok", "deleted", "ref free"} THEN Fail(m1, "stopped")
     ELSE [(IF DataState(m, p, span) = "ok" THEN PageDelete(m1, p) ELSE m1)
             EXCEPT !.fd.size = span * PageUnits]

TruncatePages(m) ==
  IF SizeOf(m.fd) = 0 THEN [m EXCEPT !.fd.size = 0]
  ELSE FoldLeft(TruncatePage, LoadIndex(m), Reverse(Spans(0, m.fd.size)))

(* What becomes of the index header when the pages have gone, or some of   *)
(* them.                                                                   *)
TruncateIndex(m, ix, remove) ==
  IF ~Ok(m) /\ m.res # "stopped" THEN m
  ELSE IF remove /\ m.fd.size = 0
  THEN ObjectGone(PageDelete(IndexCheck(m, m.flash[ix]), ix), Ix(m.fd.obj))
  ELSE UpdateIndexHdr(IF m.fd.size > 0 THEN [m EXCEPT !.res = "ok"]
                      ELSE [m EXCEPT !.work.refs = Blank.refs],
                      Ix(m.fd.obj), ix, IF m.fd.size > 0 THEN m.fd.size ELSE Ones)

(* To length 0, or altogether.                                             *)
ObjectTruncate(m, remove) ==
  LET Mark(n) == IF remove THEN PutFlags(n, n.fd.pix, {"USED", "INDEX", "FINAL", "IXDELE"}) ELSE n
  IN Then(GcCheck(m, IF remove THEN 0 ELSE PageUnits), LAMBDA n :
       TruncateIndex(TruncatePages(Mark(n)), n.fd.pix, remove))

-----------------------------------------------------------------------------
(* The files on the flash, as programs read them                           *)

Headers(pages, i) ==
  {p \in Pix : /\ pages[p].lu = Ix(i) /\ pages[p].span = 0
               /\ Cleared(pages[p], {"FINAL"}) /\ Set(pages[p], {"DELET", "IXDELE"})}

Unreadable == -1

UnitOf(pages, p, i) ==
  LET span == (i - 1) \div PageUnits
      ref == pages[p].refs[span]
  IN IF DataState([flash |-> pages], ref, span) = "ok"
     THEN pages[ref].data[(i - 1) % PageUnits] ELSE Unreadable

ContentsIn(pages, i) ==
  LET p == CHOOSE p \in Headers(pages, i) : TRUE
  IN IF pages[p].size = Ones THEN <<>>
     ELSE [k \in 1..pages[p].size |-> UnitOf(pages, p, k)]

FilesIn(pages) ==
  [i \in {i \in 1..MaxObj : Headers(pages, i) # {}} |-> ContentsIn(pages, i)]

HeadersOf(i) == Headers(flash, i)
Contents(i) == ContentsIn(flash, i)
Files == FilesIn(flash)
Existing == DOMAIN Files

-----------------------------------------------------------------------------
(* What programs do.  A file that is empty is not truncated: fs->work does *)
(* not hold its header then (see FileApi).                                 *)
Calls ==
  [op : {"create"}, obj : {FreeObjId(Now)} \cap 1..MaxObj, at : {0}, data : {<<>>}]
  \cup UNION {{[op |-> "write", obj |-> i, at |-> w[1], data |-> w[2]] : w \in Writes[i]} :
               i \in Existing}
  \cup [op : {"truncate", "remove"}, obj : Existing, at : {0}, data : {<<>>}]

Allowed(c) ==
  /\ c.op = "write" => c.at <= Len(Contents(c.obj))
  /\ c.op = "truncate" => Contents(c.obj) # <<>>

Done(c) ==
  CASE c.op = "create" -> ObjectCreate(Now, c.obj)
    [] c.op = "write" -> Write(Open(Now, c.obj), c.at, c.data)
    [] c.op = "truncate" -> ObjectTruncate(Open(Now, c.obj), FALSE)
    [] c.op = "remove" -> ObjectTruncate(Open(Now, c.obj), TRUE)

Becomes(m) == flash' = m.flash /\ erased' = m.erased
Settles(m) == Becomes(m) /\ ram' = Kept(m)

Off == [free |-> NoPage, cursor |-> NoPage, alloc |-> 0, dele |-> 0, blocks |-> 0]

Nothing == [files |-> <<>>, op |-> "none", obj |-> 0]

Init ==
  /\ flash = [p \in Pix |-> Blank]
  /\ erased = <<>>
  /\ ram = Kept(Mount(flash, erased))
  /\ report = "ok" /\ losses = 0 /\ kept = Nothing

Up == report # "off"

Call(m) ==
  /\ Settles(m)
  /\ UNCHANGED <<report, losses, kept>>

Start(m) ==
  /\ Settles(m)
  /\ report' = Report(m) /\ kept' = Nothing /\ UNCHANGED losses

(* The power goes before a call, or the mending, or after one of its       *)
(* writes.                                                                 *)
PowerLoss(m) ==
  /\ losses < MaxLosses /\ losses' = losses + 1
  /\ UNCHANGED <<flash, erased>> \/ \E k \in DOMAIN m.log : Becomes(m.log[k])
  /\ report' = "off" /\ ram' = Off

LossInCall(c, m) ==
  /\ PowerLoss(m)
  /\ kept' = [files |-> Files, op |-> c.op, obj |-> c.obj]

LossInStart(m) ==
  /\ PowerLoss(m)
  /\ kept' = Nothing

CallOrLoss(c, m) == Call(m) \/ LossInCall(c, m)
StartOrLoss(m) == Start(m) \/ LossInStart(m)

Next ==
  \/ Up /\ \E c \in Calls : Allowed(c) /\ CallOrLoss(c, Done(c))
  \/ ~Up /\ StartOrLoss(FsTask(flash, erased))

Spec == Init /\ [][Next]_vars

-----------------------------------------------------------------------------
(* What holds as long as the power stays on                                *)

(* Lookup entries are used up in order: the scans of the garbage collector *)
(* stop at the first free one (spiffs_gc.c).                               *)
FreeTail ==
  losses = 0 => \A p, q \in Pix :
    BlockOf(p) = BlockOf(q) /\ p < q /\ flash[p].lu = Ones => flash[q].lu = Ones

(* What the calls keep count of, and base their refusals on, is what a     *)
(* mount would find on the flash.                                          *)
StatsAgree ==
  losses = 0 => LET found == Mount(flash, erased)
                IN <<ram.alloc, ram.dele, ram.blocks>> = <<found.alloc, found.dele, found.blocks>>

(* Spiffs_check.c, on the bits of a page: "A consistent file system will   *)
(* have only pages being" free and unreferenced, used data referenced only *)
(* once, or used index and unreferenced.                                   *)
Disorderly(pages) ==
  LET indices == {q \in Pix : IsIndex(pages[q])}
      References(p) ==
        Cardinality({r \in indices \X DOMAIN Blank.refs : pages[r[1]].refs[r[2]] = p})
      Orderly(p) ==
        \/ ~IsUsed(pages[p]) /\ References(p) = 0
        \/ IsUsed(pages[p]) /\ Set(pages[p], {"INDEX"}) /\ References(p) = 1
        \/ p \in indices /\ References(p) = 0
  IN {p \in Pix : ~Orderly(p)}

Consistent(pages) == Disorderly(pages) = {}

LookupsAgree ==
  \A p \in Pix :
    \/ flash[p] = Blank
    \/ flash[p].lu = Deleted /\ Cleared(flash[p], {"DELET"})
    \/ IsUsed(flash[p]) /\ Cleared(flash[p], {"FINAL"}) /\ flash[p].lu = flash[p].id

(* An index refers to the pages of its object's size and to no others.     *)
Covers(p) ==
  \A span \in DOMAIN Blank.refs :
    (flash[p].refs[span] # Ones) <=> (flash[p].size # Ones /\ span * PageUnits < flash[p].size)

Readable(i) == Unreadable \notin Range(Contents(i))

(* Between two calls, whatever they were and whatever they moved, nothing  *)
(* is lost, leaked, shared or half done, and each object has one header.   *)
NothingHalfDone ==
  losses = 0 =>
    /\ Consistent(flash) /\ LookupsAgree
    /\ \A i \in Existing : /\ Cardinality(HeadersOf(i)) = 1 /\ Readable(i)
                           /\ \A p \in HeadersOf(i) : Covers(p)

(* The files after a call that writes the first n of its units.            *)
After(c, n) ==
  LET d == Files[c.obj]
  IN CASE c.op = "create" -> (c.obj :> <<>>) @@ Files
       [] c.op = "write" ->
            [Files EXCEPT ![c.obj] = SubSeq(d, 1, c.at) \o SubSeq(c.data, 1, n)
                                     \o SubSeq(d, c.at + n + 1, Len(d))]
       [] c.op = "truncate" -> [Files EXCEPT ![c.obj] = <<>>]
       [] c.op = "remove" -> Restrict(Files, Existing \ {c.obj})

(* What FileApi takes for granted of an object: a call does to the files   *)
(* what it is asked to and no more, whatever pages it and the garbage      *)
(* collector move.  One that does not succeed has found the flash full; it *)
(* may then have written some of the units.                                *)
AsPromised(c, m) ==
  \/ m.res = "ok" /\ FilesIn(m.flash) = After(c, Len(c.data))
  \/ m.res = "full" /\ FilesIn(m.flash) \in {Files} \cup
       {After(c, n) : n \in 1..(IF c.op = "write" THEN Len(c.data) ELSE 0)}

CallsKeepPromise ==
  losses = 0 => \A c \in Calls : Allowed(c) => AsPromised(c, Done(c))

-----------------------------------------------------------------------------
(* What holds after power losses                                           *)

Restarted == ~Up /\ Up'
OneHeader(i) == Cardinality(HeadersOf(i)) <= 1
OneHeaderEach == \A i \in 1..MaxObj : OneHeader(i)

(* Data of an object that has no index any more.  When the page check      *)
(* gives an object up, it has counted some of its pages as referred to,    *)
(* and leaves these behind.                                                *)
Orphaned(pages, p) ==
  /\ IsUsed(pages[p]) /\ Set(pages[p], {"INDEX"})
  /\ \A q \in Pix : IsIndex(pages[q]) => /\ Obj(pages[q].id) # pages[p].id
                                        /\ p \notin Range(pages[q].refs)

(* Another start finds nothing to complain of, and removes them.           *)
NextStartCleans(pages, counts) ==
  \A m \in {FsTask(pages, counts)} :
    Report(m) = "ok" /\ Consistent(m.flash) /\ FilesIn(m.flash) = FilesIn(pages)

(* The page check, which starts again after each repair, comes to an end,  *)
(* and no final index page has another object's lookup entry.  If the      *)
(* checks have no error to report, lookups and headers agree; if, too, no  *)
(* header had two copies, every file can be read and the file system is    *)
(* consistent, but for pages of objects that were given up, which the next *)
(* start removes.  Also after a power loss in the mending.                 *)
MendedIsConsistent ==
  [][Restarted =>
       /\ report' \notin {"endless", "misplaced"}
       /\ report' = "ok" =>
            /\ LookupsAgree'
            /\ OneHeaderEach =>
                 /\ \A i \in Existing' : Readable(i)'
                 /\ \A pages \in {flash'} : Consistent(pages) \/
                      /\ \A p \in Disorderly(pages) : Orphaned(pages, p)
                      /\ NextStartCleans(pages, erased')]_vars

(* Allocating a page needs no garbage collection during the mending.       *)
Roomy == Mount(flash, erased).blocks >= 2

(* A page of the file that is deleted in the lookup only, when the mending *)
(* has too few blocks: it erases them before it has rescued the page.      *)
Exposed(i) ==
  /\ ~Roomy
  /\ \E p \in Pix : /\ flash[p].lu = Deleted /\ Set(flash[p], {"DELET"})
                    /\ Obj(flash[p].id) = i

(* With too few blocks the mending may also fail halfway, and says so.     *)
Mendable(i) == (Roomy \/ report' = "ok") /\ ~Exposed(i)

(* One power loss, in any call or garbage collection: a file that the call *)
(* did not work on is never changed.  It is there, as it was, after the    *)
(* mending; only one whose header had two copies may be gone.              *)
OthersSurvive ==
  [][Restarted /\ losses = 1 =>
       \A i \in DOMAIN kept.files \ {kept.obj} :
         Mendable(i) => /\ i \in Existing' => Contents(i)' = kept.files[i]
                        /\ OneHeader(i) => i \in Existing']_vars

(* No file appears that was not there before or being created; one that    *)
(* was being removed or emptied is as before, or gone or empty, unless its *)
(* header had two copies.                                                  *)
NoThirdOutcome ==
  [][Restarted /\ losses = 1 =>
       \A i \in Existing' :
         /\ i \in DOMAIN kept.files \/ i = kept.obj
         /\ i = kept.obj /\ kept.op \in {"remove", "truncate"}
              /\ Mendable(i) /\ OneHeader(i) => Contents(i)' \in {kept.files[i], <<>>}]_vars
=============================================================================
