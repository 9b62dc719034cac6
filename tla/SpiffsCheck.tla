---------------------------- MODULE SpiffsCheck -----------------------------
(***************************************************************************)
(* What the program does when it starts (fs_task): it mounts the flash,    *)
(* which counts the pages, and runs the three consistency checks of        *)
(* spiffs_check.c that mend what a power loss has left behind.             *)
(*                                                                         *)
(* An index's words and a data page's lie in different fields of a page;   *)
(* a page that becomes the other kind has lost what it held.  Left out:    *)
(* what becomes of a final index page whose lookup entry names another     *)
(* object; a start that met one would report it as "misplaced".            *)
(***************************************************************************)
EXTENDS SpiffsFlash

CONSTANT MaxPasses      (* bound: how often the page check starts again     *)

(* spiffs_obj_lu_scan, on a machine whose fields SPIFFS_mount has cleared. *)
Mount(flash, erased) ==
  LET Pages(Is(_)) == Cardinality({p \in Pix : Is(flash[p].lu)})
  IN [Machine(flash, erased) EXCEPT
       !.blocks = Cardinality({b \in 0..Blocks - 1 : flash[PageAt(b, 0)].lu = Ones}),
       !.dele = Pages(LAMBDA lu : lu = Deleted),
       !.alloc = Pages(LAMBDA lu : lu \notin {Deleted, Ones})]

-----------------------------------------------------------------------------
(* What mends                                                              *)

(* The page that an object's index has for a span.  `found` is the index   *)
(* header, or NoPage, which stands for SPIFFS_ERR_NOT_FOUND.               *)
FindIndex(m, id) == FindIdAndSpan(m, Ix(Obj(id)), 0, NoPage)
Reference(m, span) ==
  IF span \in DOMAIN Blank.refs THEN m.flash[m.found].refs[span] ELSE Ones

(* Copies a page's data to a new page with this header.  They are read     *)
(* after the new page has been found.                                      *)
RewriteAs(m, p, hdr) ==
  Then(PageAllocateData(m, hdr, Blank.data, FALSE), LAMBDA n :
    LET pg == n.flash[p]
    IN Put(n, n.found, [Blank EXCEPT !.size = pg.size, !.refs = pg.refs, !.data = pg.data]))

RewritePage(m, p) == RewriteAs(m, p, m.flash[p])

DataHdr(id, span) == [id |-> Obj(id), span |-> span, flags |-> {"USED", "FINAL"}]
IndexHdr(id, span) == [id |-> Ix(id), span |-> span, flags |-> {"USED", "FINAL", "INDEX"}]

(* The words of a page's header where a lookup page has its entries; the   *)
(* first two are all that a block of two entries reads.                    *)
HeaderWords(pg) == [i \in 1..Entries |-> IF i = 1 THEN pg.id ELSE pg.span]

(* Replaces a reference in an object's index, in a new copy of the index,  *)
(* made in fs->lu_work.  The new page is not counted as allocated.         *)
RewriteIndex(m, id, span, new, ix) ==
  Then(ObjLuFindFree(m), LAMBDA a :
    LET old == a.flash[ix]
        n == [a EXCEPT !.lu = HeaderWords(old)]
    IN IF \/ old.id # Ix(Obj(id)) \/ old.span # 0
          \/ old.flags # {"USED", "INDEX", "FINAL"}
       THEN Fail(PageDelete(n, n.found), "bad index")
       ELSE PageDelete(PutLookup(Put(n, n.found, [old EXCEPT !.lu = Ones, !.refs[span] = new]),
                                 n.found, Ix(Obj(id))), ix))

DeleteObjNever(m, id) == m (* mutant: the object stays *)

(* Marks the first header it finds as being deleted.                       *)
DeleteObjLazy(m, id) ==
  Then(FindIdAndSpan(m, id, 0, NoPage), LAMBDA n :
    IF n.found = NoPage THEN n ELSE PutFlags(n, n.found, {"IXDELE"}))

(* The index cannot be mended: what to do instead.                         *)
Unless(m, Otherwise(_)) ==
  IF m.res = "bad index" THEN Otherwise([m EXCEPT !.res = "ok"]) ELSE m

-----------------------------------------------------------------------------
(* The look up check                                                       *)

Reload(m, p) == ReadLookup(m, BlockOf(p))

(* A page its lookup entry takes for free or deleted, its header does not. *)
SalvageData(m, p) ==
  LET pg == m.flash[p]
      Redirect(n, ix) ==
        Unless(RewriteIndex(n, pg.id, pg.span, n.found, ix),
               LAMBDA u : Reload(DeleteObjLazy(PageDelete(u, n.found), pg.id), p))
  IN Then(FindIndex(m, pg.id), LAMBDA i :
       IF i.found = NoPage \/ Reference(i, pg.span) # p THEN i
       ELSE Then(RewritePage(i, p), LAMBDA n : Redirect(n, i.found)))

SalvageIndex(m, p) ==
  LET pg == m.flash[p]
      Rescue(n) == IF n.found = NoPage THEN n ELSE RewritePage(n, p)
  IN Then(FindIdAndSpan(m, Ix(Obj(pg.id)), pg.span, p), LAMBDA n :
       IF n.found # NoPage THEN n
       ELSE Then(FindIdAndSpanByPhdr(n, Ix(Obj(pg.id)), 0), Rescue))

(* A page that was being written: it stays if its object refers to it.     *)
FinalizeOrDelete(m, p, lu) ==
  Then(FindIndex(m, lu), LAMBDA n :
    IF n.found = NoPage \/ Reference(n, m.flash[p].span) # p
    THEN PageDelete(n, p) ELSE PutFlags(n, p, {"FINAL"}))

(* A page that is an index in the lookup only, or in its header only: it   *)
(* becomes what is missing of the other two.                               *)
MismarkedPage(m, p, lu) ==
  LET span == m.flash[p].span
  IN Then(FindIdAndSpan(m, Obj(lu), span, p), LAMBDA data :
       Then(FindIdAndSpan(data, Ix(lu), span, p), LAMBDA index :
         IF (data.found = NoPage) = (index.found = NoPage) THEN index
         ELSE RewriteAs(index, p, IF index.found = NoPage THEN IndexHdr(lu, span)
                                  ELSE DataHdr(lu, span))))

(* The lookup page is read again where the code remembers to.              *)
LookupCheckValidate(m, p, lu) ==
  LET pg == m.flash[p]
      Salvage == IF Set(pg, {"INDEX"}) THEN SalvageData(m, p) ELSE SalvageIndex(m, p)
      gone == \/ Cleared(pg, {"DELET"}) \/ Set(pg, {"FINAL"})
              \/ Cleared(pg, {"INDEX", "IXDELE"})
  IN IF \/ lu = Deleted /\ Set(pg, {"DELET"})
        \/ lu = Ones /\ Cleared(pg, {"USED"})
     THEN Reload(PageDelete(Salvage, p), p)
     ELSE IF lu \in {Ones, Deleted} THEN m
     ELSE IF Obj(pg.id) # Obj(lu)
     THEN IF gone THEN PageDelete(m, p)
          ELSE IF Set(pg, {"INDEX"}) THEN PageDelete(SalvageData(m, p), p)
          ELSE Fail(m, "misplaced")
     ELSE IF IsIx(lu) # Cleared(pg, {"INDEX"}) THEN PageDelete(MismarkedPage(m, p, lu), p)
     ELSE IF Cleared(pg, {"DELET"}) THEN PageDelete(m, p)
     ELSE IF Set(pg, {"FINAL"}) THEN Reload(FinalizeOrDelete(m, p, lu), p)
     ELSE m

LookupCheckEntry(m, p) ==
  LET m1 == IF EntryOf(p) = 0 THEN ReadLookup(m, BlockOf(p)) ELSE m
  IN IF ~Ok(m) THEN m ELSE LookupCheckValidate(m1, p, m1.lu[EntryOf(p) + 1])

LookupConsistencyCheck(m) ==
  FoldLeft(LookupCheckEntry, m, VisitOrder[PageAt(0, 0)])

-----------------------------------------------------------------------------
(* The page check                                                          *)

IsUsed(pg) == Set(pg, {"DELET"}) /\ Cleared(pg, {"USED"})
IsIndex(pg) == Set(pg, {"DELET", "IXDELE"}) /\ Cleared(pg, {"INDEX", "USED"})

(* A pass: the machine, the pages seen to be an index, those referred to,  *)
(* whether the rest of this index is skipped, and whether the pass has to  *)
(* start again.                                                            *)
NewPass(m) == [m |-> m, marked |-> {}, refd |-> {}, skip |-> FALSE, again |-> FALSE]

Mended(s, m) == [s EXCEPT !.m = m]
Again(s, m) == [s EXCEPT !.m = m, !.again = TRUE]

MendReferenceAtOnce(s, ix, span, p) == (* mutant: no other page is looked for *)
  [Mended(s, DeleteObjLazy(s.m, s.m.flash[ix].id)) EXCEPT !.skip = TRUE]

(* A reference to a page that is not the object's: another one is looked   *)
(* for; without one the object goes.                                       *)
MendReference(s, ix, span, p) ==
  LET id == s.m.flash[ix].id
      Redirect(n) ==
        IF n.found = NoPage THEN [Mended(s, DeleteObjLazy(n, id)) EXCEPT !.skip = TRUE]
        ELSE Again(s, Unless(RewriteIndex(n, id, span, n.found, ix),
                             LAMBDA u : DeleteObjLazy(u, id)))
  IN Redirect(FindIdAndSpan(s.m, Obj(id), span, p))

(* A reference to no page at all: an empty page is made if there is none.  *)
(* The object's id is read from fs->lu_work, where the index was before    *)
(* the search.                                                             *)
ReplaceReference(s, ix, span) ==
  LET Replacement(n) ==
        IF n.found # NoPage THEN n
        ELSE PageAllocateData(n, [Blank EXCEPT !.id = Obj(n.lu[1]), !.span = span],
                              Blank.data, TRUE)
  IN Again(s, Then(Then(FindIdAndSpan(s.m, Obj(s.m.flash[ix].id), span, NoPage), Replacement),
                   LAMBDA n : Unless(RewriteIndex(n, n.lu[1], span, n.found, ix),
                                     LAMBDA u : PageDelete(u, ix))))

CheckReference(s, ix, span) ==
  LET pg == s.m.flash[ix]
      p == pg.refs[span]
      rp == s.m.flash[p]
  IN IF s.again \/ s.skip \/ ~Ok(s.m) \/ p = Ones THEN s
     ELSE IF p \notin Pix THEN ReplaceReference(s, ix, span)
     ELSE IF rp.id # Obj(pg.id) \/ rp.span # span \/ ~IsUsed(rp) \/ Cleared(rp, {"INDEX"})
     THEN MendReference(s, ix, span, p)
     ELSE IF p \in s.refd
     THEN Again(s, PageDelete(DeleteObjLazy(s.m, pg.id), ix))
     ELSE [s EXCEPT !.refd = @ \cup {p}]

CheckIndexPage(s, ix) ==
  IF s.again \/ ~Ok(s.m) \/ ~IsIndex(s.m.flash[ix]) THEN s
  ELSE FoldLeft(LAMBDA t, k : CheckReference(t, ix, k - 1),
                [s EXCEPT !.marked = @ \cup {ix}, !.skip = FALSE],
                [k \in 1..HdrIxLen |-> k])

(* A page in use that no index refers to.                                  *)
CheckUnreferenced(s, p) ==
  LET pg == s.m.flash[p]
      Good(q) ==
        LET rp == s.m.flash[q]
        IN q \in Pix /\ rp.id = Obj(pg.id) /\ IsUsed(rp)
           /\ Cleared(rp, {"FINAL"}) /\ Set(rp, {"INDEX"})
      Resolve(n) ==
        IF n.found = NoPage \/ Good(Reference(n, pg.span)) THEN Mended(s, PageDelete(n, p))
        ELSE IF Reference(n, pg.span) = p THEN Mended(s, n)
        ELSE Again(s, Unless(RewriteIndex(n, pg.id, pg.span, p, n.found),
                             LAMBDA u : DeleteObjLazy(PageDelete(u, p), pg.id)))
  IN Resolve(FindIndex(s.m, pg.id))

(* The pages in use that were neither an index nor referred to when all    *)
(* indices had been looked at.                                             *)
CheckPages(s) ==
  IF s.again \/ ~Ok(s.m) THEN s ELSE
    LET loose == {p \in Pix \ (s.refd \cup s.marked) : IsUsed(s.m.flash[p])}
    IN FoldLeft(LAMBDA t, p : IF t.again \/ ~Ok(t.m) \/ p \notin loose THEN t
                              ELSE CheckUnreferenced(t, p),
                s, VisitOrder[PageAt(0, 0)])

PagePass(m) ==
  CheckPages(FoldLeft(CheckIndexPage, NewPass(m), VisitOrder[PageAt(0, 0)]))

(* It starts again after every change to an index; the bound cuts it off.  *)
PageConsistencyCheck(m) ==
  LET Passed(s) == IF s.again THEN Fail(s.m, "endless") ELSE s.m
  IN Passed(FoldLeft(LAMBDA s, i : IF s.again /\ Ok(s.m) THEN PagePass(s.m) ELSE s,
                     Again(NewPass(m), m), [i \in 1..MaxPasses |-> i]))

-----------------------------------------------------------------------------
(* The object index check: a header that was marked as being deleted goes. *)

ObjectIndexCheckDeleted(m, p) == (* mutant: tests for pages already deleted *)
  IF m.flash[p].span = 0 /\ Cleared(m.flash[p], {"INDEX", "FINAL", "IXDELE", "DELET"})
  THEN PageDelete(m, p) ELSE m

ObjectIndexCheckEntry(m, p) ==
  LET pg == m.flash[p]
  IN IF /\ pg.lu \notin {Ones, Deleted} /\ IsIx(pg.lu) /\ pg.span = 0
        /\ Cleared(pg, {"INDEX", "FINAL", "IXDELE"}) /\ Set(pg, {"DELET"})
     THEN PageDelete(m, p) ELSE m

ObjectIndexConsistencyCheck(m) ==
  FoldLeft(ObjectIndexCheckEntry, m, VisitOrder[PageAt(0, 0)])

-----------------------------------------------------------------------------
(* fs_task: a check runs whatever the result of the one before it; what    *)
(* they return is reported.  The two results that the model stops at are   *)
(* kept.                                                                   *)
Stopped == {"misplaced", "endless"}

NextCheck(m, Check(_)) ==
  IF m.res \in Stopped THEN m
  ELSE Check([m EXCEPT !.res = "ok", !.errors = @ \/ ~Ok(m)])

FsTask(flash, erased) ==
  NextCheck(NextCheck(LookupConsistencyCheck(Mount(flash, erased)), PageConsistencyCheck),
            ObjectIndexConsistencyCheck)

Report(m) ==
  IF m.res \in Stopped THEN m.res ELSE IF m.errors \/ ~Ok(m) THEN "errors" ELSE "ok"
=============================================================================
