--------------------------- MODULE FileApi_proofs ---------------------------
(***************************************************************************)
(* Who owns the pages of the write cache, that every descriptor knows the  *)
(* size of its object, and what programs see of a file, for every number   *)
(* of descriptors, pages, files and sizes.                                 *)
(***************************************************************************)
EXTENDS FileApi, FiniteSetTheorems, SequenceTheorems, WellFoundedInduction, TLAPS

(* Min picks by CHOOSE: a set of numbers has a least one to pick.          *)
LEMMA MinIsElement ==
  ASSUME NEW S \in SUBSET Nat, S # {}
  PROVE  Min(S) \in S
<1> DEFINE R == OpToRel(<, Nat)
<1>1. \E x \in S : \A y \in S : ~(<<y, x>> \in R)
  <2>1. IsWellFoundedOn(R, Nat)
    BY NatLessThanWellFounded
  <2> HIDE DEF R
  <2> QED
    BY <2>1, WFMin
<1>2. \A x, y \in Nat : <<y, x>> \in R <=> y < x
  BY DEF OpToRel
<1>3. \E x \in S : \A y \in S : x =< y
  <2>1. PICK x \in S : \A y \in S : ~(<<y, x>> \in R)
    BY <1>1
  <2>2. \A y \in S : ~(y < x) /\ y \in Nat /\ x \in Nat
    <3> HIDE DEF R
    <3> QED
      BY <1>2, <2>1
  <2> QED
    BY <2>2
<1> QED
  BY <1>3 DEF Min

-----------------------------------------------------------------------------
(* The shapes of a descriptor, a page and a machine: enough to know what a *)
(* change of one field leaves alone.                                       *)
FdFields == {"open", "obj", "modes", "size", "fdoffset", "page"}
PageFields == {"obj", "offset", "data"}

Shaped(fs, ps) ==
  /\ DOMAIN fs = Fds /\ \A f \in Fds : DOMAIN fs[f] = FdFields
  /\ DOMAIN ps = Pages /\ \A p \in Pages : DOMAIN ps[p] = PageFields

IsMachine(m) ==
  /\ DOMAIN m = {"objs", "fds", "pages", "work", "ok"}
  /\ Shaped(m.fds, m.pages)

(* The invariant, of the ids of the objects, the descriptors and the pages.*)
(* PagesOwned follows from it; that some page is idle needs the descriptor *)
(* of every page that is not, and where no two descriptors share one.      *)
Ids(D) == D \subseteq Nat \ {0} /\ IsFiniteSet(D)

FdOwns(fs, ps, f) ==
  fs[f].page # 0 => fs[f].open /\ fs[f].page \in Pages /\ ps[fs[f].page].obj = fs[f].obj

OnePageEach(ps) ==
  \A p, q \in Pages : ps[p].obj = ps[q].obj /\ ps[p].obj # 0 => p = q

Watched(fs, ps, p) ==
  ps[p].obj # 0 => \E f \in Fds : fs[f].open /\ fs[f].obj = ps[p].obj

Owned(D, fs, ps) ==
  /\ \A f \in Fds : FdOwns(fs, ps, f)
  /\ \A f \in Fds : fs[f].open => fs[f].obj \in D
  /\ OnePageEach(ps)
  /\ \A p \in Pages : Watched(fs, ps, p)

Sound(m) == IsMachine(m) /\ Ids(DOMAIN m.objs) /\ Owned(DOMAIN m.objs, m.fds, m.pages)

(* What a call may do without touching who owns what.                      *)
Same(m, n) ==
  /\ IsMachine(n)
  /\ DOMAIN n.objs = DOMAIN m.objs
  /\ n.pages = m.pages
  /\ \A f \in Fds : /\ n.fds[f].open = m.fds[f].open
                    /\ n.fds[f].obj = m.fds[f].obj
                    /\ n.fds[f].page = m.fds[f].page

(* Who owns what is read from these fields only.                           *)
LEMMA SameIsSound ==
  ASSUME NEW m, NEW n, Sound(m), Same(m, n)
  PROVE  Sound(n)
<1>1. \A f \in Fds : FdOwns(n.fds, n.pages, f)
  BY DEF Sound, Same, Owned, FdOwns
<1>2. \A f \in Fds : n.fds[f].open => n.fds[f].obj \in DOMAIN n.objs
  BY DEF Sound, Same, Owned
<1>3. \A p \in Pages : Watched(n.fds, n.pages, p)
  BY DEF Sound, Same, Owned, Watched
<1> QED
  BY <1>1, <1>2, <1>3 DEF Sound, Same, Owned

(* Two such steps are one, and doing nothing is one.                       *)
LEMMA SameTwice ==
  ASSUME NEW l, NEW m, NEW n, Same(l, m), Same(m, n)
  PROVE  Same(l, n)
BY DEF Same

LEMMA SameAsItself ==
  ASSUME NEW m, IsMachine(m)
  PROVE  Same(m, m)
BY DEF Same

-----------------------------------------------------------------------------
(* The helpers on objects.                                                 *)

(* Telling the descriptors of an object its new size.                      *)
LEMMA ObjectEventSame ==
  ASSUME NEW m, IsMachine(m), NEW i, NEW size
  PROVE  Same(m, ObjectEvent(m, i, size))
<1> DEFINE n == ObjectEvent(m, i, size)
<1>1. /\ DOMAIN n = DOMAIN m /\ n.objs = m.objs /\ n.pages = m.pages
      /\ n.fds = [f \in Fds |->
           IF f \in OpenFds(m, i) THEN [m.fds[f] EXCEPT !.size = size] ELSE m.fds[f]]
  BY DEF IsMachine, ObjectEvent
<1>2. \A f \in Fds : /\ DOMAIN n.fds[f] = FdFields
                     /\ n.fds[f].open = m.fds[f].open
                     /\ n.fds[f].obj = m.fds[f].obj
                     /\ n.fds[f].page = m.fds[f].page
  <2> TAKE f \in Fds
  <2>1. DOMAIN m.fds[f] = FdFields
    BY DEF IsMachine, Shaped
  <2>2. n.fds[f] = m.fds[f] \/ n.fds[f] = [m.fds[f] EXCEPT !.size = size]
    BY <1>1
  <2> HIDE DEF n
  <2> QED
    BY <2>1, <2>2 DEF FdFields
<1> HIDE DEF n
<1>3. IsMachine(n)
  BY <1>1, <1>2 DEF IsMachine, Shaped
<1> QED
  BY <1>1, <1>2, <1>3 DEF Same, n

(* Writing the header of an object that is there.                          *)
LEMMA UpdateIndexHdrSame ==
  ASSUME NEW m, IsMachine(m), NEW i, NEW header, NEW size
  PROVE  Same(m, UpdateIndexHdr(m, i, header, size))
<1> DEFINE n == [m EXCEPT !.objs[i].header = header, !.work = header]
<1>1. Same(m, n)
  BY DEF IsMachine, Same
<1>2. IsMachine(n)
  BY <1>1 DEF Same
<1> HIDE DEF n
<1>3. Same(n, ObjectEvent(n, i, size))
  BY <1>2, ObjectEventSame
<1>4. Same(m, ObjectEvent(n, i, size))
  BY <1>1, <1>3, SameTwice
<1> QED
  BY <1>4 DEF UpdateIndexHdr, n

(* Writing over bytes of an object, or after them.                         *)
LEMMA ObjectModifySame ==
  ASSUME NEW m, IsMachine(m), NEW i, NEW off, NEW b
  PROVE  Same(m, ObjectModify(m, i, off, b))
BY DEF ObjectModify, IsMachine, Same

LEMMA ObjectAppendSame ==
  ASSUME NEW m, IsMachine(m), NEW f, NEW off, NEW b
  PROVE  Same(m, ObjectAppend(m, f, off, b))
<1> DEFINE i == m.fds[f].obj
           at == Min({off, m.fds[f].size})
           refused == [m EXCEPT !.work = m.objs[i].header, !.ok = FALSE]
           written == [m EXCEPT !.objs[i].data = Overwritten(@, at, b)]
<1>1. Same(m, refused)
  BY DEF IsMachine, Same
<1>2. Same(m, written) /\ IsMachine(written)
  BY DEF IsMachine, Same
<1> HIDE DEF written
<1>3. Same(m, UpdateIndexHdr(written, i, m.objs[i].header, at + Len(b)))
  BY <1>2, UpdateIndexHdrSame, SameTwice
<1>4. \/ ObjectAppend(m, f, off, b) = refused
      \/ ObjectAppend(m, f, off, b)
           = UpdateIndexHdr(written, i, m.objs[i].header, at + Len(b))
  BY DEF ObjectAppend, written
<1> QED
  BY <1>1, <1>3, <1>4

(* SPIFFS_hydro_write is the two of them together.                         *)
LEMMA HydroWriteSame ==
  ASSUME NEW m, IsMachine(m), NEW f, NEW off, NEW b
  PROVE  Same(m, HydroWrite(m, f, off, b))
<1> DEFINE size == m.fds[f].size
           inside == IF size = UndefinedLen \/ off >= size THEN 0
                     ELSE Min({size - off, Len(b)})
           modified == IF inside = 0 THEN m
                       ELSE ObjectModify(m, m.fds[f].obj, off, SubSeq(b, 1, inside))
           rest == SubSeq(b, inside + 1, Len(b))
<1>1. \/ HydroWrite(m, f, off, b) = modified
      \/ HydroWrite(m, f, off, b) = ObjectAppend(modified, f, off + inside, rest)
  BY DEF HydroWrite
<1>2. Same(m, modified) /\ IsMachine(modified)
  <2>1. Same(m, modified)
    BY ObjectModifySame, SameAsItself
  <2> QED
    BY <2>1 DEF Same
<1> HIDE DEF modified, rest, inside
<1>3. Same(m, ObjectAppend(modified, f, off + inside, rest))
  BY <1>2, ObjectAppendSame, SameTwice
<1> QED
  BY <1>1, <1>2, <1>3

-----------------------------------------------------------------------------
(* Pages.                                                                  *)

(* A page is released: no descriptor refers to it any more, and the other  *)
(* pages are as before.                                                    *)
LEMMA FdReleaseSound ==
  ASSUME NEW m, Sound(m), NEW p \in Pages
  PROVE  LET n == FdRelease(m, p)
         IN /\ Sound(n)
            /\ DOMAIN n.objs = DOMAIN m.objs
            /\ \A f \in Fds : n.fds[f].open = m.fds[f].open /\ n.fds[f].obj = m.fds[f].obj
            /\ n.pages[p] = NoWrite
            /\ \A q \in Pages \ {p} : n.pages[q] = m.pages[q]
<1> DEFINE n == FdRelease(m, p)
<1>1. IsMachine(m) /\ Ids(DOMAIN m.objs) /\ Owned(DOMAIN m.objs, m.fds, m.pages)
  BY DEF Sound
<1>2. /\ DOMAIN n = DOMAIN m /\ n.objs = m.objs
      /\ n.pages = [m.pages EXCEPT ![p] = NoWrite]
      /\ n.fds = [f \in Fds |-> IF m.fds[f].open /\ m.fds[f].page = p
                                THEN [m.fds[f] EXCEPT !.page = 0] ELSE m.fds[f]]
  BY <1>1 DEF FdRelease, IsMachine
<1> HIDE DEF n
<1>3. /\ DOMAIN n.pages = Pages /\ n.pages[p] = NoWrite
      /\ \A q \in Pages \ {p} : n.pages[q] = m.pages[q]
  BY <1>1, <1>2 DEF IsMachine, Shaped
<1>4. \A f \in Fds : /\ DOMAIN n.fds[f] = FdFields
                     /\ n.fds[f].open = m.fds[f].open
                     /\ n.fds[f].obj = m.fds[f].obj
                     /\ n.fds[f].page = IF m.fds[f].open /\ m.fds[f].page = p
                                        THEN 0 ELSE m.fds[f].page
  <2> TAKE f \in Fds
  <2>1. DOMAIN m.fds[f] = FdFields
    BY <1>1 DEF IsMachine, Shaped
  <2>2. n.fds[f] = IF m.fds[f].open /\ m.fds[f].page = p
                   THEN [m.fds[f] EXCEPT !.page = 0] ELSE m.fds[f]
    BY <1>2
  <2>3. CASE m.fds[f].open /\ m.fds[f].page = p
    BY <2>1, <2>2, <2>3 DEF FdFields
  <2>4. CASE ~(m.fds[f].open /\ m.fds[f].page = p)
    BY <2>1, <2>2, <2>4
  <2> QED
    BY <2>3, <2>4
<1>5. n.pages[p].obj = 0 /\ DOMAIN n.pages[p] = PageFields
  BY <1>3 DEF NoWrite, PageFields
<1>6. IsMachine(n)
  BY <1>1, <1>2, <1>3, <1>4, <1>5 DEF IsMachine, Shaped
<1>7. \A f \in Fds : FdOwns(n.fds, n.pages, f)
  <2> SUFFICES ASSUME NEW f \in Fds, n.fds[f].page # 0
               PROVE  /\ n.fds[f].open /\ n.fds[f].page \in Pages
                      /\ n.pages[n.fds[f].page].obj = n.fds[f].obj
    BY DEF FdOwns
  <2>1. n.fds[f].page = m.fds[f].page /\ m.fds[f].page # 0
    BY <1>4
  <2>2. m.fds[f].open /\ m.fds[f].page \in Pages /\ m.pages[m.fds[f].page].obj = m.fds[f].obj
    BY <1>1, <2>1 DEF Owned, FdOwns
  <2>3. m.fds[f].page # p
    BY <1>4, <2>1, <2>2
  <2> QED
    BY <1>3, <1>4, <2>1, <2>2, <2>3
<1>8. OnePageEach(n.pages)
  <2> SUFFICES ASSUME NEW q \in Pages, NEW r \in Pages,
                      n.pages[q].obj = n.pages[r].obj, n.pages[q].obj # 0
               PROVE  q = r
    BY DEF OnePageEach
  <2>1. q # p /\ r # p
    BY <1>5
  <2> QED
    BY <1>1, <1>3, <2>1 DEF Owned, OnePageEach
<1>9. \A q \in Pages : Watched(n.fds, n.pages, q)
  <2> SUFFICES ASSUME NEW q \in Pages, n.pages[q].obj # 0
               PROVE  \E f \in Fds : n.fds[f].open /\ n.fds[f].obj = n.pages[q].obj
    BY DEF Watched
  <2>1. n.pages[q] = m.pages[q]
    BY <1>3, <1>5
  <2>2. PICK f \in Fds : m.fds[f].open /\ m.fds[f].obj = m.pages[q].obj
    BY <1>1, <2>1 DEF Owned, Watched
  <2> QED
    BY <1>4, <2>1, <2>2
<1>10. \A f \in Fds : n.fds[f].open => n.fds[f].obj \in DOMAIN n.objs
  BY <1>1, <1>2, <1>4 DEF Owned
<1>11. Sound(n)
  BY <1>1, <1>2, <1>6, <1>7, <1>8, <1>9, <1>10 DEF Sound, Owned
<1> QED
  BY <1>2, <1>3, <1>4, <1>11 DEF n

(* Pages are numbered from 1, so that 0 can stand for none.                *)
LEMMA PagesFacts == Pages \subseteq Nat /\ 0 \notin Pages /\ Fds \subseteq Nat
BY SizesAssumption DEF Pages, Fds

(* The page that spiffs_cache_page_get_by_fd finds is the only one that    *)
(* the object has, whichever descriptor asks.                              *)
LEMMA CachePageFacts ==
  ASSUME NEW m, Sound(m), NEW f \in Fds, m.fds[f].open
  PROVE  /\ m.fds[f].obj # 0
         /\ CachePage(m, f) = 0 => \A q \in Pages : m.pages[q].obj # m.fds[f].obj
         /\ CachePage(m, f) # 0 =>
              /\ CachePage(m, f) \in Pages
              /\ m.pages[CachePage(m, f)].obj = m.fds[f].obj
              /\ \A q \in Pages \ {CachePage(m, f)} : m.pages[q].obj # m.fds[f].obj
<1> DEFINE p == CachePage(m, f)
           own == PendingPages(m, m.fds[f].obj)
<1>1. m.fds[f].obj \in DOMAIN m.objs /\ m.fds[f].obj # 0
  BY DEF Sound, Owned, Ids
<1>2. OnePageEach(m.pages) /\ FdOwns(m.fds, m.pages, f)
  BY DEF Sound, Owned
<1>3. CASE m.fds[f].page # 0
  <2>1. p = m.fds[f].page
    BY <1>3 DEF CachePage
  <2> QED
    BY <1>1, <1>2, <1>3, <2>1 DEF FdOwns, OnePageEach
<1>4. CASE m.fds[f].page = 0 /\ own = {}
  <2>1. p = 0
    BY <1>4 DEF CachePage
  <2> QED
    BY <1>1, <1>4, <2>1 DEF PendingPages
<1>5. CASE m.fds[f].page = 0 /\ own # {}
  <2>1. p = Min(own)
    BY <1>5 DEF CachePage
  <2>2. own \subseteq Pages /\ own \subseteq Nat
    BY PagesFacts DEF PendingPages
  <2>3. p \in own
    BY <1>5, <2>1, <2>2, MinIsElement
  <2>4. p \in Pages /\ m.pages[p].obj = m.fds[f].obj /\ p # 0
    BY <2>3, PagesFacts DEF PendingPages
  <2> HIDE DEF p
  <2>5. \A q \in Pages \ {p} : m.pages[q].obj # m.fds[f].obj
    BY <1>1, <1>2, <2>4 DEF OnePageEach
  <2> QED
    BY <1>1, <2>4, <2>5 DEF p
<1> QED
  BY <1>3, <1>4, <1>5

(* What is in a page that is the object's goes to the flash, and the page  *)
(* is free for another.                                                    *)
LEMMA WriteBackSound ==
  ASSUME NEW m, Sound(m), NEW f, NEW p \in Pages
  PROVE  LET n == WriteBack(m, f, p)
         IN /\ Sound(n)
            /\ DOMAIN n.objs = DOMAIN m.objs
            /\ \A g \in Fds : n.fds[g].open = m.fds[g].open /\ n.fds[g].obj = m.fds[g].obj
            /\ n.pages[p] = NoWrite
            /\ \A q \in Pages \ {p} : n.pages[q] = m.pages[q]
<1> DEFINE w == HydroWrite(m, f, m.pages[p].offset, m.pages[p].data)
<1>1. Same(m, w)
  BY HydroWriteSame DEF Sound
<1>2. Sound(w)
  BY <1>1, SameIsSound
<1>3. WriteBack(m, f, p) = FdRelease(w, p)
  BY DEF WriteBack
<1> HIDE DEF w
<1>4. /\ Sound(FdRelease(w, p))
      /\ DOMAIN FdRelease(w, p).objs = DOMAIN w.objs
      /\ \A g \in Fds : /\ FdRelease(w, p).fds[g].open = w.fds[g].open
                        /\ FdRelease(w, p).fds[g].obj = w.fds[g].obj
      /\ FdRelease(w, p).pages[p] = NoWrite
      /\ \A q \in Pages \ {p} : FdRelease(w, p).pages[q] = w.pages[q]
  BY <1>2, FdReleaseSound
<1>5. /\ DOMAIN w.objs = DOMAIN m.objs /\ w.pages = m.pages
      /\ \A g \in Fds : w.fds[g].open = m.fds[g].open /\ w.fds[g].obj = m.fds[g].obj
  BY <1>1 DEF Same
<1> QED
  BY <1>3, <1>4, <1>5

(* After spiffs_fflush_cache no page holds bytes of the object.            *)
LEMMA FlushedSound ==
  ASSUME NEW m, Sound(m), NEW f \in Fds, m.fds[f].open
  PROVE  LET n == Flushed(m, f)
         IN /\ Sound(n)
            /\ DOMAIN n.objs = DOMAIN m.objs
            /\ \A g \in Fds : n.fds[g].open = m.fds[g].open /\ n.fds[g].obj = m.fds[g].obj
            /\ \A q \in Pages : n.pages[q].obj # m.fds[f].obj
<1> DEFINE p == CachePage(m, f)
           w == WriteBack(m, f, p)
<1>1. CASE p = 0
  <2>1. Flushed(m, f) = m
    BY <1>1 DEF Flushed
  <2> QED
    BY <1>1, <2>1, CachePageFacts
<1>2. CASE p # 0
  <2>1. Flushed(m, f) = w
    BY <1>2 DEF Flushed
  <2>2. /\ p \in Pages /\ m.fds[f].obj # 0
        /\ \A q \in Pages \ {p} : m.pages[q].obj # m.fds[f].obj
    BY <1>2, CachePageFacts
  <2> HIDE DEF p
  <2>3. /\ Sound(w)
        /\ DOMAIN w.objs = DOMAIN m.objs
        /\ \A g \in Fds : w.fds[g].open = m.fds[g].open /\ w.fds[g].obj = m.fds[g].obj
        /\ w.pages[p] = NoWrite
        /\ \A q \in Pages \ {p} : w.pages[q] = m.pages[q]
    BY <2>2, WriteBackSound
  <2> HIDE DEF w
  <2>4. \A q \in Pages : w.pages[q].obj # m.fds[f].obj
    BY <2>2, <2>3 DEF NoWrite
  <2> QED
    BY <2>1, <2>3, <2>4
<1> QED
  BY <1>1, <1>2

-----------------------------------------------------------------------------
(* The calls.                                                              *)

(* A descriptor is closed when its object has no page left.                *)
LEMMA ClosedInSound ==
  ASSUME NEW m, Sound(m), NEW f \in Fds, m.fds[f].open,
         \A q \in Pages : m.pages[q].obj # m.fds[f].obj
  PROVE  LET n == ClosedIn(m, f)
         IN /\ Sound(n) /\ n.pages = m.pages
            /\ \A g \in Fds \ {f} : n.fds[g] = m.fds[g]
<1> DEFINE n == ClosedIn(m, f)
<1>1. IsMachine(m) /\ Ids(DOMAIN m.objs) /\ Owned(DOMAIN m.objs, m.fds, m.pages)
  BY DEF Sound
<1>2. m.fds[f].page = 0
  BY <1>1 DEF Owned, FdOwns
<1>3. /\ DOMAIN n = DOMAIN m /\ n.objs = m.objs /\ n.pages = m.pages
      /\ DOMAIN n.fds = Fds
      /\ n.fds[f] = [ClosedFd EXCEPT !.page = m.fds[f].page]
      /\ \A g \in Fds \ {f} : n.fds[g] = m.fds[g]
  BY <1>1 DEF ClosedIn, IsMachine, Shaped
<1> HIDE DEF n
<1>4. DOMAIN n.fds[f] = FdFields /\ ~n.fds[f].open /\ n.fds[f].page = 0
  BY <1>2, <1>3 DEF ClosedFd, FdFields
<1>5. IsMachine(n)
  <2>1. \A g \in Fds : DOMAIN n.fds[g] = FdFields
    BY <1>1, <1>3, <1>4 DEF IsMachine, Shaped
  <2>2. DOMAIN n = {"objs", "fds", "pages", "work", "ok"}
    BY <1>1, <1>3 DEF IsMachine
  <2>3. DOMAIN n.pages = Pages /\ \A p \in Pages : DOMAIN n.pages[p] = PageFields
    BY <1>1, <1>3 DEF IsMachine, Shaped
  <2> QED
    BY <1>3, <2>1, <2>2, <2>3 DEF IsMachine, Shaped
<1>6. \A g \in Fds : FdOwns(n.fds, n.pages, g) /\ (n.fds[g].open => n.fds[g].obj \in DOMAIN n.objs)
  <2> TAKE g \in Fds
  <2>1. CASE g = f
    BY <1>4, <2>1 DEF FdOwns
  <2>2. CASE g # f
    <3>1. n.fds[g] = m.fds[g] /\ n.pages = m.pages /\ n.objs = m.objs
      BY <1>3, <2>2
    <3>2. FdOwns(m.fds, m.pages, g) /\ (m.fds[g].open => m.fds[g].obj \in DOMAIN m.objs)
      BY <1>1 DEF Owned
    <3> QED
      BY <3>1, <3>2 DEF FdOwns
  <2> QED
    BY <2>1, <2>2
<1>7. \A q \in Pages : Watched(n.fds, n.pages, q)
  <2> SUFFICES ASSUME NEW q \in Pages, n.pages[q].obj # 0
               PROVE  \E g \in Fds : n.fds[g].open /\ n.fds[g].obj = n.pages[q].obj
    BY DEF Watched
  <2>1. PICK g \in Fds : m.fds[g].open /\ m.fds[g].obj = m.pages[q].obj
    BY <1>1, <1>3 DEF Owned, Watched
  <2>2. g # f
    BY <2>1
  <2> QED
    BY <1>3, <2>1, <2>2
<1>8. Sound(n)
  BY <1>1, <1>3, <1>5, <1>6, <1>7 DEF Sound, Owned
<1> QED
  BY <1>3, <1>8 DEF n

(* A closed descriptor is opened: it refers to no page yet.                *)
OpenIn(m, f, i, modes, size) ==
  [m EXCEPT !.fds[f] = [open |-> TRUE, obj |-> i, modes |-> modes, size |-> size,
                        fdoffset |-> 0, page |-> m.fds[f].page]]

(* A free descriptor is opened on an object that is there.                 *)
LEMMA OpenedSound ==
  ASSUME NEW m, Sound(m), NEW f \in Fds, ~m.fds[f].open, NEW i \in DOMAIN m.objs,
         NEW modes, NEW size
  PROVE  LET n == OpenIn(m, f, i, modes, size)
         IN Sound(n) /\ n.pages = m.pages /\ \A g \in Fds : m.fds[g].open => n.fds[g].open
<1> DEFINE n == OpenIn(m, f, i, modes, size)
<1>1. IsMachine(m) /\ Ids(DOMAIN m.objs) /\ Owned(DOMAIN m.objs, m.fds, m.pages)
  BY DEF Sound
<1>2. m.fds[f].page = 0
  BY <1>1 DEF Owned, FdOwns
<1>3. /\ DOMAIN n = DOMAIN m /\ n.objs = m.objs /\ n.pages = m.pages
      /\ DOMAIN n.fds = Fds
      /\ n.fds[f] = [open |-> TRUE, obj |-> i, modes |-> modes, size |-> size,
                     fdoffset |-> 0, page |-> 0]
      /\ \A g \in Fds \ {f} : n.fds[g] = m.fds[g]
  BY <1>1, <1>2 DEF OpenIn, IsMachine, Shaped
<1> HIDE DEF n
<1>4. /\ DOMAIN n.fds[f] = FdFields
      /\ n.fds[f].open /\ n.fds[f].page = 0 /\ n.fds[f].obj = i
  BY <1>3 DEF FdFields
<1>5. IsMachine(n)
  <2>1. \A g \in Fds : DOMAIN n.fds[g] = FdFields
    BY <1>1, <1>3, <1>4 DEF IsMachine, Shaped
  <2>2. DOMAIN n = {"objs", "fds", "pages", "work", "ok"}
    BY <1>1, <1>3 DEF IsMachine
  <2>3. DOMAIN n.pages = Pages /\ \A p \in Pages : DOMAIN n.pages[p] = PageFields
    BY <1>1, <1>3 DEF IsMachine, Shaped
  <2> QED
    BY <1>3, <2>1, <2>2, <2>3 DEF IsMachine, Shaped
<1>6. \A g \in Fds : FdOwns(n.fds, n.pages, g) /\ (n.fds[g].open => n.fds[g].obj \in DOMAIN n.objs)
  BY <1>1, <1>3, <1>4 DEF Owned, FdOwns
<1>7. \A q \in Pages : Watched(n.fds, n.pages, q)
  <2> SUFFICES ASSUME NEW q \in Pages, n.pages[q].obj # 0
               PROVE  \E g \in Fds : n.fds[g].open /\ n.fds[g].obj = n.pages[q].obj
    BY DEF Watched
  <2>1. PICK g \in Fds : m.fds[g].open /\ m.fds[g].obj = m.pages[q].obj
    BY <1>1, <1>3 DEF Owned, Watched
  <2> QED
    BY <1>3, <2>1
<1>8. Sound(n)
  BY <1>1, <1>3, <1>5, <1>6, <1>7 DEF Sound, Owned
<1> QED
  BY <1>3, <1>4, <1>8 DEF n

(* O_TRUNC when it does not fail.                                          *)
LEMMA TruncatedSame ==
  ASSUME NEW m, IsMachine(m), NEW f \in Fds, Truncated(m, f).ok
  PROVE  Same(m, Truncated(m, f))
<1> DEFINE i == m.fds[f].obj
           header == IF m.objs[i].data # <<>> THEN m.objs[i].header ELSE m.work
           emptied == [m EXCEPT !.objs[i].data = <<>>]
           updated == UpdateIndexHdr(emptied, i, header, UndefinedLen)
           refused == [m EXCEPT !.ok = FALSE]
<1>1. Same(m, emptied) /\ IsMachine(emptied)
  BY DEF IsMachine, Same
<1> HIDE DEF emptied
<1>2. Same(m, updated) /\ IsMachine(updated)
  <2>1. Same(m, updated)
    BY <1>1, UpdateIndexHdrSame, SameTwice
  <2> QED
    BY <2>1 DEF Same
<1>3. ~refused.ok
  BY DEF IsMachine
<1>4. Truncated(m, f) = [updated EXCEPT !.fds[f].size = 0]
  BY <1>3 DEF Truncated, emptied
<1> HIDE DEF updated
<1>5. Same(updated, [updated EXCEPT !.fds[f].size = 0])
  BY <1>2 DEF IsMachine, Shaped, Same, FdFields
<1> QED
  BY <1>2, <1>4, <1>5, SameTwice

(* Moving the offset, and reading a header into fs->work.                  *)
LEMMA SeekSame ==
  ASSUME NEW m, IsMachine(m), NEW f \in Fds, NEW offset
  PROVE  Same(m, [m EXCEPT !.fds[f].fdoffset = offset])
BY DEF IsMachine, Shaped, Same, FdFields

LEMMA WorkSame ==
  ASSUME NEW m, IsMachine(m), NEW header
  PROVE  Same(m, [m EXCEPT !.work = header])
BY DEF IsMachine, Same

(* An idle page takes the bytes of an object that has none.                *)
LEMMA CachedSound ==
  ASSUME NEW m, Sound(m), NEW f \in Fds, m.fds[f].open,
         \A p \in Pages : m.pages[p].obj # m.fds[f].obj,
         NEW q \in Pages, m.pages[q].obj = 0, NEW off, NEW b
  PROVE  LET n == Cached(m, f, q, off, b)
         IN Sound(n) /\ \A g \in Fds : n.fds[g].open = m.fds[g].open
<1> DEFINE n == Cached(m, f, q, off, b)
           i == m.fds[f].obj
<1>1. IsMachine(m) /\ Ids(DOMAIN m.objs) /\ Owned(DOMAIN m.objs, m.fds, m.pages)
  BY DEF Sound
<1>2. i \in DOMAIN m.objs /\ i # 0
  BY <1>1 DEF Owned, Ids
<1>3. /\ DOMAIN n = DOMAIN m /\ n.objs = m.objs
      /\ DOMAIN n.pages = Pages
      /\ n.pages[q] = [obj |-> i, offset |-> off, data |-> b]
      /\ \A p \in Pages \ {q} : n.pages[p] = m.pages[p]
      /\ DOMAIN n.fds = Fds
      /\ n.fds[f] = [m.fds[f] EXCEPT !.page = q]
      /\ \A g \in Fds \ {f} : n.fds[g] = m.fds[g]
  BY <1>1 DEF Cached, IsMachine, Shaped
<1> HIDE DEF n
<1>4. n.pages[q].obj = i /\ DOMAIN n.pages[q] = PageFields
  BY <1>3 DEF PageFields
<1>5. /\ DOMAIN n.fds[f] = FdFields /\ n.fds[f].page = q
      /\ n.fds[f].open = m.fds[f].open /\ n.fds[f].obj = i
  <2>1. DOMAIN m.fds[f] = FdFields
    BY <1>1 DEF IsMachine, Shaped
  <2>2. n.fds[f] = [m.fds[f] EXCEPT !.page = q]
    BY <1>3
  <2> QED
    BY <2>1, <2>2 DEF FdFields
<1>6. IsMachine(n)
  <2>1. \A g \in Fds : DOMAIN n.fds[g] = FdFields
    BY <1>1, <1>3, <1>5 DEF IsMachine, Shaped
  <2>2. \A p \in Pages : DOMAIN n.pages[p] = PageFields
    BY <1>1, <1>3, <1>4 DEF IsMachine, Shaped
  <2>3. DOMAIN n = {"objs", "fds", "pages", "work", "ok"}
    BY <1>1, <1>3 DEF IsMachine
  <2> QED
    BY <1>3, <2>1, <2>2, <2>3 DEF IsMachine, Shaped
<1>7. \A g \in Fds : FdOwns(n.fds, n.pages, g)
  <2> TAKE g \in Fds
  <2>1. CASE g = f
    BY <1>4, <1>5, <2>1 DEF FdOwns
  <2>2. CASE g # f
    <3>1. n.fds[g] = m.fds[g] /\ FdOwns(m.fds, m.pages, g)
      BY <1>1, <1>3, <2>2 DEF Owned
    <3>2. m.fds[g].open => m.fds[g].obj # 0
      BY <1>1 DEF Owned, Ids
    <3>3. m.fds[g].page # 0 => m.fds[g].page # q
      BY <3>1, <3>2 DEF FdOwns
    <3> QED
      BY <1>3, <3>1, <3>3 DEF FdOwns
  <2> QED
    BY <2>1, <2>2
<1>8. \A g \in Fds : n.fds[g].open => n.fds[g].obj \in DOMAIN n.objs
  BY <1>1, <1>3, <1>5 DEF Owned
<1>9. OnePageEach(n.pages)
  BY <1>1, <1>3, <1>4 DEF Owned, OnePageEach
<1>10. \A p \in Pages : Watched(n.fds, n.pages, p)
  <2> SUFFICES ASSUME NEW p \in Pages, n.pages[p].obj # 0
               PROVE  \E g \in Fds : n.fds[g].open /\ n.fds[g].obj = n.pages[p].obj
    BY DEF Watched
  <2>1. CASE p = q
    BY <1>4, <1>5, <2>1
  <2>2. CASE p # q
    <3>1. PICK g \in Fds : m.fds[g].open /\ m.fds[g].obj = m.pages[p].obj
      BY <1>1, <1>3, <2>2 DEF Owned, Watched
    <3> QED
      BY <1>3, <1>5, <2>2, <3>1
  <2> QED
    BY <2>1, <2>2
<1>11. Sound(n)
  BY <1>1, <1>3, <1>6, <1>7, <1>8, <1>9, <1>10 DEF Sound, Owned
<1>12. \A g \in Fds : n.fds[g].open = m.fds[g].open
  BY <1>3, <1>5
<1> QED
  BY <1>11, <1>12 DEF n

(* The page that spiffs_cache_page_allocate_by_fd returns is idle.         *)
LEMMA AllocationsFacts ==
  ASSUME NEW m, NEW q \in Allocations(m), q # 0
  PROVE  q \in Pages /\ m.pages[q].obj = 0
<1> DEFINE idle == PendingPages(m, 0)
<1>1. idle \subseteq Pages /\ idle \subseteq Nat /\ \A p \in idle : m.pages[p].obj = 0
  BY PagesFacts DEF PendingPages
<1>2. q \in idle \/ (q = Min(idle) /\ Cardinality(idle) > 1)
  BY DEF Allocations
<1> HIDE DEF idle
<1>3. Cardinality(idle) > 1 => idle # {}
  BY FS_EmptySet
<1> QED
  BY <1>1, <1>2, <1>3, MinIsElement

-----------------------------------------------------------------------------
(* The invariant of the specification.                                     *)
OwnInv ==
  /\ Shaped(fds, pages)
  /\ Ids(DOMAIN objs)
  /\ Owned(DOMAIN objs, fds, pages)

IInv == OwnInv /\ (status # "mounted" => \A f \in Fds : ~fds[f].open)

(* What CloseIsDurable says of a step.                                     *)
Durable ==
  \A f \in Fds : fds[f].open /\ status' = "mounted" /\ ~fds'[f].open
                   => \A p \in Pages : pages'[p].obj # fds[f].obj

(* The machine the calls start from.                                       *)
LEMMA NowFacts ==
  /\ Now.objs = objs /\ Now.fds = fds /\ Now.pages = pages
  /\ OwnInv <=> Sound(Now)
BY DEF Now, OwnInv, Sound, IsMachine

(* A step to a machine that is sound and has closed no descriptor.         *)
LEMMA StepTo ==
  ASSUME NEW m, Sound(m), Becomes(m), status' = "mounted",
         \A f \in Fds : fds[f].open => m.fds[f].open
  PROVE  IInv' /\ Durable
<1>1. objs' = m.objs /\ fds' = m.fds /\ pages' = m.pages
  BY DEF Becomes
<1>2. OwnInv'
  BY <1>1 DEF OwnInv, Sound, IsMachine
<1> QED
  BY <1>1, <1>2 DEF IInv, Durable

(* The descriptor that writes takes over the page its object has.          *)
LEMMA SharedSound ==
  ASSUME OwnInv, NEW f \in Fds, fds[f].open, NEW p \in Pages, pages[p].obj = fds[f].obj
  PROVE  LET shared == [Now EXCEPT !.fds[f].page = p]
         IN /\ Sound(shared) /\ shared.pages = pages
            /\ \A g \in Fds : shared.fds[g].open = fds[g].open /\ shared.fds[g].obj = fds[g].obj
<1> DEFINE shared == [Now EXCEPT !.fds[f].page = p]
<1>1. Sound(Now) /\ Now.fds = fds /\ Now.pages = pages /\ IsMachine(Now)
  BY NowFacts DEF Sound
<1>2. /\ DOMAIN shared = DOMAIN Now /\ shared.objs = Now.objs /\ shared.pages = pages
      /\ DOMAIN shared.fds = Fds
      /\ shared.fds[f] = [fds[f] EXCEPT !.page = p]
      /\ \A g \in Fds \ {f} : shared.fds[g] = fds[g]
  BY <1>1 DEF IsMachine, Shaped
<1> HIDE DEF shared
<1>3. /\ DOMAIN shared.fds[f] = FdFields /\ shared.fds[f].page = p
      /\ shared.fds[f].open = fds[f].open /\ shared.fds[f].obj = fds[f].obj
  <2>1. DOMAIN fds[f] = FdFields
    BY DEF OwnInv, Shaped
  <2> QED
    BY <1>2, <2>1 DEF FdFields
<1>4. IsMachine(shared)
  BY <1>1, <1>2, <1>3 DEF IsMachine, Shaped
<1>5. \A g \in Fds : FdOwns(shared.fds, shared.pages, g)
  <2> TAKE g \in Fds
  <2>1. CASE g = f
    BY <1>2, <1>3, <2>1 DEF FdOwns
  <2>2. CASE g # f
    <3>1. shared.fds[g] = fds[g] /\ shared.pages = pages
      BY <1>2, <2>2
    <3>2. FdOwns(fds, pages, g)
      BY <1>1 DEF Sound, Owned
    <3> QED
      BY <3>1, <3>2 DEF FdOwns
  <2> QED
    BY <2>1, <2>2
<1>6. \A g \in Fds : shared.fds[g].open = fds[g].open /\ shared.fds[g].obj = fds[g].obj
  BY <1>2, <1>3
<1>7. \A q \in Pages : Watched(shared.fds, shared.pages, q)
  BY <1>1, <1>2, <1>6 DEF Sound, Owned, Watched
<1>8. Sound(shared)
  BY <1>1, <1>2, <1>4, <1>5, <1>6, <1>7 DEF Sound, Owned
<1> QED
  BY <1>2, <1>6, <1>8 DEF shared

(* The machine a write that does not fit its page goes on from: the page   *)
(* of the object, if it has one, is on the flash.                          *)
Emptied(f) ==
  LET p == CachePage(Now, f)
  IN IF p = 0 THEN Now ELSE WriteBack([Now EXCEPT !.fds[f].page = p], f, p)

LEMMA EmptiedSound ==
  ASSUME OwnInv, NEW f \in Fds, fds[f].open
  PROVE  LET n == Emptied(f)
         IN /\ Sound(n)
            /\ \A g \in Fds : n.fds[g].open = fds[g].open /\ n.fds[g].obj = fds[g].obj
            /\ \A q \in Pages : n.pages[q].obj # fds[f].obj
<1> DEFINE p == CachePage(Now, f)
           shared == [Now EXCEPT !.fds[f].page = p]
           w == WriteBack(shared, f, p)
<1>1. Sound(Now) /\ Now.fds = fds /\ Now.pages = pages
  BY NowFacts
<1>2. /\ fds[f].obj # 0
      /\ p = 0 => \A q \in Pages : pages[q].obj # fds[f].obj
      /\ p # 0 => /\ p \in Pages /\ pages[p].obj = fds[f].obj
                  /\ \A q \in Pages \ {p} : pages[q].obj # fds[f].obj
  <2>1. Now.fds[f].open
    BY <1>1
  <2> QED
    BY <1>1, <2>1, CachePageFacts
<1>3. Emptied(f) = IF p = 0 THEN Now ELSE w
  BY DEF Emptied
<1> HIDE DEF p
<1>4. CASE p = 0
  BY <1>1, <1>2, <1>3, <1>4
<1>5. CASE p # 0
  <2>1. /\ Sound(shared) /\ shared.pages = pages
        /\ \A g \in Fds : shared.fds[g].open = fds[g].open /\ shared.fds[g].obj = fds[g].obj
    BY <1>2, <1>5, SharedSound
  <2> HIDE DEF shared
  <2>2. /\ Sound(w)
        /\ \A g \in Fds : w.fds[g].open = shared.fds[g].open /\ w.fds[g].obj = shared.fds[g].obj
        /\ w.pages[p] = NoWrite
        /\ \A q \in Pages \ {p} : w.pages[q] = shared.pages[q]
    BY <1>2, <1>5, <2>1, WriteBackSound
  <2> HIDE DEF w
  <2>3. \A q \in Pages : w.pages[q].obj # fds[f].obj
    BY <1>2, <1>5, <2>1, <2>2 DEF NoWrite
  <2> QED
    BY <1>3, <1>5, <2>1, <2>2, <2>3
<1> QED
  BY <1>4, <1>5

(* SPIFFS_write, by every way through it, keeps the owners.                *)
LEMMA WrittenSound ==
  ASSUME OwnInv, NEW f \in Fds, fds[f].open, NEW b, NEW n \in Written(f, b)
  PROVE  Sound(n) /\ \A g \in Fds : n.fds[g].open = fds[g].open
<1> DEFINE p == CachePage(Now, f)
           off == WriteOffset(f, p)
           shared == [Now EXCEPT !.fds[f].page = p]
           flushed == IF p = 0 THEN Now ELSE WriteBack(shared, f, p)
           direct == IF flushed.ok THEN HydroWrite(flushed, f, off, b) ELSE flushed
           again == IF p = 0 \/ ~direct.ok THEN direct ELSE HydroWrite(direct, f, off, b)
           within == [Now EXCEPT !.pages[p].data = Overwritten(@, off - pages[p].offset, b),
                                 !.fds[f].page = p]
<1>1. Sound(Now) /\ Now.fds = fds /\ Now.pages = pages /\ IsMachine(Now)
  BY NowFacts DEF Sound
<1>2. /\ fds[f].obj # 0
      /\ p = 0 => \A q \in Pages : pages[q].obj # fds[f].obj
      /\ p # 0 => /\ p \in Pages /\ pages[p].obj = fds[f].obj
                  /\ \A q \in Pages \ {p} : pages[q].obj # fds[f].obj
  <2>1. Now.fds[f].open
    BY <1>1
  <2> QED
    BY <1>1, <2>1, CachePageFacts
<1>3. \/ n \in {again}
      \/ p # 0 /\ n = within
      \/ n \in {flushed}
      \/ \E q \in Allocations(flushed) :
           n = IF q = 0 THEN direct ELSE Cached(flushed, f, q, off, b)
  BY DEF Written
<1> HIDE DEF p
<1>4. p # 0 => Sound(shared) /\ shared.pages = pages
               /\ \A g \in Fds : shared.fds[g].open = fds[g].open /\ shared.fds[g].obj = fds[g].obj
  BY <1>2, SharedSound
<1> HIDE DEF shared
<1>5. /\ Sound(flushed)
      /\ \A g \in Fds : flushed.fds[g].open = fds[g].open /\ flushed.fds[g].obj = fds[g].obj
      /\ \A q \in Pages : flushed.pages[q].obj # fds[f].obj
  <2>1. flushed = Emptied(f)
    BY DEF Emptied, p, shared
  <2> HIDE DEF flushed
  <2> QED
    BY <2>1, EmptiedSound
<1> HIDE DEF flushed
<1>6. Same(flushed, direct) /\ IsMachine(direct)
  <2>1. Same(flushed, direct)
    BY <1>5, HydroWriteSame, SameAsItself DEF Sound
  <2> QED
    BY <2>1 DEF Same
<1> HIDE DEF direct
<1>7. Same(flushed, again)
  BY <1>6, HydroWriteSame, SameTwice
<1> HIDE DEF again
<1>8. CASE n = again \/ n = direct
  <2>1. Same(flushed, n)
    BY <1>6, <1>7, <1>8
  <2> QED
    BY <1>5, <2>1, SameIsSound DEF Same
<1>9. CASE n = flushed
  BY <1>5, <1>9
<1>10. CASE \E q \in Allocations(flushed) : q # 0 /\ n = Cached(flushed, f, q, off, b)
  <2> HIDE DEF off
  <2>1. PICK q \in Allocations(flushed) : q # 0 /\ n = Cached(flushed, f, q, off, b)
    BY <1>10
  <2>2. q \in Pages /\ flushed.pages[q].obj = 0
    BY <2>1, AllocationsFacts
  <2>3. flushed.fds[f].open /\ \A r \in Pages : flushed.pages[r].obj # flushed.fds[f].obj
    BY <1>5
  <2> QED
    BY <1>5, <2>1, <2>2, <2>3, CachedSound
<1>11. CASE p # 0 /\ n = within
  <2> DEFINE data == Overwritten(pages[p].data, off - pages[p].offset, b)
  <2>1. n = [shared EXCEPT !.pages[p].data = data]
    BY <1>1, <1>2, <1>11 DEF shared, Now
  <2> HIDE DEF data
  <2>2. /\ DOMAIN n = DOMAIN shared /\ n.objs = shared.objs /\ n.fds = shared.fds
        /\ DOMAIN n.pages = Pages
        /\ n.pages[p] = [shared.pages[p] EXCEPT !.data = data]
        /\ \A q \in Pages \ {p} : n.pages[q] = shared.pages[q]
    <3>1. p \in Pages /\ DOMAIN shared.pages = Pages
      BY <1>2, <1>4, <1>11 DEF Sound, IsMachine, Shaped
    <3>2. /\ DOMAIN n = DOMAIN shared /\ n.objs = shared.objs /\ n.fds = shared.fds
          /\ n.pages = [shared.pages EXCEPT ![p] = [shared.pages[p] EXCEPT !.data = data]]
      BY <1>4, <1>11, <2>1 DEF Sound, IsMachine
    <3> QED
      BY <3>1, <3>2
  <2>3. DOMAIN n.pages[p] = PageFields /\ n.pages[p].obj = shared.pages[p].obj
    <3>1. DOMAIN shared.pages[p] = PageFields
      BY <1>2, <1>4, <1>11 DEF Sound, IsMachine, Shaped
    <3> QED
      BY <2>2, <3>1 DEF PageFields
  <2>4. \A q \in Pages : DOMAIN n.pages[q] = PageFields /\ n.pages[q].obj = shared.pages[q].obj
    BY <1>4, <1>11, <2>2, <2>3 DEF Sound, IsMachine, Shaped
  <2>5. IsMachine(n)
    BY <1>4, <1>11, <2>2, <2>4 DEF Sound, IsMachine, Shaped
  <2>6. \A g \in Fds : FdOwns(n.fds, n.pages, g)
    <3>1. n.fds = shared.fds /\ \A g \in Fds : FdOwns(shared.fds, shared.pages, g)
      BY <1>4, <1>11, <2>2 DEF Sound, Owned
    <3> QED
      BY <2>4, <3>1 DEF FdOwns
  <2>7. OnePageEach(n.pages) /\ \A q \in Pages : Watched(n.fds, n.pages, q)
    <3>1. /\ n.fds = shared.fds /\ OnePageEach(shared.pages)
          /\ \A q \in Pages : Watched(shared.fds, shared.pages, q)
      BY <1>4, <1>11, <2>2 DEF Sound, Owned
    <3> QED
      BY <2>4, <3>1 DEF OnePageEach, Watched
  <2>8. Sound(n)
    BY <1>4, <1>11, <2>2, <2>5, <2>6, <2>7 DEF Sound, Owned
  <2> QED
    BY <1>4, <1>11, <2>2, <2>8
<1> HIDE DEF within, off
<1> QED
  BY <1>3, <1>8, <1>9, <1>10, <1>11

-----------------------------------------------------------------------------
(* The actions, one lemma each.                                            *)

(* The descriptor that is taken is free, the object that is found is there.*)
LEMMA FreeFdFacts ==
  ASSUME FreeFds # {}
  PROVE  Min(FreeFds) \in Fds /\ ~fds[Min(FreeFds)].open
<1>1. FreeFds \subseteq Nat
  BY PagesFacts DEF FreeFds
<1>2. Min(FreeFds) \in FreeFds
  BY <1>1, MinIsElement
<1> QED
  BY <1>2 DEF FreeFds

LEMMA NamedFacts ==
  ASSUME OwnInv, NEW n, Named(n) # {}
  PROVE  Min(Named(n)) \in DOMAIN objs /\ Min(Named(n)) # 0
<1>1. Named(n) \subseteq DOMAIN objs /\ Named(n) \subseteq Nat /\ 0 \notin Named(n)
  BY DEF Named, OwnInv, Ids
<1>2. Min(Named(n)) \in Named(n)
  BY <1>1, MinIsElement
<1> QED
  BY <1>1, <1>2

(* Some id is free: there are more of them than objects.                   *)
LEMMA FreeObjIdFacts ==
  ASSUME OwnInv
  PROVE  FreeObjId \in Nat \ {0} /\ FreeObjId \notin DOMAIN objs
<1> DEFINE k == Cardinality(DOMAIN objs)
           free == (1..k + 1) \ DOMAIN objs
<1>1. IsFiniteSet(DOMAIN objs) /\ k \in Nat
  BY FS_CardinalityType DEF OwnInv, Ids
<1>2. IsFiniteSet(1..k + 1) /\ Cardinality(1..k + 1) = k + 1
  <2> HIDE DEF k
  <2>1. 1 \in Int /\ k + 1 \in Int /\ ~(1 > k + 1) /\ (k + 1) - 1 + 1 = k + 1
    BY <1>1
  <2> QED
    BY <2>1, FS_Interval
<1>3. ~(1..k + 1 \subseteq DOMAIN objs)
  <2> SUFFICES ASSUME 1..k + 1 \subseteq DOMAIN objs
               PROVE  FALSE
    OBVIOUS
  <2>1. Cardinality(1..k + 1) <= k
    BY <1>1, FS_Subset
  <2> HIDE DEF k
  <2> QED
    BY <1>1, <1>2, <2>1
<1>4. free # {} /\ free \subseteq Nat /\ 0 \notin free
  BY <1>1, <1>3
<1> HIDE DEF free
<1>5. Min(free) \in free
  BY <1>4, MinIsElement
<1> QED
  BY <1>4, <1>5 DEF FreeObjId, free

(* SPIFFS_open of a file that is there, and of one that is not.            *)
LEMMA OpenFileStep ==
  ASSUME IInv, NEW n, NEW modes, NEW trunc, OpenFile(n, modes, trunc)
  PROVE  IInv' /\ Durable
<1> DEFINE i == Min(Named(n))
           f == Min(FreeFds)
           o == Opened(i, f, modes)
           m == IF trunc THEN Truncated(o, f) ELSE o
<1>1. Becomes(m) /\ m.ok /\ status' = "mounted" /\ OwnInv /\ f \in Fds /\ ~fds[f].open
      /\ i \in DOMAIN objs
  BY FreeFdFacts, NamedFacts DEF OpenFile, IInv
<1> HIDE DEF i, f
<1>2. Sound(o) /\ \A g \in Fds : fds[g].open => o.fds[g].open
  <2>1. /\ Sound(Now) /\ ~Now.fds[f].open /\ i \in DOMAIN Now.objs
        /\ Now.fds = fds /\ Now.objs = objs
    BY <1>1, NowFacts
  <2>2. o = OpenIn(Now, f, i, modes, SizeOf(objs[i].data))
    BY <2>1 DEF Opened, OpenIn
  <2> HIDE DEF o
  <2>3. Sound(o) /\ \A g \in Fds : Now.fds[g].open => o.fds[g].open
    BY <1>1, <2>1, <2>2, OpenedSound
  <2> QED
    BY <2>1, <2>3
<1> HIDE DEF o
<1>3. Same(o, m)
  BY <1>1, <1>2, TruncatedSame, SameAsItself DEF Sound
<1> HIDE DEF m
<1>4. Sound(m) /\ \A g \in Fds : fds[g].open => m.fds[g].open
  BY <1>2, <1>3, SameIsSound DEF Same
<1> QED
  BY <1>1, <1>4, StepTo

LEMMA CreateFileStep ==
  ASSUME IInv, NEW n, NEW modes, CreateFile(n, modes)
  PROVE  IInv' /\ Durable
<1> DEFINE i == FreeObjId
           f == Min(FreeFds)
           D == {i} \cup DOMAIN objs
<1>1. /\ OwnInv /\ status' = "mounted" /\ pages' = pages
      /\ f \in Fds /\ ~fds[f].open /\ i \in Nat \ {0}
      /\ objs' = [j \in D |-> IF j = i THEN Created(n) ELSE objs[j]]
      /\ fds' = [fds EXCEPT ![f] = [open |-> TRUE, obj |-> i, modes |-> modes,
                                    size |-> UndefinedLen, fdoffset |-> 0,
                                    page |-> fds[f].page]]
  BY FreeFdFacts, FreeObjIdFacts DEF CreateFile, IInv
<1>2. DOMAIN objs' = D
  BY <1>1
<1>3. Ids(D)
  <2>1. Ids(DOMAIN objs)
    BY <1>1 DEF OwnInv
  <2> HIDE DEF i
  <2> QED
    BY <1>1, <2>1, FS_AddElement DEF Ids
<1> HIDE DEF i, f
<1> DEFINE m == [objs |-> [j \in D |-> 0], fds |-> fds, pages |-> pages, work |-> 0, ok |-> TRUE]
           o == OpenIn(m, f, i, modes, UndefinedLen)
<1>4. Sound(m)
  <2>1. Owned(D, fds, pages)
    BY <1>1 DEF OwnInv, Owned
  <2> QED
    BY <1>1, <1>3, <2>1 DEF Sound, IsMachine, OwnInv
<1>5. o.fds = fds' /\ i \in DOMAIN m.objs /\ DOMAIN o.objs = D
  BY <1>1 DEF OpenIn
<1>6. m.fds = fds /\ m.pages = pages
  OBVIOUS
<1> HIDE DEF m, D
<1>7. Sound(o) /\ o.pages = m.pages /\ \A g \in Fds : m.fds[g].open => o.fds[g].open
  BY <1>1, <1>4, <1>5, <1>6, OpenedSound
<1> HIDE DEF o
<1>8. OwnInv'
  BY <1>1, <1>2, <1>5, <1>6, <1>7 DEF OwnInv, Sound, IsMachine
<1> QED
  BY <1>1, <1>5, <1>6, <1>7, <1>8 DEF IInv, Durable

(* Another descriptor may be called, moved and asked: its page is flushed. *)
LEMMA CallFacts ==
  ASSUME IInv, NEW f \in Fds, Calls(f)
  PROVE  LET m == Flushed(Now, f)
         IN /\ Sound(m) /\ IsMachine(m)
            /\ \A g \in Fds : m.fds[g].open = fds[g].open /\ m.fds[g].obj = fds[g].obj
            /\ \A q \in Pages : m.pages[q].obj # fds[f].obj
<1>1. Sound(Now) /\ Now.fds = fds /\ fds[f].open
  BY NowFacts DEF Calls, IInv
<1>2. Now.fds[f].open
  BY <1>1
<1> DEFINE m == Flushed(Now, f)
<1>3. /\ Sound(m)
      /\ \A g \in Fds : m.fds[g].open = Now.fds[g].open /\ m.fds[g].obj = Now.fds[g].obj
      /\ \A q \in Pages : m.pages[q].obj # Now.fds[f].obj
  BY <1>1, <1>2, FlushedSound
<1> HIDE DEF m
<1> QED
  BY <1>1, <1>3 DEF Sound, m

(* A step that changes only offsets and fs->work after a flush.            *)
LEMMA SameStep ==
  ASSUME NEW m, Sound(m), \A g \in Fds : m.fds[g].open = fds[g].open,
         NEW n, Same(m, n), Becomes(n), status' = "mounted"
  PROVE  IInv' /\ Durable
<1>1. Sound(n) /\ \A g \in Fds : fds[g].open => n.fds[g].open
  BY SameIsSound DEF Same
<1> QED
  BY <1>1, StepTo

(* The calls on a descriptor.                                              *)
LEMMA WriteStep ==
  ASSUME IInv, NEW f \in Fds, NEW b, Write(f, b)
  PROVE  IInv' /\ Durable
<1>1. PICK m \in Written(f, b) :
        Becomes(IF m.ok THEN [m EXCEPT !.fds[f].fdoffset = @ + Len(b)] ELSE m)
  BY DEF Write
<1>2. OwnInv /\ fds[f].open /\ status' = "mounted"
  BY DEF Write, Calls, IInv
<1>3. Sound(m) /\ IsMachine(m) /\ \A g \in Fds : m.fds[g].open = fds[g].open
  BY <1>1, <1>2, WrittenSound DEF Sound
<1>4. Same(m, [m EXCEPT !.fds[f].fdoffset = @ + Len(b)]) /\ Same(m, m)
  BY <1>3, SeekSame, SameAsItself
<1> QED
  BY <1>1, <1>2, <1>3, <1>4, SameStep

LEMMA ReadStep ==
  ASSUME IInv, NEW f \in Fds, NEW len, Read(f, len)
  PROVE  IInv' /\ Durable
<1> DEFINE m == Flushed(Now, f)
           fd == m.fds[f]
           object == m.objs[fd.obj]
           to == Min({fd.fdoffset + len, fd.size})
           moved == [m EXCEPT !.fds[f].fdoffset = to, !.work = object.header]
           loaded == [m EXCEPT !.work = object.header]
<1>1. Calls(f) /\ status' = "mounted" /\ (Becomes(moved) \/ Becomes(loaded) \/ Becomes(m))
  BY DEF Read, Calls
<1>2. Sound(m) /\ IsMachine(m) /\ \A g \in Fds : m.fds[g].open = fds[g].open
  BY <1>1, CallFacts
<1> HIDE DEF m, to
<1>3. Same(m, loaded) /\ Same(m, m)
  BY <1>2, WorkSame, SameAsItself
<1>4. Same(m, moved)
  <2> DEFINE sought == [m EXCEPT !.fds[f].fdoffset = to]
  <2>1. Same(m, sought) /\ IsMachine(sought)
    BY <1>2, SeekSame DEF Same
  <2>2. moved = [sought EXCEPT !.work = object.header]
    BY <1>2 DEF IsMachine
  <2> HIDE DEF sought
  <2>3. Same(sought, moved)
    BY <2>1, <2>2, WorkSame
  <2> QED
    BY <2>1, <2>3, SameTwice
<1> HIDE DEF moved, loaded
<1> QED
  BY <1>1, <1>2, <1>3, <1>4, SameStep

LEMMA LseekStep ==
  ASSUME IInv, NEW f \in Fds, NEW offs, Lseek(f, offs)
  PROVE  IInv' /\ Durable
<1> DEFINE m == Flushed(Now, f)
           moved == [m EXCEPT !.fds[f].fdoffset = offs]
<1>1. Calls(f) /\ status' = "mounted" /\ (Becomes(moved) \/ Becomes(m))
  BY DEF Lseek, Calls
<1>2. Sound(m) /\ IsMachine(m) /\ \A g \in Fds : m.fds[g].open = fds[g].open
  BY <1>1, CallFacts
<1> HIDE DEF m
<1>3. Same(m, moved) /\ Same(m, m)
  BY <1>2, SeekSame, SameAsItself
<1> HIDE DEF moved
<1> QED
  BY <1>1, <1>2, <1>3, SameStep

LEMMA FstatStep ==
  ASSUME IInv, NEW f \in Fds, Fstat(f)
  PROVE  IInv' /\ Durable
<1> DEFINE m == Flushed(Now, f)
<1>1. Calls(f) /\ status' = "mounted" /\ Becomes(m)
  BY DEF Fstat, Calls
<1>2. Sound(m) /\ IsMachine(m) /\ \A g \in Fds : m.fds[g].open = fds[g].open
  BY <1>1, CallFacts
<1> HIDE DEF m
<1> QED
  BY <1>1, <1>2, SameAsItself, SameStep

LEMMA CloseStep ==
  ASSUME IInv, NEW f \in Fds, Close(f)
  PROVE  IInv' /\ Durable
<1> DEFINE m == Flushed(Now, f)
           n == ClosedIn(m, f)
<1>1. Calls(f) /\ status' = "mounted" /\ Becomes(n) /\ fds[f].open
  BY DEF Close, Calls
<1>2. /\ Sound(m)
      /\ \A g \in Fds : m.fds[g].open = fds[g].open /\ m.fds[g].obj = fds[g].obj
      /\ \A q \in Pages : m.pages[q].obj # fds[f].obj
  BY <1>1, CallFacts
<1> HIDE DEF m
<1>3. m.fds[f].open /\ \A q \in Pages : m.pages[q].obj # m.fds[f].obj
  BY <1>1, <1>2
<1>4. Sound(n) /\ n.pages = m.pages /\ \A g \in Fds \ {f} : n.fds[g] = m.fds[g]
  BY <1>2, <1>3, ClosedInSound
<1> HIDE DEF n
<1>5. objs' = n.objs /\ fds' = n.fds /\ pages' = n.pages
  BY <1>1 DEF Becomes
<1>6. OwnInv'
  BY <1>4, <1>5 DEF OwnInv, Sound, IsMachine
<1> QED
  BY <1>1, <1>2, <1>4, <1>5, <1>6 DEF IInv, Durable

(* Without "remove pending" no page of the object is left behind.          *)
LEMMA UnlinkStep ==
  ASSUME IInv, "remove pending" \notin Careless, NEW n, Unlink(n)
  PROVE  IInv' /\ Durable
<1> DEFINE i == Min(Named(n))
           gone == OpenFds(Now, i)
           D == DOMAIN objs \ {i}
<1>1. /\ OwnInv /\ status' = "mounted" /\ pages' = pages
      /\ PendingPages(Now, i) = {}
      /\ objs' = Restrict(objs, D)
      /\ fds' = [f \in Fds |-> IF f \in gone THEN [ClosedFd EXCEPT !.page = fds[f].page]
                               ELSE fds[f]]
      /\ i # 0
  BY NamedFacts DEF Unlink, IInv, Careful
<1> HIDE DEF i
<1>2. DOMAIN objs' = D
  BY <1>1 DEF Restrict
<1>3. Ids(D)
  <2>1. IsFiniteSet(DOMAIN objs) /\ D \subseteq DOMAIN objs /\ DOMAIN objs \subseteq Nat \ {0}
    BY <1>1 DEF OwnInv, Ids
  <2> QED
    BY <2>1, FS_Subset DEF Ids
<1>4. /\ gone = {f \in Fds : fds[f].open /\ fds[f].obj = i}
      /\ \A p \in Pages : pages[p].obj # i
  BY <1>1, NowFacts DEF OpenFds, PendingPages
<1>5. Shaped(fds, pages) /\ Owned(DOMAIN objs, fds, pages)
  BY <1>1 DEF OwnInv
<1>6. \A f \in gone : fds[f].page = 0
  BY <1>4, <1>5 DEF Owned, FdOwns
<1>7. \A f \in Fds : /\ DOMAIN fds'[f] = FdFields
                     /\ f \in gone => ~fds'[f].open /\ fds'[f].page = 0
                     /\ f \notin gone => fds'[f] = fds[f]
  <2> TAKE f \in Fds
  <2>1. CASE f \in gone
    BY <1>1, <1>6, <2>1 DEF ClosedFd, FdFields
  <2>2. CASE f \notin gone
    BY <1>1, <1>5, <2>2 DEF Shaped
  <2> QED
    BY <2>1, <2>2
<1> HIDE DEF gone
<1>8. Shaped(fds, pages)'
  BY <1>1, <1>5, <1>7 DEF Shaped
<1>9. \A f \in Fds : FdOwns(fds', pages', f) /\ (fds'[f].open => fds'[f].obj \in D)
  BY <1>1, <1>4, <1>5, <1>7 DEF Owned, FdOwns
<1>10. \A p \in Pages : Watched(fds', pages', p)
  <2> SUFFICES ASSUME NEW p \in Pages, pages'[p].obj # 0
               PROVE  \E f \in Fds : fds'[f].open /\ fds'[f].obj = pages'[p].obj
    BY DEF Watched
  <2>1. PICK f \in Fds : fds[f].open /\ fds[f].obj = pages[p].obj
    BY <1>1, <1>5 DEF Owned, Watched
  <2>2. f \notin gone
    BY <1>4, <2>1
  <2> QED
    BY <1>1, <1>7, <2>1, <2>2
<1>11. OnePageEach(pages')
  BY <1>1, <1>5 DEF Owned
<1>12. OwnInv'
  BY <1>2, <1>3, <1>8, <1>9, <1>10, <1>11 DEF OwnInv, Owned
<1>13. Durable
  BY <1>1, <1>4, <1>7 DEF Durable
<1> QED
  BY <1>1, <1>12, <1>13 DEF IInv

(* SPIFFS_rename writes a header and nothing else.                         *)
LEMMA RenameStep ==
  ASSUME IInv, NEW a, NEW b, Rename(a, b)
  PROVE  IInv' /\ Durable
<1> DEFINE i == Min(Named(a))
           header == [objs[i].header EXCEPT !.name = b]
           size == SizeOf(objs[i].data)
           m == UpdateIndexHdr(Now, i, header, size)
<1>1. Sound(Now) /\ IsMachine(Now) /\ Now.fds = fds /\ Becomes(m) /\ status' = "mounted"
  BY NowFacts DEF Rename, IInv, Sound
<1> HIDE DEF i, header, size
<1>2. Same(Now, m)
  BY <1>1, UpdateIndexHdrSame
<1> HIDE DEF m
<1> QED
  BY <1>1, <1>2, SameStep

(* After a reset or a mount no descriptor is open and no page used.        *)
LEMMA NothingInMemoryStep ==
  ASSUME Ids(DOMAIN objs), UNCHANGED objs, NothingInMemory
  PROVE  OwnInv' /\ \A f \in Fds : ~fds'[f].open
<1>1. /\ DOMAIN fds' = Fds /\ DOMAIN pages' = Pages
      /\ \A f \in Fds : fds'[f] = ClosedFd
      /\ \A p \in Pages : pages'[p] = NoWrite
  BY DEF NothingInMemory
<1>2. DOMAIN ClosedFd = FdFields /\ ~ClosedFd.open /\ ClosedFd.page = 0
  BY DEF ClosedFd, FdFields
<1>3. DOMAIN NoWrite = PageFields /\ NoWrite.obj = 0
  BY DEF NoWrite, PageFields
<1>4. Shaped(fds, pages)'
  BY <1>1, <1>2, <1>3 DEF Shaped
<1>5. Owned(DOMAIN objs, fds, pages)'
  BY <1>1, <1>2, <1>3 DEF Owned, FdOwns, OnePageEach, Watched
<1> QED
  BY <1>1, <1>2, <1>4, <1>5 DEF OwnInv

(* An empty flash, before the first mount.                                 *)
LEMMA InitSound == Init => IInv /\ DOMAIN objs = {}
<1> SUFFICES ASSUME Init PROVE IInv /\ DOMAIN objs = {}
  OBVIOUS
<1>1. /\ DOMAIN fds = Fds /\ DOMAIN pages = Pages /\ objs = <<>>
      /\ \A f \in Fds : fds[f] = ClosedFd
      /\ \A p \in Pages : pages[p] = NoWrite
  BY DEF Init
<1>2. DOMAIN ClosedFd = FdFields /\ ~ClosedFd.open /\ ClosedFd.page = 0
  BY DEF ClosedFd, FdFields
<1>3. DOMAIN NoWrite = PageFields /\ NoWrite.obj = 0
  BY DEF NoWrite, PageFields
<1>4. DOMAIN objs = {} /\ Ids({})
  BY <1>1, FS_EmptySet DEF Ids
<1>5. Shaped(fds, pages)
  BY <1>1, <1>2, <1>3 DEF Shaped
<1>6. Owned(DOMAIN objs, fds, pages)
  BY <1>1, <1>2, <1>3 DEF Owned, FdOwns, OnePageEach, Watched
<1> QED
  BY <1>1, <1>2, <1>4, <1>5, <1>6 DEF IInv, OwnInv

(* Every step but fs_deinit, which flushes one descriptor after the other. *)
LEMMA NextStep ==
  ASSUME IInv, "remove pending" \notin Careless, [Next]_vars, status' # "deinit"
  PROVE  IInv' /\ Durable
<1>1. ASSUME NEW n, NEW modes, CreateFile(n, modes) PROVE IInv' /\ Durable
  BY <1>1, CreateFileStep
<1>2. ASSUME NEW n, NEW modes, NEW trunc, OpenFile(n, modes, trunc) PROVE IInv' /\ Durable
  BY <1>2, OpenFileStep
<1>3. ASSUME NEW f \in Fds, NEW b, Write(f, b) PROVE IInv' /\ Durable
  BY <1>3, WriteStep
<1>4. ASSUME NEW f \in Fds, NEW len, Read(f, len) PROVE IInv' /\ Durable
  BY <1>4, ReadStep
<1>5. ASSUME NEW f \in Fds, NEW offs, Lseek(f, offs) PROVE IInv' /\ Durable
  BY <1>5, LseekStep
<1>6. ASSUME NEW f \in Fds, Fstat(f) PROVE IInv' /\ Durable
  BY <1>6, FstatStep
<1>7. ASSUME NEW f \in Fds, Close(f) PROVE IInv' /\ Durable
  BY <1>7, CloseStep
<1>8. ASSUME NEW n, Unlink(n) PROVE IInv' /\ Durable
  BY <1>8, UnlinkStep
<1>9. ASSUME NEW a, NEW b, Rename(a, b) PROVE IInv' /\ Durable
  BY <1>9, RenameStep
<1>10. CASE Mount
  <2>1. OwnInv' /\ \A f \in Fds : ~fds[f].open
    BY <1>10, NothingInMemoryStep DEF Mount, IInv, OwnInv
  <2> QED
    BY <1>10, <2>1 DEF Mount, IInv, Durable
<1>11. CASE PowerLoss
  <2>1. OwnInv' /\ \A f \in Fds : ~fds'[f].open
    BY <1>11, NothingInMemoryStep DEF PowerLoss, IInv, OwnInv
  <2> QED
    BY <1>11, <2>1 DEF PowerLoss, IInv, Durable
<1>12. ~Unmount
  BY DEF Unmount
<1>13. CASE UNCHANGED vars
  BY <1>13 DEF vars, IInv, OwnInv, Shaped, Owned, FdOwns, OnePageEach, Watched, Durable
<1> QED
  BY <1>1, <1>2, <1>3, <1>4, <1>5, <1>6, <1>7, <1>8, <1>9, <1>10, <1>11, <1>12, <1>13
     DEF Next

-----------------------------------------------------------------------------
(* With fewer descriptors than pages one page is idle: each page in use    *)
(* would need a descriptor, and no two pages the same one.                 *)
LEMMA SomePageIdle ==
  ASSUME OwnInv
  PROVE  PendingPages(Now, 0) # {}
<1> SUFFICES ASSUME PendingPages(Now, 0) = {} PROVE FALSE
  OBVIOUS
<1>1. OnePageEach(pages) /\ \A p \in Pages : Watched(fds, pages, p)
  BY DEF OwnInv, Owned
<1>2. \A p \in Pages : pages[p].obj # 0
  BY NowFacts DEF PendingPages
<1> DEFINE w == [p \in Pages |-> CHOOSE f \in Fds : fds[f].obj = pages[p].obj]
<1>3. \A p \in Pages : w[p] \in Fds /\ fds[w[p]].obj = pages[p].obj
  <2> TAKE p \in Pages
  <2>1. \E f \in Fds : fds[f].obj = pages[p].obj
    BY <1>1, <1>2 DEF Watched
  <2> QED
    BY <2>1
<1> HIDE DEF w
<1>4. w \in [Pages -> Fds]
  BY <1>3 DEF w
<1>5. \A p, q \in Pages : w[p] = w[q] => p = q
  BY <1>1, <1>2, <1>3 DEF OnePageEach
<1>6. CachePages \in Nat /\ FdCount \in Nat /\ FdCount < CachePages
  BY SizesAssumption
<1>7. /\ IsFiniteSet(Pages) /\ Cardinality(Pages) = CachePages
      /\ IsFiniteSet(Fds) /\ Cardinality(Fds) = FdCount
  <2>1. \A k \in Nat : IsFiniteSet(1..k) /\ Cardinality(1..k) = k
    <3> TAKE k \in Nat
    <3>1. IsFiniteSet(1..k) /\ Cardinality(1..k) = IF 1 > k THEN 0 ELSE k - 1 + 1
      BY FS_Interval
    <3> QED
      BY <3>1
  <2> QED
    BY <1>6, <2>1 DEF Pages, Fds
<1>8. \E p, q \in Pages : p # q /\ w[p] = w[q]
  BY <1>4, <1>6, <1>7, FS_PigeonHole
<1> QED
  BY <1>5, <1>8

(* A set whose elements are all the same has at most one.                  *)
LEMMA AtMostOne ==
  ASSUME NEW S, \A x, y \in S : x = y
  PROVE  Cardinality(S) <= 1
<1>1. CASE S = {}
  BY <1>1, FS_EmptySet
<1>2. CASE S # {}
  <2>1. PICK x \in S : S = {x}
    BY <1>2
  <2> QED
    BY <2>1, FS_Singleton
<1> QED
  BY <1>1, <1>2

(* The invariant implies what the run checks.                              *)
LEMMA OwnedPages == IInv => PagesOwned
<1> SUFFICES ASSUME IInv PROVE PagesOwned
  OBVIOUS
<1>1. OwnInv /\ Owned(DOMAIN objs, fds, pages) /\ Ids(DOMAIN objs)
  BY DEF IInv, OwnInv
<1>2. \A f \in Fds : fds[f].page # 0 => fds[f].open /\ pages[fds[f].page].obj = fds[f].obj
  BY <1>1 DEF Owned, FdOwns
<1>3. ASSUME NEW i \in DOMAIN objs
      PROVE  Cardinality(PendingPages(Now, i)) <= (IF OpenFds(Now, i) = {} THEN 0 ELSE 1)
  <2> DEFINE S == PendingPages(Now, i)
  <2>1. S = {p \in Pages : pages[p].obj = i}
    BY NowFacts DEF PendingPages
  <2>2. OpenFds(Now, i) = {f \in Fds : fds[f].open /\ fds[f].obj = i}
    BY NowFacts DEF OpenFds
  <2> HIDE DEF S
  <2>3. i # 0
    BY <1>1 DEF Ids
  <2>4. \A p, q \in S : p = q
    BY <1>1, <2>1, <2>3 DEF Owned, OnePageEach
  <2>5. Cardinality(S) <= 1
    BY <2>4, AtMostOne
  <2>6. CASE OpenFds(Now, i) = {}
    <3>1. S = {}
      BY <1>1, <2>1, <2>2, <2>3, <2>6 DEF Owned, Watched
    <3> QED
      BY <2>6, <3>1, FS_EmptySet DEF S
  <2> QED
    BY <2>5, <2>6 DEF S
<1>4. \A p \in Pages : pages[p].obj \in DOMAIN objs \cup {0}
  BY <1>1 DEF Owned, Watched
<1>5. PendingPages(Now, 0) # {}
  BY <1>1, SomePageIdle
<1> QED
  BY <1>2, <1>3, <1>4, <1>5 DEF PagesOwned

-----------------------------------------------------------------------------
(* fs_deinit is left out: nothing calls it.                                *)
NoDeinit == status # "deinit"

(* As long as no program removes a file with bytes pending, a page of the  *)
(* cache belongs to the descriptors of one object, no object has two, none *)
(* is without a descriptor to flush it, and one is left to read through.   *)
THEOREM PagesAlwaysOwned ==
  ASSUME "remove pending" \notin Careless
  PROVE  Spec /\ []NoDeinit => []PagesOwned
<1>1. Init => IInv
  BY InitSound
<1>2. IInv /\ [Next]_vars /\ NoDeinit' => IInv'
  BY NextStep DEF NoDeinit
<1>3. IInv => PagesOwned
  BY OwnedPages
<1> QED
  BY <1>1, <1>2, <1>3, PTL DEF Spec

(* Closing a descriptor takes the bytes of its object to the flash,        *)
(* whichever of its descriptors wrote them.                                *)
THEOREM CloseAlwaysDurable ==
  ASSUME "remove pending" \notin Careless
  PROVE  Spec /\ []NoDeinit => CloseIsDurable
<1>1. Init => IInv
  BY InitSound
<1>2. IInv /\ [Next]_vars /\ NoDeinit' => IInv' /\ [Durable]_vars
  BY NextStep DEF NoDeinit
<1>3. Spec /\ []NoDeinit => [][Durable]_vars
  BY <1>1, <1>2, PTL DEF Spec
<1> QED
  BY <1>3 DEF CloseIsDurable, Durable

-----------------------------------------------------------------------------
(* The size that every descriptor remembers is that of its object.         *)

(* The invariant.  What is written at an offset keeps within the longest   *)
(* file, so UndefinedLen stands for no size that a file can have; pages    *)
(* are part of it because any call may flush them.                         *)
ObjSized(o) ==
  DOMAIN o = {"header", "data"} /\ o.data \in Seq(Bytes) /\ Len(o.data) <= MaxSize

PageSized(pg) ==
  pg.offset \in Nat /\ pg.data \in Seq(Bytes) /\ pg.offset + Len(pg.data) <= MaxSize

Agrees(d, size) == size \in (IF d = <<>> THEN {0, UndefinedLen} ELSE {Len(d)})

FdTyped(fd) == fd.size \in Nat /\ fd.fdoffset \in Nat

FdAgrees(os, fd) == fd.open => Agrees(os[fd.obj].data, fd.size)

(* All but the descriptors of one object: what holds between the write of  *)
(* its bytes and the event that tells them.                                *)
AlmostSized(m, i) ==
  /\ \A o \in DOMAIN m.objs : ObjSized(m.objs[o])
  /\ \A p \in Pages : PageSized(m.pages[p])
  /\ \A f \in Fds : FdTyped(m.fds[f]) /\ (m.fds[f].obj # i => FdAgrees(m.objs, m.fds[f]))

Sized(m) ==
  /\ \A o \in DOMAIN m.objs : ObjSized(m.objs[o])
  /\ \A p \in Pages : PageSized(m.pages[p])
  /\ \A f \in Fds : FdTyped(m.fds[f]) /\ FdAgrees(m.objs, m.fds[f])

LEMMA SizesFacts ==
  MaxSize \in Nat /\ UndefinedLen \in Nat /\ UndefinedLen > MaxSize
BY SizesAssumption DEF UndefinedLen

-----------------------------------------------------------------------------
(* Bytes written over a sequence, from an offset within it or at its end.  *)
LEMMA OverwrittenFacts ==
  ASSUME NEW d \in Seq(Bytes), NEW off \in 0..Len(d), NEW b \in Seq(Bytes)
  PROVE  /\ Overwritten(d, off, b) \in Seq(Bytes)
         /\ off + Len(b) <= Len(d) => Len(Overwritten(d, off, b)) = Len(d)
         /\ Len(d) <= off + Len(b) => Len(Overwritten(d, off, b)) = off + Len(b)
<1> DEFINE x == SubSeq(d, 1, off)
           k == off + Len(b) + 1
           z == SubSeq(d, k, Len(d))
<1>1. Len(d) \in Nat /\ Len(b) \in Nat /\ off \in Nat /\ off <= Len(d)
  BY LenProperties
<1>2. x \in Seq(Bytes) /\ Len(x) = off
  <2>1. \A j \in 1..off : d[j] \in Bytes
    BY <1>1, ElementOfSeq
  <2> QED
    BY <1>1, <2>1, SubSeqProperties
<1>3. z \in Seq(Bytes) /\ Len(z) = (IF k <= Len(d) THEN Len(d) - k + 1 ELSE 0)
  <2>1. k \in Nat /\ k >= 1
    BY <1>1
  <2>2. \A j \in k..Len(d) : d[j] \in Bytes
    BY <1>1, <2>1, ElementOfSeq
  <2> HIDE DEF k
  <2> QED
    BY <1>1, <2>1, <2>2, SubSeqProperties
<1> HIDE DEF x, z
<1>4. x \o b \in Seq(Bytes) /\ Len(x \o b) = off + Len(b)
  BY <1>2, ConcatProperties
<1>5. (x \o b) \o z \in Seq(Bytes) /\ Len((x \o b) \o z) = Len(x \o b) + Len(z)
  BY <1>3, <1>4, ConcatProperties
<1>6. Overwritten(d, off, b) = (x \o b) \o z
  BY DEF Overwritten, x, z
<1> QED
  BY <1>1, <1>3, <1>4, <1>5, <1>6

(* The smaller of two numbers.                                             *)
LEMMA MinOfTwo ==
  ASSUME NEW a \in Nat, NEW b \in Nat
  PROVE  Min({a, b}) = IF a <= b THEN a ELSE b
<1> DEFINE m == IF a <= b THEN a ELSE b
<1>1. Min({a, b}) \in {a, b}
  BY MinIsElement
<1>2. \A y \in {a, b} : Min({a, b}) <= y
  <2>1. \E x \in {a, b} : \A y \in {a, b} : x <= y
    BY m \in {a, b}
  <2> QED
    BY <2>1 DEF Min
<1> QED
  BY <1>1, <1>2

LEMMA MaxOfTwo ==
  ASSUME NEW a \in Nat, NEW b \in Nat
  PROVE  Max({a, b}) \in Nat
<1>1. \E x \in {a, b} : \A y \in {a, b} : x >= y
  <2>1. CASE a <= b
    BY <2>1
  <2>2. CASE b <= a
    BY <2>2
  <2> QED
    BY <2>1, <2>2
<1>2. Max({a, b}) \in {a, b}
  BY <1>1 DEF Max
<1> QED
  BY <1>2

-----------------------------------------------------------------------------
(* The helpers on objects.                                                 *)

(* Sizes are read from objects, pages and these fields of descriptors.     *)
SameSizes(m, n) ==
  /\ n.objs = m.objs /\ n.pages = m.pages
  /\ \A f \in Fds : /\ n.fds[f].size = m.fds[f].size
                    /\ n.fds[f].fdoffset = m.fds[f].fdoffset
                    /\ n.fds[f].open = m.fds[f].open
                    /\ n.fds[f].obj = m.fds[f].obj

LEMMA SameSizesSized ==
  ASSUME NEW m, NEW n, Sized(m), SameSizes(m, n)
  PROVE  Sized(n)
BY DEF Sized, SameSizes, FdTyped, FdAgrees

(* The event gives every descriptor of the object the size it has now.     *)
LEMMA ObjectEventSized ==
  ASSUME NEW m, IsMachine(m), NEW i \in DOMAIN m.objs, NEW size \in Nat,
         AlmostSized(m, i), Agrees(m.objs[i].data, size)
  PROVE  Sized(ObjectEvent(m, i, size))
<1> DEFINE n == ObjectEvent(m, i, size)
<1>1. /\ n.objs = m.objs /\ n.pages = m.pages
      /\ n.fds = [f \in Fds |->
           IF f \in OpenFds(m, i) THEN [m.fds[f] EXCEPT !.size = size] ELSE m.fds[f]]
  BY DEF IsMachine, ObjectEvent
<1>2. ASSUME NEW f \in Fds
      PROVE  FdTyped(n.fds[f]) /\ FdAgrees(n.objs, n.fds[f])
  <2>1. DOMAIN m.fds[f] = FdFields /\ FdTyped(m.fds[f])
    BY DEF IsMachine, Shaped, AlmostSized
  <2>2. f \in OpenFds(m, i) <=> m.fds[f].open /\ m.fds[f].obj = i
    BY DEF OpenFds
  <2>3. CASE f \in OpenFds(m, i)
    <3>1. n.fds[f] = [m.fds[f] EXCEPT !.size = size]
      BY <1>1, <2>3
    <3> HIDE DEF n
    <3>2. /\ n.fds[f].size = size /\ n.fds[f].fdoffset = m.fds[f].fdoffset
          /\ n.fds[f].obj = i
      BY <2>1, <2>2, <2>3, <3>1 DEF FdFields
    <3> QED
      BY <1>1, <2>1, <3>2 DEF FdTyped, FdAgrees
  <2>4. CASE f \notin OpenFds(m, i)
    <3>1. n.fds[f] = m.fds[f]
      BY <1>1, <2>4
    <3> HIDE DEF n
    <3>2. FdAgrees(m.objs, m.fds[f])
      BY <2>2, <2>4 DEF AlmostSized, FdAgrees
    <3> QED
      BY <1>1, <2>1, <3>1, <3>2
  <2> QED
    BY <2>3, <2>4
<1> HIDE DEF n
<1>3. Sized(n)
  BY <1>1, <1>2 DEF Sized, AlmostSized
<1> QED
  BY <1>3 DEF n

LEMMA UpdateIndexHdrSized ==
  ASSUME NEW m, IsMachine(m), NEW i \in DOMAIN m.objs, NEW header, NEW size \in Nat,
         AlmostSized(m, i), Agrees(m.objs[i].data, size)
  PROVE  Sized(UpdateIndexHdr(m, i, header, size))
<1> DEFINE n == [m EXCEPT !.objs[i].header = header, !.work = header]
<1>1. IsMachine(n)
  BY DEF IsMachine
<1>2. /\ n.fds = m.fds /\ n.pages = m.pages
      /\ n.objs = [m.objs EXCEPT ![i].header = header]
  BY DEF IsMachine
<1>3. /\ DOMAIN n.objs = DOMAIN m.objs
      /\ n.objs[i] = [m.objs[i] EXCEPT !.header = header]
      /\ \A o \in DOMAIN m.objs \ {i} : n.objs[o] = m.objs[o]
  BY <1>2
<1> HIDE DEF n
<1>4. ObjSized(n.objs[i]) /\ n.objs[i].data = m.objs[i].data
  <2>1. ObjSized(m.objs[i])
    BY DEF AlmostSized
  <2> QED
    BY <1>3, <2>1 DEF ObjSized
<1>5. AlmostSized(n, i)
  <2>1. \A o \in DOMAIN n.objs : ObjSized(n.objs[o])
    BY <1>3, <1>4 DEF AlmostSized
  <2>2. ASSUME NEW f \in Fds, m.fds[f].obj # i, FdAgrees(m.objs, m.fds[f])
        PROVE  FdAgrees(n.objs, m.fds[f])
    <3>1. CASE m.fds[f].obj \in DOMAIN m.objs
      BY <1>3, <2>2, <3>1 DEF FdAgrees
    <3>2. CASE m.fds[f].obj \notin DOMAIN m.objs
      BY <1>2, <2>2, <3>2 DEF FdAgrees
    <3> QED
      BY <3>1, <3>2
  <2> QED
    BY <1>2, <2>1, <2>2 DEF AlmostSized
<1>6. Sized(ObjectEvent(n, i, size))
  BY <1>1, <1>3, <1>4, <1>5, ObjectEventSized
<1> QED
  BY <1>6 DEF UpdateIndexHdr, n

(* New bytes for an object: the others and their descriptors are as before.*)
LEMMA BytesWritten ==
  ASSUME NEW m, IsMachine(m), Sized(m), NEW i \in DOMAIN m.objs,
         NEW d \in Seq(Bytes), Len(d) <= MaxSize,
         NEW n, n = [m EXCEPT !.objs[i].data = d]
  PROVE  /\ IsMachine(n) /\ AlmostSized(n, i)
         /\ DOMAIN n.objs = DOMAIN m.objs /\ n.objs[i].data = d
         /\ n.objs[i].header = m.objs[i].header
         /\ n.fds = m.fds /\ n.pages = m.pages
<1>1. /\ DOMAIN n = DOMAIN m /\ n.fds = m.fds /\ n.pages = m.pages
      /\ n.objs = [m.objs EXCEPT ![i].data = d]
  BY DEF IsMachine
<1>2. /\ DOMAIN n.objs = DOMAIN m.objs
      /\ n.objs[i] = [m.objs[i] EXCEPT !.data = d]
      /\ \A o \in DOMAIN m.objs \ {i} : n.objs[o] = m.objs[o]
  BY <1>1
<1>3. DOMAIN m.objs[i] = {"header", "data"}
  BY DEF Sized, ObjSized
<1>4. /\ DOMAIN n.objs[i] = {"header", "data"} /\ n.objs[i].data = d
      /\ n.objs[i].header = m.objs[i].header
  BY <1>2, <1>3
<1>5. ObjSized(n.objs[i])
  BY <1>4 DEF ObjSized
<1>6. ASSUME NEW f \in Fds, m.fds[f].obj # i
      PROVE  FdAgrees(n.objs, n.fds[f])
  <2>1. FdAgrees(m.objs, m.fds[f])
    BY DEF Sized
  <2>2. CASE m.fds[f].obj \in DOMAIN m.objs
    BY <1>1, <1>2, <1>6, <2>1, <2>2 DEF FdAgrees
  <2>3. CASE m.fds[f].obj \notin DOMAIN m.objs
    BY <1>1, <1>6, <2>1, <2>3 DEF FdAgrees
  <2> QED
    BY <2>2, <2>3
<1>7. AlmostSized(n, i)
  BY <1>1, <1>2, <1>5, <1>6 DEF Sized, AlmostSized
<1> QED
  BY <1>1, <1>2, <1>4, <1>7 DEF IsMachine

(* An object's size changes no more when its bytes are overwritten.        *)
LEMMA AgreeingSized ==
  ASSUME NEW m, NEW i \in DOMAIN m.objs, AlmostSized(m, i),
         \A f \in Fds : m.fds[f].obj = i => FdAgrees(m.objs, m.fds[f])
  PROVE  Sized(m)
BY DEF AlmostSized, Sized

LEMMA ObjectModifySized ==
  ASSUME NEW m, IsMachine(m), Sized(m), NEW i \in DOMAIN m.objs,
         NEW off \in Nat, NEW b \in Seq(Bytes), off + Len(b) <= Len(m.objs[i].data)
  PROVE  LET n == ObjectModify(m, i, off, b)
         IN /\ Sized(n) /\ n.fds = m.fds /\ DOMAIN n.objs = DOMAIN m.objs
            /\ Len(n.objs[i].data) = Len(m.objs[i].data)
<1> DEFINE d == m.objs[i].data
           e == Overwritten(d, off, b)
           w == [m EXCEPT !.objs[i].data = e]
           n == ObjectModify(m, i, off, b)
<1>1. d \in Seq(Bytes) /\ Len(d) <= MaxSize /\ Len(d) \in Nat /\ Len(b) \in Nat
  BY LenProperties DEF Sized, ObjSized
<1>2. off \in 0..Len(d)
  BY <1>1
<1>3. e \in Seq(Bytes) /\ Len(e) = Len(d)
  BY <1>1, <1>2, OverwrittenFacts
<1>4. n = [w EXCEPT !.work = m.objs[i].header]
  BY DEF ObjectModify, IsMachine
<1> HIDE DEF e
<1>5. /\ IsMachine(w) /\ AlmostSized(w, i) /\ DOMAIN w.objs = DOMAIN m.objs
      /\ w.objs[i].data = e /\ w.fds = m.fds /\ w.pages = m.pages
  BY <1>1, <1>3, BytesWritten
<1> HIDE DEF w, d
<1>6. ASSUME NEW f \in Fds, w.fds[f].obj = i PROVE FdAgrees(w.objs, w.fds[f])
  <2>1. FdAgrees(m.objs, m.fds[f])
    BY DEF Sized
  <2>2. d = <<>> <=> e = <<>>
    BY <1>1, <1>3, EmptySeq
  <2> QED
    BY <1>3, <1>5, <1>6, <2>1, <2>2 DEF FdAgrees, Agrees, d
<1>7. Sized(w)
  BY <1>5, <1>6, AgreeingSized
<1>8. n.objs = w.objs /\ n.fds = w.fds /\ n.pages = w.pages
  BY <1>4, <1>5 DEF IsMachine
<1> HIDE DEF n
<1>9. Sized(n)
  BY <1>7, <1>8, SameSizesSized DEF SameSizes
<1> QED
  BY <1>3, <1>5, <1>8, <1>9 DEF n, d

(* What is appended starts at the end of the object, or it is empty.       *)
LEMMA ObjectAppendSized ==
  ASSUME NEW m, IsMachine(m), Sized(m), NEW f \in Fds, m.fds[f].open,
         m.fds[f].obj \in DOMAIN m.objs,
         NEW off \in Nat, NEW b \in Seq(Bytes), off + Len(b) <= MaxSize,
         m.fds[f].size = UndefinedLen \/ off >= m.fds[f].size
  PROVE  Sized(ObjectAppend(m, f, off, b))
<1> DEFINE i == m.fds[f].obj
           size == m.fds[f].size
           at == Min({off, size})
           d == m.objs[i].data
           e == Overwritten(d, at, b)
           w == [m EXCEPT !.objs[i].data = e]
           refused == [m EXCEPT !.work = m.objs[i].header, !.ok = FALSE]
<1>1. d \in Seq(Bytes) /\ Len(d) <= MaxSize /\ Len(d) \in Nat /\ Len(b) \in Nat
  BY LenProperties DEF Sized, ObjSized
<1>2. size \in Nat /\ Agrees(d, size)
  BY DEF Sized, FdTyped, FdAgrees
<1>3. at = IF off <= size THEN off ELSE size
  BY <1>2, MinOfTwo
<1>4. CASE size = UndefinedLen /\ at > 0
  <2>1. ObjectAppend(m, f, off, b) = refused
    BY <1>4 DEF ObjectAppend
  <2>2. refused.objs = m.objs /\ refused.fds = m.fds /\ refused.pages = m.pages
    BY DEF IsMachine
  <2> HIDE DEF refused
  <2> QED
    BY <2>1, <2>2, SameSizesSized DEF SameSizes
<1>5. CASE ~(size = UndefinedLen /\ at > 0)
  <2>1. at = Len(d) /\ at + Len(b) <= MaxSize
    <3>1. CASE d = <<>>
      <4>1. Len(d) = 0 /\ size \in {0, UndefinedLen}
        BY <1>2, <3>1 DEF Agrees
      <4> QED
        BY <1>1, <1>2, <1>3, <1>5, <4>1, SizesFacts
    <3>2. CASE d # <<>>
      <4>1. size = Len(d)
        BY <1>2, <3>2 DEF Agrees
      <4>2. size < UndefinedLen
        BY <1>1, <4>1, SizesFacts
      <4>3. off >= size
        BY <1>2, <4>2, SizesFacts
      <4> HIDE DEF at, size, d
      <4> QED
        BY <1>1, <1>2, <1>3, <4>1, <4>3, SizesFacts
    <3> QED
      BY <3>1, <3>2
  <2>2. ObjectAppend(m, f, off, b) = UpdateIndexHdr(w, i, m.objs[i].header, at + Len(b))
    BY <1>5 DEF ObjectAppend
  <2> HIDE DEF at, size, d
  <2>3. at \in 0..Len(d) /\ e \in Seq(Bytes) /\ Len(e) = at + Len(b)
    <3>1. at \in 0..Len(d) /\ Len(d) <= at + Len(b)
      BY <1>1, <2>1
    <3> QED
      BY <1>1, <3>1, OverwrittenFacts
  <2> HIDE DEF e
  <2>4. IsMachine(w) /\ AlmostSized(w, i) /\ DOMAIN w.objs = DOMAIN m.objs /\ w.objs[i].data = e
    <3>1. i \in DOMAIN m.objs /\ Len(e) <= MaxSize
      BY <2>1, <2>3
    <3> HIDE DEF i
    <3>2. w = [m EXCEPT !.objs[i].data = e]
      OBVIOUS
    <3> HIDE DEF w
    <3> QED
      BY <2>3, <3>1, <3>2, BytesWritten
  <2>5. at + Len(b) \in Nat /\ Agrees(e, at + Len(b))
    <3>1. e = <<>> => at + Len(b) = 0
      BY <2>3
    <3> QED
      BY <1>1, <2>1, <2>3, <3>1 DEF Agrees
  <2> HIDE DEF w, i
  <2>6. i \in DOMAIN w.objs
    BY <2>4 DEF i
  <2>7. Sized(UpdateIndexHdr(w, i, m.objs[i].header, at + Len(b)))
    BY <2>4, <2>5, <2>6, UpdateIndexHdrSized
  <2> QED
    BY <2>2, <2>7
<1> QED
  BY <1>4, <1>5

(* The part inside the object overwrites, the rest appends at its end.     *)
LEMMA HydroWriteSized ==
  ASSUME NEW m, IsMachine(m), Sized(m), NEW f \in Fds, m.fds[f].open,
         m.fds[f].obj \in DOMAIN m.objs,
         NEW off \in Nat, NEW b \in Seq(Bytes), off + Len(b) <= MaxSize
  PROVE  Sized(HydroWrite(m, f, off, b))
<1> DEFINE i == m.fds[f].obj
           size == m.fds[f].size
           inside == IF size = UndefinedLen \/ off >= size THEN 0
                     ELSE Min({size - off, Len(b)})
           part == SubSeq(b, 1, inside)
           rest == SubSeq(b, inside + 1, Len(b))
           modified == ObjectModify(m, i, off, part)
           d == m.objs[i].data
<1>1. /\ size \in Nat /\ Agrees(d, size) /\ Len(b) \in Nat
      /\ d \in Seq(Bytes) /\ Len(d) \in Nat
  BY LenProperties DEF Sized, FdTyped, FdAgrees, ObjSized
<1>2. CASE inside = 0
  <2>1. HydroWrite(m, f, off, b) = IF Len(b) = 0 THEN m ELSE ObjectAppend(m, f, off + 0, SubSeq(b, 0 + 1, Len(b)))
    BY <1>2 DEF HydroWrite
  <2>2. SubSeq(b, 0 + 1, Len(b)) = b /\ off + 0 = off
    BY <1>1, SubSeqFull
  <2>3. Len(b) # 0 => size = UndefinedLen \/ off >= size
    <3>1. off < size => size - off \in Nat /\ size - off > 0
      BY <1>1
    <3>2. CASE size # UndefinedLen /\ off < size
      <4>1. inside = Min({size - off, Len(b)})
        BY <1>1, <3>2
      <4>2. inside = IF size - off <= Len(b) THEN size - off ELSE Len(b)
        BY <1>1, <3>1, <3>2, <4>1, MinOfTwo
      <4> QED
        BY <1>2, <3>1, <3>2, <4>2
    <3> QED
      BY <1>1, <3>2
  <2>4. Len(b) # 0 => Sized(ObjectAppend(m, f, off, b))
    BY <2>3, ObjectAppendSized
  <2> QED
    BY <2>1, <2>2, <2>4
<1>3. CASE inside # 0
  <2>1. off < size /\ size # UndefinedLen /\ inside = Min({size - off, Len(b)})
    BY <1>1, <1>3
  <2>2. /\ inside = IF size - off <= Len(b) THEN size - off ELSE Len(b)
        /\ inside \in Nat /\ inside <= Len(b) /\ off + inside <= size
        /\ inside # Len(b) => off + inside = size
    <3>1. size - off \in Nat
      BY <1>1, <2>1
    <3>2. Min({size - off, Len(b)}) = IF size - off <= Len(b) THEN size - off ELSE Len(b)
      BY <1>1, <3>1, MinOfTwo
    <3> QED
      BY <1>1, <2>1, <3>1, <3>2
  <2>3. size = Len(d)
    BY <1>1, <2>1 DEF Agrees
  <2>4. HydroWrite(m, f, off, b)
          = IF inside = Len(b) THEN modified ELSE ObjectAppend(modified, f, off + inside, rest)
    BY <1>3 DEF HydroWrite
  <2> HIDE DEF inside
  <2>5. part \in Seq(Bytes) /\ Len(part) = inside
    <3>1. \A j \in 1..inside : b[j] \in Bytes
      BY <1>1, <2>2, ElementOfSeq
    <3> QED
      BY <1>3, <2>2, <3>1, SubSeqProperties
  <2>6. rest \in Seq(Bytes) /\ Len(rest) = Len(b) - inside
    <3>1. \A j \in (inside + 1)..Len(b) : b[j] \in Bytes
      BY <1>1, <2>2, ElementOfSeq
    <3>2. inside + 1 \in Int /\ Len(b) \in Int
      BY <1>1, <2>2
    <3>3. /\ rest \in Seq(Bytes)
          /\ Len(rest) = (IF inside + 1 <= Len(b) THEN Len(b) - (inside + 1) + 1 ELSE 0)
      BY <3>1, <3>2, SubSeqProperties
    <3>4. inside \in Nat /\ inside <= Len(b) /\ Len(b) \in Nat
      BY <1>1, <2>2
    <3> HIDE DEF rest
    <3> QED
      BY <3>3, <3>4
  <2> HIDE DEF part, rest, size
  <2>7. i \in DOMAIN m.objs /\ off + Len(part) <= Len(m.objs[i].data)
    BY <1>1, <2>2, <2>3, <2>5
  <2> HIDE DEF i, d
  <2>8. Sized(modified) /\ modified.fds = m.fds /\ DOMAIN modified.objs = DOMAIN m.objs
    BY <2>5, <2>7, ObjectModifySized
  <2>9. IsMachine(modified)
    BY ObjectModifySame DEF Same
  <2> HIDE DEF modified
  <2>10. inside # Len(b) => Sized(ObjectAppend(modified, f, off + inside, rest))
    <3> SUFFICES ASSUME inside # Len(b)
                 PROVE  Sized(ObjectAppend(modified, f, off + inside, rest))
      OBVIOUS
    <3>1. off + inside \in Nat /\ off + inside + Len(rest) <= MaxSize
      BY <1>1, <2>2, <2>6, SizesFacts
    <3>2. off + inside >= modified.fds[f].size
      BY <1>1, <2>2, <2>8 DEF size
    <3>3. modified.fds[f].open /\ modified.fds[f].obj \in DOMAIN modified.objs
      BY <2>8
    <3> QED
      BY <2>6, <2>8, <2>9, <3>1, <3>2, <3>3, ObjectAppendSized
  <2> QED
    BY <2>4, <2>8, <2>10
<1> QED
  BY <1>2, <1>3

-----------------------------------------------------------------------------
(* Pages.                                                                  *)
LEMMA NoWriteSized == PageSized(NoWrite)
<1>1. NoWrite.offset = 0 /\ NoWrite.data = <<>> /\ <<>> \in Seq(Bytes) /\ Len(<<>>) = 0
  BY DEF NoWrite
<1> QED
  BY <1>1, SizesFacts DEF PageSized

LEMMA FdReleaseSized ==
  ASSUME NEW m, IsMachine(m), Sized(m), NEW p \in Pages
  PROVE  Sized(FdRelease(m, p))
<1> DEFINE n == FdRelease(m, p)
<1>1. /\ n.objs = m.objs /\ n.pages = [m.pages EXCEPT ![p] = NoWrite]
      /\ n.fds = [f \in Fds |-> IF m.fds[f].open /\ m.fds[f].page = p
                                THEN [m.fds[f] EXCEPT !.page = 0] ELSE m.fds[f]]
  BY DEF FdRelease, IsMachine
<1> HIDE DEF n
<1>2. ASSUME NEW q \in Pages PROVE PageSized(n.pages[q])
  BY <1>1, NoWriteSized DEF Sized, IsMachine, Shaped
<1>3. ASSUME NEW f \in Fds
      PROVE  /\ n.fds[f].size = m.fds[f].size /\ n.fds[f].fdoffset = m.fds[f].fdoffset
             /\ n.fds[f].open = m.fds[f].open /\ n.fds[f].obj = m.fds[f].obj
  <2>1. DOMAIN m.fds[f] = FdFields
    BY DEF IsMachine, Shaped
  <2>2. n.fds[f] = m.fds[f] \/ n.fds[f] = [m.fds[f] EXCEPT !.page = 0]
    BY <1>1
  <2> QED
    BY <2>1, <2>2 DEF FdFields
<1>4. Sized(n)
  BY <1>1, <1>2, <1>3 DEF Sized, FdTyped, FdAgrees
<1> QED
  BY <1>4 DEF n

(* A page goes to the flash through a descriptor of its object.            *)
LEMMA WriteBackSized ==
  ASSUME NEW m, Sound(m), Sized(m), NEW f \in Fds, m.fds[f].open, NEW p \in Pages
  PROVE  Sized(WriteBack(m, f, p))
<1> DEFINE off == m.pages[p].offset
           b == m.pages[p].data
           w == HydroWrite(m, f, off, b)
<1>1. IsMachine(m) /\ m.fds[f].obj \in DOMAIN m.objs
  BY DEF Sound, Owned
<1>2. off \in Nat /\ b \in Seq(Bytes) /\ off + Len(b) <= MaxSize
  BY DEF Sized, PageSized
<1> HIDE DEF off, b
<1>3. Sized(w) /\ IsMachine(w)
  BY <1>1, <1>2, HydroWriteSized, HydroWriteSame DEF Same
<1> HIDE DEF w
<1>4. Sized(FdRelease(w, p))
  BY <1>3, FdReleaseSized
<1> QED
  BY <1>4 DEF WriteBack, w, off, b

LEMMA FlushedSized ==
  ASSUME NEW m, Sound(m), Sized(m), NEW f \in Fds, m.fds[f].open
  PROVE  Sized(Flushed(m, f))
<1> DEFINE p == CachePage(m, f)
<1>1. p # 0 => p \in Pages
  BY CachePageFacts
<1>2. Flushed(m, f) = IF p = 0 THEN m ELSE WriteBack(m, f, p)
  BY DEF Flushed
<1> HIDE DEF p
<1> QED
  BY <1>1, <1>2, WriteBackSized

(* Bytes are put into a page, and a descriptor told which one.             *)
LEMMA PagePutSized ==
  ASSUME NEW m, IsMachine(m), Sized(m), NEW p \in Pages, NEW f \in Fds,
         NEW n, NEW pg, PageSized(pg), n.objs = m.objs,
         n.pages = [m.pages EXCEPT ![p] = pg], n.fds = [m.fds EXCEPT ![f].page = p]
  PROVE  Sized(n)
<1>1. ASSUME NEW q \in Pages PROVE PageSized(n.pages[q])
  BY DEF Sized, IsMachine, Shaped
<1>2. ASSUME NEW g \in Fds
      PROVE  /\ n.fds[g].size = m.fds[g].size /\ n.fds[g].fdoffset = m.fds[g].fdoffset
             /\ n.fds[g].open = m.fds[g].open /\ n.fds[g].obj = m.fds[g].obj
  <2>1. DOMAIN m.fds[g] = FdFields /\ DOMAIN m.fds = Fds
    BY DEF IsMachine, Shaped
  <2>2. n.fds[g] = m.fds[g] \/ n.fds[g] = [m.fds[g] EXCEPT !.page = p]
    BY <2>1
  <2> QED
    BY <2>1, <2>2 DEF FdFields
<1> QED
  BY <1>1, <1>2 DEF Sized, FdTyped, FdAgrees

-----------------------------------------------------------------------------
(* The calls.                                                              *)

(* One descriptor changes, and what is in it agrees with the objects.      *)
LEMMA OneFdSized ==
  ASSUME NEW m, IsMachine(m), Sized(m), NEW f \in Fds, NEW fd, FdTyped(fd),
         FdAgrees(m.objs, fd), NEW n, n.objs = m.objs, n.pages = m.pages,
         n.fds = [m.fds EXCEPT ![f] = fd]
  PROVE  Sized(n)
<1>1. \A g \in Fds : n.fds[g] = IF g = f THEN fd ELSE m.fds[g]
  BY DEF IsMachine, Shaped
<1> QED
  BY <1>1 DEF Sized

(* A descriptor is moved.                                                  *)
LEMMA SeekSized ==
  ASSUME NEW m, IsMachine(m), Sized(m), NEW f \in Fds, NEW offset \in Nat
  PROVE  Sized([m EXCEPT !.fds[f].fdoffset = offset])
<1> DEFINE n == [m EXCEPT !.fds[f].fdoffset = offset]
           fd == [m.fds[f] EXCEPT !.fdoffset = offset]
<1>1. n.objs = m.objs /\ n.pages = m.pages /\ n.fds = [m.fds EXCEPT ![f] = fd]
  BY DEF IsMachine
<1>2. FdTyped(fd) /\ FdAgrees(m.objs, fd)
  <2>1. DOMAIN m.fds[f] = FdFields /\ FdTyped(m.fds[f]) /\ FdAgrees(m.objs, m.fds[f])
    BY DEF IsMachine, Shaped, Sized
  <2> QED
    BY <2>1 DEF FdFields, FdTyped, FdAgrees
<1> HIDE DEF n, fd
<1>3. Sized(n)
  BY <1>1, <1>2, OneFdSized
<1> QED
  BY <1>3 DEF n

LEMMA WorkSized ==
  ASSUME NEW m, IsMachine(m), Sized(m), NEW header
  PROVE  Sized([m EXCEPT !.work = header])
BY SameSizesSized DEF IsMachine, SameSizes

LEMMA ClosedInSized ==
  ASSUME NEW m, IsMachine(m), Sized(m), NEW f \in Fds
  PROVE  Sized(ClosedIn(m, f))
<1> DEFINE n == ClosedIn(m, f)
           fd == [ClosedFd EXCEPT !.page = m.fds[f].page]
<1>1. n.objs = m.objs /\ n.pages = m.pages /\ n.fds = [m.fds EXCEPT ![f] = fd]
  BY DEF ClosedIn, IsMachine
<1>2. FdTyped(fd) /\ FdAgrees(m.objs, fd)
  BY DEF ClosedFd, FdTyped, FdAgrees
<1> HIDE DEF n, fd
<1>3. Sized(n)
  BY <1>1, <1>2, OneFdSized
<1> QED
  BY <1>3 DEF n

LEMMA OpenedSized ==
  ASSUME NEW m, IsMachine(m), Sized(m), NEW f \in Fds, NEW i \in DOMAIN m.objs, NEW modes,
         NEW size, size = SizeOf(m.objs[i].data)
  PROVE  Sized(OpenIn(m, f, i, modes, size))
<1> DEFINE n == OpenIn(m, f, i, modes, size)
           fd == [open |-> TRUE, obj |-> i, modes |-> modes, size |-> size,
                  fdoffset |-> 0, page |-> m.fds[f].page]
<1>1. n.objs = m.objs /\ n.pages = m.pages /\ n.fds = [m.fds EXCEPT ![f] = fd]
  BY DEF OpenIn, IsMachine
<1>2. size \in Nat /\ Agrees(m.objs[i].data, size)
  BY LenProperties, SizesFacts DEF Sized, ObjSized, SizeOf, Agrees
<1>3. FdTyped(fd) /\ FdAgrees(m.objs, fd)
  BY <1>2 DEF FdTyped, FdAgrees
<1> HIDE DEF n, fd
<1>4. Sized(n)
  BY <1>1, <1>3, OneFdSized
<1> QED
  BY <1>4 DEF n

(* O_TRUNC when it does not fail: the descriptor that truncates remembers  *)
(* 0, the others UndefinedLen.                                             *)
LEMMA TruncatedSized ==
  ASSUME NEW m, IsMachine(m), Sized(m), NEW f \in Fds, m.fds[f].obj \in DOMAIN m.objs,
         Truncated(m, f).ok
  PROVE  Sized(Truncated(m, f))
<1> DEFINE i == m.fds[f].obj
           header == IF m.objs[i].data # <<>> THEN m.objs[i].header ELSE m.work
           emptied == [m EXCEPT !.objs[i].data = <<>>]
           updated == UpdateIndexHdr(emptied, i, header, UndefinedLen)
           refused == [m EXCEPT !.ok = FALSE]
           n == [updated EXCEPT !.fds[f].size = 0]
<1>1. ~refused.ok
  BY DEF IsMachine
<1>2. Truncated(m, f) = n
  BY <1>1 DEF Truncated
<1>3. /\ IsMachine(emptied) /\ AlmostSized(emptied, i) /\ emptied.fds = m.fds
      /\ i \in DOMAIN emptied.objs /\ emptied.objs[i].data = <<>>
  <2>1. PICK e : e = <<>>
    OBVIOUS
  <2>2. e \in Seq(Bytes) /\ Len(e) <= MaxSize
    BY <2>1, SizesFacts
  <2>3. emptied = [m EXCEPT !.objs[i].data = e] /\ i \in DOMAIN m.objs
    BY <2>1
  <2> HIDE DEF emptied, i
  <2>4. /\ IsMachine(emptied) /\ AlmostSized(emptied, i) /\ emptied.fds = m.fds
        /\ DOMAIN emptied.objs = DOMAIN m.objs /\ emptied.objs[i].data = e
    BY <2>2, <2>3, BytesWritten
  <2> QED
    BY <2>1, <2>3, <2>4
<1> HIDE DEF emptied, header, refused
<1>4. /\ IsMachine(updated) /\ Sized(updated)
      /\ updated.fds[f].open = m.fds[f].open /\ updated.fds[f].obj = i
      /\ updated.objs[i].data = <<>>
  <2>1. Same(emptied, updated)
    BY <1>3, UpdateIndexHdrSame
  <2>2. UndefinedLen \in Nat /\ Agrees(emptied.objs[i].data, UndefinedLen)
    BY <1>3, SizesFacts DEF Agrees
  <2>3. Sized(updated)
    BY <1>3, <2>2, UpdateIndexHdrSized
  <2>4. updated.objs[i].data = <<>>
    <3>1. updated.objs = [emptied.objs EXCEPT ![i].header = header]
      BY <1>3 DEF IsMachine, UpdateIndexHdr, ObjectEvent
    <3>2. updated.objs[i] = [emptied.objs[i] EXCEPT !.header = header]
      BY <1>3, <3>1
    <3>3. DOMAIN emptied.objs[i] = {"header", "data"}
      BY <1>3 DEF AlmostSized, ObjSized
    <3> QED
      BY <1>3, <3>2, <3>3
  <2> QED
    BY <1>3, <2>1, <2>3, <2>4 DEF Same
<1> HIDE DEF updated
<1> DEFINE fd == [updated.fds[f] EXCEPT !.size = 0]
<1>5. n.objs = updated.objs /\ n.pages = updated.pages /\ n.fds = [updated.fds EXCEPT ![f] = fd]
  BY <1>4 DEF IsMachine
<1>6. FdTyped(fd) /\ FdAgrees(updated.objs, fd)
  <2>1. DOMAIN updated.fds[f] = FdFields /\ FdTyped(updated.fds[f])
    BY <1>4 DEF IsMachine, Shaped, Sized
  <2> QED
    BY <1>4, <2>1 DEF FdFields, FdTyped, FdAgrees, Agrees
<1> HIDE DEF n, fd
<1>7. Sized(n)
  BY <1>4, <1>5, <1>6, OneFdSized
<1> QED
  BY <1>2, <1>7

(* SPIFFS_write, by every way through it.                                  *)
LEMMA WriteOffsetFacts ==
  ASSUME OwnInv, Sized(Now), NEW f \in Fds, NEW p, p # 0 => p \in Pages
  PROVE  WriteOffset(f, p) \in Nat
<1>1. fds[f].size \in Nat /\ fds[f].fdoffset \in Nat
  BY NowFacts DEF Sized, FdTyped
<1>2. p # 0 => pages[p].offset + Len(pages[p].data) \in Nat
  BY NowFacts, LenProperties DEF Sized, PageSized
<1> DEFINE a == IF fds[f].size = UndefinedLen THEN 0 ELSE fds[f].size
           c == IF p = 0 THEN 0 ELSE pages[p].offset + Len(pages[p].data)
<1>3. a \in Nat /\ c \in Nat
  BY <1>1, <1>2
<1>4. WriteOffset(f, p) = IF "append" \notin fds[f].modes THEN fds[f].fdoffset ELSE Max({a, c})
  BY DEF WriteOffset
<1> HIDE DEF a, c
<1> QED
  BY <1>1, <1>3, <1>4, MaxOfTwo

(* SharedSound of a machine that has a name of its own.                    *)
LEMMA SharedIsOpen ==
  ASSUME OwnInv, NEW f \in Fds, fds[f].open, NEW p \in Pages, pages[p].obj = fds[f].obj,
         NEW m, m = [Now EXCEPT !.fds[f].page = p]
  PROVE  Sound(m) /\ m.fds[f].open
BY SharedSound

LEMMA WrittenSized ==
  ASSUME OwnInv, Sized(Now), NEW f \in Fds, fds[f].open, NEW b \in Seq(Bytes),
         WriteOffset(f, CachePage(Now, f)) + Len(b) <= MaxSize, NEW n \in Written(f, b)
  PROVE  Sized(n)
<1> DEFINE p == CachePage(Now, f)
           off == WriteOffset(f, p)
           shared == [Now EXCEPT !.fds[f].page = p]
           flushed == IF p = 0 THEN Now ELSE WriteBack(shared, f, p)
           direct == IF flushed.ok THEN HydroWrite(flushed, f, off, b) ELSE flushed
           again == IF p = 0 \/ ~direct.ok THEN direct ELSE HydroWrite(direct, f, off, b)
           data == Overwritten(pages[p].data, off - pages[p].offset, b)
           within == [Now EXCEPT !.pages[p].data = Overwritten(@, off - pages[p].offset, b),
                                 !.fds[f].page = p]
<1>1. Sound(Now) /\ Now.fds = fds /\ Now.pages = pages /\ Now.objs = objs /\ IsMachine(Now)
  BY NowFacts DEF Sound
<1>2. p # 0 => p \in Pages
  BY <1>1, CachePageFacts
<1>3. off \in Nat /\ off + Len(b) <= MaxSize
  BY <1>2, WriteOffsetFacts
<1>4. \/ n = again
      \/ p # 0 /\ WithinPage(p, off, b) /\ n = within
      \/ n = flushed
      \/ n = direct
      \/ \E q \in Allocations(flushed) : q # 0 /\ n = Cached(flushed, f, q, off, b)
  BY DEF Written
<1> HIDE DEF off
<1>5. /\ IsMachine(flushed) /\ Sized(flushed)
      /\ flushed.fds[f].open /\ flushed.fds[f].obj \in DOMAIN flushed.objs
  <2>1. flushed = Emptied(f)
    BY DEF Emptied
  <2> HIDE DEF flushed, shared, p
  <2>2. Sound(flushed) /\ flushed.fds[f].open
    BY <2>1, EmptiedSound
  <2>3. flushed.fds[f].obj \in DOMAIN flushed.objs /\ IsMachine(flushed)
    BY <2>2 DEF Sound, Owned
  <2>4. CASE p = 0
    BY <2>2, <2>3, <2>4 DEF flushed
  <2>5. CASE p # 0
    <3>1. pages[p].obj = fds[f].obj
      BY <1>1, <2>5, CachePageFacts DEF p
    <3>2. Sound(shared) /\ shared.fds[f].open
      <4>1. shared = [Now EXCEPT !.fds[f].page = p]
        BY DEF shared
      <4> QED
        BY <1>2, <2>5, <3>1, <4>1, SharedIsOpen
    <3>3. Sized(shared)
      <4>1. \A g \in Fds : DOMAIN fds[g] = FdFields
        BY <1>1 DEF IsMachine, Shaped
      <4>2. /\ shared.objs = objs /\ shared.pages = pages
            /\ shared.fds = [fds EXCEPT ![f] = [fds[f] EXCEPT !.page = p]]
        BY DEF shared, Now
      <4>3. SameSizes(Now, shared)
        BY <1>1, <4>1, <4>2 DEF SameSizes, FdFields, IsMachine, Shaped
      <4> QED
        BY <4>3, SameSizesSized
    <3>4. Sized(WriteBack(shared, f, p))
      BY <1>2, <2>5, <3>2, <3>3, WriteBackSized
    <3> QED
      BY <2>2, <2>3, <2>5, <3>4 DEF flushed
  <2> QED
    BY <2>4, <2>5
<1> HIDE DEF shared, flushed
<1>6. /\ IsMachine(direct) /\ Sized(direct)
      /\ direct.fds[f].open /\ direct.fds[f].obj \in DOMAIN direct.objs
  <2> DEFINE w == HydroWrite(flushed, f, off, b)
  <2>1. Sized(w) /\ Same(flushed, w)
    BY <1>3, <1>5, HydroWriteSized, HydroWriteSame
  <2>2. direct = IF flushed.ok THEN w ELSE flushed
    OBVIOUS
  <2> HIDE DEF w, direct
  <2> QED
    BY <1>5, <2>1, <2>2 DEF Same
<1> HIDE DEF direct
<1>7. Sized(again)
  <2> DEFINE w == HydroWrite(direct, f, off, b)
  <2>1. Sized(w)
    BY <1>3, <1>6, HydroWriteSized
  <2>2. again = IF p = 0 \/ ~direct.ok THEN direct ELSE w
    OBVIOUS
  <2> HIDE DEF w, again
  <2> QED
    BY <1>6, <2>1, <2>2
<1> HIDE DEF again
<1>8. CASE \E q \in Allocations(flushed) : q # 0 /\ n = Cached(flushed, f, q, off, b)
  <2>1. PICK q \in Allocations(flushed) : q # 0 /\ n = Cached(flushed, f, q, off, b)
    BY <1>8
  <2>2. q \in Pages
    BY <2>1, AllocationsFacts
  <2> DEFINE pg == [obj |-> flushed.fds[f].obj, offset |-> off, data |-> b]
  <2>3. PageSized(pg)
    BY <1>3 DEF PageSized
  <2>4. /\ n.objs = flushed.objs /\ n.pages = [flushed.pages EXCEPT ![q] = pg]
        /\ n.fds = [flushed.fds EXCEPT ![f].page = q]
    BY <1>5, <2>1 DEF Cached, IsMachine
  <2> HIDE DEF pg
  <2> QED
    BY <1>5, <2>2, <2>3, <2>4, PagePutSized
<1>9. CASE p # 0 /\ WithinPage(p, off, b) /\ n = within
  <2> DEFINE pg == [pages[p] EXCEPT !.data = data]
  <2>1. /\ n.objs = Now.objs /\ n.pages = [Now.pages EXCEPT ![p] = pg]
        /\ n.fds = [Now.fds EXCEPT ![f].page = p]
    BY <1>9 DEF Now
  <2>2. PageSized(pages[p]) /\ DOMAIN pages[p] = PageFields /\ p \in Pages
    BY <1>1, <1>2, <1>9 DEF Sized, IsMachine, Shaped
  <2> HIDE DEF p, within
  <2>3. data \in Seq(Bytes) /\ pages[p].offset + Len(data) <= MaxSize
    <3> DEFINE d == pages[p].data
               o == pages[p].offset
    <3>1. d \in Seq(Bytes) /\ o \in Nat /\ o + Len(d) <= MaxSize /\ Len(d) \in Nat /\ Len(b) \in Nat
      BY <2>2, LenProperties DEF PageSized
    <3>2. o <= off /\ off <= o + Len(d)
      BY <1>9 DEF WithinPage
    <3> HIDE DEF d, o
    <3>3. off - o \in 0..Len(d)
      BY <1>3, <3>1, <3>2
    <3> DEFINE e == Overwritten(d, off - o, b)
    <3>4. /\ e \in Seq(Bytes)
          /\ off - o + Len(b) <= Len(d) => Len(e) = Len(d)
          /\ Len(d) <= off - o + Len(b) => Len(e) = off - o + Len(b)
      BY <3>1, <3>3, OverwrittenFacts
    <3>5. data = e
      BY DEF d, o
    <3> HIDE DEF e, data
    <3>6. o + Len(e) <= MaxSize
      BY <1>3, <3>1, <3>2, <3>4, SizesFacts
    <3> QED
      BY <3>4, <3>5, <3>6 DEF o
  <2> HIDE DEF data
  <2>4. PageSized(pg)
    BY <2>2, <2>3 DEF PageSized, PageFields
  <2> HIDE DEF pg
  <2> QED
    BY <1>1, <2>1, <2>2, <2>4, PagePutSized
<1> HIDE DEF p, within
<1> QED
  BY <1>4, <1>5, <1>6, <1>7, <1>8, <1>9

-----------------------------------------------------------------------------
(* The actions, one lemma each.                                            *)
SizedInv == IInv /\ Sized(Now)

LEMMA SizedStep ==
  ASSUME NEW m, Sized(m), Becomes(m)
  PROVE  Sized(Now)'
<1>1. objs' = m.objs /\ fds' = m.fds /\ pages' = m.pages
  BY DEF Becomes
<1>2. Now'.objs = m.objs /\ Now'.fds = m.fds /\ Now'.pages = m.pages
  BY <1>1 DEF Now
<1> QED
  BY <1>2 DEF Sized

LEMMA FlushedNow ==
  ASSUME SizedInv, NEW f \in Fds, Calls(f)
  PROVE  LET m == Flushed(Now, f)
         IN /\ Sized(m) /\ IsMachine(m) /\ m.fds[f].obj \in DOMAIN m.objs
            /\ FdTyped(m.fds[f])
<1> DEFINE m == Flushed(Now, f)
<1>1. Sound(Now) /\ Now.fds[f].open /\ IInv /\ Sized(Now)
  BY NowFacts DEF SizedInv, IInv, Calls
<1>2. Sound(m) /\ IsMachine(m) /\ m.fds[f].open
  BY <1>1, CallFacts DEF Calls
<1>3. Sized(m)
  BY <1>1, FlushedSized
<1> HIDE DEF m
<1>4. m.fds[f].obj \in DOMAIN m.objs /\ FdTyped(m.fds[f])
  BY <1>2, <1>3 DEF Sound, Owned, Sized
<1> QED
  BY <1>2, <1>3, <1>4 DEF m

LEMMA OpenFileSized ==
  ASSUME SizedInv, NEW n, NEW modes, NEW trunc, OpenFile(n, modes, trunc)
  PROVE  Sized(Now)'
<1> DEFINE i == Min(Named(n))
           f == Min(FreeFds)
           o == Opened(i, f, modes)
           m == IF trunc THEN Truncated(o, f) ELSE o
<1>1. Becomes(m) /\ m.ok /\ OwnInv /\ f \in Fds /\ ~fds[f].open /\ i \in DOMAIN objs
  BY FreeFdFacts, NamedFacts DEF OpenFile, IInv, SizedInv
<1> HIDE DEF i, f
<1>2. IsMachine(o) /\ Sized(o) /\ o.fds[f].obj \in DOMAIN o.objs
  <2>1. /\ Sound(Now) /\ IsMachine(Now) /\ Sized(Now) /\ ~Now.fds[f].open
        /\ i \in DOMAIN Now.objs /\ Now.fds = fds /\ Now.objs = objs
    BY <1>1, NowFacts DEF Sound, SizedInv
  <2> DEFINE size == SizeOf(Now.objs[i].data)
  <2>2. o = OpenIn(Now, f, i, modes, size)
    BY <2>1 DEF Opened, OpenIn
  <2>3. Sized(OpenIn(Now, f, i, modes, size))
    BY <1>1, <2>1, OpenedSized
  <2> HIDE DEF o, size
  <2>4. Sound(o)
    BY <1>1, <2>1, <2>2, OpenedSound
  <2>5. o.fds[f].obj = i /\ o.objs = Now.objs
    BY <1>1, <2>1, <2>2 DEF OpenIn, IsMachine, Shaped
  <2> QED
    BY <2>1, <2>2, <2>3, <2>4, <2>5 DEF Sound
<1> HIDE DEF o
<1>3. Sized(m)
  <2>1. CASE trunc
    <3>1. m = Truncated(o, f)
      BY <2>1
    <3> HIDE DEF m
    <3> QED
      BY <1>1, <1>2, <3>1, TruncatedSized
  <2> QED
    BY <1>2, <2>1
<1> HIDE DEF m
<1> QED
  BY <1>1, <1>3, SizedStep

(* The id of a new file is no other's, and it is empty.                    *)
LEMMA CreateFileSized ==
  ASSUME SizedInv, NEW n, NEW modes, CreateFile(n, modes)
  PROVE  Sized(Now)'
<1> DEFINE i == FreeObjId
           f == Min(FreeFds)
           fd == [open |-> TRUE, obj |-> i, modes |-> modes, size |-> UndefinedLen,
                  fdoffset |-> 0, page |-> fds[f].page]
<1>1. /\ OwnInv /\ Sized(Now) /\ pages' = pages /\ f \in Fds
      /\ objs' = [j \in {i} \cup DOMAIN objs |-> IF j = i THEN Created(n) ELSE objs[j]]
      /\ fds' = [fds EXCEPT ![f] = fd]
  BY FreeFdFacts DEF CreateFile, IInv, SizedInv
<1>2. i \notin DOMAIN objs
  BY <1>1, FreeObjIdFacts
<1> HIDE DEF i, f
<1>3. /\ objs'[i] = Created(n) /\ DOMAIN objs' = {i} \cup DOMAIN objs
      /\ \A j \in DOMAIN objs : objs'[j] = objs[j]
  BY <1>1, <1>2
<1>4. ObjSized(Created(n))
  BY SizesFacts DEF Created, ObjSized
<1>5. \A j \in DOMAIN objs' : ObjSized(objs'[j])
  BY <1>1, <1>3, <1>4, NowFacts DEF Sized
<1>6. ASSUME NEW g \in Fds PROVE FdTyped(fds'[g]) /\ FdAgrees(objs', fds'[g])
  <2>1. DOMAIN fds = Fds
    BY <1>1 DEF OwnInv, Shaped
  <2>2. CASE g = f
    <3>1. fds'[g] = fd
      BY <1>1, <2>1, <2>2
    <3>2. fd.size = UndefinedLen /\ fd.fdoffset = 0 /\ fd.obj = i
      OBVIOUS
    <3>3. objs'[i].data = <<>>
      BY <1>3 DEF Created
    <3> HIDE DEF fd
    <3> QED
      BY <3>1, <3>2, <3>3, SizesFacts DEF FdTyped, FdAgrees, Agrees
  <2>3. CASE g # f
    <3>1. fds'[g] = fds[g]
      BY <1>1, <2>1, <2>3
    <3>2. FdTyped(fds[g]) /\ FdAgrees(objs, fds[g]) /\ (fds[g].open => fds[g].obj \in DOMAIN objs)
      BY <1>1, NowFacts DEF Sized, OwnInv, Owned
    <3> QED
      BY <1>3, <3>1, <3>2 DEF FdAgrees
  <2> QED
    BY <2>2, <2>3
<1>7. Now'.objs = objs' /\ Now'.fds = fds' /\ Now'.pages = pages /\ \A p \in Pages : PageSized(pages[p])
  BY <1>1, NowFacts DEF Now, Sized
<1> QED
  BY <1>5, <1>6, <1>7 DEF Sized

LEMMA BoundedSeqIsSeq ==
  ASSUME NEW b \in BoundedSeq(Bytes, MaxWrite)
  PROVE  b \in Seq(Bytes) /\ Len(b) \in Nat
<1>1. PICK m \in 0..MaxWrite : b \in [1..m -> Bytes]
  BY DEF BoundedSeq, SeqOf
<1>2. m \in Nat
  BY <1>1, SizesAssumption
<1>3. b \in Seq(Bytes)
  BY <1>1, <1>2, SeqDef
<1> QED
  BY <1>3, LenProperties

LEMMA WriteSized ==
  ASSUME SizedInv, NEW f \in Fds, NEW b \in BoundedSeq(Bytes, MaxWrite), Write(f, b)
  PROVE  Sized(Now)'
<1>1. PICK m \in Written(f, b) :
        Becomes(IF m.ok THEN [m EXCEPT !.fds[f].fdoffset = @ + Len(b)] ELSE m)
  BY DEF Write
<1>2. OwnInv /\ fds[f].open /\ Sized(Now) /\ b \in Seq(Bytes) /\ Len(b) \in Nat
  BY BoundedSeqIsSeq DEF Write, Calls, IInv, SizedInv
<1>3. WriteOffset(f, CachePage(Now, f)) + Len(b) <= MaxSize
  BY DEF Write
<1>4. Sized(m) /\ IsMachine(m)
  BY <1>1, <1>2, <1>3, WrittenSized, WrittenSound DEF Sound
<1> DEFINE at == m.fds[f].fdoffset + Len(b)
<1>5. at \in Nat
  BY <1>2, <1>4 DEF Sized, FdTyped
<1>6. [m EXCEPT !.fds[f].fdoffset = @ + Len(b)] = [m EXCEPT !.fds[f].fdoffset = at]
  BY <1>4 DEF IsMachine, Shaped, FdFields
<1> HIDE DEF at
<1>7. Sized([m EXCEPT !.fds[f].fdoffset = at])
  BY <1>4, <1>5, SeekSized
<1> QED
  BY <1>1, <1>4, <1>6, <1>7, SizedStep

LEMMA ReadSized ==
  ASSUME SizedInv, NEW f \in Fds, NEW len \in Nat, Read(f, len)
  PROVE  Sized(Now)'
<1> DEFINE m == Flushed(Now, f)
           fd == m.fds[f]
           object == m.objs[fd.obj]
           to == Min({fd.fdoffset + len, fd.size})
           moved == [m EXCEPT !.fds[f].fdoffset = to, !.work = object.header]
           loaded == [m EXCEPT !.work = object.header]
<1>1. Calls(f) /\ (Becomes(moved) \/ Becomes(loaded) \/ Becomes(m))
  BY DEF Read, Calls
<1>2. Sized(m) /\ IsMachine(m) /\ FdTyped(m.fds[f])
  BY <1>1, FlushedNow
<1> HIDE DEF m
<1>3. to \in Nat
  <2>1. fd.fdoffset + len \in Nat /\ fd.size \in Nat
    BY <1>2 DEF FdTyped
  <2> HIDE DEF fd
  <2> QED
    BY <2>1, MinOfTwo
<1> HIDE DEF to
<1>4. Sized(loaded)
  BY <1>2, WorkSized
<1>5. Sized(moved)
  <2> DEFINE sought == [m EXCEPT !.fds[f].fdoffset = to]
  <2>1. Sized(sought) /\ IsMachine(sought)
    BY <1>2, <1>3, SeekSized, SeekSame DEF Same
  <2>2. moved = [sought EXCEPT !.work = object.header]
    BY <1>2 DEF IsMachine
  <2> HIDE DEF sought
  <2> QED
    BY <2>1, <2>2, WorkSized
<1> HIDE DEF moved, loaded
<1> QED
  BY <1>1, <1>2, <1>4, <1>5, SizedStep

LEMMA LseekSized ==
  ASSUME SizedInv, NEW f \in Fds, NEW offs \in Nat, Lseek(f, offs)
  PROVE  Sized(Now)'
<1> DEFINE m == Flushed(Now, f)
           moved == [m EXCEPT !.fds[f].fdoffset = offs]
<1>1. Calls(f) /\ (Becomes(moved) \/ Becomes(m))
  BY DEF Lseek, Calls
<1>2. Sized(m) /\ IsMachine(m)
  BY <1>1, FlushedNow
<1> HIDE DEF m
<1>3. Sized(moved)
  BY <1>2, SeekSized
<1> HIDE DEF moved
<1> QED
  BY <1>1, <1>2, <1>3, SizedStep

LEMMA FstatSized ==
  ASSUME SizedInv, NEW f \in Fds, Fstat(f)
  PROVE  Sized(Now)'
<1> DEFINE m == Flushed(Now, f)
<1>1. Calls(f) /\ Becomes(m)
  BY DEF Fstat, Calls
<1>2. Sized(m)
  BY <1>1, FlushedNow
<1> HIDE DEF m
<1> QED
  BY <1>1, <1>2, SizedStep

LEMMA CloseSized ==
  ASSUME SizedInv, NEW f \in Fds, Close(f)
  PROVE  Sized(Now)'
<1> DEFINE m == Flushed(Now, f)
           n == ClosedIn(m, f)
<1>1. Calls(f) /\ Becomes(n)
  BY DEF Close, Calls
<1>2. Sized(m) /\ IsMachine(m)
  BY <1>1, FlushedNow
<1> HIDE DEF m
<1>3. Sized(n)
  BY <1>2, ClosedInSized
<1> HIDE DEF n
<1> QED
  BY <1>1, <1>3, SizedStep

(* The descriptors of the object are closed, the other objects stay.       *)
LEMMA UnlinkSized ==
  ASSUME SizedInv, NEW n, Unlink(n)
  PROVE  Sized(Now)'
<1> DEFINE i == Min(Named(n))
           gone == OpenFds(Now, i)
           D == DOMAIN objs \ {i}
<1>1. /\ pages' = pages /\ Sized(Now) /\ OwnInv
      /\ objs' = Restrict(objs, D)
      /\ fds' = [f \in Fds |-> IF f \in gone THEN [ClosedFd EXCEPT !.page = fds[f].page]
                               ELSE fds[f]]
  BY DEF Unlink, SizedInv, IInv
<1> HIDE DEF i
<1>2. DOMAIN objs' = D /\ \A o \in D : objs'[o] = objs[o]
  BY <1>1 DEF Restrict
<1>3. gone = {f \in Fds : fds[f].open /\ fds[f].obj = i}
  BY NowFacts DEF OpenFds
<1>4. ASSUME NEW f \in Fds PROVE FdTyped(fds'[f]) /\ FdAgrees(objs', fds'[f])
  <2>1. CASE f \in gone
    <3>1. fds'[f] = [ClosedFd EXCEPT !.page = fds[f].page]
      BY <1>1, <2>1
    <3> QED
      BY <3>1 DEF ClosedFd, FdTyped, FdAgrees
  <2>2. CASE f \notin gone
    <3>1. fds'[f] = fds[f]
      BY <1>1, <2>2
    <3>2. FdTyped(fds[f]) /\ FdAgrees(objs, fds[f]) /\ (fds[f].open => fds[f].obj \in D)
      BY <1>1, <1>3, <2>2, NowFacts DEF Sized, OwnInv, Owned
    <3> QED
      BY <1>2, <3>1, <3>2 DEF FdAgrees
  <2> QED
    BY <2>1, <2>2
<1>5. /\ Now'.objs = objs' /\ Now'.fds = fds' /\ Now'.pages = pages
      /\ \A p \in Pages : PageSized(pages[p])
      /\ \A o \in DOMAIN objs : ObjSized(objs[o])
  BY <1>1, NowFacts DEF Now, Sized
<1> QED
  BY <1>2, <1>4, <1>5 DEF Sized

LEMMA RenameSized ==
  ASSUME SizedInv, NEW a, NEW b, Rename(a, b)
  PROVE  Sized(Now)'
<1> DEFINE i == Min(Named(a))
           header == [objs[i].header EXCEPT !.name = b]
           size == SizeOf(objs[i].data)
           m == UpdateIndexHdr(Now, i, header, size)
<1>1. /\ Becomes(m) /\ i \in DOMAIN Now.objs /\ Sized(Now) /\ IsMachine(Now)
      /\ Now.objs = objs
  BY NowFacts, NamedFacts DEF Rename, SizedInv, IInv, Sound
<1>2. size \in Nat /\ Agrees(Now.objs[i].data, size)
  <2>1. ObjSized(objs[i])
    BY <1>1 DEF Sized
  <2> QED
    BY <1>1, <2>1, LenProperties, SizesFacts DEF ObjSized, SizeOf, Agrees
<1>3. AlmostSized(Now, i)
  BY <1>1 DEF Sized, AlmostSized
<1> HIDE DEF i, header, size
<1>4. Sized(m)
  BY <1>1, <1>2, <1>3, UpdateIndexHdrSized
<1> HIDE DEF m
<1> QED
  BY <1>1, <1>4, SizedStep

(* Nothing in memory: only the files' own lengths are left to speak of.    *)
LEMMA NothingSized ==
  ASSUME Sized(Now), UNCHANGED objs, NothingInMemory
  PROVE  Sized(Now)'
<1>1. /\ Now'.objs = objs /\ Now'.fds = [f \in Fds |-> ClosedFd]
      /\ Now'.pages = [p \in Pages |-> NoWrite] /\ Now.objs = objs
  BY DEF Now, NothingInMemory
<1>2. FdTyped(ClosedFd) /\ ~ClosedFd.open
  BY DEF ClosedFd, FdTyped
<1> QED
  BY <1>1, <1>2, NoWriteSized DEF Sized, FdAgrees

LEMMA InputsFacts == 1..MaxWrite \subseteq Nat /\ 0..MaxSize \subseteq Nat
BY SizesAssumption

LEMMA SizedNext ==
  ASSUME SizedInv, "remove pending" \notin Careless, [Next]_vars, status' # "deinit"
  PROVE  SizedInv'
<1>1. IInv'
  BY NextStep DEF SizedInv
<1>2. ASSUME NEW n, NEW modes, CreateFile(n, modes) PROVE Sized(Now)'
  BY <1>2, CreateFileSized
<1>3. ASSUME NEW n, NEW modes, NEW trunc, OpenFile(n, modes, trunc) PROVE Sized(Now)'
  BY <1>3, OpenFileSized
<1>4. ASSUME NEW f \in Fds, NEW b \in BoundedSeq(Bytes, MaxWrite), Write(f, b)
      PROVE  Sized(Now)'
  BY <1>4, WriteSized
<1>5. ASSUME NEW f \in Fds, NEW len \in 1..MaxWrite, Read(f, len) PROVE Sized(Now)'
  <2>1. len \in Nat
    BY <1>5, InputsFacts
  <2> QED
    BY <1>5, <2>1, ReadSized
<1>6. ASSUME NEW f \in Fds, NEW offs \in 0..MaxSize, Lseek(f, offs) PROVE Sized(Now)'
  <2>1. offs \in Nat
    BY <1>6, InputsFacts
  <2> QED
    BY <1>6, <2>1, LseekSized
<1>7. ASSUME NEW f \in Fds, Fstat(f) \/ Close(f) PROVE Sized(Now)'
  BY <1>7, FstatSized, CloseSized
<1>8. ASSUME NEW n, Unlink(n) PROVE Sized(Now)'
  BY <1>8, UnlinkSized
<1>9. ASSUME NEW a, NEW b, Rename(a, b) PROVE Sized(Now)'
  BY <1>9, RenameSized
<1>10. ASSUME Mount \/ PowerLoss PROVE Sized(Now)'
  BY <1>10, NothingSized DEF Mount, PowerLoss, SizedInv
<1>11. ~Unmount
  BY DEF Unmount
<1>12. ASSUME UNCHANGED vars PROVE Sized(Now)'
  <2>1. Now' = Now
    BY <1>12 DEF vars, Now
  <2> QED
    BY <2>1 DEF SizedInv, Sized
<1>13. Sized(Now)'
  BY <1>2, <1>3, <1>4, <1>5, <1>6, <1>7, <1>8, <1>9, <1>10, <1>11, <1>12 DEF Next
<1> QED
  BY <1>1, <1>13 DEF SizedInv

LEMMA InitSized == Init => SizedInv
<1> SUFFICES ASSUME Init PROVE SizedInv
  OBVIOUS
<1>1. IInv /\ DOMAIN objs = {}
  BY InitSound
<1>2. /\ Now.fds = [f \in Fds |-> ClosedFd] /\ Now.pages = [p \in Pages |-> NoWrite]
      /\ Now.objs = objs
  BY DEF Init, Now
<1>3. FdTyped(ClosedFd) /\ ~ClosedFd.open
  BY DEF ClosedFd, FdTyped
<1> QED
  BY <1>1, <1>2, <1>3, NoWriteSized DEF SizedInv, Sized, FdAgrees

(* What a descriptor remembers of the size of its object is right whoever  *)
(* wrote, truncated or renamed the object, or flushed its page: the event  *)
(* of spiffs_cb_object_event reaches every descriptor, and a write through *)
(* one that has not heard would overwrite or lose bytes.                   *)
THEOREM SizesAlwaysAgree ==
  ASSUME "remove pending" \notin Careless
  PROVE  Spec /\ []NoDeinit => []SizesAgree
<1>1. Init => SizedInv
  BY InitSized
<1>2. SizedInv /\ [Next]_vars /\ NoDeinit' => SizedInv'
  BY SizedNext DEF NoDeinit
<1>3. SizedInv => SizesAgree
  BY NowFacts DEF SizedInv, Sized, FdAgrees, Agrees, SizesAgree
<1> QED
  BY <1>1, <1>2, <1>3, PTL DEF Spec

-----------------------------------------------------------------------------
(* What programs see of a file, the bytes on the flash under those of its  *)
(* page: a flush by whichever descriptor leaves it as it is, a write       *)
(* changes the bytes it names.                                             *)

(* The bytes of a sequence after a write inside it or at its end.          *)
Longer(a, b) == IF a <= b THEN b ELSE a

LEMMA Overwriting ==
  ASSUME NEW d \in Seq(Bytes), NEW off \in 0..Len(d), NEW b \in Seq(Bytes)
  PROVE  LET e == Overwritten(d, off, b)
         IN /\ e \in Seq(Bytes) /\ Len(e) = Longer(Len(d), off + Len(b))
            /\ \A j \in 1..Len(e) :
                 e[j] = IF off < j /\ j <= off + Len(b) THEN b[j - off] ELSE d[j]
<1> DEFINE e == Overwritten(d, off, b)
           x == SubSeq(d, 1, off)
           k == off + Len(b) + 1
           z == SubSeq(d, k, Len(d))
<1>1. Len(d) \in Nat /\ Len(b) \in Nat /\ off \in Nat /\ off <= Len(d)
  BY LenProperties
<1>2. e \in Seq(Bytes) /\ Len(e) = Longer(Len(d), off + Len(b))
  BY <1>1, OverwrittenFacts DEF Longer
<1>3. x \in Seq(Bytes) /\ Len(x) = off /\ \A j \in 1..off : x[j] = d[j]
  <2>1. \A j \in 1..off : d[j] \in Bytes
    BY <1>1, ElementOfSeq
  <2> QED
    BY <1>1, <2>1, SubSeqProperties
<1>4. z \in Seq(Bytes) /\ \A j \in 1..Len(d) - k + 1 : z[j] = d[k + j - 1]
  <2>1. k \in Nat /\ k >= 1
    BY <1>1
  <2>2. \A j \in k..Len(d) : d[j] \in Bytes
    BY <1>1, <2>1, ElementOfSeq
  <2> HIDE DEF k
  <2> QED
    BY <1>1, <2>1, <2>2, SubSeqProperties
<1> HIDE DEF x, z
<1>5. /\ x \o b \in Seq(Bytes) /\ Len(x \o b) = off + Len(b)
      /\ \A j \in 1..off + Len(b) : (x \o b)[j] = IF j <= off THEN x[j] ELSE b[j - off]
  BY <1>3, ConcatProperties
<1>6. /\ e = (x \o b) \o z /\ Len(e) = Len(x \o b) + Len(z)
      /\ \A j \in 1..Len(x \o b) + Len(z) :
           e[j] = IF j <= Len(x \o b) THEN (x \o b)[j] ELSE z[j - Len(x \o b)]
  <2>1. e = (x \o b) \o z
    BY DEF Overwritten, x, z
  <2> DEFINE y == x \o b
  <2>2. y \in Seq(Bytes) /\ z \in Seq(Bytes)
    BY <1>4, <1>5
  <2>3. e = y \o z
    BY <2>1
  <2> HIDE DEF e, y
  <2>4. /\ Len(e) = Len(y) + Len(z)
        /\ \A j \in 1..Len(y) + Len(z) : e[j] = IF j <= Len(y) THEN y[j] ELSE z[j - Len(y)]
    BY <2>2, <2>3, ConcatProperties
  <2> QED
    BY <2>1, <2>4 DEF y
<1> HIDE DEF e
<1>7. ASSUME NEW j \in 1..Len(e)
      PROVE  e[j] = IF off < j /\ j <= off + Len(b) THEN b[j - off] ELSE d[j]
  <2>1. j \in Nat /\ j >= 1 /\ j <= Len(e) /\ Len(e) \in Nat
    BY <1>2, LenProperties
  <2>2. CASE j <= off + Len(b)
    <3>1. e[j] = (x \o b)[j] /\ j \in 1..off + Len(b)
      BY <1>1, <1>5, <1>6, <2>1, <2>2
    <3>2. j <= off => x[j] = d[j]
      BY <1>3, <2>1
    <3> QED
      BY <1>1, <1>5, <2>1, <2>2, <3>1, <3>2
  <2>3. CASE j > off + Len(b)
    <3>1. e[j] = z[j - (off + Len(b))]
      BY <1>1, <1>5, <1>6, <2>1, <2>3
    <3>2. j <= Len(d)
      BY <1>1, <1>2, <2>1, <2>3 DEF Longer
    <3>3. j - (off + Len(b)) \in 1..Len(d) - k + 1 /\ k + (j - (off + Len(b))) - 1 = j
      BY <1>1, <2>1, <2>3, <3>2
    <3>4. z[j - (off + Len(b))] = d[k + (j - (off + Len(b))) - 1]
      BY <1>4, <3>3
    <3> QED
      BY <1>1, <2>1, <2>3, <3>1, <3>3, <3>4
  <2> QED
    BY <1>1, <2>1, <2>2, <2>3
<1> QED
  BY <1>2, <1>7 DEF e

(* Nothing written changes nothing.                                        *)
LEMMA OverwrittenByNothing ==
  ASSUME NEW d \in Seq(Bytes), NEW off \in 0..Len(d), NEW b \in Seq(Bytes), Len(b) = 0
  PROVE  Overwritten(d, off, b) = d
<1> DEFINE e == Overwritten(d, off, b)
<1>1. /\ e \in Seq(Bytes) /\ Len(e) = Longer(Len(d), off + Len(b))
      /\ \A j \in 1..Len(e) :
           e[j] = IF off < j /\ j <= off + Len(b) THEN b[j - off] ELSE d[j]
  BY Overwriting
<1> HIDE DEF e
<1>2. Len(d) \in Nat /\ off \in Nat /\ off <= Len(d)
  BY LenProperties
<1>3. Len(e) = Len(d) /\ \A j \in 1..Len(e) : e[j] = d[j]
  BY <1>1, <1>2 DEF Longer
<1>4. e = d
  BY <1>1, <1>3, SeqEqual
<1> QED
  BY <1>4 DEF e

(* The same bytes once more.                                               *)
LEMMA OverwrittenTwice ==
  ASSUME NEW d \in Seq(Bytes), NEW off \in 0..Len(d), NEW b \in Seq(Bytes)
  PROVE  LET e == Overwritten(d, off, b)
         IN off \in 0..Len(e) /\ Overwritten(e, off, b) = e
<1> DEFINE e == Overwritten(d, off, b)
<1>1. /\ e \in Seq(Bytes) /\ Len(e) = Longer(Len(d), off + Len(b))
      /\ \A j \in 1..Len(e) :
           e[j] = IF off < j /\ j <= off + Len(b) THEN b[j - off] ELSE d[j]
  BY Overwriting
<1> HIDE DEF e
<1>2. Len(d) \in Nat /\ Len(b) \in Nat /\ off \in Nat /\ off <= Len(d) /\ Len(e) \in Nat
  BY <1>1, LenProperties
<1>3. off \in 0..Len(e) /\ off + Len(b) <= Len(e)
  BY <1>1, <1>2 DEF Longer
<1> DEFINE g == Overwritten(e, off, b)
<1>4. /\ g \in Seq(Bytes) /\ Len(g) = Longer(Len(e), off + Len(b))
      /\ \A j \in 1..Len(g) :
           g[j] = IF off < j /\ j <= off + Len(b) THEN b[j - off] ELSE e[j]
  BY <1>1, <1>3, Overwriting
<1> HIDE DEF g
<1>5. Len(g) = Len(e)
  BY <1>2, <1>3, <1>4 DEF Longer
<1>6. \A j \in 1..Len(g) : g[j] = e[j]
  BY <1>1, <1>4, <1>5
<1>7. g = e
  BY <1>1, <1>4, <1>5, <1>6, SeqEqual
<1> QED
  BY <1>3, <1>7 DEF g, e

(* A write in two parts, one behind the other.                             *)
LEMMA OverwrittenInParts ==
  ASSUME NEW d \in Seq(Bytes), NEW off \in 0..Len(d), NEW b \in Seq(Bytes),
         NEW k \in 0..Len(b)
  PROVE  LET e == Overwritten(d, off, SubSeq(b, 1, k))
         IN /\ off + k \in 0..Len(e)
            /\ Overwritten(e, off + k, SubSeq(b, k + 1, Len(b))) = Overwritten(d, off, b)
<1> DEFINE u == SubSeq(b, 1, k)
           e == Overwritten(d, off, u)
           v == SubSeq(b, k + 1, Len(b))
           g == Overwritten(e, off + k, v)
           w == Overwritten(d, off, b)
<1>1. Len(d) \in Nat /\ Len(b) \in Nat /\ off \in Nat /\ off <= Len(d) /\ k \in Nat /\ k <= Len(b)
  BY LenProperties
<1>2. \A j \in 1..Len(b) : b[j] \in Bytes
  BY ElementOfSeq
<1>3. u \in Seq(Bytes) /\ Len(u) = k /\ \A j \in 1..k : u[j] = b[j]
  <2>1. \A j \in 1..k : b[j] \in Bytes
    BY <1>1, <1>2
  <2> QED
    BY <1>1, <2>1, SubSeqProperties
<1>4. v \in Seq(Bytes) /\ Len(v) = Len(b) - k /\ \A j \in 1..Len(b) - k : v[j] = b[k + j]
  <2>1. \A j \in k + 1..Len(b) : b[j] \in Bytes
    BY <1>1, <1>2
  <2>2. k + 1 \in Int /\ Len(b) \in Int
    BY <1>1
  <2>3. /\ v \in Seq(Bytes) /\ Len(v) = IF k + 1 <= Len(b) THEN Len(b) - (k + 1) + 1 ELSE 0
        /\ \A j \in 1..Len(b) - (k + 1) + 1 : v[j] = b[k + 1 + j - 1]
    BY <2>1, <2>2, SubSeqProperties
  <2> HIDE DEF v
  <2> QED
    BY <1>1, <2>3
<1> HIDE DEF u, v
<1>5. /\ e \in Seq(Bytes) /\ Len(e) = Longer(Len(d), off + Len(u))
      /\ \A j \in 1..Len(e) :
           e[j] = IF off < j /\ j <= off + Len(u) THEN u[j - off] ELSE d[j]
  BY <1>3, Overwriting
<1> HIDE DEF e
<1>6. Len(e) \in Nat /\ off + k \in 0..Len(e)
  BY <1>1, <1>3, <1>5, LenProperties DEF Longer
<1>7. /\ g \in Seq(Bytes) /\ Len(g) = Longer(Len(e), off + k + Len(v))
      /\ \A j \in 1..Len(g) :
           g[j] = IF off + k < j /\ j <= off + k + Len(v) THEN v[j - (off + k)] ELSE e[j]
  BY <1>4, <1>5, <1>6, Overwriting
<1>8. /\ w \in Seq(Bytes) /\ Len(w) = Longer(Len(d), off + Len(b))
      /\ \A j \in 1..Len(w) :
           w[j] = IF off < j /\ j <= off + Len(b) THEN b[j - off] ELSE d[j]
  BY Overwriting
<1> HIDE DEF g, w
<1>9. Len(g) = Len(w) /\ Len(w) \in Nat
  <2>1. /\ Len(u) = k /\ Len(v) = Len(b) - k
        /\ Len(d) \in Nat /\ Len(b) \in Nat /\ k \in Nat /\ off \in Nat /\ k <= Len(b)
    BY <1>1, <1>3, <1>4
  <2>2. off + k + Len(v) = off + Len(b) /\ off + Len(u) = off + k
    BY <2>1
  <2>3. Len(g) = Longer(Longer(Len(d), off + k), off + Len(b))
    BY <1>5, <1>7, <2>2
  <2> QED
    BY <1>8, <2>1, <2>3 DEF Longer
<1>10. ASSUME NEW j \in 1..Len(g) PROVE g[j] = w[j]
  <2>1. j \in Nat /\ j >= 1 /\ j <= Len(g) /\ j <= Len(w)
    BY <1>9
  <2>2. CASE off + k < j /\ j <= off + Len(b)
    <3>1. j - (off + k) \in 1..Len(b) - k /\ k + (j - (off + k)) = j - off
      BY <1>1, <2>1, <2>2
    <3>2. v[j - (off + k)] = b[k + (j - (off + k))]
      BY <1>4, <3>1
    <3>3. g[j] = v[j - (off + k)] /\ w[j] = b[j - off]
      <4>1. j \in 1..Len(w) /\ off + k + Len(v) = off + Len(b)
        BY <1>1, <1>4, <2>1
      <4> QED
        BY <1>1, <1>7, <1>8, <2>1, <2>2, <4>1
    <3> QED
      BY <3>1, <3>2, <3>3
  <2>3. CASE j <= off + k
    <3>1. g[j] = e[j] /\ j \in 1..Len(e)
      <4>1. g[j] = e[j]
        BY <1>1, <1>7, <2>1, <2>3
      <4>2. j <= Len(e)
        BY <1>1, <1>6, <2>1, <2>3
      <4> QED
        BY <1>6, <2>1, <4>1, <4>2
    <3>2. off < j => u[j - off] = b[j - off]
      BY <1>1, <1>3, <2>1, <2>3
    <3> QED
      <4>1. w[j] = IF off < j THEN b[j - off] ELSE d[j]
        BY <1>1, <1>8, <2>1, <2>3
      <4>2. e[j] = IF off < j THEN u[j - off] ELSE d[j]
        BY <1>1, <1>3, <1>5, <2>1, <2>3, <3>1
      <4> QED
        BY <3>1, <3>2, <4>1, <4>2
  <2>4. CASE j > off + Len(b)
    <3>1. g[j] = e[j] /\ j \in 1..Len(e)
      BY <1>1, <1>3, <1>4, <1>5, <1>6, <1>7, <2>1, <2>4 DEF Longer
    <3>2. e[j] = d[j]
      BY <1>1, <1>3, <1>5, <2>1, <2>4, <3>1
    <3>3. w[j] = d[j]
      BY <1>1, <1>8, <1>9, <2>1, <2>4
    <3> QED
      BY <3>1, <3>2, <3>3
  <2> QED
    BY <1>1, <2>1, <2>2, <2>3, <2>4
<1>11. g = w
  BY <1>7, <1>8, <1>9, <1>10, SeqEqual
<1> QED
  BY <1>6, <1>11 DEF g, w, v, e, u

(* A write over what is itself to be written over something.               *)
LEMMA OverwrittenInside ==
  ASSUME NEW d \in Seq(Bytes), NEW o \in 0..Len(d), NEW p \in Seq(Bytes),
         NEW k \in 0..Len(p), NEW b \in Seq(Bytes)
  PROVE  /\ o + k \in 0..Len(Overwritten(d, o, p))
         /\ Overwritten(d, o, Overwritten(p, k, b))
              = Overwritten(Overwritten(d, o, p), o + k, b)
<1> DEFINE q == Overwritten(p, k, b)
           e == Overwritten(d, o, p)
           g == Overwritten(d, o, q)
           w == Overwritten(e, o + k, b)
<1>1. /\ Len(d) \in Nat /\ Len(b) \in Nat /\ Len(p) \in Nat
      /\ o \in Nat /\ o <= Len(d) /\ k \in Nat /\ k <= Len(p)
  BY LenProperties
<1>2. /\ q \in Seq(Bytes) /\ Len(q) = Longer(Len(p), k + Len(b))
      /\ \A j \in 1..Len(q) : q[j] = IF k < j /\ j <= k + Len(b) THEN b[j - k] ELSE p[j]
  BY Overwriting
<1>3. /\ e \in Seq(Bytes) /\ Len(e) = Longer(Len(d), o + Len(p))
      /\ \A j \in 1..Len(e) : e[j] = IF o < j /\ j <= o + Len(p) THEN p[j - o] ELSE d[j]
  BY Overwriting
<1> HIDE DEF q, e
<1>4. Len(e) \in Nat /\ o + k \in 0..Len(e) /\ Len(q) \in Nat
  BY <1>1, <1>2, <1>3, LenProperties DEF Longer
<1>5. /\ g \in Seq(Bytes) /\ Len(g) = Longer(Len(d), o + Len(q))
      /\ \A j \in 1..Len(g) : g[j] = IF o < j /\ j <= o + Len(q) THEN q[j - o] ELSE d[j]
  BY <1>2, Overwriting
<1>6. /\ w \in Seq(Bytes) /\ Len(w) = Longer(Len(e), o + k + Len(b))
      /\ \A j \in 1..Len(w) :
           w[j] = IF o + k < j /\ j <= o + k + Len(b) THEN b[j - (o + k)] ELSE e[j]
  BY <1>3, <1>4, Overwriting
<1> HIDE DEF g, w
<1>7. Len(g) = Len(w) /\ Len(w) \in Nat
  BY <1>1, <1>2, <1>3, <1>5, <1>6, LenProperties DEF Longer
<1>8. ASSUME NEW j \in 1..Len(g) PROVE g[j] = w[j]
  <2>1. j \in Nat /\ j >= 1 /\ j <= Len(g) /\ j <= Len(w)
    BY <1>7
  <2>2. CASE o < j /\ j <= o + Len(q)
    <3>1. j - o \in 1..Len(q) /\ g[j] = q[j - o]
      BY <1>1, <1>4, <1>5, <2>1, <2>2
    <3>2. q[j - o] = IF k < j - o /\ j - o <= k + Len(b) THEN b[j - o - k] ELSE p[j - o]
      BY <1>2, <3>1
    <3>3. CASE k < j - o /\ j - o <= k + Len(b)
      <4>1. w[j] = b[j - (o + k)] /\ j - (o + k) = j - o - k
        BY <1>1, <1>6, <2>1, <3>3
      <4> QED
        BY <3>1, <3>2, <3>3, <4>1
    <3>4. CASE ~(k < j - o /\ j - o <= k + Len(b))
      <4>1. j <= o + Len(p) /\ j \in 1..Len(e)
        <5>1. j <= o + Len(p)
          <6>1. CASE j - o <= k
            BY <1>1, <2>1, <6>1
          <6>2. CASE j - o > k
            BY <1>1, <1>2, <2>1, <2>2, <3>4, <6>2 DEF Longer
          <6> QED
            BY <1>1, <2>1, <6>1, <6>2
        <5>2. o + Len(p) <= Len(e)
          BY <1>1, <1>3 DEF Longer
        <5> QED
          BY <1>1, <1>4, <2>1, <5>1, <5>2
      <4>2. w[j] = e[j] /\ e[j] = p[j - o]
        BY <1>1, <1>3, <1>6, <2>1, <2>2, <3>4, <4>1
      <4> QED
        BY <3>1, <3>2, <3>4, <4>2
    <3> QED
      BY <3>3, <3>4
  <2>3. CASE ~(o < j /\ j <= o + Len(q))
    <3>1. g[j] = d[j]
      BY <1>5, <2>3
    <3>2. ~(o + k < j /\ j <= o + k + Len(b)) /\ ~(o < j /\ j <= o + Len(p)) /\ j \in 1..Len(e)
      BY <1>1, <1>2, <1>3, <1>4, <1>5, <2>1, <2>3 DEF Longer
    <3>3. w[j] = e[j] /\ e[j] = d[j]
      BY <1>3, <1>6, <2>1, <3>2
    <3> QED
      BY <3>1, <3>3
  <2> QED
    BY <2>2, <2>3
<1>9. g = w
  BY <1>5, <1>6, <1>7, <1>8, SeqEqual
<1> QED
  BY <1>4, <1>9 DEF g, w, q, e

(* What is written behind all the bytes overwrites none.                   *)
LEMMA OverwrittenAtEnd ==
  ASSUME NEW d \in Seq(Bytes), NEW b \in Seq(Bytes)
  PROVE  IsPrefix(d, Overwritten(d, Len(d), b))
<1> DEFINE e == Overwritten(d, Len(d), b)
<1>1. Len(d) \in Nat /\ Len(b) \in Nat /\ Len(d) \in 0..Len(d)
  BY LenProperties
<1>2. /\ e \in Seq(Bytes) /\ Len(e) = Longer(Len(d), Len(d) + Len(b))
      /\ \A j \in 1..Len(e) :
           e[j] = IF Len(d) < j /\ j <= Len(d) + Len(b) THEN b[j - Len(d)] ELSE d[j]
  BY <1>1, Overwriting
<1> HIDE DEF e
<1>3. Len(d) <= Len(e) /\ \A j \in 1..Len(d) : e[j] = d[j] /\ d[j] \in Bytes
  BY <1>1, <1>2, ElementOfSeq DEF Longer
<1> DEFINE u == SubSeq(e, 1, Len(d))
<1>4. u \in Seq(Bytes) /\ Len(u) = Len(d) /\ \A j \in 1..Len(d) : u[j] = e[j]
  <2>1. \A j \in 1..Len(d) : e[j] \in Bytes
    BY <1>3
  <2> QED
    BY <1>1, <2>1, SubSeqProperties
<1> HIDE DEF u
<1>5. \A j \in 1..Len(u) : u[j] = d[j]
  BY <1>3, <1>4
<1>6. u = d
  BY <1>4, <1>5, SeqEqual
<1>7. SubSeq(d, 1, Len(d)) = d
  BY SubSeqFull
<1> QED
  BY <1>3, <1>6, <1>7 DEF IsPrefix, u, e

-----------------------------------------------------------------------------
(* The helpers on objects: whose bytes they change, and into what.         *)
SameFds(m, n) ==
  \A f \in Fds : /\ n.fds[f].open = m.fds[f].open
                 /\ n.fds[f].obj = m.fds[f].obj
                 /\ n.fds[f].modes = m.fds[f].modes
                 /\ n.fds[f].fdoffset = m.fds[f].fdoffset

Puts(m, n, i, d) ==
  /\ DOMAIN n.objs = DOMAIN m.objs /\ n.pages = m.pages /\ n.ok = m.ok
  /\ \A o \in DOMAIN m.objs :
       /\ n.objs[o].header = m.objs[o].header
       /\ n.objs[o].data = IF o = i THEN d ELSE m.objs[o].data
  /\ SameFds(m, n)

LEMMA ObjectEventPuts ==
  ASSUME NEW m, IsMachine(m), NEW i, NEW size
  PROVE  LET n == ObjectEvent(m, i, size)
         IN n.objs = m.objs /\ n.pages = m.pages /\ n.ok = m.ok /\ SameFds(m, n)
<1> DEFINE n == ObjectEvent(m, i, size)
<1>1. /\ n.objs = m.objs /\ n.pages = m.pages /\ n.ok = m.ok
      /\ n.fds = [f \in Fds |->
           IF f \in OpenFds(m, i) THEN [m.fds[f] EXCEPT !.size = size] ELSE m.fds[f]]
  BY DEF IsMachine, ObjectEvent
<1> HIDE DEF n
<1>2. ASSUME NEW f \in Fds
      PROVE  /\ n.fds[f].open = m.fds[f].open /\ n.fds[f].obj = m.fds[f].obj
             /\ n.fds[f].modes = m.fds[f].modes /\ n.fds[f].fdoffset = m.fds[f].fdoffset
  <2>1. DOMAIN m.fds[f] = FdFields
    BY DEF IsMachine, Shaped
  <2>2. n.fds[f] = m.fds[f] \/ n.fds[f] = [m.fds[f] EXCEPT !.size = size]
    BY <1>1
  <2> QED
    BY <2>1, <2>2 DEF FdFields
<1> QED
  BY <1>1, <1>2 DEF SameFds, n

(* A new header for an object, and new bytes.                              *)
LEMMA UpdateIndexHdrPuts ==
  ASSUME NEW m, IsMachine(m), NEW i \in DOMAIN m.objs, DOMAIN m.objs[i] = {"header", "data"},
         NEW header, NEW size, NEW n, n = UpdateIndexHdr(m, i, header, size)
  PROVE  /\ DOMAIN n.objs = DOMAIN m.objs /\ n.pages = m.pages /\ n.ok = m.ok
         /\ n.objs[i].header = header /\ n.objs[i].data = m.objs[i].data
         /\ \A o \in DOMAIN m.objs \ {i} : n.objs[o] = m.objs[o]
         /\ SameFds(m, n)
<1> DEFINE w == [m EXCEPT !.objs[i].header = header, !.work = header]
<1>1. /\ IsMachine(w) /\ w.fds = m.fds /\ w.pages = m.pages /\ w.ok = m.ok
      /\ w.objs = [m.objs EXCEPT ![i].header = header]
  BY DEF IsMachine
<1>2. n = ObjectEvent(w, i, size)
  BY DEF UpdateIndexHdr
<1> HIDE DEF w
<1>3. n.objs = w.objs /\ n.pages = w.pages /\ n.ok = w.ok /\ SameFds(w, n)
  BY <1>1, <1>2, ObjectEventPuts
<1>4. /\ DOMAIN w.objs = DOMAIN m.objs
      /\ w.objs[i] = [m.objs[i] EXCEPT !.header = header]
      /\ \A o \in DOMAIN m.objs \ {i} : w.objs[o] = m.objs[o]
  BY <1>1
<1>5. w.objs[i].header = header /\ w.objs[i].data = m.objs[i].data
  BY <1>4
<1>6. SameFds(m, n)
  BY <1>1, <1>3 DEF SameFds
<1> QED
  BY <1>1, <1>3, <1>4, <1>5, <1>6

LEMMA DataPuts ==
  ASSUME NEW m, IsMachine(m), NEW i \in DOMAIN m.objs,
         DOMAIN m.objs[i] = {"header", "data"}, NEW d,
         NEW n, n = [m EXCEPT !.objs[i].data = d]
  PROVE  /\ Puts(m, n, i, d) /\ IsMachine(n) /\ n.fds = m.fds
         /\ DOMAIN n.objs[i] = {"header", "data"}
<1>1. /\ IsMachine(n) /\ n.fds = m.fds /\ n.pages = m.pages /\ n.ok = m.ok
      /\ n.objs = [m.objs EXCEPT ![i].data = d]
  BY DEF IsMachine
<1>2. /\ DOMAIN n.objs = DOMAIN m.objs
      /\ n.objs[i] = [m.objs[i] EXCEPT !.data = d]
      /\ \A o \in DOMAIN m.objs \ {i} : n.objs[o] = m.objs[o]
  BY <1>1
<1>3. /\ n.objs[i].header = m.objs[i].header /\ n.objs[i].data = d
      /\ DOMAIN n.objs[i] = {"header", "data"}
  BY <1>2
<1> QED
  BY <1>1, <1>2, <1>3 DEF Puts, SameFds

LEMMA ObjectModifyPuts ==
  ASSUME NEW m, IsMachine(m), NEW i \in DOMAIN m.objs,
         DOMAIN m.objs[i] = {"header", "data"}, NEW off, NEW b
  PROVE  Puts(m, ObjectModify(m, i, off, b), i, Overwritten(m.objs[i].data, off, b))
<1> DEFINE d == Overwritten(m.objs[i].data, off, b)
           w == [m EXCEPT !.objs[i].data = d]
           n == ObjectModify(m, i, off, b)
<1>1. n = [w EXCEPT !.work = m.objs[i].header]
  BY DEF ObjectModify, IsMachine
<1> HIDE DEF d
<1>2. Puts(m, w, i, d) /\ IsMachine(w)
  BY DataPuts
<1> HIDE DEF w, n
<1>3. n.objs = w.objs /\ n.fds = w.fds /\ n.pages = w.pages /\ n.ok = w.ok
  BY <1>1, <1>2 DEF IsMachine
<1>4. Puts(m, n, i, d)
  BY <1>2, <1>3 DEF Puts, SameFds
<1> QED
  BY <1>4 DEF n, d

(* New bytes, and the header once more.                                    *)
LEMMA HdrAgainPuts ==
  ASSUME NEW m, NEW w, NEW i \in DOMAIN m.objs, NEW d, Puts(m, w, i, d), IsMachine(w),
         DOMAIN w.objs[i] = {"header", "data"}, NEW size,
         NEW n, n = UpdateIndexHdr(w, i, m.objs[i].header, size)
  PROVE  Puts(m, n, i, d)
<1>1. i \in DOMAIN w.objs
  BY DEF Puts
<1>2. /\ DOMAIN n.objs = DOMAIN w.objs /\ n.pages = w.pages /\ n.ok = w.ok
      /\ n.objs[i].header = m.objs[i].header /\ n.objs[i].data = w.objs[i].data
      /\ \A o \in DOMAIN w.objs \ {i} : n.objs[o] = w.objs[o]
      /\ SameFds(w, n)
  BY <1>1, UpdateIndexHdrPuts
<1>3. /\ DOMAIN w.objs = DOMAIN m.objs /\ w.pages = m.pages /\ w.ok = m.ok
      /\ w.objs[i].data = d
      /\ \A o \in DOMAIN m.objs \ {i} : /\ w.objs[o].header = m.objs[o].header
                                        /\ w.objs[o].data = m.objs[o].data
      /\ SameFds(m, w)
  BY DEF Puts
<1>4. SameFds(m, n)
  BY <1>2, <1>3 DEF SameFds
<1>5. \A o \in DOMAIN m.objs : /\ n.objs[o].header = m.objs[o].header
                               /\ n.objs[o].data = IF o = i THEN d ELSE m.objs[o].data
  BY <1>2, <1>3
<1> QED
  BY <1>2, <1>3, <1>4, <1>5 DEF Puts

(* Behind the last byte, or over those of a gap that is none.              *)
LEMMA ObjectAppendPuts ==
  ASSUME NEW m, IsMachine(m), Sized(m), NEW f \in Fds, m.fds[f].open,
         NEW i \in DOMAIN m.objs, i = m.fds[f].obj,
         NEW off, off = Len(m.objs[i].data), NEW b \in Seq(Bytes)
  PROVE  Puts(m, ObjectAppend(m, f, off, b), i, Overwritten(m.objs[i].data, off, b))
<1> DEFINE size == m.fds[f].size
           at == Min({off, size})
           d == Overwritten(m.objs[i].data, off, b)
           w == [m EXCEPT !.objs[i].data = d]
           n == ObjectAppend(m, f, off, b)
<1>1. /\ m.objs[i].data \in Seq(Bytes) /\ off \in Nat /\ off <= MaxSize
      /\ DOMAIN m.objs[i] = {"header", "data"}
  BY LenProperties DEF Sized, ObjSized
<1>2. size \in Nat /\ Agrees(m.objs[i].data, size)
  BY DEF Sized, FdTyped, FdAgrees
<1>3. at = IF off <= size THEN off ELSE size
  BY <1>1, <1>2, MinOfTwo
<1>4. at = off /\ ~(size = UndefinedLen /\ at > 0)
  <2>1. m.objs[i].data = <<>> => off = 0
    OBVIOUS
  <2>2. (size \in {0, UndefinedLen} /\ off = 0) \/ size = off
    BY <1>2, <2>1 DEF Agrees
  <2>3. at \in Nat /\ at = IF off <= size THEN off ELSE size
    BY <1>1, <1>2, <1>3
  <2> HIDE DEF size, at
  <2>4. CASE size = off
    BY <1>1, <2>3, <2>4, SizesFacts
  <2>5. CASE size \in {0, UndefinedLen} /\ off = 0
    BY <2>3, <2>5, SizesFacts
  <2> QED
    BY <2>2, <2>4, <2>5
<1>5. n = UpdateIndexHdr(w, i, m.objs[i].header, off + Len(b))
  <2> HIDE DEF at
  <2>1. n = UpdateIndexHdr([m EXCEPT !.objs[i].data = Overwritten(@, at, b)], i,
                           m.objs[i].header, at + Len(b))
    BY <1>4 DEF ObjectAppend, at
  <2> QED
    BY <1>4, <2>1
<1> HIDE DEF d
<1>6. w = [m EXCEPT !.objs[i].data = d] /\ DOMAIN m.objs[i] = {"header", "data"}
  BY <1>1
<1> HIDE DEF w, n
<1>7. Puts(m, w, i, d) /\ IsMachine(w) /\ DOMAIN w.objs[i] = {"header", "data"}
  BY <1>6, DataPuts
<1>8. Puts(m, n, i, d)
  BY <1>5, <1>7, HdrAgainPuts
<1> QED
  BY <1>8 DEF n, d

(* A write to the flash is one whichever part of it overwrites bytes.      *)
LEMMA HydroWritePuts ==
  ASSUME NEW m, IsMachine(m), Sized(m), NEW f \in Fds, m.fds[f].open,
         NEW i \in DOMAIN m.objs, i = m.fds[f].obj,
         NEW off \in 0..Len(m.objs[i].data), NEW b \in Seq(Bytes), off + Len(b) <= MaxSize
  PROVE  Puts(m, HydroWrite(m, f, off, b), i, Overwritten(m.objs[i].data, off, b))
<1> DEFINE size == m.fds[f].size
           inside == IF size = UndefinedLen \/ off >= size THEN 0
                     ELSE Min({size - off, Len(b)})
           part == SubSeq(b, 1, inside)
           rest == SubSeq(b, inside + 1, Len(b))
           modified == ObjectModify(m, i, off, part)
           d == m.objs[i].data
           goal == Overwritten(d, off, b)
           n == HydroWrite(m, f, off, b)
<1>1. /\ size \in Nat /\ Agrees(d, size) /\ Len(b) \in Nat /\ off \in Nat /\ off <= Len(d)
      /\ d \in Seq(Bytes) /\ Len(d) \in Nat /\ Len(d) <= MaxSize
      /\ DOMAIN m.objs[i] = {"header", "data"}
  BY LenProperties DEF Sized, FdTyped, FdAgrees, ObjSized
<1>2. \/ size \in {0, UndefinedLen} /\ Len(d) = 0
      \/ size = Len(d) /\ size # UndefinedLen
  <2>1. d = <<>> => Len(d) = 0
    OBVIOUS
  <2>2. d = <<>> => size \in {0, UndefinedLen}
    BY <1>1 DEF Agrees
  <2>3. d # <<>> => size = Len(d)
    BY <1>1 DEF Agrees
  <2> HIDE DEF d, size
  <2>4. CASE d = <<>>
    BY <2>1, <2>2, <2>4
  <2>5. CASE d # <<>>
    BY <1>1, <2>3, <2>5, SizesFacts
  <2> QED
    BY <2>4, <2>5
<1>3. CASE inside = 0
  <2>1. n = IF Len(b) = 0 THEN m ELSE ObjectAppend(m, f, off + 0, SubSeq(b, 0 + 1, Len(b)))
    BY <1>3 DEF HydroWrite
  <2>2. SubSeq(b, 0 + 1, Len(b)) = b /\ off + 0 = off
    BY <1>1, SubSeqFull
  <2>3. Len(b) # 0 => off = Len(d)
    <3>1. CASE size # UndefinedLen /\ off < size
      <4>1. size - off \in Nat /\ size - off > 0
        BY <1>1, <3>1
      <4>2. inside = Min({size - off, Len(b)})
        BY <1>1, <3>1
      <4>3. inside = IF size - off <= Len(b) THEN size - off ELSE Len(b)
        BY <1>1, <4>1, <4>2, MinOfTwo
      <4> QED
        BY <1>3, <4>1, <4>3
    <3>2. CASE ~(size # UndefinedLen /\ off < size)
      <4> HIDE DEF size, d
      <4> QED
        BY <1>1, <1>2, <3>2
    <3> QED
      BY <3>1, <3>2
  <2>4. Len(b) = 0 => Puts(m, m, i, goal)
    <3>1. Len(b) = 0 => goal = d
      BY <1>1, OverwrittenByNothing
    <3> QED
      BY <3>1 DEF Puts, SameFds
  <2>5. Len(b) # 0 => Puts(m, ObjectAppend(m, f, off, b), i, goal)
    BY <2>3, ObjectAppendPuts
  <2> HIDE DEF goal, n
  <2>6. Puts(m, n, i, goal)
    BY <2>1, <2>2, <2>4, <2>5
  <2> QED
    BY <2>6 DEF goal, n
<1>4. CASE inside # 0
  <2>1. off < size /\ size # UndefinedLen /\ inside = Min({size - off, Len(b)})
    <3>1. off \in Nat /\ size \in Nat
      BY <1>1
    <3>2. ~(size = UndefinedLen \/ off >= size)
      BY <1>4
    <3> QED
      BY <3>1, <3>2
  <2>2. /\ inside \in 0..Len(b)
        /\ inside # Len(b) => off + inside = size
        /\ off + inside <= size
    <3>1. size \in Nat /\ off \in Nat /\ Len(b) \in Nat /\ off < size
      BY <1>1, <2>1
    <3> DEFINE left == size - off
    <3>2. left \in Nat /\ off + left = size
      BY <3>1
    <3>3. inside = Min({left, Len(b)})
      BY <2>1
    <3> HIDE DEF left, inside, size
    <3>4. inside = IF left <= Len(b) THEN left ELSE Len(b)
      BY <3>1, <3>2, <3>3, MinOfTwo
    <3> QED
      BY <3>1, <3>2, <3>4
  <2>3. n = IF inside = Len(b) THEN modified
            ELSE ObjectAppend(modified, f, off + inside, rest)
    BY <1>4 DEF HydroWrite
  <2> HIDE DEF inside
  <2>4. part \in Seq(Bytes) /\ Len(part) = inside
    <3>1. \A j \in 1..inside : b[j] \in Bytes
      BY <1>1, <2>2, ElementOfSeq
    <3> QED
      BY <1>1, <2>2, <3>1, SubSeqProperties
  <2>5. rest \in Seq(Bytes)
    <3>1. \A j \in (inside + 1)..Len(b) : b[j] \in Bytes
      BY <1>1, <2>2, ElementOfSeq
    <3>2. inside + 1 \in Int /\ Len(b) \in Int
      BY <1>1, <2>2
    <3> QED
      BY <3>1, <3>2, SubSeqProperties
  <2>6. Len(d) = size
    <3> HIDE DEF size, d
    <3> QED
      BY <1>1, <1>2, <2>1
  <2> DEFINE e == Overwritten(d, off, part)
  <2>7. Puts(m, modified, i, e)
    BY <1>1, ObjectModifyPuts
  <2>8. inside = Len(b) => part = b
    BY SubSeqFull
  <2>9. /\ off + inside \in 0..Len(e)
        /\ Overwritten(e, off + inside, rest) = goal
    <3>1. d \in Seq(Bytes) /\ off \in 0..Len(d)
      BY <1>1
    <3> HIDE DEF d, size
    <3> QED
      BY <2>2, <3>1, OverwrittenInParts
  <2>10. e \in Seq(Bytes) /\ Len(e) = Longer(Len(d), off + inside)
    <3>1. d \in Seq(Bytes) /\ off \in 0..Len(d)
      BY <1>1
    <3> HIDE DEF d, size, part
    <3> QED
      BY <2>4, <3>1, Overwriting
  <2>11. Sized(modified) /\ IsMachine(modified) /\ modified.fds = m.fds
    <3>1. off + Len(part) <= Len(m.objs[i].data)
      BY <2>2, <2>4, <2>6
    <3>2. off \in Nat /\ part \in Seq(Bytes)
      BY <1>1, <2>4
    <3> HIDE DEF part
    <3>3. Sized(modified) /\ modified.fds = m.fds
      BY <3>1, <3>2, ObjectModifySized
    <3>4. IsMachine(modified)
      BY ObjectModifySame DEF Same
    <3> QED
      BY <3>3, <3>4
  <2> HIDE DEF part, rest, modified, e
  <2>12. modified.objs[i].data = e /\ i \in DOMAIN modified.objs
    BY <2>7 DEF Puts
  <2> DEFINE a == ObjectAppend(modified, f, off + inside, rest)
  <2>13. inside # Len(b) => Puts(modified, a, i, Overwritten(e, off + inside, rest))
    <3> SUFFICES ASSUME inside # Len(b)
                 PROVE  Puts(modified, a, i, Overwritten(e, off + inside, rest))
      OBVIOUS
    <3>1. off + inside = Len(modified.objs[i].data)
      <4> HIDE DEF d, size
      <4> QED
        BY <1>1, <2>2, <2>6, <2>10, <2>12 DEF Longer
    <3>2. modified.fds[f].open /\ i = modified.fds[f].obj
      BY <2>11
    <3> QED
      BY <2>5, <2>11, <2>12, <3>1, <3>2, ObjectAppendPuts
  <2> HIDE DEF a, n, goal
  <2>14. Puts(m, n, i, goal)
    <3>1. CASE inside = Len(b)
      <4>1. e = goal
        BY <2>8, <3>1 DEF e, goal
      <4> QED
        BY <2>3, <2>7, <3>1, <4>1
    <3>2. CASE inside # Len(b)
      <4>1. Puts(modified, a, i, goal) /\ n = a
        BY <2>3, <2>9, <2>13, <3>2 DEF a
      <4> QED
        BY <2>7, <4>1 DEF Puts, SameFds
    <3> QED
      BY <3>1, <3>2
  <2> QED
    BY <2>14 DEF n, goal
<1> QED
  BY <1>3, <1>4

-----------------------------------------------------------------------------
(* What programs see of an object: Seen, of any machine.                   *)
Contents(m, i) ==
  IF \E p \in Pages : m.pages[p].obj = i
  THEN LET p == CHOOSE p \in Pages : m.pages[p].obj = i
       IN Overwritten(m.objs[i].data, m.pages[p].offset, m.pages[p].data)
  ELSE m.objs[i].data

(* The invariant.  Neither the bytes of a page nor a descriptor are beyond *)
(* what there is of the object: there a write would leave a gap, which the *)
(* code closes by writing elsewhere.                                       *)
PagesPlaced(m) ==
  \A p \in Pages : m.pages[p].obj # 0
    => /\ m.pages[p].obj \in DOMAIN m.objs
       /\ m.pages[p].offset <= Len(m.objs[m.pages[p].obj].data)

FdsPlaced(m) ==
  \A f \in Fds : m.fds[f].open => m.fds[f].fdoffset <= Len(Contents(m, m.fds[f].obj))

LEMMA ContentsInPage ==
  ASSUME NEW m, OnePageEach(m.pages), NEW p \in Pages, NEW i, m.pages[p].obj = i, i # 0
  PROVE  Contents(m, i) = Overwritten(m.objs[i].data, m.pages[p].offset, m.pages[p].data)
<1> DEFINE q == CHOOSE r \in Pages : m.pages[r].obj = i
<1>1. q \in Pages /\ m.pages[q].obj = i
  OBVIOUS
<1>2. Contents(m, i) = Overwritten(m.objs[i].data, m.pages[q].offset, m.pages[q].data)
  BY DEF Contents
<1> HIDE DEF q
<1>3. q = p
  BY <1>1 DEF OnePageEach
<1> QED
  BY <1>2, <1>3

LEMMA ContentsBare ==
  ASSUME NEW m, NEW i, \A p \in Pages : m.pages[p].obj # i
  PROVE  Contents(m, i) = m.objs[i].data
BY DEF Contents

(* They are bytes, at least as many as on the flash.                       *)
LEMMA ContentsFacts ==
  ASSUME NEW m, Sound(m), Sized(m), PagesPlaced(m), NEW i \in DOMAIN m.objs
  PROVE  /\ m.objs[i].data \in Seq(Bytes) /\ Contents(m, i) \in Seq(Bytes)
         /\ Len(m.objs[i].data) \in Nat /\ Len(Contents(m, i)) \in Nat
         /\ Len(m.objs[i].data) <= Len(Contents(m, i))
         /\ i # 0
<1>1. /\ m.objs[i].data \in Seq(Bytes) /\ Len(m.objs[i].data) \in Nat
      /\ i # 0 /\ OnePageEach(m.pages)
  BY LenProperties DEF Sound, Sized, ObjSized, Ids, Owned
<1>2. CASE \A p \in Pages : m.pages[p].obj # i
  <2>1. Contents(m, i) = m.objs[i].data
    BY <1>2, ContentsBare
  <2> QED
    BY <1>1, <2>1
<1>3. CASE \E p \in Pages : m.pages[p].obj = i
  <2>1. PICK p \in Pages : m.pages[p].obj = i
    BY <1>3
  <2> DEFINE o == m.pages[p].offset
             b == m.pages[p].data
             d == m.objs[i].data
             e == Overwritten(d, o, b)
  <2>2. Contents(m, i) = e
    BY <1>1, <2>1, ContentsInPage
  <2>3. o \in 0..Len(d) /\ b \in Seq(Bytes) /\ Len(b) \in Nat
    BY <1>1, <2>1, LenProperties DEF PagesPlaced, Sized, PageSized
  <2> HIDE DEF o, b, d
  <2>4. e \in Seq(Bytes) /\ Len(e) = Longer(Len(d), o + Len(b))
    BY <1>1, <2>3, Overwriting DEF d
  <2> HIDE DEF e
  <2>5. Len(e) \in Nat /\ Len(d) <= Len(e)
    BY <1>1, <2>3, <2>4, LenProperties DEF Longer, d
  <2> QED
    BY <1>1, <2>2, <2>4, <2>5 DEF d
<1> QED
  BY <1>2, <1>3

(* They depend on the object and its page.                                 *)
LEMMA ContentsAlike ==
  ASSUME NEW m, NEW n, OnePageEach(m.pages), OnePageEach(n.pages), NEW i, i # 0,
         n.objs[i].data = m.objs[i].data,
         \A p \in Pages : m.pages[p].obj = i \/ n.pages[p].obj = i => n.pages[p] = m.pages[p]
  PROVE  Contents(n, i) = Contents(m, i)
<1>1. CASE \A p \in Pages : m.pages[p].obj # i
  <2>1. \A p \in Pages : n.pages[p].obj # i
    BY <1>1
  <2>2. Contents(m, i) = m.objs[i].data /\ Contents(n, i) = n.objs[i].data
    BY <1>1, <2>1, ContentsBare
  <2> QED
    BY <2>2
<1>2. CASE \E p \in Pages : m.pages[p].obj = i
  <2>1. PICK p \in Pages : m.pages[p].obj = i
    BY <1>2
  <2>2. n.pages[p] = m.pages[p] /\ n.pages[p].obj = i
    BY <2>1
  <2>3. Contents(m, i) = Overwritten(m.objs[i].data, m.pages[p].offset, m.pages[p].data)
    BY <2>1, ContentsInPage
  <2>4. Contents(n, i) = Overwritten(n.objs[i].data, n.pages[p].offset, n.pages[p].data)
    BY <2>2, ContentsInPage
  <2> QED
    BY <2>2, <2>3, <2>4
<1> QED
  BY <1>1, <1>2

(* A step that gives the object i the contents d, and leaves all others    *)
(* and the descriptors' places alone.  What is on the flash of it is as    *)
(* before, or with the bytes that were pending, or with the new ones.      *)
Wrote(m, n, i, d) ==
  /\ n.ok = m.ok /\ DOMAIN n.objs = DOMAIN m.objs
  /\ SameFds(m, n)
  /\ PagesPlaced(n)
  /\ \A o \in DOMAIN m.objs :
       /\ n.objs[o].header = m.objs[o].header
       /\ Contents(n, o) = IF o = i THEN d ELSE Contents(m, o)
       /\ o # i => n.objs[o].data = m.objs[o].data
  /\ n.objs[i].data \in {m.objs[i].data, Contents(m, i), d}

(* A page is released.                                                     *)
LEMMA FdReleaseKeeps ==
  ASSUME NEW m, IsMachine(m), NEW p
  PROVE  LET n == FdRelease(m, p)
         IN n.objs = m.objs /\ n.ok = m.ok /\ SameFds(m, n)
<1> DEFINE n == FdRelease(m, p)
<1>1. /\ n.objs = m.objs /\ n.ok = m.ok
      /\ n.fds = [f \in Fds |-> IF m.fds[f].open /\ m.fds[f].page = p
                                THEN [m.fds[f] EXCEPT !.page = 0] ELSE m.fds[f]]
  BY DEF FdRelease, IsMachine
<1> HIDE DEF n
<1>2. ASSUME NEW f \in Fds
      PROVE  /\ n.fds[f].open = m.fds[f].open /\ n.fds[f].obj = m.fds[f].obj
             /\ n.fds[f].modes = m.fds[f].modes /\ n.fds[f].fdoffset = m.fds[f].fdoffset
  <2>1. DOMAIN m.fds[f] = FdFields
    BY DEF IsMachine, Shaped
  <2>2. n.fds[f] = m.fds[f] \/ n.fds[f] = [m.fds[f] EXCEPT !.page = 0]
    BY <1>1
  <2> QED
    BY <2>1, <2>2 DEF FdFields
<1> QED
  BY <1>1, <1>2 DEF SameFds, n

(* The bytes of a page go where programs saw them, whichever descriptor of *)
(* the object they go through.                                             *)
LEMMA WriteBackKeeps ==
  ASSUME NEW m, Sound(m), Sized(m), PagesPlaced(m), NEW f \in Fds, m.fds[f].open,
         NEW i, i = m.fds[f].obj, NEW p \in Pages, m.pages[p].obj = i,
         NEW n, n = WriteBack(m, f, p)
  PROVE  Wrote(m, n, i, Contents(m, i)) /\ n.objs[i].data = Contents(m, i)
<1> DEFINE off == m.pages[p].offset
           b == m.pages[p].data
           w == HydroWrite(m, f, off, b)
           d == Overwritten(m.objs[i].data, off, b)
<1>1. IsMachine(m) /\ OnePageEach(m.pages) /\ i \in DOMAIN m.objs /\ i # 0
  BY DEF Sound, Owned, Ids
<1>2. /\ off \in 0..Len(m.objs[i].data) /\ b \in Seq(Bytes) /\ off + Len(b) <= MaxSize
  <2>1. off \in Nat /\ b \in Seq(Bytes) /\ off + Len(b) <= MaxSize
    BY DEF Sized, PageSized
  <2>2. off <= Len(m.objs[i].data)
    BY <1>1 DEF PagesPlaced
  <2>3. Len(m.objs[i].data) \in Nat
    BY <1>1, ContentsFacts
  <2> HIDE DEF off, b
  <2> QED
    BY <2>1, <2>2, <2>3
<1>3. d = Contents(m, i)
  BY <1>1, ContentsInPage
<1> HIDE DEF off, b
<1>4. Puts(m, w, i, d)
  BY <1>1, <1>2, HydroWritePuts
<1>5. n = FdRelease(w, p)
  BY DEF WriteBack, off, b
<1>6. Sound(w) /\ IsMachine(w)
  BY <1>1, HydroWriteSame, SameIsSound DEF Sound
<1> HIDE DEF w, d
<1>7. n.objs = w.objs /\ n.ok = w.ok /\ SameFds(w, n)
  BY <1>5, <1>6, FdReleaseKeeps
<1>8. /\ Sound(n) /\ n.pages[p] = NoWrite
      /\ \A q \in Pages \ {p} : n.pages[q] = m.pages[q]
  <2>1. w.pages = m.pages
    BY <1>4 DEF Puts
  <2> QED
    BY <1>5, <1>6, <2>1, FdReleaseSound
<1>9. NoWrite.obj = 0
  BY DEF NoWrite
<1>10. \A q \in Pages : n.pages[q].obj # i
  BY <1>1, <1>8, <1>9 DEF OnePageEach
<1>11. Contents(n, i) = d /\ n.objs[i].data = d
  BY <1>1, <1>4, <1>7, <1>10, ContentsBare DEF Puts
<1>12. ASSUME NEW o \in DOMAIN m.objs, o # i
       PROVE  n.objs[o].data = m.objs[o].data /\ Contents(n, o) = Contents(m, o)
  <2>1. n.objs[o].data = m.objs[o].data
    BY <1>4, <1>7, <1>12 DEF Puts
  <2>2. o # 0 /\ OnePageEach(n.pages)
    BY <1>8 DEF Sound, Owned, Ids
  <2>3. \A q \in Pages : m.pages[q].obj = o \/ n.pages[q].obj = o => n.pages[q] = m.pages[q]
    BY <1>8, <1>9, <1>12, <2>2
  <2> QED
    BY <1>1, <2>1, <2>2, <2>3, ContentsAlike
<1>13. PagesPlaced(n)
  <2> SUFFICES ASSUME NEW q \in Pages, n.pages[q].obj # 0
               PROVE  /\ n.pages[q].obj \in DOMAIN n.objs
                      /\ n.pages[q].offset <= Len(n.objs[n.pages[q].obj].data)
    BY DEF PagesPlaced
  <2>1. n.pages[q] = m.pages[q] /\ n.pages[q].obj # i
    BY <1>8, <1>9, <1>10
  <2>2. /\ m.pages[q].obj \in DOMAIN m.objs
        /\ m.pages[q].offset <= Len(m.objs[m.pages[q].obj].data)
    BY <2>1 DEF PagesPlaced
  <2>3. DOMAIN n.objs = DOMAIN m.objs
    BY <1>4, <1>7 DEF Puts
  <2> QED
    BY <1>12, <2>1, <2>2, <2>3
<1> QED
  BY <1>3, <1>4, <1>7, <1>11, <1>12, <1>13 DEF Wrote, Puts, SameFds

(* A flush changes nothing that programs see, and then it is on the flash. *)
LEMMA FlushedKeeps ==
  ASSUME NEW m, Sound(m), Sized(m), PagesPlaced(m), NEW f \in Fds, m.fds[f].open,
         NEW i, i = m.fds[f].obj, NEW n, n = Flushed(m, f)
  PROVE  Wrote(m, n, i, Contents(m, i)) /\ n.objs[i].data = Contents(m, i)
<1> DEFINE p == CachePage(m, f)
<1>1. /\ p = 0 => \A q \in Pages : m.pages[q].obj # i
      /\ p # 0 => p \in Pages /\ m.pages[p].obj = i
  BY CachePageFacts
<1>2. n = IF p = 0 THEN m ELSE WriteBack(m, f, p)
  BY DEF Flushed
<1> HIDE DEF p
<1>3. CASE p = 0
  <2>1. Contents(m, i) = m.objs[i].data
    BY <1>1, <1>3, ContentsBare
  <2> QED
    BY <1>2, <1>3, <2>1 DEF Wrote, SameFds
<1>4. CASE p # 0
  BY <1>1, <1>2, <1>4, WriteBackKeeps
<1> QED
  BY <1>3, <1>4

(* Two such steps, the first of them a flush.                              *)
LEMMA WroteAfterFlush ==
  ASSUME NEW m, NEW k, NEW n, NEW i \in DOMAIN m.objs, NEW d,
         Wrote(m, k, i, Contents(m, i)), k.objs[i].data = Contents(m, i), Wrote(k, n, i, d)
  PROVE  Wrote(m, n, i, d)
<1>1. DOMAIN k.objs = DOMAIN m.objs /\ Contents(k, i) = Contents(m, i)
  BY DEF Wrote
<1>2. n.objs[i].data \in {m.objs[i].data, Contents(m, i), d}
  BY <1>1 DEF Wrote
<1>3. ASSUME NEW o \in DOMAIN m.objs
      PROVE  /\ n.objs[o].header = m.objs[o].header
             /\ Contents(n, o) = IF o = i THEN d ELSE Contents(m, o)
             /\ o # i => n.objs[o].data = m.objs[o].data
  BY <1>1 DEF Wrote
<1>4. SameFds(m, n)
  BY DEF Wrote, SameFds
<1> QED
  BY <1>1, <1>2, <1>3, <1>4 DEF Wrote

(* Bytes of an object that has no page.                                    *)
LEMMA BarePuts ==
  ASSUME NEW m, Sound(m), PagesPlaced(m), NEW i \in DOMAIN m.objs,
         \A p \in Pages : m.pages[p].obj # i, NEW d, NEW n, Puts(m, n, i, d)
  PROVE  Wrote(m, n, i, d)
<1>1. n.pages = m.pages /\ OnePageEach(m.pages) /\ DOMAIN n.objs = DOMAIN m.objs
  BY DEF Puts, Sound, Owned
<1>2. Contents(n, i) = d /\ n.objs[i].data = d
  <2>1. n.objs[i].data = d /\ \A p \in Pages : n.pages[p].obj # i
    BY <1>1 DEF Puts
  <2> QED
    BY <2>1, ContentsBare
<1>3. ASSUME NEW o \in DOMAIN m.objs, o # i PROVE Contents(n, o) = Contents(m, o)
  <2>1. o # 0 /\ n.objs[o].data = m.objs[o].data /\ OnePageEach(n.pages)
    BY <1>1, <1>3 DEF Puts, Sound, Ids
  <2>2. \A p \in Pages : m.pages[p].obj = o \/ n.pages[p].obj = o => n.pages[p] = m.pages[p]
    BY <1>1
  <2> QED
    BY <1>1, <2>1, <2>2, ContentsAlike
<1>4. PagesPlaced(n)
  <2> SUFFICES ASSUME NEW p \in Pages, n.pages[p].obj # 0
               PROVE  /\ n.pages[p].obj \in DOMAIN n.objs
                      /\ n.pages[p].offset <= Len(n.objs[n.pages[p].obj].data)
    BY DEF PagesPlaced
  <2>1. /\ m.pages[p].obj \in DOMAIN m.objs /\ m.pages[p].obj # i
        /\ m.pages[p].offset <= Len(m.objs[m.pages[p].obj].data)
    BY <1>1 DEF PagesPlaced
  <2> QED
    BY <1>1, <2>1 DEF Puts
<1> QED
  BY <1>2, <1>3, <1>4 DEF Wrote, Puts

(* Bytes put into a page of the object, or into an idle one.               *)
LEMMA PageFilled ==
  ASSUME NEW m, Sound(m), PagesPlaced(m), NEW i \in DOMAIN m.objs,
         NEW p \in Pages, m.pages[p].obj \in {0, i},
         NEW n, Sound(n), n.objs = m.objs, n.ok = m.ok, SameFds(m, n),
         n.pages[p].obj = i, n.pages[p].offset <= Len(m.objs[i].data),
         \A q \in Pages \ {p} : n.pages[q] = m.pages[q]
  PROVE  Wrote(m, n, i, Overwritten(m.objs[i].data, n.pages[p].offset, n.pages[p].data))
<1>1. /\ OnePageEach(m.pages) /\ OnePageEach(n.pages) /\ i # 0
      /\ \A o \in DOMAIN m.objs : o # 0
  BY DEF Sound, Owned, Ids
<1>2. Contents(n, i) = Overwritten(m.objs[i].data, n.pages[p].offset, n.pages[p].data)
  <2>1. Contents(n, i) = Overwritten(n.objs[i].data, n.pages[p].offset, n.pages[p].data)
    BY <1>1, ContentsInPage
  <2> QED
    BY <2>1
<1>3. ASSUME NEW o \in DOMAIN m.objs, o # i PROVE Contents(n, o) = Contents(m, o)
  <2>1. \A q \in Pages : m.pages[q].obj = o \/ n.pages[q].obj = o => n.pages[q] = m.pages[q]
    BY <1>1, <1>3
  <2>2. o # 0 /\ n.objs[o].data = m.objs[o].data
    BY <1>1
  <2> QED
    BY <1>1, <2>1, <2>2, ContentsAlike
<1>4. PagesPlaced(n)
  <2> SUFFICES ASSUME NEW q \in Pages, n.pages[q].obj # 0
               PROVE  /\ n.pages[q].obj \in DOMAIN n.objs
                      /\ n.pages[q].offset <= Len(n.objs[n.pages[q].obj].data)
    BY DEF PagesPlaced
  <2>1. CASE q = p
    BY <2>1
  <2>2. CASE q # p
    BY <2>2 DEF PagesPlaced
  <2> QED
    BY <2>1, <2>2
<1> QED
  BY <1>2, <1>3, <1>4 DEF Wrote

LEMMA PageOfFdPuts ==
  ASSUME NEW m, IsMachine(m), NEW p, NEW f \in Fds,
         NEW n, n.fds = [m.fds EXCEPT ![f].page = p]
  PROVE  SameFds(m, n)
<1>1. ASSUME NEW g \in Fds
      PROVE  /\ n.fds[g].open = m.fds[g].open /\ n.fds[g].obj = m.fds[g].obj
             /\ n.fds[g].modes = m.fds[g].modes /\ n.fds[g].fdoffset = m.fds[g].fdoffset
  <2>1. DOMAIN m.fds[g] = FdFields /\ DOMAIN m.fds = Fds
    BY DEF IsMachine, Shaped
  <2>2. n.fds[g] = m.fds[g] \/ n.fds[g] = [m.fds[g] EXCEPT !.page = p]
    BY <2>1
  <2> QED
    BY <2>1, <2>2 DEF FdFields
<1> QED
  BY <1>1 DEF SameFds

-----------------------------------------------------------------------------
(* Writing.                                                                *)
LEMMA MaxIsLonger ==
  ASSUME NEW a \in Nat, NEW b \in Nat
  PROVE  Max({a, b}) = Longer(a, b)
<1> DEFINE l == Longer(a, b)
<1>1. l \in {a, b} /\ \A y \in {a, b} : l >= y
  BY DEF Longer
<1>2. Max({a, b}) \in {a, b} /\ \A y \in {a, b} : Max({a, b}) >= y
  <2>1. \E x \in {a, b} : \A y \in {a, b} : x >= y
    BY <1>1
  <2> QED
    BY <2>1 DEF Max
<1> QED
  BY <1>1, <1>2

PlacedInv == SizedInv /\ PagesPlaced(Now) /\ FdsPlaced(Now)

(* A write starts within what programs see of the file, and with O_APPEND  *)
(* at its end, whoever has bytes pending.                                  *)
LEMMA WriteStart ==
  ASSUME PlacedInv, NEW f \in Fds, fds[f].open, NEW i, i = fds[f].obj,
         NEW p, p = CachePage(Now, f)
  PROVE  /\ i \in DOMAIN objs
         /\ WriteOffset(f, p) \in 0..Len(Contents(Now, i))
         /\ "append" \in fds[f].modes => WriteOffset(f, p) = Len(Contents(Now, i))
         /\ p = 0 => \A q \in Pages : pages[q].obj # i
         /\ p # 0 => p \in Pages /\ pages[p].obj = i
<1>1. /\ Sound(Now) /\ Sized(Now) /\ PagesPlaced(Now) /\ FdsPlaced(Now)
      /\ Now.fds = fds /\ Now.pages = pages /\ Now.objs = objs
  BY NowFacts DEF PlacedInv, SizedInv, IInv
<1>2. i \in DOMAIN objs
  BY <1>1 DEF Sound, Owned
<1>3. /\ p = 0 => \A q \in Pages : pages[q].obj # i
      /\ p # 0 => p \in Pages /\ pages[p].obj = i
  <2>1. Now.fds[f].open
    BY <1>1
  <2> QED
    BY <1>1, <2>1, CachePageFacts
<1> DEFINE d == objs[i].data
           c == Contents(Now, i)
           size == fds[f].size
           onFlash == IF size = UndefinedLen THEN 0 ELSE size
           pending == IF p = 0 THEN 0 ELSE pages[p].offset + Len(pages[p].data)
<1>4. d \in Seq(Bytes) /\ c \in Seq(Bytes) /\ Len(d) \in Nat /\ Len(c) \in Nat /\ i # 0
  BY <1>1, <1>2, ContentsFacts
<1>5. onFlash = Len(d)
  <2>1. Agrees(d, size) /\ Len(d) <= MaxSize
    BY <1>1, <1>2 DEF Sized, FdAgrees, ObjSized
  <2>2. d = <<>> => size \in {0, UndefinedLen} /\ Len(d) = 0
    BY <2>1 DEF Agrees
  <2>3. d # <<>> => size = Len(d)
    BY <2>1 DEF Agrees
  <2> HIDE DEF d, size
  <2>4. CASE d = <<>>
    BY <2>2, <2>4
  <2>5. CASE d # <<>>
    BY <1>4, <2>1, <2>3, <2>5, SizesFacts
  <2> QED
    BY <2>4, <2>5
<1>6. pending \in Nat /\ Len(c) = Longer(Len(d), pending)
  <2>1. CASE p = 0
    <3>1. c = d
      BY <1>1, <1>3, <2>1, ContentsBare
    <3> QED
      BY <1>4, <2>1, <3>1 DEF Longer
  <2>2. CASE p # 0
    <3> DEFINE o == pages[p].offset
               b == pages[p].data
    <3>1. o \in Nat /\ b \in Seq(Bytes) /\ o <= Len(d)
      BY <1>1, <1>3, <1>4, <2>2 DEF Sized, PageSized, PagesPlaced
    <3>2. c = Overwritten(d, o, b)
      <4>1. OnePageEach(Now.pages)
        BY <1>1 DEF Sound, Owned
      <4> QED
        BY <1>1, <1>3, <1>4, <2>2, <4>1, ContentsInPage
    <3> HIDE DEF o, b, d, c
    <3>3. o \in 0..Len(d)
      BY <1>4, <3>1
    <3>4. Len(c) = Longer(Len(d), o + Len(b)) /\ Len(b) \in Nat
      BY <1>4, <3>1, <3>2, <3>3, Overwriting, LenProperties
    <3> QED
      BY <2>2, <3>1, <3>4 DEF o, b
  <2> QED
    BY <2>1, <2>2
<1>7. CASE "append" \notin fds[f].modes
  <2>1. WriteOffset(f, p) = fds[f].fdoffset
    BY <1>7 DEF WriteOffset
  <2>2. fds[f].fdoffset \in Nat /\ fds[f].fdoffset <= Len(c)
    BY <1>1 DEF FdsPlaced, Sized, FdTyped
  <2> HIDE DEF c
  <2>3. WriteOffset(f, p) \in 0..Len(c)
    BY <1>4, <2>1, <2>2
  <2> QED
    BY <1>2, <1>3, <1>7, <2>3 DEF c
<1>8. CASE "append" \in fds[f].modes
  <2>1. WriteOffset(f, p) = Max({onFlash, pending})
    BY <1>8 DEF WriteOffset
  <2> HIDE DEF onFlash, pending, c, d
  <2>2. WriteOffset(f, p) = Len(c)
    BY <1>4, <1>5, <1>6, <2>1, MaxIsLonger
  <2> QED
    BY <1>2, <1>3, <1>4, <2>2 DEF c
<1> QED
  BY <1>7, <1>8

(* The machine a write that does not fit its page goes on from.            *)
LEMMA SharedKeeps ==
  ASSUME PlacedInv, NEW f \in Fds, fds[f].open, NEW p \in Pages, pages[p].obj = fds[f].obj,
         NEW m, m = [Now EXCEPT !.fds[f].page = p]
  PROVE  /\ Sound(m) /\ Sized(m) /\ PagesPlaced(m) /\ SameFds(Now, m)
         /\ m.objs = Now.objs /\ m.pages = Now.pages /\ m.ok = Now.ok
<1>1. /\ OwnInv /\ Sound(Now) /\ IsMachine(Now) /\ Sized(Now) /\ PagesPlaced(Now)
      /\ Now.fds = fds /\ Now.pages = pages /\ Now.objs = objs
  BY NowFacts DEF PlacedInv, SizedInv, IInv, Sound
<1>2. Sound(m)
  BY <1>1, SharedIsOpen
<1>3. /\ m.objs = Now.objs /\ m.pages = Now.pages /\ m.ok = Now.ok
      /\ m.fds = [Now.fds EXCEPT ![f].page = p]
  BY <1>1 DEF IsMachine
<1>4. ASSUME NEW g \in Fds
      PROVE  /\ m.fds[g].open = Now.fds[g].open /\ m.fds[g].obj = Now.fds[g].obj
             /\ m.fds[g].modes = Now.fds[g].modes /\ m.fds[g].fdoffset = Now.fds[g].fdoffset
             /\ m.fds[g].size = Now.fds[g].size
  <2>1. DOMAIN Now.fds[g] = FdFields /\ DOMAIN Now.fds = Fds
    BY <1>1 DEF IsMachine, Shaped
  <2>2. m.fds[g] = Now.fds[g] \/ m.fds[g] = [Now.fds[g] EXCEPT !.page = p]
    BY <1>3, <2>1
  <2> QED
    BY <2>1, <2>2 DEF FdFields
<1>5. SameFds(Now, m) /\ SameSizes(Now, m)
  BY <1>3, <1>4 DEF SameFds, SameSizes
<1>6. Sized(m) /\ PagesPlaced(m)
  BY <1>1, <1>3, <1>5, SameSizesSized DEF PagesPlaced
<1> QED
  BY <1>2, <1>3, <1>5, <1>6

LEMMA SameSeen ==
  ASSUME NEW m, NEW n, m.objs = n.objs, m.pages = n.pages, NEW i
  PROVE  Contents(m, i) = Contents(n, i)
BY DEF Contents

LEMMA EmptiedKeeps ==
  ASSUME PlacedInv, NEW f \in Fds, fds[f].open, NEW i, i = fds[f].obj,
         NEW n, n = Emptied(f)
  PROVE  /\ Sound(n) /\ Sized(n) /\ \A q \in Pages : n.pages[q].obj # i
         /\ Wrote(Now, n, i, Contents(Now, i)) /\ n.objs[i].data = Contents(Now, i)
<1> DEFINE p == CachePage(Now, f)
           m == [Now EXCEPT !.fds[f].page = p]
<1>1. /\ OwnInv /\ Sound(Now) /\ Sized(Now) /\ PagesPlaced(Now)
      /\ Now.fds = fds /\ Now.pages = pages
  BY NowFacts DEF PlacedInv, SizedInv, IInv
<1>2. /\ p = 0 => \A q \in Pages : pages[q].obj # i
      /\ p # 0 => p \in Pages /\ pages[p].obj = i
  BY WriteStart
<1>3. Sound(n) /\ \A q \in Pages : n.pages[q].obj # i
  BY <1>1, EmptiedSound
<1>4. n = IF p = 0 THEN Now ELSE WriteBack(m, f, p)
  BY DEF Emptied
<1>5. m = [Now EXCEPT !.fds[f].page = p]
  OBVIOUS
<1> HIDE DEF p, m
<1>6. CASE p = 0
  <2>1. Contents(Now, i) = Now.objs[i].data
    BY <1>1, <1>2, <1>6, ContentsBare
  <2> QED
    BY <1>1, <1>3, <1>4, <1>6, <2>1 DEF Wrote, SameFds
<1>7. CASE p # 0
  <2>1. /\ Sound(m) /\ Sized(m) /\ PagesPlaced(m) /\ SameFds(Now, m)
        /\ m.objs = Now.objs /\ m.pages = Now.pages /\ m.ok = Now.ok
    BY <1>2, <1>5, <1>7, SharedKeeps
  <2>2. m.fds[f].open /\ i = m.fds[f].obj
    BY <1>1, <2>1 DEF SameFds
  <2>3. n = WriteBack(m, f, p) /\ p \in Pages /\ m.pages[p].obj = i
    BY <1>1, <1>2, <1>4, <1>7, <2>1
  <2>4. Wrote(m, n, i, Contents(m, i)) /\ n.objs[i].data = Contents(m, i)
    BY <2>1, <2>2, <2>3, WriteBackKeeps
  <2>5. Sized(n)
    BY <2>1, <2>2, <2>3, WriteBackSized
  <2>6. \A o : Contents(m, o) = Contents(Now, o)
    BY <2>1, SameSeen
  <2>7. Wrote(Now, n, i, Contents(Now, i)) /\ n.objs[i].data = Contents(Now, i)
    BY <2>1, <2>4, <2>6 DEF Wrote, SameFds
  <2> QED
    BY <1>3, <2>5, <2>7
<1> QED
  BY <1>6, <1>7

(* Every way through SPIFFS_write writes the bytes where it is to write.   *)
LEMMA WrittenContents ==
  ASSUME PlacedInv, NEW f \in Fds, fds[f].open, NEW i, i = fds[f].obj,
         NEW b \in Seq(Bytes), NEW off, off = WriteOffset(f, CachePage(Now, f)),
         off + Len(b) <= MaxSize, NEW n \in Written(f, b)
  PROVE  Wrote(Now, n, i, Overwritten(Contents(Now, i), off, b))
<1> DEFINE p == CachePage(Now, f)
           shared == [Now EXCEPT !.fds[f].page = p]
           flushed == IF p = 0 THEN Now ELSE WriteBack(shared, f, p)
           direct == IF flushed.ok THEN HydroWrite(flushed, f, off, b) ELSE flushed
           again == IF p = 0 \/ ~direct.ok THEN direct ELSE HydroWrite(direct, f, off, b)
           within == [Now EXCEPT !.pages[p].data = Overwritten(@, off - pages[p].offset, b),
                                 !.fds[f].page = p]
           c == Contents(Now, i)
           d == Overwritten(c, off, b)
<1>1. /\ OwnInv /\ Sound(Now) /\ IsMachine(Now) /\ Sized(Now) /\ PagesPlaced(Now)
      /\ Now.fds = fds /\ Now.pages = pages /\ Now.objs = objs /\ Now.ok
  BY NowFacts DEF PlacedInv, SizedInv, IInv, Sound, Now
<1>2. /\ i \in DOMAIN objs /\ off \in 0..Len(c)
      /\ p # 0 => p \in Pages /\ pages[p].obj = i
  BY WriteStart
<1>3. c \in Seq(Bytes)
  BY <1>1, <1>2, ContentsFacts
<1>4. \/ n = again
      \/ p # 0 /\ WithinPage(p, off, b) /\ n = within
      \/ n = flushed /\ ~flushed.ok
      \/ n = direct
      \/ \E q \in Allocations(flushed) : q # 0 /\ n = Cached(flushed, f, q, off, b)
  BY DEF Written
<1>5. Sound(n)
  BY <1>1, WrittenSound
<1> HIDE DEF d, c
<1>6. /\ Sound(flushed) /\ Sized(flushed) /\ \A q \in Pages : flushed.pages[q].obj # i
      /\ Wrote(Now, flushed, i, c) /\ flushed.objs[i].data = c
  <2>1. flushed = Emptied(f)
    BY DEF Emptied
  <2> HIDE DEF flushed
  <2> QED
    BY <2>1, EmptiedKeeps DEF c
<1> HIDE DEF p, shared, flushed
<1>7. /\ flushed.ok /\ i \in DOMAIN flushed.objs /\ IsMachine(flushed) /\ PagesPlaced(flushed)
      /\ flushed.fds[f].open /\ i = flushed.fds[f].obj
      /\ off \in 0..Len(flushed.objs[i].data)
  BY <1>1, <1>2, <1>6 DEF Wrote, SameFds, Sound
<1>8. \A k : Wrote(flushed, k, i, d) => Wrote(Now, k, i, d)
  BY <1>1, <1>2, <1>6, WroteAfterFlush DEF c
<1>9. /\ Puts(flushed, direct, i, d)
      /\ Sized(direct) /\ Same(flushed, direct)
  <2>1. direct = HydroWrite(flushed, f, off, b)
    BY <1>7
  <2> HIDE DEF direct
  <2>2. Puts(flushed, direct, i, Overwritten(flushed.objs[i].data, off, b))
    BY <1>6, <1>7, <2>1, HydroWritePuts
  <2>3. off \in Nat
    BY <1>2
  <2>4. Sized(direct) /\ Same(flushed, direct)
    BY <1>6, <1>7, <2>1, <2>3, HydroWriteSized, HydroWriteSame
  <2> QED
    BY <1>6, <2>2, <2>4 DEF d
<1> HIDE DEF direct
<1>10. Wrote(Now, direct, i, d)
  BY <1>6, <1>7, <1>8, <1>9, BarePuts
<1>11. Wrote(Now, again, i, d)
  <2> DEFINE w == HydroWrite(direct, f, off, b)
  <2>1. again = IF p = 0 \/ ~direct.ok THEN direct ELSE w
    OBVIOUS
  <2>2. /\ IsMachine(direct) /\ direct.fds[f].open /\ i = direct.fds[f].obj
        /\ i \in DOMAIN direct.objs /\ direct.objs[i].data = d
    BY <1>7, <1>9 DEF Puts, Same
  <2>3. off \in 0..Len(d) /\ Overwritten(d, off, b) = d
    BY <1>2, <1>3, OverwrittenTwice DEF d
  <2>4. Puts(direct, w, i, Overwritten(direct.objs[i].data, off, b))
    BY <1>9, <2>2, <2>3, HydroWritePuts
  <2> HIDE DEF w, again
  <2>5. Puts(direct, w, i, d)
    BY <2>2, <2>3, <2>4
  <2>6. Puts(flushed, w, i, d)
    BY <1>9, <2>5 DEF Puts, SameFds
  <2>7. Wrote(Now, w, i, d)
    BY <1>6, <1>7, <1>8, <2>6, BarePuts
  <2> QED
    BY <1>10, <2>1, <2>7
<1> HIDE DEF again
<1>12. ASSUME NEW q \in Allocations(flushed), q # 0, n = Cached(flushed, f, q, off, b)
       PROVE  Wrote(Now, n, i, d)
  <2> DEFINE pg == [obj |-> i, offset |-> off, data |-> b]
  <2>1. q \in Pages /\ flushed.pages[q].obj = 0
    BY <1>12, AllocationsFacts
  <2>2. /\ n.objs = flushed.objs /\ n.ok = flushed.ok
        /\ n.pages = [flushed.pages EXCEPT ![q] = pg]
        /\ n.fds = [flushed.fds EXCEPT ![f].page = q]
    BY <1>7, <1>12 DEF Cached, IsMachine
  <2>3. pg.obj = i /\ pg.offset = off /\ pg.data = b
    OBVIOUS
  <2> HIDE DEF pg
  <2>4. /\ n.pages[q] = pg /\ SameFds(flushed, n)
        /\ \A r \in Pages \ {q} : n.pages[r] = flushed.pages[r]
    <3>1. IsMachine(flushed)
      BY <1>7
    <3>2. n.pages[q] = pg /\ \A r \in Pages \ {q} : n.pages[r] = flushed.pages[r]
      BY <2>1, <2>2, <3>1 DEF IsMachine, Shaped
    <3>3. SameFds(flushed, n)
      BY <2>2, <3>1, PageOfFdPuts
    <3> QED
      BY <3>2, <3>3
  <2>5. off <= Len(flushed.objs[i].data)
    BY <1>7
  <2>6. Wrote(flushed, n, i, Overwritten(flushed.objs[i].data, n.pages[q].offset, n.pages[q].data))
    <3>1. /\ Sound(flushed) /\ PagesPlaced(flushed) /\ i \in DOMAIN flushed.objs /\ Sound(n)
          /\ n.objs = flushed.objs /\ n.ok = flushed.ok
      BY <1>5, <1>6, <1>7, <2>2
    <3>2. /\ q \in Pages /\ flushed.pages[q].obj \in {0, i} /\ n.pages[q].obj = i
          /\ n.pages[q].offset <= Len(flushed.objs[i].data)
      BY <2>1, <2>3, <2>4, <2>5
    <3> QED
      BY <2>4, <3>1, <3>2, PageFilled
  <2>7. Wrote(flushed, n, i, d)
    BY <1>6, <2>3, <2>4, <2>6 DEF d
  <2> QED
    BY <1>8, <2>7
<1>13. ASSUME p # 0, WithinPage(p, off, b), n = within
       PROVE  Wrote(Now, n, i, d)
  <2> DEFINE o == pages[p].offset
             e == pages[p].data
             k == off - o
             data == Overwritten(e, k, b)
             pg == [pages[p] EXCEPT !.data = data]
  <2>1. /\ n.objs = Now.objs /\ n.ok = Now.ok
        /\ n.pages = [Now.pages EXCEPT ![p] = pg]
        /\ n.fds = [Now.fds EXCEPT ![f].page = p]
    BY <1>13 DEF Now
  <2>2. p \in Pages /\ pages[p].obj = i /\ DOMAIN pages[p] = PageFields
    BY <1>1, <1>2, <1>13 DEF IsMachine, Shaped
  <2>3. pg.obj = i /\ pg.offset = o /\ pg.data = data
    BY <2>2 DEF PageFields
  <2>4. /\ objs[i].data \in Seq(Bytes) /\ e \in Seq(Bytes) /\ Len(e) \in Nat
        /\ o \in 0..Len(objs[i].data) /\ i # 0
    <3>1. /\ objs[i].data \in Seq(Bytes) /\ Len(objs[i].data) \in Nat /\ i # 0
      BY <1>1, <1>2, ContentsFacts
    <3>2. e \in Seq(Bytes) /\ o \in Nat
      BY <1>1, <2>2 DEF Sized, PageSized
    <3>3. o <= Len(objs[i].data)
      BY <1>1, <2>2, <3>1 DEF PagesPlaced
    <3> HIDE DEF o, e
    <3> QED
      BY <3>1, <3>2, <3>3, LenProperties
  <2>5. k \in 0..Len(e) /\ o + k = off
    <3>1. o <= off /\ off <= o + Len(e)
      BY <1>13 DEF WithinPage
    <3>2. o \in Nat /\ off \in Nat
      BY <1>2, <2>4
    <3> HIDE DEF o, e
    <3> QED
      BY <2>4, <3>1, <3>2
  <2>6. c = Overwritten(objs[i].data, o, e)
    <3>1. OnePageEach(Now.pages)
      BY <1>1 DEF Sound, Owned
    <3> QED
      BY <1>1, <2>2, <2>4, <3>1, ContentsInPage DEF c
  <2> HIDE DEF within, pg, o, e, k
  <2>7. Overwritten(objs[i].data, o, data) = Overwritten(Overwritten(objs[i].data, o, e), o + k, b)
    <3> DEFINE x == objs[i].data
    <3>1. x \in Seq(Bytes) /\ o \in 0..Len(x) /\ e \in Seq(Bytes) /\ k \in 0..Len(e)
      BY <2>4, <2>5
    <3>2. Overwritten(x, o, data) = Overwritten(Overwritten(x, o, e), o + k, b)
      <4> HIDE DEF x
      <4> QED
        BY <3>1, OverwrittenInside
    <3> QED
      BY <3>2
  <2>8. Overwritten(objs[i].data, o, data) = d
    BY <2>5, <2>6, <2>7 DEF d
  <2> HIDE DEF data
  <2>9. /\ n.pages[p] = pg /\ SameFds(Now, n)
        /\ \A r \in Pages \ {p} : n.pages[r] = Now.pages[r]
    <3>1. IsMachine(Now)
      BY <1>1
    <3>2. n.pages[p] = pg /\ \A r \in Pages \ {p} : n.pages[r] = Now.pages[r]
      BY <2>1, <2>2, <3>1 DEF IsMachine, Shaped
    <3>3. SameFds(Now, n)
      BY <2>1, <3>1, PageOfFdPuts
    <3> QED
      BY <3>2, <3>3
  <2>10. /\ n.pages[p].obj = i /\ n.pages[p].offset <= Len(Now.objs[i].data)
         /\ Now.pages[p].obj \in {0, i} /\ i \in DOMAIN Now.objs
    BY <1>1, <1>2, <2>2, <2>3, <2>4, <2>9
  <2>11. Wrote(Now, n, i, Overwritten(Now.objs[i].data, n.pages[p].offset, n.pages[p].data))
    BY <1>1, <1>5, <2>1, <2>2, <2>9, <2>10, PageFilled
  <2> QED
    BY <1>1, <2>3, <2>8, <2>9, <2>11
<1> HIDE DEF within
<1>14. Wrote(Now, n, i, d)
  BY <1>4, <1>7, <1>10, <1>11, <1>12, <1>13
<1> QED
  BY <1>14 DEF d, c

-----------------------------------------------------------------------------
(* The steps.  What AppendsAtEnd says of a step from one machine to        *)
(* another: only calls through a descriptor move its offset.               *)
Follows(m, n) ==
  \A f \in Fds : /\ m.fds[f].open
                 /\ "append" \in m.fds[f].modes
                 /\ n.fds[f].fdoffset > m.fds[f].fdoffset
    => IsPrefix(Contents(m, m.fds[f].obj), Contents(n, n.fds[f].obj))

Appending ==
  \A f \in Fds :
    fds[f].open /\ "append" \in fds[f].modes /\ fds'[f].fdoffset > fds[f].fdoffset
      => IsPrefix(Seen(fds[f].obj), Seen(fds[f].obj)')

Placed(m) == PagesPlaced(m) /\ FdsPlaced(m)

LEMMA SeenIsContents ==
  ASSUME NEW i
  PROVE  Seen(i) = Contents(Now, i)
BY NowFacts DEF Seen, Contents

LEMMA PlacedStep ==
  ASSUME NEW n, Placed(n), Follows(Now, n), Becomes(n)
  PROVE  Placed(Now)' /\ Appending
<1>1. objs' = n.objs /\ fds' = n.fds /\ pages' = n.pages
  BY DEF Becomes
<1>2. Now'.objs = n.objs /\ Now'.fds = n.fds /\ Now'.pages = n.pages
  BY <1>1 DEF Now
<1>3. \A i : Contents(Now', i) = Contents(n, i)
  BY <1>2 DEF Contents
<1>4. Placed(Now)'
  <2>1. PagesPlaced(Now')
    BY <1>2 DEF Placed, PagesPlaced
  <2>2. FdsPlaced(Now')
    BY <1>2, <1>3 DEF Placed, FdsPlaced
  <2> QED
    BY <2>1, <2>2 DEF Placed
<1>5. Appending
  <2> SUFFICES ASSUME NEW f \in Fds, fds[f].open, "append" \in fds[f].modes,
                      fds'[f].fdoffset > fds[f].fdoffset
               PROVE  IsPrefix(Seen(fds[f].obj), Seen(fds[f].obj)')
    BY DEF Appending
  <2>1. IsPrefix(Contents(Now, fds[f].obj), Contents(n, n.fds[f].obj))
    BY <1>1, NowFacts DEF Follows
  <2>2. Seen(fds[f].obj) = Contents(Now, fds[f].obj)
    BY SeenIsContents
  <2>3. Seen(fds[f].obj)' = Contents(n, n.fds[f].obj)
    BY <1>1 DEF Seen, Contents
  <2> QED
    BY <2>1, <2>2, <2>3
<1> QED
  BY <1>4, <1>5

(* A write that only adds to the contents leaves every descriptor inside.  *)
LEMMA WrotePlaced ==
  ASSUME NEW m, Sound(m), Sized(m), Placed(m), NEW i, NEW d, NEW n, Wrote(m, n, i, d),
         Len(d) \in Nat, i \in DOMAIN m.objs => Len(Contents(m, i)) <= Len(d)
  PROVE  Placed(n)
<1>1. PagesPlaced(n)
  BY DEF Wrote
<1>2. ASSUME NEW f \in Fds, n.fds[f].open
      PROVE  n.fds[f].fdoffset <= Len(Contents(n, n.fds[f].obj))
  <2> DEFINE o == m.fds[f].obj
  <2>1. m.fds[f].open /\ n.fds[f].obj = o /\ n.fds[f].fdoffset = m.fds[f].fdoffset
    BY <1>2 DEF Wrote, SameFds
  <2>2. o \in DOMAIN m.objs /\ m.fds[f].fdoffset \in Nat
    BY <2>1 DEF Sound, Owned, Sized, FdTyped
  <2>3. m.fds[f].fdoffset <= Len(Contents(m, o))
    BY <2>1 DEF Placed, FdsPlaced
  <2> HIDE DEF o
  <2>4. Contents(n, o) = IF o = i THEN d ELSE Contents(m, o)
    BY <2>2 DEF Wrote
  <2>5. Len(Contents(m, o)) \in Nat
    BY <2>2, ContentsFacts DEF Placed
  <2> QED
    BY <2>1, <2>2, <2>3, <2>4, <2>5
<1> QED
  BY <1>1, <1>2 DEF Placed, FdsPlaced

(* A descriptor's offset moves and nothing else.                           *)
Moved(m, n, f, x) ==
  /\ n.objs = m.objs /\ n.pages = m.pages
  /\ \A g \in Fds : /\ n.fds[g].open = m.fds[g].open /\ n.fds[g].obj = m.fds[g].obj
                    /\ n.fds[g].fdoffset = IF g = f THEN x ELSE m.fds[g].fdoffset

LEMMA SeekMoves ==
  ASSUME NEW m, IsMachine(m), NEW f \in Fds, NEW x
  PROVE  LET n == [m EXCEPT !.fds[f].fdoffset = x]
         IN Moved(m, n, f, x) /\ IsMachine(n)
<1> DEFINE n == [m EXCEPT !.fds[f].fdoffset = x]
<1>1. /\ n.objs = m.objs /\ n.pages = m.pages
      /\ n.fds = [m.fds EXCEPT ![f].fdoffset = x] /\ DOMAIN m.fds = Fds
  BY DEF IsMachine, Shaped
<1>2. IsMachine(n)
  BY SeekSame DEF Same
<1> HIDE DEF n
<1>3. ASSUME NEW g \in Fds
      PROVE  /\ n.fds[g].open = m.fds[g].open /\ n.fds[g].obj = m.fds[g].obj
             /\ n.fds[g].fdoffset = IF g = f THEN x ELSE m.fds[g].fdoffset
  <2>1. DOMAIN m.fds[g] = FdFields
    BY DEF IsMachine, Shaped
  <2>2. n.fds[g] = IF g = f THEN [m.fds[g] EXCEPT !.fdoffset = x] ELSE m.fds[g]
    BY <1>1
  <2> QED
    BY <2>1, <2>2 DEF FdFields
<1>4. Moved(m, n, f, x)
  BY <1>1, <1>3 DEF Moved
<1> QED
  BY <1>2, <1>4 DEF n

LEMMA MovedPlaced ==
  ASSUME NEW m, Placed(m), NEW f \in Fds, NEW x, x <= Len(Contents(m, m.fds[f].obj)),
         NEW n, Moved(m, n, f, x)
  PROVE  Placed(n) /\ \A o : Contents(n, o) = Contents(m, o)
<1>1. n.objs = m.objs /\ n.pages = m.pages
  BY DEF Moved
<1>2. \A o : Contents(n, o) = Contents(m, o)
  BY <1>1 DEF Contents
<1>3. PagesPlaced(n)
  BY <1>1 DEF Placed, PagesPlaced
<1>4. FdsPlaced(n)
  BY <1>2 DEF Placed, FdsPlaced, Moved
<1> QED
  BY <1>2, <1>3, <1>4 DEF Placed

LEMMA PrefixOfItself ==
  ASSUME NEW d \in Seq(Bytes)
  PROVE  IsPrefix(d, d)
<1> DEFINE b == <<>>
<1>1. b \in Seq(Bytes) /\ Len(b) = 0 /\ Len(d) \in 0..Len(d)
  BY LenProperties
<1> HIDE DEF b
<1> QED
  BY <1>1, OverwrittenByNothing, OverwrittenAtEnd

LEMMA NowPlaced ==
  ASSUME PlacedInv
  PROVE  /\ Sound(Now) /\ Sized(Now) /\ Placed(Now) /\ PagesPlaced(Now)
         /\ Now.fds = fds /\ Now.objs = objs /\ Now.pages = pages
         /\ \A f \in Fds : fds[f].fdoffset \in Nat
         /\ \A f \in Fds : fds[f].open => fds[f].obj \in DOMAIN objs
<1>1. /\ Sound(Now) /\ Sized(Now) /\ Placed(Now) /\ PagesPlaced(Now)
      /\ Now.fds = fds /\ Now.objs = objs /\ Now.pages = pages
  BY NowFacts DEF PlacedInv, SizedInv, IInv, Placed
<1> QED
  BY <1>1 DEF Sized, FdTyped, Sound, Owned

(* A call that leaves all contents as they are.                            *)
LEMMA SeenAgain ==
  ASSUME PlacedInv, NEW n, \A g \in Fds : n.fds[g].obj = fds[g].obj,
         \A o \in DOMAIN objs : Contents(n, o) = Contents(Now, o)
  PROVE  Follows(Now, n)
<1> SUFFICES ASSUME NEW g \in Fds, fds[g].open
             PROVE  IsPrefix(Contents(Now, fds[g].obj), Contents(n, n.fds[g].obj))
  BY NowFacts DEF Follows
<1> DEFINE o == fds[g].obj
           d == Contents(Now, o)
<1>1. o \in DOMAIN Now.objs
  BY NowPlaced
<1>2. d \in Seq(Bytes)
  BY <1>1, NowPlaced, ContentsFacts
<1>3. Contents(n, n.fds[g].obj) = d
  BY <1>1, NowFacts
<1> HIDE DEF d
<1> QED
  BY <1>2, <1>3, PrefixOfItself DEF d

LEMMA FlushedPlaced ==
  ASSUME PlacedInv, NEW f \in Fds, Calls(f), NEW i, i = fds[f].obj,
         NEW m, m = Flushed(Now, f)
  PROVE  /\ Sound(m) /\ Sized(m) /\ Placed(m) /\ SameFds(Now, m) /\ IsMachine(m)
         /\ i \in DOMAIN m.objs
         /\ m.objs[i].data = Contents(Now, i)
         /\ \A o \in DOMAIN objs : Contents(m, o) = Contents(Now, o)
<1>1. /\ Sound(Now) /\ Sized(Now) /\ Placed(Now) /\ PagesPlaced(Now)
      /\ Now.fds[f].open /\ i = Now.fds[f].obj /\ i \in DOMAIN Now.objs
      /\ Now.objs = objs /\ SizedInv /\ IInv
  BY NowPlaced DEF Calls, PlacedInv, SizedInv
<1>2. Wrote(Now, m, i, Contents(Now, i)) /\ m.objs[i].data = Contents(Now, i)
  BY <1>1, FlushedKeeps
<1>3. Sized(m) /\ Sound(m) /\ IsMachine(m)
  BY <1>1, FlushedNow, CallFacts
<1>4. Len(Contents(Now, i)) \in Nat
  BY <1>1, ContentsFacts
<1>5. Placed(m)
  BY <1>1, <1>2, <1>4, WrotePlaced
<1>6. SameFds(Now, m) /\ i \in DOMAIN m.objs
  BY <1>1, <1>2 DEF Wrote
<1>7. \A o \in DOMAIN objs : Contents(m, o) = Contents(Now, o)
  BY <1>1, <1>2 DEF Wrote
<1> QED
  BY <1>2, <1>3, <1>5, <1>6, <1>7

LEMMA FstatPlaced ==
  ASSUME PlacedInv, NEW f \in Fds, Fstat(f)
  PROVE  Placed(Now)' /\ Appending
<1> DEFINE m == Flushed(Now, f)
<1>1. Calls(f) /\ Becomes(m)
  BY DEF Fstat, Calls
<1>2. /\ Placed(m) /\ SameFds(Now, m)
      /\ \A o \in DOMAIN objs : Contents(m, o) = Contents(Now, o)
  BY <1>1, FlushedPlaced
<1> HIDE DEF m
<1>3. Follows(Now, m)
  BY <1>2, SeenAgain, NowFacts DEF SameFds
<1> QED
  BY <1>1, <1>2, <1>3, PlacedStep

(* A descriptor that is moved to where there are bytes.                    *)
LEMMA SoughtPlaced ==
  ASSUME PlacedInv, NEW f \in Fds, Calls(f), NEW m, m = Flushed(Now, f),
         NEW x, x <= Len(Contents(m, m.fds[f].obj)), NEW n, Moved(m, n, f, x)
  PROVE  Placed(n) /\ Follows(Now, n)
<1>1. /\ Placed(m) /\ SameFds(Now, m)
      /\ \A o \in DOMAIN objs : Contents(m, o) = Contents(Now, o)
  BY FlushedPlaced
<1>2. Placed(n) /\ \A o : Contents(n, o) = Contents(m, o)
  BY <1>1, MovedPlaced
<1>3. \A g \in Fds : n.fds[g].obj = fds[g].obj
  BY <1>1, NowFacts DEF SameFds, Moved
<1>4. Follows(Now, n)
  BY <1>1, <1>2, <1>3, SeenAgain
<1> QED
  BY <1>2, <1>4

(* Where a read or a seek may lead: the size the descriptor remembers, by  *)
(* SizesAgree that of the object, and the flush has put it all there.      *)
LEMMA SizeIsContents ==
  ASSUME PlacedInv, NEW f \in Fds, Calls(f), NEW m, m = Flushed(Now, f),
         m.fds[f].size # UndefinedLen
  PROVE  m.fds[f].size \in Nat /\ m.fds[f].size <= Len(Contents(m, m.fds[f].obj))
<1> DEFINE i == fds[f].obj
           d == m.objs[i].data
<1>1. /\ Sound(m) /\ Sized(m) /\ Placed(m) /\ SameFds(Now, m) /\ i \in DOMAIN m.objs
      /\ d = Contents(Now, i) /\ \A o \in DOMAIN objs : Contents(m, o) = Contents(Now, o)
  BY FlushedPlaced
<1>2. m.fds[f].open /\ m.fds[f].obj = i /\ i \in DOMAIN objs
  BY <1>1, NowPlaced DEF SameFds, Calls
<1>3. Contents(m, i) = d /\ Len(d) \in Nat
  BY <1>1, <1>2, ContentsFacts DEF Placed
<1>4. m.fds[f].size \in Nat /\ m.fds[f].size \in {0, UndefinedLen, Len(d)}
  BY <1>1, <1>2 DEF Sized, FdTyped, FdAgrees, Agrees
<1> HIDE DEF d, i
<1> QED
  BY <1>2, <1>3, <1>4

LEMMA LseekPlaced ==
  ASSUME PlacedInv, NEW f \in Fds, NEW offs \in Nat, Lseek(f, offs)
  PROVE  Placed(Now)' /\ Appending
<1> DEFINE m == Flushed(Now, f)
           fits == m.fds[f].size # UndefinedLen /\ offs <= m.fds[f].size
           moved == [m EXCEPT !.fds[f].fdoffset = offs]
<1>1. Calls(f) /\ ((fits /\ Becomes(moved)) \/ Becomes(m))
  BY DEF Lseek, Calls
<1>2. /\ Placed(m) /\ SameFds(Now, m) /\ IsMachine(m) /\ Sized(m) /\ Sound(m)
      /\ m.fds[f].obj \in DOMAIN m.objs
      /\ \A o \in DOMAIN objs : Contents(m, o) = Contents(Now, o)
  BY <1>1, FlushedPlaced, NowFacts DEF SameFds
<1>3. ASSUME Becomes(m) PROVE Placed(Now)' /\ Appending
  <2> HIDE DEF m
  <2>1. Follows(Now, m)
    BY <1>2, SeenAgain, NowFacts DEF SameFds
  <2> QED
    BY <1>2, <1>3, <2>1, PlacedStep
<1>4. ASSUME fits, Becomes(moved) PROVE Placed(Now)' /\ Appending
  <2>1. m.fds[f].size \in Nat /\ m.fds[f].size <= Len(Contents(m, m.fds[f].obj))
    BY <1>1, <1>4, SizeIsContents
  <2>2. Len(Contents(m, m.fds[f].obj)) \in Nat
    BY <1>2, ContentsFacts DEF Placed
  <2>3. m = Flushed(Now, f)
    OBVIOUS
  <2> HIDE DEF m
  <2>4. offs <= Len(Contents(m, m.fds[f].obj))
    <3> DEFINE size == m.fds[f].size
               len == Len(Contents(m, m.fds[f].obj))
    <3>1. offs <= size /\ size \in Nat /\ size <= len /\ len \in Nat
      BY <1>4, <2>1, <2>2
    <3> HIDE DEF size, len
    <3>2. offs <= len
      BY <3>1
    <3> QED
      BY <3>2 DEF len
  <2>5. Moved(m, moved, f, offs)
    BY <1>2, SeekMoves
  <2> HIDE DEF moved
  <2>6. Placed(moved) /\ Follows(Now, moved)
    BY <1>1, <2>3, <2>4, <2>5, SoughtPlaced
  <2> QED
    BY <1>4, <2>6, PlacedStep
<1> HIDE DEF m, moved, fits
<1> QED
  BY <1>1, <1>3, <1>4

LEMMA ReadPlaced ==
  ASSUME PlacedInv, NEW f \in Fds, NEW len \in Nat, Read(f, len)
  PROVE  Placed(Now)' /\ Appending
<1> DEFINE m == Flushed(Now, f)
           fd == m.fds[f]
           object == m.objs[fd.obj]
           to == Min({fd.fdoffset + len, fd.size})
           moved == [m EXCEPT !.fds[f].fdoffset = to, !.work = object.header]
           loaded == [m EXCEPT !.work = object.header]
           sought == [m EXCEPT !.fds[f].fdoffset = to]
<1>1. /\ Calls(f)
      /\ (fd.size # UndefinedLen /\ Becomes(moved)) \/ Becomes(loaded) \/ Becomes(m)
  BY DEF Read, Calls
<1>2. /\ Placed(m) /\ SameFds(Now, m) /\ IsMachine(m) /\ Sized(m) /\ Sound(m)
      /\ m.fds[f].obj \in DOMAIN m.objs
      /\ \A o \in DOMAIN objs : Contents(m, o) = Contents(Now, o)
  BY <1>1, FlushedPlaced, NowFacts DEF SameFds
<1>3. ASSUME NEW n, n.objs = m.objs, n.fds = m.fds, n.pages = m.pages, Becomes(n)
      PROVE  Placed(Now)' /\ Appending
  <2> HIDE DEF m
  <2>1. \A o : Contents(n, o) = Contents(m, o)
    BY <1>3, SameSeen
  <2>2. Placed(n)
    BY <1>2, <1>3, <2>1 DEF Placed, PagesPlaced, FdsPlaced
  <2>3. Follows(Now, n)
    BY <1>2, <1>3, <2>1, SeenAgain, NowFacts DEF SameFds
  <2> QED
    BY <1>3, <2>2, <2>3, PlacedStep
<1>4. ASSUME Becomes(m) \/ Becomes(loaded) PROVE Placed(Now)' /\ Appending
  <2>1. loaded.objs = m.objs /\ loaded.fds = m.fds /\ loaded.pages = m.pages
    BY <1>2 DEF IsMachine
  <2> HIDE DEF m, loaded
  <2> QED
    BY <1>3, <1>4, <2>1
<1>5. ASSUME fd.size # UndefinedLen, Becomes(moved) PROVE Placed(Now)' /\ Appending
  <2> DEFINE c == Contents(m, m.fds[f].obj)
  <2>1. m.fds[f].size \in Nat /\ m.fds[f].size <= Len(c)
    BY <1>1, <1>5, SizeIsContents
  <2>2. Len(c) \in Nat
    BY <1>2, ContentsFacts DEF Placed
  <2>3. fd.fdoffset \in Nat
    BY <1>2 DEF Sized, FdTyped
  <2>4. m = Flushed(Now, f)
    OBVIOUS
  <2>5. IsMachine(sought) /\ Moved(m, sought, f, to)
    BY <1>2, SeekMoves
  <2>6. to <= Len(c)
    <3> DEFINE size == m.fds[f].size
               at == fd.fdoffset + len
    <3>1. at \in Nat /\ size \in Nat /\ size <= Len(c)
      BY <2>1, <2>3
    <3>2. to = Min({at, size})
      OBVIOUS
    <3> HIDE DEF at, size, c, to
    <3> QED
      BY <2>2, <3>1, <3>2, MinOfTwo
  <2> HIDE DEF m, to
  <2>7. moved.objs = sought.objs /\ moved.pages = sought.pages /\ moved.fds = sought.fds
    BY <1>2 DEF IsMachine
  <2> HIDE DEF sought, moved
  <2>8. Moved(m, moved, f, to)
    BY <2>5, <2>7 DEF Moved
  <2>9. Placed(moved) /\ Follows(Now, moved)
    BY <1>1, <2>4, <2>6, <2>8, SoughtPlaced
  <2> QED
    BY <1>5, <2>9, PlacedStep
<1> HIDE DEF m, loaded, moved
<1> QED
  BY <1>1, <1>4, <1>5

LEMMA ClosePlaced ==
  ASSUME PlacedInv, NEW f \in Fds, Close(f)
  PROVE  Placed(Now)' /\ Appending
<1> DEFINE m == Flushed(Now, f)
           n == ClosedIn(m, f)
<1>1. Calls(f) /\ Becomes(n)
  BY DEF Close, Calls
<1>2. Placed(m) /\ SameFds(Now, m) /\ IsMachine(m)
  BY <1>1, FlushedPlaced
<1> HIDE DEF m
<1>3. /\ n.objs = m.objs /\ n.pages = m.pages
      /\ n.fds = [m.fds EXCEPT ![f] = [ClosedFd EXCEPT !.page = m.fds[f].page]]
  BY <1>2 DEF ClosedIn, IsMachine
<1>4. /\ ~n.fds[f].open /\ n.fds[f].fdoffset = 0
      /\ \A g \in Fds \ {f} : n.fds[g] = m.fds[g]
  BY <1>2, <1>3 DEF IsMachine, Shaped, ClosedFd
<1> HIDE DEF n
<1>5. \A o : Contents(n, o) = Contents(m, o)
  BY <1>3, SameSeen
<1>6. Placed(n)
  BY <1>2, <1>3, <1>4, <1>5 DEF Placed, PagesPlaced, FdsPlaced
<1>7. ASSUME NEW g \in Fds PROVE ~(n.fds[g].fdoffset > fds[g].fdoffset)
  <2>1. n.fds[g].fdoffset = fds[g].fdoffset \/ n.fds[g].fdoffset = 0
    BY <1>2, <1>4, NowFacts DEF SameFds
  <2> QED
    BY <2>1, NowPlaced
<1>8. Follows(Now, n)
  BY <1>7, NowFacts DEF Follows
<1> QED
  BY <1>1, <1>6, <1>8, PlacedStep

(* A write reaches at most as far as it moves its descriptor, and with     *)
(* O_APPEND it starts where everything else ends.                          *)
LEMMA WritePlaced ==
  ASSUME PlacedInv, NEW f \in Fds, NEW b \in BoundedSeq(Bytes, MaxWrite), Write(f, b)
  PROVE  Placed(Now)' /\ Appending
<1> DEFINE i == fds[f].obj
           c == Contents(Now, i)
           off == WriteOffset(f, CachePage(Now, f))
           d == Overwritten(c, off, b)
<1>1. PICK m \in Written(f, b) :
        Becomes(IF m.ok THEN [m EXCEPT !.fds[f].fdoffset = @ + Len(b)] ELSE m)
  BY DEF Write
<1>2. /\ fds[f].open /\ b \in Seq(Bytes) /\ Len(b) \in Nat /\ off + Len(b) <= MaxSize
  BY BoundedSeqIsSeq DEF Write, Calls
<1>3. /\ i \in DOMAIN Now.objs /\ off \in 0..Len(c)
      /\ "append" \in fds[f].modes => off = Len(c)
      /\ "append" \notin fds[f].modes => off = fds[f].fdoffset
  BY <1>2, WriteStart, NowFacts DEF WriteOffset
<1>4. Wrote(Now, m, i, d)
  BY <1>1, <1>2, WrittenContents
<1>5. Sound(m) /\ IsMachine(m)
  BY <1>1, <1>2, WrittenSound DEF Sound, PlacedInv, SizedInv, IInv
<1> HIDE DEF off
<1>6. c \in Seq(Bytes) /\ Len(c) \in Nat
  BY <1>3, NowPlaced, ContentsFacts
<1>7. /\ d \in Seq(Bytes) /\ Len(d) = Longer(Len(c), off + Len(b))
      /\ "append" \in fds[f].modes => IsPrefix(c, d)
  <2> HIDE DEF c
  <2> QED
    BY <1>2, <1>3, <1>6, Overwriting, OverwrittenAtEnd
<1>8. Len(d) \in Nat /\ Len(c) <= Len(d) /\ off + Len(b) <= Len(d)
  <2> HIDE DEF c, d
  <2> QED
    BY <1>2, <1>3, <1>6, <1>7 DEF Longer
<1>9. fds[f].fdoffset \in Nat /\ fds[f].fdoffset <= Len(c)
  BY <1>2, NowPlaced DEF Placed, FdsPlaced
<1> HIDE DEF d
<1>10. Placed(m)
  BY <1>4, <1>8, NowPlaced, WrotePlaced
<1> DEFINE at == fds[f].fdoffset + Len(b)
           n == [m EXCEPT !.fds[f].fdoffset = at]
<1>11. /\ m.ok /\ SameFds(Now, m) /\ Contents(m, i) = d
       /\ \A o \in DOMAIN objs \ {i} : Contents(m, o) = Contents(Now, o)
  BY <1>3, <1>4, NowFacts DEF Wrote, Now
<1>12. m.fds[f].fdoffset = fds[f].fdoffset /\ m.fds[f].obj = i
  BY <1>11, NowFacts DEF SameFds
<1>13. Becomes(n)
  <2>1. [m EXCEPT !.fds[f].fdoffset = @ + Len(b)] = n
    BY <1>5, <1>12 DEF IsMachine, Shaped, FdFields
  <2> HIDE DEF n
  <2> QED
    BY <1>1, <1>11, <2>1
<1>14. Moved(m, n, f, at)
  BY <1>5, SeekMoves
<1> HIDE DEF n, c
<1>15. at <= Len(d)
  BY <1>2, <1>3, <1>6, <1>8, <1>9
<1> HIDE DEF at
<1>16. Placed(n) /\ \A o : Contents(n, o) = Contents(m, o)
  BY <1>10, <1>11, <1>12, <1>14, <1>15, MovedPlaced
<1>17. Follows(Now, n)
  <2> SUFFICES ASSUME NEW g \in Fds, "append" \in fds[g].modes,
                      n.fds[g].fdoffset > fds[g].fdoffset
               PROVE  IsPrefix(Contents(Now, fds[g].obj), Contents(n, n.fds[g].obj))
    BY NowFacts DEF Follows
  <2>1. g = f
    <3>1. g # f => n.fds[g].fdoffset = fds[g].fdoffset
      BY <1>11, <1>14, NowFacts DEF Moved, SameFds
    <3> QED
      BY <3>1, NowPlaced
  <2>2. Contents(n, n.fds[g].obj) = d /\ Contents(Now, fds[g].obj) = c
    BY <1>11, <1>12, <1>14, <1>16, <2>1 DEF Moved, c
  <2> QED
    BY <1>7, <2>1, <2>2
<1> QED
  BY <1>13, <1>16, <1>17, PlacedStep

(* Headers change, descriptors' sizes too, nothing that Contents is of.    *)
LEMMA DataKept ==
  ASSUME NEW m, Sound(m), Placed(m), NEW n, n.pages = m.pages,
         DOMAIN n.objs = DOMAIN m.objs,
         \A o \in DOMAIN m.objs : n.objs[o].data = m.objs[o].data, SameFds(m, n)
  PROVE  Placed(n) /\ \A o \in DOMAIN m.objs : Contents(n, o) = Contents(m, o)
<1>1. \A o \in DOMAIN m.objs : Contents(n, o) = Contents(m, o)
  BY DEF Contents
<1>2. PagesPlaced(n)
  BY DEF Placed, PagesPlaced
<1>3. FdsPlaced(n)
  BY <1>1 DEF Placed, FdsPlaced, SameFds, Sound, Owned
<1> QED
  BY <1>1, <1>2, <1>3 DEF Placed

LEMMA RenamePlaced ==
  ASSUME PlacedInv, NEW a, NEW b, Rename(a, b)
  PROVE  Placed(Now)' /\ Appending
<1> DEFINE i == Min(Named(a))
           header == [objs[i].header EXCEPT !.name = b]
           size == SizeOf(objs[i].data)
           m == UpdateIndexHdr(Now, i, header, size)
<1>1. /\ Becomes(m) /\ i \in DOMAIN Now.objs /\ IsMachine(Now) /\ Sized(Now)
  BY NowFacts, NamedFacts DEF Rename, PlacedInv, SizedInv, IInv, Sound
<1>2. DOMAIN Now.objs[i] = {"header", "data"}
  BY <1>1 DEF Sized, ObjSized
<1> HIDE DEF i, header, size
<1>3. m = UpdateIndexHdr(Now, i, header, size)
  OBVIOUS
<1> HIDE DEF m
<1>4. /\ m.pages = Now.pages /\ DOMAIN m.objs = DOMAIN Now.objs /\ SameFds(Now, m)
      /\ \A o \in DOMAIN Now.objs : m.objs[o].data = Now.objs[o].data
  BY <1>1, <1>2, <1>3, UpdateIndexHdrPuts
<1>5. Placed(m) /\ \A o \in DOMAIN Now.objs : Contents(m, o) = Contents(Now, o)
  BY <1>4, NowPlaced, DataKept
<1>6. Follows(Now, m)
  BY <1>4, <1>5, SeenAgain, NowFacts DEF SameFds
<1> QED
  BY <1>1, <1>5, <1>6, PlacedStep

(* No descriptor that was open is further than it was.                     *)
LEMMA NobodyMoves ==
  ASSUME PlacedInv, NEW n,
         \A g \in Fds : fds[g].open => n.fds[g].fdoffset \in {0, fds[g].fdoffset}
  PROVE  Follows(Now, n)
<1>1. ASSUME NEW g \in Fds, fds[g].open PROVE ~(n.fds[g].fdoffset > fds[g].fdoffset)
  BY <1>1, NowPlaced
<1> QED
  BY <1>1, NowFacts DEF Follows

(* The truncation of an object that nobody uses.                           *)
LEMMA TruncatedPuts ==
  ASSUME NEW m, IsMachine(m), NEW f \in Fds, NEW i \in DOMAIN m.objs, i = m.fds[f].obj,
         DOMAIN m.objs[i] = {"header", "data"}, NEW n, n = Truncated(m, f), n.ok, m.ok
  PROVE  /\ n.pages = m.pages /\ DOMAIN n.objs = DOMAIN m.objs /\ SameFds(m, n)
         /\ n.objs[i].data = <<>>
         /\ n.objs[i].header # BadHeader
         /\ n.objs[i].header = IF m.objs[i].data # <<>> THEN m.objs[i].header ELSE m.work
         /\ \A o \in DOMAIN m.objs \ {i} : /\ n.objs[o].header = m.objs[o].header
                                           /\ n.objs[o].data = m.objs[o].data
<1> DEFINE header == IF m.objs[i].data # <<>> THEN m.objs[i].header ELSE m.work
           w == [m EXCEPT !.objs[i].data = <<>>]
           h == UpdateIndexHdr(w, i, header, UndefinedLen)
<1>1. n = [h EXCEPT !.fds[f].size = 0] /\ header # BadHeader
  <2>1. header = BadHeader => n = [m EXCEPT !.ok = FALSE]
    BY DEF Truncated
  <2>2. header # BadHeader
    BY <2>1 DEF IsMachine
  <2> QED
    BY <2>2 DEF Truncated
<1> HIDE DEF header
<1>2. PICK e : e = <<>>
  OBVIOUS
<1>3. w = [m EXCEPT !.objs[i].data = e]
  BY <1>2
<1> HIDE DEF w
<1>4. /\ Puts(m, w, i, e) /\ IsMachine(w) /\ w.fds = m.fds
      /\ DOMAIN w.objs[i] = {"header", "data"}
  BY <1>3, DataPuts
<1>5. DOMAIN w.objs = DOMAIN m.objs /\ w.pages = m.pages /\ w.objs[i].data = e
      /\ \A o \in DOMAIN m.objs \ {i} : /\ w.objs[o].header = m.objs[o].header
                                        /\ w.objs[o].data = m.objs[o].data
  BY <1>4 DEF Puts
<1>6. IsMachine(h)
  BY <1>4, UpdateIndexHdrSame DEF Same
<1>7. h = UpdateIndexHdr(w, i, header, UndefinedLen)
  OBVIOUS
<1> HIDE DEF h
<1>8. /\ DOMAIN h.objs = DOMAIN w.objs /\ h.pages = w.pages /\ SameFds(w, h)
      /\ h.objs[i].data = w.objs[i].data /\ h.objs[i].header = header
      /\ \A o \in DOMAIN w.objs \ {i} : /\ h.objs[o].header = w.objs[o].header
                                        /\ h.objs[o].data = w.objs[o].data
  BY <1>4, <1>5, <1>7, UpdateIndexHdrPuts
<1>9. /\ n.objs = h.objs /\ n.pages = h.pages /\ n.fds = [h.fds EXCEPT ![f].size = 0]
  BY <1>1, <1>6 DEF IsMachine
<1>10. SameFds(h, n)
  <2> SUFFICES ASSUME NEW g \in Fds
               PROVE  /\ n.fds[g].open = h.fds[g].open /\ n.fds[g].obj = h.fds[g].obj
                      /\ n.fds[g].modes = h.fds[g].modes
                      /\ n.fds[g].fdoffset = h.fds[g].fdoffset
    BY DEF SameFds
  <2>1. DOMAIN h.fds[g] = FdFields /\ DOMAIN h.fds = Fds
    BY <1>6 DEF IsMachine, Shaped
  <2>2. n.fds[g] = h.fds[g] \/ n.fds[g] = [h.fds[g] EXCEPT !.size = 0]
    BY <1>9, <2>1
  <2> QED
    BY <2>1, <2>2 DEF FdFields
<1>11. SameFds(m, n)
  BY <1>4, <1>8, <1>10 DEF SameFds
<1>12. /\ DOMAIN n.objs = DOMAIN m.objs
       /\ n.objs[i].data = <<>> /\ n.objs[i].header = header
       /\ \A o \in DOMAIN m.objs \ {i} : /\ n.objs[o].header = m.objs[o].header
                                         /\ n.objs[o].data = m.objs[o].data
  BY <1>2, <1>5, <1>8, <1>9
<1> QED
  BY <1>1, <1>5, <1>8, <1>9, <1>11, <1>12 DEF header

(* A descriptor that is opened starts at offset 0.                         *)
LEMMA OpenedPlaced ==
  ASSUME NEW m, Sound(m), Sized(m), Placed(m), NEW f \in Fds, NEW i \in DOMAIN m.objs,
         NEW modes, NEW size, NEW n, n = OpenIn(m, f, i, modes, size)
  PROVE  /\ Placed(n) /\ n.objs = m.objs /\ n.pages = m.pages /\ n.ok = m.ok
         /\ n.fds[f].open /\ n.fds[f].obj = i /\ n.fds[f].fdoffset = 0
         /\ \A g \in Fds \ {f} : n.fds[g] = m.fds[g]
         /\ \A o : Contents(n, o) = Contents(m, o)
<1> DEFINE fd == [open |-> TRUE, obj |-> i, modes |-> modes, size |-> size,
                  fdoffset |-> 0, page |-> m.fds[f].page]
<1>1. /\ n.objs = m.objs /\ n.pages = m.pages /\ n.ok = m.ok
      /\ n.fds = [m.fds EXCEPT ![f] = fd] /\ DOMAIN m.fds = Fds
  BY DEF OpenIn, Sound, IsMachine, Shaped
<1>2. fd.open /\ fd.obj = i /\ fd.fdoffset = 0
  OBVIOUS
<1> HIDE DEF fd
<1>3. n.fds[f] = fd /\ \A g \in Fds \ {f} : n.fds[g] = m.fds[g]
  BY <1>1
<1>4. \A o : Contents(n, o) = Contents(m, o)
  BY <1>1, SameSeen
<1>5. Len(Contents(m, i)) \in Nat
  BY ContentsFacts DEF Placed
<1>6. PagesPlaced(n)
  BY <1>1 DEF Placed, PagesPlaced
<1>7. ASSUME NEW g \in Fds, n.fds[g].open
      PROVE  n.fds[g].fdoffset <= Len(Contents(n, n.fds[g].obj))
  <2>1. CASE g = f
    <3>1. n.fds[g].fdoffset = 0 /\ Contents(n, n.fds[g].obj) = Contents(m, i)
      BY <1>2, <1>3, <1>4, <2>1
    <3> QED
      BY <1>5, <3>1
  <2>2. CASE g # f
    BY <1>3, <1>4, <1>7, <2>2 DEF Placed, FdsPlaced
  <2> QED
    BY <2>1, <2>2
<1>8. Placed(n)
  BY <1>6, <1>7 DEF Placed, FdsPlaced
<1> QED
  BY <1>1, <1>2, <1>3, <1>4, <1>8

LEMMA EmptyPlaced ==
  ASSUME NEW m, Sound(m), Placed(m), NEW i \in DOMAIN m.objs,
         \A p \in Pages : m.pages[p].obj # i,
         \A g \in Fds : m.fds[g].open /\ m.fds[g].obj = i => m.fds[g].fdoffset = 0,
         NEW n, n.pages = m.pages, DOMAIN n.objs = DOMAIN m.objs, SameFds(m, n),
         n.objs[i].data = <<>>,
         \A o \in DOMAIN m.objs \ {i} : n.objs[o].data = m.objs[o].data
  PROVE  Placed(n)
<1>1. Contents(n, i) = <<>>
  BY ContentsBare
<1>2. \A o \in DOMAIN m.objs \ {i} : Contents(n, o) = Contents(m, o)
  BY DEF Contents
<1>3. PagesPlaced(n)
  BY DEF Placed, PagesPlaced
<1>4. ASSUME NEW g \in Fds, n.fds[g].open
      PROVE  n.fds[g].fdoffset <= Len(Contents(n, n.fds[g].obj))
  <2>1. /\ m.fds[g].open /\ n.fds[g].obj = m.fds[g].obj
        /\ n.fds[g].fdoffset = m.fds[g].fdoffset /\ m.fds[g].obj \in DOMAIN m.objs
    BY <1>4 DEF SameFds, Sound, Owned
  <2>2. CASE m.fds[g].obj = i
    <3>1. n.fds[g].fdoffset = 0 /\ Contents(n, n.fds[g].obj) = <<>>
      BY <1>1, <2>1, <2>2
    <3> QED
      BY <3>1
  <2>3. CASE m.fds[g].obj # i
    BY <1>2, <2>1, <2>3 DEF Placed, FdsPlaced
  <2> QED
    BY <2>2, <2>3
<1> QED
  BY <1>3, <1>4 DEF Placed, FdsPlaced

(* O_TRUNC of a file that is in use would leave descriptors beyond its     *)
(* end and bytes in a page that was placed in what is gone.                *)
LEMMA OpenFilePlaced ==
  ASSUME PlacedInv, NEW name, NEW modes, NEW trunc, OpenFile(name, modes, trunc),
         trunc => ~InUse(Min(Named(name)))
  PROVE  Placed(Now)' /\ Appending
<1> DEFINE i == Min(Named(name))
           f == Min(FreeFds)
           o == Opened(i, f, modes)
           t == Truncated(o, f)
           m == IF trunc THEN t ELSE o
<1>1. /\ Becomes(m) /\ m.ok /\ f \in Fds /\ ~fds[f].open /\ i \in DOMAIN objs
      /\ trunc => ~InUse(i)
  BY FreeFdFacts, NamedFacts DEF OpenFile, PlacedInv, SizedInv, IInv
<1> HIDE DEF i, f
<1>2. /\ Sound(Now) /\ Sized(Now) /\ Placed(Now) /\ i \in DOMAIN Now.objs
      /\ ~Now.fds[f].open /\ Now.fds = fds /\ Now.objs = objs /\ Now.pages = pages
      /\ Now.ok
  BY <1>1, NowPlaced DEF Now
<1> DEFINE size == SizeOf(Now.objs[i].data)
<1>3. o = OpenIn(Now, f, i, modes, size)
  BY <1>2 DEF Opened, OpenIn
<1> HIDE DEF o, size
<1>4. /\ Placed(o) /\ o.objs = Now.objs /\ o.pages = Now.pages /\ o.ok = Now.ok
      /\ o.fds[f].open /\ o.fds[f].obj = i /\ o.fds[f].fdoffset = 0
      /\ \A g \in Fds \ {f} : o.fds[g] = Now.fds[g]
  <2>1. /\ Sound(Now) /\ Sized(Now) /\ Placed(Now) /\ i \in DOMAIN Now.objs /\ f \in Fds
    BY <1>1, <1>2
  <2> QED
    BY <1>3, <2>1, OpenedPlaced
<1>5. Sound(o) /\ IsMachine(o)
  BY <1>1, <1>2, <1>3, OpenedSound DEF Sound
<1>6. ASSUME ~trunc PROVE Placed(Now)' /\ Appending
  <2>1. Becomes(o)
    BY <1>1, <1>6
  <2>2. Follows(Now, o)
    BY <1>1, <1>2, <1>4, NobodyMoves
  <2> QED
    BY <1>4, <2>1, <2>2, PlacedStep
<1>7. ASSUME trunc PROVE Placed(Now)' /\ Appending
  <2>1. Becomes(t) /\ t.ok
    BY <1>1, <1>7
  <2>2. DOMAIN o.objs[i] = {"header", "data"}
    BY <1>2, <1>4 DEF Sized, ObjSized
  <2>3. t = Truncated(o, f)
    OBVIOUS
  <2> HIDE DEF t
  <2>4. /\ t.pages = o.pages /\ DOMAIN t.objs = DOMAIN o.objs /\ SameFds(o, t)
        /\ t.objs[i].data = <<>>
        /\ \A j \in DOMAIN o.objs \ {i} : t.objs[j].data = o.objs[j].data
    <3>1. /\ IsMachine(o) /\ f \in Fds /\ i \in DOMAIN o.objs /\ i = o.fds[f].obj /\ o.ok
      BY <1>1, <1>2, <1>4, <1>5
    <3>2. t.ok
      BY <2>1
    <3> QED
      BY <2>2, <2>3, <3>1, <3>2, TruncatedPuts
  <2>5. /\ \A p \in Pages : o.pages[p].obj # i
        /\ \A g \in Fds : o.fds[g].open /\ o.fds[g].obj = i => o.fds[g].fdoffset = 0
    <3>1. PendingPages(Now, i) = {} /\ \A g \in OpenFds(Now, i) : ~(fds[g].fdoffset > 0)
      BY <1>1, <1>7 DEF InUse
    <3>2. \A p \in Pages : pages[p].obj # i
      BY <1>2, <3>1 DEF PendingPages
    <3>3. ASSUME NEW g \in Fds, o.fds[g].open, o.fds[g].obj = i
          PROVE  o.fds[g].fdoffset = 0
      <4>1. CASE g # f
        <5>1. g \in OpenFds(Now, i) /\ o.fds[g] = fds[g]
          BY <1>2, <1>4, <3>3, <4>1 DEF OpenFds
        <5>2. ~(fds[g].fdoffset > 0)
          BY <3>1, <5>1
        <5>3. fds[g].fdoffset = 0
          BY <3>3, <5>2, NowPlaced
        <5> QED
          BY <5>1, <5>3
      <4> QED
        BY <1>4, <4>1
    <3> QED
      BY <1>2, <1>4, <3>2, <3>3
  <2>6. Placed(t)
    <3>1. i \in DOMAIN o.objs /\ Placed(o)
      BY <1>2, <1>4
    <3> QED
      BY <1>5, <2>4, <2>5, <3>1, EmptyPlaced
  <2>7. Follows(Now, t)
    BY <1>1, <1>2, <1>4, <2>4, NobodyMoves DEF SameFds
  <2> QED
    BY <2>1, <2>6, <2>7, PlacedStep
<1> HIDE DEF m, t
<1> QED
  BY <1>6, <1>7

LEMMA CreateFilePlaced ==
  ASSUME PlacedInv, NEW name, NEW modes, CreateFile(name, modes)
  PROVE  Placed(Now)' /\ Appending
<1> DEFINE i == FreeObjId
           f == Min(FreeFds)
           fd == [open |-> TRUE, obj |-> i, modes |-> modes, size |-> UndefinedLen,
                  fdoffset |-> 0, page |-> fds[f].page]
<1>1. /\ OwnInv /\ pages' = pages /\ f \in Fds /\ ~fds[f].open
      /\ objs' = [j \in {i} \cup DOMAIN objs |-> IF j = i THEN Created(name) ELSE objs[j]]
      /\ fds' = [fds EXCEPT ![f] = fd]
  BY FreeFdFacts DEF CreateFile, IInv, SizedInv, PlacedInv
<1>2. i \notin DOMAIN objs /\ i # 0
  BY <1>1, FreeObjIdFacts
<1>3. fd.obj = i /\ fd.fdoffset = 0
  OBVIOUS
<1> HIDE DEF i, f, fd
<1>4. PICK n : n = [objs |-> objs', fds |-> fds', pages |-> pages', work |-> work', ok |-> TRUE]
  OBVIOUS
<1>5. /\ Becomes(n) /\ n.pages = Now.pages /\ DOMAIN n.objs = {i} \cup DOMAIN Now.objs
      /\ n.objs[i].data = <<>>
      /\ \A j \in DOMAIN Now.objs : n.objs[j] = Now.objs[j]
  BY <1>1, <1>2, <1>4, NowPlaced DEF Becomes, Created
<1>6. n.fds[f] = fd /\ \A g \in Fds \ {f} : n.fds[g] = Now.fds[g]
  BY <1>1, <1>4, NowPlaced DEF OwnInv, Shaped
<1>7. \A o \in DOMAIN Now.objs : Contents(n, o) = Contents(Now, o)
  BY <1>5 DEF Contents
<1>8. PagesPlaced(n) /\ \A p \in Pages : n.pages[p].obj # i
  BY <1>2, <1>5, NowPlaced DEF PagesPlaced
<1>9. Contents(n, i) = <<>>
  BY <1>5, <1>8, ContentsBare
<1>10. ASSUME NEW g \in Fds, n.fds[g].open
       PROVE  n.fds[g].fdoffset <= Len(Contents(n, n.fds[g].obj))
  <2>1. CASE g = f
    <3>1. n.fds[g].fdoffset = 0 /\ Contents(n, n.fds[g].obj) = <<>>
      BY <1>3, <1>6, <1>9, <2>1
    <3> QED
      BY <3>1
  <2>2. CASE g # f
    <3>1. Now.fds[g].open /\ Now.fds[g].obj \in DOMAIN Now.objs /\ n.fds[g] = Now.fds[g]
      BY <1>6, <1>10, <2>2, NowPlaced
    <3> QED
      BY <1>7, <3>1, NowPlaced DEF Placed, FdsPlaced
  <2> QED
    BY <2>1, <2>2
<1>11. Placed(n)
  BY <1>8, <1>10 DEF Placed, FdsPlaced
<1>12. Follows(Now, n)
  BY <1>1, <1>6, NowPlaced, NobodyMoves
<1> QED
  BY <1>5, <1>11, <1>12, PlacedStep

(* A file that goes takes its descriptors with it, and has no page.        *)
LEMMA UnlinkPlaced ==
  ASSUME PlacedInv, NEW name, Unlink(name), PendingPages(Now, Min(Named(name))) = {}
  PROVE  Placed(Now)' /\ Appending
<1> DEFINE i == Min(Named(name))
           gone == OpenFds(Now, i)
           D == DOMAIN objs \ {i}
<1>1. /\ pages' = pages /\ objs' = Restrict(objs, D)
      /\ fds' = [f \in Fds |-> IF f \in gone THEN [ClosedFd EXCEPT !.page = fds[f].page]
                               ELSE fds[f]]
      /\ PendingPages(Now, i) = {}
  BY DEF Unlink
<1> HIDE DEF i
<1>2. PICK n : n = [objs |-> objs', fds |-> fds', pages |-> pages', work |-> work', ok |-> TRUE]
  OBVIOUS
<1>3. /\ Becomes(n) /\ n.pages = Now.pages /\ DOMAIN n.objs = D
      /\ \A j \in D : n.objs[j] = Now.objs[j]
  BY <1>1, <1>2, NowPlaced DEF Becomes, Restrict
<1>4. /\ gone = {f \in Fds : fds[f].open /\ fds[f].obj = i}
      /\ \A p \in Pages : pages[p].obj # i
  BY <1>1, NowFacts DEF OpenFds, PendingPages
<1>5. ASSUME NEW g \in Fds
      PROVE  /\ g \in gone => ~n.fds[g].open /\ n.fds[g].fdoffset = 0
             /\ g \notin gone => n.fds[g] = fds[g]
  <2>1. n.fds[g] = IF g \in gone THEN [ClosedFd EXCEPT !.page = fds[g].page] ELSE fds[g]
    BY <1>1, <1>2
  <2> HIDE DEF gone
  <2> QED
    BY <2>1 DEF ClosedFd
<1>6. \A o \in D : Contents(n, o) = Contents(Now, o)
  BY <1>3 DEF Contents
<1>7. PagesPlaced(n)
  BY <1>3, <1>4, NowPlaced DEF PagesPlaced
<1>8. ASSUME NEW g \in Fds, n.fds[g].open
      PROVE  n.fds[g].fdoffset <= Len(Contents(n, n.fds[g].obj))
  <2>1. g \notin gone
    BY <1>5, <1>8
  <2>2. n.fds[g] = Now.fds[g] /\ Now.fds[g].open /\ Now.fds[g].obj \in D
    BY <1>4, <1>5, <1>8, <2>1, NowPlaced
  <2> HIDE DEF D
  <2> QED
    BY <1>6, <2>2, NowPlaced DEF Placed, FdsPlaced
<1>9. Placed(n)
  BY <1>7, <1>8 DEF Placed, FdsPlaced
<1> HIDE DEF gone
<1>10. Follows(Now, n)
  BY <1>5, NobodyMoves
<1> QED
  BY <1>3, <1>9, <1>10, PlacedStep

LEMMA NothingPlaced ==
  ASSUME PlacedInv, UNCHANGED objs, NothingInMemory
  PROVE  Placed(Now)' /\ Appending
<1>1. PICK n : n = [objs |-> objs', fds |-> fds', pages |-> pages', work |-> work', ok |-> TRUE]
  OBVIOUS
<1>2. /\ Becomes(n) /\ n.fds = [f \in Fds |-> ClosedFd] /\ n.pages = [p \in Pages |-> NoWrite]
  BY <1>1 DEF Becomes, NothingInMemory
<1>3. /\ \A f \in Fds : ~n.fds[f].open /\ n.fds[f].fdoffset = 0
      /\ \A p \in Pages : n.pages[p].obj = 0
  BY <1>2 DEF ClosedFd, NoWrite
<1>4. Placed(n) /\ Follows(Now, n)
  BY <1>3, NobodyMoves DEF Placed, PagesPlaced, FdsPlaced
<1> QED
  BY <1>2, <1>4, PlacedStep

LEMMA PlacedNext ==
  ASSUME PlacedInv, "remove pending" \notin Careless, "truncate in use" \notin Careless,
         [Next]_vars, status' # "deinit"
  PROVE  PlacedInv' /\ [Appending]_vars
<1>1. SizedInv'
  BY SizedNext DEF PlacedInv
<1> DEFINE Kept == Placed(Now)' /\ [Appending]_vars
<1>2. ASSUME NEW n, NEW modes, CreateFile(n, modes) PROVE Kept
  BY <1>2, CreateFilePlaced
<1>3. ASSUME NEW n, NEW modes, NEW trunc, OpenFile(n, modes, trunc) PROVE Kept
  <2>1. trunc => ~InUse(Min(Named(n)))
    BY <1>3 DEF OpenFile, Careful
  <2> QED
    BY <1>3, <2>1, OpenFilePlaced
<1>4. ASSUME NEW f \in Fds, NEW b \in BoundedSeq(Bytes, MaxWrite), Write(f, b)
      PROVE  Kept
  BY <1>4, WritePlaced
<1>5. ASSUME NEW f \in Fds, NEW len \in 1..MaxWrite, Read(f, len) PROVE Kept
  <2>1. len \in Nat
    BY <1>5, InputsFacts
  <2> QED
    BY <1>5, <2>1, ReadPlaced
<1>6. ASSUME NEW f \in Fds, NEW offs \in 0..MaxSize, Lseek(f, offs) PROVE Kept
  <2>1. offs \in Nat
    BY <1>6, InputsFacts
  <2> QED
    BY <1>6, <2>1, LseekPlaced
<1>7. ASSUME NEW f \in Fds, Fstat(f) \/ Close(f) PROVE Kept
  BY <1>7, FstatPlaced, ClosePlaced
<1>8. ASSUME NEW n, Unlink(n) PROVE Kept
  <2>1. PendingPages(Now, Min(Named(n))) = {}
    BY <1>8 DEF Unlink, Careful
  <2> QED
    BY <1>8, <2>1, UnlinkPlaced
<1>9. ASSUME NEW a, NEW b, Rename(a, b) PROVE Kept
  BY <1>9, RenamePlaced
<1>10. ASSUME Mount \/ PowerLoss PROVE Kept
  BY <1>10, NothingPlaced DEF Mount, PowerLoss
<1>11. ~Unmount
  BY DEF Unmount
<1>12. ASSUME UNCHANGED vars PROVE Kept
  <2>1. Now' = Now
    BY <1>12 DEF vars, Now
  <2>2. Placed(Now)'
    BY <2>1, NowPlaced
  <2> QED
    BY <1>12, <2>2
<1> HIDE DEF Kept
<1>13. Kept
  BY <1>2, <1>3, <1>4, <1>5, <1>6, <1>7, <1>8, <1>9, <1>10, <1>11, <1>12 DEF Next
<1> QED
  BY <1>1, <1>13 DEF PlacedInv, Placed, Kept

LEMMA InitPlaced == Init => PlacedInv
<1> SUFFICES ASSUME Init PROVE PlacedInv
  OBVIOUS
<1>1. SizedInv
  BY InitSized
<1>2. /\ Now.fds = [f \in Fds |-> ClosedFd] /\ Now.pages = [p \in Pages |-> NoWrite]
  BY DEF Init, Now
<1>3. /\ \A f \in Fds : ~Now.fds[f].open
      /\ \A p \in Pages : Now.pages[p].obj = 0
  BY <1>2 DEF ClosedFd, NoWrite
<1> QED
  BY <1>1, <1>3 DEF PlacedInv, PagesPlaced, FdsPlaced

(* A write through a descriptor with O_APPEND overwrites nothing, neither  *)
(* what is on the flash nor what another descriptor has pending in the     *)
(* page they share: the offset that spiffs_hydro_write takes from the size *)
(* and SPIFFS_write from the page is where both end, provided that nobody  *)
(* truncates a file in use or removes one with bytes pending.              *)
THEOREM AppendsGoToTheEnd ==
  ASSUME "remove pending" \notin Careless, "truncate in use" \notin Careless
  PROVE  Spec /\ []NoDeinit => AppendsAtEnd
<1>1. Init => PlacedInv
  BY InitPlaced
<1>2. PlacedInv /\ [Next]_vars /\ NoDeinit' => PlacedInv' /\ [Appending]_vars
  BY PlacedNext DEF NoDeinit
<1>3. Spec /\ []NoDeinit => [][Appending]_vars
  BY <1>1, <1>2, PTL DEF Spec
<1> QED
  BY <1>3 DEF AppendsAtEnd, Appending

-----------------------------------------------------------------------------
(* The promise.  What a machine shows as files and keeps on the flash.     *)
Title(m, i) == m.objs[i].header.name

Titles(m) == {Title(m, i) : i \in DOMAIN m.objs}

Holder(m, t) == CHOOSE i \in DOMAIN m.objs : Title(m, i) = t

Files(m) == [t \in Titles(m) |-> Contents(m, Holder(m, t))]

Disk(m) == [t \in Titles(m) |-> m.objs[Holder(m, t)].data]

(* The rest of the invariant: every object has a name of its own.          *)
Titled(m) ==
  /\ \A i \in DOMAIN m.objs :
       \E t \in Names : m.objs[i].header = [name |-> t, removed |-> FALSE]
  /\ \A i, j \in DOMAIN m.objs : Title(m, i) = Title(m, j) => i = j

PromiseInv == PlacedInv /\ Titled(Now)

LEMMA HolderFacts ==
  ASSUME NEW m, Titled(m)
  PROVE  /\ \A i \in DOMAIN m.objs : Title(m, i) \in Titles(m) /\ Holder(m, Title(m, i)) = i
         /\ \A t \in Titles(m) : Holder(m, t) \in DOMAIN m.objs /\ Title(m, Holder(m, t)) = t
<1>1. ASSUME NEW t \in Titles(m)
      PROVE  Holder(m, t) \in DOMAIN m.objs /\ Title(m, Holder(m, t)) = t
  <2>1. \E i \in DOMAIN m.objs : Title(m, i) = t
    BY DEF Titles
  <2> QED
    BY <2>1 DEF Holder
<1>2. ASSUME NEW i \in DOMAIN m.objs
      PROVE  Title(m, i) \in Titles(m) /\ Holder(m, Title(m, i)) = i
  <2>1. Title(m, i) \in Titles(m)
    BY DEF Titles
  <2> QED
    BY <1>1, <2>1 DEF Titled
<1> QED
  BY <1>1, <1>2

LEMMA SameFunction ==
  ASSUME NEW S, NEW f, NEW g, f = [x \in S |-> f[x]], g = [x \in S |-> g[x]],
         \A x \in S : f[x] = g[x]
  PROVE  f = g
<1>1. [x \in S |-> f[x]] = [x \in S |-> g[x]]
  OBVIOUS
<1> QED
  BY <1>1

LEMMA FilesFacts ==
  ASSUME NEW m, Titled(m)
  PROVE  /\ DOMAIN Files(m) = Titles(m) /\ DOMAIN Disk(m) = Titles(m)
         /\ Files(m) = [t \in Titles(m) |-> Files(m)[t]]
         /\ Disk(m) = [t \in Titles(m) |-> Disk(m)[t]]
         /\ \A i \in DOMAIN m.objs : /\ Files(m)[Title(m, i)] = Contents(m, i)
                                     /\ Disk(m)[Title(m, i)] = m.objs[i].data
<1>1. /\ DOMAIN Files(m) = Titles(m) /\ DOMAIN Disk(m) = Titles(m)
      /\ Files(m) = [t \in Titles(m) |-> Files(m)[t]]
      /\ Disk(m) = [t \in Titles(m) |-> Disk(m)[t]]
  BY DEF Files, Disk
<1>2. ASSUME NEW i \in DOMAIN m.objs
      PROVE  /\ Files(m)[Title(m, i)] = Contents(m, i)
             /\ Disk(m)[Title(m, i)] = m.objs[i].data
  <2>1. Title(m, i) \in Titles(m) /\ Holder(m, Title(m, i)) = i
    BY HolderFacts
  <2> QED
    BY <2>1 DEF Files, Disk
<1> QED
  BY <1>1, <1>2

LEMMA HeadersKept ==
  ASSUME NEW m, Titled(m), NEW n, DOMAIN n.objs = DOMAIN m.objs,
         \A o \in DOMAIN m.objs : n.objs[o].header = m.objs[o].header
  PROVE  /\ Titled(n) /\ Titles(n) = Titles(m)
         /\ \A o \in DOMAIN m.objs : Title(n, o) = Title(m, o)
<1>1. \A o \in DOMAIN m.objs : Title(n, o) = Title(m, o)
  BY DEF Title
<1>2. Titles(n) = Titles(m)
  BY <1>1 DEF Titles
<1>3. Titled(n)
  BY <1>1 DEF Titled
<1> QED
  BY <1>1, <1>2, <1>3

(* One file is written or flushed.                                         *)
LEMMA OneFileChanges ==
  ASSUME NEW m, Titled(m), NEW n, DOMAIN n.objs = DOMAIN m.objs,
         \A o \in DOMAIN m.objs : n.objs[o].header = m.objs[o].header,
         NEW i \in DOMAIN m.objs, NEW t, t = Title(m, i),
         \A o \in DOMAIN m.objs \ {i} :
           Contents(n, o) = Contents(m, o) /\ n.objs[o].data = m.objs[o].data
  PROVE  /\ Titled(n) /\ t \in DOMAIN Files(m) /\ DOMAIN Files(n) = DOMAIN Files(m)
         /\ Files(m)[t] = Contents(m, i) /\ Files(n)[t] = Contents(n, i)
         /\ Disk(m)[t] = m.objs[i].data
         /\ Files(n) = [Files(m) EXCEPT ![t] = Contents(n, i)]
         /\ Disk(n) = [Disk(m) EXCEPT ![t] = n.objs[i].data]
<1>1. /\ Titled(n) /\ Titles(n) = Titles(m)
      /\ \A o \in DOMAIN m.objs : Title(n, o) = Title(m, o)
  BY HeadersKept
<1> DEFINE F == Files(m)
           D == Disk(m)
           F1 == Files(n)
           D1 == Disk(n)
           T == Titles(m)
<1>2. /\ DOMAIN F = T /\ DOMAIN D = T /\ F = [s \in T |-> F[s]] /\ D = [s \in T |-> D[s]]
      /\ \A o \in DOMAIN m.objs : /\ F[Title(m, o)] = Contents(m, o)
                                  /\ D[Title(m, o)] = m.objs[o].data
  BY FilesFacts
<1>3. /\ DOMAIN F1 = T /\ DOMAIN D1 = T /\ F1 = [s \in T |-> F1[s]] /\ D1 = [s \in T |-> D1[s]]
      /\ \A o \in DOMAIN m.objs : /\ F1[Title(m, o)] = Contents(n, o)
                                  /\ D1[Title(m, o)] = n.objs[o].data
  BY <1>1, FilesFacts
<1>4. /\ t \in T
      /\ \A s \in T : \E o \in DOMAIN m.objs : s = Title(m, o) /\ (s # t => o # i)
  BY DEF Titles
<1> DEFINE F2 == [F EXCEPT ![t] = Contents(n, i)]
           D2 == [D EXCEPT ![t] = n.objs[i].data]
<1> HIDE DEF F, D, F1, D1, T
<1>5. /\ F2 = [s \in T |-> F2[s]] /\ D2 = [s \in T |-> D2[s]]
      /\ F2[t] = Contents(n, i) /\ D2[t] = n.objs[i].data
      /\ \A s \in T \ {t} : F2[s] = F[s] /\ D2[s] = D[s]
  BY <1>2, <1>4
<1> HIDE DEF F2, D2
<1>6. \A s \in T : F1[s] = F2[s] /\ D1[s] = D2[s]
  <2> TAKE s \in T
  <2>1. PICK o \in DOMAIN m.objs : s = Title(m, o) /\ (s # t => o # i)
    BY <1>4
  <2>2. CASE s = t
    <3>1. F1[t] = Contents(n, i) /\ D1[t] = n.objs[i].data
      BY <1>3
    <3> QED
      BY <1>5, <2>2, <3>1
  <2>3. CASE s # t
    <3>1. F2[s] = F[s] /\ D2[s] = D[s]
      BY <1>5, <2>3
    <3>2. Contents(n, o) = Contents(m, o) /\ n.objs[o].data = m.objs[o].data
      BY <2>1, <2>3
    <3>3. /\ F[s] = Contents(m, o) /\ D[s] = m.objs[o].data
          /\ F1[s] = Contents(n, o) /\ D1[s] = n.objs[o].data
      BY <1>2, <1>3, <2>1
    <3> QED
      BY <3>1, <3>2, <3>3
  <2> QED
    BY <2>2, <2>3
<1>7. F1 = F2
  BY <1>3, <1>5, <1>6, SameFunction
<1>8. D1 = D2
  BY <1>3, <1>5, <1>6, SameFunction
<1> QED
  BY <1>1, <1>2, <1>3, <1>4, <1>7, <1>8 DEF F, D, F1, D1, T, F2, D2

-----------------------------------------------------------------------------
(* Steps of the promise, from the files and the flash before and after.    *)
Before(F, D) == ByName(Seen) = F /\ ByName(OnFlash) = D

After(F, D) == ByName(Seen)' = F /\ ByName(OnFlash)' = D

LEMMA BeforeStep == Before(Files(Now), Disk(Now))
<1>1. \A i : Seen(i) = Contents(Now, i)
  BY SeenIsContents
<1>2. ByName(Seen) = Files(Now)
  BY <1>1, NowFacts DEF ByName, Files, Titles, Holder, Title
<1>3. ByName(OnFlash) = Disk(Now)
  BY NowFacts DEF ByName, OnFlash, Disk, Titles, Holder, Title
<1> QED
  BY <1>2, <1>3 DEF Before

LEMMA AfterStep ==
  ASSUME NEW n, Becomes(n)
  PROVE  After(Files(n), Disk(n)) /\ (Titled(n) => Titled(Now)')
<1>1. objs' = n.objs /\ pages' = n.pages
  BY DEF Becomes
<1>2. ByName(Seen)' = Files(n)
  BY <1>1 DEF ByName, Seen, Contents, Files, Titles, Holder, Title
<1>3. ByName(OnFlash)' = Disk(n)
  BY <1>1 DEF ByName, OnFlash, Disk, Titles, Holder, Title
<1>4. Titled(n) => Titled(Now)'
  BY <1>1 DEF Titled, Title, Now
<1> QED
  BY <1>2, <1>3, <1>4 DEF After

LEMMA PromiseFlush ==
  ASSUME NEW F, NEW D, Before(F, D), NEW F1, NEW D1, After(F1, D1),
         NEW t, F1 = F, D1 = [D EXCEPT ![t] = F[t]]
  PROVE  Promise!Flush(t)
BY DEF Promise!Flush, Before, After

Rewrites(F, D, F1, D1, t, off, k, data) ==
  /\ t \in DOMAIN F /\ off \in 0..Len(F[t]) /\ k \in 1..MaxWrite
  /\ DOMAIN F1 = DOMAIN F /\ off + k <= Len(F1[t])
  /\ F1 = [F EXCEPT ![t] = Overwritten(F[t], off, SubSeq(F1[t], off + 1, off + k))]
  /\ data \in {D[t], F[t], F1[t]} /\ D1 = [D EXCEPT ![t] = data]

LEMMA PromiseWrite ==
  ASSUME NEW F, NEW D, Before(F, D), NEW F1, NEW D1, After(F1, D1),
         NEW t, NEW off, NEW k, NEW data, Rewrites(F, D, F1, D1, t, off, k, data),
         answer' = None
  PROVE  Promise!Next
<1>1. t \in DOMAIN F /\ Promise!Write(t)
  BY DEF Promise!Write, Promise!Overwritten, Overwritten, Before, After, Rewrites
<1> QED
  BY <1>1 DEF Promise!Next, Before

Answers(t, d) ==
  \/ answer' = None
  \/ answer' = [file |-> t, size |-> Len(d)]
  \/ \E from, to \in 1..Len(d) :
       /\ from <= to
       /\ answer' = [file |-> t, from |-> from, data |-> SubSeq(d, from, to)]

LEMMA PromiseAnswer ==
  ASSUME NEW F, NEW D, Before(F, D), NEW t \in DOMAIN F, Promise!Flush(t),
         Answers(t, F[t])
  PROVE  Promise!Next
<1>1. answer' = None => Promise!Next
  BY DEF Promise!Next, Before
<1>2. answer' = [file |-> t, size |-> Len(F[t])] => Promise!Next
  <2>1. answer' = [file |-> t, size |-> Len(F[t])] => Promise!Stat(t)
    BY DEF Promise!Stat, Before
  <2> QED
    BY <2>1 DEF Promise!Next, Before
<1>3. ASSUME \E from, to \in 1..Len(F[t]) :
               /\ from <= to
               /\ answer' = [file |-> t, from |-> from, data |-> SubSeq(F[t], from, to)]
      PROVE  Promise!Next
  <2>1. Promise!Read(t)
    BY <1>3 DEF Promise!Read, Before
  <2> QED
    BY <2>1 DEF Promise!Next, Before
<1> QED
  BY <1>1, <1>2, <1>3 DEF Answers

LEMMA PromiseCreate ==
  ASSUME NEW F, NEW D, Before(F, D), NEW F1, NEW D1, After(F1, D1),
         NEW t \in Names, t \notin DOMAIN F, answer' = None,
         F1 = [s \in DOMAIN F \cup {t} |-> IF s = t THEN <<>> ELSE F[s]],
         D1 = [s \in DOMAIN D \cup {t} |-> IF s = t THEN <<>> ELSE D[s]]
  PROVE  Promise!Next
<1>1. Promise!Create(t)
  BY DEF Promise!Create, Promise!Exists, Promise!Added, Before, After
<1> QED
  BY <1>1 DEF Promise!Next

LEMMA PromiseTruncate ==
  ASSUME NEW F, NEW D, Before(F, D), NEW F1, NEW D1, After(F1, D1),
         NEW t \in DOMAIN F, answer' = None,
         F1 = [F EXCEPT ![t] = <<>>], D1 = [D EXCEPT ![t] = <<>>]
  PROVE  Promise!Next
<1>1. Promise!Truncate(t)
  BY DEF Promise!Truncate, Before, After
<1> QED
  BY <1>1 DEF Promise!Next, Before

LEMMA PromiseUnlink ==
  ASSUME NEW F, NEW D, Before(F, D), NEW F1, NEW D1, After(F1, D1),
         NEW t \in DOMAIN F, answer' = None,
         F1 = [s \in DOMAIN F \ {t} |-> F[s]], D1 = [s \in DOMAIN D \ {t} |-> D[s]]
  PROVE  Promise!Next
<1>1. Promise!Unlink(t)
  BY DEF Promise!Unlink, Promise!Restrict, Before, After
<1> QED
  BY <1>1 DEF Promise!Next, Before

LEMMA PromiseRename ==
  ASSUME NEW F, NEW D, Before(F, D), NEW F1, NEW D1, After(F1, D1),
         NEW a \in DOMAIN F, NEW b \in Names, b \notin DOMAIN F, answer' = None,
         F1 = [s \in (DOMAIN F \ {a}) \cup {b} |-> IF s = b THEN F[a] ELSE F[s]],
         D1 = [s \in (DOMAIN D \ {a}) \cup {b} |-> IF s = b THEN D[a] ELSE D[s]]
  PROVE  Promise!Next
<1>1. Promise!Rename(a, b)
  BY DEF Promise!Rename, Promise!Renamed, Promise!Exists, Before, After
<1> QED
  BY <1>1 DEF Promise!Next, Before

LEMMA PromisePowerLoss ==
  ASSUME NEW F, NEW D, Before(F, D), NEW F1, NEW D1, After(F1, D1),
         F1 = D, D1 = D, answer' = None
  PROVE  Promise!Next
<1>1. Promise!PowerLoss
  BY DEF Promise!PowerLoss, Before, After
<1> QED
  BY <1>1 DEF Promise!Next

-----------------------------------------------------------------------------
(* The calls.  One that touches a single file, from machine m to n, and    *)
(* the files and the flash before and after.                               *)
Touches(m, n, i, F, D, F1, D1, t) ==
  /\ Before(F, D) /\ After(F1, D1) /\ t = Title(m, i)
  /\ t \in DOMAIN F /\ DOMAIN F1 = DOMAIN F /\ F = [s \in DOMAIN F |-> F[s]]
  /\ F[t] = Contents(m, i) /\ D[t] = m.objs[i].data
  /\ F1[t] = Contents(n, i)
  /\ F1 = [F EXCEPT ![t] = Contents(n, i)]
  /\ D1 = [D EXCEPT ![t] = n.objs[i].data]

SameStore(m, n) == n.objs = m.objs /\ n.pages = m.pages

LEMMA OneFileStep ==
  ASSUME Titled(Now), NEW n, Becomes(n), DOMAIN n.objs = DOMAIN Now.objs,
         \A o \in DOMAIN Now.objs : n.objs[o].header = Now.objs[o].header,
         NEW i \in DOMAIN Now.objs,
         \A o \in DOMAIN Now.objs \ {i} :
           Contents(n, o) = Contents(Now, o) /\ n.objs[o].data = Now.objs[o].data
  PROVE  Titled(Now)' /\ \E F, D, F1, D1, t : Touches(Now, n, i, F, D, F1, D1, t)
<1> DEFINE F == Files(Now)
           D == Disk(Now)
           F1 == Files(n)
           D1 == Disk(n)
           t == Title(Now, i)
<1>1. /\ Titled(n) /\ t \in DOMAIN F /\ DOMAIN F1 = DOMAIN F
      /\ F[t] = Contents(Now, i) /\ F1[t] = Contents(n, i) /\ D[t] = Now.objs[i].data
      /\ F1 = [F EXCEPT ![t] = Contents(n, i)]
      /\ D1 = [D EXCEPT ![t] = n.objs[i].data]
  BY OneFileChanges
<1>2. F = [s \in DOMAIN F |-> F[s]]
  BY FilesFacts
<1>3. Before(F, D)
  BY BeforeStep
<1>4. After(F1, D1) /\ Titled(Now)'
  BY <1>1, AfterStep
<1>5. t = Title(Now, i)
  OBVIOUS
<1> HIDE DEF F, D, F1, D1, t
<1>6. Touches(Now, n, i, F, D, F1, D1, t)
  BY <1>1, <1>2, <1>3, <1>4, <1>5 DEF Touches
<1> QED
  BY <1>4, <1>6

(* One that flushes a file, answers from it perhaps, and changes           *)
(* descriptors: a step of Flush, Read or Stat.                             *)
LEMMA FlushedPromise ==
  ASSUME PromiseInv, NEW f \in Fds, Calls(f), NEW i, i = fds[f].obj,
         NEW m, m = Flushed(Now, f),
         NEW n, SameStore(m, n), Becomes(n), Answers(Title(m, i), m.objs[i].data)
  PROVE  Titled(Now)' /\ Promise!Next
<1>1. /\ PlacedInv /\ Titled(Now) /\ Sound(Now) /\ Sized(Now) /\ PagesPlaced(Now)
      /\ Now.fds[f].open /\ i = Now.fds[f].obj /\ i \in DOMAIN Now.objs
  BY NowPlaced DEF PromiseInv, Calls
<1>2. Wrote(Now, m, i, Contents(Now, i)) /\ m.objs[i].data = Contents(Now, i)
  <2>1. /\ Sound(Now) /\ Sized(Now) /\ PagesPlaced(Now)
        /\ Now.fds[f].open /\ i = Now.fds[f].obj
    BY <1>1
  <2> QED
    BY <2>1, FlushedKeeps
<1>3. n.objs = m.objs /\ \A o : Contents(n, o) = Contents(m, o)
  BY SameSeen DEF SameStore
<1>4. /\ DOMAIN n.objs = DOMAIN Now.objs
      /\ Contents(n, i) = Contents(Now, i) /\ n.objs[i].data = Contents(Now, i)
      /\ \A o \in DOMAIN Now.objs : n.objs[o].header = Now.objs[o].header
      /\ \A o \in DOMAIN Now.objs \ {i} :
           Contents(n, o) = Contents(Now, o) /\ n.objs[o].data = Now.objs[o].data
      /\ Title(m, i) = Title(Now, i)
  BY <1>1, <1>2, <1>3 DEF Wrote, Title
<1>5. Titled(Now) /\ Becomes(n) /\ i \in DOMAIN Now.objs
  BY <1>1
<1>6. PICK F, D, F1, D1, t : Touches(Now, n, i, F, D, F1, D1, t)
  BY <1>4, <1>5, OneFileStep
<1>7. Titled(Now)'
  BY <1>4, <1>5, OneFileStep
<1>8. /\ F1 = F /\ D1 = [D EXCEPT ![t] = F[t]] /\ t \in DOMAIN F
      /\ Before(F, D) /\ After(F1, D1)
  <2>1. F1 = [F EXCEPT ![t] = F[t]] /\ F = [s \in DOMAIN F |-> F[s]]
    BY <1>4, <1>6 DEF Touches
  <2>2. [F EXCEPT ![t] = F[t]] = F
    BY <2>1
  <2> QED
    BY <1>4, <1>6, <2>1, <2>2 DEF Touches
<1>9. Promise!Flush(t)
  BY <1>8, PromiseFlush
<1>10. Answers(t, F[t])
  <2>1. t = Title(m, i) /\ F[t] = m.objs[i].data
    BY <1>2, <1>4, <1>6 DEF Touches
  <2> QED
    BY <2>1
<1>11. Promise!Next
  BY <1>8, <1>9, <1>10, PromiseAnswer
<1> QED
  BY <1>7, <1>11

LEMMA FstatPromise ==
  ASSUME PromiseInv, NEW f \in Fds, Fstat(f)
  PROVE  Titled(Now)' /\ Promise!Next
<1> DEFINE i == fds[f].obj
           m == Flushed(Now, f)
<1>1. /\ Calls(f) /\ Becomes(m)
      /\ answer' = [file |-> m.objs[m.fds[f].obj].header.name,
                    size |-> Len(m.objs[m.fds[f].obj].data)]
  BY DEF Fstat, Calls
<1>2. m.fds[f].obj = i
  BY <1>1, FlushedPlaced, NowPlaced DEF SameFds, PromiseInv
<1> HIDE DEF m
<1>3. Answers(Title(m, i), m.objs[i].data)
  BY <1>1, <1>2 DEF Answers, Title
<1> QED
  <2>1. SameStore(m, m) /\ m = Flushed(Now, f)
    BY DEF SameStore, m
  <2> QED
    BY <1>1, <1>3, <2>1, FlushedPromise

LEMMA ClosePromise ==
  ASSUME PromiseInv, NEW f \in Fds, Close(f)
  PROVE  Titled(Now)' /\ Promise!Next
<1> DEFINE m == Flushed(Now, f)
           n == ClosedIn(m, f)
<1>1. Calls(f) /\ Becomes(n) /\ answer' = None
  BY DEF Close, Calls
<1>2. IsMachine(m)
  BY <1>1, FlushedPlaced DEF PromiseInv
<1>3. SameStore(m, n)
  BY <1>2 DEF SameStore, ClosedIn, IsMachine
<1>4. Answers(Title(m, fds[f].obj), m.objs[fds[f].obj].data)
  BY <1>1 DEF Answers
<1> HIDE DEF n
<1> QED
  BY <1>1, <1>3, <1>4, FlushedPromise

LEMMA LseekPromise ==
  ASSUME PromiseInv, NEW f \in Fds, NEW offs, Lseek(f, offs)
  PROVE  Titled(Now)' /\ Promise!Next
<1> DEFINE m == Flushed(Now, f)
           moved == [m EXCEPT !.fds[f].fdoffset = offs]
<1>1. Calls(f) /\ answer' = None /\ (Becomes(moved) \/ Becomes(m))
  BY DEF Lseek, Calls
<1>2. IsMachine(m)
  BY <1>1, FlushedPlaced DEF PromiseInv
<1>3. SameStore(m, moved)
  BY <1>2 DEF SameStore, IsMachine
<1>4. SameStore(m, m) /\ m = Flushed(Now, f)
  BY DEF SameStore
<1>5. Answers(Title(m, fds[f].obj), m.objs[fds[f].obj].data)
  BY <1>1 DEF Answers
<1> HIDE DEF m, moved
<1> QED
  BY <1>1, <1>3, <1>4, <1>5, FlushedPromise

LEMMA ReadPromise ==
  ASSUME PromiseInv, NEW f \in Fds, NEW len \in 1..MaxWrite, Read(f, len)
  PROVE  Titled(Now)' /\ Promise!Next
<1> DEFINE i == fds[f].obj
           m == Flushed(Now, f)
           at == fds[f].fdoffset
           d == m.objs[i].data
           size == m.fds[f].size
           to == Min({at + len, size})
           object == m.objs[m.fds[f].obj]
           moved == [m EXCEPT !.fds[f].fdoffset = to, !.work = m.objs[i].header]
           loaded == [m EXCEPT !.work = m.objs[i].header]
           text == [file |-> m.objs[i].header.name, from |-> at + 1,
                    data |-> SubSeq(d, at + 1, to)]
<1>1. Calls(f)
  BY DEF Read, Calls
<1>2. /\ Placed(m) /\ Sound(m) /\ Sized(m) /\ IsMachine(m) /\ SameFds(Now, m)
      /\ i \in DOMAIN m.objs /\ i \in DOMAIN objs /\ d = Contents(Now, i)
      /\ \A o \in DOMAIN objs : Contents(m, o) = Contents(Now, o)
  BY <1>1, FlushedPlaced, NowPlaced DEF PromiseInv, Calls
<1>3. m.fds[f].obj = i /\ m.fds[f].fdoffset = at /\ at \in Nat
  BY <1>2, NowFacts, NowPlaced DEF SameFds, PromiseInv
<1>4. \/ /\ size # UndefinedLen /\ at < size
         /\ Becomes(moved) /\ answer' = text
      \/ (Becomes(loaded) \/ Becomes(m)) /\ answer' = None
  BY <1>3 DEF Read
<1>5. m = Flushed(Now, f)
  OBVIOUS
<1>6. SameStore(m, moved) /\ SameStore(m, loaded) /\ SameStore(m, m)
  BY <1>2 DEF IsMachine, SameStore
<1> HIDE DEF moved, loaded
<1>7. ASSUME (Becomes(loaded) \/ Becomes(m)) /\ answer' = None
      PROVE  Titled(Now)' /\ Promise!Next
  <2>1. Answers(Title(m, i), m.objs[i].data)
    BY <1>7 DEF Answers
  <2> QED
    BY <1>1, <1>5, <1>6, <1>7, <2>1, FlushedPromise
<1>8. ASSUME size # UndefinedLen, at < size, Becomes(moved), answer' = text
      PROVE  Titled(Now)' /\ Promise!Next
  <2>1. size \in Nat /\ size <= Len(d)
    BY <1>1, <1>2, <1>3, <1>8, SizeIsContents DEF PromiseInv
  <2>2. Len(d) \in Nat
    BY <1>2, ContentsFacts DEF Placed
  <2>3. len \in Nat /\ len >= 1
    BY InputsFacts
  <2>4. at + 1 \in 1..Len(d) /\ to \in 1..Len(d) /\ at + 1 <= to
    <3> HIDE DEF at, size, d
    <3>1. at + len \in Nat
      BY <1>3, <2>3
    <3>2. to = IF at + len <= size THEN at + len ELSE size
      BY <2>1, <3>1, MinOfTwo
    <3>3. at < size
      BY <1>8
    <3>4. /\ at \in Nat /\ size \in Nat /\ Len(d) \in Nat /\ len \in Nat
          /\ size <= Len(d) /\ len >= 1
      BY <1>3, <2>1, <2>2, <2>3
    <3> HIDE DEF to
    <3>5. to \in Nat /\ at + 1 <= to /\ to <= size
      BY <3>2, <3>3, <3>4
    <3> QED
      BY <3>4, <3>5
  <2>5. answer' = [file |-> Title(m, i), from |-> at + 1, data |-> SubSeq(d, at + 1, to)]
    BY <1>8 DEF Title
  <2> DEFINE from == at + 1
  <2>6. /\ from \in 1..Len(d) /\ to \in 1..Len(d) /\ from <= to
        /\ answer' = [file |-> Title(m, i), from |-> from, data |-> SubSeq(d, from, to)]
    BY <2>4, <2>5
  <2>7. Answers(Title(m, i), d)
    <3> HIDE DEF m, d, from, to
    <3> QED
      BY <2>6 DEF Answers
  <2> HIDE DEF m
  <2> QED
    BY <1>1, <1>5, <1>6, <1>8, <2>7, FlushedPromise
<1> QED
  BY <1>4, <1>7, <1>8

(* What stands where bytes have been written.                              *)
LEMMA OverwrittenReads ==
  ASSUME NEW d \in Seq(Bytes), NEW off \in 0..Len(d), NEW b \in Seq(Bytes)
  PROVE  LET e == Overwritten(d, off, b)
         IN off + Len(b) <= Len(e) /\ SubSeq(e, off + 1, off + Len(b)) = b
<1> DEFINE e == Overwritten(d, off, b)
<1>1. Len(d) \in Nat /\ Len(b) \in Nat /\ off \in Nat /\ off <= Len(d)
  BY LenProperties
<1>2. /\ e \in Seq(Bytes) /\ Len(e) = Longer(Len(d), off + Len(b))
      /\ \A j \in 1..Len(e) :
           e[j] = IF off < j /\ j <= off + Len(b) THEN b[j - off] ELSE d[j]
  BY Overwriting
<1> HIDE DEF e
<1>3. off + Len(b) <= Len(e) /\ Len(e) \in Nat
  BY <1>1, <1>2, LenProperties DEF Longer
<1> DEFINE first == off + 1
           last == off + Len(b)
           u == SubSeq(e, first, last)
<1>4. first \in Int /\ last \in Int /\ last - first + 1 = Len(b)
      /\ (IF first <= last THEN last - first + 1 ELSE 0) = Len(b)
  BY <1>1
<1>5. \A j \in first..last : j \in 1..Len(e)
  BY <1>1, <1>3
<1>6. \A j \in first..last : e[j] \in Bytes
  BY <1>2, <1>5, ElementOfSeq
<1>7. \A j \in 1..Len(b) : first + j - 1 \in 1..Len(e) /\ e[first + j - 1] = b[j]
  <2> TAKE j \in 1..Len(b)
  <2> DEFINE x == first + j - 1
  <2>1. x \in 1..Len(e) /\ x - off = j /\ off < x /\ x <= off + Len(b)
    BY <1>1, <1>3
  <2> HIDE DEF x
  <2>2. x \in 1..Len(e) /\ e[x] = b[j]
    BY <1>2, <2>1
  <2> QED
    BY <2>2 DEF x
<1> HIDE DEF first, last
<1>8. /\ u \in Seq(Bytes) /\ Len(u) = IF first <= last THEN last - first + 1 ELSE 0
      /\ \A j \in 1..last - first + 1 : u[j] = e[first + j - 1]
  BY <1>4, <1>6, SubSeqProperties
<1> HIDE DEF u
<1>9. Len(u) = Len(b) /\ \A j \in 1..Len(u) : u[j] = b[j]
  BY <1>4, <1>7, <1>8
<1>10. u = b
  BY <1>8, <1>9, SeqEqual
<1> QED
  BY <1>3, <1>10 DEF e, u, first, last

(* The first byte once more.                                               *)
LEMMA OverwrittenByFirst ==
  ASSUME NEW d \in Seq(Bytes), Len(d) >= 1
  PROVE  Overwritten(d, 0, SubSeq(d, 0 + 1, 0 + 1)) = d
<1> DEFINE b == SubSeq(d, 0 + 1, 0 + 1)
           e == Overwritten(d, 0, b)
<1>1. Len(d) \in Nat /\ 0 \in 0..Len(d)
  BY LenProperties
<1>2. b \in Seq(Bytes) /\ Len(b) = 1 /\ b[1] = d[1]
  <2>1. \A j \in 1..1 : d[j] \in Bytes
    BY <1>1, ElementOfSeq
  <2> QED
    BY <2>1, SubSeqProperties
<1> HIDE DEF b
<1>3. /\ e \in Seq(Bytes) /\ Len(e) = Longer(Len(d), 0 + Len(b))
      /\ \A j \in 1..Len(e) : e[j] = IF 0 < j /\ j <= 0 + Len(b) THEN b[j - 0] ELSE d[j]
  BY <1>1, <1>2, Overwriting
<1> HIDE DEF e
<1>4. Len(e) = Len(d)
  BY <1>1, <1>2, <1>3 DEF Longer
<1>5. ASSUME NEW j \in 1..Len(e) PROVE e[j] = d[j]
  <2>1. CASE j = 1
    BY <1>2, <1>3, <2>1
  <2>2. CASE j # 1
    BY <1>1, <1>2, <1>3, <1>4, <2>2
  <2> QED
    BY <2>1, <2>2
<1>6. e = d
  BY <1>3, <1>4, <1>5, SeqEqual
<1> QED
  BY <1>6 DEF e, b

LEMMA WriteLength ==
  ASSUME NEW b \in BoundedSeq(Bytes, MaxWrite) \ {<<>>}
  PROVE  b \in Seq(Bytes) /\ Len(b) \in 1..MaxWrite
<1>1. PICK m \in 0..MaxWrite : b \in [1..m -> Bytes]
  BY DEF BoundedSeq, SeqOf
<1>2. m \in Nat /\ MaxWrite \in Nat
  BY <1>1, SizesAssumption
<1>3. b \in Seq(Bytes)
  BY <1>1, <1>2, SeqDef
<1>4. Len(b) = m
  BY <1>1, <1>2, <1>3, LenProperties
<1>5. b # <<>> => Len(b) # 0
  BY <1>3, EmptySeq
<1> QED
  BY <1>1, <1>2, <1>3, <1>4, <1>5

(* A write of SPIFFS is one of the promise, at the same offset.            *)
LEMMA WritePromise ==
  ASSUME PromiseInv, NEW f \in Fds, NEW b \in BoundedSeq(Bytes, MaxWrite) \ {<<>>},
         Write(f, b)
  PROVE  Titled(Now)' /\ Promise!Next
<1> DEFINE i == fds[f].obj
           c == Contents(Now, i)
           off == WriteOffset(f, CachePage(Now, f))
           d == Overwritten(c, off, b)
<1>1. PICK m \in Written(f, b) :
        Becomes(IF m.ok THEN [m EXCEPT !.fds[f].fdoffset = @ + Len(b)] ELSE m)
  BY DEF Write
<1>2. /\ fds[f].open /\ b \in Seq(Bytes) /\ Len(b) \in 1..MaxWrite
      /\ off + Len(b) <= MaxSize /\ PlacedInv /\ Titled(Now) /\ answer' = None
  BY WriteLength DEF Write, Calls, PromiseInv
<1>3. i \in DOMAIN Now.objs /\ off \in 0..Len(c)
  BY <1>2, WriteStart, NowFacts
<1>4. Wrote(Now, m, i, d)
  BY <1>1, <1>2, WrittenContents
<1>5. IsMachine(m)
  BY <1>1, <1>2, WrittenSound DEF Sound, PlacedInv, SizedInv, IInv
<1> HIDE DEF off
<1>6. c \in Seq(Bytes)
  BY <1>2, <1>3, NowPlaced, ContentsFacts
<1>7. off + Len(b) <= Len(d) /\ SubSeq(d, off + 1, off + Len(b)) = b
  <2> HIDE DEF c
  <2> QED
    BY <1>2, <1>3, <1>6, OverwrittenReads
<1>8. PICK n : SameStore(m, n) /\ Becomes(n)
  <2> DEFINE n == IF m.ok THEN [m EXCEPT !.fds[f].fdoffset = @ + Len(b)] ELSE m
  <2>1. SameStore(m, n)
    BY <1>5 DEF IsMachine, SameStore
  <2> HIDE DEF n
  <2> QED
    BY <1>1, <2>1 DEF n
<1>9. n.objs = m.objs /\ \A o : Contents(n, o) = Contents(m, o)
  BY <1>8, SameSeen DEF SameStore
<1> HIDE DEF c, d
<1>10. /\ DOMAIN n.objs = DOMAIN Now.objs
       /\ Contents(n, i) = d /\ n.objs[i].data \in {Now.objs[i].data, c, d}
       /\ \A o \in DOMAIN Now.objs : n.objs[o].header = Now.objs[o].header
       /\ \A o \in DOMAIN Now.objs \ {i} :
            Contents(n, o) = Contents(Now, o) /\ n.objs[o].data = Now.objs[o].data
  BY <1>3, <1>4, <1>9 DEF Wrote, c
<1>11. Titled(Now)' /\ \E F, D, F1, D1, t : Touches(Now, n, i, F, D, F1, D1, t)
  BY <1>2, <1>3, <1>8, <1>10, OneFileStep
<1>12. PICK F, D, F1, D1, t : Touches(Now, n, i, F, D, F1, D1, t)
  BY <1>11
<1>13. /\ Before(F, D) /\ After(F1, D1) /\ t \in DOMAIN F /\ DOMAIN F1 = DOMAIN F
       /\ F[t] = c /\ F1[t] = d /\ D[t] = Now.objs[i].data
       /\ F1 = [F EXCEPT ![t] = d] /\ D1 = [D EXCEPT ![t] = n.objs[i].data]
  BY <1>10, <1>12 DEF Touches, c
<1>14. PICK k : k = Len(b)
  OBVIOUS
<1>15. PICK data : data = n.objs[i].data
  OBVIOUS
<1>16. /\ off \in 0..Len(F[t]) /\ k \in 1..MaxWrite /\ off + k <= Len(F1[t])
       /\ data \in {D[t], F[t], F1[t]} /\ D1 = [D EXCEPT ![t] = data]
  BY <1>2, <1>3, <1>7, <1>10, <1>13, <1>14, <1>15
<1>17. F1 = [F EXCEPT ![t] = Overwritten(F[t], off, SubSeq(F1[t], off + 1, off + k))]
  <2>1. Overwritten(F[t], off, SubSeq(F1[t], off + 1, off + k)) = d
    BY <1>7, <1>13, <1>14 DEF d
  <2> QED
    BY <1>13, <2>1
<1>18. Promise!Next
  <2>1. Rewrites(F, D, F1, D1, t, off, k, data)
    <3>1. t \in DOMAIN F /\ DOMAIN F1 = DOMAIN F
      BY <1>13
    <3> QED
      BY <1>16, <1>17, <3>1 DEF Rewrites
  <2>2. Before(F, D) /\ After(F1, D1) /\ answer' = None
    BY <1>2, <1>13
  <2> QED
    BY <2>1, <2>2, PromiseWrite
<1> QED
  BY <1>11, <1>18

(* What no program sees: a byte of the file is written as it was, or the   *)
(* empty file is flushed.                                                  *)
LEMMA UnseenPromise ==
  ASSUME PromiseInv, NEW i \in DOMAIN objs, NEW n, SameStore(Now, n), Becomes(n),
         answer' = None
  PROVE  Titled(Now)' /\ Promise!Next
<1> DEFINE c == Contents(Now, i)
           e == Now.objs[i].data
<1>1. /\ PlacedInv /\ Titled(Now) /\ Sound(Now) /\ Sized(Now) /\ PagesPlaced(Now)
      /\ i \in DOMAIN Now.objs
  BY NowPlaced DEF PromiseInv
<1>2. /\ e \in Seq(Bytes) /\ c \in Seq(Bytes) /\ Len(e) \in Nat /\ Len(c) \in Nat
      /\ Len(e) <= Len(c)
  BY <1>1, ContentsFacts
<1>3. n.objs = Now.objs /\ \A o : Contents(n, o) = Contents(Now, o)
  BY SameSeen DEF SameStore
<1>4. Titled(Now)' /\ \E F, D, F1, D1, t : Touches(Now, n, i, F, D, F1, D1, t)
  BY <1>1, <1>3, OneFileStep
<1>5. PICK F, D, F1, D1, t : Touches(Now, n, i, F, D, F1, D1, t)
  BY <1>4
<1>6. /\ Before(F, D) /\ After(F1, D1) /\ t \in DOMAIN F /\ DOMAIN F1 = DOMAIN F
      /\ F[t] = c /\ F1[t] = c /\ D[t] = e
      /\ F1 = [F EXCEPT ![t] = c] /\ D1 = [D EXCEPT ![t] = e]
      /\ F = [s \in DOMAIN F |-> F[s]]
  BY <1>3, <1>5 DEF Touches
<1> HIDE DEF c, e
<1>7. ASSUME Len(c) >= 1 PROVE Promise!Next
  <2>1. Overwritten(c, 0, SubSeq(c, 0 + 1, 0 + 1)) = c
    BY <1>2, <1>7, OverwrittenByFirst
  <2>2. 0 \in 0..Len(c) /\ 1 \in 1..MaxWrite /\ 0 + 1 <= Len(c)
    BY <1>2, <1>7, SizesAssumption
  <2>3. Rewrites(F, D, F1, D1, t, 0, 1, e)
    BY <1>6, <2>1, <2>2 DEF Rewrites
  <2> QED
    BY <1>6, <2>3, PromiseWrite
<1>8. ASSUME ~(Len(c) >= 1) PROVE Promise!Next
  <2>1. Len(c) = 0 /\ Len(e) = 0
    BY <1>2, <1>8
  <2>2. e = c
    BY <1>2, <2>1, EmptySeq
  <2>3. F1 = F
    BY <1>6
  <2>4. D1 = [D EXCEPT ![t] = F[t]]
    BY <1>6, <2>2
  <2>5. Promise!Flush(t)
    BY <1>6, <2>3, <2>4, PromiseFlush
  <2>6. Answers(t, F[t])
    BY DEF Answers
  <2> QED
    BY <1>6, <2>5, <2>6, PromiseAnswer
<1> QED
  BY <1>4, <1>7, <1>8

LEMMA EmptiedPromise ==
  ASSUME PromiseInv, NEW i \in DOMAIN objs, \A p \in Pages : pages[p].obj # i,
         NEW n, Becomes(n), n.pages = pages, DOMAIN n.objs = DOMAIN objs,
         n.objs[i].data = <<>>, n.objs[i].header = objs[i].header,
         \A o \in DOMAIN objs \ {i} : /\ n.objs[o].header = objs[o].header
                                      /\ n.objs[o].data = objs[o].data,
         answer' = None
  PROVE  Titled(Now)' /\ Promise!Next
<1>1. Titled(Now) /\ Now.objs = objs /\ Now.pages = pages
  BY NowPlaced DEF PromiseInv
<1>2. Contents(n, i) = <<>>
  BY ContentsBare
<1>3. \A o \in DOMAIN Now.objs \ {i} :
        Contents(n, o) = Contents(Now, o) /\ n.objs[o].data = Now.objs[o].data
  BY <1>1 DEF Contents
<1>4. \A o \in DOMAIN Now.objs : n.objs[o].header = Now.objs[o].header
  BY <1>1
<1>5. Titled(Now)' /\ \E F, D, F1, D1, t : Touches(Now, n, i, F, D, F1, D1, t)
  BY <1>1, <1>3, <1>4, OneFileStep
<1>6. PICK F, D, F1, D1, t : Touches(Now, n, i, F, D, F1, D1, t)
  BY <1>5
<1>7. /\ Before(F, D) /\ After(F1, D1) /\ t \in DOMAIN F
      /\ F1 = [F EXCEPT ![t] = <<>>] /\ D1 = [D EXCEPT ![t] = <<>>]
  BY <1>2, <1>6 DEF Touches
<1>8. Promise!Next
  BY <1>7, PromiseTruncate
<1> QED
  BY <1>5, <1>8

(* O_TRUNC empties the file it opens, and leaves it its name unless there  *)
(* is another one's header in fs->work.                                    *)
LEMMA OpenFilePromise ==
  ASSUME PromiseInv, NEW name, NEW modes, NEW trunc, OpenFile(name, modes, trunc),
         trunc => ~InUse(Min(Named(name))),
         trunc /\ objs[Min(Named(name))].data = <<>>
           => work \in {BadHeader, objs[Min(Named(name))].header}
  PROVE  Titled(Now)' /\ Promise!Next
<1> DEFINE i == Min(Named(name))
           f == Min(FreeFds)
           o == Opened(i, f, modes)
           t == Truncated(o, f)
           m == IF trunc THEN t ELSE o
<1>1. /\ Becomes(m) /\ m.ok /\ answer' = None
      /\ f \in Fds /\ ~fds[f].open /\ i \in DOMAIN objs
      /\ trunc => ~InUse(i)
      /\ trunc /\ objs[i].data = <<>> => work \in {BadHeader, objs[i].header}
  BY FreeFdFacts, NamedFacts DEF OpenFile, PromiseInv, PlacedInv, SizedInv, IInv
<1> HIDE DEF i, f
<1>2. /\ PlacedInv /\ Sound(Now) /\ Sized(Now) /\ IsMachine(Now) /\ i \in DOMAIN Now.objs
      /\ Now.fds = fds /\ Now.objs = objs /\ Now.pages = pages /\ Now.work = work
      /\ Now.ok
  BY <1>1, NowPlaced DEF Now, Sound, PromiseInv
<1> DEFINE size == SizeOf(Now.objs[i].data)
<1>3. o = OpenIn(Now, f, i, modes, size)
  BY <1>2 DEF Opened, OpenIn
<1> HIDE DEF o, size
<1>4. /\ o.objs = objs /\ o.pages = pages /\ o.work = work /\ o.ok
      /\ o.fds[f].obj = i /\ IsMachine(o)
  <2>1. o.objs = Now.objs /\ o.pages = Now.pages /\ o.ok = Now.ok /\ o.work = Now.work
    BY <1>2, <1>3 DEF OpenIn, IsMachine
  <2>2. IsMachine(o)
    BY <1>1, <1>2, <1>3, OpenedSound DEF Sound
  <2>3. o.fds[f].obj = i
    BY <1>1, <1>2, <1>3 DEF OpenIn, IsMachine, Shaped
  <2> QED
    BY <1>2, <2>1, <2>2, <2>3
<1>5. ASSUME ~trunc PROVE Titled(Now)' /\ Promise!Next
  <2>1. Becomes(o) /\ SameStore(Now, o)
    BY <1>1, <1>2, <1>4, <1>5 DEF SameStore
  <2> QED
    BY <1>1, <2>1, UnseenPromise
<1>6. ASSUME trunc PROVE Titled(Now)' /\ Promise!Next
  <2>1. Becomes(t) /\ t.ok
    BY <1>1, <1>6
  <2>2. DOMAIN o.objs[i] = {"header", "data"} /\ i \in DOMAIN o.objs /\ i = o.fds[f].obj
    BY <1>2, <1>4 DEF Sized, ObjSized
  <2>3. t = Truncated(o, f)
    OBVIOUS
  <2> HIDE DEF t
  <2>4. /\ t.pages = o.pages /\ DOMAIN t.objs = DOMAIN o.objs
        /\ t.objs[i].data = <<>>
        /\ t.objs[i].header # BadHeader
        /\ t.objs[i].header = IF o.objs[i].data # <<>> THEN o.objs[i].header ELSE o.work
        /\ \A j \in DOMAIN o.objs \ {i} : /\ t.objs[j].header = o.objs[j].header
                                          /\ t.objs[j].data = o.objs[j].data
    BY <1>1, <1>4, <2>1, <2>2, <2>3, TruncatedPuts
  <2>5. t.objs[i].header = objs[i].header
    BY <1>1, <1>4, <1>6, <2>4
  <2>6. \A p \in Pages : pages[p].obj # i
    <3>1. PendingPages(Now, i) = {}
      BY <1>1, <1>6 DEF InUse
    <3> QED
      BY <1>2, <3>1 DEF PendingPages
  <2> QED
    BY <1>1, <1>4, <2>1, <2>4, <2>5, <2>6, EmptiedPromise
<1> HIDE DEF m, t
<1> QED
  BY <1>5, <1>6

-----------------------------------------------------------------------------
(* The calls that add, remove and rename files.                            *)
LEMMA NamedTitle ==
  ASSUME OwnInv, NEW a, Named(a) # {}
  PROVE  /\ Min(Named(a)) \in DOMAIN objs
         /\ objs[Min(Named(a))].header = [name |-> a, removed |-> FALSE]
<1>1. Named(a) \subseteq Nat
  BY DEF Named, OwnInv, Ids
<1>2. Min(Named(a)) \in Named(a)
  BY <1>1, MinIsElement
<1> QED
  BY <1>2 DEF Named

LEMMA UnnamedTitle ==
  ASSUME Titled(Now), NEW a, Named(a) = {}
  PROVE  a \notin Titles(Now) /\ \A i \in DOMAIN Now.objs : Title(Now, i) # a
<1>1. ASSUME NEW i \in DOMAIN Now.objs, Title(Now, i) = a PROVE FALSE
  <2>1. PICK t \in Names : Now.objs[i].header = [name |-> t, removed |-> FALSE]
    BY DEF Titled
  <2>2. t = a
    BY <1>1, <2>1 DEF Title
  <2>3. i \in Named(a)
    BY <2>1, <2>2, NowFacts DEF Named
  <2> QED
    BY <2>3
<1> QED
  BY <1>1 DEF Titles

LEMMA CreateFilePromise ==
  ASSUME PromiseInv, NEW name \in Names, NEW modes, CreateFile(name, modes)
  PROVE  Titled(Now)' /\ Promise!Next
<1> DEFINE i == FreeObjId
<1>1. /\ OwnInv /\ pages' = pages /\ answer' = None /\ Named(name) = {}
      /\ objs' = [j \in {i} \cup DOMAIN objs |-> IF j = i THEN Created(name) ELSE objs[j]]
  BY DEF CreateFile, IInv, SizedInv, PlacedInv, PromiseInv
<1>2. i \notin DOMAIN objs /\ i # 0
  BY <1>1, FreeObjIdFacts
<1> HIDE DEF i
<1>3. PICK n : n = [objs |-> objs', fds |-> fds', pages |-> pages', work |-> work', ok |-> TRUE]
  OBVIOUS
<1>4. /\ Becomes(n) /\ n.pages = Now.pages /\ DOMAIN n.objs = DOMAIN Now.objs \cup {i}
      /\ n.objs[i].data = <<>> /\ n.objs[i].header = [name |-> name, removed |-> FALSE]
      /\ \A j \in DOMAIN Now.objs : n.objs[j] = Now.objs[j] /\ j # i
  BY <1>1, <1>2, <1>3, NowFacts DEF Becomes, Created
<1>5. PlacedInv /\ Titled(Now)
  BY DEF PromiseInv
<1>6. name \notin Titles(Now) /\ \A j \in DOMAIN Now.objs : Title(Now, j) # name
  BY <1>1, <1>5, UnnamedTitle
<1>7. Title(n, i) = name /\ \A j \in DOMAIN Now.objs : Title(n, j) = Title(Now, j)
  BY <1>4 DEF Title
<1>8. Titled(n) /\ Titles(n) = Titles(Now) \cup {name}
  <2>1. Titles(n) = Titles(Now) \cup {name}
    BY <1>4, <1>7 DEF Titles
  <2>2. \A j \in DOMAIN n.objs :
          \E t \in Names : n.objs[j].header = [name |-> t, removed |-> FALSE]
    BY <1>4, <1>5 DEF Titled
  <2>3. \A j, k \in DOMAIN n.objs : Title(n, j) = Title(n, k) => j = k
    BY <1>4, <1>5, <1>6, <1>7 DEF Titled
  <2> QED
    BY <2>1, <2>2, <2>3 DEF Titled
<1>9. Contents(n, i) = <<>> /\ \A j \in DOMAIN Now.objs : Contents(n, j) = Contents(Now, j)
  <2>1. \A p \in Pages : n.pages[p].obj # i
    BY <1>2, <1>4, <1>5, NowPlaced DEF PagesPlaced
  <2>2. Contents(n, i) = <<>>
    BY <1>4, <2>1, ContentsBare
  <2>3. \A j \in DOMAIN Now.objs : Contents(n, j) = Contents(Now, j)
    BY <1>4 DEF Contents
  <2> QED
    BY <2>2, <2>3
<1> DEFINE F == Files(Now)
           D == Disk(Now)
           F1 == Files(n)
           D1 == Disk(n)
           T == Titles(Now)
           S == T \cup {name}
           F2 == [s \in DOMAIN F \cup {name} |-> IF s = name THEN <<>> ELSE F[s]]
           D2 == [s \in DOMAIN D \cup {name} |-> IF s = name THEN <<>> ELSE D[s]]
<1>10. /\ DOMAIN F = T /\ DOMAIN D = T
       /\ \A o \in DOMAIN Now.objs : /\ F[Title(Now, o)] = Contents(Now, o)
                                     /\ D[Title(Now, o)] = Now.objs[o].data
  BY <1>5, FilesFacts
<1>11. /\ F1 = [s \in S |-> F1[s]] /\ D1 = [s \in S |-> D1[s]]
       /\ \A o \in DOMAIN n.objs : /\ F1[Title(n, o)] = Contents(n, o)
                                   /\ D1[Title(n, o)] = n.objs[o].data
  BY <1>8, FilesFacts
<1>12. Before(F, D) /\ After(F1, D1) /\ Titled(Now)'
  BY <1>4, <1>8, BeforeStep, AfterStep
<1>13. \A s \in T : \E o \in DOMAIN Now.objs : s = Title(Now, o)
  BY DEF Titles
<1> HIDE DEF F, D, F1, D1, T
<1>14. /\ F2 = [s \in S |-> F2[s]] /\ D2 = [s \in S |-> D2[s]]
       /\ \A s \in S : /\ F2[s] = IF s = name THEN <<>> ELSE F[s]
                       /\ D2[s] = IF s = name THEN <<>> ELSE D[s]
  BY <1>10
<1> HIDE DEF F2, D2
<1>15. \A s \in S : F1[s] = F2[s] /\ D1[s] = D2[s]
  <2> TAKE s \in S
  <2>1. CASE s = name
    <3>1. F1[name] = <<>> /\ D1[name] = <<>>
      BY <1>4, <1>7, <1>9, <1>11
    <3> QED
      BY <1>14, <2>1, <3>1
  <2>2. CASE s # name
    <3>1. PICK o \in DOMAIN Now.objs : s = Title(Now, o)
      BY <1>13, <2>2
    <3>2. F2[s] = F[s] /\ D2[s] = D[s]
      BY <1>14, <2>2
    <3>3. F1[s] = Contents(Now, o) /\ D1[s] = Now.objs[o].data
      BY <1>4, <1>7, <1>9, <1>11, <3>1
    <3> QED
      BY <1>10, <3>1, <3>2, <3>3
  <2> QED
    BY <2>1, <2>2
<1> HIDE DEF S
<1>16. F1 = F2
  BY <1>11, <1>14, <1>15, SameFunction
<1>17. D1 = D2
  BY <1>11, <1>14, <1>15, SameFunction
<1>18. name \notin DOMAIN F
  BY <1>6, <1>10 DEF T
<1>19. Promise!Next
  BY <1>1, <1>12, <1>16, <1>17, <1>18, PromiseCreate DEF F2, D2
<1> QED
  BY <1>12, <1>19

LEMMA UnlinkPromise ==
  ASSUME PromiseInv, NEW a, Unlink(a), PendingPages(Now, Min(Named(a))) = {}
  PROVE  Titled(Now)' /\ Promise!Next
<1> DEFINE i == Min(Named(a))
           E == DOMAIN objs \ {i}
<1>1. /\ OwnInv /\ pages' = pages /\ answer' = None /\ Named(a) # {}
      /\ objs' = Restrict(objs, E) /\ PlacedInv /\ Titled(Now)
  BY DEF Unlink, IInv, SizedInv, PlacedInv, PromiseInv
<1>2. i \in DOMAIN objs /\ objs[i].header = [name |-> a, removed |-> FALSE]
  BY <1>1, NamedTitle
<1> HIDE DEF i
<1>3. PICK n : n = [objs |-> objs', fds |-> fds', pages |-> pages', work |-> work', ok |-> TRUE]
  OBVIOUS
<1>4. /\ Becomes(n) /\ n.pages = Now.pages /\ DOMAIN n.objs = E
      /\ DOMAIN Now.objs = E \cup {i} /\ i \notin E
      /\ \A j \in E : n.objs[j] = Now.objs[j]
  BY <1>1, <1>2, <1>3, NowFacts DEF Becomes, Restrict
<1> HIDE DEF E
<1>5. Title(Now, i) = a /\ \A j \in E : Title(n, j) = Title(Now, j) /\ Title(n, j) # a
  <2>1. Title(Now, i) = a
    BY <1>2, NowFacts DEF Title
  <2>2. \A j \in E : Title(Now, j) # a
    BY <1>1, <1>4, <2>1 DEF Titled
  <2> QED
    BY <1>4, <2>1, <2>2 DEF Title
<1> DEFINE F == Files(Now)
           D == Disk(Now)
           F1 == Files(n)
           D1 == Disk(n)
           T == Titles(Now)
           S == T \ {a}
           F2 == [s \in DOMAIN F \ {a} |-> F[s]]
           D2 == [s \in DOMAIN D \ {a} |-> D[s]]
<1>6. Titled(n) /\ Titles(n) = S /\ a \in T
  <2>1. Titles(n) = S /\ a \in T
    BY <1>4, <1>5 DEF Titles
  <2>2. Titled(n)
    BY <1>1, <1>4, <1>5 DEF Titled
  <2> QED
    BY <2>1, <2>2
<1>7. \A j \in E : Contents(n, j) = Contents(Now, j)
  BY <1>4 DEF Contents
<1>8. /\ DOMAIN F = T /\ DOMAIN D = T
      /\ \A o \in DOMAIN Now.objs : /\ F[Title(Now, o)] = Contents(Now, o)
                                    /\ D[Title(Now, o)] = Now.objs[o].data
  BY <1>1, FilesFacts
<1>9. /\ F1 = [s \in S |-> F1[s]] /\ D1 = [s \in S |-> D1[s]]
      /\ \A o \in DOMAIN n.objs : /\ F1[Title(n, o)] = Contents(n, o)
                                  /\ D1[Title(n, o)] = n.objs[o].data
  BY <1>6, FilesFacts
<1>10. Before(F, D) /\ After(F1, D1) /\ Titled(Now)'
  BY <1>4, <1>6, BeforeStep, AfterStep
<1>11. \A s \in S : \E o \in E : s = Title(n, o)
  BY <1>4, <1>6 DEF Titles
<1> HIDE DEF F, D, F1, D1, T
<1>12. /\ F2 = [s \in S |-> F2[s]] /\ D2 = [s \in S |-> D2[s]]
       /\ \A s \in S : F2[s] = F[s] /\ D2[s] = D[s]
  BY <1>8
<1> HIDE DEF F2, D2
<1>13. \A s \in S : F1[s] = F2[s] /\ D1[s] = D2[s]
  <2> TAKE s \in S
  <2>1. PICK o \in E : s = Title(n, o)
    BY <1>11
  <2>2. F1[s] = Contents(Now, o) /\ D1[s] = Now.objs[o].data
    BY <1>4, <1>7, <1>9, <2>1
  <2>3. F[s] = Contents(Now, o) /\ D[s] = Now.objs[o].data
    BY <1>4, <1>5, <1>8, <2>1
  <2> QED
    BY <1>12, <2>2, <2>3
<1> HIDE DEF S
<1>14. F1 = F2
  BY <1>9, <1>12, <1>13, SameFunction
<1>15. D1 = D2
  BY <1>9, <1>12, <1>13, SameFunction
<1>16. a \in DOMAIN F
  BY <1>6, <1>8
<1>17. Promise!Next
  BY <1>1, <1>10, <1>14, <1>15, <1>16, PromiseUnlink DEF F2, D2
<1> QED
  BY <1>10, <1>17

LEMMA RenamePromise ==
  ASSUME PromiseInv, NEW a, NEW b \in Names, Rename(a, b)
  PROVE  Titled(Now)' /\ Promise!Next
<1> DEFINE i == Min(Named(a))
           header == [objs[i].header EXCEPT !.name = b]
           size == SizeOf(objs[i].data)
           n == UpdateIndexHdr(Now, i, header, size)
<1>1. /\ OwnInv /\ IsMachine(Now) /\ Sized(Now) /\ answer' = None /\ Becomes(n)
      /\ Named(a) # {} /\ Named(b) = {} /\ PlacedInv /\ Titled(Now)
  BY NowFacts DEF Rename, IInv, SizedInv, PlacedInv, PromiseInv, Sound
<1>2. i \in DOMAIN Now.objs /\ Now.objs[i].header = [name |-> a, removed |-> FALSE]
  <2>1. i \in DOMAIN objs /\ objs[i].header = [name |-> a, removed |-> FALSE]
    BY <1>1, NamedTitle
  <2> HIDE DEF i
  <2> QED
    BY <2>1, NowFacts
<1>3. header = [name |-> b, removed |-> FALSE]
  <2> HIDE DEF i
  <2> DEFINE h == objs[i].header
  <2>1. h = [name |-> a, removed |-> FALSE] /\ header = [h EXCEPT !.name = b]
    BY <1>2, NowFacts
  <2> HIDE DEF h, header
  <2> QED
    BY <2>1
<1>4. DOMAIN Now.objs[i] = {"header", "data"} /\ n = UpdateIndexHdr(Now, i, header, size)
  BY <1>1, <1>2 DEF Sized, ObjSized
<1> HIDE DEF i, header, size, n
<1>5. /\ n.pages = Now.pages /\ DOMAIN n.objs = DOMAIN Now.objs
      /\ n.objs[i].header = header
      /\ \A j \in DOMAIN Now.objs : n.objs[j].data = Now.objs[j].data
      /\ \A j \in DOMAIN Now.objs \ {i} : n.objs[j].header = Now.objs[j].header
  BY <1>1, <1>2, <1>4, UpdateIndexHdrPuts
<1>6. b \notin Titles(Now) /\ \A j \in DOMAIN Now.objs : Title(Now, j) # b
  BY <1>1, UnnamedTitle
<1>7. /\ Title(Now, i) = a /\ Title(n, i) = b
      /\ \A j \in DOMAIN Now.objs \ {i} : /\ Title(n, j) = Title(Now, j)
                                          /\ Title(Now, j) # a
  <2>1. Title(Now, i) = a
    BY <1>2 DEF Title
  <2>2. Title(n, i) = b
    BY <1>3, <1>5 DEF Title
  <2>3. \A j \in DOMAIN Now.objs \ {i} : Title(Now, j) # a
    BY <1>1, <1>2, <2>1 DEF Titled
  <2> QED
    BY <1>5, <2>1, <2>2, <2>3 DEF Title
<1> DEFINE F == Files(Now)
           D == Disk(Now)
           F1 == Files(n)
           D1 == Disk(n)
           T == Titles(Now)
           S == (T \ {a}) \cup {b}
           F2 == [s \in (DOMAIN F \ {a}) \cup {b} |-> IF s = b THEN F[a] ELSE F[s]]
           D2 == [s \in (DOMAIN D \ {a}) \cup {b} |-> IF s = b THEN D[a] ELSE D[s]]
<1>8. Titled(n) /\ Titles(n) = S /\ a \in T
  <2>1. a \in T
    BY <1>2, <1>7 DEF Titles
  <2>2. Titles(n) = S
    <3>1. ASSUME NEW s \in Titles(n) PROVE s \in S
      <4>1. PICK j \in DOMAIN Now.objs : s = Title(n, j)
        BY <1>5, <3>1 DEF Titles
      <4>2. CASE j = i
        BY <1>7, <4>1, <4>2
      <4>3. CASE j # i
        BY <1>7, <4>1, <4>3 DEF Titles
      <4> QED
        BY <4>2, <4>3
    <3>2. ASSUME NEW s \in S PROVE s \in Titles(n)
      <4>1. CASE s = b
        BY <1>2, <1>5, <1>7, <4>1 DEF Titles
      <4>2. CASE s # b
        <5>1. PICK j \in DOMAIN Now.objs : s = Title(Now, j) /\ s # a
          BY <4>2 DEF Titles
        <5>2. j \in DOMAIN n.objs /\ s = Title(n, j)
          BY <1>5, <1>7, <5>1
        <5> QED
          BY <5>2 DEF Titles
      <4> QED
        BY <4>1, <4>2
    <3> HIDE DEF S
    <3> QED
      BY <3>1, <3>2
  <2>3. \A j \in DOMAIN n.objs :
          \E t \in Names : n.objs[j].header = [name |-> t, removed |-> FALSE]
    BY <1>1, <1>3, <1>5 DEF Titled
  <2>4. \A j, k \in DOMAIN n.objs : Title(n, j) = Title(n, k) => j = k
    BY <1>1, <1>5, <1>6, <1>7 DEF Titled
  <2> QED
    BY <2>1, <2>2, <2>3, <2>4 DEF Titled
<1>9. \A j \in DOMAIN Now.objs : Contents(n, j) = Contents(Now, j)
  BY <1>5 DEF Contents
<1>10. /\ DOMAIN F = T /\ DOMAIN D = T
       /\ \A o \in DOMAIN Now.objs : /\ F[Title(Now, o)] = Contents(Now, o)
                                     /\ D[Title(Now, o)] = Now.objs[o].data
  BY <1>1, FilesFacts
<1>11. /\ F1 = [s \in S |-> F1[s]] /\ D1 = [s \in S |-> D1[s]]
       /\ \A o \in DOMAIN n.objs : /\ F1[Title(n, o)] = Contents(n, o)
                                   /\ D1[Title(n, o)] = n.objs[o].data
  BY <1>8, FilesFacts
<1>12. Before(F, D) /\ After(F1, D1) /\ Titled(Now)'
  BY <1>1, <1>8, BeforeStep, AfterStep
<1>13. \A s \in S : \E o \in DOMAIN Now.objs : s = Title(n, o)
  BY <1>5, <1>8 DEF Titles
<1> HIDE DEF F, D, F1, D1, T
<1>14. /\ F2 = [s \in S |-> F2[s]] /\ D2 = [s \in S |-> D2[s]]
       /\ \A s \in S : /\ F2[s] = IF s = b THEN F[a] ELSE F[s]
                       /\ D2[s] = IF s = b THEN D[a] ELSE D[s]
  BY <1>10
<1> HIDE DEF F2, D2, S
<1>15. \A s \in S : F1[s] = F2[s] /\ D1[s] = D2[s]
  <2> TAKE s \in S
  <2>1. PICK o \in DOMAIN Now.objs : s = Title(n, o)
    BY <1>13
  <2>2. F1[s] = Contents(Now, o) /\ D1[s] = Now.objs[o].data
    BY <1>5, <1>9, <1>11, <2>1
  <2>3. s = b <=> o = i
    BY <1>6, <1>7, <2>1
  <2>4. CASE o = i
    BY <1>7, <1>10, <1>14, <2>2, <2>3, <2>4
  <2>5. CASE o # i
    BY <1>7, <1>10, <1>14, <2>1, <2>2, <2>3, <2>5
  <2> QED
    BY <2>4, <2>5
<1>16. F1 = F2
  BY <1>11, <1>14, <1>15, SameFunction
<1>17. D1 = D2
  BY <1>11, <1>14, <1>15, SameFunction
<1>18. a \in DOMAIN F /\ b \notin DOMAIN F
  BY <1>6, <1>8, <1>10 DEF T
<1>19. Promise!Next
  BY <1>1, <1>12, <1>16, <1>17, <1>18, PromiseRename DEF F2, D2
<1> QED
  BY <1>12, <1>19

(* What is not on the flash is gone, and so is everything else in memory.  *)
LEMMA NothingPromise ==
  ASSUME PromiseInv, UNCHANGED objs, NothingInMemory
  PROVE  Titled(Now)' /\ Promise!Next
<1>1. PICK n : n = [objs |-> objs', fds |-> fds', pages |-> pages', work |-> work', ok |-> TRUE]
  OBVIOUS
<1>2. /\ Becomes(n) /\ n.objs = Now.objs /\ n.pages = [p \in Pages |-> NoWrite]
      /\ answer' = None
  BY <1>1, NowFacts DEF Becomes, NothingInMemory
<1>3. /\ PlacedInv /\ Titled(Now) /\ Sound(Now)
  BY NowPlaced DEF PromiseInv
<1>4. \A o \in DOMAIN Now.objs : Contents(n, o) = Now.objs[o].data
  <2> TAKE o \in DOMAIN Now.objs
  <2>1. o # 0
    BY <1>3 DEF Sound, Ids
  <2>2. \A p \in Pages : n.pages[p].obj # o
    BY <1>2, <2>1 DEF NoWrite
  <2> QED
    BY <1>2, <2>2, ContentsBare
<1>5. /\ Titled(n) /\ Titles(n) = Titles(Now)
      /\ \A o \in DOMAIN Now.objs : Title(n, o) = Title(Now, o)
  BY <1>2, <1>3, HeadersKept
<1> DEFINE F == Files(Now)
           D == Disk(Now)
           F1 == Files(n)
           D1 == Disk(n)
           T == Titles(Now)
<1>6. /\ D = [s \in T |-> D[s]]
      /\ \A o \in DOMAIN Now.objs : D[Title(Now, o)] = Now.objs[o].data
  BY <1>3, FilesFacts
<1>7. /\ F1 = [s \in T |-> F1[s]] /\ D1 = [s \in T |-> D1[s]]
      /\ \A o \in DOMAIN n.objs : /\ F1[Title(n, o)] = Contents(n, o)
                                  /\ D1[Title(n, o)] = n.objs[o].data
  BY <1>5, FilesFacts
<1>8. Before(F, D) /\ After(F1, D1) /\ Titled(Now)'
  BY <1>2, <1>5, BeforeStep, AfterStep
<1>9. \A s \in T : \E o \in DOMAIN Now.objs : s = Title(Now, o)
  BY DEF Titles
<1> HIDE DEF F, D, F1, D1, T
<1>10. \A s \in T : F1[s] = D[s] /\ D1[s] = D[s]
  <2> TAKE s \in T
  <2>1. PICK o \in DOMAIN Now.objs : s = Title(Now, o)
    BY <1>9
  <2> QED
    BY <1>2, <1>4, <1>5, <1>6, <1>7, <2>1
<1>11. F1 = D
  BY <1>6, <1>7, <1>10, SameFunction
<1>12. D1 = D
  BY <1>6, <1>7, <1>10, SameFunction
<1>13. Promise!Next
  BY <1>2, <1>8, <1>11, <1>12, PromisePowerLoss
<1> QED
  BY <1>8, <1>13

-----------------------------------------------------------------------------
(* What the promise speaks of.                                             *)
Shown == <<ByName(Seen), ByName(OnFlash), answer>>

LEMMA PromiseNext ==
  ASSUME PromiseInv, "remove pending" \notin Careless, "truncate in use" \notin Careless,
         "truncate empty" \notin Careless, [Next]_vars, status' # "deinit"
  PROVE  PromiseInv' /\ [Promise!Next]_Shown
<1>1. PlacedInv'
  BY PlacedNext DEF PromiseInv
<1> DEFINE Kept == Titled(Now)' /\ [Promise!Next]_Shown
<1>2. ASSUME NEW n \in Names, NEW modes, CreateFile(n, modes) PROVE Kept
  BY <1>2, CreateFilePromise
<1>3. ASSUME NEW n, NEW modes, NEW trunc, OpenFile(n, modes, trunc) PROVE Kept
  <2>1. trunc => ~InUse(Min(Named(n)))
    BY <1>3 DEF OpenFile, Careful
  <2>2. trunc /\ objs[Min(Named(n))].data = <<>>
          => work \in {BadHeader, objs[Min(Named(n))].header}
    BY <1>3 DEF OpenFile, Careful
  <2> QED
    BY <1>3, <2>1, <2>2, OpenFilePromise
<1>4. ASSUME NEW f \in Fds, NEW b \in BoundedSeq(Bytes, MaxWrite) \ {<<>>}, Write(f, b)
      PROVE  Kept
  BY <1>4, WritePromise
<1>5. ASSUME NEW f \in Fds, NEW len \in 1..MaxWrite, Read(f, len) PROVE Kept
  BY <1>5, ReadPromise
<1>6. ASSUME NEW f \in Fds, NEW offs, Lseek(f, offs) PROVE Kept
  BY <1>6, LseekPromise
<1>7. ASSUME NEW f \in Fds, Fstat(f) \/ Close(f) PROVE Kept
  BY <1>7, FstatPromise, ClosePromise
<1>8. ASSUME NEW n, Unlink(n) PROVE Kept
  <2>1. PendingPages(Now, Min(Named(n))) = {}
    BY <1>8 DEF Unlink, Careful
  <2> QED
    BY <1>8, <2>1, UnlinkPromise
<1>9. ASSUME NEW a, NEW b \in Names, Rename(a, b) PROVE Kept
  BY <1>9, RenamePromise
<1>10. ASSUME Mount \/ PowerLoss PROVE Kept
  BY <1>10, NothingPromise DEF Mount, PowerLoss
<1>11. ~Unmount
  BY DEF Unmount
<1>12. ASSUME UNCHANGED vars PROVE Kept
  <2>1. objs' = objs /\ pages' = pages /\ answer' = answer /\ Now' = Now
    BY <1>12 DEF vars, Now
  <2>2. Titled(Now)'
    BY <2>1 DEF PromiseInv
  <2>3. Becomes(Now)
    BY <1>12 DEF vars, Becomes, Now
  <2>4. UNCHANGED Shown
    BY <2>1, <2>3, BeforeStep, AfterStep DEF Shown, Before, After
  <2> QED
    BY <2>2, <2>4
<1> HIDE DEF Kept
<1>13. Kept
  BY <1>2, <1>3, <1>4, <1>5, <1>6, <1>7, <1>8, <1>9, <1>10, <1>11, <1>12 DEF Next
<1> QED
  BY <1>1, <1>13 DEF PromiseInv, Kept

LEMMA InitPromise == Init => PromiseInv /\ Promise!Init
<1> SUFFICES ASSUME Init PROVE PromiseInv /\ Promise!Init
  OBVIOUS
<1>1. objs = <<>> /\ DOMAIN objs = {} /\ answer = None
  BY DEF Init
<1>2. Titled(Now)
  BY <1>1, NowFacts DEF Titled
<1>3. Titles(Now) = {}
  BY <1>1, NowFacts DEF Titles
<1>4. ByName(Seen) = <<>> /\ ByName(OnFlash) = <<>>
  <2>1. Files(Now) = <<>>
    BY <1>3 DEF Files
  <2>2. Disk(Now) = <<>>
    BY <1>3 DEF Disk
  <2> QED
    BY <2>1, <2>2, BeforeStep DEF Before
<1> QED
  BY <1>1, <1>2, <1>4, InitPlaced DEF PromiseInv, Promise!Init

(* The calls of fs.c, down to the descriptors and the write cache of       *)
(* SPIFFS, implement FileSystem: whoever reads a file sees what was        *)
(* written to it through any descriptor, a call changes one file, its name *)
(* stays the name of one file, and a power loss takes only bytes that      *)
(* nobody flushed.  Programs must not do the three things of `Careful`,    *)
(* each of which breaks it.                                                *)
THEOREM FilesKeepPromise ==
  ASSUME "remove pending" \notin Careless, "truncate in use" \notin Careless,
         "truncate empty" \notin Careless
  PROVE  Spec /\ []NoDeinit => KeepsPromise
<1>1. Init => PromiseInv /\ Promise!Init
  BY InitPromise
<1>2. PromiseInv /\ [Next]_vars /\ NoDeinit' => PromiseInv' /\ [Promise!Next]_Shown
  BY PromiseNext DEF NoDeinit
<1>3. Spec /\ []NoDeinit => Promise!Init /\ [][Promise!Next]_Shown
  BY <1>1, <1>2, PTL DEF Spec
<1> QED
  BY <1>3, PTL DEF KeepsPromise, Promise!Spec, Shown

=============================================================================
