------------------------------ MODULE FileApi -------------------------------
(***************************************************************************)
(* The POSIX-like calls of spiffs/fs.c down to the objects they keep on    *)
(* the flash: file descriptors (spiffs_hydrogen.c), write-cache pages      *)
(* (spiffs_cache.c) and whole objects (spiffs_object_*, spiffs_nucleus.c). *)
(* A small write stays in a cache page that belongs to an object; several  *)
(* descriptors of the object share it and anyone of them may flush it.     *)
(*                                                                         *)
(* A call is one step: fs.c runs in one task and SPIFFS_LOCK is empty.     *)
(* Below this level an object is its header and its bytes; its pages on    *)
(* the flash, garbage collection and a power loss inside a call are left   *)
(* out, and the flash has room.  A call that fails before it has changed   *)
(* anything is no step.  Small writes, flushes and truncations go through  *)
(* helpers on a record of the variables, as the C functions do with `fs`.  *)
(***************************************************************************)
EXTENDS Naturals, Sequences, FiniteSets, FiniteSetsExt, SequencesExt, Functions

CONSTANTS
  Names,        (* the paths programs use                                   *)
  Bytes,        (* the byte values they write                               *)
  Modes,        (* the modes they open with: sets of "read" "write" "append"*)
  None,         (* no answer: the last call returned no data                *)
  PageSize,     (* LOG_PAGE_SIZE, and with it a cache page (512)            *)
  FdCount,      (* descriptors in FS_FILE_DESCRIPTOR_SIZE (3)               *)
  CachePages,   (* pages in FS_CACHE_SIZE (4)                               *)
  MaxSize,      (* bound: the longest file                                  *)
  MaxWrite,     (* bound: the longest write or read                         *)
  Careless      (* the calls of `Careful` that programs make nevertheless   *)

ASSUME SizesAssumption ==
  /\ {PageSize, FdCount, CachePages, MaxSize, MaxWrite} \subseteq Nat \ {0}
  /\ FdCount < CachePages

VARIABLES
  status,       (* "reset", "mounted" or "deinit" (after fs_deinit)         *)
  objs,         (* object id -> its header and bytes on the flash           *)
  fds,          (* the spiffs_fd array                                      *)
  pages,        (* the write-cache pages                                    *)
  work,         (* the object index header that fs->work holds              *)
  answer        (* what the last call that asks for data returned           *)

vars == <<status, objs, fds, pages, work, answer>>

(* SPIFFS_UNDEFINED_LEN, the size of an empty object: above every size.    *)
UndefinedLen == MaxSize + 1

Fds == 1..FdCount

(* No descriptor refers to a page as 0 (a null pointer).                   *)
Pages == 1..CachePages

ClosedFd == [open |-> FALSE, obj |-> 0, modes |-> {}, size |-> 0,
             fdoffset |-> 0, page |-> 0]

(* Free, or holding what was read from the flash: those come and go.       *)
NoWrite == [obj |-> 0, offset |-> 0, data |-> <<>>]

(* No valid object index header: the id bitmap, or what malloc returned.   *)
BadHeader == [name |-> None, removed |-> FALSE]

Now == [objs |-> objs, fds |-> fds, pages |-> pages, work |-> work, ok |-> TRUE]

Becomes(m) ==
  objs' = m.objs /\ fds' = m.fds /\ pages' = m.pages /\ work' = m.work

Overwritten(d, off, b) ==
  SubSeq(d, 1, off) \o b \o SubSeq(d, off + Len(b) + 1, Len(d))

SizeOf(d) == IF d = <<>> THEN UndefinedLen ELSE Len(d)

(* The objects a path leads to.                                            *)
Named(n) == {i \in DOMAIN objs : objs[i].header = [name |-> n, removed |-> FALSE]}

FreeFds == {f \in Fds : ~fds[f].open}

OpenFds(m, i) == {f \in Fds : m.fds[f].open /\ m.fds[f].obj = i}

PendingPages(m, i) == {p \in Pages : m.pages[p].obj = i}

-----------------------------------------------------------------------------
(* Mutant: the last descriptor is left out.                                *)
ObjectEventShort(m, i, size) ==
  [m EXCEPT !.fds = [f \in Fds |->
     IF f \in OpenFds(m, i) \ {FdCount} THEN [m.fds[f] EXCEPT !.size = size] ELSE m.fds[f]]]

(* Descriptors of an object learn its new size.                            *)
ObjectEvent(m, i, size) ==
  [m EXCEPT !.fds = [f \in Fds |->
     IF f \in OpenFds(m, i) THEN [m.fds[f] EXCEPT !.size = size] ELSE m.fds[f]]]

(* A new version of the header page is on the flash and in fs->work.       *)
UpdateIndexHdr(m, i, header, size) ==
  ObjectEvent([m EXCEPT !.objs[i].header = header, !.work = header], i, size)

ObjectModify(m, i, off, b) ==
  [m EXCEPT !.objs[i].data = Overwritten(@, off, b), !.work = m.objs[i].header]

(* At the end if there is a gap; in an empty object a gap is an error.     *)
ObjectAppend(m, f, off, b) ==
  LET i == m.fds[f].obj
      size == m.fds[f].size
      at == Min({off, size})
  IN IF size = UndefinedLen /\ at > 0
     THEN [m EXCEPT !.work = m.objs[i].header, !.ok = FALSE]
     ELSE UpdateIndexHdr([m EXCEPT !.objs[i].data = Overwritten(@, at, b)],
                         i, m.objs[i].header, at + Len(b))

(* Overwrites what lies inside the object and appends the rest.            *)
HydroWrite(m, f, off, b) ==
  LET size == m.fds[f].size
      inside == IF size = UndefinedLen \/ off >= size THEN 0 ELSE Min({size - off, Len(b)})
      modified == IF inside = 0 THEN m
                  ELSE ObjectModify(m, m.fds[f].obj, off, SubSeq(b, 1, inside))
  IN IF inside = Len(b) THEN modified
     ELSE ObjectAppend(modified, f, off + inside, SubSeq(b, inside + 1, Len(b)))

(* Mutant: nobody forgets the page.                                        *)
FdReleasePageOnly(m, p) == [m EXCEPT !.pages[p] = NoWrite]

(* Open descriptors forget the page; closed ones keep what they had.       *)
FdRelease(m, p) ==
  [m EXCEPT !.pages[p] = NoWrite,
            !.fds = [f \in Fds |->
               IF m.fds[f].open /\ m.fds[f].page = p
               THEN [m.fds[f] EXCEPT !.page = 0] ELSE m.fds[f]]]

(* Mutant: another descriptor's page is not looked for.                    *)
CachePageOwn(m, f) == m.fds[f].page

(* The descriptor's own page or else one of its object; 0 if there is none.*)
CachePage(m, f) ==
  IF m.fds[f].page # 0 THEN m.fds[f].page
  ELSE LET own == PendingPages(m, m.fds[f].obj)
       IN IF own = {} THEN 0 ELSE Min(own)

WriteBack(m, f, p) ==
  FdRelease(HydroWrite(m, f, m.pages[p].offset, m.pages[p].data), p)

Flushed(m, f) ==
  LET p == CachePage(m, f) IN IF p = 0 THEN m ELSE WriteBack(m, f, p)

(* The page a small write gets, 0 for none.  Which idle page is of no      *)
(* account.  The last one may be the page read most recently, which        *)
(* spiffs_cache_page_remove_oldest does not take.                          *)
Allocations(m) ==
  LET idle == PendingPages(m, 0)
  IN CASE Cardinality(idle) > 1 -> {Min(idle)}
       [] Cardinality(idle) = 1 -> {0} \cup idle
       [] OTHER -> {0}

-----------------------------------------------------------------------------
(* Three uses of the calls that the code does not cope with.  A program    *)
(* makes them only if `Careless` says so.                                  *)
Careful(kind, harmful) == harmful => kind \in Careless

(* The truncation finds something of the object in use: bytes in a cache   *)
(* page, or a descriptor beyond the new end.                               *)
InUse(i) ==
  \/ PendingPages(Now, i) # {}
  \/ \E f \in OpenFds(Now, i) : fds[f].fdoffset > 0

(* O_TRUNC, by the descriptor f that has just been opened.  An empty object*)
(* gets the header that happens to be in fs->work, if it is a valid one.   *)
Truncated(m, f) ==
  LET i == m.fds[f].obj
      header == IF m.objs[i].data # <<>> THEN m.objs[i].header ELSE m.work
  IN IF header = BadHeader THEN [m EXCEPT !.ok = FALSE]
     ELSE [UpdateIndexHdr([m EXCEPT !.objs[i].data = <<>>], i, header, UndefinedLen)
             EXCEPT !.fds[f].size = 0]

Opened(i, f, modes) ==
  [Now EXCEPT !.fds[f] = [open |-> TRUE, obj |-> i, modes |-> modes,
                          size |-> SizeOf(objs[i].data), fdoffset |-> 0,
                          page |-> fds[f].page]]

OpenFile(n, modes, trunc) ==
  /\ status = "mounted" /\ FreeFds # {} /\ Named(n) # {}
  /\ LET i == Min(Named(n))
         f == Min(FreeFds)
         m == IF trunc THEN Truncated(Opened(i, f, modes), f) ELSE Opened(i, f, modes)
     IN /\ Careful("truncate empty",
                   /\ trunc /\ objs[i].data = <<>>
                   /\ work \notin {BadHeader, objs[i].header})
        /\ Careful("truncate in use", trunc /\ InUse(i))
        /\ m.ok /\ Becomes(m)
  /\ answer' = None
  /\ UNCHANGED status

FreeObjId == Min((1..Cardinality(DOMAIN objs) + 1) \ DOMAIN objs)

Created(n) == [header |-> [name |-> n, removed |-> FALSE], data |-> <<>>]

(* O_CREAT of a new name, where O_TRUNC is dropped.  The search for a free *)
(* id, the lowest, builds its bitmap in fs->work.                          *)
CreateFile(n, modes) ==
  /\ status = "mounted" /\ FreeFds # {} /\ Named(n) = {}
  /\ LET i == FreeObjId
         f == Min(FreeFds)
     IN /\ objs' = [j \in {i} \cup DOMAIN objs |-> IF j = i THEN Created(n) ELSE objs[j]]
        /\ fds' = [fds EXCEPT ![f] = [open |-> TRUE, obj |-> i, modes |-> modes,
                                      size |-> UndefinedLen, fdoffset |-> 0,
                                      page |-> fds[f].page]]
  /\ work' = BadHeader
  /\ answer' = None
  /\ UNCHANGED <<status, pages>>

-----------------------------------------------------------------------------
Calls(f) == status = "mounted" /\ fds[f].open

(* Mutant: pending bytes are not counted.                                  *)
WriteOffsetOnFlash(f, p) ==
  IF "append" \notin fds[f].modes THEN fds[f].fdoffset
  ELSE IF fds[f].size = UndefinedLen THEN 0 ELSE fds[f].size

(* Where a write goes: at the end of all that is written with O_APPEND.    *)
WriteOffset(f, p) ==
  LET size == fds[f].size
  IN IF "append" \notin fds[f].modes THEN fds[f].fdoffset
     ELSE Max({IF size = UndefinedLen THEN 0 ELSE size,
               IF p = 0 THEN 0 ELSE pages[p].offset + Len(pages[p].data)})

(* The write continues or overwrites what page p holds, and fits.          *)
WithinPage(p, off, b) ==
  /\ pages[p].offset <= off
  /\ off <= pages[p].offset + Len(pages[p].data)
  /\ off + Len(b) <= pages[p].offset + PageSize

Cached(m, f, p, off, b) ==
  [m EXCEPT !.pages[p] = [obj |-> m.fds[f].obj, offset |-> off, data |-> b],
            !.fds[f].page = p]

(* What a write may leave: a page that it fits in takes the bytes; another *)
(* is flushed first, then the bytes go to a new page if there is one.  A   *)
(* write of a page or more goes to the flash, and goes there twice if it   *)
(* had a page to flush.                                                    *)
Written(f, b) ==
  LET p == CachePage(Now, f)
      off == WriteOffset(f, p)
      flushed == IF p = 0 THEN Now ELSE WriteBack([Now EXCEPT !.fds[f].page = p], f, p)
      direct == IF flushed.ok THEN HydroWrite(flushed, f, off, b) ELSE flushed
  IN CASE Len(b) >= PageSize ->
            {IF p = 0 \/ ~direct.ok THEN direct ELSE HydroWrite(direct, f, off, b)}
       [] Len(b) < PageSize /\ p # 0 /\ WithinPage(p, off, b) ->
            {[Now EXCEPT !.pages[p].data = Overwritten(@, off - pages[p].offset, b),
                         !.fds[f].page = p]}
       [] OTHER ->
            IF ~flushed.ok THEN {flushed}
            ELSE {IF q = 0 THEN direct ELSE Cached(flushed, f, q, off, b)
                    : q \in Allocations(flushed)}

Write(f, b) ==
  /\ Calls(f) /\ "write" \in fds[f].modes
  /\ WriteOffset(f, CachePage(Now, f)) + Len(b) <= MaxSize
  /\ \E m \in Written(f, b) :
       Becomes(IF m.ok THEN [m EXCEPT !.fds[f].fdoffset = @ + Len(b)] ELSE m)
  /\ answer' = None
  /\ UNCHANGED status

(* Reading an empty object loads its header and fails.                     *)
Read(f, len) ==
  /\ Calls(f) /\ "read" \in fds[f].modes
  /\ LET m == Flushed(Now, f)
         fd == m.fds[f]
         object == m.objs[fd.obj]
         to == Min({fd.fdoffset + len, fd.size})
     IN IF fd.size # UndefinedLen /\ fd.fdoffset < fd.size
        THEN /\ Becomes([m EXCEPT !.fds[f].fdoffset = to, !.work = object.header])
             /\ answer' = [file |-> object.header.name, from |-> fd.fdoffset + 1,
                           data |-> SubSeq(object.data, fd.fdoffset + 1, to)]
        ELSE /\ Becomes(IF fd.size = UndefinedLen
                        THEN [m EXCEPT !.work = object.header] ELSE m)
             /\ answer' = None
  /\ UNCHANGED status

(* The cast of an undefined length to s32_t refuses every offset.          *)
Lseek(f, offs) ==
  /\ Calls(f)
  /\ LET m == Flushed(Now, f)
         fits == m.fds[f].size # UndefinedLen /\ offs <= m.fds[f].size
     IN Becomes(IF fits THEN [m EXCEPT !.fds[f].fdoffset = offs] ELSE m)
  /\ answer' = None
  /\ UNCHANGED status

Fstat(f) ==
  /\ Calls(f)
  /\ LET m == Flushed(Now, f)
         object == m.objs[m.fds[f].obj]
     IN /\ Becomes(m)
        /\ answer' = [file |-> object.header.name, size |-> Len(object.data)]
  /\ UNCHANGED status

ClosedIn(m, f) == [m EXCEPT !.fds[f] = [ClosedFd EXCEPT !.page = m.fds[f].page]]

(* Mutant: the bytes stay in their page.                                   *)
CloseUnflushed(f) ==
  /\ Calls(f)
  /\ Becomes(ClosedIn(Now, f))
  /\ answer' = None
  /\ UNCHANGED status

Close(f) ==
  /\ Calls(f)
  /\ Becomes(ClosedIn(Flushed(Now, f), f))
  /\ answer' = None
  /\ UNCHANGED status

(* Every descriptor of the object is closed; cache pages are not looked at.*)
(* Removal borrows a descriptor, so it needs a free one.                   *)
Unlink(n) ==
  /\ status = "mounted" /\ FreeFds # {} /\ Named(n) # {}
  /\ LET i == Min(Named(n))
     IN /\ Careful("remove pending", PendingPages(Now, i) # {})
        /\ objs' = Restrict(objs, DOMAIN objs \ {i})
        /\ fds' = [f \in Fds |-> IF f \in OpenFds(Now, i)
                                 THEN [ClosedFd EXCEPT !.page = fds[f].page] ELSE fds[f]]
        /\ work' = IF objs[i].data = <<>> THEN work
                   ELSE [objs[i].header EXCEPT !.removed = TRUE]
  /\ answer' = None
  /\ UNCHANGED <<status, pages>>

Rename(a, b) ==
  /\ status = "mounted" /\ FreeFds # {} /\ Named(a) # {} /\ Named(b) = {}
  /\ LET i == Min(Named(a))
     IN Becomes(UpdateIndexHdr(Now, i, [objs[i].header EXCEPT !.name = b],
                               SizeOf(objs[i].data)))
  /\ answer' = None
  /\ UNCHANGED status

-----------------------------------------------------------------------------
NothingInMemory ==
  /\ fds' = [f \in Fds |-> ClosedFd]
  /\ pages' = [p \in Pages |-> NoWrite]
  /\ work' = BadHeader
  /\ answer' = None

(* fs_init, at start-up: after fs_deinit it would free the buffers again.  *)
Mount ==
  /\ status = "reset" /\ status' = "mounted"
  /\ NothingInMemory
  /\ UNCHANGED objs

AllClosed ==
  LET FlushedOpen(m, f) == IF m.fds[f].open THEN ClosedIn(Flushed(m, f), f) ELSE m
  IN FoldLeft(FlushedOpen, Now, [f \in Fds |-> f])

(* fs_deinit without formatting, which would use the buffers just freed.   *)
Unmount ==
  /\ status = "mounted" /\ status' = "deinit"
  /\ objs' = AllClosed.objs
  /\ NothingInMemory

PowerLoss ==
  /\ status' = "reset"
  /\ NothingInMemory
  /\ UNCHANGED objs

Init ==
  /\ status = "reset"
  /\ objs = <<>>
  /\ fds = [f \in Fds |-> ClosedFd]
  /\ pages = [p \in Pages |-> NoWrite]
  /\ work = BadHeader
  /\ answer = None

Next ==
  \/ \E n \in Names, modes \in Modes :
       CreateFile(n, modes) \/ \E trunc \in BOOLEAN : OpenFile(n, modes, trunc)
  \/ \E f \in Fds :
       \/ \E b \in BoundedSeq(Bytes, MaxWrite) \ {<<>>} : Write(f, b)
       \/ \E len \in 1..MaxWrite : Read(f, len)
       \/ \E offs \in 0..MaxSize : Lseek(f, offs)
       \/ Fstat(f) \/ Close(f)
  \/ \E n \in Names : Unlink(n) \/ \E b \in Names : Rename(n, b)
  \/ Mount \/ PowerLoss \/ Unmount

Spec == Init /\ [][Next]_vars

-----------------------------------------------------------------------------
(* A descriptor's page holds bytes of its own object, an object has one    *)
(* page at most, and never one that no descriptor is left to flush: what   *)
(* the lookup in spiffs_cache_page_get_by_fd, the release in               *)
(* spiffs_cache_fd_release and the flush in SPIFFS_close must add up to.   *)
(* Some page is always left to read through: spiffs_phys_rd uses the page  *)
(* it allocates without asking whether it got one.                         *)
PagesOwned ==
  /\ \A f \in Fds :
       fds[f].page # 0 => fds[f].open /\ pages[fds[f].page].obj = fds[f].obj
  /\ \A i \in DOMAIN objs :
       Cardinality(PendingPages(Now, i)) <= (IF OpenFds(Now, i) = {} THEN 0 ELSE 1)
  /\ \A p \in Pages : pages[p].obj \in DOMAIN objs \cup {0}
  /\ PendingPages(Now, 0) # {}

(* The size every descriptor remembers is that of the object, whoever      *)
(* wrote, truncated or renamed it.                                         *)
SizesAgree ==
  status = "mounted" =>
    \A f \in Fds : fds[f].open =>
      LET d == objs[fds[f].obj].data
      IN fds[f].size \in (IF d = <<>> THEN {0, UndefinedLen} ELSE {Len(d)})

(* Closing a descriptor, as such or through the removal of another name,   *)
(* takes the bytes written through it to the flash with it.                *)
CloseIsDurable ==
  [][\A f \in Fds :
       fds[f].open /\ status' = "mounted" /\ ~fds'[f].open
         => \A p \in Pages : pages'[p].obj # fds[f].obj]_vars

(* What programs see: the bytes on the flash under those that are pending. *)
Seen(i) ==
  IF \E p \in Pages : pages[p].obj = i
  THEN LET p == CHOOSE p \in Pages : pages[p].obj = i
       IN Overwritten(objs[i].data, pages[p].offset, pages[p].data)
  ELSE objs[i].data

(* O_APPEND: a write through such a descriptor overwrites nothing, neither *)
(* what is on the flash nor what another descriptor has pending.           *)
AppendsAtEnd ==
  [][\A f \in Fds :
       fds[f].open /\ "append" \in fds[f].modes /\ fds'[f].fdoffset > fds[f].fdoffset
         => IsPrefix(Seen(fds[f].obj), Seen(fds[f].obj)')]_vars

ByName(Contents(_)) ==
  [n \in {objs[i].header.name : i \in DOMAIN objs} |->
     Contents(CHOOSE i \in DOMAIN objs : objs[i].header.name = n)]

OnFlash(i) == objs[i].data

Promise == INSTANCE FileSystem WITH files <- ByName(Seen), disk <- ByName(OnFlash)

(* The calls keep the promise of FileSystem: reads return what was written *)
(* through any descriptor, no call touches another file, a power loss      *)
(* takes only bytes that nobody flushed.                                   *)
KeepsPromise == Promise!Spec
=============================================================================
