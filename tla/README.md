# Verification of forthright

forthright is a Forth system for the ESP8266: an indirect-threaded interpreter
written in assembler, a vocabulary written in Forth and loaded at boot, and a
terminal in C that is either the serial line or one TCP session.  This directory
holds TLA+ models of it, the TLC configurations that check them on small
instances, and proofs checked by TLAPS.

Paths below are relative to the repository; `S` is
`arch/esp8266/user/esp8266.S` and `F` is `forthright.f`.

## Inventory

| part | state | operations | what is hard |
|------|-------|-----------|--------------|
| dictionary and compiler (S 1747-2482, F 20-21, 187-242) | memory of the data segment, DP, LATEST, STATE, two flag bits per header | HEADER, `:` `;` `,` CONSTANT CREATE IMMEDIATE HIDE FORGET `[COMPILE]` RECURSE, INTERPRET on a word, number or unknown token | every legal sequence of defining, redefining, hiding, forgetting, failing; the segment running out; the length byte shared with two flags |
| terminal (tcp_shell.c, user_main.c) | pespconn, is_connected, the stdin queue, the output buffer, the input buffer | connected, received, disconnected; tcp_shell_read_chars, forthright_readChars, echo, put_char | two tasks sharing variables without a lock; timeouts; sessions that come and go |
| control-flow words (F 22-30, 290-310, 353-414) | addresses on the parameter stack while compiling, the leave stack | IF ELSE THEN, BEGIN UNTIL AGAIN WHILE REPEAT, CASE, DO ?DO LEAVE LOOP +LOOP | branch offsets patched later; nesting; the leave stack at its limit |
| inner interpreter (S 344-604, 1148-1409, 2302-2613) | IP, return stack, parameter stack | NEXT, DOCOL, EXIT, BRANCH, `(do)` `(loop)` `(+loop)` UNLOOP, EXECUTE | loop parameters and return addresses on one stack; wrap-around |
| exceptions (F 312-346) | return stack markers | CATCH, THROW, ABORT | stack depths saved and restored; what stays set when nobody catches |
| word and number input (S 1466-1718) | currkey, bufftop, the word buffer | _KEY, _WORD, _NUMBER | tokens that span refills; limits of the buffer |
| UART driver (uart.c) | the receive FIFO | rx_fifo_count, uart_read_chars; register set-up | nothing of its own: its interrupt handler leaves the FIFO alone |
| SPIFFS calls with fs.c (spiffs_hydrogen.c, spiffs_cache.c) | open descriptors, cache pages | open, read, write, truncate, remove, rename, close | descriptors sharing cached writes |
| SPIFFS pages (spiffs_nucleus.c, spiffs_gc.c) | pages, lookup entries and index headers on the flash; free cursor and page counts in memory | create, append, modify, truncate, remove of objects; allocate, move, delete of pages; gc | flash only clears bits; power loss between two writes; gc moving what a call is working on; a full flash |
| SPIFFS start (fs.c fs_task, spiffs_check.c) | the same flash | mount scan, lookup, page and index check | mends what an interrupted call left, and may be interrupted itself |
| WiFi set-up, build files, Forth libraries, tests, Actors.md | - | - | nothing of the system's own state |

**Interaction.**  The network task calls `connected`, `received` and
`disconnected`, which put characters in the stdin queue.  The interpreter's task
calls `forthright_readChars` when its input buffer is used up, which takes them
from the queue or from the UART; `_WORD` cuts them into tokens; INTERPRET looks a
token up in the dictionary and compiles it (through `,`) or runs it.  Words print
through `forthright_putChar`, which goes back to the session or the UART.

**What makes the parts correct.**  The list of headers is well formed and every
compiled cell leads to a word that is still there; a word that can be found is
complete; the terminal interprets what it accepted, once and in order, never
blocks the network task for good and serves a session until it ends; branches
of compiled control structures stay inside the word; loops and exceptions leave
the return stack as they found it; the file system finds after a power loss
what it had before the operation or after it.

## Plan

1. `Dictionary` - the core: the memory that everything else compiles into.
   Proved about in `Dictionary_proofs`.  **Done.**
2. `TcpShell` with the abstract `LossyStream` - the concurrent part.  Proved about,
   with the refinement, in `TcpShell_proofs`. **Done.**
3. `ControlFlow` - the compiling words of F with the leave stack, and
   `ThreadedCode`, the inner interpreter that runs what they compile, checked
   against a reference for structured programs.  The compiler's stacks are proved
   about in `ControlFlow_proofs`, its branches in `BranchTargets_proofs`, and the stacks
   of a running word in `ThreadedCode_proofs`. **Done.**
4. `Exceptions` - CATCH, THROW and ABORT as compiled, over a memory with both
   stacks in it. **Done.**
5. `WordInput` - _KEY, _WORD and _NUMBER, against a reference that splits the
   text without buffers. **Done.**
6. `FileApi`, the file calls down to whole objects, with the write cache, and
   `FileSystem`, what they promise.  Proved about, with the refinement, in
   `FileApi_proofs`.  **Done.**
7. `SpiffsFlash`, `SpiffsCheck` and `Spiffs` - below it: pages, lookup entries and
   index headers on a flash that only clears bits, garbage collection, the mount
   scan and the consistency checks, with power loss between any two writes; that
   a call does to an object what FileApi takes for granted. **Done.**

Theorems worth proving: the dictionary's invariants and that a word that can be found
is finished (done), the terminal's flag, buffers, echo and stream refinement (done), the
text `_KEY` reads (done), the owners of the file cache's pages, the sizes the
descriptors hold, where appends go and that the files keep the promise of `FileSystem`
(done), the leave stack and the balance of both compile-time stacks
(done), that the compiled branches are those of the source and, which rests on that, the
frame discipline of the return stack (done); left are the stack depths that THROW
restores.

## Dictionary

`Dictionary.tla` models HEADER, and its callers.  Memory is a function from cell
addresses to tagged cells: a link, a name, padding, a codeword (`docol`,
`dodoes`), `lit` and its number, a compiled reference (`xt`), `exit`.  Tags
replace the machine words only where the code itself relies on what a cell is.

| model | code |
|-------|------|
| `mem`, `dp`, `latest`, `state` | the data segment, system_t.dp, .latest, .state |
| `hidden`, `immed` | F_HIDDEN, F_IMMED in the length byte of a header |
| `live` | history: the headers reachable from LATEST, tied to the links by `ChainSound` |
| `WriteHeader`, `Room`, `Header...` | header, (S 2021-2065) including its early return |
| `Colon` `Semicolon` `Constant` `Create` | S 2136, 2148; F 187-191 |
| `CompileWord` `ExecuteWord` `CompileNumber` `UnknownWord` | INTERPRET (S 2411-2482) |
| `Found` `Missing` | _FIND (S 1747-1789): newest header whose masked length byte and name match |
| `TCFA` | _TCFA (S 1822-1843), with F_LENMASK |
| `NullReference`, `Reboot` | HIDE, FORGET, [COMPILE] of an unknown name read address 0; the restart loads the vocabulary again |

One token is one step: there is one interpreter task, and a token's word runs to
its NEXT before the next token is read.  The boot vocabulary is one word, which
the user never names in FORGET: the proofs rely on that, since forgetting the vocabulary
itself (possible on the device) leaves a LATEST of 0.

Bounds: two names in the passing runs (so that redefinition, hiding the older
and forgetting the newer all occur), a memory of a handful of cells behind the
boot word.  `MemTop` is the model's bound; `SegCells` is the program's limit, and
`MCDictionary.cfg` makes it the smaller of the two, so the segment runs out
inside the model.  A definition that is refused unhides the word before it
(`:` goes on after the report: it stores DOCOL,
toggles the hidden flag of LATEST and compiles), so `VisibleComplete` speaks of the states in which DP
is in the segment: FORGET, the only way back there, drops that word too.  Names are symmetric when they
have the same length.  The VIEW leaves out the cells at and above DP: no
action and no property reads them before they are written, so two states that
differ only there have the same futures.

## Terminal

`TcpShell.tla` has one action per access to what the two tasks share.  The
espconn callbacks run in the network task, which has the higher priority, so
their straight-line code is one step and only the wait inside `xQueueSend`
(QueueSend, QueueSendTimeout) lets others in.  The interpreter's task is split
at every read and write of `is_connected`, `pespconn` and the queue: `pc` says
where it is.  A character is its source, newline or not, and an arrival number.

`LossyStream.tla` is the abstract promise: items arrive in batches, numbered one by
one; at the entrance each is accepted or refused, in its turn; what is accepted is
neither lost nor doubled and leaves in the order in which it arrived.  `InputIsStream`
shows that the terminal implements it: what a callback has still to send is the entrance,
the queue and the input buffer hold what is in transit, and the serial line's characters,
which pass by the queue, only use up numbers.

With several sessions the code promises little of the flag and of who is answered, and
the properties say what is left.  `FlagFollowsSession`: the flag is up only for a session
that is open, and an open one is left unattended only after some other has closed.
`EchoAtSource`: an acknowledgement reaches another session only when that one has been
opened, and the serial line only after some session has closed.  For a session that is
alone, both give all that it expects.

Fairness (`FairSpec`): the interpreter's task and the sending task run whenever
they can.  FreeRTOS schedules every ready task once those of higher priority
block, and every wait in the code has a limit of 10 ticks.  Nothing is assumed
of peers: they may never send, and never close.

Bounds: one or two sessions, a queue of 2 instead of 128, a packet of 3 instead
of 1500, segments of at most 2 characters, each bound on inputs
small but larger than the queue, so that the queue fills, times out, drains, and a second
session starts on what the first one left.  The VIEW leaves the history `sent`
out of the state, in the run whose properties do not mention it.

Not runs, but visible in the model: tcp_shell_read_chars fills its buffer for as long
as characters keep coming and never looks at its size (`QueueReceive`; forthright.h:88
says "maximum bufsize characters"), and with no input `forthright_readChars` returns 0
and _KEY asks again, while forthright.h:70 calls it a blocking operation.

## Control flow

`ControlFlow.tla` models the immediate words that compile branches.  The word
being compiled is a sequence of cells; an address is an index into it, HERE the
index behind its end.  `cs` is the parameter stack while compiling, `ls` the
leave stack.  The user types tokens that are well nested (`open`): a stray THEN
patches whatever number lies on the stack, which no text promises anything of.
Each token comes with the literals it consumes, so that running the word finds
its operands.

| model | code |
|-------|------|
| `If` `Unless` `Then` `Else` `Begin` `Until` `Again` `While` `Repeat` | F 22-30 |
| `Case` `Of` `EndOf` `EndCase` | F 290-310; the loop of ENDCASE down to CASE's 0 is `ResolveAll` |
| `Do` `QDo` `Loop` `PlusLoop` (`CompileLoop`) | F 384-414; RESOLVE-DO, then RESOLVE-LEAVES |
| `Leave`, `LeaveFull` | F 363-371; the two cells before the depth test stay when it aborts |
| `Abandon`, `Forget`, `Restart` | a word given up (QUIT, ABORT, `;` too early) with what it left on the stacks; a word forgotten; a reset |

`src` and `at` record the tokens and HERE before each.  From them alone `Closer`,
`Middles` and `Innermost` say where a structured program branches to: a
definition by nesting depth that never mentions a stack.  `BranchesMatch`
compares the compiled offsets with it.

`ThreadedCode.tla` extends it with the inner interpreter: one action per
primitive, IP as an index, the return stack with its return address and loop
parameters, the data stack by its depth.  Every test may go either way, so a run
explores every path of every word.  `FrameDiscipline` relates the stacks found at
a token, by whatever path, to the nesting of the source at that token.  It records
a fact of the code in passing: a ?DO gone past leaves limit and index on the data
stack (`skipped`), because 2DUP copied them and only `(do)` takes them away.

UNLOOP loads RSP from the stack instead of moving it, so a word that takes a LEAVE
is lost (`wild`, `Crash`); `leave_crash` shows the shortest one.  In the run
`control_flow` such words occur too; its properties say what holds up to there.

Bounds: `MaxTokens` counts the tokens of a word and those it still owes: 6 in
`control_flow`, which allows three structures in each other or two in a row, of all
twenty tokens; 5 where words may be abandoned after any token.  LEAVE-SP has 2 cells
instead of 32 in the run about its limit, 32 (never reached) elsewhere.  `LeavesOfThisWord` bounds the stack by what the code achieves: 31
cells remain beside the pointer, and the test at F 366 lets a 32nd address in, on top
of the link field of LEAVE's header.  `MaxJunk` stops the user from abandoning
words for ever.

## Word input

`WordInput.tla` follows a character from the flash or the UART to a word and a
number.  `_KEY` has three sources in one buffer: while `initializing` is set it
loads windows of four characters of the vocabulary's text (`ReadRom`), afterwards
what the UART's FIFO holds (`UartRead`; `TcpShell` has the TCP source).  `_WORD` is
the scanner with the states of its three loops (`Skip`, `Comment`, `Collect`);
`_NUMBER` is an operator on ASCII codes, as in the code, with the cell's width as
`Modulus`.  `Interpret...` are the words that act on the input itself: INIT-DONE,
ECHO, KEY; others, and errors, leave it alone.

`NothingSkipped` ties `got`, all characters `_KEY` has returned, to the two sources.
`WordsAreTheText` compares the words with `WordsOf(got)` in `MCWordInput.tla`, which
cuts a whole text by runs of characters; `NumbersRead` compares `_NUMBER` with the
sum by place value, on every word that occurs.

The vocabulary ends in `init-done` and `true echo`.  With the letters of INIT-DONE,
TRUE and ECHO abbreviated, `MCRom` keeps the alignment that the generated text has (its
line end behind init-done opens a window), and the run shows what follows: INIT-DONE
makes `_KEY` turn to the terminal with `tru` left in the window.  ECHO is never
reached, the echo stays off though S 2708 says it "will be enabled at end of parsing
default Forth code", and the first word typed gets `tru` in front.  For any
alignment at most three characters remain, so the line is never read whole.

Bounds: five characters typed out of nine that reach every branch (blank, line end,
backslash, dash, a digit, a letter just beyond the base that is also ECHO's name, the
gap between 9 and A, KEY, and the letter that completes the leftover to TRUE), a word
buffer of 4, a FIFO of 3, refills of at most 2, cells modulo 4, base 14: words that
span refills, overflow the buffer, and wrap all occur.

### Exceptions

`Exceptions` takes `catch`, `throw`, `abort`, `exception-marker` and `quit` as the
sequences of primitives they are compiled to (`PushFrame`, `ThrowLoop` ...
`ThrowUncaught`, each quoting its line of forthright.f) and models every primitive in
them as an action on registers and memory: a13 = `rsp`, a14 = `ip`, a15 = `dsp`, one
`mem` for both stacks.  This is the level at which THROW works: it reads the return
stack as memory and writes its argument into the data stack it is about to cut.
Programs (`Literal`, `Consume`, `CallWord`, ...) do anything between: they push and
consume, nest calls, protect calls, keep values on the return stack, throw, abort.

`EXECUTE` is modelled as it is written, and it never runs the word it was given: it
starts by storing a8 over the token, and a8 is what NEXT left there, its own
(`execute_crash`).  So CATCH always ends in a wild jump.  To see what THROW does
anyway, the program `guarded` pushes CATCH's frame itself and calls the word by name,
which every Forth program can.  For those, `ProtectedCallReturns` holds, with one
exception that `CrashesKnown` names and TLC reaches: when the word consumed exactly
three cells and then throws, the cell the argument goes to is the one DSP! is about to
read, and the argument becomes the stack pointer.  The three DUPs of line 324 are
meant to prevent just that.  An uncaught THROW leaves STATE, the rest of the data
stack and LEAVE-SP as they are.

`frames` and `thrown` are history variables: the protected calls in progress, recorded
when a marker is pushed and dropped when the return stack has come up to their
caller, and THROW's argument with its address.

Fairness: WF of `Machine` alone, the processor executing the next primitive; a
program may stop at any point.  `ThrowEnds` needs nothing else.

Bounds: up to three cells pushed by programs (so that three can be consumed) and results
on top, one protected call inside another or inside a word that holds a value, with
the throw one call deeper.  The VIEW leaves out cells outside the stacks, which are
written before they are read; the cell THROW writes below the stack pointer is kept.
Addresses count cells, and an instruction with an operand takes one.

## File system

`FileSystem.tla` is the promise: `files`, what programs see, and `disk`, what a power
loss leaves of it.  A write changes `files` at once and may change `disk` then or
later; a read returns what `files` holds and leaves it on the disk.

No word of the vocabulary opens a file yet and nothing starts the task that mounts the
file system: the programs of the model are C programs that follow the calls' contract.

`FileApi.tla` is the code from fs.c down to objects.  A write shorter than a page goes
to a page of the write cache.  That page belongs to the object, not to the
descriptor: another descriptor of the object finds it by object id, goes on writing in
it or flushes it.  `KeepsPromise` shows that this is invisible: `Seen`, the bytes on
the flash with the pending ones laid over them, is `files`, and the flash is `disk`.

| model | code |
|-------|------|
| `objs` | the objects on the flash, header and bytes |
| `fds` | the spiffs_fd array: file_nbr # 0, obj_id, flags, size, fdoffset, cache_page |
| `pages` | cache pages with SPIFFS_CACHE_FLAG_TYPE_WR; others are `NoWrite` |
| `work` | fs->work, as far as it holds an object index header |
| `answer` | what read and fstat return |
| `OpenFile` `CreateFile` `Truncated` `Opened` | SPIFFS_open, spiffs_object_truncate, spiffs_object_open_by_page |
| `Write` `Written` `WithinPage` `WriteOffset` `Allocations` | SPIFFS_write and the page it gets |
| `HydroWrite` `ObjectModify` `ObjectAppend` `ObjectEvent` | writing an object; telling its descriptors the new size |
| `Flushed` `CachePage` `WriteBack` `FdRelease` | spiffs_fflush_cache |
| `Read` `Lseek` `Fstat` `Close` `Unlink` `Rename` | the calls of the same names |
| `Mount` `Unmount` `PowerLoss` | fs_init, fs_deinit(0), a reset between two calls |

One call is one step: SPIFFS_LOCK is empty and the calls are made from one task.  The
flash always has room; garbage collection and what happens inside a call are for
`Spiffs`.  Calls refused before they change anything are no steps, and
neither is a negative offset given to lseek, which the code accepts.

Three uses of the calls are known to go wrong, and `Careful` keeps them out of the run.
Naming them in the constant `Careless` lets them in; TLC then finds, in a few
steps, the following:

- `"truncate empty"`: spiffs_object_truncate loads the header of an object only when it
  has bytes to delete.  For an empty one, UpdateIndexHdr gets what happens to be in
  fs->work, so the file takes over the name of the one used before it
  (spiffs_nucleus.c:1639-1642).
- `"remove pending"`: SPIFFS_remove closes the object's descriptors and forgets their
  cache page (SPIFFS_fremove does release it).  The page is never freed, or is flushed
  into the next object that gets the id.
- `"truncate in use"`: bytes pending for the old contents come back after O_TRUNC, or fail
  to be written because they would leave a gap.

Bounds: a page of two bytes, two descriptors, three cache pages (512, 3 and 4 in fs.h;
what counts is that there are more pages than descriptors, `SizesAssumption`), two
names, two byte values, three bytes in all files together (`FewBytes`): writes that
fit in a page, continue it, overlap it, start elsewhere, cross its end, are a page long
or longer than what is left of the object all occur, through one descriptor or two, on
one file or two.  Names and bytes are symmetric, no action tells them apart.  The
VIEW leaves out `answer`, which no step reads.

## Flash

Three modules hold what FileApi takes for granted of an object.  Everything is an
operator on a machine `m`: the flash, the fields of the `spiffs` struct, the
descriptor of the call and its result so far.  `Spiffs` turns them into a state
machine.

| model | code |
|-------|------|
| `flash[p]`: `lu`; `id`, `span`, `flags`; `size`, `refs`; `data` | the lookup entry of page p; its spiffs_page_header; size and table of an object index header; the units of a data page |
| `flags` | the bits of the flag byte that are cleared |
| `erased` | the blocks' erase counts, as the order in which they were erased |
| `free`, `cursor`, `alloc`, `dele`, `blocks`, `cleaning` | free_cursor_*, cursor_*, stats_p_allocated, stats_p_deleted, free_blocks, cleaning |
| `work`, `lu` | fs->work where it holds an index header; fs->lu_work |
| `log` | the flash after each write so far |
| `PageAllocateData` `PageMoveTo` `PageDelete` `UpdateIndexHdr` `GcCheck` ... | the functions of those names in spiffs_nucleus.c and spiffs_gc.c (`SpiffsFlash`) |
| `Mount` `LookupConsistencyCheck` `PageConsistencyCheck` `ObjectIndexConsistencyCheck` `FsTask` | spiffs_obj_lu_scan, the checks, fs_task (`SpiffsCheck`) |
| `ObjectCreate` `ObjectAppend` `ObjectModify` `ObjectTruncate` `Write` | spiffs_object_..., spiffs_hydro_write (`Spiffs`) |
| `Call`, `Start` | a call from open to close, the start of the program |
| `LossInCall`, `LossInStart` | the power goes before, or after one of the writes of, a call or the mending |

Flash is programmed, not written: `Word` is the AND of old and new, and only
`EraseBlock` sets bits again.  So a page index written over another one is a third one,
and a page reused too early holds the remains of both; the model shows both.
`log` is what makes a power loss possible anywhere in a call without cutting the call
into actions: the flash is set to one of its entries, memory is forgotten, and the next
step is `Start`.  `lu` is kept because spiffs_check.c reads lookup entries, and once
an object's id (`ReplaceReference`), from fs->lu_work after calls that have overwritten it;
`Reload` stands where the code reads the lookup page again, and nowhere else.

While the power stays on (`losses = 0`): the lookup entries of a block are used up in
order, which spiffs_gc.c:277 relies on (`FreeTail`); the counts that calls refuse on are
those a mount would find (`StatsAgree`); between two calls every page is free, deleted, an
index, or referred to exactly once (`NothingHalfDone`, in the words of spiffs_check.c:488);
and every call does what FileApi says or finds the flash full (`CallsKeepPromise`).

After a power loss and a start: the mending ends, and if it has no error to report, every
file can be read and the flash is consistent, or another start makes it so
(`MendedIsConsistent`); files that the interrupted call did not work on are as they were
(`OthersSurvive`); a removal or truncation has happened or has not (`NoThirdOutcome`).
These are about what the source promises less of: spiffs.h:458 says of repeated losses
that "you might have to delete some files".  What the properties leave out, because the
code does not do it, is named by definitions:

- `Orphaned`: when the page check gives an object up because one of its pages is beyond
  repair, it has already counted other pages of it as referred to, and leaves them; fs_task
  reports no error.  `MendedIsConsistent` allows these pages and no others, and demands that
  the next start removes them and changes no file (`NextStartCleans`).  It takes a truncation
  of several pages, interrupted between two of them.
- `OneHeader`, `OneHeaderEach`: page_move makes the new header final before it deletes the
  old one (spiffs_nucleus.c:633-661).  A single power loss between the two writes leaves
  two headers that refer to the same pages, and the page check deletes both
  (spiffs_check.c:667-678): the file is gone, also when garbage collection moved it for
  another file's call.  `OthersSurvive` lets such a file be gone, never changed.
- `Exposed`: with fewer than two free blocks, allocating a page erases the first block
  whose lookup entries are all deleted (spiffs_nucleus.c:394); during the lookup check
  this can be the block with the page it was about to rescue.
- `Mendable`: with fewer than two free blocks (not `Roomy`) the mending may run out of room
  halfway.  It reports that; a file it was working on may then not be readable.
- Also seen in the model, and no property: a truncation that is interrupted leaves the old
  header with a dead reference until the next start; an append that is interrupted after
  its in-place write leaves units that the next append is ANDed with; page_delete and
  rewrite_index in the checks leave the counts wrong until the next mount, so
  `StatsAgree` is about a flash without losses.  The comment at spiffs_check.c:12 calls the
  index check "critical for the following page consistency check"; fs_task runs it after.

Bounds: four blocks of three pages (`spiffs_gc_check` subtracts two, collects at three, and
a fourth is the least with which files fit; with three pages to a block allocation and
garbage collection also begin and end in the middle of one), two units of data per page,
an index header with three references.  There are two files, one of up to three pages and
one of one (`Writes`): pages written whole, in part, filled up in place and overwritten; a
write that modifies and then appends, and is refused between the two; a flash that is full,
every block collected, headers and data of both files moved by either one's call; files
of several pages truncated and removed.  A flash that gets full in the middle of one append
(spiffs_nucleus.c:1104) does not happen: the check for room comes first.
`MaxLosses` is 2: one in a call, one in the
mending it leads to.  `UntilRestart` ends a behaviour with the first start that is not
interrupted: what calls do to a flash that was mended is not explored.  `WordBits` is
6, enough for every page index to be told from -1; `MaxPasses` is 6, and `endless`, which
would say that it was reached, is excluded by `MendedIsConsistent`.  `GcMaxRuns` is the
code's own 5.  No fairness is assumed, and no symmetry: blocks and ids are ordered.

Left out: index pages beyond the header (files longer than some 200 pages), truncation to
a length other than 0, names, the read cache (it only repeats the flash), a write or erase
that is cut in half, page checks in several ranges, erase counts that wrap around.  A page
index that is none would write elsewhere: such a call ends as "astray", its effects are
not followed.  SPIFFS_USE_MAGIC is off in spiffs_config.h.

## Runs

| run | shows |
|-----|-------|
| dictionary | types, the list, references, >CFA, (FIND) walking the links, that references keep their meaning and that a word that can be found is complete, with the segment running out |
| dictionary_long_name | violation: a 32-character name is found, its codeword is not |
| tcp_shell | the queue, buffers and flag, and the stream refinement, all interleavings |
| tcp_shell_live | a callback always returns; accepted input of an only session is interpreted, or the session ends; acknowledgements go to their source, but for what `EchoAtSource` allows |
| control_flow | branches, where control goes, and both stacks for every word of up to six tokens, compiled and run |
| control_flow_abandoned | words given up half way leave the next ones intact, unless they had a LEAVE in an open loop; the leave stack keeps within its cells and holds only what is open |
| leave_crash | violation: UNLOOP loses RSP |
| word_input | no refill loses a character; words and numbers are those of the text |
| exceptions | a THROW ends, at the innermost protected call or at the prompt, and restores both stacks, except in the crashes `CrashesKnown` names |
| file_api | reads see every write, whatever descriptor made it; appending overwrites nothing; a closed descriptor has no bytes left in memory; no call touches another file |
| spiffs | calls do to objects what FileApi says, with the flash full and garbage collected; after a power loss in a call, and another in the mending, the next start leaves a consistent flash and the other files alone |
| execute_crash | violation: EXECUTE runs itself and then jumps into nowhere, so CATCH never returns |

## Proofs

`Dictionary_proofs.tla` proves, for every set of names, every length, every
segment and every memory:

- `TypeCorrect` and `ChainIsSound` from the inductive invariant
  `IInv == TypeOK /\ ChainSound /\ BaseKept`.  The types alone are not inductive,
  because FORGET sets DP and LATEST from a header's address and link; the
  list alone is not, because a new header must lie inside memory.  `BaseKept`
  says that the boot word stays: without it FORGET could empty the list.
- `NothingDangles`, `CodewordAlwaysFound` and `MeaningKept` from
  `RefInv == IInv /\ CodewordsInPlace /\ NoDanglingReference`, for vocabularies
  whose names have at most 31 characters (`ShortNames`); the run
  dictionary_long_name shows that the restriction is needed.
- `FoundWordsAreFinished` (`VisibleComplete`) from `VisInv == IInv /\ OlderComplete`,
  again with `ShortNames`.  What `VisibleComplete` says while DP is in the segment is not
  inductive: a colon definition that HEADER, refuses unhides the word before it, and
  FORGET brings DP back.  `OlderComplete` says what holds in between: only the newest
  word may be visible and unfinished, and only with DP beyond the segment, where no
  header is made.

The argument: every action either appends cells (`Extends`), puts a header and
its codeword at DP (`GrowsBy`), cuts the list (`Shrinks`) or restarts
(`Restarts`).  One lemma per action says which; four lemmas say that each kind
keeps the invariant.  Assumptions: `DictionaryAssumption` and `BaseFits`, both
evaluated by TLC in every run of MCDictionary.

`TcpShell_proofs.tla` proves, for every set of sessions, every queue length,
buffer and packet size, and whatever the peers send:

- `TypeCorrect` and `BuffersStayBounded` from
  `IInv == TypeOK /\ BuffersBounded /\ FlagHasConn`.  `FlagHasConn` is needed:
  that the task does not send through a null `pespconn` rests on `is_connected`
  being set only by a callback that has set `pespconn` first.
- `FlagFollows` from `FInv == IInv /\ FlagFollowsSession /\ ClearIsClosed`, for any
  number of sessions.  The task reads the state of the connection and clears the flag in two steps;
  `ClearIsClosed` says that what it read is still so when it clears, because a
  closed session does not open again.
- `InputImplementsStream`: the refinement `InputIsStream`, step by step.  A callback is
  `Stream!Arrive`, an `xQueueSend` `Stream!Accept` or, when it gives up, `Stream!Refuse`;
  a character from the serial line is `Stream!Elsewhere`, handing one of a session to the
  interpreter `Stream!Take`, and moving one from the queue to the input buffer a stutter.  It needs
  `SInv == TypeOK /\ OneSource`: the serial line fills the same input buffer, and the
  mapping takes it for part of the stream (`TcpInput`) only when it came from the queue;
  that the two never mix in it is `OneSource`.
- `EchoGoesToItsSource` (`EchoAtSource`) from `EInv`: nothing anywhere in the
  terminal, nor any acknowledgement sent, is of a session that never connected
  (`NoneUnheardOf`).  So when an echo goes to the serial line, its source has been
  opened, and since the flag is down `FlagFollowsSession` says that some session has closed.

`SequenceFacts.tla` holds what the proofs about streams share: concatenation is
associative, and an item may be moved across the cut between two parts.

`WordInput_proofs.tla` proves `StreamIsTheText`, for every vocabulary text, flash
window, FIFO length and read size: what `_KEY` returned, what the input buffer holds
and what the FIFO holds are, in this order, the text read so far followed by what
was typed.  `StreamInv` adds to it that nothing leaves the FIFO while the vocabulary
is read (`initializing => fifo = typed`), without which a window of vocabulary could
not be put before what was typed.  The lemmas are about cutting a sequence in two
and moving its parts (`NextWindow`, `MoveFront`, and those of `SequenceFacts`).

`ControlFlow_proofs.tla` proves, for every vocabulary of control-flow words, every
length of word and every depth of the leave stack:

- `CompilerTypes`: `CFTypeOK`.
- `LeavesAreOfOpenLoops` (`LeavesOfThisWord`): the leave stack keeps within its cells and
  the one above them, and holds the offsets of LEAVEs of loops open in this word, unless
  a word was given up with one.
- `WordsLeaveNothing` (`StacksBalanced`), under the hypothesis `[][~Abandon]_cfVars`: a
  user who gives a word up half way leaves what it had on the stack, which TLC shows
  the next words to live with (control_flow_abandoned), and no later word clears away.

The invariant is `WordInv(b)`, where b is what earlier, abandoned words left on the
parameter stack.  `open` alone does not say what a closing word will find there: a CASE
holds a 0 and one address per OF before, a loop a flag and an address.  So `Word` says that
there is a function `pos` from the open structures to the tokens that opened them,
and a function `B` to levels of the stack, such that

- `Hist`: pos[d] is the token that opened the structure at depth d, and every opener
  without a closer is among them;
- `Shaped`: the stack between B[d-1] and B[d] is what that structure keeps there, B[0] is
  b, and the last level is the height of the stack;
- `Leaves`: the leave stack falls from its top, and each of its addresses is that of a
  LEAVE whose innermost loop is open and starts before it.

RESOLVE-LEAVES takes every address behind the start of the loop, so `Leaves` needs both
the order and where loops start; that the loop's address is under its flag on the
parameter stack is `Shaped`.  The lemmas about source text come first (what one more token
does to `Depth`, `Closer`, `Closed` and `Encloses`), then one on each kind of token: it
opens (`PushStep`), changes (`LevelStep`) or closes (`PopStep`) a structure.
The theorems are about CFSpec; ThreadedCode only adds steps that leave these variables
alone, and a reset.

`BranchTargets_proofs.tla` proves `BranchesLeadRight` (`BranchesMatch`): every branch
the immediate words compile leads where its structure says, and `;` finds none without
its offset.  Words may be nested to any
depth, a CASE may have any number of OFs and a loop any number of LEAVEs.  Abandoned words
may have left what they like on the parameter stack; as in the property, none may have left
a LEAVE (`~stale`).  What is true of a closed structure follows from what was true of
the cells still to be filled in when its last token came, so the invariant `BranchInv(b)`
is about those.  It adds `Sound(pos, B)` to the same `Word(b, pos, B)`:

- `Right`: what token i opens and token c closes is `Settled(i, c)`, which is
  `BranchesMatch` without its CHOOSEs (that `Ends`, `Innermost` and `Middles` choose the
  one token there is takes lemmas of its own);
- `Cells(pos)`: the offsets still 0 are exactly those of the tokens pending, which are the
  ELSE, WHILE, OF, ?DO, ENDOF or IF that each open structure still owes (`Owed`) and the
  LEAVEs on the leave stack;
- `Owes(pos, B, d)`: the items a structure keeps on the parameter stack between its levels
  B[d-1] and B[d] are the addresses of the offsets it owes, and where its way
  back goes to; for a CASE the set of them, for they end at the first 0;
- `LeavesIn`: the innermost loop of every LEAVE exists, and the LEAVE is pending while it
  is open, so that RESOLVE-LEAVES misses none.

What one token does to the cells is said once (`Written`: it adds cells of its own, one of
which may be an offset, and fills in those at a set of addresses), and each token has a
lemma that it does that; the steps are then again those that open, change or close a
structure.  That an address is filled in only once, and that no other cell is touched,
rests on `Sited`: each offset is among the cells of its own token, so no two tokens share
one.

`ThreadedCode_proofs.tla` proves what such a word does when it runs, whichever way its
tests go.  As above, none may have been given up with a LEAVE open (`~stale`, which is
always so in the run control_flow):

- `FramesAreKept`: `FrameDiscipline`;
- `InstructionsOnly`: `TypeOK`, so the IP never leaves the word, nor stops on an offset,
  and no word takes from the data stack what was there before it.  This is so even after UNLOOP
  has lost RSP;
- `OnlyUnloopCrashes`: `WordsReturn` as long as no UNLOOP has run.  leave_crash shows that
  one that has brings the system down;
- `WordsWithoutLeaveReturn`: `WordsReturn`, without any condition on the run, where programs do
  not have LEAVE, the only one of the tokens that compiles UNLOOP.

`BranchesMatch` says where branches lead, not what that means for the stacks.  The proof
gives every cell of the word the stacks that belong there:

- `Spelled`: the cells of token i are its `Spelling`, one token's behind the other's, and
  behind the last is the EXIT of `;`.  Each token has a lemma that it compiles these
  (`Spelt`), then one says that no later token changes an operation (`Prefix`);
- `AllHoused`: what closes or divides a structure stands in one of the right kind, a
  LEAVE in a loop, an EXIT in no loop or CASE;
- `Nested(m)` and `Items(m)` count the loops, and the CASEs less the OFs, that are open behind
  token m.  A token changes them by `LGain` and `IGain` (`Gains`), and `Items` never
  falls below what it was where an enclosing structure began (`ItemsHigh`): that is why
  DROP and OVER find what they need;
- `BranchesLand`, the heart: from `Settled` follows that every branch leads to where
  as many loops and items are open as before it; a LEAVE to where no more items
  are;
- `Rises` is how much higher the data stack is ahead of each cell of a token than ahead
  of the token.

The invariant `RunInv` adds `Runs`: while a word runs, `On`, the IP is on some cell k of
some token i, not an offset, with the return stack `Frame(Nested(i - 1))` and the data
stack at the height of `Items(i - 1)`, `Rises` and what each ?DO gone past has left.  A
taken branch may land on any of several tokens with no cells between them (THEN,
BEGIN), which all have the same stacks (`LevelRun`).  After UNLOOP nothing is known of
the return stack, and of the data stack only that it is no lower; that is still inductive,
and enough for the IP.

`FileApi_proofs.tla` proves, for every number of descriptors and cache pages, every
page size, every set of names and bytes:

- `PagesAlwaysOwned`: `PagesOwned`, from the invariant `IInv`.  The property counts
  pages; the invariant says who owns what (`Owned`): the page of a descriptor is its
  object's, no two pages are one object's, an open descriptor's object is there, and
  every used page has an open descriptor of its object (`Watched`).  That a page is
  left to read through then follows by the pigeonhole principle from
  `FdCount < CachePages`: each used page has a descriptor, and no two the same one.
- `CloseAlwaysDurable`: `CloseIsDurable`.  A descriptor that did not write a byte still
  finds the page by its object (`CachePageFacts`), and it is the only one the object has,
  so after the flush that close makes none is left (`FlushedSound`).

The helpers on objects leave the owners alone (`Same`, one lemma each); allocating,
flushing, opening and closing change them and keep `Sound`; the actions are made of
these.  Both theorems assume that no program removes a file with bytes pending
(`"remove pending"` is not in `Careless`): without that SPIFFS_remove leaves a page without
a descriptor.  Both leave out fs_deinit (`NoDeinit`), which nothing calls: it
flushes one descriptor after the other, a fold whose effect needs an induction over
data.  The run file_api does include it.

The same module proves `SizesAlwaysAgree` (`SizesAgree`) under the same two
hypotheses, from `SizedInv == IInv /\ Sized(Now)`.  That descriptors have the size of
their object is not inductive: an append goes to the lesser of its offset and the
descriptor's size, which is the end of the object only as long as no file can be as
long as SPIFFS_UNDEFINED_LEN, so `Sized` bounds every file and every pending
write by MaxSize.  Within a call the sizes disagree, from the write to the object
until spiffs_cb_object_event has told the other descriptors: `AlmostSized` excepts
that object, and `ObjectModifySized` and `ObjectAppendSized` show that the event mends it.

The same module proves what programs see of a file, `Contents`: the bytes on
the flash under those of the page that the object may have.

- `AppendsGoToTheEnd`: `AppendsAtEnd`, from `PlacedInv`: neither the bytes of a page
  nor an open descriptor lie beyond the contents of their object.  Beyond it a write
  would leave a gap, and SPIFFS closes gaps by writing elsewhere.  The lemmas on
  `Overwritten` come first (a write in parts, over a page, at the end, once more), then
  those on the helpers: a flush by whichever descriptor leaves `Contents` as it is
  (`WriteBackKeeps`), and every way through SPIFFS_write, into a page, past it, in
  two parts or twice over, puts the bytes at the offset it was given (`WrittenContents`).
- `FilesKeepPromise`: the refinement `KeepsPromise`, step by step, from
  `PromiseInv == PlacedInv /\ Titled(Now)`, where `Titled` says that every object has a
  name of its own and is not removed.  Read, fstat, lseek and close are steps of Read,
  Stat or Flush of one file, a write is one at the same offset, a power loss leaves what
  is on the flash.  Opening changes nothing a program sees: it is a write of the file's
  first byte as it was, and of an empty file, a flush.

Both assume of programs, besides `NoDeinit`, that they remove no file with bytes
pending and truncate none in use (`Careful`): the truncation would leave descriptors
beyond the end, so `PlacedInv` would fail.  The second also needs that none truncates an
empty file while fs->work holds another one's header, which would rename it.

Assumptions of these: `TcpShellAssumption`, `WordInputAssumption`, `ControlFlowAssumption`
and `SizesAssumption`, evaluated by TLC in every run of their modules.

Only model-checked: `WalkFinds` of the dictionary (a recursive walk); the types of
`WordInput`, `WordsAreTheText` and `NumbersRead` (what a fold over a word computes);
Exceptions; of FileApi fs_deinit; all of
the flash (`SpiffsFlash` needs the AND of two words from Bitwise, which TLAPS has no
facts about); and all liveness: TLAPS handles neither fairness arguments with ENABLED nor
induction over a recursive definition.

## Not modelled, and why

WiFi set-up (calls into the SDK with constant arguments), the UART driver apart from
reading its FIFO (register set-up; the interrupt handler clears its causes and prints),
what the section on the flash lists as left out, the build, the Forth libraries (register
pokes and a web server written for another system), and Actors.md (a proposal).
Formatting and listing files are not calls of FileApi.
The parameter stack is not part of Dictionary: a token's effect on the dictionary does not
depend on it except through ALLOT and `,`, which a user can also use to store
over anything.
