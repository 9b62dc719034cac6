------------------------------ MODULE TcpShell ------------------------------
(***************************************************************************)
(* The interpreter's terminal: the TCP shell (tcp_shell.c) with the serial *)
(* line behind it (user_main.c).  Two tasks share pespconn, is_connected   *)
(* and the stdin queue.                                                    *)
(*                                                                         *)
(*   - The network task runs the espconn callbacks, one at a time.  It     *)
(*     outranks the interpreter (xTaskCreate priority 2), so a callback's  *)
(*     straight-line code is one step; it is suspended only inside         *)
(*     xQueueSend, when the queue is full.                                 *)
(*   - The interpreter's task reads (_KEY, forthright_readChars), echoes   *)
(*     and prints.  It can be preempted between any two of its accesses to *)
(*     the shared variables, so each access is a step of its own.          *)
(*                                                                         *)
(* A character is its source, whether it is a newline, and its arrival     *)
(* number.  Each member of Conns is one TCP session.                       *)
(***************************************************************************)
EXTENDS Naturals, Sequences, SequencesExt

CONSTANTS
  Conns,        (* the TCP sessions                                         *)
  Serial,       (* the UART, as a source and a destination of characters    *)
  NULL,         (* pespconn before the first session                        *)
  QueueCap,     (* length of tcp_shell_stdin (128)                          *)
  MaxPacket,    (* MAX_PACKET_SIZE (1500)                                   *)
  Chunks,       (* the segments a peer sends, as sequences of "is newline"  *)
  BufSize,      (* the size tcp_shell_read_chars is given (63)              *)
  MaxChunks,    (* bound: segments sent by all peers together               *)
  MaxSerial,    (* bound: characters typed on the serial line               *)
  MaxEmits      (* bound: characters printed by interpreted words           *)

ASSUME TcpShellAssumption ==
  /\ Serial \notin Conns /\ NULL \notin Conns /\ NULL # Serial
  /\ QueueCap \in Nat \ {0}
  /\ MaxPacket \in Nat \ {0}
  /\ Chunks \subseteq Seq(BOOLEAN)
  /\ BufSize \in Nat
  /\ MaxChunks \in Nat /\ MaxSerial \in Nat /\ MaxEmits \in Nat

VARIABLES
  link,          (* espconn.state of each session's connection              *)
  pespconn,
  is_connected,
  queue,         (* tcp_shell_stdin                                         *)
  feed,          (* what the running callback has still to send_to_stdin    *)
  arrived,       (* history: characters numbered so far                     *)
  inbuf,         (* the input buffer from currkey to bufftop                *)
  key,           (* the character _KEY took last                            *)
  pc,            (* where the interpreter's task is                         *)
  pending,       (* what is left of the string being put                    *)
  stdout,        (* stdout_buffer up to stdout_pointer                      *)
  sent,          (* history: <<destination, source>> of delivered echoes    *)
  chunks, typed, emits   (* how much of the three bounds has been used      *)

netVars == <<link, feed, arrived, chunks>>
outVars == <<pending, stdout, sent, emits>>
vars == <<link, pespconn, is_connected, queue, feed, arrived, inbuf, key, pc,
          pending, stdout, sent, chunks, typed, emits>>

Sources == Conns \cup {Serial}

Char(s, nl, n) == [src |-> s, nl |-> nl, no |-> n]
Chars == [src : Sources, nl : BOOLEAN, no : Nat]

(* A segment's characters, numbered on from what has arrived before.       *)
Numbered(s, chunk) ==
  [i \in 1..Len(chunk) |-> Char(s, chunk[i], arrived + i)]

(* "WELCOME\n" and " <ok>\n", reduced to one character and the newline.    *)
Welcome == <<FALSE, TRUE>>

(* A character to be put, and whose input it acknowledges (NULL: nobody's, *)
(* a word printed it).                                                     *)
Out(nl, for) == [nl |-> nl, for |-> for]
Ok(for)      == <<Out(FALSE, for), Out(TRUE, for)>>

Init ==
  /\ link = [c \in Conns |-> "none"]
  /\ pespconn = NULL
  /\ is_connected = FALSE
  /\ queue = <<>>
  /\ feed = <<>>
  /\ arrived = 0
  /\ inbuf = <<>>
  /\ key = Char(Serial, FALSE, 0)
  /\ pc = "key"
  /\ pending = <<>>
  /\ stdout = <<>>
  /\ sent = {}
  /\ chunks = 0 /\ typed = 0 /\ emits = 0

-----------------------------------------------------------------------------
(* The network task.                                                       *)

Callback(c) ==
  /\ feed = <<>>
  /\ pespconn' = c
  /\ UNCHANGED <<queue, inbuf, key, pc, typed, outVars>>

connected(c) ==
  /\ link[c] = "none"
  /\ Callback(c)
  /\ link' = [link EXCEPT ![c] = "open"]
  /\ is_connected' = TRUE
  /\ feed' = Numbered(c, Welcome)
  /\ arrived' = arrived + Len(Welcome)
  /\ UNCHANGED chunks

received(c) ==
  /\ link[c] = "open"
  /\ chunks < MaxChunks
  /\ Callback(c)
  /\ \E chunk \in Chunks : /\ feed' = Numbered(c, chunk)
                           /\ arrived' = arrived + Len(chunk)
  /\ chunks' = chunks + 1
  /\ UNCHANGED <<link, is_connected>>

(* Mutant: the flag is left as it was.                                     *)
disconnectedKeepsFlag(c) ==
  /\ link[c] = "open"
  /\ Callback(c)
  /\ link' = [link EXCEPT ![c] = "closed"]
  /\ UNCHANGED <<feed, arrived, chunks, is_connected>>

(* The library marks the connection ESPCONN_CLOSE and calls back.          *)
disconnected(c) ==
  /\ link[c] = "open"
  /\ Callback(c)
  /\ link' = [link EXCEPT ![c] = "closed"]
  /\ is_connected' = FALSE
  /\ UNCHANGED <<feed, arrived, chunks>>

(* send_to_stdin, one character: xQueueSend finds room, or gives up after  *)
(* 10 ticks, and then the character is gone.                               *)
QueueSend ==
  /\ feed # <<>>
  /\ Len(queue) < QueueCap
  /\ queue' = Append(queue, Head(feed))
  /\ feed' = Tail(feed)
  /\ UNCHANGED <<link, pespconn, is_connected, arrived, chunks, inbuf, key, pc,
                 typed, outVars>>

(* Mutant: a full queue loses its oldest character instead of the new one. *)
QueueSendOverwrites ==
  /\ feed # <<>> /\ Len(queue) = QueueCap
  /\ queue' = Append(Tail(queue), Head(feed))
  /\ feed' = Tail(feed)
  /\ UNCHANGED <<link, pespconn, is_connected, arrived, chunks, inbuf, key, pc,
                 typed, outVars>>

(* Mutant: xQueueSend waits for room without a limit (portMAX_DELAY).      *)
QueueSendForever ==
  feed # <<>> /\ Len(queue) = QueueCap /\ UNCHANGED vars

QueueSendTimeout ==
  /\ feed # <<>>
  /\ Len(queue) = QueueCap
  /\ feed' = Tail(feed)
  /\ UNCHANGED <<link, pespconn, is_connected, arrived, chunks, queue, inbuf,
                 key, pc, typed, outVars>>

-----------------------------------------------------------------------------
(* The interpreter's task: input.  _KEY calls forthright_readChars when    *)
(* the input buffer is used up, over and over while that returns nothing.  *)

ReadChars ==
  /\ pc = "key" /\ inbuf = <<>>
  /\ pc' = IF is_connected THEN "receive" ELSE "uart"
  /\ UNCHANGED <<netVars, pespconn, is_connected, queue, inbuf, key, typed,
                 outVars>>

(* tcp_shell_read_chars keeps receiving as long as characters come within  *)
(* 10 ticks; bufsize is not looked at.                                     *)
QueueReceive ==
  /\ pc = "receive" /\ queue # <<>>
  /\ inbuf' = Append(inbuf, Head(queue))
  /\ queue' = Tail(queue)
  /\ UNCHANGED <<netVars, pespconn, is_connected, key, pc, typed, outVars>>

QueueReceiveTimeout ==
  /\ pc = "receive" /\ queue = <<>>
  /\ pc' = "state"
  /\ UNCHANGED <<netVars, pespconn, is_connected, queue, inbuf, key, typed,
                 outVars>>

(* Mutant: a read that comes back empty-handed counts as a closed session. *)
ReadStateGivesUp ==
  /\ pc = "state"
  /\ pc' = IF inbuf = <<>> THEN "clear" ELSE "key"
  /\ UNCHANGED <<netVars, pespconn, is_connected, queue, inbuf, key, typed,
                 outVars>>

ReadState ==
  /\ pc = "state"
  /\ pc' = IF link[pespconn] = "closed" THEN "clear" ELSE "key"
  /\ UNCHANGED <<netVars, pespconn, is_connected, queue, inbuf, key, typed,
                 outVars>>

ClearConnected ==
  /\ pc = "clear"
  /\ is_connected' = FALSE
  /\ pc' = "key"
  /\ UNCHANGED <<netVars, pespconn, queue, inbuf, key, typed, outVars>>

(* Mutant: the FIFO is read without looking at its count.                  *)
UartReadUnchecked ==
  /\ pc = "uart"
  /\ pc' = "key"
  /\ inbuf' = Append(inbuf, NULL)
  /\ UNCHANGED <<netVars, pespconn, is_connected, queue, key, typed, outVars>>

(* uart_read_chars: what is in the FIFO, here a character at most.         *)
UartRead ==
  /\ pc = "uart"
  /\ pc' = "key"
  /\ \/ /\ typed < MaxSerial
        /\ typed' = typed + 1
        /\ \E nl \in BOOLEAN :
             inbuf' = Append(inbuf, Char(Serial, nl, arrived + 1))
        /\ arrived' = arrived + 1
     \/ UNCHANGED <<typed, inbuf, arrived>>
  /\ UNCHANGED <<link, feed, chunks, pespconn, is_connected, queue, key,
                 outVars>>

TakeKey ==
  /\ pc = "key" /\ inbuf # <<>>
  /\ key' = Head(inbuf)
  /\ inbuf' = Tail(inbuf)
  /\ pc' = "echo"
  /\ UNCHANGED <<netVars, pespconn, is_connected, queue, typed, outVars>>

-----------------------------------------------------------------------------
(* The interpreter's task: output.                                         *)

(* Mutant: the echo of the days before the shell, always on the line.      *)
EchoSerial ==
  /\ pc = "echo"
  /\ sent' = sent \cup {<<Serial, key.src>>}
  /\ pc' = "run"
  /\ UNCHANGED <<netVars, pespconn, is_connected, queue, inbuf, key, typed,
                 pending, stdout, emits>>

(* forthright_echo_char: " <ok>\n" for a newline on TCP, nothing for other *)
(* characters; on the serial line the character itself.                    *)
Echo ==
  /\ pc = "echo"
  /\ IF is_connected
       THEN /\ pending' = IF key.nl THEN Ok(key.src) ELSE <<>>
            /\ pc' = IF key.nl THEN "put" ELSE "run"
            /\ UNCHANGED sent
       ELSE /\ sent' = sent \cup {<<Serial, key.src>>}
            /\ pc' = "run"
            /\ UNCHANGED pending
  /\ UNCHANGED <<netVars, pespconn, is_connected, queue, inbuf, key, typed,
                 stdout, emits>>

(* A word EMITs a character, through forthright_putChar.                   *)
Emit ==
  /\ pc = "run" /\ emits < MaxEmits
  /\ emits' = emits + 1
  /\ \E nl \in BOOLEAN :
       IF is_connected
         THEN pending' = <<Out(nl, NULL)>> /\ pc' = "put"
         ELSE UNCHANGED <<pending, pc>>
  /\ UNCHANGED <<netVars, pespconn, is_connected, queue, inbuf, key, typed,
                 stdout, sent>>

WordDone ==
  /\ pc = "run"
  /\ pc' = "key"
  /\ UNCHANGED <<netVars, pespconn, is_connected, queue, inbuf, key, typed,
                 outVars>>

FlushesLate(size, nl) == size > MaxPacket + 1 \/ nl   (* mutant: one later  *)

(* tcp_shell_put_char stores the character before it looks at the size.    *)
Flushes(size, nl) == size > MaxPacket \/ nl

PutChar ==
  /\ pc = "put" /\ pending # <<>>
  /\ stdout' = Append(stdout, Head(pending).for)
  /\ pending' = Tail(pending)
  /\ pc' = IF Flushes(Len(stdout'), Head(pending).nl) THEN "send" ELSE "put"
  /\ UNCHANGED <<netVars, pespconn, is_connected, queue, inbuf, key, typed,
                 sent, emits>>

PutDone ==
  /\ pc = "put" /\ pending = <<>>
  /\ pc' = "run"
  /\ UNCHANGED <<netVars, pespconn, is_connected, queue, inbuf, key, typed,
                 outVars>>

(* espconn_send to whatever pespconn is by now; its result is not used, so *)
(* a packet it refuses is gone.                                            *)
EspconnSend ==
  /\ pc = "send"
  /\ \/ /\ link[pespconn] = "open"
        /\ sent' = sent \cup {<<pespconn, s>> : s \in ToSet(stdout) \ {NULL}}
     \/ UNCHANGED sent
  /\ stdout' = <<>>
  /\ pc' = "put"
  /\ UNCHANGED <<netVars, pespconn, is_connected, queue, inbuf, key, typed,
                 pending, emits>>

-----------------------------------------------------------------------------
Feeding == QueueSend \/ QueueSendTimeout

Network == \/ \E c \in Conns : connected(c) \/ received(c) \/ disconnected(c)
           \/ Feeding

Interpreter ==
  \/ ReadChars \/ QueueReceive \/ QueueReceiveTimeout \/ ReadState
  \/ ClearConnected \/ UartRead \/ TakeKey
  \/ Echo \/ Emit \/ WordDone \/ PutChar \/ PutDone \/ EspconnSend

Next == Network \/ Interpreter

(* FreeRTOS: a task that is ready runs when those above it block, and a    *)
(* timed wait ends.  Peers owe nothing.                                    *)
Fairness == WF_vars(Interpreter) /\ WF_vars(Feeding)

Spec     == Init /\ [][Next]_vars
FairSpec == Spec /\ Fairness

-----------------------------------------------------------------------------
(* Type invariant.                                                         *)
TypeOK ==
  /\ link \in [Conns -> {"none", "open", "closed"}]
  /\ pespconn \in Conns \cup {NULL}
  /\ is_connected \in BOOLEAN
  /\ queue \in Seq(Chars) /\ feed \in Seq(Chars) /\ inbuf \in Seq(Chars)
  /\ arrived \in Nat
  /\ key \in Chars
  /\ pc \in {"key", "receive", "state", "clear", "uart", "echo", "run", "put",
             "send"}
  /\ pending \in Seq([nl : BOOLEAN, for : Sources \cup {NULL}])
  /\ stdout \in Seq(Sources \cup {NULL})
  /\ sent \subseteq Sources \X Sources
  /\ chunks \in 0..MaxChunks /\ typed \in 0..MaxSerial /\ emits \in 0..MaxEmits

(* Everything the interpreter's task dereferences is there: it reads       *)
(* pespconn only after some session has set it, the queue holds at most    *)
(* its length, and stdout_pointer runs one past MAX_PACKET_SIZE (the byte  *)
(* behind the buffer) and no further, and only on the way to a send.       *)
BuffersBounded ==
  /\ pc \in {"receive", "state", "clear", "put", "send"} => pespconn # NULL
  /\ Len(queue) <= QueueCap
  /\ Len(stdout) <= MaxPacket + 1
  /\ Len(stdout) > MaxPacket => pc = "send"

(* The TCP input path is a lossy stream: the characters of a callback are  *)
(* queued or dropped, each in its turn, and what the queue accepted is     *)
(* interpreted in the order of arrival, exactly once, across both buffers, *)
(* whatever sessions come and go and whatever the serial line puts in      *)
(* between.                                                                *)
FromTcp(char) == char.src # Serial

(* The input buffer is filled from one of the two at a time.               *)
TcpInput == IF \A i \in 1..Len(inbuf) : FromTcp(inbuf[i]) THEN inbuf ELSE <<>>

Stream == INSTANCE LossyStream
  WITH Item <- Chars, transit <- TcpInput \o queue, entrance <- feed, newest <- arrived

InputIsStream == Stream!Spec

(* No callback keeps the network task forever, attended or not: even when  *)
(* nobody empties the queue, send_to_stdin gets to its end.                *)
CallbackReturns == feed # <<>> ~> feed = <<>>

(* The shell's flag is up only for a session that is open; and an open one *)
(* is left unattended only after some other has closed.                    *)
FlagFollowsSession ==
  /\ is_connected => link[pespconn] = "open"
  /\ \A c \in Conns :
       link[c] = "open" /\ (\A d \in Conns \ {c} : link[d] # "closed") => is_connected

(* While only one session has ever been opened, characters in its queue    *)
(* are read, and what has been read is interpreted, or the session ends.   *)
OnlySession(c) == link[c] = "open" /\ \A d \in Conns \ {c} : link[d] = "none"

InputServed ==
  \A c \in Conns :
    (OnlySession(c) /\ inbuf \o queue # <<>>)
      ~> (inbuf \o queue = <<>> \/ ~OnlySession(c))

(* "Echo character is used to send validation back to the source": what a  *)
(* session typed is acknowledged to it, whatever came late, was dropped or *)
(* waited in the buffers.  An acknowledgement goes to another session only *)
(* when that one has been opened, and to the serial line only after some   *)
(* session has closed.                                                     *)
EchoAtSource ==
  \A p \in sent : p[2] \in Conns /\ p[1] # p[2] =>
    IF p[1] = Serial THEN \E d \in Conns : link[d] = "closed"
                     ELSE link[p[1]] # "none"
=============================================================================
