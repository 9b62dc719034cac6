--------------------------- MODULE TcpShell_proofs ---------------------------
(***************************************************************************)
(* What the terminal guarantees for every number of sessions, every length *)
(* of the queue and of packets, and whatever peers send.                   *)
(***************************************************************************)
EXTENDS TcpShell, SequenceFacts, TLAPS

-----------------------------------------------------------------------------
(* The flag says that a session has been opened, so there is a connection  *)
(* to send to; and it is only cleared for a session that has closed.       *)
FlagHasConn   == is_connected => pespconn # NULL
ClearIsClosed == pc = "clear" => \E c \in Conns : link[c] = "closed"

IInv == TypeOK /\ BuffersBounded /\ FlagHasConn

FInv == IInv /\ FlagFollowsSession /\ ClearIsClosed

LEMMA CharFacts ==
  ASSUME NEW s \in Sources, NEW nl \in BOOLEAN, NEW n \in Nat
  PROVE  Char(s, nl, n) \in Chars
BY DEF Char, Chars

(* A numbered segment is a sequence of characters.                         *)
LEMMA NumberedFacts ==
  ASSUME TypeOK, NEW s \in Sources, NEW chunk \in Seq(BOOLEAN)
  PROVE  /\ Numbered(s, chunk) \in Seq(Chars)
         /\ arrived + Len(chunk) \in Nat
<1>1. /\ Len(chunk) \in Nat /\ arrived \in Nat
      /\ \A i \in 1..Len(chunk) : chunk[i] \in BOOLEAN
  BY DEF TypeOK
<1>2. \A i \in 1..Len(chunk) : Char(s, chunk[i], arrived + i) \in Chars
  BY <1>1, CharFacts
<1> QED
  BY <1>1, <1>2 DEF Numbered

LEMMA OkFacts ==
  ASSUME NEW for \in Sources \cup {NULL}, NEW nl \in BOOLEAN
  PROVE  /\ Ok(for) \in Seq([nl : BOOLEAN, for : Sources \cup {NULL}])
         /\ <<Out(nl, for)>> \in Seq([nl : BOOLEAN, for : Sources \cup {NULL}])
BY DEF Ok, Out

LEMMA WelcomeFacts == Welcome \in Seq(BOOLEAN)
BY DEF Welcome

LEMMA InitIInv == Init => IInv
<1> SUFFICES ASSUME Init
             PROVE  IInv
  OBVIOUS
<1>1. Serial \in Sources /\ key \in Chars
  BY CharFacts DEF Init, Sources
<1>2. \A S : <<>> \in Seq(S)
  OBVIOUS
<1>3. link \in [Conns -> {"none", "open", "closed"}]
  BY DEF Init
<1>4. /\ queue \in Seq(Chars) /\ feed \in Seq(Chars) /\ inbuf \in Seq(Chars)
      /\ pending \in Seq([nl : BOOLEAN, for : Sources \cup {NULL}])
      /\ stdout \in Seq(Sources \cup {NULL})
  BY <1>2, Zenon DEF Init
<1>5. /\ pespconn \in Conns \cup {NULL} /\ is_connected \in BOOLEAN
      /\ sent \subseteq Sources \X Sources
  BY Zenon DEF Init
<1>6. /\ arrived \in Nat /\ pc = "key" /\ chunks \in 0..MaxChunks
      /\ typed \in 0..MaxSerial /\ emits \in 0..MaxEmits
  BY TcpShellAssumption DEF Init
<1>7. TypeOK
  BY <1>1, <1>3, <1>4, <1>5, <1>6 DEF TypeOK
<1> QED
  BY <1>7, TcpShellAssumption DEF Init, IInv, BuffersBounded, FlagHasConn

-----------------------------------------------------------------------------
(* One lemma per part of the system.                                       *)

LEMMA NetworkKeeps ==
  ASSUME IInv, Network
  PROVE  IInv'
<1> USE TcpShellAssumption DEF IInv, BuffersBounded, FlagHasConn, netVars, outVars
<1>1. ASSUME NEW c \in Conns, connected(c)
      PROVE  IInv'
  <2>1. c \in Sources /\ c # NULL
    BY DEF Sources
  <2>2. feed' \in Seq(Chars) /\ arrived' \in Nat
    BY <1>1, <2>1, NumberedFacts, WelcomeFacts DEF connected
  <2>3. TypeOK'
    BY <1>1, <2>2 DEF connected, Callback, TypeOK
  <2> QED
    BY <1>1, <2>1, <2>3 DEF connected, Callback, TypeOK
<1>2. ASSUME NEW c \in Conns, received(c)
      PROVE  IInv'
  <2>1. c \in Sources /\ c # NULL
    BY DEF Sources
  <2>2. feed' \in Seq(Chars) /\ arrived' \in Nat
    BY <1>2, <2>1, NumberedFacts DEF received
  <2>3. TypeOK'
    BY <1>2, <2>2 DEF received, Callback, TypeOK
  <2> QED
    BY <1>2, <2>1, <2>3 DEF received, Callback, TypeOK
<1>3. ASSUME NEW c \in Conns, disconnected(c)
      PROVE  IInv'
  <2>1. c # NULL
    OBVIOUS
  <2>2. TypeOK'
    BY <1>3 DEF disconnected, Callback, TypeOK
  <2> QED
    BY <1>3, <2>1, <2>2 DEF disconnected, Callback, TypeOK
<1>4. CASE QueueSend
  BY <1>4 DEF QueueSend, TypeOK
<1>5. CASE QueueSendTimeout
  BY <1>5 DEF QueueSendTimeout, TypeOK
<1> QED
  BY <1>1, <1>2, <1>3, <1>4, <1>5 DEF Network, Feeding

LEMMA InputKeeps ==
  ASSUME IInv,
         ReadChars \/ QueueReceive \/ QueueReceiveTimeout \/ ReadState
           \/ ClearConnected \/ UartRead \/ TakeKey
  PROVE  IInv'
<1> USE TcpShellAssumption DEF IInv, BuffersBounded, FlagHasConn, netVars, outVars
<1>1. CASE ReadChars
  BY <1>1 DEF ReadChars, TypeOK
<1>2. CASE QueueReceive
  BY <1>2 DEF QueueReceive, TypeOK
<1>3. CASE QueueReceiveTimeout
  BY <1>3 DEF QueueReceiveTimeout, TypeOK
<1>4. CASE ReadState
  BY <1>4 DEF ReadState, TypeOK
<1>5. CASE ClearConnected
  BY <1>5 DEF ClearConnected, TypeOK
<1>6. CASE UartRead
  <2>1. arrived \in Nat /\ inbuf \in Seq(Chars)
    BY DEF TypeOK
  <2>2. \A nl \in BOOLEAN : Char(Serial, nl, arrived + 1) \in Chars
    BY <2>1, CharFacts DEF Sources
  <2>3. inbuf' \in Seq(Chars)
    <3>1. CASE inbuf' = inbuf
      BY <2>1, <3>1
    <3>2. ASSUME NEW nl \in BOOLEAN, inbuf' = Append(inbuf, Char(Serial, nl, arrived + 1))
          PROVE  inbuf' \in Seq(Chars)
      BY <2>1, <2>2, <3>2
    <3> QED
      BY <1>6, <3>1, <3>2 DEF UartRead
  <2>4. arrived' \in Nat /\ typed' \in 0..MaxSerial
    BY <1>6, <2>1 DEF UartRead, TypeOK
  <2> QED
    BY <1>6, <2>3, <2>4 DEF UartRead, TypeOK
<1>7. CASE TakeKey
  BY <1>7 DEF TakeKey, TypeOK
<1> QED
  BY <1>1, <1>2, <1>3, <1>4, <1>5, <1>6, <1>7

LEMMA OutputKeeps ==
  ASSUME IInv,
         Echo \/ Emit \/ WordDone \/ PutChar \/ PutDone \/ EspconnSend
  PROVE  IInv'
<1> USE TcpShellAssumption DEF IInv, BuffersBounded, FlagHasConn, netVars, outVars
<1>1. CASE Echo
  <2>1. key.src \in Sources /\ Serial \in Sources
    BY DEF TypeOK, Chars, Sources
  <2>2. Ok(key.src) \in Seq([nl : BOOLEAN, for : Sources \cup {NULL}])
    BY <2>1, OkFacts
  <2>3. pending' \in Seq([nl : BOOLEAN, for : Sources \cup {NULL}])
    <3> DEFINE Outs == [nl : BOOLEAN, for : Sources \cup {NULL}]
    <3>1. pending \in Seq(Outs) /\ Ok(key.src) \in Seq(Outs)
      BY <2>2 DEF TypeOK
    <3> HIDE DEF Outs
    <3>2. pending' \in {pending, Ok(key.src), <<>>}
      BY <1>1 DEF Echo
    <3>3. \A S : <<>> \in Seq(S)
      OBVIOUS
    <3>4. pending' \in Seq(Outs)
      BY <3>1, <3>2, <3>3
    <3> QED
      BY <3>4 DEF Outs
  <2>4. sent' \subseteq Sources \X Sources
    BY <1>1, <2>1 DEF Echo, TypeOK
  <2> QED
    BY <1>1, <2>3, <2>4 DEF Echo, TypeOK
<1>2. CASE Emit
  <2>1. pending' \in Seq([nl : BOOLEAN, for : Sources \cup {NULL}])
    BY <1>2, OkFacts DEF Emit, TypeOK
  <2> QED
    BY <1>2, <2>1 DEF Emit, TypeOK
<1>3. CASE WordDone
  BY <1>3 DEF WordDone, TypeOK
<1>4. CASE PutChar
  <2> DEFINE Outs == [nl : BOOLEAN, for : Sources \cup {NULL}]
  <2>1. /\ pending \in Seq(Outs) /\ pending # <<>>
        /\ Head(pending) \in Outs /\ Tail(pending) \in Seq(Outs)
    <3>1. pending \in Seq(Outs) /\ pending # <<>>
      BY <1>4 DEF PutChar, TypeOK
    <3> HIDE DEF Outs
    <3> QED
      BY <3>1
  <2>2. Head(pending).for \in Sources \cup {NULL}
    BY <2>1
  <2>3. /\ stdout' \in Seq(Sources \cup {NULL})
        /\ Len(stdout') = Len(stdout) + 1 /\ Len(stdout) \in Nat
    BY <1>4, <2>2 DEF PutChar, TypeOK
  <2>4. /\ Len(stdout) <= MaxPacket
        /\ Len(stdout') > MaxPacket => pc' = "send"
        /\ pc' \in {"put", "send"}
    BY <1>4, <2>3 DEF PutChar, Flushes
  <2> QED
    BY <1>4, <2>1, <2>3, <2>4 DEF PutChar, TypeOK
<1>5. CASE PutDone
  BY <1>5 DEF PutDone, TypeOK
<1>6. CASE EspconnSend
  <2>1. pespconn \in Sources
    BY <1>6 DEF EspconnSend, TypeOK, Sources
  <2>2. ToSet(stdout) \ {NULL} \subseteq Sources
    BY DEF TypeOK, ToSet
  <2>3. sent' \subseteq Sources \X Sources
    BY <1>6, <2>1, <2>2 DEF EspconnSend, TypeOK
  <2> QED
    BY <1>6, <2>3 DEF EspconnSend, TypeOK
<1> QED
  BY <1>1, <1>2, <1>3, <1>4, <1>5, <1>6

LEMMA NextIInv == IInv /\ [Next]_vars => IInv'
<1>1. CASE UNCHANGED vars
  BY <1>1 DEF vars, IInv, TypeOK, BuffersBounded, FlagHasConn
<1> QED
  BY <1>1, NetworkKeeps, InputKeeps, OutputKeeps DEF Next, Interpreter

(* Types: sessions, flag, queue, both buffers and what is being put.       *)
THEOREM TypeCorrect == Spec => []TypeOK
<1>1. IInv => TypeOK
  BY DEF IInv
<1> QED
  BY <1>1, InitIInv, NextIInv, PTL DEF Spec

(* The task never uses pespconn before a session has set it, the queue     *)
(* stays in its length and stdout_pointer within one byte of the packet    *)
(* size, for every interleaving of callbacks with input and output.        *)
THEOREM BuffersStayBounded == Spec => []BuffersBounded
<1>1. IInv => BuffersBounded
  BY DEF IInv
<1> QED
  BY <1>1, InitIInv, NextIInv, PTL DEF Spec

-----------------------------------------------------------------------------
LEMMA NextFInv == FInv /\ [Next]_vars => FInv'
<1> SUFFICES ASSUME FInv, [Next]_vars
             PROVE  FInv'
  OBVIOUS
<1> USE DEF ClearIsClosed
<1>1. /\ IInv /\ IInv' /\ FlagFollowsSession /\ ClearIsClosed
      /\ link \in [Conns -> {"none", "open", "closed"}]
      /\ pespconn \in Conns \cup {NULL}
  BY NextIInv DEF FInv, IInv, TypeOK
<1>2. ASSUME NEW c \in Conns, connected(c)
      PROVE  FlagFollowsSession' /\ ClearIsClosed'
  BY <1>1, <1>2 DEF connected, Callback, FlagFollowsSession
<1>3. ASSUME NEW c \in Conns, received(c)
      PROVE  FlagFollowsSession' /\ ClearIsClosed'
  BY <1>1, <1>3 DEF received, Callback, FlagFollowsSession
<1>4. ASSUME NEW c \in Conns, disconnected(c)
      PROVE  FlagFollowsSession' /\ ClearIsClosed'
  BY <1>1, <1>4 DEF disconnected, Callback, FlagFollowsSession
<1>5. CASE ReadState
  <2>1. pespconn \in Conns
    BY <1>1, <1>5 DEF ReadState, IInv, BuffersBounded
  <2>2. link' = link /\ is_connected' = is_connected /\ pespconn' = pespconn
    BY <1>5 DEF ReadState, netVars
  <2>3. ClearIsClosed'
    BY <1>5, <2>1, <2>2 DEF ReadState
  <2> QED
    BY <1>1, <2>2, <2>3 DEF FlagFollowsSession, FInv
<1>6. CASE ClearConnected
  <2>1. PICK d \in Conns : link[d] = "closed"
    BY <1>1, <1>6 DEF ClearConnected
  <2>2. link' = link /\ is_connected' = FALSE /\ pc' = "key"
    BY <1>6 DEF ClearConnected, netVars
  <2>3. ASSUME NEW c \in Conns, \A e \in Conns \ {c} : link[e] # "closed"
        PROVE  link[c] # "open"
    BY <2>1, <2>3
  <2>4. FlagFollowsSession'
    BY <2>2, <2>3 DEF FlagFollowsSession
  <2> QED
    BY <1>1, <2>2, <2>4 DEF FInv
<1>7. CASE \/ Feeding \/ ReadChars \/ QueueReceive \/ QueueReceiveTimeout
           \/ UartRead \/ TakeKey \/ Echo \/ Emit \/ WordDone \/ PutChar
           \/ PutDone \/ EspconnSend \/ UNCHANGED vars
  <2>1. /\ link' = link /\ is_connected' = is_connected /\ pespconn' = pespconn
        /\ pc' = "clear" => pc = "clear"
    BY <1>7 DEF Feeding, QueueSend, QueueSendTimeout, ReadChars, QueueReceive,
                QueueReceiveTimeout, UartRead, TakeKey, Echo, Emit, WordDone,
                PutChar, PutDone, EspconnSend, vars, netVars
  <2>2. FlagFollowsSession'
    BY <1>1, <2>1 DEF FlagFollowsSession
  <2> QED
    BY <1>1, <2>1, <2>2 DEF FInv
<1> QED
  BY <1>1, <1>2, <1>3, <1>4, <1>5, <1>6, <1>7
     DEF FInv, Next, Network, Interpreter

(* However sessions come and go, the flag is up only for one that is open; *)
(* and an open one is left unattended only after some other has closed,    *)
(* whatever the task was doing meanwhile.                                  *)
THEOREM FlagFollows == Spec => []FlagFollowsSession
<1>1. Init => FInv
  BY InitIInv DEF FInv, Init, FlagFollowsSession, ClearIsClosed
<1>2. FInv => FlagFollowsSession
  BY DEF FInv
<1> QED
  BY <1>1, <1>2, NextFInv, PTL DEF Spec
-----------------------------------------------------------------------------
(* The input buffer is filled when it is empty, from the queue or with one *)
(* character of the serial line; and the queue never holds one of those.   *)
OnlyTcp(s) == \A i \in 1..Len(s) : FromTcp(s[i])

OneSource ==
  /\ OnlyTcp(queue) /\ OnlyTcp(feed)
  /\ pc = "uart" => inbuf = <<>>
  /\ pc = "receive" => OnlyTcp(inbuf)
  /\ OnlyTcp(inbuf) \/ Len(inbuf) = 1

SInv == TypeOK /\ OneSource

(* What stays of such a sequence, and what it becomes with one more.       *)
LEMMA OnlyTcpFacts ==
  ASSUME NEW s \in Seq(Chars), OnlyTcp(s)
  PROVE  /\ s # <<>> => FromTcp(Head(s)) /\ OnlyTcp(Tail(s))
         /\ \A e \in Chars : FromTcp(e) => OnlyTcp(Append(s, e))
BY DEF OnlyTcp

(* A session's segment is not from the serial line.                        *)
LEMMA NumberedOnlyTcp ==
  ASSUME NEW c \in Conns, NEW chunk \in Seq(BOOLEAN)
  PROVE  OnlyTcp(Numbered(c, chunk))
<1>1. c # Serial /\ Len(chunk) \in Nat
  BY TcpShellAssumption
<1>2. \A i \in 1..Len(chunk) : Numbered(c, chunk)[i].src = c
  BY <1>1 DEF Numbered, Char
<1>3. Len(Numbered(c, chunk)) = Len(chunk)
  BY <1>1 DEF Numbered
<1> QED
  BY <1>1, <1>2, <1>3 DEF OnlyTcp, FromTcp

LEMMA InitSInv == Init => SInv
<1>1. Init => IInv
  BY InitIInv
<1>2. OnlyTcp(<<>>)
  BY DEF OnlyTcp
<1> QED
  BY <1>1, <1>2 DEF Init, SInv, IInv, OneSource

LEMMA NextSInv ==
  ASSUME IInv, SInv, [Next]_vars
  PROVE  SInv'
<1> USE DEF netVars, outVars
<1>1. TypeOK' /\ TypeOK
  BY NextIInv DEF IInv
<1> SUFFICES OneSource'
  BY <1>1 DEF SInv
<1>2. queue \in Seq(Chars) /\ feed \in Seq(Chars) /\ inbuf \in Seq(Chars)
  BY <1>1 DEF TypeOK
<1>3. OnlyTcp(<<>>)
  BY DEF OnlyTcp
<1>4. ASSUME NEW c \in Conns, connected(c) \/ received(c) \/ disconnected(c)
      PROVE  OneSource'
  <2>1. UNCHANGED <<queue, inbuf, pc>>
    BY <1>4 DEF connected, received, disconnected, Callback
  <2>2. OnlyTcp(feed')
    <3>1. CASE connected(c)
      BY <3>1, NumberedOnlyTcp, WelcomeFacts DEF connected
    <3>2. CASE received(c)
      BY <3>2, NumberedOnlyTcp, TcpShellAssumption DEF received
    <3>3. CASE disconnected(c)
      BY <3>3 DEF disconnected, SInv, OneSource
    <3> QED
      BY <1>4, <3>1, <3>2, <3>3
  <2> QED
    BY <2>1, <2>2 DEF SInv, OneSource, OnlyTcp, FromTcp
<1>5. CASE Feeding
  <2>1. UNCHANGED <<inbuf, pc>> /\ feed # <<>> /\ feed' = Tail(feed)
    BY <1>5 DEF Feeding, QueueSend, QueueSendTimeout
  <2>2. OnlyTcp(feed') /\ FromTcp(Head(feed)) /\ Head(feed) \in Chars
    BY <1>2, <2>1, OnlyTcpFacts DEF SInv, OneSource
  <2>3. OnlyTcp(queue')
    BY <1>2, <1>5, <2>2, OnlyTcpFacts
       DEF Feeding, QueueSend, QueueSendTimeout, SInv, OneSource
  <2> QED
    BY <2>1, <2>2, <2>3 DEF SInv, OneSource, OnlyTcp, FromTcp
<1>6. CASE QueueReceive
  <2>1. /\ queue # <<>> /\ queue' = Tail(queue) /\ inbuf' = Append(inbuf, Head(queue))
        /\ pc = "receive" /\ UNCHANGED <<feed, pc>>
    BY <1>6 DEF QueueReceive
  <2>2. OnlyTcp(queue') /\ FromTcp(Head(queue)) /\ Head(queue) \in Chars
    BY <1>2, <2>1, OnlyTcpFacts DEF SInv, OneSource
  <2>3. OnlyTcp(inbuf')
    BY <1>2, <2>1, <2>2, OnlyTcpFacts DEF SInv, OneSource
  <2> QED
    BY <2>1, <2>2, <2>3 DEF SInv, OneSource, OnlyTcp, FromTcp
<1>7. CASE UartRead
  <2>1. /\ pc = "uart" /\ pc' = "key" /\ UNCHANGED <<feed, queue>>
        /\ inbuf' = inbuf \/ \E e : inbuf' = Append(inbuf, e)
    BY <1>7 DEF UartRead
  <2>2. inbuf = <<>>
    BY <2>1 DEF SInv, OneSource
  <2>3. OnlyTcp(inbuf') \/ Len(inbuf') = 1
    BY <1>3, <2>1, <2>2
  <2> QED
    BY <2>1, <2>3 DEF SInv, OneSource, OnlyTcp, FromTcp
<1>8. CASE TakeKey
  <2>1. /\ inbuf # <<>> /\ inbuf' = Tail(inbuf) /\ pc' = "echo"
        /\ UNCHANGED <<feed, queue>>
    BY <1>8 DEF TakeKey
  <2>2. OnlyTcp(inbuf')
    <3>1. CASE OnlyTcp(inbuf)
      BY <1>2, <2>1, <3>1, OnlyTcpFacts
    <3>2. CASE Len(inbuf) = 1
      BY <1>2, <2>1, <3>2 DEF OnlyTcp
    <3> QED
      BY <3>1, <3>2 DEF SInv, OneSource
  <2> QED
    BY <2>1, <2>2 DEF SInv, OneSource, OnlyTcp, FromTcp
<1>9. CASE ReadChars
  BY <1>3, <1>9 DEF ReadChars, SInv, OneSource, OnlyTcp, FromTcp
<1>10. CASE \/ QueueReceiveTimeout \/ ReadState \/ ClearConnected \/ Echo \/ Emit
            \/ WordDone \/ PutChar \/ PutDone \/ EspconnSend \/ UNCHANGED vars
  <2>1. /\ UNCHANGED <<queue, feed, inbuf>>
        /\ pc' \in {"uart", "receive"} => pc' = pc
    BY <1>10 DEF QueueReceiveTimeout, ReadState, ClearConnected, Echo, Emit, WordDone,
                 PutChar, PutDone, EspconnSend, vars
  <2> QED
    BY <2>1 DEF SInv, OneSource, OnlyTcp, FromTcp
<1> QED
  BY <1>4, <1>5, <1>6, <1>7, <1>8, <1>9, <1>10 DEF Next, Network, Interpreter
(* What is in transit, and the same after a step.                          *)
Transit == TcpInput \o queue

(* A character taken from the front is the first one in transit.           *)
LEMMA TakeFacts ==
  ASSUME NEW s \in Seq(Chars), NEW t \in Seq(Chars), s # <<>>
  PROVE  s \o t # <<>> /\ Tail(s) \o t = Tail(s \o t)
<1> DEFINE u == Tail(s)
<1>1. Head(s) \in Chars /\ u \in Seq(Chars) /\ s = <<Head(s)>> \o u
  BY HeadTailProperties
<1> QED
  BY <1>1

(* A segment arrives with the numbers that come next.                      *)
LEMMA ArriveFacts ==
  ASSUME TypeOK, TypeOK', NEW c \in Conns, NEW chunk \in Seq(BOOLEAN),
         feed = <<>>, feed' = Numbered(c, chunk), arrived' = arrived + Len(chunk),
         Transit' = Transit
  PROVE  Stream!Arrive
<1>1. /\ feed' \in Seq(Chars) /\ arrived \in Nat /\ Len(chunk) \in Nat
  BY DEF TypeOK
<1>2. Len(feed') = Len(chunk)
  BY <1>1 DEF Numbered
<1>3. \A i \in 1..Len(chunk) : feed'[i].no = arrived + i
  BY <1>1 DEF Numbered, Char
<1> QED
  BY <1>1, <1>2, <1>3 DEF Stream!Arrive, Transit

LEMMA TransitStep ==
  ASSUME SInv, SInv', [Next]_vars
  PROVE  [Stream!Next]_(Stream!stream)
<1> USE DEF netVars, outVars
<1>1. /\ queue \in Seq(Chars) /\ inbuf \in Seq(Chars) /\ feed \in Seq(Chars)
      /\ queue' \in Seq(Chars) /\ inbuf' \in Seq(Chars)
  BY DEF SInv, TypeOK
<1>2. OnlyTcp(inbuf) => TcpInput = inbuf
  BY DEF TcpInput, OnlyTcp
<1>3. ~OnlyTcp(inbuf) => TcpInput = <<>>
  BY DEF TcpInput, OnlyTcp
<1>4. OnlyTcp(inbuf') => TcpInput' = inbuf'
  BY DEF TcpInput, OnlyTcp, FromTcp
<1>5. ~OnlyTcp(inbuf') => TcpInput' = <<>>
  BY DEF TcpInput, OnlyTcp, FromTcp
<1>6. TcpInput \in Seq(Chars)
  <2>1. TcpInput \in {inbuf, <<>>}
    BY DEF TcpInput
  <2>2. <<>> \in Seq(Chars)
    OBVIOUS
  <2> QED
    BY <1>1, <2>1, <2>2
<1>7. CASE QueueSend
  <2>1. /\ feed # <<>> /\ queue' = Append(queue, Head(feed)) /\ inbuf' = inbuf
        /\ Head(feed) \in Chars
    BY <1>1, <1>7 DEF QueueSend
  <2>2. TcpInput' = TcpInput
    BY <1>2, <1>3, <1>4, <1>5, <2>1
  <2>3. Transit' = Append(Transit, Head(feed))
    BY <1>1, <1>6, <2>1, <2>2, AppendLast DEF Transit
  <2>4. Stream!Accept
    BY <1>7, <2>3 DEF QueueSend, Stream!Accept, Transit
  <2> QED
    BY <2>4 DEF Stream!Next
<1>8. CASE QueueReceive
  <2>1. /\ queue # <<>> /\ queue' = Tail(queue) /\ inbuf' = Append(inbuf, Head(queue))
        /\ pc = "receive" /\ pc' = "receive"
    BY <1>8 DEF QueueReceive
  <2>2. OnlyTcp(inbuf) /\ OnlyTcp(inbuf')
    BY <2>1 DEF SInv, OneSource
  <2>3. Transit' = Transit
    <3>1. Append(inbuf, Head(queue)) \o Tail(queue) = inbuf \o queue
      BY <1>1, <2>1, MoveHead
    <3>2. TcpInput = inbuf /\ TcpInput' = Append(inbuf, Head(queue))
      BY <1>2, <1>4, <2>1, <2>2
    <3> QED
      BY <2>1, <3>1, <3>2 DEF Transit
  <2> QED
    BY <1>8, <2>3 DEF QueueReceive, Stream!stream, Transit
<1>9. CASE UartRead
  <2>1. /\ queue' = queue /\ inbuf = <<>>
        /\ inbuf' = inbuf \/ \E nl \in BOOLEAN : inbuf' = <<Char(Serial, nl, arrived + 1)>>
    BY <1>9 DEF UartRead, SInv, OneSource
  <2>2. inbuf' = inbuf \/ ~OnlyTcp(inbuf')
    BY <2>1 DEF OnlyTcp, FromTcp, Char
  <2>3. TcpInput = <<>> /\ TcpInput' = <<>>
    BY <1>2, <1>3, <1>4, <1>5, <2>1, <2>2
  <2>4. Transit' = Transit
    BY <2>1, <2>3 DEF Transit
  <2> QED
    BY <1>9, <2>4 DEF UartRead, Stream!Next, Stream!Elsewhere, Stream!stream, Transit
<1>10. CASE TakeKey
  <2>1. inbuf # <<>> /\ inbuf' = Tail(inbuf) /\ queue' = queue
    BY <1>10 DEF TakeKey
  <2>2. CASE OnlyTcp(inbuf)
    <3>1. TcpInput = inbuf /\ TcpInput' = Tail(inbuf)
      BY <1>1, <1>2, <1>4, <2>1, <2>2, OnlyTcpFacts
    <3>2. Stream!Take
      BY <1>1, <1>10, <2>1, <3>1, TakeFacts DEF TakeKey, Stream!Take
    <3> QED
      BY <3>2 DEF Stream!Next
  <2>3. CASE ~OnlyTcp(inbuf)
    <3>1. Len(inbuf) = 1
      BY <2>3 DEF SInv, OneSource
    <3>2. inbuf' = <<>>
      BY <1>1, <2>1, <3>1
    <3>3. TcpInput' = <<>> /\ TcpInput = <<>>
      BY <1>3, <2>3, <3>2 DEF TcpInput
    <3> QED
      BY <1>10, <2>1, <3>3 DEF TakeKey, Stream!stream
  <2> QED
    BY <2>2, <2>3
<1>11. ASSUME NEW c \in Conns, connected(c) \/ received(c) \/ disconnected(c)
       PROVE  [Stream!Next]_(Stream!stream)
  <2>1. UNCHANGED <<queue, inbuf>> /\ feed = <<>>
    BY <1>11 DEF connected, received, disconnected, Callback
  <2>2. Transit' = Transit
    BY <1>2, <1>3, <1>4, <1>5, <2>1 DEF Transit
  <2>3. TypeOK /\ TypeOK'
    BY DEF SInv
  <2>4. CASE connected(c)
    <3>1. Stream!Arrive
      BY <2>1, <2>2, <2>3, <2>4, ArriveFacts, WelcomeFacts DEF connected
    <3> QED
      BY <3>1 DEF Stream!Next
  <2>5. CASE received(c)
    <3>1. Stream!Arrive
      BY <2>1, <2>2, <2>3, <2>5, ArriveFacts, TcpShellAssumption DEF received
    <3> QED
      BY <3>1 DEF Stream!Next
  <2>6. CASE disconnected(c)
    BY <2>2, <2>6 DEF disconnected, Stream!stream, Transit
  <2> QED
    BY <1>11, <2>4, <2>5, <2>6
<1>12. CASE QueueSendTimeout
  <2>1. Transit' = Transit
    BY <1>2, <1>3, <1>4, <1>5, <1>12 DEF QueueSendTimeout, Transit
  <2> QED
    BY <1>12, <2>1 DEF QueueSendTimeout, Stream!Next, Stream!Refuse, Transit
<1>13. CASE \/ ReadChars \/ QueueReceiveTimeout \/ ReadState
            \/ ClearConnected \/ Echo \/ Emit \/ WordDone \/ PutChar \/ PutDone
            \/ EspconnSend \/ UNCHANGED vars
  <2>1. UNCHANGED <<queue, inbuf, feed, arrived>>
    BY <1>13 DEF ReadChars, QueueReceiveTimeout, ReadState, ClearConnected, Echo, Emit,
                 WordDone, PutChar, PutDone, EspconnSend, vars
  <2>2. TcpInput' = TcpInput
    BY <1>2, <1>3, <1>4, <1>5, <2>1
  <2> QED
    BY <2>1, <2>2 DEF Stream!stream
<1> QED
  BY <1>7, <1>8, <1>9, <1>10, <1>11, <1>12, <1>13 DEF Next, Network, Feeding, Interpreter

(* The TCP input path is a lossy stream: the characters of a callback are  *)
(* queued or dropped, each in its turn, and what is queued is interpreted  *)
(* in the order of arrival and exactly once, across both buffers, for      *)
(* every queue length, however sessions and the serial line take turns.    *)
THEOREM InputImplementsStream == Spec => InputIsStream
<1>1. Init => Stream!Init
  BY DEF Init, Stream!Init, TcpInput
<1>2. IInv /\ SInv /\ [Next]_vars => IInv' /\ SInv'
  BY NextIInv, NextSInv
<1>3. SInv /\ SInv' /\ [Next]_vars => [Stream!Next]_(Stream!stream)
  BY TransitStep
<1>4. Spec => [](SInv /\ IInv)
  BY <1>2, InitIInv, InitSInv, PTL DEF Spec
<1>5. Spec => [][Stream!Next]_(Stream!stream)
  BY <1>3, <1>4, PTL DEF Spec
<1> QED
  BY <1>1, <1>5, PTL DEF InputIsStream, Stream!Spec, Spec
-----------------------------------------------------------------------------
(* Whose input there can be: the serial line's and that of sessions that   *)
(* have been opened.                                                       *)
Known == {Serial} \cup {c \in Conns : link[c] # "none"}

AllFrom(s, K) == \A i \in 1..Len(s) : s[i].src \in K
AllFor(s, K)  == \A i \in 1..Len(s) : s[i].for \in K
AllIn(s, K)   == \A i \in 1..Len(s) : s[i] \in K

NoneUnheardOf ==
  /\ AllFrom(feed, Known) /\ AllFrom(queue, Known) /\ AllFrom(inbuf, Known)
  /\ key.src \in Known
  /\ AllFor(pending, Known \cup {NULL}) /\ AllIn(stdout, Known \cup {NULL})
  /\ \A p \in sent : p[2] \in Known

EInv == NoneUnheardOf /\ EchoAtSource

(* What was known is known after any step.                                 *)
LEMMA KnownGrows ==
  ASSUME TypeOK, [Next]_vars
  PROVE  /\ Known \subseteq Known'
         /\ (\A c \in Conns : ~connected(c) /\ ~disconnected(c)) => link' = link
<1> USE DEF netVars, outVars
<1>1. CASE \E c \in Conns : connected(c) \/ received(c) \/ disconnected(c)
  BY <1>1 DEF connected, received, disconnected, Callback, Known, TypeOK
<1>2. CASE Feeding \/ Interpreter \/ UNCHANGED vars
  <2>1. link' = link
    BY <1>2 DEF Feeding, QueueSend, QueueSendTimeout, Interpreter, ReadChars, QueueReceive,
                QueueReceiveTimeout, ReadState, ClearConnected, UartRead, TakeKey, Echo,
                Emit, WordDone, PutChar, PutDone, EspconnSend, vars
  <2> QED
    BY <2>1 DEF Known
<1> QED
  BY <1>1, <1>2 DEF Next, Network

(* What a sequence of characters from K is after the steps of a buffer.    *)
LEMMA AllFromFacts ==
  ASSUME NEW K, NEW L, K \subseteq L, NEW s \in Seq(Chars), AllFrom(s, K)
  PROVE  /\ AllFrom(s, L)
         /\ s # <<>> => Head(s).src \in K /\ AllFrom(Tail(s), L)
         /\ \A e \in Chars : e.src \in L => AllFrom(Append(s, e), L)
BY DEF AllFrom

LEMMA NumberedFrom ==
  ASSUME NEW c, NEW chunk \in Seq(BOOLEAN), NEW K, c \in K
  PROVE  AllFrom(Numbered(c, chunk), K)
<1>1. Len(chunk) \in Nat
  OBVIOUS
<1>2. \A i \in 1..Len(chunk) : Numbered(c, chunk)[i].src = c
  BY <1>1 DEF Numbered, Char
<1>3. Len(Numbered(c, chunk)) = Len(chunk)
  BY <1>1 DEF Numbered
<1> QED
  BY <1>2, <1>3 DEF AllFrom

LEMMA InitEInv == Init => EInv
<1>1. /\ AllFrom(<<>>, Known) /\ AllFor(<<>>, Known \cup {NULL})
      /\ AllIn(<<>>, Known \cup {NULL})
  BY DEF AllFrom, AllFor, AllIn
<1> QED
  BY <1>1 DEF Init, EInv, NoneUnheardOf, EchoAtSource, Known, Char

(* The buffers of characters.                                              *)
LEMMA InputKnown ==
  ASSUME TypeOK, TypeOK', NoneUnheardOf, [Next]_vars
  PROVE  /\ AllFrom(feed', Known') /\ AllFrom(queue', Known') /\ AllFrom(inbuf', Known')
         /\ key'.src \in Known'
<1> USE DEF netVars, outVars
<1> DEFINE L == Known'
<1>1. /\ queue \in Seq(Chars) /\ feed \in Seq(Chars) /\ inbuf \in Seq(Chars)
      /\ queue' \in Seq(Chars) /\ feed' \in Seq(Chars) /\ inbuf' \in Seq(Chars)
  BY DEF TypeOK
<1>2. /\ AllFrom(feed, Known) /\ AllFrom(queue, Known) /\ AllFrom(inbuf, Known)
      /\ key.src \in Known /\ Known \subseteq L
  BY KnownGrows DEF NoneUnheardOf
<1>3. AllFrom(feed, L) /\ AllFrom(queue, L) /\ AllFrom(inbuf, L) /\ key.src \in L
  BY <1>1, <1>2, AllFromFacts
<1>4. AllFrom(<<>>, L)
  BY DEF AllFrom
<1>5. ASSUME NEW c \in Conns, connected(c) \/ received(c) \/ disconnected(c)
      PROVE  AllFrom(feed', L) /\ UNCHANGED <<queue, inbuf, key>>
  <2>1. UNCHANGED <<queue, inbuf, key>>
    BY <1>5 DEF connected, received, disconnected, Callback
  <2>2. CASE connected(c)
    <3>1. c \in L
      BY <2>2 DEF connected, Known, TypeOK
    <3> QED
      BY <2>1, <2>2, <3>1, NumberedFrom, WelcomeFacts DEF connected
  <2>3. CASE received(c)
    <3>1. c \in L
      BY <2>3 DEF received, Known, TypeOK
    <3> QED
      BY <2>1, <2>3, <3>1, NumberedFrom, TcpShellAssumption DEF received
  <2>4. CASE disconnected(c)
    BY <1>3, <2>1, <2>4 DEF disconnected
  <2> QED
    BY <1>5, <2>2, <2>3, <2>4
<1>6. CASE Feeding
  <2>1. /\ UNCHANGED <<inbuf, key>> /\ feed # <<>> /\ feed' = Tail(feed)
        /\ queue' \in {queue, Append(queue, Head(feed))}
    BY <1>6 DEF Feeding, QueueSend, QueueSendTimeout
  <2>2. Head(feed) \in Chars
    BY <1>1, <2>1
  <2>3. Head(feed).src \in L /\ AllFrom(feed', L)
    BY <1>1, <1>2, <2>1, AllFromFacts
  <2>4. AllFrom(queue', L)
    <3>1. AllFrom(Append(queue, Head(feed)), L)
      BY <1>1, <1>2, <2>2, <2>3, AllFromFacts
    <3> QED
      BY <1>3, <2>1, <3>1
  <2> QED
    BY <1>3, <2>1, <2>3, <2>4
<1>7. CASE QueueReceive
  <2>1. /\ queue # <<>> /\ queue' = Tail(queue) /\ inbuf' = Append(inbuf, Head(queue))
        /\ UNCHANGED <<feed, key>> /\ Head(queue) \in Chars
    BY <1>1, <1>7 DEF QueueReceive
  <2>2. Head(queue).src \in L /\ AllFrom(queue', L)
    BY <1>1, <1>2, <2>1, AllFromFacts
  <2>3. AllFrom(inbuf', L)
    BY <1>1, <1>2, <2>1, <2>2, AllFromFacts
  <2> QED
    BY <1>3, <2>1, <2>2, <2>3
<1>8. CASE UartRead
  <2>1. UNCHANGED <<feed, queue, key>>
    BY <1>8 DEF UartRead
  <2>2. CASE inbuf' = inbuf
    BY <1>3, <2>1, <2>2
  <2>3. ASSUME NEW nl \in BOOLEAN, inbuf' = Append(inbuf, Char(Serial, nl, arrived + 1))
        PROVE  AllFrom(inbuf', L)
    <3> DEFINE e == Char(Serial, nl, arrived + 1)
    <3>1. e \in Chars
      <4>1. arrived + 1 \in Nat /\ Serial \in Sources
        BY DEF TypeOK, Sources
      <4> QED
        BY <4>1, CharFacts
    <3>2. e.src \in L
      BY DEF Char, Known
    <3> HIDE DEF e
    <3>3. AllFrom(Append(inbuf, e), L)
      BY <1>1, <1>2, <3>1, <3>2, AllFromFacts
    <3> QED
      BY <2>3, <3>3 DEF e
  <2> QED
    BY <1>3, <1>8, <2>1, <2>2, <2>3 DEF UartRead
<1>9. CASE TakeKey
  <2>1. /\ inbuf # <<>> /\ key' = Head(inbuf) /\ inbuf' = Tail(inbuf)
        /\ UNCHANGED <<feed, queue>>
    BY <1>9 DEF TakeKey
  <2>2. Head(inbuf).src \in L /\ AllFrom(inbuf', L)
    BY <1>1, <1>2, <2>1, AllFromFacts
  <2> QED
    BY <1>3, <2>1, <2>2
<1>10. CASE \/ ReadChars \/ QueueReceiveTimeout \/ ReadState \/ ClearConnected \/ Echo
            \/ Emit \/ WordDone \/ PutChar \/ PutDone \/ EspconnSend \/ UNCHANGED vars
  <2>1. UNCHANGED <<feed, queue, inbuf, key>>
    BY <1>10 DEF ReadChars, QueueReceiveTimeout, ReadState, ClearConnected, Echo, Emit,
                 WordDone, PutChar, PutDone, EspconnSend, vars
  <2> QED
    BY <1>3, <2>1
<1> QED
  BY <1>3, <1>5, <1>6, <1>7, <1>8, <1>9, <1>10 DEF Next, Network, Interpreter

(* What is being put, the packet and what has been delivered.              *)
LEMMA OutputKnown ==
  ASSUME TypeOK, TypeOK', NoneUnheardOf, [Next]_vars
  PROVE  /\ AllFor(pending', Known' \cup {NULL}) /\ AllIn(stdout', Known' \cup {NULL})
         /\ \A p \in sent' : p[2] \in Known'
<1> USE DEF netVars, outVars
<1> DEFINE L == Known' \cup {NULL}
           Outs == [nl : BOOLEAN, for : Sources \cup {NULL}]
<1>1. /\ pending \in Seq(Outs) /\ stdout \in Seq(Sources \cup {NULL})
  BY DEF TypeOK
<1>2. Known \subseteq Known' /\ key.src \in Known'
  BY KnownGrows DEF NoneUnheardOf
<1>3. AllFor(pending, L) /\ AllIn(stdout, L) /\ \A p \in sent : p[2] \in Known'
  BY <1>2 DEF NoneUnheardOf, AllFor, AllIn
<1>4. AllFor(<<>>, L) /\ AllIn(<<>>, L)
  BY DEF AllFor, AllIn
<1>5. CASE Echo
  <2>1. /\ stdout' = stdout /\ pending' \in {pending, <<>>, Ok(key.src)}
        /\ sent' \in {sent, sent \cup {<<Serial, key.src>>}}
    BY <1>5 DEF Echo
  <2>2. AllFor(Ok(key.src), L)
    BY <1>2 DEF AllFor, Ok, Out
  <2>3. AllFor(pending', L)
    BY <1>3, <1>4, <2>1, <2>2
  <2>4. \A p \in sent' : p[2] \in Known'
    BY <1>2, <1>3, <2>1
  <2> QED
    BY <1>3, <2>1, <2>3, <2>4
<1>6. CASE Emit
  <2>1. /\ UNCHANGED <<stdout, sent>>
        /\ pending' = pending \/ \E nl \in BOOLEAN : pending' = <<Out(nl, NULL)>>
    BY <1>6 DEF Emit
  <2>2. AllFor(pending', L)
    BY <1>3, <2>1 DEF AllFor, Out
  <2> QED
    BY <1>3, <2>1, <2>2
<1>7. CASE PutChar
  <2>1. /\ pending # <<>> /\ sent' = sent /\ pending' = Tail(pending)
        /\ stdout' = Append(stdout, Head(pending).for)
    BY <1>7 DEF PutChar
  <2>2. AllFor(pending', L) /\ Head(pending).for \in L
    <3> HIDE DEF Outs, L
    <3> QED
      BY <1>1, <1>3, <2>1 DEF AllFor
  <2>3. AllIn(stdout', L)
    <3> HIDE DEF L
    <3> QED
      BY <1>1, <1>3, <2>1, <2>2 DEF AllIn
  <2> QED
    BY <1>3, <2>1, <2>2, <2>3
<1>8. CASE EspconnSend
  <2>1. /\ pending' = pending /\ stdout' = <<>>
        /\ \A p \in sent' : p \in sent \/ p[2] \in ToSet(stdout) \ {NULL}
    BY <1>8 DEF EspconnSend
  <2>2. ToSet(stdout) \ {NULL} \subseteq Known'
    BY <1>3 DEF AllIn, ToSet
  <2> QED
    BY <1>3, <1>4, <2>1, <2>2
<1>9. CASE \/ Network \/ ReadChars \/ QueueReceive \/ QueueReceiveTimeout \/ ReadState
           \/ ClearConnected \/ UartRead \/ TakeKey \/ WordDone \/ PutDone \/ UNCHANGED vars
  <2>1. UNCHANGED <<pending, stdout, sent>>
    BY <1>9 DEF Network, connected, received, disconnected, Callback, Feeding, QueueSend,
                QueueSendTimeout, ReadChars, QueueReceive, QueueReceiveTimeout, ReadState,
                ClearConnected, UartRead, TakeKey, WordDone, PutDone, vars
  <2> QED
    BY <1>3, <2>1
<1> QED
  BY <1>5, <1>6, <1>7, <1>8, <1>9 DEF Next, Interpreter

(* A new delivery is an echo on the serial line, made while the flag was   *)
(* down, or goes to an open session; and sessions stay opened, or closed.  *)
LEMMA NextEcho ==
  ASSUME FInv, FInv', EInv, [Next]_vars
  PROVE  EchoAtSource'
<1> USE DEF netVars, outVars
<1>1. /\ TypeOK /\ NoneUnheardOf /\ FlagFollowsSession /\ Serial \notin Conns
      /\ link \in [Conns -> {"none", "open", "closed"}]
  BY TcpShellAssumption DEF FInv, IInv, TypeOK, EInv
<1> DEFINE Kept == \A d \in Conns : /\ link[d] = "closed" => link'[d] = "closed"
                                    /\ link[d] # "none" => link'[d] # "none"
<1>2. Kept
  <2>1. ASSUME link' = link
        PROVE  Kept
    BY <2>1
  <2>2. ASSUME NEW c \in Conns, connected(c) \/ disconnected(c)
        PROVE  Kept
    BY <1>1, <2>2 DEF connected, disconnected
  <2>3. (\A c \in Conns : ~connected(c) /\ ~disconnected(c)) => link' = link
    BY <1>1, KnownGrows
  <2> HIDE DEF Kept
  <2> QED
    BY <2>1, <2>2, <2>3
<1> SUFFICES ASSUME NEW p \in sent', p[2] \in Conns, p[1] # p[2]
             PROVE  IF p[1] = Serial THEN \E d \in Conns : link'[d] = "closed"
                                     ELSE link'[p[1]] # "none"
  BY DEF EchoAtSource
<1>3. CASE p \in sent
  <2>1. p[1] \in Conns \cup {Serial}
    BY <1>1, <1>3 DEF TypeOK, Sources
  <2> QED
    BY <1>2, <1>3, <2>1 DEF EInv, EchoAtSource
<1>4. CASE p \notin sent /\ Echo
  <2>1. ~is_connected /\ p[1] = Serial /\ p[2] = key.src
    BY <1>4 DEF Echo
  <2>2. link[p[2]] # "none"
    BY <1>1, <2>1 DEF NoneUnheardOf, Known
  <2>3. link[p[2]] = "closed" \/ \E d \in Conns : link[d] = "closed"
    BY <1>1, <2>1, <2>2 DEF FlagFollowsSession
  <2> QED
    BY <1>2, <2>1, <2>3
<1>5. CASE p \notin sent /\ EspconnSend
  <2>1. link[pespconn] = "open" /\ p[1] = pespconn /\ pespconn \in Conns
    BY <1>1, <1>5 DEF EspconnSend, FInv, IInv, BuffersBounded, TypeOK
  <2> QED
    BY <1>1, <1>2, <2>1
<1>6. CASE ~(Echo \/ EspconnSend)
  <2>1. sent' = sent
    BY <1>6 DEF Next, Network, connected, received, disconnected, Callback, Feeding,
                QueueSend, QueueSendTimeout, Interpreter, ReadChars, QueueReceive,
                QueueReceiveTimeout, ReadState, ClearConnected, UartRead, TakeKey,
                Emit, WordDone, PutChar, PutDone, vars
  <2> QED
    BY <1>3, <2>1
<1> QED
  BY <1>3, <1>4, <1>5, <1>6

(* What a session typed is acknowledged to it; only when another has been  *)
(* opened can that one get it, and only when some session has closed, the  *)
(* serial line.                                                            *)
THEOREM EchoGoesToItsSource == Spec => []EchoAtSource
<1>1. Init => FInv /\ EInv
  BY InitIInv, InitEInv DEF FInv, Init, FlagFollowsSession, ClearIsClosed
<1>2. FInv /\ EInv /\ [Next]_vars => FInv' /\ EInv'
  <2> SUFFICES ASSUME FInv, EInv, [Next]_vars
               PROVE  FInv' /\ EInv'
    OBVIOUS
  <2>1. FInv'
    BY NextFInv
  <2>2. EchoAtSource'
    BY <2>1, NextEcho
  <2>3. NoneUnheardOf'
    BY <2>1, InputKnown, OutputKnown DEF FInv, IInv, EInv, NoneUnheardOf
  <2> QED
    BY <2>1, <2>2, <2>3 DEF EInv
<1>3. EInv => EchoAtSource
  BY DEF EInv
<1> QED
  BY <1>1, <1>2, <1>3, PTL DEF Spec
=============================================================================
