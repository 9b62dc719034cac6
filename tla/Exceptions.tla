----------------------------- MODULE Exceptions -----------------------------
(***************************************************************************)
(* CATCH, THROW and ABORT (forthright.f) as what they are compiled to: a   *)
(* threaded code over the primitives of esp8266.S, which work on a memory  *)
(* with the return stack and the data stack in it.  Both stacks grow       *)
(* downwards, and THROW finds its way by reading one and writing over the  *)
(* other.                                                                  *)
(*                                                                         *)
(* An address counts cells, so 4+ and 4- are one up and one down.  LIT,    *)
(* BRANCH and 0BRANCH carry their operand with them and take one cell of   *)
(* code.                                                                   *)
(***************************************************************************)
EXTENDS Integers, Sequences

CONSTANTS
  Values,        (* what a program throws; 0 throws nothing                 *)
  Returns,       (* cells of the return stack                               *)
  Room,          (* cells of the data stack below what programs use, which  *)
                 (* THROW and CATCH work in                                 *)
  MaxDepth,      (* bound: cells a program leaves on the data stack         *)
  MaxCalls       (* bound: cells of the return stack in use when it calls   *)

(* A protected call takes 4 cells of the return stack, ABORT with the      *)
(* THROW and the QUIT in it 3; THROW works in 6 cells below its argument.  *)
ASSUME ExceptionsAssumption ==
  /\ Values \subseteq Int
  /\ Room \in Nat /\ Room >= 8
  /\ MaxDepth \in Nat \ {0} /\ MaxCalls \in Nat
  /\ Returns \in Nat /\ Returns >= MaxCalls + 7

-----------------------------------------------------------------------------
(* Memory: the return stack from 0, then the data stack, then code.        *)
R0   == Returns
S0   == R0 + Room + MaxDepth              (* the data stack when it is empty *)
Data == R0..S0 - 1
Code == S0 + 10

Words == <<"marker", "catch", "throw", "abort", "quit", "user", "catching",
           "guarded", "holder">>

Stride == 50                              (* what a word has at most         *)

Xt(w) == Code + Stride * ((CHOOSE i \in 1..Len(Words) : Words[i] = w) - 1)

I(op)      == [op |-> op, arg |-> 0]
Lit(n)     == [op |-> "lit", arg |-> n]
To(op, n)  == [op |-> op, arg |-> n]
Call(w)    == [op |-> "docol", arg |-> Xt(w)]

(* : exception-marker rdrop 0 ;                                            *)
MarkerBody == <<I("rdrop"), Lit(0), I("exit")>>

(* : catch dsp@ 4+ >r ['] exception-marker 4+ >r execute ;                 *)
PushFrameWithXt ==                           (* mutant: no 4+ behind dsp@    *)
  <<I("dsp@"), I("say"), I(">r"), Lit(Xt("marker")), I("4+"), I(">r")>>

PushFrame ==
  <<I("dsp@"), I("4+"), I(">r"), Lit(Xt("marker")), I("4+"), I(">r")>>

CatchBody == PushFrame \o <<I("execute"), I("exit")>>

(* THROW.  ?dup if rsp@ begin dup r0 4- < while                            *)
ThrowLoop ==
  <<I("?dup"), To("0branch", 39), I("rsp@")>>                      (*  1..3  *)
  \o <<I("dup"), I("r0"), I("4-"), I("<"), To("0branch", 21)>>     (*  4..8  *)

(* dup @ ['] exception-marker 4+ = if                                      *)
ThrowTestXt ==                               (* mutant: looks for the xt     *)
  <<I("dup"), I("@"), Lit(Xt("marker")), I("say"), I("="), To("0branch", 13)>>

ThrowTest ==
  <<I("dup"), I("@"), Lit(Xt("marker")), I("4+"), I("="), To("0branch", 13)>>

(* 4+ rsp! dup dup dup r> 4- swap over ! dsp! exit then                    *)
ThrowResumeAtMarker ==                       (* mutant: no 4+ before rsp!    *)
  <<I("say"), I("rsp!"), I("dup"), I("dup"), I("dup"), I("r>"), I("4-")>>
  \o <<I("swap"), I("over"), I("!"), I("dsp!"), I("exit")>>

ThrowResume ==
  <<I("4+"), I("rsp!"), I("dup"), I("dup"), I("dup"), I("r>"), I("4-")>>
  \o <<I("swap"), I("over"), I("!"), I("dsp!"), I("exit")>>        (* 15..26 *)

(* 4+ repeat                                                               *)
ThrowStays == <<I("say"), To("branch", -24)>>            (* mutant: no 4+    *)

ThrowNext == <<I("4+"), To("branch", -24)>>                        (* 27..28 *)

(* drop case 0 1- of ... endof ... endcase quit then                       *)
ThrowUncaught ==
  <<I("drop"), Lit(0), I("1-"), I("over"), I("="), To("0branch", 4)>>
  \o <<I("drop"), I("say"), To("branch", 3), I("say"), I("drop")>>
  \o <<Call("quit"), I("exit")>>                                   (* 29..41 *)

ThrowBody == ThrowLoop \o ThrowTest \o ThrowResume \o ThrowNext \o ThrowUncaught

AbortBody == <<Lit(0), I("1-"), Call("throw"), I("exit")>>

QuitBody == <<I("r0"), I("rsp!"), I("interpret"), To("branch", -1)>>

(* Programs.  User does anything; catching is ['] user catch; guarded is   *)
(* catching with CATCH written out and user called by name, the protected  *)
(* call that does without EXECUTE; holder keeps a value on the return      *)
(* stack meanwhile.                                                        *)
Body == [marker   |-> MarkerBody,
         catch    |-> CatchBody,
         throw    |-> ThrowBody,
         abort    |-> AbortBody,
         quit     |-> QuitBody,
         user     |-> <<I("anything")>>,
         catching |-> <<Lit(Xt("user")), Call("catch"), I("exit")>>,
         guarded  |-> <<Lit(Xt("user"))>> \o PushFrame
                        \o <<I("drop"), Call("user"), I("exit")>>,
         holder   |-> <<I(">r"), Call("user"), I("r>"), I("exit")>>]

(* The body starts one cell behind the codeword.                           *)
In(w)      == Xt(w) + 1..Xt(w) + Len(Body[w])
CodeCells  == UNION {In(Words[i]) : i \in 1..Len(Words)}
WordAt(a)  == Words[(a - Code) \div Stride + 1]
CellAt(a)  == Body[WordAt(a)][(a - Code) % Stride]

MarkerIp   == Xt("marker") + 1            (* what THROW looks for            *)

VARIABLES
  mem,           (* the cells of both stacks                                *)
  rsp, dsp, ip,  (* a13, a15, a14                                           *)
  mode,          (* "run", or "crashed" by a wild jump or access            *)
  frames,        (* history: the protected calls that are not over          *)
  thrown         (* history: what THROW is at work on, and where it was     *)

vars == <<mem, rsp, dsp, ip, mode, frames, thrown>>

Nothing == [e |-> 0, at |-> S0]

Init ==
  /\ mem = [a \in 0..S0 |-> 0]
  /\ rsp = R0 /\ dsp = S0
  /\ ip = Xt("quit") + 3
  /\ mode = "run"
  /\ frames = <<>> /\ thrown = Nothing

-----------------------------------------------------------------------------
(* NEXT: the primitive at a14 runs, and a14 is one further.                *)
Op(o) == mode = "run" /\ CellAt(ip).op = o

Arg  == CellAt(ip).arg
Top  == mem[dsp]
Flag(b) == IF b THEN -1 ELSE 0

Set(a, v)  == mem' = [mem EXCEPT ![a] = v]
Push(v)    == dsp' = dsp - 1 /\ Set(dsp - 1, v)
Replace(v) == Set(dsp, v) /\ UNCHANGED dsp            (* WRITETOSX          *)
Reduce(v)  == dsp' = dsp + 1 /\ Set(dsp + 1, v)       (* two cells to one   *)

Onward  == ip' = ip + 1 /\ UNCHANGED <<mode, frames, thrown>>
OnData  == Onward /\ UNCHANGED rsp

(* The protected calls that go on when the return stack has come up to r.  *)
Inside(r) == SelectSeq(frames, LAMBDA f : f.rsp > r)

-----------------------------------------------------------------------------
(* Data stack.                                                             *)
Dup  == Op("dup") /\ Push(Top) /\ OnData
QDup == Op("?dup") /\ (IF Top # 0 THEN Push(Top) ELSE UNCHANGED <<mem, dsp>>) /\ OnData
Over == Op("over") /\ Push(mem[dsp + 1]) /\ OnData
Drop == Op("drop") /\ dsp' = dsp + 1 /\ UNCHANGED mem /\ OnData
Swap == Op("swap") /\ mem' = [mem EXCEPT ![dsp] = mem[dsp + 1], ![dsp + 1] = Top]
                   /\ UNCHANGED dsp /\ OnData

LitWord == Op("lit") /\ Push(Arg) /\ OnData
Incr4   == Op("4+") /\ Replace(Top + 1) /\ OnData
Decr4   == Op("4-") /\ Replace(Top - 1) /\ OnData
Decr    == Op("1-") /\ Replace(Top - 1) /\ OnData
Lt      == Op("<") /\ Reduce(Flag(mem[dsp + 1] < Top)) /\ OnData
Equ     == Op("=") /\ Reduce(Flag(mem[dsp + 1] = Top)) /\ OnData

Fetch == Op("@") /\ Replace(mem[Top]) /\ OnData
Store == Op("!") /\ Set(Top, mem[dsp + 1]) /\ dsp' = dsp + 2 /\ OnData

(* Return stack.                                                           *)
RZero    == Op("r0") /\ Push(R0) /\ OnData
RspFetch == Op("rsp@") /\ Push(rsp) /\ OnData

FromR == Op("r>") /\ Push(mem[rsp]) /\ rsp' = rsp + 1 /\ Onward
RDrop == Op("rdrop") /\ rsp' = rsp + 1 /\ UNCHANGED <<mem, dsp>> /\ Onward

(* What goes there with the marker on top is a protected call; its         *)
(* execution token still lies below the marker.                            *)
ToR ==
  /\ Op(">r")
  /\ Set(rsp - 1, Top) /\ rsp' = rsp - 1 /\ dsp' = dsp + 1
  /\ frames' = IF Top # MarkerIp THEN frames
               ELSE Append(frames, [dsp |-> dsp + 2, ret |-> mem[rsp + 1],
                                    rsp |-> rsp + 2])
  /\ ip' = ip + 1 /\ UNCHANGED <<mode, thrown>>

(* rsp! in THROW leaves the frame's own cells; in QUIT it ends everything. *)
RspStore ==
  /\ Op("rsp!")
  /\ rsp' = Top /\ dsp' = dsp + 1
  /\ frames' = Inside(rsp')
  /\ thrown' = IF WordAt(ip) = "quit" THEN Nothing ELSE thrown
  /\ ip' = ip + 1 /\ UNCHANGED <<mem, mode>>

DspFetch == Op("dsp@") /\ Push(dsp) /\ OnData

(* A data stack pointer that is not an address of the stack is the end:    *)
(* the next access through it faults.                                      *)
DspStore ==
  /\ Op("dsp!")
  /\ dsp' = Top
  /\ mode' = IF Top \in Data THEN "run" ELSE "crashed"
  /\ ip' = ip + 1 /\ UNCHANGED <<mem, rsp, frames, thrown>>

-----------------------------------------------------------------------------
(* Control.                                                                *)
Branch == Op("branch") /\ ip' = ip + Arg
                       /\ UNCHANGED <<mem, rsp, dsp, mode, frames, thrown>>

ZBranch == Op("0branch") /\ ip' = ip + (IF Top = 0 THEN Arg ELSE 1) /\ dsp' = dsp + 1
                         /\ UNCHANGED <<mem, rsp, mode, frames, thrown>>

(* DOCOL of the word with this codeword, to come back to back.             *)
Enter(xt, back) ==
  /\ Set(rsp - 1, back) /\ rsp' = rsp - 1
  /\ ip' = xt + 1
  /\ thrown' = IF xt = Xt("throw") THEN [e |-> Top, at |-> dsp] ELSE thrown
  /\ UNCHANGED <<dsp, mode, frames>>

Docol == Op("docol") /\ Enter(Arg, ip + 1)

Exit ==
  /\ Op("exit")
  /\ ip' = mem[rsp] /\ rsp' = rsp + 1
  /\ frames' = Inside(rsp')
  /\ thrown' = IF WordAt(ip) = "throw" THEN Nothing ELSE thrown
  /\ UNCHANGED <<mem, dsp, mode>>

(* Text on the terminal.                                                   *)
Say == Op("say") /\ UNCHANGED <<mem, dsp>> /\ OnData

(* NEXT leaves EXECUTE's own token in a8, and EXECUTE starts by storing    *)
(* it over the one it was given.  So it runs itself, with the address of   *)
(* its code in a8; that goes over the next cell and comes back, and the    *)
(* first bytes of the code are taken for an address to jump to.            *)
ExecuteXt   == Code - 1
ExecuteCode == Code - 2

Execute ==
  /\ Op("execute")
  /\ mem' = [mem EXCEPT ![dsp] = ExecuteXt, ![dsp + 1] = ExecuteCode]
  /\ dsp' = dsp + 2
  /\ mode' = "crashed"
  /\ UNCHANGED <<rsp, ip, frames, thrown>>

-----------------------------------------------------------------------------
(* What a program, or a line at the prompt, does.                          *)
Depth == S0 - dsp

Program == mode = "run" /\ CellAt(ip).op \in {"anything", "interpret"}

(* Behind INTERPRET there is QUIT's branch.                                *)
Behind == IF CellAt(ip).op = "interpret" THEN ip + 1 ELSE ip

Continue == ip' = Behind /\ UNCHANGED <<rsp, mode, frames, thrown>>

Literal == Program /\ Depth < MaxDepth /\ (\E v \in Values : Push(v)) /\ Continue

Consume == Program /\ Depth > 0 /\ dsp' = dsp + 1 /\ UNCHANGED mem /\ Continue

CallWord ==
  /\ Program /\ Depth <= MaxDepth /\ R0 - rsp <= MaxCalls
  /\ \E w \in {"user", "guarded", "catching"} : Enter(Xt(w), Behind)

CallHolder ==
  /\ Program /\ Depth > 0 /\ R0 - rsp <= MaxCalls
  /\ Enter(Xt("holder"), Behind)

CallThrow == Program /\ Depth > 0 /\ Enter(Xt("throw"), Behind)

CallAbort == Program /\ Enter(Xt("abort"), Behind)

Return ==
  /\ mode = "run" /\ CellAt(ip).op = "anything"
  /\ ip' = mem[rsp] /\ rsp' = rsp + 1
  /\ UNCHANGED <<mem, dsp, mode, frames, thrown>>

DataWords   == Dup \/ QDup \/ Over \/ Drop \/ Swap \/ LitWord \/ Incr4 \/ Decr4
               \/ Decr \/ Lt \/ Equ \/ Fetch \/ Store
ReturnWords == RZero \/ RspFetch \/ FromR \/ RDrop \/ ToR \/ RspStore
Control     == DspFetch \/ DspStore \/ Branch \/ ZBranch \/ Docol \/ Exit \/ Say
               \/ Execute

Machine  == DataWords \/ ReturnWords \/ Control
Programs == Literal \/ Consume \/ CallWord \/ CallHolder \/ CallThrow
            \/ CallAbort \/ Return

Next == Machine \/ Programs

(* The processor goes on; a program need not.                              *)
Spec == Init /\ [][Next]_vars /\ WF_vars(Machine)

-----------------------------------------------------------------------------
Cell(w, n) == Xt(w) + n

Uncaught == ip \in Cell("throw", 29)..Cell("throw", 40)

(* THROW gives up, with a message and QUIT, only when nothing protects it. *)
UncaughtOnlyOutside == Uncaught => frames = <<>>

(* A protected call comes back to its caller with the return stack as it   *)
(* was: with 0 on top when the word returned, with what was thrown on top  *)
(* of as many cells as there were when something was thrown inside, at     *)
(* whatever depth of calls and of either stack.                            *)
ProtectedCallReturns ==
  [][/\ ip = Cell("marker", 3) /\ ip' # ip =>
          LET f == frames[Len(frames)]
          IN ip' = f.ret /\ rsp' = f.rsp /\ mem'[dsp'] = 0
     /\ ip = Cell("throw", 26) /\ ip' # ip =>
          LET f == frames[Len(frames)]
          IN /\ ip' = f.ret /\ rsp' = f.rsp
             /\ dsp' = f.dsp - 1 /\ mem'[dsp'] = thrown.e
             /\ Len(frames') = Len(frames) - 1]_vars

(* Nothing but EXECUTE, or a THROW whose argument is three cells above     *)
(* where it is to go, brings the system down.                              *)
CrashesKnown ==
  mode = "crashed" =>
    \/ CellAt(ip).op = "execute"
    \/ thrown.at = frames[Len(frames)].dsp + 2

(* A THROW ends: caught, uncaught, or in a crash.                          *)
ThrowEnds == thrown.e # 0 ~> (thrown.e = 0 \/ mode = "crashed")

(* "CATCH runs an execution token": "after xt runs its NEXT will continue  *)
(* executing the current word".                                            *)
ExecuteContinues == ~(mode = "crashed" /\ CellAt(ip).op = "execute")
=============================================================================
