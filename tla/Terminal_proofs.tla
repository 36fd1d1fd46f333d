--------------------------- MODULE Terminal_proofs --------------------------
(***************************************************************************)
(* Proofs about Terminal.tla, for every capacity of the resize channel and *)
(* any number of frames and chunks of output.                              *)
(***************************************************************************)
EXTENDS Terminal, SequenceTheorems, TLAPS

(* The frames the server has read; the inbox is the rest of what was sent. *)
Read == Len(sent) - Len(inbox)

InboxOK ==
  /\ Len(inbox) <= Len(sent)
  /\ \A i \in DOMAIN sent : sent[i].n = i
  /\ \A i \in DOMAIN inbox : inbox[i] = sent[Read + i]

(* The goroutines live in a session in one order: before the stream is up  *)
(* there is no shell, and while it is up the handler is in Exec.           *)
PhaseOK ==
  /\ handler \in {"validate", "dial"} => shell.state = "none"
  /\ handler = "exec" => shell.state # "none"
  /\ shell.state = "none" =>
       shell.input = <<>> /\ copier.pc = "none" /\ output = 0
  /\ shell.state = "running" => handler = "exec" /\ copier.pc # "none"
  /\ handler = "validate" => reader.pc = "none"
  /\ reader.pc = "none" => handler \in {"validate", "done"}
  /\ handler \in {"validate", "dial", "exec"} => socket # "closed"

(* While it is up only readLoop closes the pipe, when all was read.        *)
EndOK ==
  /\ reader.pc = "done" => pipeClosed
  /\ handler \in {"validate", "dial", "exec"} =>
       /\ pipeClosed => reader.pc = "done"
       /\ reader.pc \in {"closeQueue", "closeStdin", "done"} =>
            socket = "left" /\ inbox = <<>>
  /\ shell.eof => copier.pc = "done"
  /\ shell.state = "running" /\ copier.pc = "done" => pipeClosed

(* What was typed is on its way through the pipe in the order it was read, *)
(* and nothing of it is lost before the shell is over or never started.    *)
Flowing == handler \in {"validate", "dial"} \/ shell.state = "running"

StagesOK ==
  /\ copier.pc = "send" => copier.chunk \in Typed /\ copier.chunk <= Read
  /\ reader.pc = "write" => reader.chunk \in Typed /\ reader.chunk <= Read
  /\ \A n \in Taken : n \in Typed /\ n <= Read

OrderOK ==
  /\ \A i, j \in DOMAIN shell.input : i < j => shell.input[i] < shell.input[j]
  /\ \A n \in Taken, m \in Typed : m < n => m \in Taken

FlowOK ==
  Flowing =>
    /\ copier.pc = "send" => \A n \in Taken : n < copier.chunk
    /\ reader.pc = "write" =>
         /\ \A n \in Taken : n < reader.chunk
         /\ copier.pc = "send" => copier.chunk < reader.chunk
    /\ \A n \in Typed : n <= Read =>
         \/ n \in Taken
         \/ copier.pc = "send" /\ n = copier.chunk
         \/ reader.pc = "write" /\ n = reader.chunk

PipeOK == StagesOK /\ OrderOK /\ FlowOK

(* The last resize that was not dropped is the last in the queue, or the   *)
(* size the shell has.                                                     *)
Latest == IF queue = <<>> THEN shell.size ELSE queue[Len(queue)]

SizeOK ==
  ~ dropped =>
    /\ Latest = 0 \/ (Latest \in Sizes /\ Latest <= Read)
    /\ \A n \in Sizes : n <= Read => n <= Latest

(* The exit message is the handler's last, and nothing else is written.    *)
ScreenOK ==
  (\E i \in DOMAIN screen : screen[i] = "exit") =>
    handler \in {"close", "done"}
SilentOK == handler \in {"close", "done"} => output = 0 /\ shell.state # "running"

IInv ==
  /\ TypeOK /\ InboxOK /\ PhaseOK /\ EndOK /\ PipeOK /\ SizeOK
  /\ ScreenOK /\ SilentOK /\ ExitIsLast
-----------------------------------------------------------------------------
(* The type invariant in parts.                                            *)

BrowserType ==
  /\ sent \in Seq(Frames)
  /\ socket \in {"open", "left", "closed"}
  /\ inbox \in Seq(Frames)
  /\ screen \in Seq({"stdout", "error", "exit"})

GoroutineType ==
  /\ handler \in {"validate", "dial", "exec", "close", "done"}
  /\ reader \in [pc : {"none", "read", "write", "closeQueue", "closeStdin", "done"},
                 chunk : 0 .. MaxFrames]
  /\ copier \in [pc : {"none", "read", "send", "done"}, chunk : 0 .. MaxFrames]
  /\ sizer \in {"none", "next", "done"}

ShellType ==
  [state : {"none", "running", "exited"}, input : Seq(1 .. MaxFrames),
   eof : BOOLEAN, size : 0 .. MaxFrames]

StreamType ==
  /\ queue \in Seq(1 .. MaxFrames) /\ Len(queue) <= QueueSize
  /\ shell \in [state : {"none", "running", "exited"}, input : Seq(1 .. MaxFrames),
                eof : BOOLEAN, size : 0 .. MaxFrames]
  /\ output \in 0 .. MaxOutput

FlagType == pipeClosed \in BOOLEAN /\ queueClosed \in BOOLEAN /\ dropped \in BOOLEAN

LEMMA TypeParts ==
  TypeOK <=> BrowserType /\ GoroutineType /\ StreamType /\ FlagType
BY DEF TypeOK, BrowserType, GoroutineType, StreamType, FlagType

-----------------------------------------------------------------------------
(* Initially.                                                              *)

LEMMA InitIInv == Init => IInv
<1> SUFFICES ASSUME Init PROVE IInv
  OBVIOUS
<1> USE TerminalAssumption DEF Init
<1>1. TypeOK
  <2>1. BrowserType /\ GoroutineType
    BY DEF BrowserType, GoroutineType
  <2>2. StreamType
    BY DEF StreamType
  <2>3. FlagType
    BY DEF FlagType
  <2> QED BY <2>1, <2>2, <2>3, TypeParts
<1>2. InboxOK /\ PhaseOK /\ EndOK
  BY DEF InboxOK, PhaseOK, EndOK
<1>3. PipeOK
  BY DEF PipeOK, StagesOK, OrderOK, FlowOK, Taken, Typed, Read
<1>4. SizeOK
  BY DEF SizeOK, Latest, Sizes
<1>5. ScreenOK /\ SilentOK /\ ExitIsLast
  BY DEF ScreenOK, SilentOK, ExitIsLast
<1> QED BY <1>1, <1>2, <1>3, <1>4, <1>5 DEF IInv

-----------------------------------------------------------------------------
(* Types.                                                                  *)

LEMMA SayType ==
  ASSUME BrowserType,
         NEW m \in {<<"stdout">>, <<"exit">>, <<"error", "exit">>}, Say(m)
  PROVE  screen' \in Seq({"stdout", "error", "exit"})
<1>1. m \in Seq({"stdout", "error", "exit"})
  OBVIOUS
<1> QED BY <1>1 DEF Say, BrowserType

LEMMA HeadType ==
  ASSUME BrowserType, inbox # <<>>
  PROVE  /\ Head(inbox) \in Frames /\ Head(inbox).n \in 1 .. MaxFrames
         /\ Tail(inbox) \in Seq(Frames)
<1>1. Head(inbox) \in Frames /\ Tail(inbox) \in Seq(Frames)
  BY DEF BrowserType
<1> QED BY <1>1 DEF Frames

LEMMA BrowserTypeStep ==
  ASSUME TypeOK, InboxOK, [Next]_vars
  PROVE  BrowserType'
<1> USE TypeParts
    DEF browserVars, resizeVars, readLoopVars, outVars, streamVars, BrowserType
<1>1. ASSUME NEW type \in {"stdin", "resize", "other"}, Send(type)
      PROVE  BrowserType'
  <2>1. [type |-> type, n |-> Len(sent) + 1] \in Frames
    BY <1>1, TerminalAssumption DEF Frames, Send
  <2> QED BY <1>1, <2>1 DEF Send
<1>2. CASE Leave
  BY <1>2 DEF Leave, InboxOK
<1>3. CASE ReadFrame
  BY <1>3, HeadType DEF ReadFrame
<1>9. CASE ReadEnds \/ CloseQueue \/ CloseStdin
  BY <1>9 DEF ReadEnds, CloseQueue, CloseStdin
<1>4. CASE Copy \/ CopyEnds \/ ShellReads \/ Resize \/ SizerEnds \/ ShellPrints \/ ShellExits
  BY <1>4 DEF Copy, CopyEnds, ShellReads, Resize, SizerEnds, ShellPrints, ShellExits
<1>5. CASE Write \/ Finish \/ DialFails
  <2>1. screen' \in Seq({"stdout", "error", "exit"})
    BY <1>5, SayType DEF Write, Finish, DialFails
  <2> QED BY <1>5, <2>1 DEF Write, Finish, DialFails
<1>6. CASE Refuse
  <2>1. screen' \in Seq({"stdout", "error", "exit"})
    BY <1>6, SayType DEF Refuse
  <2> QED BY <1>6, <2>1 DEF Refuse
<1>7. CASE StartReading \/ Attach \/ Close
  BY <1>7 DEF StartReading, Attach, Close
<1>8. CASE UNCHANGED vars
  BY <1>8 DEF vars
<1> QED BY <1>1, <1>2, <1>3, <1>4, <1>5, <1>6, <1>7, <1>8, <1>9
        DEF Next, Handler, ReadLoop

LEMMA GoroutineTypeStep ==
  ASSUME TypeOK, [Next]_vars
  PROVE  GoroutineType'
<1> USE TypeParts, TerminalAssumption
    DEF browserVars, resizeVars, readLoopVars, outVars, streamVars, GoroutineType
<1>1. ASSUME NEW type \in {"stdin", "resize", "other"}, Send(type)
      PROVE  GoroutineType'
  BY <1>1 DEF Send
<1>2. CASE Leave \/ Resize \/ Write \/ ShellPrints \/ ShellExits
  BY <1>2 DEF Leave, Resize, Write, ShellPrints, ShellExits
<1>3. CASE ReadFrame
  <2>1. Head(inbox).n \in 1 .. MaxFrames
    BY <1>3, HeadType DEF ReadFrame
  <2> QED BY <1>3, <2>1 DEF ReadFrame
<1>4. CASE ReadEnds \/ CloseQueue \/ CloseStdin
  BY <1>4 DEF ReadEnds, CloseQueue, CloseStdin
<1>5. CASE Copy \/ CopyEnds \/ ShellReads \/ SizerEnds
  BY <1>5 DEF Copy, CopyEnds, ShellReads, SizerEnds
<1>6. CASE Handler
  BY <1>6 DEF Handler, Refuse, StartReading, Attach, DialFails, Finish, Close
<1>7. CASE UNCHANGED vars
  BY <1>7 DEF vars
<1> QED BY <1>1, <1>2, <1>3, <1>4, <1>5, <1>6, <1>7 DEF Next, ReadLoop

LEMMA QueueAppend ==
  ASSUME queue \in Seq(1 .. MaxFrames), Len(queue) < QueueSize,
         NEW n \in 1 .. MaxFrames
  PROVE  /\ Append(queue, n) \in Seq(1 .. MaxFrames)
         /\ Len(Append(queue, n)) <= QueueSize
BY TerminalAssumption

LEMMA StreamTypeStep ==
  ASSUME TypeOK, PipeOK, [Next]_vars
  PROVE  StreamType'
<1> USE TypeParts, TerminalAssumption
    DEF browserVars, resizeVars, readLoopVars, outVars, streamVars, StreamType
<1>1. ASSUME NEW type \in {"stdin", "resize", "other"}, Send(type)
      PROVE  StreamType'
  BY <1>1 DEF Send
<1>2. CASE Leave \/ ReadEnds \/ CloseQueue \/ CloseStdin \/ Copy \/ SizerEnds
  BY <1>2 DEF Leave, ReadEnds, CloseQueue, CloseStdin, Copy, SizerEnds
<1>3. CASE ReadFrame
  <2>1. Head(inbox).n \in 1 .. MaxFrames
    BY <1>3, HeadType DEF ReadFrame
  <2>2. \/ queue' = queue
        \/ Len(queue) < QueueSize /\ queue' = Append(queue, Head(inbox).n)
    BY <1>3 DEF ReadFrame, Room
  <2>3. queue' \in Seq(1 .. MaxFrames) /\ Len(queue') <= QueueSize
    BY <2>1, <2>2, QueueAppend
  <2>4. shell' = shell /\ output' = output
    BY <1>3 DEF ReadFrame
  <2> QED BY <2>3, <2>4
<1>4. CASE ShellPrints \/ Write
  BY <1>4 DEF ShellPrints, Write
<1>9. CASE CopyEnds
  BY <1>9 DEF CopyEnds
<1>10. CASE ShellExits
  <2>1. /\ shell' = [shell EXCEPT !.state = "exited"]
        /\ queue' = queue /\ output' \in {output, 0}
    BY <1>10 DEF ShellExits
  <2>2. shell \in ShellType /\ output \in 0 .. MaxOutput /\ 0 \in 0 .. MaxOutput
    BY DEF ShellType
  <2>3. shell' \in ShellType
    BY ONLY <2>1, <2>2 DEF ShellType
  <2> QED BY <2>1, <2>2, <2>3 DEF ShellType
<1>5. CASE ShellReads
  <2>1. copier.chunk \in 1 .. MaxFrames
    BY <1>5 DEF PipeOK, StagesOK, Typed, ShellReads, BrowserType, GoroutineType
  <2>2. Append(shell.input, copier.chunk) \in Seq(1 .. MaxFrames)
    BY <2>1
  <2>3. /\ shell' = [shell EXCEPT !.input = Append(shell.input, copier.chunk)]
        /\ queue' = queue /\ output' = output
    BY <1>5 DEF ShellReads
  <2> QED BY <2>2, <2>3
<1>6. CASE Resize
  <2>1. /\ Head(queue) \in 1 .. MaxFrames /\ Tail(queue) \in Seq(1 .. MaxFrames)
        /\ Len(Tail(queue)) <= QueueSize
    BY <1>6 DEF Resize
  <2>2. shell' = [shell EXCEPT !.size = Head(queue)] /\ queue' = Tail(queue)
    BY <1>6 DEF Resize
  <2>3. output' = output
    BY <1>6 DEF Resize
  <2>4. shell' \in ShellType
    <3>1. shell \in ShellType /\ Head(queue) \in 0 .. MaxFrames
      BY <2>1 DEF ShellType
    <3> QED BY ONLY <2>2, <3>1 DEF ShellType
  <2>5. queue' \in Seq(1 .. MaxFrames) /\ Len(queue') <= QueueSize
    BY ONLY <2>1, <2>2
  <2> QED BY <2>3, <2>4, <2>5 DEF ShellType
<1>7. CASE Handler
  BY <1>7 DEF Handler, Refuse, StartReading, Attach, DialFails, Finish, Close
<1>8. CASE UNCHANGED vars
  BY <1>8 DEF vars
<1> QED BY <1>1, <1>2, <1>3, <1>4, <1>5, <1>6, <1>7, <1>8, <1>9, <1>10
        DEF Next, ReadLoop

LEMMA FlagTypeStep ==
  ASSUME TypeOK, [Next]_vars
  PROVE  FlagType'
<1> USE TypeParts
    DEF browserVars, resizeVars, readLoopVars, streamVars, FlagType
<1>1. ASSUME NEW type \in {"stdin", "resize", "other"}, Send(type)
      PROVE  FlagType'
  BY <1>1 DEF Send
<1>2. CASE ReadFrame
  BY <1>2 DEF ReadFrame
<1>3. CASE ReadEnds \/ CloseQueue \/ CloseStdin
  BY <1>3 DEF ReadEnds, CloseQueue, CloseStdin
<1>4. CASE Leave \/ Copy \/ CopyEnds \/ ShellReads \/ ShellPrints \/ ShellExits
  BY <1>4 DEF Leave, Copy, CopyEnds, ShellReads, ShellPrints, ShellExits
<1>5. CASE Resize \/ SizerEnds \/ Write
  BY <1>5 DEF Resize, SizerEnds, Write
<1>6. CASE Handler
  BY <1>6 DEF Handler, Refuse, StartReading, Attach, DialFails, Finish, Close
<1>7. CASE UNCHANGED vars
  BY <1>7 DEF vars
<1> QED BY <1>1, <1>2, <1>3, <1>4, <1>5, <1>6, <1>7 DEF Next, ReadLoop

LEMMA TypeStep == TypeOK /\ InboxOK /\ PipeOK /\ [Next]_vars => TypeOK'
<1> SUFFICES ASSUME TypeOK, InboxOK, PipeOK, [Next]_vars PROVE TypeOK'
  OBVIOUS
<1>1. (TypeOK <=> BrowserType /\ GoroutineType /\ StreamType /\ FlagType)'
  BY TypeParts, PTL
<1> QED BY <1>1, BrowserTypeStep, GoroutineTypeStep, StreamTypeStep, FlagTypeStep
-----------------------------------------------------------------------------
(* The inbox and what the server has read of what was sent.                *)

LEMMA InboxStep ==
  ASSUME TypeOK, InboxOK, [Next]_vars
  PROVE  /\ InboxOK'
         /\ Read \in Nat
         /\ \A n \in 1 .. Read : n \in DOMAIN sent' /\ sent'[n] = sent[n]
         /\ ReadFrame => sent' = sent /\ Read' = Read + 1
         /\ ~ ReadFrame => Read' = Read
<1> USE TypeParts DEF Read, InboxOK, BrowserType
<1>1. ASSUME NEW type \in {"stdin", "resize", "other"}, Send(type)
      PROVE  /\ InboxOK' /\ ~ ReadFrame /\ Read' = Read
             /\ \A n \in 1 .. Read : n \in DOMAIN sent' /\ sent'[n] = sent[n]
  <2> DEFINE frame == [type |-> type, n |-> Len(sent) + 1]
  <2>1. sent' = Append(sent, frame) /\ inbox' = Append(inbox, frame)
    BY <1>1 DEF Send
  <2>2. ~ ReadFrame
    BY <1>1, <2>1 DEF Send, ReadFrame
  <2> QED BY <2>1, <2>2
<1>2. CASE Leave
  <2>1. PICK lost \in 0 .. Len(inbox) :
          /\ inbox' = SubSeq(inbox, 1, Len(inbox) - lost)
          /\ sent' = SubSeq(sent, 1, Len(sent) - lost)
    BY <1>2 DEF Leave
  <2>2. ~ ReadFrame
    BY <1>2 DEF Leave, ReadFrame
  <2>3. /\ Len(inbox') = Len(inbox) - lost
        /\ \A i \in DOMAIN inbox' : i \in DOMAIN inbox /\ inbox'[i] = inbox[i]
    BY <2>1
  <2>4. /\ Len(sent') = Len(sent) - lost
        /\ \A i \in DOMAIN sent' : i \in DOMAIN sent /\ sent'[i] = sent[i]
        /\ DOMAIN sent' = 1 .. Len(sent')
    BY <2>1
  <2>5. \A i \in DOMAIN inbox' : Len(sent) - Len(inbox) + i \in DOMAIN sent'
    BY <2>1, <2>3, <2>4
  <2>6. InboxOK'
    BY <2>3, <2>4, <2>5
  <2>7. Len(sent) \in Nat /\ Len(inbox) \in Nat /\ Len(inbox) <= Len(sent)
    OBVIOUS
  <2>8. Read' = Read /\ Read \in Nat /\ Read <= Len(sent')
    BY <2>3, <2>4, <2>7
  <2>9. ASSUME NEW n \in 1 .. Read PROVE n \in DOMAIN sent' /\ sent'[n] = sent[n]
    <3>1. Len(sent') \in Nat /\ n \in 1 .. Len(sent')
      BY <2>1, <2>7, <2>8
    <3> QED BY <2>4, <3>1
  <2> QED BY <2>2, <2>6, <2>8, <2>9
<1>3. CASE ReadFrame
  <2>1. sent' = sent /\ inbox' = Tail(inbox) /\ inbox # <<>>
    BY <1>3 DEF ReadFrame
  <2>2. /\ Len(inbox') = Len(inbox) - 1
        /\ \A i \in DOMAIN inbox' : i + 1 \in DOMAIN inbox /\ inbox'[i] = inbox[i + 1]
    BY <2>1
  <2> QED BY <1>3, <2>1, <2>2
<1>4. CASE ~ ReadFrame /\ UNCHANGED <<sent, inbox>>
  BY <1>4
<1>5. ReadFrame \/ Leave \/ UNCHANGED <<sent, inbox>>
        \/ \E type \in {"stdin", "resize", "other"} : Send(type)
  BY DEF Next, ReadLoop, ReadEnds, CloseQueue, CloseStdin, Copy, CopyEnds, Resize,
         SizerEnds, Write, ShellReads, ShellPrints, ShellExits, Handler, Refuse,
         StartReading, Attach, DialFails, Finish, Close, vars, browserVars
<1> QED BY <1>1, <1>2, <1>3, <1>4, <1>5
-----------------------------------------------------------------------------
(* Who is still there.                                                     *)

LEMMA PhaseStep ==
  ASSUME TypeOK, PhaseOK, [Next]_vars
  PROVE  PhaseOK'
<1> USE TypeParts
    DEF browserVars, resizeVars, readLoopVars, outVars, streamVars, PhaseOK,
        GoroutineType, StreamType
<1>1. ASSUME NEW type \in {"stdin", "resize", "other"}, Send(type)
      PROVE  PhaseOK'
  BY <1>1 DEF Send
<1>2. CASE Leave
  BY <1>2 DEF Leave
<1>3. CASE ReadFrame
  BY <1>3 DEF ReadFrame
<1>4. CASE ReadEnds \/ CloseQueue \/ CloseStdin
  BY <1>4 DEF ReadEnds, CloseQueue, CloseStdin
<1>5. CASE Copy \/ CopyEnds
  BY <1>5 DEF Copy, CopyEnds
<1>6. CASE Resize \/ SizerEnds \/ Write
  BY <1>6 DEF Resize, SizerEnds, Write
<1>7. CASE ShellReads \/ ShellPrints \/ ShellExits
  BY <1>7 DEF ShellReads, ShellPrints, ShellExits
<1>8. CASE Refuse
  BY <1>8 DEF Refuse
<1>11. CASE StartReading
  BY <1>11 DEF StartReading
<1>12. CASE Attach
  BY <1>12 DEF Attach
<1>9. CASE DialFails \/ Finish \/ Close
  BY <1>9 DEF DialFails, Finish, Close
<1>10. CASE UNCHANGED vars
  BY <1>10 DEF vars
<1> QED BY <1>1, <1>2, <1>3, <1>4, <1>5, <1>6, <1>7, <1>8, <1>9, <1>10,
           <1>11, <1>12
        DEF Next, ReadLoop, Handler

LEMMA EndStep ==
  ASSUME TypeOK, PhaseOK, EndOK, [Next]_vars
  PROVE  EndOK'
<1> USE TypeParts
    DEF browserVars, resizeVars, readLoopVars, outVars, streamVars, PhaseOK, EndOK,
        GoroutineType, StreamType, FlagType
<1>1. ASSUME NEW type \in {"stdin", "resize", "other"}, Send(type)
      PROVE  EndOK'
  BY <1>1 DEF Send
<1>2. CASE Leave
  BY <1>2 DEF Leave
<1>3. CASE ReadFrame
  BY <1>3 DEF ReadFrame
<1>4. CASE ReadEnds
  BY <1>4 DEF ReadEnds
<1>5. CASE CloseQueue \/ CloseStdin
  BY <1>5 DEF CloseQueue, CloseStdin
<1>6. CASE Copy \/ CopyEnds
  BY <1>6 DEF Copy, CopyEnds
<1>7. CASE Resize
  BY <1>7 DEF Resize
<1>12. CASE SizerEnds \/ Write
  BY <1>12 DEF SizerEnds, Write
<1>8. CASE ShellReads \/ ShellPrints \/ ShellExits
  BY <1>8 DEF ShellReads, ShellPrints, ShellExits
<1>9. CASE Refuse
  BY <1>9 DEF Refuse
<1>13. CASE StartReading
  BY <1>13 DEF StartReading
<1>14. CASE Attach
  BY <1>14 DEF Attach
<1>10. CASE DialFails \/ Finish \/ Close
  BY <1>10 DEF DialFails, Finish, Close
<1>11. CASE UNCHANGED vars
  BY <1>11 DEF vars
<1> QED BY <1>1, <1>2, <1>3, <1>4, <1>5, <1>6, <1>7, <1>8, <1>9, <1>10, <1>11,
           <1>12, <1>13, <1>14
        DEF Next, ReadLoop, Handler
-----------------------------------------------------------------------------
(* What the server has read stays what it is.                              *)

LEMMA ReadStays ==
  ASSUME TypeOK, InboxOK, [Next]_vars
  PROVE  \A n \in Nat : n <= Read =>
           (n \in Typed' <=> n \in Typed) /\ (n \in Sizes' <=> n \in Sizes)
<1>1. sent' \in Seq(Frames) /\ sent \in Seq(Frames)
  BY BrowserTypeStep, TypeParts DEF BrowserType
<1>2. \A n \in 1 .. Read : n \in DOMAIN sent' /\ sent'[n] = sent[n]
  BY InboxStep
<1>3. \A n \in Nat \ {0} : n <= Read => n \in 1 .. Read /\ n \in DOMAIN sent
  BY <1>1, InboxStep DEF Read, InboxOK
<1>4. 0 \notin DOMAIN sent /\ 0 \notin DOMAIN sent'
  BY <1>1
<1> QED BY <1>2, <1>3, <1>4 DEF Typed, Sizes

LEMMA ReadFrameReads ==
  ASSUME TypeOK, InboxOK, ReadFrame
  PROVE  /\ Read + 1 \in DOMAIN sent /\ Head(inbox) = sent[Read + 1]
         /\ Head(inbox).n = Read + 1
         /\ Typed' = Typed /\ Sizes' = Sizes
         /\ Read \in Nat /\ Read' = Read + 1
<1>1. sent' = sent /\ inbox' = Tail(inbox) /\ inbox # <<>>
  BY DEF ReadFrame
<1>2. sent \in Seq(Frames) /\ inbox \in Seq(Frames) /\ Len(inbox) >= 1
  BY <1>1, TypeParts DEF BrowserType
<1>3. Read + 1 \in DOMAIN sent /\ Head(inbox) = sent[Read + 1]
  BY <1>1, <1>2 DEF InboxOK, Read
<1>4. Read \in Nat /\ Read' = Read + 1
  BY <1>1, <1>2 DEF InboxOK, Read
<1> QED BY <1>1, <1>3, <1>4 DEF InboxOK, Typed, Sizes

-----------------------------------------------------------------------------
(* The resizes.                                                            *)

(* The last element of a queue, unless it is the head, is that of its tail. *)
LEMMA EmptyIsLen0 ==
  ASSUME NEW S, NEW seq \in Seq(S)
  PROVE  seq = <<>> <=> Len(seq) = 0
BY EmptySeq

LEMMA LastOfTail ==
  ASSUME NEW S, NEW seq \in Seq(S), seq # <<>>
  PROVE  /\ Tail(seq) = <<>> => Head(seq) = seq[Len(seq)]
         /\ Tail(seq) # <<>> => Tail(seq)[Len(Tail(seq))] = seq[Len(seq)]
<1>1. /\ Len(seq) \in Nat \ {0} /\ Tail(seq) \in Seq(S)
      /\ Len(Tail(seq)) = Len(seq) - 1
  BY EmptySeq
<1>2. Tail(seq) = <<>> <=> Len(Tail(seq)) = 0
  <2>1. \A t \in Seq(S) : t = <<>> <=> Len(t) = 0
    BY EmptyIsLen0
  <2> QED BY <1>1, <2>1, Zenon
<1>3. Len(seq) # 1 => Len(seq) > 1
  BY <1>1
<1>4. Len(seq) = 1 => Head(seq) = seq[Len(seq)] /\ Len(Tail(seq)) = 0
  BY <1>1
<1>5. Len(seq) > 1 =>
        Tail(seq)[Len(Tail(seq))] = seq[Len(seq)] /\ Len(Tail(seq)) # 0
  BY <1>1
<1> QED BY <1>2, <1>3, <1>4, <1>5, Zenon

LEMMA LatestType ==
  ASSUME TypeOK
  PROVE  Latest \in Nat
<1>1. CASE queue = <<>>
  BY <1>1, TypeParts DEF StreamType, Latest
<1>2. CASE queue # <<>>
  <2>1. queue \in Seq(1 .. MaxFrames)
    BY TypeParts DEF StreamType
  <2>2. Len(queue) \in 1 .. Len(queue)
    BY <1>2, <2>1
  <2>3. queue[Len(queue)] \in 1 .. MaxFrames
    BY <2>1, <2>2, ElementOfSeq
  <2> QED BY <1>2, <2>3, TerminalAssumption DEF Latest
<1> QED BY <1>1, <1>2

LEMMA SizeRests ==
  ASSUME TypeOK, InboxOK, SizeOK, [Next]_vars, ~ ReadFrame,
         UNCHANGED dropped, Latest' = Latest
  PROVE  SizeOK'
<1>1. Read' = Read /\ Read \in Nat
  BY InboxStep
<1>2. Latest \in Nat
  BY LatestType
<1>3. \A n \in Sizes' : n \in Nat
  BY BrowserTypeStep DEF BrowserType, Sizes
<1> QED BY <1>1, <1>2, <1>3, ReadStays DEF SizeOK

LEMMA SizeStep ==
  ASSUME TypeOK, InboxOK, SizeOK, [Next]_vars
  PROVE  SizeOK'
<1> USE TypeParts DEF browserVars, resizeVars, readLoopVars, outVars, streamVars
<1>1. CASE ReadFrame
  <2>1. /\ Read + 1 \in DOMAIN sent /\ Head(inbox) = sent[Read + 1]
        /\ Head(inbox).n = Read + 1
        /\ Sizes' = Sizes /\ Read \in Nat /\ Read' = Read + 1
    BY <1>1, ReadFrameReads
  <2>2. Sizes \subseteq Nat
    BY DEF BrowserType, Sizes
  <2>3. CASE Head(inbox).type = "resize" /\ Room
    <3>1. queue' = Append(queue, Read + 1) /\ queue \in Seq(1 .. MaxFrames)
      BY <1>1, <2>1, <2>3 DEF ReadFrame, StreamType
    <3>2. Latest' = Read + 1
      BY <3>1 DEF Latest
    <3>3. Read + 1 \in Sizes
      BY <2>1, <2>3 DEF Sizes
    <3> QED BY <2>1, <2>2, <3>2, <3>3 DEF SizeOK
  <2>4. CASE Head(inbox).type = "resize" /\ ~ Room
    BY <1>1, <2>4 DEF ReadFrame, SizeOK
  <2>5. CASE Head(inbox).type # "resize"
    <3>1. Latest' = Latest /\ dropped' = dropped
      BY <1>1, <2>5 DEF ReadFrame, Latest
    <3>2. Read + 1 \notin Sizes
      BY <2>1, <2>5 DEF Sizes
    <3>3. Latest \in Nat
      BY LatestType
    <3> QED BY <2>1, <2>2, <3>1, <3>2, <3>3 DEF SizeOK
  <2> QED BY <2>3, <2>4, <2>5
<1>2. CASE Resize
  <2>1. /\ queue' = Tail(queue) /\ queue # <<>> /\ shell'.size = Head(queue)
        /\ dropped' = dropped
    BY <1>2 DEF Resize, StreamType
  <2>2. Latest' = Latest
    <3>1. queue \in Seq(1 .. MaxFrames)
      BY DEF StreamType
    <3> QED BY <2>1, <3>1, LastOfTail DEF Latest
  <2>3. ~ ReadFrame
    BY <1>2, <2>1 DEF ReadFrame, Resize, BrowserType
  <2> QED BY <2>1, <2>2, <2>3, SizeRests
<1>3. CASE UNCHANGED <<queue, dropped, shell.size>> /\ ~ ReadFrame
  BY <1>3, SizeRests DEF Latest
<1>4. ASSUME ~ ReadFrame, ~ Resize PROVE UNCHANGED <<queue, dropped, shell.size>>
  BY <1>4 DEF Next, ReadLoop, ReadEnds, CloseQueue, CloseStdin, Copy, CopyEnds,
         SizerEnds, Write, ShellReads, ShellPrints, ShellExits, Handler, Refuse,
         StartReading, Attach, DialFails, Finish, Close, Send, Leave, vars,
         StreamType
<1> QED BY <1>1, <1>2, <1>3, <1>4
-----------------------------------------------------------------------------
(* What was typed.                                                         *)

(* A step that reads nothing and leaves the three stages alone.            *)
LEMMA PipeRests ==
  ASSUME TypeOK, InboxOK, PipeOK, [Next]_vars, ~ ReadFrame,
         UNCHANGED <<copier, shell.input>>,
         reader'.pc = "write" => reader' = reader,
         Flowing' => Flowing /\ (reader.pc = "write" => reader' = reader)
  PROVE  PipeOK'
<1>1. Read' = Read /\ Read \in Nat
  BY InboxStep
<1>2. Typed \subseteq Nat /\ Typed' \subseteq Nat
  BY BrowserTypeStep, TypeParts DEF BrowserType, Typed
<1>3. Taken' = Taken
  BY DEF Taken
<1>4. \A n \in Nat : n <= Read => (n \in Typed' <=> n \in Typed)
  BY ReadStays
<1>5. \A n \in Taken, m \in Typed' : m < n => m \in Taken
  <2>1. ASSUME NEW n \in Taken, NEW m \in Typed', m < n PROVE m \in Taken
    <3>1. n \in Nat /\ n <= Read
      BY <1>2 DEF PipeOK, StagesOK, OrderOK, FlowOK
    <3>2. m \in Typed
      BY <1>1, <1>2, <1>4, <2>1, <3>1
    <3> QED BY <2>1, <3>2 DEF PipeOK, StagesOK, OrderOK, FlowOK
  <2> QED BY <2>1
<1>6. copier'.pc = "send" => copier'.chunk \in Typed' /\ copier'.chunk <= Read'
  BY <1>1, <1>2, <1>4 DEF PipeOK, StagesOK, OrderOK, FlowOK
<1>7. reader'.pc = "write" => reader'.chunk \in Typed' /\ reader'.chunk <= Read'
  BY <1>1, <1>2, <1>4 DEF PipeOK, StagesOK, OrderOK, FlowOK
<1>8. \A n \in Taken' : n \in Typed' /\ n <= Read'
  BY <1>1, <1>2, <1>3, <1>4 DEF PipeOK, StagesOK, OrderOK, FlowOK
<1>9. ASSUME Flowing'
      PROVE  /\ copier'.pc = "send" => \A n \in Taken' : n < copier'.chunk
             /\ reader'.pc = "write" =>
                  /\ \A n \in Taken' : n < reader'.chunk
                  /\ copier'.pc = "send" => copier'.chunk < reader'.chunk
             /\ \A n \in Typed' : n <= Read' =>
                  \/ n \in Taken'
                  \/ copier'.pc = "send" /\ n = copier'.chunk
                  \/ reader'.pc = "write" /\ n = reader'.chunk
  BY <1>1, <1>2, <1>3, <1>4, <1>9 DEF PipeOK, StagesOK, OrderOK, FlowOK
<1> QED BY <1>3, <1>5, <1>6, <1>7, <1>8, <1>9 DEF PipeOK, StagesOK, OrderOK, FlowOK

(* The pipe has no buffer: one frame is on its way in each of two hands.   *)
LEMMA PipeStep ==
  ASSUME TypeOK, InboxOK, PhaseOK, EndOK, PipeOK, [Next]_vars
  PROVE  PipeOK'
<1> USE TypeParts DEF browserVars, resizeVars, readLoopVars, outVars, streamVars, PipeOK
<1>1. Typed \subseteq Nat /\ Taken \subseteq Nat /\ Read \in Nat
  <2>1. Typed \subseteq Nat
    BY DEF BrowserType, Typed
  <2>2. Taken \subseteq Nat
    <3>1. shell.input \in Seq(1 .. MaxFrames)
      BY DEF StreamType
    <3> QED BY <3>1, TerminalAssumption DEF Taken
  <2>3. Read \in Nat
    BY InboxStep
  <2> QED BY <2>1, <2>2, <2>3
<1>2. shell \in [state : {"none", "running", "exited"}, input : Seq(1 .. MaxFrames),
                 eof : BOOLEAN, size : 0 .. MaxFrames]
  BY DEF StreamType
<1>3. CASE ReadFrame
  <2>1. /\ Read + 1 \in DOMAIN sent /\ Head(inbox) = sent[Read + 1]
        /\ Head(inbox).n = Read + 1
        /\ Typed' = Typed /\ Read \in Nat /\ Read' = Read + 1
    BY <1>3, ReadFrameReads
  <2>2. UNCHANGED <<copier, shell, handler>> /\ reader.pc = "read"
    BY <1>3 DEF ReadFrame
  <2>3. Taken' = Taken /\ (Flowing' <=> Flowing)
    BY <2>2 DEF Taken, Flowing
  <2>4. CASE Head(inbox).type = "stdin"
    <3>1. reader'.pc = "write" /\ reader'.chunk = Read + 1 /\ Read + 1 \in Typed
      BY <1>3, <2>1, <2>4 DEF ReadFrame, Typed
    <3>5. Typed' = Typed /\ Read' = Read + 1
      BY <2>1
    <3>6. Read + 1 \in Nat /\ \A n \in Nat : n <= Read => n < Read + 1 /\ n <= Read + 1
      BY <1>1
    <3>2. StagesOK'
      <4>1. copier'.pc = "send" => copier'.chunk \in Typed' /\ copier'.chunk <= Read'
        BY <1>1, <2>2, <3>5, <3>6 DEF StagesOK
      <4>2. reader'.chunk \in Typed' /\ reader'.chunk <= Read'
        BY <3>1, <3>5, <3>6
      <4>3. \A n \in Taken' : n \in Typed' /\ n <= Read'
        BY <1>1, <2>3, <3>5, <3>6 DEF StagesOK
      <4> QED BY <4>1, <4>2, <4>3 DEF StagesOK
    <3>3. OrderOK'
      BY <2>1, <2>2, <2>3 DEF OrderOK
    <3>4. FlowOK'
      <4>1. \A n \in Taken' : n < reader'.chunk
        BY <1>1, <2>3, <3>1, <3>6 DEF StagesOK
      <4>2. copier'.pc = "send" => copier'.chunk < reader'.chunk
        BY <1>1, <2>2, <3>1, <3>6 DEF StagesOK
      <4>3. \A n \in Typed' : n <= Read' => n <= Read \/ n = Read + 1
        BY <1>1, <3>5
      <4> QED BY <2>2, <2>3, <3>1, <3>5, <4>1, <4>2, <4>3 DEF FlowOK
    <3> QED BY <3>2, <3>3, <3>4
  <2>5. CASE Head(inbox).type # "stdin"
    <3>1. reader' = reader /\ Read + 1 \notin Typed
      BY <1>3, <2>1, <2>5 DEF ReadFrame, Typed
    <3>2. StagesOK'
      <4>1. \A n \in Nat : n <= Read => n <= Read'
        BY <2>1
      <4> QED BY <1>1, <2>1, <2>2, <2>3, <3>1, <4>1 DEF StagesOK
    <3>3. OrderOK'
      BY <2>1, <2>2, <2>3 DEF OrderOK
    <3>4. FlowOK'
      BY <1>1, <2>1, <2>2, <2>3, <3>1 DEF StagesOK, FlowOK
    <3> QED BY <3>2, <3>3, <3>4
  <2> QED BY <2>4, <2>5
<1>4. CASE Copy
  <2>1. /\ copier' = [pc |-> "send", chunk |-> reader.chunk]
        /\ reader' = [pc |-> "read", chunk |-> 0]
        /\ copier.pc = "read" /\ reader.pc = "write"
        /\ UNCHANGED <<sent, inbox, shell, handler>>
    BY <1>4 DEF Copy
  <2>2. Taken' = Taken /\ Typed' = Typed /\ Read' = Read /\ (Flowing' <=> Flowing)
    BY <2>1 DEF Taken, Typed, Read, Flowing
  <2> QED BY <1>1, <2>1, <2>2 DEF PipeOK, StagesOK, OrderOK, FlowOK
<1>5. CASE CopyEnds
  <2>1. /\ copier' = [pc |-> "done", chunk |-> 0]
        /\ shell'.input = shell.input /\ shell'.state = shell.state
        /\ UNCHANGED <<sent, inbox, reader, handler>>
        /\ copier.pc = "send" => handler # "exec"
    BY <1>2, <1>5 DEF CopyEnds
  <2>2. Taken' = Taken /\ Typed' = Typed /\ Read' = Read /\ (Flowing' <=> Flowing)
    BY <2>1 DEF Taken, Typed, Read, Flowing
  <2>3. copier.pc = "send" => ~ Flowing
    BY <2>1 DEF PhaseOK, Flowing
  <2> QED BY <1>1, <2>1, <2>2, <2>3 DEF PipeOK, StagesOK, OrderOK, FlowOK
<1>6. CASE ShellReads
  <2>1. /\ copier' = [pc |-> "read", chunk |-> 0] /\ copier.pc = "send"
        /\ shell'.input = Append(shell.input, copier.chunk)
        /\ shell'.state = "running" /\ shell.state = "running"
        /\ UNCHANGED <<sent, inbox, reader, handler>>
    BY <1>2, <1>6 DEF ShellReads
  <2>2. /\ Typed' = Typed /\ Read' = Read /\ Flowing' /\ Flowing
        /\ Taken' = Taken \cup {copier.chunk}
    BY <1>2, <2>1 DEF Taken, Typed, Read, Flowing
  <2>3. \A n \in Taken : n < copier.chunk
    BY <2>1, <2>2 DEF PipeOK, StagesOK, OrderOK, FlowOK
  <2>4. \A i, j \in DOMAIN shell'.input : i < j => shell'.input[i] < shell'.input[j]
    BY <1>2, <2>1, <2>3 DEF OrderOK, Taken
  <2>5. StagesOK'
    BY <1>1, <2>1, <2>2 DEF StagesOK
  <2>6. \A n \in Taken', m \in Typed : m < n => m \in Taken'
    <3>1. ASSUME NEW m \in Typed, m < copier.chunk PROVE m \in Taken
      <4>2. copier.chunk \in Nat /\ copier.chunk <= Read
        BY <1>1, <2>1 DEF StagesOK
      <4>1. m \in Nat /\ copier.chunk \in Nat /\ m <= Read
        BY <1>1, <3>1, <4>2
      <4> QED BY <1>1, <2>1, <2>2, <3>1, <4>1 DEF FlowOK
    <3> QED BY <2>2, <3>1 DEF OrderOK
  <2>7. FlowOK'
    BY <1>1, <2>1, <2>2, <2>3 DEF FlowOK
  <2> QED BY <2>2, <2>4, <2>5, <2>6, <2>7 DEF OrderOK
<1>7. CASE ReadEnds
  <2>1. reader'.pc # "write" /\ UNCHANGED <<copier, shell, handler>> /\ ~ ReadFrame
    BY <1>7 DEF ReadEnds, ReadFrame
  <2>2. Flowing' => Flowing /\ reader.pc # "write"
    BY <1>7, <2>1 DEF ReadEnds, EndOK, Flowing, PhaseOK
  <2> QED BY <2>1, <2>2, PipeRests
<1>8. CASE Attach
  <2>1. /\ copier' = [copier EXCEPT !.pc = "read"] /\ copier.pc = "none"
        /\ shell'.input = shell.input /\ Flowing
        /\ UNCHANGED <<sent, inbox, reader>>
    BY <1>2, <1>8 DEF Attach, Flowing, PhaseOK
  <2>2. Taken' = Taken /\ Typed' = Typed /\ Read' = Read
    BY <2>1 DEF Taken, Typed, Read
  <2>3. copier'.pc = "read"
    BY <2>1 DEF GoroutineType
  <2> QED BY <1>1, <2>1, <2>2, <2>3 DEF StagesOK, OrderOK, FlowOK
<1>9. CASE ShellExits
  <2>1. /\ UNCHANGED <<copier, reader, handler>> /\ ~ ReadFrame
        /\ shell'.input = shell.input /\ Flowing /\ shell.state = "running"
    BY <1>2, <1>9 DEF ShellExits, Flowing, ReadFrame
  <2>2. ~ Flowing'
    BY <1>2, <1>9, <2>1 DEF Flowing, PhaseOK, ShellExits
  <2> QED BY <2>1, <2>2, PipeRests
<1>10. CASE StartReading
  <2>1. /\ UNCHANGED <<copier, shell>> /\ ~ ReadFrame /\ Flowing
        /\ reader'.pc = "read" /\ reader.pc = "none"
    BY <1>10 DEF StartReading, ReadFrame, Flowing, PhaseOK, GoroutineType
  <2> QED BY <2>1, PipeRests
<1>11. CASE CloseQueue \/ CloseStdin
  <2>1. /\ UNCHANGED <<copier, shell, handler>> /\ ~ ReadFrame
        /\ reader'.pc # "write" /\ reader.pc # "write"
    BY <1>11 DEF CloseQueue, CloseStdin, ReadFrame, GoroutineType
  <2> QED BY <2>1, PipeRests DEF Flowing
<1>12. CASE Resize
  <2>1. /\ UNCHANGED <<copier, reader, handler>> /\ ~ ReadFrame
        /\ shell'.input = shell.input /\ shell'.state = shell.state
    BY <1>2, <1>12 DEF Resize, ReadFrame
  <2> QED BY <2>1, PipeRests DEF Flowing
<1>13. CASE Refuse \/ DialFails \/ Finish \/ Close
  <2>1. /\ UNCHANGED <<copier, reader, shell>> /\ ~ ReadFrame
        /\ handler' \in {"close", "done"}
    BY <1>13 DEF Refuse, DialFails, Finish, Close, ReadFrame
  <2>2. Flowing' => Flowing
    BY <2>1 DEF Flowing
  <2> QED BY <2>1, <2>2, PipeRests
<1>14. CASE UNCHANGED <<copier, reader, shell, handler>> /\ ~ ReadFrame
  BY <1>14, PipeRests DEF Flowing
<1>15. ASSUME ~ ReadFrame, ~ Copy, ~ CopyEnds, ~ ShellReads, ~ ReadEnds, ~ Attach,
              ~ ShellExits, ~ StartReading, ~ CloseQueue, ~ CloseStdin, ~ Resize,
              ~ Refuse, ~ DialFails, ~ Finish, ~ Close
       PROVE  UNCHANGED <<copier, reader, shell, handler>>
  BY <1>15 DEF Next, ReadLoop, SizerEnds, Write, ShellPrints, Handler, Send, Leave,
               vars
<1> QED BY <1>3, <1>4, <1>5, <1>6, <1>7, <1>8, <1>9, <1>10, <1>11, <1>12, <1>13,
           <1>14, <1>15
-----------------------------------------------------------------------------
(* The screen.                                                             *)

NoExit == \A i \in DOMAIN screen : screen[i] # "exit"

LEMMA SayEffect ==
  ASSUME TypeOK, NoExit,
         NEW m \in {<<"stdout">>, <<"exit">>, <<"error", "exit">>}, Say(m)
  PROVE  ExitIsLast' /\ (m = <<"stdout">> => NoExit')
<1>1. screen \in Seq({"stdout", "error", "exit"})
  BY TypeParts DEF BrowserType
<1>2. CASE screen' = screen
  BY <1>1, <1>2 DEF NoExit, ExitIsLast
<1>3. ASSUME screen' = screen \o <<"stdout">>
      PROVE  ExitIsLast' /\ NoExit'
  BY <1>1, <1>3 DEF NoExit, ExitIsLast
<1>4. ASSUME screen' = screen \o <<"exit">>
      PROVE  ExitIsLast'
  BY <1>1, <1>4 DEF NoExit, ExitIsLast
<1>5. ASSUME screen' = screen \o <<"error", "exit">>
      PROVE  ExitIsLast'
  BY <1>1, <1>5 DEF NoExit, ExitIsLast
<1> QED BY <1>2, <1>3, <1>4, <1>5 DEF Say

LEMMA ScreenStep ==
  ASSUME TypeOK, PhaseOK, ScreenOK, SilentOK, ExitIsLast, [Next]_vars
  PROVE  ScreenOK' /\ SilentOK' /\ ExitIsLast'
<1> USE TypeParts
    DEF browserVars, resizeVars, readLoopVars, outVars, streamVars
<1>1. output \in Nat
  BY TerminalAssumption DEF StreamType
<1>2. CASE Write
  <2>1. NoExit
    BY <1>1, <1>2 DEF Write, NoExit, ScreenOK, SilentOK
  <2>2. ExitIsLast' /\ NoExit'
    BY <1>2, <2>1, SayEffect DEF Write
  <2>3. SilentOK'
    BY <1>1, <1>2 DEF Write, SilentOK
  <2> QED BY <2>2, <2>3 DEF NoExit, ScreenOK
<1>3. CASE Refuse \/ DialFails \/ Finish
  <2>1. NoExit
    BY <1>3 DEF NoExit, ScreenOK, Refuse, DialFails, Finish
  <2>2. ExitIsLast'
    BY <1>3, <2>1, SayEffect DEF Refuse, DialFails, Finish
  <2>3. /\ handler' \in {"close", "done"} /\ output' = 0
        /\ shell'.state # "running"
    BY <1>3 DEF Refuse, DialFails, Finish, PhaseOK
  <2> QED BY <2>2, <2>3 DEF ScreenOK, SilentOK
<1>4. ASSUME ~ Write, ~ Refuse, ~ DialFails, ~ Finish
      PROVE  /\ UNCHANGED screen
             /\ handler' \in {"close", "done"} <=> handler \in {"close", "done"}
             /\ output' # output => output' = 0 \/ shell.state = "running"
             /\ shell'.state = "running" => shell.state = "running" \/ handler' = "exec"
  <2>1. CASE ReadLoop \/ (\E type \in {"stdin", "resize", "other"} : Send(type)) \/ Leave
    BY <2>1 DEF ReadLoop, ReadFrame, ReadEnds, CloseQueue, CloseStdin, Send, Leave
  <2>2. CASE Copy \/ CopyEnds \/ ShellReads \/ Resize \/ SizerEnds
    <3>1. UNCHANGED <<screen, handler, output, shell.state>>
      BY <2>2 DEF Copy, CopyEnds, ShellReads, Resize, SizerEnds, StreamType
    <3> QED BY <3>1
  <2>3. CASE ShellPrints
    BY <2>3 DEF ShellPrints
  <2>4. CASE ShellExits
    <3>1. shell'.state = "exited"
      BY <2>4 DEF ShellExits, StreamType
    <3> QED BY <2>4, <3>1 DEF ShellExits
  <2>5. CASE StartReading \/ Attach \/ Close
    BY <2>5 DEF StartReading, Attach, Close
  <2>6. CASE UNCHANGED vars
    BY <2>6 DEF vars
  <2> QED BY <1>4, <2>1, <2>2, <2>3, <2>4, <2>5, <2>6 DEF Next, Handler
<1>5. ASSUME ~ Write, ~ Refuse, ~ DialFails, ~ Finish
      PROVE  ScreenOK' /\ SilentOK' /\ ExitIsLast'
  BY <1>4, <1>5 DEF ScreenOK, SilentOK, ExitIsLast
<1> QED BY <1>2, <1>3, <1>5

-----------------------------------------------------------------------------
(* The theorems.                                                           *)

LEMMA StepIInv == IInv /\ [Next]_vars => IInv'
BY TypeStep, InboxStep, PhaseStep, EndStep, PipeStep, SizeStep, ScreenStep DEF IInv

LEMMA IInvHolds == Spec => []IInv
BY InitIInv, StepIInv, PTL DEF Spec

(* Every variable keeps its type; above all the queue of resizes never     *)
(* exceeds the capacity of its channel (readLoop).                         *)
THEOREM TypeCorrect == Spec => []TypeOK
<1>1. IInv => TypeOK
  BY DEF IInv
<1> QED BY <1>1, IInvHolds, PTL

(* What the shell reads is what was typed, in order, once and without a    *)
(* gap, and all of it when its input ends (readLoop, the pipe).            *)
THEOREM NothingTypedIsLost == Spec => []InputInOrder
<1>1. IInv => InputInOrder
  <2> SUFFICES ASSUME IInv PROVE InputInOrder
    OBVIOUS
  <2>1. Taken \subseteq Typed
    BY DEF IInv, PipeOK, StagesOK
  <2>2. ASSUME shell.state = "running", shell.eof PROVE Typed \subseteq Taken
    <3>1. /\ copier.pc = "done" /\ reader.pc = "done" /\ inbox = <<>> /\ Flowing
      BY <2>2 DEF IInv, EndOK, PhaseOK, Flowing
    <3>2. \A n \in Typed : n <= Read
      BY <3>1, TypeParts DEF IInv, BrowserType, Typed, Read
    <3> QED BY <3>1, <3>2 DEF IInv, PipeOK, FlowOK
  <2> QED BY <2>1, <2>2 DEF IInv, PipeOK, OrderOK, InputInOrder
<1> QED BY <1>1, IInvHolds, PTL

(* The size the shell ends up with is the last one the browser sent, if    *)
(* none was dropped (readLoop, Next).                                      *)
THEOREM LastSizeArrives == Spec => []SizeIsLatest
<1>1. IInv => SizeIsLatest
  <2> SUFFICES ASSUME IInv, inbox = <<>>, queue = <<>>, ~ dropped, Sizes # {}
               PROVE  shell.size \in Sizes /\ \A n \in Sizes : n <= shell.size
    BY DEF SizeIsLatest
  <2>1. Latest = shell.size
    BY DEF Latest
  <2>2. \A n \in Sizes : n <= Read /\ n > 0 /\ n \in Nat
    BY TypeParts DEF IInv, BrowserType, Sizes, Read
  <2>3. shell.size \in Nat
    BY <2>1, LatestType DEF IInv
  <2> QED BY <2>1, <2>2, <2>3 DEF IInv, SizeOK
<1> QED BY <1>1, IInvHolds, PTL

(* Nothing follows the exit message, above all no late output of the shell *)
(* (handlePodExec writes it after Exec has returned).                      *)
THEOREM ExitMessageIsLast == Spec => []ExitIsLast
<1>1. IInv => ExitIsLast
  BY DEF IInv
<1> QED BY <1>1, IInvHolds, PTL
=============================================================================
