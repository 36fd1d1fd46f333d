------------------------------ MODULE Terminal ------------------------------
(***************************************************************************)
(* A pod terminal (internal/server/exec.go, internal/k8s/exec.go): one     *)
(* websocket, one exec stream, and four goroutines that join them.         *)
(*                                                                         *)
(*   browser --inbox--> readLoop --pipe--> copier --> shell                *)
(*                         \------queue--> sizer ---> shell                *)
(*   browser <--------- handler, writer <--output---- shell                *)
(*                                                                         *)
(* readLoop and the handler are the repository's, the copier of stdin, the *)
(* sizer and the writer's caller are goroutines of client-go. The pipe has *)
(* no buffer: a Write ends when its bytes were read or the pipe closed.    *)
(***************************************************************************)
EXTENDS Integers, Sequences

CONSTANTS
  QueueSize,    (* capacity of the resize channel: 4 in the code            *)
  MaxFrames,    (* bound: frames the browser sends                          *)
  MaxOutput     (* bound: chunks of output of the shell                     *)

ASSUME TerminalAssumption ==
  QueueSize \in Nat \ {0} /\ MaxFrames \in Nat /\ MaxOutput \in Nat

VARIABLES
  sent,       (* frames the browser has sent, less those lost on the way    *)
  socket,     (* "open", "left" by the browser, "closed" by the server      *)
  inbox,      (* frames on their way to the server                          *)
  handler,    (* handlePodExec                                              *)
  reader,     (* readLoop; chunk is what it is writing to the pipe          *)
  pipeClosed, (* stdinWriter was closed                                     *)
  queue,      (* execSession.resize                                         *)
  queueClosed,
  copier,     (* client-go's copy of stdin                                  *)
  sizer,      (* client-go's loop over Next                                 *)
  shell,      (* the command in the container                               *)
  output,     (* chunks of output that are not yet written                  *)
  screen,     (* messages the browser was sent                              *)
  dropped     (* history: a resize was dropped                              *)

browserVars  == <<sent, socket, inbox>>
resizeVars   == <<queue, queueClosed, dropped>>
readLoopVars == <<reader, pipeClosed, queue, queueClosed, dropped>>
outVars      == <<output, screen>>
streamVars   == <<copier, sizer, shell, output, screen>>
vars         == <<browserVars, handler, readLoopVars, streamVars>>

Frames == [type : {"stdin", "resize", "other"}, n : 1 .. MaxFrames]

TypeOK ==
  /\ sent \in Seq(Frames)
  /\ socket \in {"open", "left", "closed"}
  /\ inbox \in Seq(Frames)
  /\ handler \in {"validate", "dial", "exec", "close", "done"}
  /\ reader \in [pc : {"none", "read", "write", "closeQueue", "closeStdin", "done"},
                 chunk : 0 .. MaxFrames]
  /\ pipeClosed \in BOOLEAN /\ queueClosed \in BOOLEAN
  /\ queue \in Seq(1 .. MaxFrames) /\ Len(queue) <= QueueSize
  /\ copier \in [pc : {"none", "read", "send", "done"}, chunk : 0 .. MaxFrames]
  /\ sizer \in {"none", "next", "done"}
  /\ shell \in [state : {"none", "running", "exited"}, input : Seq(1 .. MaxFrames),
                eof : BOOLEAN, size : 0 .. MaxFrames]
  /\ output \in 0 .. MaxOutput
  /\ screen \in Seq({"stdout", "error", "exit"})
  /\ dropped \in BOOLEAN

Init ==
  /\ sent = <<>> /\ inbox = <<>> /\ socket = "open"
  /\ handler = "validate"
  /\ reader = [pc |-> "none", chunk |-> 0] /\ copier = reader
  /\ pipeClosed = FALSE /\ queueClosed = FALSE /\ queue = <<>>
  /\ sizer = "none"
  /\ shell = [state |-> "none", input |-> <<>>, eof |-> FALSE, size |-> 0]
  /\ output = 0 /\ screen = <<>> /\ dropped = FALSE

-----------------------------------------------------------------------------
(* The browser.                                                            *)

Send(type) ==
  /\ socket = "open"
  /\ Len(sent) < MaxFrames
  /\ LET frame == [type |-> type, n |-> Len(sent) + 1]
     IN sent' = Append(sent, frame) /\ inbox' = Append(inbox, frame)
  /\ UNCHANGED <<socket, handler, readLoopVars, streamVars>>

(* The page goes away, or the connection does and the last frames with it. *)
Leave ==
  /\ socket = "open"
  /\ socket' = "left"
  /\ \E lost \in 0 .. Len(inbox) :
       /\ inbox' = SubSeq(inbox, 1, Len(inbox) - lost)
       /\ sent' = SubSeq(sent, 1, Len(sent) - lost)
  /\ UNCHANGED <<handler, readLoopVars, streamVars>>

(* send: an error of the write is ignored.                                 *)
Say(messages) == screen' = IF socket = "open" THEN screen \o messages ELSE screen

-----------------------------------------------------------------------------
(* The goroutine readLoop.                                                 *)

RoomForever == TRUE                                                 (* mutant *)

Room == Len(queue) < QueueSize

(* A resize is dropped when the queue is full, an unknown frame is skipped. *)
ReadFrame ==
  /\ reader.pc = "read" /\ inbox # <<>>
  /\ inbox' = Tail(inbox)
  /\ LET frame == Head(inbox)
     IN \/ /\ frame.type = "stdin"
           /\ reader' = [pc |-> "write", chunk |-> frame.n]
           /\ UNCHANGED <<queue, dropped>>
        \/ /\ frame.type = "resize" /\ Room
           /\ queue' = Append(queue, frame.n)
           /\ UNCHANGED <<reader, dropped>>
        \/ /\ frame.type = "resize" /\ ~ Room
           /\ dropped' = TRUE
           /\ UNCHANGED <<reader, queue>>
        \/ /\ frame.type = "other"
           /\ UNCHANGED <<reader, queue, dropped>>
  /\ UNCHANGED <<sent, socket, handler, pipeClosed, queueClosed, streamVars>>

ReadEndsAtOnce ==                                                   (* mutant *)
  /\ \/ reader.pc = "read" /\ socket # "open"
     \/ reader.pc = "write" /\ pipeClosed
  /\ reader' = [pc |-> "closeQueue", chunk |-> 0]
  /\ UNCHANGED <<browserVars, handler, pipeClosed, resizeVars, streamVars>>

(* ReadMessage fails once the socket is closed, by either side; a Write    *)
(* fails once the pipe is.                                                 *)
ReadEnds ==
  /\ \/ /\ reader.pc = "read"
        /\ socket = "closed" \/ (socket = "left" /\ inbox = <<>>)
     \/ reader.pc = "write" /\ pipeClosed
  /\ reader' = [pc |-> "closeQueue", chunk |-> 0]
  /\ UNCHANGED <<browserVars, handler, pipeClosed, resizeVars, streamVars>>

(* The two deferred calls, last one first.                                 *)
CloseQueue ==
  /\ reader.pc = "closeQueue"
  /\ queueClosed' = TRUE
  /\ reader' = [reader EXCEPT !.pc = "closeStdin"]
  /\ UNCHANGED <<browserVars, handler, pipeClosed, queue, streamVars, dropped>>

CloseStdinNever ==                                                  (* mutant *)
  /\ reader.pc = "closeStdin"
  /\ reader' = [reader EXCEPT !.pc = "done"]
  /\ UNCHANGED <<browserVars, handler, pipeClosed, resizeVars, streamVars>>

CloseStdin ==
  /\ reader.pc = "closeStdin"
  /\ pipeClosed' = TRUE
  /\ reader' = [reader EXCEPT !.pc = "done"]
  /\ UNCHANGED <<browserVars, handler, resizeVars, streamVars>>

ReadLoop == ReadFrame \/ ReadEnds \/ CloseQueue \/ CloseStdin

-----------------------------------------------------------------------------
(* client-go's goroutines. Their stream is up while the handler is in Exec. *)

Copy ==
  /\ copier.pc = "read" /\ reader.pc = "write" /\ ~ pipeClosed
  /\ copier' = [pc |-> "send", chunk |-> reader.chunk]
  /\ reader' = [pc |-> "read", chunk |-> 0]
  /\ UNCHANGED <<browserVars, handler, pipeClosed, resizeVars, sizer, shell, outVars>>

(* The end of the pipe becomes the end of the shell's input.               *)
CopyEnds ==
  /\ \/ copier.pc = "read" /\ pipeClosed
     \/ copier.pc = "send" /\ handler # "exec"
  /\ copier' = [pc |-> "done", chunk |-> 0]
  /\ shell' = [shell EXCEPT !.eof = TRUE]
  /\ UNCHANGED <<browserVars, handler, readLoopVars, sizer, outVars>>

(* The shell takes its input when it reads; nothing makes it read.         *)
ShellReads ==
  /\ copier.pc = "send" /\ shell.state = "running"
  /\ shell' = [shell EXCEPT !.input = Append(@, copier.chunk)]
  /\ copier' = [pc |-> "read", chunk |-> 0]
  /\ UNCHANGED <<browserVars, handler, readLoopVars, sizer, outVars>>

SizerLast ==                                                        (* mutant *)
  /\ sizer = "next" /\ queue # <<>>
  /\ shell' = [shell EXCEPT !.size = queue[Len(queue)]]
  /\ queue' = SubSeq(queue, 1, Len(queue) - 1)
  /\ UNCHANGED <<browserVars, handler, reader, pipeClosed, queueClosed, dropped,
                 copier, sizer, outVars>>

Resize ==
  /\ sizer = "next" /\ queue # <<>>
  /\ queue' = Tail(queue)
  /\ shell' = [shell EXCEPT !.size = Head(queue)]
  /\ UNCHANGED <<browserVars, handler, reader, pipeClosed, queueClosed, dropped,
                 copier, sizer, outVars>>

SizerEnds ==
  /\ sizer = "next" /\ queue = <<>> /\ queueClosed
  /\ sizer' = "done"
  /\ UNCHANGED <<browserVars, handler, readLoopVars, copier, shell, outVars>>

(* A chunk of output passes through the session's writer.                  *)
Write ==
  /\ output > 0
  /\ output' = output - 1
  /\ Say(<<"stdout">>)
  /\ UNCHANGED <<browserVars, handler, readLoopVars, copier, sizer, shell>>

-----------------------------------------------------------------------------
(* The shell, whose output is bounded.                                     *)

ShellPrints ==
  /\ shell.state = "running"
  /\ Len(screen) + output < MaxOutput
  /\ output' = output + 1
  /\ UNCHANGED <<browserVars, handler, readLoopVars, copier, sizer, shell, screen>>

(* It exits, or the stream to it breaks and loses output.                  *)
ShellExits ==
  /\ shell.state = "running"
  /\ shell' = [shell EXCEPT !.state = "exited"]
  /\ output' \in {output, 0}
  /\ UNCHANGED <<browserVars, handler, readLoopVars, copier, sizer, screen>>

-----------------------------------------------------------------------------
(* The goroutine of handlePodExec.                                         *)

(* ValidateExecTarget refuses before anything is started.                  *)
Refuse ==
  /\ handler = "validate"
  /\ Say(<<"error", "exit">>)
  /\ handler' = "done" /\ socket' = "closed"
  /\ UNCHANGED <<sent, inbox, readLoopVars, copier, sizer, shell, output>>

StartReading ==
  /\ handler = "validate"
  /\ handler' = "dial"
  /\ reader' = [reader EXCEPT !.pc = "read"]
  /\ UNCHANGED <<browserVars, pipeClosed, resizeVars, streamVars>>

(* Exec: the stream is set up, or is not, and then nobody reads the pipe.  *)
Attach ==
  /\ handler = "dial"
  /\ handler' = "exec"
  /\ copier' = [copier EXCEPT !.pc = "read"]
  /\ sizer' = "next"
  /\ shell' = [shell EXCEPT !.state = "running"]
  /\ UNCHANGED <<browserVars, readLoopVars, outVars>>

DialFails ==
  /\ handler = "dial"
  /\ Say(<<"error", "exit">>)
  /\ handler' = "close"
  /\ UNCHANGED <<browserVars, readLoopVars, copier, sizer, shell, output>>

(* Exec returns when the command is over and its output was written.       *)
Finish ==
  /\ handler = "exec" /\ shell.state = "exited" /\ output = 0
  /\ Say(<<"exit">>) \/ Say(<<"error", "exit">>)
  /\ handler' = "close"
  /\ UNCHANGED <<browserVars, readLoopVars, copier, sizer, shell, output>>

CloseSocketOnly ==                                                  (* mutant *)
  /\ handler = "close"
  /\ handler' = "done" /\ socket' = "closed"
  /\ UNCHANGED <<sent, inbox, readLoopVars, streamVars>>

(* stdinWriter.Close, then the deferred conn.Close.                        *)
Close ==
  /\ handler = "close"
  /\ \/ ~ pipeClosed /\ pipeClosed' = TRUE /\ UNCHANGED <<handler, socket>>
     \/ /\ pipeClosed /\ UNCHANGED pipeClosed
        /\ handler' = "done" /\ socket' = "closed"
  /\ UNCHANGED <<sent, inbox, reader, resizeVars, streamVars>>

Handler == Refuse \/ StartReading \/ Attach \/ DialFails \/ Finish \/ Close

-----------------------------------------------------------------------------
Next ==
  \/ \E type \in {"stdin", "resize", "other"} : Send(type)
  \/ Leave
  \/ ReadLoop
  \/ Copy \/ CopyEnds
  \/ Resize \/ SizerEnds
  \/ Write
  \/ ShellReads \/ ShellPrints \/ ShellExits
  \/ Handler

(* Goroutines go on while they can, and TCP gives a write up in the end.   *)
Fairness ==
  /\ WF_vars(ReadLoop) /\ WF_vars(Handler) /\ WF_vars(Write)
  /\ WF_vars(Copy \/ CopyEnds) /\ WF_vars(Resize \/ SizerEnds)

(* A shell that reads its input, and exits when that ends.                 *)
Polite == WF_vars(ShellReads) /\ WF_vars(shell.eof /\ ShellExits)

Spec == Init /\ [][Next]_vars /\ Fairness /\ Polite

-----------------------------------------------------------------------------
(* Frames are numbered as they are sent.                                   *)
Typed  == {n \in DOMAIN sent : sent[n].type = "stdin"}
Sizes  == {n \in DOMAIN sent : sent[n].type = "resize"}
Taken  == {shell.input[i] : i \in DOMAIN shell.input}

(* What the shell reads is what was typed, in order, once and without a    *)
(* gap, and when its input ends it has read all of it (readLoop, the pipe). *)
InputInOrder ==
  /\ \A i, j \in DOMAIN shell.input : i < j => shell.input[i] < shell.input[j]
  /\ Taken \subseteq Typed
  /\ \A n \in Taken, m \in Typed : m < n => m \in Taken
  /\ shell.state = "running" /\ shell.eof => Taken = Typed

(* Unless one was dropped, the size the shell ends up with is the last one *)
(* the browser sent (readLoop, Next).                                      *)
SizeIsLatest ==
  shell.state = "running" /\ inbox = <<>> /\ queue = <<>> /\ ~ dropped
    /\ Sizes # {}
  => shell.size \in Sizes /\ \A n \in Sizes : n <= shell.size

(* Nothing follows the exit message, above all no late output.             *)
ExitIsLast ==
  \A i \in 1 .. Len(screen) - 1 : screen[i] # "exit"

(* When the command is over every goroutine of the session ends, wherever  *)
(* it was blocked (handlePodExec closes the pipe before the socket).       *)
Ended ==
  /\ handler = "done" /\ reader.pc = "done"
  /\ copier.pc \in {"none", "done"} /\ sizer \in {"none", "done"}

NothingLeftBehind == shell.state = "exited" ~> Ended

(* exec.go:116-117: the websocket closing ends the shell, if the shell     *)
(* reads its input and exits at its end; and with it the session.          *)
LeavingEndsSession == socket = "left" ~> handler = "done"
=============================================================================
