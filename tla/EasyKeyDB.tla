------------------------------ MODULE EasyKeyDB ------------------------------
(***************************************************************************)
(* The whole system: the processes of module Client, the server's one      *)
(* thread, and the TCP connections between them, from the connect(2) of a  *)
(* process to its exit status.                                             *)
(*                                                                         *)
(* Each part that has a module of its own is what that module shows of it. *)
(* The database is a map (Database).  parse_request answers a request as   *)
(* Replies says, in one step; requests come from the same machine and do   *)
(* not take 300 ms to arrive (Handler).  The loop accepts when it accepts, *)
(* and takes one event after another (Server).  New here is the way back:  *)
(* send(2) and sendfile(2) into bounded buffers, processes that read some  *)
(* of an answer, none of it, or are gone, and signals in the middle.       *)
(***************************************************************************)
EXTENDS Client

CONSTANTS
  SendBuffer,      (* The bytes the server's kernel keeps for a client; at *)
                   (* least some KiB, so that success_header fits.         *)
  ReceiveBuffer,   (* The bytes the client's kernel keeps for it.          *)
  Segments,        (* Bound: the pieces in which the network delivers what *)
                   (* it does not deliver all at once.                     *)
  MaxTransfer,     (* 0x7ffff000: the most one sendfile(2) transfers.      *)
  Text             (* The text of a response that has one.                 *)

Answer == [status: {OK, CLIENT_ERROR}, body: Seq(Byte)]

ASSUME EasyKeyDBAssumption ==
  /\ SendBuffer \in Nat /\ SendBuffer >= Len(SuccessHeader)
  /\ ReceiveBuffer \in Nat \ {0} /\ Segments \subseteq Nat
  /\ MaxTransfer \in Nat \ {0}
  /\ Text \in Seq(Byte)
  /\ NULL \notin Process /\ NULL \notin Answer

VARIABLES
  server,     (* The process: up, stopped by a signal, killed by SIGPIPE.  *)
  running,    (* The loop's flag.                                          *)
  conn,       (* current_connections: the server's end of each connection. *)
  peer,       (* What the server's kernel knows of the other end.          *)
  outbox,     (* The send buffer of each connection.                       *)
  serving,    (* The client parse_request is answering, or NULL.           *)
  calls,      (* The calls of send(2) and sendfile(2) it has still to make *)
              (* or finish.                                                *)
  kv,         (* The database.                                             *)
  effect      (* History: what each request was answered, or NULL.         *)

serverVars == <<server, running, conn, peer, outbox, serving, calls, kv, effect>>
vars == <<clientVars, serverVars>>

TypeOK ==
  /\ ClientTypeOK
  /\ server \in {"up", "stopped", "killed"}
  /\ running \in BOOLEAN
  /\ conn \in [Process -> {"none", "open", "closed"}]
  /\ peer \in [Process -> {"open", "half", "reset", "broken"}]
  /\ outbox \in [Process -> Seq(Byte)]
  /\ serving \in Process \cup {NULL}
  /\ calls \in Seq([bytes: Seq(Byte), sendfile: BOOLEAN, started: BOOLEAN])
  /\ \A key \in DOMAIN kv : IsKeyValid(key) /\ kv[key] \in Seq(Byte)
  /\ effect \in [Process -> Answer \cup {NULL}]
  /\ \A c \in Process : Len(outbox[c]) <= SendBuffer /\ Len(inbox[c]) <= ReceiveBuffer

Init ==
  /\ ClientInit
  /\ server = "up"
  /\ running = TRUE
  /\ conn = [c \in Process |-> "none"]
  /\ peer = [c \in Process |-> "open"]
  /\ outbox = [c \in Process |-> <<>>]
  /\ serving = NULL
  /\ calls = <<>>
  /\ kv = <<>>
  /\ effect = [c \in Process |-> NULL]

Up == server = "up"
Gone(c) == pc[c] = "exited"

-----------------------------------------------------------------------------
(* The processes, and what their kernel tells the server's when they end:  *)
(* a FIN, or a reset, which throws away what was still to be sent.         *)

Hears(c) ==
  CASE Gone(c)' /\ link'[c] = "closed" ->
         peer' = [peer EXCEPT ![c] = "half"] /\ UNCHANGED outbox
    [] Gone(c)' /\ link'[c] = "aborted" ->
         /\ peer' = [peer EXCEPT ![c] = "reset"]
         /\ outbox' = [outbox EXCEPT ![c] = <<>>]
    [] OTHER -> UNCHANGED <<peer, outbox>>

ClientStep(c) ==
  /\ (Up /\ Connect(c)) \/ Run(c)
  /\ Hears(c)
  /\ UNCHANGED <<server, running, conn, serving, calls, kv, effect>>

ClientKilled(c) ==
  /\ Kill(c)
  /\ Hears(c)
  /\ UNCHANGED <<server, running, conn, serving, calls, kv, effect>>

-----------------------------------------------------------------------------
(* The network. *)

Deliver(c) ==
  /\ ~Gone(c)
  /\ \E n \in 1 .. Lower(Len(outbox[c]), ReceiveBuffer - Len(inbox[c])) :
       /\ n \in Segments \/ n = Lower(Len(outbox[c]), ReceiveBuffer - Len(inbox[c]))
       /\ inbox' = [inbox EXCEPT ![c] = @ \o SubSeq(outbox[c], 1, n)]
       /\ outbox' = [outbox EXCEPT ![c] = SubSeq(@, n + 1, Len(@))]
  /\ UNCHANGED <<command, pc, link, sent, response, status,
                 server, running, conn, peer, serving, calls, kv, effect>>

(* Data for a process that is gone is answered with a reset.  The server   *)
(* has its FIN already, so the error of the socket is EPIPE.               *)
Reject(c) ==
  /\ Gone(c)
  /\ outbox[c] # <<>>
  /\ peer' = [peer EXCEPT ![c] = "broken"]
  /\ outbox' = [outbox EXCEPT ![c] = <<>>]
  /\ UNCHANGED <<clientVars, server, running, conn, serving, calls, kv, effect>>

(* The FIN of the server comes behind its data, and a reset in answer to a *)
(* request that came too late.                                             *)
DeliverEnd(c) ==
  /\ conn[c] = "closed"
  /\ outbox[c] = <<>>
  /\ link[c] = "open"
  /\ link' = [link EXCEPT ![c] = IF sent[c] = "whole" /\ effect[c] = NULL THEN "reset" ELSE "eof"]
  /\ UNCHANGED <<command, pc, sent, inbox, response, status, serverVars>>

Network(c) == Deliver(c) \/ Reject(c) \/ DeliverEnd(c)

-----------------------------------------------------------------------------
(* The server's loop. *)

Idle == Up /\ serving = NULL

Accept(c) ==
  /\ Idle /\ running
  /\ conn[c] = "none"
  /\ link[c] # "none"
  /\ conn' = [conn EXCEPT ![c] = "open"]
  /\ UNCHANGED <<clientVars, server, running, peer, outbox, serving, calls, kv, effect>>

(* What parse_request sends: a response of its own, or for a value         *)
(* success_header and then the record from the file, both as they are.     *)
(* MSG_MORE keeps the header back for the record, but not longer than 200  *)
(* ms: that it is delivered alone is an answer that took longer.           *)
Sends(bytes) == [bytes |-> bytes, sendfile |-> FALSE, started |-> FALSE]
SendsFile(bytes) ==
  [bytes |-> SubSeq(bytes, 1, Lower(MaxTransfer, Len(bytes))), sendfile |-> TRUE, started |-> FALSE]
(* Mutant: status and text are sent one by one, like header and record.    *)
CallsForInPieces(request, answer) ==
  IF ~IsWrite(request) /\ answer.status = OK
    THEN <<Sends(SuccessHeader), SendsFile(Record(answer.body))>>
    ELSE <<Sends(<<V1, 2>> \o Message(<<answer.status>>)), Sends(Message(Text))>>
CallsFor(request, answer) ==
  IF ~IsWrite(request) /\ answer.status = OK
    THEN <<Sends(SuccessHeader), SendsFile(Record(answer.body))>>
    ELSE <<Sends(EncodeResponse(answer.status, Text))>>

(* A READ event: parse_request takes the request and acts on it.  One that *)
(* a signal has cut off makes it meet the end of the stream.               *)
Serve(c) ==
  /\ Idle /\ running
  /\ conn[c] = "open"
  /\ effect[c] = NULL
  /\ sent[c] # "nothing"
  /\ LET answer == IF sent[c] = "whole" THEN Reply(kv, Request(c)) ELSE Refusal
     IN  /\ effect' = [effect EXCEPT ![c] = answer]
         /\ calls' = CallsFor(Request(c), answer)
  /\ kv' = IF sent[c] = "whole" THEN Updated(kv, Request(c)) ELSE kv
  /\ serving' = c
  /\ UNCHANGED <<clientVars, server, running, conn, peer, outbox>>

(* A CLOSE_CONNECTION event, or an idle check that finds a process that    *)
(* has ended: what it sent is not read.  The check comes also when a       *)
(* signal has ended the wait.                                              *)
Disconnect(c) ==
  /\ Idle
  /\ conn[c] = "open"
  /\ peer[c] # "open"
  /\ conn' = [conn EXCEPT ![c] = "closed"]
  /\ outbox' = [outbox EXCEPT ![c] = <<>>]
  /\ UNCHANGED <<clientVars, server, running, peer, serving, calls, kv, effect>>

(* The idle check finds a process that has not asked for 300 seconds.  For *)
(* one that has its answer it does what Stop does: a FIN behind the data.  *)
CloseIdle(c) ==
  /\ Idle
  /\ conn[c] = "open"
  /\ peer[c] = "open"
  /\ sent[c] = "nothing"
  /\ conn' = [conn EXCEPT ![c] = "closed"]
  /\ UNCHANGED <<clientVars, server, running, peer, outbox, serving, calls, kv, effect>>

-----------------------------------------------------------------------------
(* ClientSocket::write, both of them.  The socket is blocking: a call      *)
(* waits until the send buffer has taken everything, or for an error.      *)

CallReturns ==
  /\ calls' = Tail(calls)
  /\ serving' = IF Tail(calls) = <<>> THEN NULL ELSE serving

(* Mutant: as much as there is room for is all that is sent. *)
SendsOnce ==
  /\ Up /\ calls # <<>>
  /\ peer[serving] \in {"open", "half"}
  /\ LET n == Lower(SendBuffer - Len(outbox[serving]), Len(Head(calls).bytes))
     IN  outbox' = [outbox EXCEPT ![serving] = @ \o SubSeq(Head(calls).bytes, 1, n)]
  /\ CallReturns
  /\ UNCHANGED <<clientVars, server, running, conn, peer, kv, effect>>
Send ==
  /\ Up /\ calls # <<>>
  /\ peer[serving] \in {"open", "half"}
  /\ LET call == Head(calls)
         n == Lower(SendBuffer - Len(outbox[serving]), Len(call.bytes))
         rest == SubSeq(call.bytes, n + 1, Len(call.bytes))
     IN  /\ n > 0
         /\ outbox' = [outbox EXCEPT ![serving] = @ \o SubSeq(call.bytes, 1, n)]
         /\ IF rest = <<>> THEN CallReturns
            ELSE /\ calls' = <<[call EXCEPT !.bytes = rest, !.started = TRUE]>> \o Tail(calls)
                 /\ UNCHANGED serving
  /\ UNCHANGED <<clientVars, server, running, conn, peer, kv, effect>>

(* What the kernels do to the connections of a server that ends: a reset   *)
(* where it had something it has not read, or has not accepted, a FIN      *)
(* otherwise.                                                              *)
ServerEnds(how) ==
  /\ server' = how
  /\ conn' = [c \in Process |-> IF conn[c] = "open" THEN "closed" ELSE conn[c]]
  /\ link' = [c \in Process |->
       IF link[c] = "open" /\ (conn[c] = "none" \/ (conn[c] = "open" /\ sent[c] # "nothing" /\ effect[c] = NULL))
         THEN "reset" ELSE link[c]]
  /\ UNCHANGED <<command, pc, sent, inbox, response, status, running, peer, outbox, kv, effect>>

(* Mutant: a call that failed is made again. *)
SendTriesAgain ==
  /\ Up /\ calls # <<>>
  /\ peer[serving] \in {"reset", "broken"}
  /\ UNCHANGED vars
(* A call that finds the connection broken.  What a send(2) has copied is  *)
(* its result, and the error stays for the next call.  ECONNRESET is       *)
(* reported once and EPIPE from then on, which comes with a SIGPIPE that   *)
(* nothing handles.                                                        *)
SendReportsError ==
  /\ Up /\ calls # <<>>
  /\ LET short == Head(calls).started /\ ~Head(calls).sendfile
     IN  /\ \/ peer[serving] = "reset"
            \/ peer[serving] = "broken" /\ short
         /\ peer' = IF short THEN peer ELSE [peer EXCEPT ![serving] = "broken"]
  /\ CallReturns
  /\ UNCHANGED <<clientVars, server, running, conn, outbox, kv, effect>>

BrokenPipe ==
  /\ Up /\ calls # <<>>
  /\ peer[serving] = "broken"
  /\ Head(calls).sendfile \/ ~Head(calls).started
  /\ ServerEnds("killed")
  /\ UNCHANGED <<serving, calls>>

(* SIGTERM or SIGINT.  A call that has copied something returns it and is  *)
(* taken for done: when it waits for room it does, and when it is just     *)
(* getting some it may.  Others are not disturbed, or made again by the    *)
(* kernel (signal(3) sets SA_RESTART).                                     *)
Interrupts == calls # <<>> /\ Head(calls).started /\ CallReturns
Waits ==
  /\ calls # <<>> /\ Head(calls).started
  /\ Len(outbox[serving]) = SendBuffer /\ peer[serving] \in {"open", "half"}
Signal ==
  /\ Up
  /\ running' = FALSE
  /\ Interrupts \/ (~Waits /\ UNCHANGED <<serving, calls>>)
  /\ UNCHANGED <<clientVars, server, conn, peer, outbox, kv, effect>>

(* The loop ends before the next event. *)
Stop ==
  /\ Idle /\ ~running
  /\ ServerEnds("stopped")
  /\ UNCHANGED <<serving, calls>>

ServerStep ==
  \/ \E c \in Process : Serve(c) \/ Disconnect(c)
  \/ Send \/ SendReportsError \/ BrokenPipe
  \/ Stop

Next ==
  \/ \E c \in Process :
       ClientStep(c) \/ ClientKilled(c) \/ Network(c) \/ Accept(c) \/ CloseIdle(c)
  \/ ServerStep
  \/ Signal

Spec == Init /\ [][Next]_vars

(* The processes and the server's thread run on and the network delivers.  *)
(* Nothing has to be accepted (see EveryConnectionAccepted in Server),     *)
(* killed, found idle, or stopped by a signal.                             *)
FairSpec ==
  /\ Spec
  /\ WF_vars(ServerStep)
  /\ \A c \in Process : WF_vars(ClientStep(c)) /\ WF_vars(Network(c))

-----------------------------------------------------------------------------
(* The whole answer to a client. *)
AnswerBytes(c) ==
  IF ~IsWrite(Request(c)) /\ effect[c].status = OK
    THEN SuccessHeader \o Record(effect[c].body)
    ELSE EncodeResponse(effect[c].status, Text)

(* Once the server has turned to something else, a client that is still    *)
(* there and has not begun to read has the answer before it or on its way, *)
(* header and record in one piece and from the beginning, however often    *)
(* the send buffer was full.  It is the whole answer, unless the record is *)
(* longer than one sendfile transfers or the server is being stopped: a    *)
(* signal that comes while the answer is sent may cut it.                  *)
AnswersComplete ==
  \A c \in Process :
    (effect[c] # NULL /\ serving # c /\ pc[c] = "waiting") =>
      LET arriving == inbox[c] \o outbox[c]
      IN  /\ \E n \in 0 .. Len(AnswerBytes(c)) : arriving = SubSeq(AnswerBytes(c), 1, n)
          /\ (running /\ Len(Record(effect[c].body)) <= MaxTransfer)
               => arriving = AnswerBytes(c)

(* What a successful cli-read shows is of the value of its key and of no   *)
(* other: the bytes of the record that follow what the first read has      *)
(* returned, as many as the second read has, and zeros.  It is never       *)
(* longer than the value, and begins where the value begins when the first *)
(* read returned all it was asked for.                                     *)
ShownFromRecord ==
  \A c \in Process :
    (status[c] = "success" /\ ~IsWrite(Request(c))) =>
      /\ Request(c).key \in DOMAIN kv
      /\ LET value == kv[Request(c).key]
             record == Record(value)
             shown == response[c].array
             from == response[c].read_size - Len(SuccessHeader)
         IN  /\ Len(shown) <= Len(value)
             /\ \E n \in 0 .. Lower(Len(shown), Len(record) - from) :
                  shown = Filled(SubSeq(record, from + 1, from + n), Len(shown))
             /\ response[c].read_size = HeaderSize => Len(shown) = Len(value)

(* A client takes the server down only by being gone when a second call    *)
(* for it is made or a sendfile goes on: while it was to be sent a value.  *)
(* Whoever writes, asks for what is not there or asks wrongly cannot.      *)
DiesOnlySendingValues ==
  server = "killed" =>
    /\ serving # NULL
    /\ Gone(serving)
    /\ ~IsWrite(Request(serving))
    /\ effect[serving].status = OK

(* To their users the processes are one map: a request takes effect at     *)
(* most once, at one moment, and a process that exits with 0 was granted   *)
(* what it asked.                                                          *)
Told == [c \in Process |->
  CASE status[c] = "running" -> NULL
    [] status[c] = "success" -> "success"
    [] OTHER -> "failure"]
S == INSTANCE Service WITH
  Asked <- {argv[c].request : argv \in CommandLines, c \in Process},
  asked <- [c \in Process |-> Request(c)],
  told <- Told
ImplementsService == S!Spec

(* A process whose connection was accepted ends, whatever becomes of the   *)
(* others and of the server, also when its answer is larger than buffers.  *)
ProcessesEnd == \A c \in Process : conn[c] = "open" ~> Gone(c)

(* The one thread comes back from every answer, or dies of it: processes   *)
(* that take only a part of an answer and end do not hold it.              *)
ServerReturns == serving # NULL ~> (serving = NULL \/ ~Up)

-----------------------------------------------------------------------------
(* "Reads the exaclty size" (easykeyv1-clients.c:116): a successful        *)
(* cli-read that has got the whole header, and so the size of the value,   *)
(* shows the value.                                                        *)
ShownIsValue ==
  \A c \in Process :
    (status[c] = "success" /\ ~IsWrite(Request(c)) /\ response[c].read_size = HeaderSize)
      => response[c].array = kv[Request(c).key]
=============================================================================
