------------------------------- MODULE Server -------------------------------
(***************************************************************************)
(* The event loop: class Server of source/server.cpp, on the notifier of   *)
(* module IONotifier, with the TCP clients it serves and the signals       *)
(* main.cpp routes to Server::stop.                                        *)
(*                                                                         *)
(* One thread runs the loop.  Between two of its steps clients connect,    *)
(* send, take in answers and close, time passes, and signals arrive; they  *)
(* also do while a call that answers a client is blocked.                  *)
(*                                                                         *)
(* What a request says is the Handler's matter; here requests are counted, *)
(* in pieces.  A piece is what one run of parse_request takes.  A request  *)
(* with a valid key that arrives in time is one piece.  One that is        *)
(* refused leaves its value in the stream, one that times out its rest:    *)
(* they come in several pieces, and each of them is answered.              *)
(***************************************************************************)
EXTENDS Integers, Sequences, FiniteSets

CONSTANTS
  Client,
  Listener,             (* socket.file_descriptor                           *)
  MaxFd,                (* The process may open MaxFd descriptors more.     *)
  MaxEvents,            (* See IONotifier.                                  *)
  CountModulus,
  UninitializedCounts,
  PendingConnections,   (* 10 in main.cpp: the length of the backlog.       *)
  MaxOutstanding,       (* The requests each client sends ahead of answers. *)
  Pieces,               (* The pieces a request of each client may come in. *)
  CheckEvery,           (* 1000: iterations between two idle checks.        *)
  IdleLimit,            (* 300: the seconds after which a client is idle.   *)
  TickLength,           (* Bound: the seconds that pass in one Tick.        *)
  NULL

(* What the server keeps of a ClientSocket: the time since last_seen, and  *)
(* the pieces in read_buffer.                                              *)
Connection == [idle: 0 .. IdleLimit, buffered: Nat]

ASSUME ServerAssumption ==
  /\ Listener \in Int /\ MaxFd \in Nat /\ Listener \notin 1 .. MaxFd
  /\ MaxEvents \in Nat \ {0} /\ PendingConnections \in Nat \ {0}
  /\ CountModulus \in Nat \ {0} /\ UninitializedCounts \subseteq 0 .. CountModulus - 1
  /\ MaxOutstanding \in [Client -> Nat] /\ Pieces \in [Client -> Nat \ {0}]
  /\ CheckEvery \in Nat \ {0} /\ IdleLimit \in Nat /\ TickLength \in Nat \ {0}
  /\ NULL \notin Client /\ NULL \notin Connection

VARIABLES
  pc,           (* Where the server's thread is.                            *)
  running,
  iterations,
  events,       (* The events of this batch still to be handled.            *)
  current_connections,  (* The Connection of each descriptor, or NULL.      *)
  interest, ready, tracked_file_descriptors_count, call_failed,
                (* See IONotifier.                                          *)
  socket_of,    (* The kernel's open client sockets: whose each one is.     *)
  backlog,      (* Clients waiting to be accepted.                          *)
  inbox,        (* The pieces in the receive buffer of a client's socket.   *)
  phase,        (* Each client: not connected yet, connected, or has closed *)
                (* its side.                                                *)
  outstanding,  (* The requests for which a client expects an answer.       *)
  silence       (* History: the time since each client was accepted, or     *)
                (* since the server last took up a request of it.           *)

callVars == <<interest, tracked_file_descriptors_count, call_failed>>
notifierVars == <<callVars, ready>>
serverVars == <<pc, running, iterations, events>>
clientVars == <<backlog, inbox, phase, outstanding>>
connectionVars == <<current_connections, socket_of>>
vars == <<serverVars, connectionVars, notifierVars, clientVars, silence>>

Loop == {"wait", "timeout", "dispatch", "answering"}
Ended == {"exited", "failed", "terminated", "killed"}
Alive == pc \notin Ended

ClientFd == 1 .. MaxFd
FileDescriptor == ClientFd \cup {Listener}
Open == {fd \in ClientFd : socket_of[fd] # NULL}

(* poll(2) on each descriptor, when the thread is in epoll_wait: its       *)
(* answers have gone out and there is room for more.  A peer that has      *)
(* closed makes a socket readable too.                                     *)
Condition == [fd \in FileDescriptor |->
  IF fd = Listener THEN (IF backlog = <<>> THEN {} ELSE {"READ"})
  ELSE IF socket_of[fd] = NULL THEN {}
  ELSE LET c == socket_of[fd]
       IN  {"WRITE"} \cup (IF inbox[c] > 0 THEN {"READ"} ELSE {})
                     \cup (IF phase[c] = "shut" THEN {"READ", "CLOSE_CONNECTION"} ELSE {})]

N == INSTANCE IONotifier WITH condition <- Condition, returned <- events

TypeOK ==
  /\ pc \in {"main", "registered", "listening", "stopped", "closing"} \cup Loop \cup Ended
  /\ running \in BOOLEAN
  /\ iterations \in 0 .. CheckEvery - 1
  /\ current_connections \in [ClientFd -> Connection \cup {NULL}]
  /\ socket_of \in [ClientFd -> Client \cup {NULL}]
  /\ N!TypeOK
  /\ backlog \in Seq(Client)
  /\ inbox \in [Client -> Nat]
  /\ phase \in [Client -> {"new", "connected", "shut"}]
  /\ outstanding \in [Client -> Nat]
  /\ silence \in [Client -> 0 .. IdleLimit]

Init ==
  /\ pc = "main"
  /\ running \in BOOLEAN    \* no constructor sets it
  /\ iterations = 0
  /\ events = <<>>
  /\ current_connections = [fd \in ClientFd |-> NULL]
  /\ interest = [fd \in FileDescriptor |-> {}]
  /\ ready = <<>>
  /\ tracked_file_descriptors_count \in UninitializedCounts
  /\ call_failed = FALSE
  /\ socket_of = [fd \in ClientFd |-> NULL]
  /\ backlog = <<>>
  /\ inbox = [c \in Client |-> 0]
  /\ phase = [c \in Client |-> "new"]
  /\ outstanding = [c \in Client |-> 0]
  /\ silence = [c \in Client |-> 0]

Accepted(c) == \E fd \in ClientFd : socket_of[fd] = c
SocketOf(c) == CHOOSE fd \in ClientFd : socket_of[fd] = c
Queued(c) == \E i \in DOMAIN backlog : backlog[i] = c

(* The thread is in the calls that answer the client of a socket. *)
Serves(fd) == pc = "answering" /\ Head(events).file_descriptor = fd

-----------------------------------------------------------------------------
(* The clients, the clock and the signals. *)

Connect(c) ==
  /\ pc \in {"listening", "stopped", "closing"} \cup Loop
  /\ phase[c] = "new"
  /\ Len(backlog) < PendingConnections
  /\ backlog' = Append(backlog, c)
  /\ phase' = [phase EXCEPT ![c] = "connected"]
  /\ N!Wake(Listener)
  /\ UNCHANGED <<serverVars, connectionVars, callVars, inbox, outstanding, silence>>

(* Data or an end of stream arrives: epoll hears of it on an open socket. *)
WakeSocketOf(c) ==
  IF Accepted(c) THEN N!Wake(SocketOf(c)) ELSE UNCHANGED ready

(* All requests of the client are taken whole. *)
Whole(c) == Pieces[c] = 1

(* Bound: no client sends while so much of what it sent is not taken.      *)
Buffered(c) ==
  IF Accepted(c) THEN current_connections[SocketOf(c)].buffered ELSE 0
HasRoom(c, pieces) ==
  inbox[c] + Buffered(c) + pieces <= MaxOutstanding[c] * Pieces[c]

Send(c) ==
  /\ Alive
  /\ phase[c] = "connected"
  /\ Accepted(c) \/ Queued(c)    \* the server has not closed the connection
  /\ outstanding[c] < MaxOutstanding[c]
  /\ \E pieces \in 1 .. Pieces[c] :
       /\ Whole(c) \/ HasRoom(c, pieces)
       /\ inbox' = [inbox EXCEPT ![c] = @ + pieces]
  /\ outstanding' = [outstanding EXCEPT ![c] = @ + 1]
  /\ WakeSocketOf(c)
  /\ UNCHANGED <<serverVars, connectionVars, callVars, backlog, phase, silence>>

CloseClient(c) ==
  /\ Alive
  /\ phase[c] = "connected"
  /\ phase' = [phase EXCEPT ![c] = "shut"]
  /\ WakeSocketOf(c)
  /\ UNCHANGED <<serverVars, connectionVars, callVars, backlog, inbox, outstanding, silence>>

(* The client takes in so much of its answers that a send buffer that was  *)
(* full has room again: epoll hears of that too.                           *)
TakeIn(c) ==
  /\ Alive
  /\ phase[c] = "connected"
  /\ Accepted(c)
  /\ WakeSocketOf(c)
  /\ UNCHANGED <<serverVars, connectionVars, callVars, clientVars, silence>>

Older(age) == IF age + TickLength < IdleLimit THEN age + TickLength ELSE IdleLimit
Tick ==
  /\ Alive
  /\ \E fd \in ClientFd : current_connections[fd] # NULL
  /\ current_connections' = [fd \in ClientFd |->
       IF current_connections[fd] = NULL THEN NULL
       ELSE [current_connections[fd] EXCEPT !.idle = Older(@)]]
  /\ silence' = [c \in Client |-> IF Accepted(c) THEN Older(silence[c]) ELSE silence[c]]
  /\ UNCHANGED <<serverVars, socket_of, notifierVars, clientVars>>

(* SIGTERM or SIGINT: gracefully_termination, then Server::stop. *)
Signal ==
  /\ Alive
  /\ running' = FALSE
  /\ UNCHANGED <<pc, iterations, events, connectionVars, notifierVars, clientVars, silence>>

-----------------------------------------------------------------------------
(* The server's thread: start(), up to the loop.  bind or listen may fail, *)
(* and what they throw nothing catches.                                    *)

Register ==
  /\ pc = "main"
  /\ pc' = "registered"
  /\ N!add_event(Listener, {"READ"}, Condition[Listener])
  /\ UNCHANGED <<running, iterations, events, connectionVars, clientVars, silence>>

Listen ==
  /\ pc = "registered"
  /\ pc' \in {"listening", "failed"}
  /\ UNCHANGED <<running, iterations, events, connectionVars, notifierVars,
                 clientVars, silence>>

EnterLoop ==
  /\ pc = "listening"
  /\ pc' = "wait"
  /\ running' = TRUE
  /\ iterations' = 0
  /\ UNCHANGED <<events, connectionVars, notifierVars, clientVars, silence>>

(* Mutant: idle connections are closed after every wait. *)
CheckAfterWait(batch) == "timeout"
(* Idle connections are looked for when the batch is empty. *)
AfterWait(batch) == IF batch = <<>> THEN "timeout" ELSE "dispatch"

WaitForEvents ==
  /\ pc = "wait"
  /\ N!wait_for_events
  /\ pc' = AfterWait(events')
  /\ UNCHANGED <<running, iterations, connectionVars, clientVars, silence>>

(* Mutant: erase, whose close(2) takes the descriptor out of epoll, comes  *)
(* before delete_event, which then fails.                                  *)
UnregisterClosed(fds) ==
  /\ interest' = [fd \in FileDescriptor |-> IF fd \in fds THEN {} ELSE interest[fd]]
  /\ ready' = N!Only(ready, FileDescriptor \ fds)
  /\ tracked_file_descriptors_count' =
       (tracked_file_descriptors_count - Cardinality(fds)) % CountModulus
  /\ call_failed' = (call_failed \/ fds # {})
Unregister(fds) == N!delete_events(fds)

(* Mutant: the connection is not erased, so its socket stays open. *)
DisconnectWithoutErase(fds) ==
  /\ Unregister(fds)
  /\ UNCHANGED <<connectionVars, clientVars, silence>>
(* handle_client_disconnected for each descriptor of a set: erase destroys *)
(* the ClientSocket, which closes it; what was not read is gone, and its   *)
(* client expects nothing any more.                                        *)
Disconnect(fds) ==
  /\ Unregister(fds)
  /\ current_connections' = [fd \in ClientFd |-> IF fd \in fds THEN NULL ELSE current_connections[fd]]
  /\ socket_of' = [fd \in ClientFd |-> IF fd \in fds THEN NULL ELSE socket_of[fd]]
  /\ LET Left(of) == [c \in Client |-> IF \E fd \in fds : socket_of[fd] = c THEN 0 ELSE of[c]]
     IN  inbox' = Left(inbox) /\ outstanding' = Left(outstanding) /\ silence' = Left(silence)
  /\ UNCHANGED <<backlog, phase>>

(* check_idle_connections *)

IsIdle(age) == age >= IdleLimit
IdleConnections ==
  {fd \in ClientFd : current_connections[fd] # NULL /\ IsIdle(current_connections[fd].idle)}

CheckAfterTimeout ==
  /\ pc = "timeout"
  /\ pc' = "dispatch"
  /\ Disconnect(IdleConnections)
  /\ UNCHANGED <<running, iterations, events>>

-----------------------------------------------------------------------------
(* One event of the batch. *)

Handling(type) ==
  /\ pc = "dispatch"
  /\ running
  /\ events # <<>>
  /\ IF type = "CONNECTION" THEN Head(events).file_descriptor = Listener
     ELSE /\ Head(events).file_descriptor # Listener
          /\ Head(events).type = type

(* The socket of a new client gets the lowest descriptor that is free. *)
LowestFree == CHOOSE fd \in ClientFd \ Open : \A other \in ClientFd \ Open : fd <= other

(* handle_new_connection accepts one client, whatever the backlog holds,   *)
(* and registers it.  What happened to the socket while it was waiting to  *)
(* be accepted is announced then.                                          *)
HandleNewConnection ==
  /\ Handling("CONNECTION")
  /\ backlog # <<>>
  /\ ClientFd \ Open # {}
  /\ LET c == Head(backlog)
         fd == LowestFree
         now == {"WRITE"} \cup (IF inbox[c] > 0 THEN {"READ"} ELSE {})
                          \cup (IF phase[c] = "shut" THEN {"READ", "CLOSE_CONNECTION"} ELSE {})
     IN  /\ backlog' = Tail(backlog)
         /\ socket_of' = [socket_of EXCEPT ![fd] = c]
         /\ N!add_event(fd, N!EventType, now)
         /\ current_connections' = [current_connections EXCEPT ![fd] =
                                      IF @ = NULL THEN [idle |-> 0, buffered |-> 0] ELSE @]
         /\ silence' = [silence EXCEPT ![c] = 0]
  /\ events' = Tail(events)
  /\ UNCHANGED <<pc, running, iterations, inbox, phase, outstanding>>

(* Mutant: accepts until accept(2) fails, with nothing to catch that. *)
AcceptUntilItFails ==
  /\ Handling("CONNECTION")
  /\ Len(backlog) <= 1 \/ ClientFd \ Open = {}
  /\ pc' = "terminated"
  /\ UNCHANGED <<running, iterations, events, connectionVars, notifierVars,
                 clientVars, silence>>
(* accept(2) fails when nobody waits or no descriptor is free, and nothing *)
(* catches what accept_connection throws.                                  *)
AcceptFails ==
  /\ Handling("CONNECTION")
  /\ backlog = <<>> \/ ClientFd \ Open = {}
  /\ pc' = "terminated"
  /\ UNCHANGED <<running, iterations, events, connectionVars, notifierVars,
                 clientVars, silence>>

HandleClientDisconnected ==
  /\ Handling("CLOSE_CONNECTION")
  /\ Disconnect({Head(events).file_descriptor})
  /\ events' = Tail(events)
  /\ UNCHANGED <<pc, running, iterations>>

(* Mutant: last_seen is not updated. *)
SeenBefore(connection) == connection
(* last_seen is updated. *)
Seen(connection) == [connection EXCEPT !.idle = 0]

(* Mutant: one piece more goes with those that were taken. *)
UnbufferedTwice(available, taken) == available - taken - 1
(* Mutant: what was taken stays in the buffer. *)
UnbufferedKept(available, taken) == available
(* What a parse takes leaves the buffer. *)
Unbuffered(available, taken) == available - taken

(* handle_request: parse_request takes from read_buffer, and reads all the *)
(* socket has when that does not hold what it asks for.  From one with     *)
(* whole requests it takes one; from any other as much as it likes.        *)
(* Nothing to be read, and it gives up after 300 ms.  Then it answers.     *)
HandleRequest ==
  /\ Handling("READ")
  /\ LET fd == Head(events).file_descriptor
         c == socket_of[fd]
         buffered == current_connections[fd].buffered
     IN  \E reads \in BOOLEAN :
           LET available == buffered + (IF reads THEN inbox[c] ELSE 0)
           IN  /\ buffered = 0 => reads
               /\ (buffered > 0 /\ Whole(c)) => ~reads
               /\ \E taken \in 0 .. available :
                    /\ taken = 0 <=> available = 0
                    /\ Whole(c) => taken <= 1
                    /\ current_connections' = [current_connections EXCEPT ![fd] =
                         [Seen(@) EXCEPT !.buffered = Unbuffered(available, taken)]]
               /\ inbox' = IF reads THEN [inbox EXCEPT ![c] = 0] ELSE inbox
         /\ silence' = [silence EXCEPT ![c] = 0]
  /\ pc' = "answering"
  /\ UNCHANGED <<running, iterations, events, socket_of, notifierVars,
                 backlog, phase, outstanding>>

(* Who is not waited for any more has got an answer it does not expect. *)
Answered(expected) == IF expected = 0 THEN 0 ELSE expected - 1

(* send(2) and sendfile(2) return: at once when the socket's buffer has    *)
(* room for the answer, else when the client takes it in or is gone, or    *)
(* when a signal interrupts them; none of that need ever happen.           *)
SendReturns ==
  /\ pc = "answering"
  /\ pc' = "dispatch"
  /\ LET c == socket_of[Head(events).file_descriptor]
     IN  outstanding' = [outstanding EXCEPT ![c] = Answered(@)]
  /\ events' = Tail(events)
  /\ UNCHANGED <<running, iterations, connectionVars, notifierVars,
                 backlog, inbox, phase, silence>>

(* Or they raise SIGPIPE, because the client is gone: the process ends. *)
BrokenPipe ==
  /\ pc = "answering"
  /\ phase[socket_of[Head(events).file_descriptor]] = "shut"
  /\ pc' = "killed"
  /\ UNCHANGED <<running, iterations, events, connectionVars, notifierVars,
                 clientVars, silence>>

IgnoreEvent ==
  /\ Handling("WRITE")
  /\ events' = Tail(events)
  /\ UNCHANGED <<pc, running, iterations, connectionVars, notifierVars, clientVars, silence>>

(* "while waiting for events, or processing some event, the server         *)
(* requested to stop": the rest of the batch is not handled.               *)
BreakBatch ==
  /\ pc = "dispatch"
  /\ ~running
  /\ events # <<>>
  /\ events' = <<>>
  /\ UNCHANGED <<pc, running, iterations, connectionVars, notifierVars, clientVars, silence>>

-----------------------------------------------------------------------------
(* The end of an iteration, and of the loop. *)

(* Mutant: while (true). *)
LoopForever == "wait"
(* while (running). *)
LoopCondition == IF running THEN "wait" ELSE "stopped"

EndIteration ==
  /\ pc = "dispatch"
  /\ events = <<>>
  /\ iterations + 1 < CheckEvery
  /\ iterations' = iterations + 1
  /\ pc' = LoopCondition
  /\ UNCHANGED <<running, events, connectionVars, notifierVars, clientVars, silence>>

(* Mutant: nothing but the timeout looks for idle connections. *)
EndIterationWithoutCheck ==
  /\ pc = "dispatch"
  /\ events = <<>>
  /\ iterations + 1 = CheckEvery
  /\ iterations' = 0
  /\ pc' = LoopCondition
  /\ UNCHANGED <<running, events, connectionVars, notifierVars, clientVars, silence>>
(* "Every 1000 iterations, we check for idle connections". *)
EndIterationWithCheck ==
  /\ pc = "dispatch"
  /\ events = <<>>
  /\ iterations + 1 = CheckEvery
  /\ iterations' = 0
  /\ Disconnect(IdleConnections)
  /\ pc' = LoopCondition
  /\ UNCHANGED <<running, events>>

Unlisten ==
  /\ pc = "stopped"
  /\ pc' = "closing"
  /\ N!delete_event(Listener)
  /\ UNCHANGED <<running, iterations, events, connectionVars, clientVars, silence>>

(* ~Server: epoll's descriptor, then every connection, then the listener   *)
(* is closed.                                                              *)
Destroy ==
  /\ pc = "closing"
  /\ pc' = "exited"
  /\ interest' = [fd \in FileDescriptor |-> {}]
  /\ ready' = <<>>
  /\ current_connections' = [fd \in ClientFd |-> NULL]
  /\ socket_of' = [fd \in ClientFd |-> NULL]
  /\ backlog' = <<>>
  /\ inbox' = [c \in Client |-> 0]
  /\ UNCHANGED <<running, iterations, events, tracked_file_descriptors_count,
                 call_failed, phase, outstanding, silence>>

HandleEvent ==
  \/ HandleNewConnection \/ AcceptFails \/ HandleClientDisconnected
  \/ HandleRequest \/ IgnoreEvent \/ BreakBatch

ServerStep ==
  \/ Register \/ Listen \/ EnterLoop
  \/ WaitForEvents \/ CheckAfterTimeout
  \/ HandleEvent
  \/ EndIteration \/ EndIterationWithCheck
  \/ Unlisten \/ Destroy

ClientStep == \E c \in Client : Connect(c) \/ Send(c) \/ TakeIn(c) \/ CloseClient(c)

CallReturns == SendReturns \/ BrokenPipe

Next == ServerStep \/ CallReturns \/ ClientStep \/ Tick \/ Signal

Spec == Init /\ [][Next]_vars

(* The scheduler runs the thread when it can run: epoll_wait returns after *)
(* at most ten seconds and a read after 300 ms.  Nothing is assumed of     *)
(* clients and signals, nor that a call that answers a client returns.     *)
FairSpec == Spec /\ WF_vars(ServerStep)

-----------------------------------------------------------------------------
(* The program's idea of who is connected is the kernel's: the keys of     *)
(* current_connections are the open sockets, they are what the notifier    *)
(* watches beside the listener, and no client has two.  Otherwise a        *)
(* descriptor leaks, or one that was closed is used.                       *)
ConnectionsMirrorDescriptors ==
  /\ \A fd \in ClientFd : current_connections[fd] # NULL <=> socket_of[fd] # NULL
  /\ N!Registered \ {Listener} = Open
  /\ \A fd, other \in Open : socket_of[fd] = socket_of[other] => fd = other
  /\ \A fd \in Open : ~Queued(socket_of[fd])

(* The events still to be handled in a batch are about what they were      *)
(* about when epoll_wait returned them, though earlier events of the batch *)
(* closed and reused descriptors: a READ finds its connection and          *)
(* something to read (so no parse begins by waiting 300 ms for nothing), a *)
(* CLOSE_CONNECTION a connection whose peer has closed, the listener's     *)
(* event a client to accept.  The connection that is being answered stays. *)
PendingEventsAreLive ==
  pc \in {"dispatch", "answering"} =>
    /\ \A i, j \in DOMAIN events :
         events[i].file_descriptor = events[j].file_descriptor => i = j
    /\ \A i \in DOMAIN events :
         LET fd == events[i].file_descriptor
         IN  IF fd = Listener THEN backlog # <<>>
             ELSE /\ current_connections[fd] # NULL
                  /\ (events[i].type = "READ" /\ ~Serves(fd)) => inbox[socket_of[fd]] > 0
                  /\ events[i].type = "CLOSE_CONNECTION" => phase[socket_of[fd]] = "shut"

(* No request of a client whose requests are taken whole is lost or        *)
(* answered twice while its connection lasts, also when several were read  *)
(* at once: what it has no answer to is in its socket, in its read_buffer  *)
(* or being answered.  Of a client whose requests are not the code answers *)
(* the pieces (ReplyPerRequest in Handler).                                *)
RequestsAccountedFor ==
  /\ \A c \in Client : (Queued(c) /\ Whole(c)) => outstanding[c] = inbox[c]
  /\ \A fd \in Open :
       LET c == socket_of[fd]
       IN  (Alive /\ Whole(c) /\ current_connections[fd] # NULL) =>
             outstanding[c] = inbox[c] + current_connections[fd].buffered
                                + (IF Serves(fd) THEN 1 ELSE 0)

(* A client that waits for the answer to a request before it sends         *)
(* another, and whose requests are taken whole.                            *)
Patient(c) == MaxOutstanding[c] <= 1 /\ Whole(c)

(* What an open connection has for the server, the notifier still has to   *)
(* report, or has reported in the batch at hand: a close by any client,    *)
(* and a request by a patient one.  Edge-triggered epoll says everything   *)
(* once: what is forgotten is forgotten for good.  A server that was told  *)
(* to stop drops its batch.                                                *)
Announced(fd, types) ==
  \/ fd \in N!Members(ready)
  \/ \E i \in DOMAIN events : events[i].file_descriptor = fd /\ events[i].type \in types
NothingForgotten ==
  running => \A fd \in Open :
    /\ phase[socket_of[fd]] = "shut" => Announced(fd, {"CLOSE_CONNECTION"})
    /\ (inbox[socket_of[fd]] > 0 /\ Patient(socket_of[fd]))
         => Announced(fd, {"READ", "CLOSE_CONNECTION"})

(* accept(2) fails in the loop only for want of a descriptor, never        *)
(* because the client the listener's event announced is gone.              *)
DiesOnlyAtDescriptorLimit == pc = "terminated" => Open = ClientFd

(* No epoll_ctl the server makes ever fails: no descriptor is added twice, *)
(* and none is deleted after the close that took it out of epoll.          *)
NotifierCallsSucceed == ~call_failed

(* A connection is closed only when its peer has closed it, when no        *)
(* request of it was taken up for IdleLimit, or at the end; and no         *)
(* connection takes over the descriptor of another in one step.            *)
ClosedForAReason ==
  [][\A fd \in Open : socket_of'[fd] # socket_of[fd] =>
        /\ socket_of'[fd] = NULL
        /\ \/ phase[socket_of[fd]] = "shut"
           \/ silence[socket_of[fd]] = IdleLimit
           \/ pc = "closing"]_vars

(* Every call that answers a client returns: the client takes its answer   *)
(* in or closes.  send(2) and sendfile(2) have no timeout, so whatever the *)
(* loop is still to do rests on this.                                      *)
AnswersTakenIn == []<>(pc # "answering")

(* A patient client gets its answer, unless the connection or the server   *)
(* ends, however far others send ahead and whatever they send, as long as  *)
(* they take in their answers.                                             *)
Waiting(c) == Alive /\ Accepted(c) /\ outstanding[c] > 0
RequestsAnswered ==
  AnswersTakenIn => \A c \in Client : (Patient(c) /\ Waiting(c)) ~> ~Waiting(c)

(* An idle connection is closed, also when other clients keep the server   *)
(* busy so that epoll_wait never times out, unless it speaks up or the     *)
(* server ends.                                                            *)
IdleConnection(c) ==
  Alive /\ \E fd \in ClientFd : socket_of[fd] = c /\ current_connections[fd].idle = IdleLimit
IdleConnectionsClosed ==
  AnswersTakenIn => \A c \in Client : IdleConnection(c) ~> ~IdleConnection(c)

(* Once the loop sees running cleared, it ends and everything is closed,   *)
(* or it has ended otherwise before.                                       *)
StopsWhenAsked == AnswersTakenIn => ((pc \in Loop /\ ~running) ~> pc \in Ended)

-----------------------------------------------------------------------------
(* What the project's documents say of the program.                        *)

(* "If there is a client awaiting to be accepted, we accept"               *)
(* (Readme.md:96).                                                         *)
EveryConnectionAccepted == \A c \in Client : Queued(c) ~> ~(Queued(c) /\ Alive /\ running)
=============================================================================
