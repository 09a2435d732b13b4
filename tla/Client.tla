------------------------------- MODULE Client -------------------------------
(***************************************************************************)
(* The command line clients cli-write and cli-read over the client library *)
(* of clients/easykeyv1-clients.c.  A process makes one connection, writes *)
(* one request, reads one response with two calls of read(2), prints it    *)
(* and ends; its exit status says whether the response was OK.  It may be  *)
(* killed anywhere.                                                        *)
(*                                                                         *)
(* The module has no specification of its own: EasyKeyDB puts the server   *)
(* and the connections between the two around it.                          *)
(***************************************************************************)
EXTENDS Replies

CONSTANTS
  Process,
  CommandLines,   (* What the processes are started with: functions that   *)
                  (* give each the request of its argv, and whether its    *)
                  (* value is the name of a file.                          *)
  NULL

VARIABLES
  command,    (* argv of each process.                                     *)
  pc,         (* Where main is.                                            *)
  link,       (* The connection, as the kernel of the process knows it.    *)
  sent,       (* How much of the request write(2) has taken.               *)
  inbox,      (* The receive buffer of the socket.                         *)
  response,   (* What read_response made of the answer, or NULL.           *)
  status      (* The exit status.                                          *)

(* cli-read sends one message and cli-write two.  No write has a key that  *)
(* is refused: what becomes of its value, which stays in the stream, is a  *)
(* matter of bytes (ReplyPerRequest in Handler).                           *)
ASSUME ClientAssumption ==
  \A argv \in CommandLines :
    /\ DOMAIN argv = Process
    /\ \A c \in Process :
         LET request == argv[c].request
         IN  /\ request.messages \in {1, 2}
             /\ request.key \in Seq(Byte)
             /\ request.value \in Seq(Byte) /\ SizeFits(request.value)
             /\ IsWrite(request) => IsKeyValid(request.key)

clientVars == <<command, pc, link, sent, inbox, response, status>>

Request(c) == command[c].request

ClientTypeOK ==
  /\ command \in CommandLines
  /\ pc \in [Process -> {"main", "connected", "waiting", "sized", "exited"}]
  /\ link \in [Process -> {"none", "open", "eof", "reset", "closed", "aborted"}]
  /\ sent \in [Process -> {"nothing", "part", "whole"}]
  /\ inbox \in [Process -> Seq(Byte)]
  /\ \A c \in Process : response[c] = NULL \/
       /\ response[c].read_size \in 0 .. HeaderSize
       /\ response[c].status_code \in Byte
       /\ response[c].array \in Seq(Byte)
  /\ status \in [Process -> {"running", "success", "failure", "crash"}]

ClientInit ==
  /\ command \in CommandLines
  /\ pc = [c \in Process |-> "main"]
  /\ link = [c \in Process |-> "none"]
  /\ sent = [c \in Process |-> "nothing"]
  /\ inbox = [c \in Process |-> <<>>]
  /\ response = [c \in Process |-> NULL]
  /\ status = [c \in Process |-> "running"]

-----------------------------------------------------------------------------
(* main, up to the request. *)

(* The process ends, and its memory with it, but for what it has printed.  *)
(* The kernel closes the socket: with a reset when something in it was not *)
(* read.                                                                   *)
Exits(c, outcome, shown, unread) ==
  /\ pc' = [pc EXCEPT ![c] = "exited"]
  /\ status' = [status EXCEPT ![c] = outcome]
  /\ response' = [response EXCEPT ![c] = shown]
  /\ inbox' = [inbox EXCEPT ![c] = <<>>]
  /\ link' = [link EXCEPT ![c] =
       IF @ = "none" THEN @ ELSE IF unread = <<>> THEN "closed" ELSE "aborted"]

ExitsEarly(c, outcome) == Exits(c, outcome, NULL, inbox[c])

Connect(c) ==
  /\ pc[c] = "main"
  /\ pc' = [pc EXCEPT ![c] = "connected"]
  /\ link' = [link EXCEPT ![c] = "open"]
  /\ UNCHANGED <<command, sent, inbox, response, status>>

(* exit(errno) *)
ConnectFails(c) ==
  /\ pc[c] = "main"
  /\ ExitsEarly(c, "failure")
  /\ UNCHANGED <<command, sent>>

(* The file of the value cannot be opened or read; connected already.      *)
FileFails(c) ==
  /\ pc[c] = "connected"
  /\ command[c].from_file
  /\ ExitsEarly(c, "failure")
  /\ UNCHANGED <<command, sent>>

(* write_request: write(2) on a blocking socket takes the whole request.   *)
(* A peer that has closed answers it with a reset.                         *)
WriteRequest(c) ==
  /\ pc[c] = "connected"
  /\ link[c] # "reset"
  /\ pc' = [pc EXCEPT ![c] = "waiting"]
  /\ sent' = [sent EXCEPT ![c] = "whole"]
  /\ link' = [link EXCEPT ![c] = IF @ = "eof" THEN "reset" ELSE @]
  /\ UNCHANGED <<command, inbox, response, status>>

(* ECONNRESET, which is reported, or SIGPIPE, which ends the process. *)
WriteFails(c) ==
  /\ pc[c] = "connected"
  /\ link[c] = "reset"
  /\ ExitsEarly(c, "failure") \/ ExitsEarly(c, "crash")
  /\ UNCHANGED <<command, sent>>

-----------------------------------------------------------------------------
(* read_response.  read(2) waits for something to return: bytes that have  *)
(* arrived, at most as many as it is asked for, the end of the stream, or  *)
(* an error.                                                               *)

Lower(m, n) == IF m < n THEN m ELSE n
(* Mutant: whatever has arrived, whatever was asked for. *)
TakenAll(c, size) == Len(inbox[c])
(* At most what was asked for. *)
TakenBy(c, size) == Lower(size, Len(inbox[c]))

CanRead(c, size) == size = 0 \/ inbox[c] # <<>> \/ link[c] = "eof"
CannotRead(c, size) == size # 0 /\ inbox[c] = <<>> /\ link[c] = "reset"

(* A buffer that calloc or an initializer has zeroed, after read(2). *)
Filled(bytes, size) == [i \in 1 .. size |-> IF i <= Len(bytes) THEN bytes[i] ELSE 0]

(* Mutant: everything but an error is a success. *)
SucceedsUnlessError(code) == code # CLIENT_ERROR
(* bool success = response->status_code == OK *)
Succeeds(code) == code = OK

(* The first read: the header, or the part of it that has arrived.  Any    *)
(* other number of messages than two makes read_response return NULL,      *)
(* which main gives to print_server_response without a look.               *)
ReadHeader(c) ==
  /\ pc[c] = "waiting"
  /\ CanRead(c, HeaderSize)
  /\ LET n == TakenBy(c, HeaderSize)
         buffer == Filled(SubSeq(inbox[c], 1, n), HeaderSize)
         rest == SubSeq(inbox[c], n + 1, Len(inbox[c]))
     IN  IF ResponseMessages(buffer) # 2 THEN Exits(c, "crash", NULL, rest)
         ELSE /\ pc' = [pc EXCEPT ![c] = "sized"]
              /\ inbox' = [inbox EXCEPT ![c] = rest]
              /\ response' = [response EXCEPT ![c] =
                   [read_size |-> n, status_code |-> ResponseStatus(buffer),
                    array |-> Filled(<<>>, ResponseSize(buffer))]]
              /\ UNCHANGED <<link, status>>
  /\ UNCHANGED <<command, sent>>

(* main prints the response, frees everything and returns.  The value of a *)
(* write that did not come from a file is argv's memory: free(3) of it is  *)
(* undefined, and either ends the process or does not.                     *)
Returns(c, reply, unread) ==
  IF Succeeds(reply.status_code) THEN Exits(c, "success", reply, unread)
                                 ELSE Exits(c, "failure", NULL, unread)
FreesArgv(c, unread) ==
  /\ IsWrite(Request(c)) /\ ~command[c].from_file
  /\ Exits(c, "crash", NULL, unread)

(* Mutant: waits until it has everything, or the stream ends. *)
HasWholeValue(c, size) == Len(inbox[c]) >= size \/ link[c] = "eof"
(* The second read: the value, from wherever the first read has stopped,   *)
(* or the part of it that has arrived; then the rest of main.              *)
HasSomeValue(c, size) == CanRead(c, size)

ReadValue(c) ==
  /\ pc[c] = "sized"
  /\ LET size == Len(response[c].array)
         n == TakenBy(c, size)
         reply == [response[c] EXCEPT !.array = Filled(SubSeq(inbox[c], 1, n), size)]
         rest == SubSeq(inbox[c], n + 1, Len(inbox[c]))
     IN  /\ HasSomeValue(c, size)
         /\ Returns(c, reply, rest) \/ FreesArgv(c, rest)
  /\ UNCHANGED <<command, sent>>

(* read_response returns NULL here too. *)
ReadFails(c) ==
  /\ \/ pc[c] = "waiting" /\ CannotRead(c, HeaderSize)
     \/ pc[c] = "sized" /\ CannotRead(c, Len(response[c].array))
  /\ ExitsEarly(c, "crash")
  /\ UNCHANGED <<command, sent>>

-----------------------------------------------------------------------------
(* What the process does without a server to connect to. *)
Run(c) ==
  \/ ConnectFails(c) \/ FileFails(c)
  \/ WriteRequest(c) \/ WriteFails(c)
  \/ ReadHeader(c) \/ ReadValue(c) \/ ReadFails(c)

(* A signal, also in the middle of write(2). *)
Kill(c) ==
  /\ pc[c] \notin {"main", "exited"}
  /\ ExitsEarly(c, "crash")
  /\ \/ UNCHANGED sent
     \/ /\ pc[c] = "connected" /\ link[c] = "open"
        /\ sent' = [sent EXCEPT ![c] = "part"]
  /\ UNCHANGED command
=============================================================================
