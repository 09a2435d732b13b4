------------------------------ MODULE Handler -------------------------------
(***************************************************************************)
(* One connection, byte by byte: Handler::parse_request of                 *)
(* source/easykey.cpp, the ByteBuffer it takes its bytes from, and the     *)
(* read callback of ClientSocket that fills the buffer.                    *)
(*                                                                         *)
(* TCP delivers what the client wrote in segments of any size.  A segment  *)
(* that arrives makes an edge-triggered event; the server then calls       *)
(* parse_request, which takes one request from the buffer and blocks in    *)
(* read(2) for what is missing, at most 300 ms at a time, until it answers *)
(* in calls that take as long as the client likes.  The database is the    *)
(* map that Database implements (see ImplementsKVStore there).             *)
(***************************************************************************)
EXTENDS Replies

CONSTANTS
  Request,          (* The requests the client may make.                   *)
  MaxRequests,      (* Bound: the requests it makes.                       *)
  MaxOutstanding,   (* The requests it makes ahead of their answers.       *)
  ReceiveBuffer,    (* The bytes the kernel keeps for the server to read.  *)
  BufferSize        (* 1 MiB: the most one read(2) takes.                  *)

(* What write_request can send: the number of messages is a uint8_t.       *)
ASSUME HandlerAssumption ==
  /\ \A request \in Request :
       /\ request.messages \in Byte
       /\ request.key \in Seq(Byte) /\ SizeFits(request.key)
       /\ request.value \in Seq(Byte) /\ SizeFits(request.value)
  /\ MaxRequests \in Nat /\ MaxOutstanding \in Nat
  /\ ReceiveBuffer \in Nat \ {0} /\ BufferSize \in Nat \ {0}

VARIABLES
  requests,   (* History: the requests the client has made.                *)
  wire,       (* Bytes on their way to the server.                         *)
  prompt,     (* Whether what is on its way arrives within 300 ms, and no  *)
              (* signal interrupts a read meanwhile; a network is prompt   *)
              (* or not from beginning to end.                             *)
  inbox,      (* Bytes in the receive buffer of the socket.                *)
  event,      (* epoll has something to say of the socket.                 *)
  buffer,     (* read_buffer: the bytes read(2) returned, still to be used. *)
  pc,         (* What parse_request is about to take from the buffer, or   *)
              (* "responding" while a call answers the client.             *)
  messages, size, first_message,  (* Its variables: the second is the size *)
                                  (* of the message it takes next.         *)
  kv,         (* The database.                                             *)
  answers,    (* The responses given to send(2) and sendfile(2).           *)
  lost        (* History: parse_request has given up a request in its      *)
              (* middle.                                                   *)

RR == INSTANCE RequestReply

parseVars == <<messages, size, first_message>>
clientVars == <<requests, wire, prompt>>
vars == <<clientVars, inbox, event, buffer, pc, parseVars, kv, answers, lost>>

Items == {"protocol", "messages", "first_size", "first", "second_size", "second"}

TypeOK ==
  /\ requests \in Seq(Request)
  /\ wire \in Seq(Byte) /\ inbox \in Seq(Byte) /\ buffer \in Seq(Byte)
  /\ prompt \in BOOLEAN /\ event \in BOOLEAN /\ lost \in BOOLEAN
  /\ pc \in {"idle", "responding"} \cup Items
  /\ messages \in Byte /\ size \in Nat /\ first_message \in Seq(Byte)
  /\ \A key \in DOMAIN kv : IsKeyValid(key) /\ kv[key] \in Seq(Byte)
  /\ answers \in Seq([status: {OK, CLIENT_ERROR}, body: Seq(Byte)])

Init ==
  /\ requests = <<>> /\ wire = <<>> /\ inbox = <<>> /\ buffer = <<>>
  /\ prompt \in BOOLEAN
  /\ event = FALSE
  /\ pc = "idle"
  /\ messages = 0 /\ size = 0 /\ first_message = <<>>
  /\ kv = <<>>
  /\ answers = <<>>
  /\ lost = FALSE

-----------------------------------------------------------------------------
(* The client and the network. *)

Send(request) ==
  /\ Len(requests) < MaxRequests
  /\ Len(requests) - Len(answers) < MaxOutstanding
  /\ requests' = Append(requests, request)
  /\ wire' = wire \o EncodeRequest(request)
  /\ UNCHANGED <<prompt, inbox, event, buffer, pc, parseVars, kv, answers, lost>>

(* What there is no room for waits, and the client's write(2) with it. *)
Deliver ==
  /\ \E n \in 1 .. Len(wire) :
       /\ n <= ReceiveBuffer - Len(inbox)
       /\ inbox' = inbox \o SubSeq(wire, 1, n)
       /\ wire' = SubSeq(wire, n + 1, Len(wire))
  /\ event' = TRUE
  /\ UNCHANGED <<requests, prompt, buffer, pc, parseVars, kv, answers, lost>>

(* The event loop: an event with data to read is a READ and is handled; an *)
(* event whose data parse_request has read meanwhile is a mere WRITE.      *)
BeginRequest ==
  /\ pc = "idle" /\ event /\ inbox # <<>>
  /\ event' = FALSE
  /\ pc' = "protocol"
  /\ UNCHANGED <<clientVars, inbox, buffer, parseVars, kv, answers, lost>>

IgnoreEvent ==
  /\ pc = "idle" /\ event /\ inbox = <<>>
  /\ event' = FALSE
  /\ UNCHANGED <<clientVars, inbox, buffer, pc, parseVars, kv, answers, lost>>

-----------------------------------------------------------------------------
(* ByteBuffer and the read callback. *)

(* The bytes the next get_integer1, get_integer4 or get_next asks for. *)
Requested ==
  CASE pc \in {"protocol", "messages"} -> 1
    [] pc \in {"first_size", "second_size"} -> 4
    [] pc \in {"first", "second"} -> size
    [] OTHER -> 0

(* Mutant: one byte more than is asked for. *)
MoreThanRequested == Len(buffer) > Requested
(* buffer.size() >= size. *)
Satisfied == Len(buffer) >= Requested

Parsing(at) == pc = at /\ Satisfied

(* ensure_has_requested calls source_trigger until it has enough or the    *)
(* source gives nothing.                                                   *)
ReadSocket ==
  /\ pc \in Items /\ ~Satisfied /\ inbox # <<>>
  /\ LET n == IF Len(inbox) < BufferSize THEN Len(inbox) ELSE BufferSize
     IN  /\ buffer' = buffer \o SubSeq(inbox, 1, n)
         /\ inbox' = SubSeq(inbox, n + 1, Len(inbox))
  /\ UNCHANGED <<clientVars, event, pc, parseVars, kv, answers, lost>>

(* Mutant: what else has been read is dropped. *)
PoppedAll(n) == <<>>
(* The buffer without the n bytes it returns. *)
Popped(n) == SubSeq(buffer, n + 1, Len(buffer))

(* The bytes get_next returns. *)
Taken(n) == SubSeq(buffer, 1, n)

(* The bytes of an answer go out in one or two calls. *)
Respond(answer) == answers' = Append(answers, answer) /\ pc' = "responding"

(* A request that is given up before it was all taken from the stream: the *)
(* rest of it is taken for another.                                        *)
GiveUp == Respond(Refusal) /\ lost' = TRUE

(* send(2) and sendfile(2) return when there is room for the answer in the *)
(* buffers of the kernel, which may take the client for ever to make.      *)
SendReturns ==
  /\ pc = "responding"
  /\ pc' = "idle"
  /\ UNCHANGED <<clientVars, inbox, event, buffer, parseVars, kv, answers, lost>>

(* Mutant: a socket that does not block, as in accept_connection's comment. *)
DoesNotWait == TRUE
(* A read waits 300 ms for what is on its way. *)
HasWaited == prompt => wire = <<>>

(* Mutant: a read that waits for ever. *)
NeverTimesOut == FALSE
(* read(2) returned nothing: after 300 ms, at the end of the stream, or    *)
(* interrupted by a signal.  EmptyBufferException ends parse_request; what *)
(* it has taken from the buffer is gone, what is in the buffer stays.      *)
ReadTimeout ==
  /\ pc \in Items /\ ~Satisfied /\ inbox = <<>>
  /\ HasWaited
  /\ GiveUp
  /\ UNCHANGED <<clientVars, inbox, event, buffer, parseVars, kv>>

-----------------------------------------------------------------------------
(* parse_request. *)

(* The version byte, then the number of messages; each may be refused.     *)
ParseProtocol ==
  /\ Parsing("protocol")
  /\ buffer' = Popped(1)
  /\ IF buffer[1] = V1 THEN pc' = "messages" /\ UNCHANGED <<answers, lost>>
                       ELSE GiveUp
  /\ UNCHANGED <<clientVars, inbox, event, parseVars, kv>>

ParseMessages ==
  /\ Parsing("messages")
  /\ buffer' = Popped(1)
  /\ messages' = buffer[1]
  /\ IF buffer[1] \in {1, 2} THEN pc' = "first_size" /\ UNCHANGED <<answers, lost>>
                             ELSE GiveUp
  /\ UNCHANGED <<clientVars, inbox, event, size, first_message, kv>>

ParseSize(at, next) ==
  /\ Parsing(at)
  /\ buffer' = Popped(4)
  /\ size' = Deserialize4(buffer)
  /\ pc' = next
  /\ UNCHANGED <<clientVars, inbox, event, messages, first_message, kv, answers, lost>>

ParseFirstMessage ==
  /\ Parsing("first")
  /\ buffer' = Popped(size)
  /\ first_message' = Taken(size)
  /\ UNCHANGED <<clientVars, inbox, event, messages, size, kv>>

(* Whether the key is all there is of the request is not looked at. *)
InvalidKey ==
  /\ ParseFirstMessage
  /\ ~IsKeyValid(first_message')
  /\ IF messages = 1 THEN Respond(Refusal) /\ UNCHANGED lost ELSE GiveUp

ReadKey ==
  /\ ParseFirstMessage
  /\ IsKeyValid(first_message')
  /\ messages = 1
  /\ Respond(Found(kv, first_message'))
  /\ UNCHANGED lost

WantValue ==
  /\ ParseFirstMessage
  /\ IsKeyValid(first_message')
  /\ messages = 2
  /\ pc' = "second_size"
  /\ UNCHANGED <<answers, lost>>

(* Mutant: the value of a key that is there already is replaced. *)
Replaced(map, key, content) ==
  [k \in DOMAIN map \cup {key} |-> IF k = key THEN content ELSE map[k]]
(* Database::write. *)
Stored(map, key, content) == Inserted(map, key, content)

WriteKey ==
  /\ Parsing("second")
  /\ buffer' = Popped(size)
  /\ kv' = Stored(kv, first_message, Taken(size))
  /\ Respond(Success(<<>>))
  /\ UNCHANGED <<clientVars, inbox, event, parseVars, lost>>

HandlerStep ==
  \/ BeginRequest \/ IgnoreEvent \/ ReadSocket
  \/ ParseProtocol \/ ParseMessages
  \/ ParseSize("first_size", "first") \/ ParseSize("second_size", "second")
  \/ InvalidKey \/ ReadKey \/ WantValue \/ WriteKey

Next ==
  \/ \E request \in Request : Send(request)
  \/ Deliver
  \/ HandlerStep
  \/ ReadTimeout
  \/ SendReturns

Spec == Init /\ [][Next]_vars

(* The thread runs on and a read that has nothing to read times out.  A    *)
(* prompt network delivers; nothing is assumed of others, nor that a call  *)
(* that answers the client returns.                                        *)
FairSpec ==
  /\ Spec
  /\ WF_vars(HandlerStep \/ ReadTimeout)
  /\ WF_vars(prompt /\ Deliver)

-----------------------------------------------------------------------------
(* A read or a write, and no write with a key that is refused. *)
WellFormed(request) ==
  request.messages \in {1, 2} /\ (IsWrite(request) => IsKeyValid(request.key))

(* On a prompt network the server never loses its place in the stream of a *)
(* client that makes well-formed requests: it gives up none of them in its *)
(* middle, however they are cut into segments and reads, and however       *)
(* little of them the buffers hold.                                        *)
PlaceKept ==
  (prompt /\ \A i \in DOMAIN requests : WellFormed(requests[i])) => ~lost

(* As long as it has given up none, the server stands between two requests *)
(* where a request begins: what it has not used of the stream is exactly   *)
(* the encoding of the requests that have no answer.                       *)
Encoded[n \in 0 .. Len(requests)] ==
  IF n = 0 THEN <<>> ELSE Encoded[n - 1] \o EncodeRequest(requests[n])
StreamAligned ==
  (pc \in {"idle", "responding"} /\ ~lost) =>
    /\ Len(answers) <= Len(requests)
    /\ Encoded[Len(requests)] =
         Encoded[Len(answers)] \o buffer \o inbox \o wire

(* Until a request is given up, requests are answered in order, once each, *)
(* and from the state the earlier ones made; the one that is given up is   *)
(* refused and changes nothing.                                            *)
ImplementsRequestReply == RR!Spec

(* Whatever the client sends and however slowly, parse_request comes to an *)
(* answer: no read holds the one thread for ever.  (An answer may.)        *)
HandlerResponds == pc \in Items ~> pc = "responding"

(* On a prompt network a request of which nothing has reached the server   *)
(* when the one before it is answered gets its answer, and not that of a   *)
(* timeout, however little of it the buffers of the kernel hold: the       *)
(* server takes in all of what it does not refuse, and never waits for a   *)
(* client that waits for it.  A client that waits for its answers makes    *)
(* only such requests; one that does not may have part of a request in     *)
(* read_buffer by then.  The answers before must be taken in.              *)
AnswersTakenIn == []<>(pc # "responding")
Untouched == pc \in {"idle", "responding"} /\ buffer = <<>> /\ inbox = <<>>
EveryRequestAnswered ==
  AnswersTakenIn =>
    \A n \in 1 .. MaxRequests :
      (/\ prompt /\ ~lost /\ Untouched
       /\ Len(answers) = n - 1 /\ n \in DOMAIN requests) ~>
      (Len(answers) = n /\ n \in DOMAIN requests /\ (WellFormed(requests[n]) => ~lost))

-----------------------------------------------------------------------------
(* What the project's documents say of the program.                        *)

=============================================================================
