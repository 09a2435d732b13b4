# A verification project for EasyKeyDB

EasyKeyDB is a key-value store in C++: one thread, one epoll, values appended to
five files of `/tmp`, an index in memory, a small binary protocol ("Know Nothing"),
and command line clients in C. This directory holds TLA+ specifications of it, the
configurations that model-check them with TLC, and proofs that TLAPS checks.
Every definition was translated from the source; `PROJECT.json` names the lines each
one stands for.

## 1. Inventory

| Part | State | Operations | What makes it correct |
|---|---|---|---|
| `Database` (`source/easykey.cpp`) | `opened_files`, the index `stored` | constructor (truncates), `write`, `read` | an index entry points at the record of its key and nothing ever disturbs it; the engine is a map |
| `Handler` (`source/easykey.cpp`) | the database; locals of `parse_request` | `parse_request` | one answer to each request, in order; parsing starts where a request starts |
| `ByteBuffer` (`source/byte_buffer.cpp`) | a queue of bytes | `get_integer1`, `get_integer4`, `get_next`, `ensure_has_requested` | no byte lost, doubled or reordered, however the stream is cut; every read ends |
| `ClientSocket`, `ServerSocket` (`source/socket.cpp`) | a descriptor, `last_seen`, `read_buffer` | accept, read callback (300 ms), `send`, `sendfile`, close | every descriptor is closed once; what is sent is what was asked to be sent |
| `IONotifier` (`source/io_notifier.cpp`) | epoll's registrations and ready list, `tracked_file_descriptors_count` | `add_event`, `delete_event`, `wait_for_events` | an announced occurrence is reported |
| `Server` (`source/server.cpp`) | `running`, `iterations`, `current_connections`, the batch | `start`, `stop`, `handle_*`, `check_idle_connections` | connections mirror descriptors, events of a batch are not stale, clients are served, idle ones are closed, stop stops |
| `main` (`main.cpp`) | `server_ptr`, `handler` | installs signal handlers, starts the server | a signal ends the server |
| client library (`clients/easykeyv1-clients.c`) | request and response buffers | `write_request`, `read_response`, `free_*` | a response is read whole, memory is freed by its owner |
| `cli-write`, `cli-read` (`clients/EasyKeyV1Client-Cli-*.c`) | one request per process | `main` | the exit status tells the truth |
| interactive demo (`clients/EasyKeyV1Client-Interactive.c`) | the menu's variables, stdio's buffer | `main`, `fork_p` | what the user asks for is what runs |
| import script (`clients/import-files.py`) | none that lasts | runs `cli-write` file by file | |

Interactions. `main` makes the `Server` and calls `start`. `start` asks the
`IONotifier` for a batch of events and handles them one by one: the listener's event
accepts one client and registers it; a `CLOSE_CONNECTION` unregisters the client and
erases its `ClientSocket`, which closes the descriptor; a `READ` stamps `last_seen`
and calls `Handler::parse_request` through `on_message`. The handler takes bytes from
the connection's `ByteBuffer`, whose trigger blocks in `read(2)`, uses the `Database`,
and answers with `send` and `sendfile`, which block while the client's buffers are full.
Signal handlers call `Server::stop` between any two instructions, and interrupt the
call that is blocked. A client process
connects, writes one request, reads the answer with two calls of `read(2)` and ends;
the demo forks, and the child becomes such a process.

What is hard here: the interleaving of clients, kernel, clock and signals with the steps of
the loop; edge-triggered notification, which says everything once; batches whose events go
stale while they are handled; descriptors that are reused; a byte stream without boundaries
and a timeout in the middle of it; writes that the device cuts short; calls that block as long
as a client likes, or that a signal cuts; answers that arrive in pieces at readers who do not
wait for the rest; processes that end, or are killed, at any point of a request or an answer;
counters and limits (batch of 32, backlog of 10, descriptor limit, 1000 iterations, 300
seconds). `PROJECT.json` lists the hazards line by line.

## 2. Modules

| Module | Models | Composed with |
|---|---|---|
| `KVStore` | abstract: the map the database promises | refined by `Database` |
| `Database` | the storage engine | |
| `Database_proofs` | theorems about `Database` | extends `Database` |
| `Lists` | epoll's list of descriptors (pure functions) | used by `IONotifier` |
| `Lists_proofs` | lemmas about lists, sequences and induction | extends `Lists` |
| `IONotifier` | the notifier over edge-triggered epoll | instanced by `Server` |
| `IONotifier_proofs` | theorems about `IONotifier` | extends `IONotifier` |
| `Server` | the event loop, its clients, clock and signals | instances `IONotifier` |
| `Server_proofs` | theorems about `Server` | extends `Server` |
| `KnowNothing` | the encoding of requests and responses (pure functions) | used by `Replies` |
| `KnowNothing_proofs` | theorems about `KnowNothing` | extends `KnowNothing` |
| `Replies` | what a request does to the map and is answered (pure functions) | extended by `RequestReply`, `Service`, `Client`, `Handler` |
| `RequestReply` | abstract: what one client may expect of its connection | refined by `Handler` |
| `Handler` | one connection byte by byte: TCP segments, `ByteBuffer`, `parse_request` | extends `Replies`, instances `RequestReply` |
| `Handler_proofs` | theorems about `Handler` | extends `Handler` |
| `Service` | abstract: what the whole system promises the users of its clients | refined by `EasyKeyDB` |
| `Client` | the processes `cli-write` and `cli-read` over the client library | extended by `EasyKeyDB` |
| `EasyKeyDB` | the whole system: processes, connections, the server's thread, answers on their way | extends `Client`, instances `Service` |
| `EasyKeyDB_proofs` | theorems about `EasyKeyDB` | extends `EasyKeyDB` |
| `Interactive` | the demo's parent and child on one stdin | |
| `Interactive_proofs` | theorems about `Interactive` | extends `Interactive` |
| `MC*` | constants for TLC | extend their module |

### Database
`opened_files` maps each of the `NUMBER_OF_FILES` files to its bytes, `stored` each key
to its `FileStorage` or `NULL`. A byte is a pair of the value it belongs to and its
position in that value's record, so a slice of a file equals a record exactly when no
byte is missing, moved or overwritten. `Write` is the whole of `Database::write` and
the answer of `parse_request`: hash by key size, `lseek` to the end, the record (four
bytes of size, then the value), `write(2)` accepting some of its bytes (0 also
stands for -1, which the code reports on stderr and otherwise ignores), and
`unordered_map::insert`, which leaves an entry that is there. `Accepted` says how many:
all, or one of the bounded set `Cuts`. `ReadFound` sends what `sendfile` finds at the
entry's place, up to the end of the file; `Restart` truncates everything, as the
constructor does. `origin` is a history variable: the write that made an entry, and how
much of it the device took. `KVStore` is the promise: a map in which a key keeps its
first value, except that of a key whose own first write was cut (`damaged`) nothing is
promised but that it is found.

### IONotifier
`interest` (registrations), `ready` (epoll's list, each descriptor at most once),
`condition` (what `poll` would say) and `returned` (the last batch). `wait_for_events`
takes the first `MaxEvents` descriptors that still have something to report and gives
each the one type the code's if-chain picks: close, then read, then write. The count
follows the code: `const bool success = epoll_ctl(...)` is true for -1, so it moves on
failures only, modulo the width of a `uint32_t`. `call_failed` is a history variable: some
`epoll_ctl` has failed.

### Server
The thread's `pc` walks through `start`: registered, listening, wait, timeout (an empty
batch: the idle check), dispatch, answering, stopped, closing, exited; `failed` when `bind`
or `listen` throw, `terminated` when `accept_connection` throws in the loop, `killed` by
SIGPIPE. One event of the batch is one action, because clients and signals act between
them; a `READ` is two, `HandleRequest` (`parse_request` up to its answer) and the return of
the call that answers, `SendReturns` or `BrokenPipe`, because that call blocks as long as
the client does not take its answer in. Each action is the whole handler: `Disconnect`
unregisters, erases, closes and discards unread data; `HandleNewConnection` accepts one
client, takes the lowest free descriptor, registers it and inserts it. Clients connect,
send, take in answers and close; `Tick` lets time pass; `Signal` is `stop` called from a
handler. `running` starts with any value: no constructor sets it.

Requests are counted in pieces. A piece is what one run of `parse_request` takes: the whole
of a request with a valid key that arrives in time, but of one that is refused or times out
only what came before the early return (`easykey.cpp:138`, `:151`, `:172`, `:214-223`); the
rest stays in `read_buffer` or the socket, is taken by later runs, and each of them is
answered. `Pieces[c]` bounds the pieces a request of `c` may come in; with 1 (`Whole`) a run
takes exactly one request. `inbox` counts the pieces in the socket, `buffered` those in
`read_buffer`, `outstanding` the requests for which a client expects an answer. `silence` is
a history variable, the model's own clock of when a request of a client was last taken up,
so that closing for idleness is not judged by the `last_seen` it is based on.

### Handler
`wire`, `inbox`, `buffer` hold the bytes on the way, in the socket and in `read_buffer`;
the socket holds `ReceiveBuffer` bytes, and what there is no room for waits.
`pc` says what `parse_request` takes next. `Parsing(at)` is a `get_...` that is
satisfied; while it is not, `ReadSocket` is one `read(2)` of the trigger and
`ReadTimeout` a `read(2)` that returned nothing, with the `EmptyBufferException` and its
error response. The other actions are the branches of `parse_request` with their early
returns. Those that leave a part of the request in the stream are `GiveUp`, and the history
variable `lost` remembers that one has happened: from then on what is parsed is whatever
stands there. Each answer is given to calls that return (`SendReturns`) when the client
makes room for it, if ever. `prompt` says whether the network delivers everything within the
300 ms of a read, in which no signal interrupts a read either; it is chosen at the
beginning. The database is the map that `Database` is shown to implement. Answers are a
status and a value; the texts of messages are left out. `RequestReply` is the promise: requests
are answered in order, one answer each, until one is given up; that one is refused and
changes nothing; after it nothing is promised.

The layout of a request on the wire is the code's: `write_request` sends and `parse_request`
takes size, message, size, message (`EncodeRequest` of `KnowNothing`). The document of the
protocol has another (section 3).

### Client and EasyKeyDB
`EasyKeyDB` puts the parts together, each as the module of its own shows it: the database
is a map (`Database`), a request is parsed and answered in one step (`Handler`; it comes
from 127.0.0.1 and takes no 300 ms), the loop takes one event after another (`Server`).
What is new is the way back. `outbox` and `inbox` are the bounded buffers of the two
kernels. `Serve` makes the list of `calls` that `parse_request` still owes `serving`: one
`send` of a response, or a `send` of `success_header` and a `sendfile` of the record,
of which `sendfile` transfers `MaxTransfer` bytes at most. `Send` copies what there is
room for and waits for the rest, and the thread with it. `Deliver` brings what there is room
for, or one of the bounded set of pieces `Segments`. `Signal` may come at any moment: a call
that waits for room after it has copied something returns then (`Waits`), one that is in the
middle of copying may (`Interrupts`), and since the code compares the result with -1 only, the
rest of the answer is never sent. The loop ends before its next event (`Stop`). `peer` is what the server's
kernel knows of the client: a process that ends with unread data resets the
connection (`reset`: the next call reports ECONNRESET, later ones EPIPE), one that does
not sends a FIN (`half`), and data sent to it after that is answered with a reset
(`broken`: EPIPE). EPIPE comes with SIGPIPE: `BrokenPipe`, the end of the server.

The processes follow `main`: `Connect`, `FileFails`, `WriteRequest`, then `ReadHeader` and
`ReadValue`, one `read(2)` each, which return any part of what they ask for. What the
first has not returned of the header is zero, and the second starts where it stopped.
`read_response` returns NULL where the number of messages is not 2, and `main` then uses
NULL: `crash`. `FreesArgv` is the undefined `free` of argv's memory, which may crash or not.
`Kill` is a signal at any point, in the middle of `write(2)` too, so that the server meets half
a request. `effect` (what each request was answered) is a history variable. `Hears`
says what the server's kernel learns of the end of a process.

`Service` is all a user sees: requests take effect at most once on one map, and a process
that reports success was granted what it asked. `EasyKeyDB` refines it with `told` read
from the exit statuses.

### Interactive
`script` is what the user types, `input` what no process has read of it, `buffer` and
`copy` the stdio buffers of parent and child; a terminal gives one line per `read(2)`, a
pipe as many as there are. `fork_p` is the function up to the fork; the child goes on with
`ReadValue` and `Exec`, the parent with `Wait`. `Gets` leaves the array as it was at the end
of the file, which nobody notices: `Garbage`. A program that runs ends when it likes
(`End`), or never: one whose connection the server does not accept waits in `read(2)`, and
`waitpid` with it.

## 3. Runs

| Run | Specification and bounds | What it shows |
|---|---|---|
| `database` | `Spec`; two keys that collide, values of 0 and 1 bytes, 12 bytes per file, a write of which 0, 3, 4 or all bytes are taken | `TypeOK`, `ImplementsKVStore`, `WrittenBytesIntact`, `EntriesDisjoint`, `ReadsAreStable` |
| `notifier_reports` | `FairSpec`; 2 descriptors, batch of 1 | `TypeOK`; `DataIsReported` |
| `server_safety` | `Spec`; 3 clients, of which one sends two requests at a time and one requests in two pieces, 2 descriptors, batch of 2 | the safety of the loop, with descriptors reused |
| `server_liveness` | `FairSpec`; 2 clients, the requests of one in two pieces, batch of 1 | `NothingForgotten`, `RequestsAnswered`, `IdleConnectionsClosed`, `StopsWhenAsked` |
| `handler` | `FairSpec`; prompt and slow networks; 2 requests at a time, reads and writes, of which one kind is refused with its value behind it; reads of at most 3 bytes, a receive buffer of 4 | `TypeOK`, `StreamAligned`, `PlaceKept`, `ImplementsRequestReply`, `EveryRequestAnswered`, `HandlerResponds` |
| `easykeydb` | `FairSpec`; a process that writes and one that reads the same key, or writes it; buffers smaller than an answer, a record longer than one transfer, a signal at any moment | `TypeOK`, `AnswersComplete`, `ShownFromRecord`, `DiesOnlySendingValues`, `ImplementsService`, `ProcessesEnd`, `ServerReturns` |
| `interactive_menu` | `FairSpec`; everything that can be typed in five lines, at a terminal or into a pipe | `TypeOK`, `CommandsAsTyped`, `EndsWhenAsked` |

What the runs of `Server` and `Handler` do not say. `RequestsAnswered` and `NothingForgotten`
are about clients that wait for an answer before they ask again and whose requests are taken
whole, `RequestsAccountedFor` about all whose requests are taken whole, whatever the others
send. For the rest the code gives no such promise: a second request that was read together
with the first waits in `read_buffer` until the client sends more, and after a request that
was refused or late the next one is not read when it arrives, its edge being spent on the
bytes left over. The model has both behaviours; that answers then outnumber requests is the
run `handler_replies`. `StreamAligned` and `ImplementsRequestReply` hold until a request is
given up, and `PlaceKept` says when that cannot happen: on a prompt network, to a client
whose writes have valid keys. `EveryRequestAnswered` is about requests of which nothing has
reached the server early, which is so for a client that waits for its answers.

What the system's run says, beside the refinement: an answer is sent whole, however small the
buffers, except the part of a record beyond what one `sendfile` transfers and what a signal
cuts off, and then a beginning of it is (`AnswersComplete`); what `cli-read` shows with
success is a part of the right record, in its place, and zeros (`ShownFromRecord`), if not the
whole (`client_value`); a write, a refusal or a key that is not there can never cost the
server its life, because their answers are one call (`DiesOnlySendingValues`); and no client,
however it ends, holds another or the server (`ProcessesEnd`, `ServerReturns`).

`accept(2)` fails in the loop only for want of a descriptor (`DiesOnlyAtDescriptorLimit`); that
the server may also die of SIGPIPE is the subject of `DiesOnlySendingValues`.

`CommandsAsTyped` and `EndsWhenAsked` are for a terminal, or a pipe without writes
(`Orderly`): what the parent has read ahead of a pipe is in the child's copy of its buffer
too, so the value of a write is read by the child and, as an option, by the parent.

Why the bounds are enough. *Database*: two keys of one file, an empty value and one that is
not, a write taken whole, not at all, without its last header byte or without its value, and
room for two whole records and more parts, make every collision, duplicate and short write
happen, also a whole record behind a cut one; files do not interact, and the theorems hold for
any number of them and all sizes. *IONotifier*: a batch shorter than the number of ready
descriptors is what 32 is with 33 clients. *Server*: three clients on two descriptors meet the
descriptor limit and reuse each descriptor; a batch of two has an event that is handled before
another; `CheckEvery` = 1 checks for idle connections after every batch, so that the check
meets every state, and = 2 (liveness) has iterations without it; `IdleLimit` = 1 tick
separates idle from not idle; two pieces are what a refused request is at least, and leave one
behind. *Handler*: all segmentations of two requests are tried, on prompt and slow networks;
reads of 3 bytes split sizes and values; a socket of 4 bytes holds no whole request, and not
the refused value. *EasyKeyDB*: the processes meet only in the map and in the server's thread,
and two suffice for one to be held up, outrun or shut out by the other; a value of 10 bytes
from a file makes an answer of 21 (7 of header, 14 of record) for buffers of 7 and 12, so that
`sendfile` waits for the client with a part of it sent, and a transfer of 13 cuts the record;
a value of 1 byte from the arguments makes one that fits everywhere. A header that does not
fit the send buffer is left out: kernels have some KiB. Pieces of 4 bytes split the header and
the size. *Interactive*: five lines are a write and a read, or two reads and the end;
`MaxRuns` = 3 leaves room for what runs after the end of the file.

Deadlock is checked for `Database` and `IONotifier`. `Server` really stops (`exited`,
`failed`, `terminated`, `killed`), `Handler` when its client has asked all it wanted,
`EasyKeyDB` when its processes have ended, and `Interactive` when the user has left, so their
configurations turn the check off.

Fairness. In `Server` and `Handler` only the server's thread must run, and only where it can:
`epoll_wait` returns after 10 s and `read` after 300 ms. The calls that answer a client have
no timeout (`socket.cpp:179`, `:190`) and no fairness here: `SendReturns` and `BrokenPipe` may
never happen. What rests on them says so: `AnswersTakenIn` (the thread leaves the answering
calls again and again) is the premise of `RequestsAnswered`, `IdleConnectionsClosed`,
`StopsWhenAsked` and `EveryRequestAnswered`. A client that keeps a connection open and never
reads a large answer makes it false, and the server then serves nobody. `HandlerResponds`
needs no premise: it is about the reads, and ends where the answer begins. Clients, clock
and signals have no fairness. In `Handler` a prompt network delivers, as its name says, and a
slow one need not. `notifier_reports` assumes its owner calls
`wait_for_events` again and again, which is the loop as long as answers are taken in. In
`EasyKeyDB` the server's thread, each process and each connection's network are fair: the
operating system runs processes that can run, and loopback delivers. There the calls that
answer are modelled in full, and that they return is shown, not assumed (`ServerReturns`),
because the repository's clients read a part of an answer and end. The fairness of the
processes is needed and is the code's weak point: a process that is stopped (SIGSTOP) in
front of an unread answer holds the server for as long as it is stopped. Nothing is assumed
about `Accept` (`server_accept` shows why: a process that nobody accepts may wait for ever,
and `ProcessesEnd` is about the others), about kills, about the idle check or about signals.
In `Interactive` parent and child run, but the programs they start need not end, since one
that is never accepted does not: `EndsWhenAsked` holds unless one runs for ever.

### Where code and documents disagree
Each of these runs checks one sentence of the repository and finds it violated.

| Run | Sentence | What the code does |
|---|---|---|
| `database_answered` | "was successfully written!" (`easykey.cpp:208`) | a failed or short `write(2)` is indexed and answered so (`:99`) |
| `notifier_count` | "How many file descriptors are registered" (`io_notifier.hpp:65`) | the count moves by the inverted result of `epoll_ctl` (`io_notifier.cpp:108`, `:126`): never for a call that succeeds; and nothing initialises it |
| `handler_replies` | "the client sends a request, the servers reply with an appropriate response" (`KnowNothing.md:29`) | a refused key leaves its value in the stream (`easykey.cpp:172`), which is parsed as requests and answered too |
| `server_accept` | "If there is a client awaiting to be accepted, we accept" (`Readme.md:96`) | one per edge (`server.cpp:94`) |
| `client_value` | "Reads the exaclty size" (`easykeyv1-clients.c:116`) | one `read(2)`, whatever it returns (`:117`); the rest of the value is shown as zeros, with success |

Other disagreements are built into the models and have no run of their own.

The wire. `KnowNothing.md:82-118` puts the sizes of both messages before the first message,
in the table and in its example, and limits a message to 2^22 - 1 bytes. Client library
and server agree on another layout, each message behind its own size
(`easykeyv1-clients.c:38-54`, `easykey.cpp:154-203`), and neither checks a limit. The models
follow the code, and what `handler` and `easykeydb` show is about clients that encode as the
library does; a write encoded as documented is misparsed: the size of its value is taken for
the beginning of its key.

The loop. A client that sends and closes at once is dropped with its request unread, against
"if there is a client which have sent data, we read from it" (`Readme.md:96`; `TypeOf`,
`HandleClientDisconnected`; `io_notifier.cpp:165`). A second request read together with the
first waits in `read_buffer` until other data arrives (`HandleRequest`; `server.cpp:191`, and the
TODO at `:171`). A signal before `running = true` is forgotten (`EnterLoop`; `server.cpp:74`). The
idle limit is 300 seconds under a comment that says 30 (`IsIdle`; `server.cpp:216`). "Gracefully
stopping the server!" (`server.cpp:131`) may cut the answer that is being sent (`Signal` of
`EasyKeyDB`; `socket.cpp:179`, `:190`).

Requests. A second write of a key is answered "successfully written!" and ignored (`KVStore`'s
`Put`; `easykey.cpp:111`, `:208`). A request that pauses for more than 300 ms is answered with an
error and its rest taken for new requests (`ReadTimeout`; `byte_buffer.cpp:99`).

## 4. Proofs

`Database_proofs` proves, for every set of keys and values, all their sizes, any number
of files from 1 to 255 and any capacity (`DatabaseAssumption`):

| Theorem | Statement |
|---|---|
| `TypeCorrect` | `Spec => []TypeOK` |
| `WrittenBytesStayIntact` | `Spec => []WrittenBytesIntact` |
| `KeysNeverShareBytes` | `Spec => []EntriesDisjoint` |
| `ReadsStayStable` | `Spec => ReadsAreStable` |
| `DatabaseImplementsKVStore` | `Spec => ImplementsKVStore` |

The inductive invariant is `Inv == TypeOK /\ EntriesMatchOrigin /\ WrittenBytesIntact`.
`WrittenBytesIntact` alone is not inductive: it needs to know that an entry is as large
as the record of the value it was made for and lies in the file its key hashes to.
Files only grow between restarts (`FileGrows`), so what was accepted stays (`InvWrite`).
`EntriesDisjoint` is not inductive either: with equal sets of bytes ruled out, intervals
could still interleave. `EntriesOrdered` (of two keys in one file the bytes of one end
before the other's begin) is, on top of `Inv`. `ReadsStayStable` follows because slices
of a file that grows grow. For the refinement, the slice of a key whose record was accepted in full
is that record (`SliceIsRecord`), also behind records that were cut, and every record decodes
to its value only (`DecodeRecord`); so what the map holds is the value of the write that made the
entry, unless the key is damaged (`HeldIsCurrent`). Then each action maps to the action of
`KVStore` with the same name, a first write that is cut to `PutCut` (`WriteMaps`,
`StepImplements`).

`KnowNothing_proofs` proves that sizes survive the protocol, for all that four bytes can hold:

| Theorem | Statement |
|---|---|
| `SizesSurvive` | `Deserialize4(Serialize4(n)) = n` for every `n` below 2^32 |
| `HeaderTellsValue` | the 11 bytes `read_response` reads first of an answer with a value say OK and the value's length, for every value shorter than 2^32 |

The first adds up the remainders of `n` by 256, 65536 and 16777216; the second finds the
record's own size behind the seven bytes of `success_header`. TLC cannot reach these numbers.

`IONotifier_proofs` proves `TypeCorrect` (`Spec => []TypeOK`) for any descriptors and any
length of a batch. A list in which a descriptor stands once is what makes a batch well
typed, so `Inv` is `TypeOK` with `Distinct(ready)`.

`Server_proofs` proves, for any number of clients, descriptors, waiting connections,
events in a batch, requests at a time and pieces of each (`ServerAssumption`):

| Theorem | Statement |
|---|---|
| `TypeCorrect` | `Spec => []TypeOK` |
| `ConnectionsMirrored` | `Spec => []ConnectionsMirrorDescriptors` |
| `PendingEventsLive` | `Spec => []PendingEventsAreLive` |
| `RequestsAccounted` | `Spec => []RequestsAccountedFor` |
| `NothingIsForgotten` | `Spec => []NothingForgotten` |
| `DiesAtDescriptorLimit` | `Spec => []DiesOnlyAtDescriptorLimit` |
| `NotifierCallsAllSucceed` | `Spec => []NotifierCallsSucceed` |
| `ClosedOnlyForAReason` | `Spec => ClosedForAReason` |

None of the invariants is inductive alone, and `Inv` has them all, `ClosedForAReason` excepted,
an action property that follows from `Heard` (`last_seen` is as old as the silence of the
client), which is inductive on top of `Inv`. A `DEL` succeeds
because epoll watches what is open (`Watched`); an event of the batch is live because its
descriptor was registered once and only its own `CLOSE_CONNECTION` closes it
(`Distinct(ready)`, so that no descriptor stands in a batch twice); a batch is empty where
the loop is not in it, and descriptors are open only where the loop has begun
(`Lifecycle`); and a client that was accepted is not in the backlog as well
(`ClientsInOrder`). `NothingForgotten` is the hardest: a step may take a descriptor off
epoll's list only by putting it in the batch (`AnnounceProperties`, `RemainingProperties`
and `OnlyProperties` of `Lists_proofs` say what lists do), and off the batch only by
handling it. Of clients that ask ahead of their answers, or whose
requests come in pieces, it says nothing of requests, and rightly (section 3); but what such
clients send is part of every step the theorem is about.

`Handler_proofs` proves, for any requests whose sizes fit in four bytes, well-formed or not,
buffers and reads of any size and networks of any speed:

| Theorem | Statement |
|---|---|
| `TypeCorrect` | `Spec => []TypeOK` |
| `StaysAligned` | `Spec => []StreamAligned` |
| `AnswersInOrder` | `Spec => ImplementsRequestReply` |
| `NoRequestGivenUp` | `Spec => []PlaceKept` |

The invariant is an equation: what was sent is `(taken \o Parsed) \o Unused`, that is,
some bytes already used, what `parse_request` has taken of the request at hand, and what
is in `read_buffer`, socket and network. It holds on every network, timeouts included,
since a timeout only moves `Parsed` to `taken`. `InStep`, which holds until a request is
given up, says that `taken` is the encoding of exactly the requests that are answered and
`Parsed` a beginning of the next; then the step that answers is the step of `RequestReply`
(`StepInStep`, `StepOnward`), and one that gives up is its `GiveUp`. On a prompt network what
the parser waits for of a well-formed request is always there (`NothingToWaitFor`), so no read
times out, and none of the refusals in the middle applies (`PlaceStaysKept`).

`EasyKeyDB_proofs` proves, for any number of processes, any command lines
(`ClientAssumption`), any receive buffer and transfer, and any send buffer that holds the 7
bytes of `success_header` (`EasyKeyDBAssumption`):

| Theorem | Statement |
|---|---|
| `TypeCorrect` | `Spec => []TypeOK` |
| `AnswersArriveWhole` | `Spec => []AnswersComplete` |
| `ShownOfRecord` | `Spec => []ShownFromRecord` |
| `DiesSendingValues` | `Spec => []DiesOnlySendingValues` |
| `SystemImplementsService` | `Spec => ImplementsService` |

Again the invariant is an equation, one for each process that still waits: what it has taken,
what is in `inbox`, in `outbox`, what `calls` have still to send, and what a signal has cut
off make up the bytes its answer is to send (`HasTaken`). Something is cut off only of the
last call and only when the server was told to stop (`IsLost`): the header of a value finds
room for all of it (`HeaderFirst`), so no signal meets it half done. What an answer is to send
is the whole of it but for what is beyond `MaxTransfer` (`AnswerIsSent`). A read or a `Send`
moves bytes over one of the seams (`SplitAt`, `TakeFront`). `OneCall` is what confines
SIGPIPE: an answer that is no value is one `send`, which a broken connection can meet only
after it has begun. `ShownFromRecord` needs that values never change once found (`ValueKept`),
and arithmetic: with at least the seven bytes of `success_header` and at most eleven taken,
the size read from a header that is incomplete (zeros for what did not come) is at most the
real one, and the slice shown starts where the first read stopped (`ShowsPart`). For the
refinement `Serve` maps to `TakeEffect` or `Garbled`, an exit to `Tell`, and everything else
stutters. Values are those whose size fits in the protocol's four bytes (`SizeFits` of
`KnowNothing`).

`Interactive_proofs` proves, for scripts of any length, any lines and any number of
programs:

| Theorem | Statement |
|---|---|
| `TypeCorrect` | `Spec => []TypeOK` |
| `RunsAsTyped` | `Spec => []CommandsAsTyped` |

`ReadUpTo(at)` says that the lines before a place of the script have been read and the
others stand in the parent's buffer and in stdin, in order (`Stands`). That much holds
also on a pipe with writes, where the child takes lines the parent's buffer has too: at
that moment the place may jump. Where the user is `Orderly` it does not, the next line is
for what will be made of it (`Expects`), and the programs started are as many as the
commands read (`Counted`), but for the one that is being started. At the end of the script
all this gives way to `Len(ran) >= Place(at)`: more may run, with what the arrays hold.

Assumptions. Besides typing, the constants are assumed to satisfy only that the `NULL`s are
none of the values they stand for, that sizes fit in the protocol's four bytes, that a send
buffer holds the 7 bytes of `success_header`, and that users of `EasyKeyDB` write under valid
keys (section 6 says why). TLC evaluates each assumption in every run of a module that extends
the one it stands in.

Induction. The library's induction rules cannot be instantiated here. `Smallest` (in
`Lists_proofs`) finds the least element of a set of numbers out of the finiteness of an
interval, and `InductionUpTo` is induction over the numbers in a set; the recursive
functions `Only`, `Stream` and `Role` are unfolded with it (`OnlyExists`, `RoleExists`:
the equation has a solution, so `CHOOSE` finds one).

Only model-checked, because fairness and `ENABLED` are out of the prover's reach: all
liveness, namely `DataIsReported`, `RequestsAnswered`, `IdleConnectionsClosed`,
`StopsWhenAsked`, `EveryRequestAnswered`, `HandlerResponds`, `ProcessesEnd`,
`ServerReturns` and `EndsWhenAsked`. Every other property of a passing run is a theorem.
The runs that expect a violation are counterexamples and stand for themselves. That `Only`
is `SelectSeq` of the library is checked by TLC on short lists (`OnlySelects`).

## 5. Plan

Done: `KVStore`, `Database`; `Lists`, `IONotifier`; `Server`; `KnowNothing`, `Replies`,
`RequestReply`, `Handler`; `Client`, `Service`, `EasyKeyDB`; `Interactive`; and the
theorems of section 4.

Next are safety properties that make the liveness results plausible for all sizes, which
TLC shows for small ones:
1. `Server`: a thread that is in the loop can always take a step (an explicit disjunction
   of guards instead of `ENABLED`), and an idle check closes every connection that is
   idle;
2. `EasyKeyDB`: a call that waits has a client that can still make room, or whose end is
   known;
3. `Handler`: a measure that every step of `parse_request` lowers (the bytes it still has
   to take), which is the safety part of `HandlerResponds`;
4. `KnowNothing`: what cannot be told apart: two well-formed requests with the same
   beginning are the same.

## 6. Not modelled

- Memory: allocation failures, among them `first_message.reserve` with a size from the
  stream (`easykey.cpp:156`), the 1 MiB buffer on the stack. Files of 4 GiB and more, whose
  size does not fit `unsigned int` in `cli-write`.
- The request path in `EasyKeyDB` is not bounded: `write(2)` of a client takes a whole request
  or is killed in the middle of it. That is what happens when the server reads on, which
  it does for every request it does not refuse early (`EveryRequestAnswered` of `Handler`,
  whose receive buffer is smaller than a request, shows it). A write under a key that is
  refused is left out there (`ClientAssumption`): its value stays in the stream
  (`Handler` shows what comes of it), and if it is larger than all the buffers the client waits for
  the idle check.
- A second server on the same port and files (`SO_REUSEPORT`, `O_TRUNC`): the repository
  says nothing of what it should do, and nothing of the first one's files survives it.
- `epoll_wait` errors other than EINTR, and EPOLLERR or EPOLLHUP without EPOLLRDHUP.
- A restart of the server under `EasyKeyDB`: connections do not outlive it, and
  `Database` restarts.
- Lines longer than the arrays `fgets` fills in the demo; stdin from a file, whose offset
  the two processes share.
- Option parsing, printing, logging, the import script, build and CI files.
- The connect and disconnect callbacks of `main.cpp`, which only print.
