---------------------------- MODULE Server_proofs ----------------------------
(***************************************************************************)
(* The safety of the event loop, proved for any number of clients,         *)
(* descriptors and events in a batch.                                      *)
(*                                                                         *)
(* No property of the run is inductive by itself.  That every event of a   *)
(* batch is still about what it was about depends on batches that name     *)
(* each descriptor once, which depends on epoll's list; the list depends   *)
(* on the registrations, they on the connections, and these on the clients *)
(* that wait to be accepted.  Inv puts these together.                     *)
(***************************************************************************)
EXTENDS Server, Lists_proofs

(* Which parts of start() have run: nothing is connected before the loop,  *)
(* and a batch is in hand only while it is handled.                        *)
Lifecycle ==
  /\ pc \in {"main", "registered", "listening", "failed"} => Open = {}
  /\ pc = "main" => interest[Listener] = {}
  /\ pc \in {"registered", "listening", "stopped"} \cup Loop => interest[Listener] # {}
  /\ pc \notin {"dispatch", "answering", "killed", "terminated"} => events = <<>>
  /\ pc = "answering" =>
       /\ events # <<>>
       /\ Head(events).file_descriptor # Listener /\ Head(events).type = "READ"

(* The registrations are those of the open sockets, and of the listener. *)
Watched ==
  \A fd \in ClientFd : interest[fd] = IF socket_of[fd] = NULL THEN {} ELSE N!EventType

(* A client waits once, and one that has not connected yet has done        *)
(* nothing; none asks more than it may.                                    *)
ClientsInOrder ==
  /\ Distinct(backlog)
  /\ \A c \in Client : phase[c] = "new" =>
       ~Queued(c) /\ ~Accepted(c) /\ inbox[c] = 0 /\ outstanding[c] = 0
  /\ \A c \in Client : outstanding[c] <= MaxOutstanding[c]

Inv ==
  /\ TypeOK
  /\ Lifecycle
  /\ Watched
  /\ Distinct(ready)
  /\ ClientsInOrder
  /\ ConnectionsMirrorDescriptors
  /\ RequestsAccountedFor
  /\ PendingEventsAreLive
  /\ NothingForgotten
  /\ DiesOnlyAtDescriptorLimit

-----------------------------------------------------------------------------
(* The notifier's list is a list. *)

LEMMA NotifierLists ==
  /\ \A list : N!Members(list) = Members(list)
  /\ \A list, fd : N!Announce(list, fd) = Announce(list, fd)
  /\ \A list, n : N!Remaining(list, n) = Remaining(list, n)
<1>1. \A list : N!Members(list) = Members(list)
  BY DEF N!Members, Members
<1>2. \A list, fd : N!Announce(list, fd) = Announce(list, fd)
  BY <1>1 DEF N!Announce, Announce
<1>3. \A list, n : N!Remaining(list, n) = Remaining(list, n)
  BY DEF N!Remaining, Remaining
<1> QED
  BY <1>1, <1>2, <1>3

LEMMA NotifierOnly ==
  ASSUME NEW list, NEW kept
  PROVE  N!Only(list, kept) = Only(list, kept)
BY DEF N!Only, Only

LEMMA NotifierCardinality ==
  ASSUME NEW S
  PROVE  N!Cardinality(S) = Cardinality(S)
BY DEF N!Cardinality, Cardinality

(* A count in its range is its own remainder. *)
LEMMA SmallRemainder ==
  ASSUME NEW m \in Nat \ {0}, NEW x \in 0 .. m - 1
  PROVE  x % m = x
OBVIOUS

(* The listener is not one of the clients' descriptors. *)
LEMMA Descriptors ==
  /\ Listener \in FileDescriptor /\ Listener \notin ClientFd
  /\ ClientFd \subseteq FileDescriptor
  /\ \A fd \in FileDescriptor : fd = Listener \/ fd \in ClientFd
BY ServerAssumption DEF FileDescriptor, ClientFd

LEMMA QueuedMembers ==
  ASSUME NEW c
  PROVE  Queued(c) <=> c \in Members(backlog)
BY DEF Queued, Members

(* What the registered descriptors are, and that they are the open sockets *)
(* beside the listener.                                                    *)
LEMMA RegisteredOpen ==
  ASSUME Watched
  PROVE  N!Registered \ {Listener} = Open
<1>1. \A fd \in ClientFd : interest[fd] # {} <=> socket_of[fd] # NULL
  BY DEF Watched, N!EventType
<1> QED
  BY <1>1, Descriptors DEF N!Registered, Open

-----------------------------------------------------------------------------
(* What each call of the notifier does to the list. *)

LEMMA WakeEffect ==
  ASSUME TypeOK, Distinct(ready), NEW fd \in FileDescriptor, N!Wake(fd), UNCHANGED interest
  PROVE  /\ ready' \in Seq(N!Registered') /\ Distinct(ready')
         /\ Members(ready) \subseteq Members(ready')
         /\ interest[fd] # {} => fd \in Members(ready')
<1>1. ready \in Seq(N!Registered) /\ N!Registered' = N!Registered
  BY DEF TypeOK, N!TypeOK, N!Registered
<1>2. CASE interest[fd] = {}
  BY <1>1, <1>2 DEF N!Wake
<1>3. CASE interest[fd] # {}
  <2>1. fd \in N!Registered
    BY <1>3 DEF N!Registered
  <2>2. ready' = Announce(ready, fd)
    BY <1>3, NotifierLists DEF N!Wake
  <2> QED
    BY <1>1, <2>1, <2>2, AnnounceProperties
<1> QED
  BY <1>2, <1>3

LEMMA WakeSocketEffect ==
  ASSUME TypeOK, Watched, Distinct(ready), ConnectionsMirrorDescriptors,
         NEW c \in Client, WakeSocketOf(c), UNCHANGED interest
  PROVE  /\ ready' \in Seq(N!Registered') /\ Distinct(ready')
         /\ Members(ready) \subseteq Members(ready')
         /\ \A fd \in Open : socket_of[fd] = c => fd \in Members(ready')
<1> DEFINE it == CHOOSE fd \in ClientFd : socket_of[fd] = c
<1>1. CASE Accepted(c)
  <2>1. it \in ClientFd /\ socket_of[it] = c /\ c # NULL
    BY <1>1, ServerAssumption DEF Accepted
  <2>2. N!Wake(it)
    BY <1>1 DEF WakeSocketOf, SocketOf
  <2>3. it \in Open /\ it \in FileDescriptor
    BY <2>1, Descriptors DEF Open
  <2>4. interest[it] # {}
    BY <2>1 DEF Watched, N!EventType
  <2>5. \A fd \in Open : socket_of[fd] = c => fd = it
    BY <2>1, <2>3 DEF ConnectionsMirrorDescriptors
  <2> HIDE DEF it
  <2> QED
    BY <2>2, <2>3, <2>4, <2>5, WakeEffect
<1>2. CASE ~Accepted(c)
  <2>1. ready' = ready /\ N!Registered' = N!Registered
    BY <1>2 DEF WakeSocketOf, N!Registered
  <2>2. \A fd \in Open : socket_of[fd] # c
    BY <1>2 DEF Accepted, Open
  <2> QED
    BY <2>1, <2>2 DEF TypeOK, N!TypeOK
<1> QED
  BY <1>1, <1>2

(* Adding a descriptor that is not registered succeeds. *)
LEMMA AddEffect ==
  ASSUME TypeOK, Distinct(ready), NEW fd \in FileDescriptor, NEW types \in SUBSET N!EventType,
         types # {}, interest[fd] = {}, NEW now, N!add_event(fd, types, now)
  PROVE  /\ interest' = [interest EXCEPT ![fd] = types]
         /\ interest' \in [FileDescriptor -> SUBSET N!EventType]
         /\ ready' \in Seq(N!Registered') /\ Distinct(ready')
         /\ Members(ready) \subseteq Members(ready')
         /\ types \cap now # {} => fd \in Members(ready')
         /\ UNCHANGED <<tracked_file_descriptors_count, call_failed>>
<1>1. /\ interest' = [interest EXCEPT ![fd] = types]
      /\ ready' = IF types \cap now = {} THEN ready ELSE N!Announce(ready, fd)
      /\ tracked_file_descriptors_count' = (tracked_file_descriptors_count + 0) % CountModulus
  BY DEF N!add_event
<1>8. call_failed' = call_failed
  <2>1. call_failed \in BOOLEAN /\ call_failed' = (call_failed \/ FALSE)
    BY DEF N!add_event, TypeOK, N!TypeOK
  <2> QED
    BY <2>1
<1>2. interest \in [FileDescriptor -> SUBSET N!EventType] /\ ready \in Seq(N!Registered)
  BY DEF TypeOK, N!TypeOK
<1>3. interest' \in [FileDescriptor -> SUBSET N!EventType]
  BY <1>1, <1>2
<1>4. fd \in N!Registered' /\ N!Registered \subseteq N!Registered'
  BY <1>1, <1>2 DEF N!Registered
<1>5. ready \in Seq(N!Registered')
  BY <1>2, <1>4, SeqMonotonic
<1>6. /\ ready' \in Seq(N!Registered') /\ Distinct(ready')
      /\ Members(ready) \subseteq Members(ready')
      /\ types \cap now # {} => fd \in Members(ready')
  <2>1. ready' = IF types \cap now = {} THEN ready ELSE Announce(ready, fd)
    BY <1>1, NotifierLists
  <2> QED
    BY <2>1, <1>4, <1>5, AnnounceProperties
<1>7. tracked_file_descriptors_count' = tracked_file_descriptors_count
  <2>1. /\ tracked_file_descriptors_count \in 0 .. CountModulus - 1
        /\ tracked_file_descriptors_count + 0 = tracked_file_descriptors_count
    BY ServerAssumption DEF TypeOK, N!TypeOK
  <2> QED
    BY <1>1, <2>1, SmallRemainder, ServerAssumption
<1> QED
  BY <1>1, <1>3, <1>6, <1>7, <1>8

(* Deleting registered descriptors succeeds, and takes them off the list. *)
LEMMA DeleteEffect ==
  ASSUME TypeOK, Distinct(ready), NEW fds \in SUBSET N!Registered, N!delete_events(fds)
  PROVE  /\ interest' = [fd \in FileDescriptor |-> IF fd \in fds THEN {} ELSE interest[fd]]
         /\ interest' \in [FileDescriptor -> SUBSET N!EventType]
         /\ ready' \in Seq(N!Registered') /\ Distinct(ready')
         /\ Members(ready') = Members(ready) \ fds
         /\ UNCHANGED <<tracked_file_descriptors_count, call_failed>>
<1>1. /\ interest' = [fd \in FileDescriptor |-> IF fd \in fds THEN {} ELSE interest[fd]]
      /\ ready' = N!Only(ready, FileDescriptor \ fds)
      /\ tracked_file_descriptors_count' =
           (tracked_file_descriptors_count - Cardinality(fds \ N!Registered)) % CountModulus
  BY NotifierCardinality DEF N!delete_events
<1>2. interest \in [FileDescriptor -> SUBSET N!EventType] /\ ready \in Seq(N!Registered)
  BY DEF TypeOK, N!TypeOK
<1>3. interest' \in [FileDescriptor -> SUBSET N!EventType]
  BY <1>1, <1>2
<1>4. /\ ready' \in Seq(N!Registered \cap (FileDescriptor \ fds)) /\ Distinct(ready')
      /\ Members(ready') = Members(ready) \cap (FileDescriptor \ fds)
  BY <1>1, <1>2, NotifierOnly, OnlyProperties
<1>5. N!Registered \cap (FileDescriptor \ fds) \subseteq N!Registered'
  BY <1>1 DEF N!Registered
<1>6. ready' \in Seq(N!Registered')
  BY <1>4, <1>5, SeqMonotonic
<1>7. Members(ready) \subseteq FileDescriptor
  BY <1>2, ElementOfSeq, LenProperties DEF Members, N!Registered
<1>8. tracked_file_descriptors_count' = tracked_file_descriptors_count
  <2>1. Cardinality(fds \ N!Registered) = 0
    <3>1. fds \ N!Registered = {}
      OBVIOUS
    <3> QED
      BY <3>1, FS_EmptySet
  <2>2. /\ tracked_file_descriptors_count \in 0 .. CountModulus - 1
        /\ tracked_file_descriptors_count - 0 = tracked_file_descriptors_count
    BY ServerAssumption DEF TypeOK, N!TypeOK
  <2> QED
    BY <1>1, <2>1, <2>2, SmallRemainder, ServerAssumption
<1>9. call_failed' = call_failed
  <2>1. call_failed \in BOOLEAN /\ call_failed' = (call_failed \/ ~(fds \subseteq N!Registered))
    BY DEF N!delete_events, TypeOK, N!TypeOK
  <2> QED
    BY <2>1
<1> QED
  BY <1>1, <1>3, <1>4, <1>6, <1>7, <1>8, <1>9

-----------------------------------------------------------------------------
(* The parts of the invariant that a step does not touch. *)

LEMMA ConditionType ==
  /\ Condition \in [FileDescriptor -> SUBSET N!EventType]
  /\ Condition' \in [FileDescriptor -> SUBSET N!EventType]
BY DEF Condition, N!EventType

LEMMA LifecycleKept ==
  Lifecycle /\ UNCHANGED <<pc, socket_of, interest, events>> => Lifecycle'
BY DEF Lifecycle, Open, Loop

LEMMA WatchedKept ==
  Watched /\ UNCHANGED <<socket_of, interest>> => Watched'
BY DEF Watched

LEMMA ClientsKept ==
  ClientsInOrder /\ UNCHANGED <<backlog, phase, inbox, outstanding, socket_of>> => ClientsInOrder'
BY DEF ClientsInOrder, Distinct, Queued, Accepted

LEMMA ConnectionsKept ==
  ConnectionsMirrorDescriptors /\ UNCHANGED <<current_connections, socket_of, interest, backlog>>
    => ConnectionsMirrorDescriptors'
BY DEF ConnectionsMirrorDescriptors, Open, N!Registered, Queued

(* Whom the thread answers. *)
LEMMA ServesKept ==
  ASSUME \/ UNCHANGED <<pc, events>>
         \/ pc # "answering" /\ pc' # "answering"
  PROVE  \A fd : Serves(fd)' <=> Serves(fd)
BY DEF Serves

LEMMA RequestsKept ==
  ASSUME RequestsAccountedFor,
         UNCHANGED <<backlog, outstanding, inbox, socket_of, current_connections>>,
         Alive' => Alive /\ \A fd : Serves(fd)' <=> Serves(fd)
  PROVE  RequestsAccountedFor'
BY DEF RequestsAccountedFor, Open, Queued, Whole

LEMMA PendingKept ==
  PendingEventsAreLive
    /\ UNCHANGED <<pc, events, backlog, current_connections, inbox, socket_of, phase>>
    => PendingEventsAreLive'
BY DEF PendingEventsAreLive, Serves

LEMMA NothingKept ==
  NothingForgotten /\ UNCHANGED <<running, socket_of, phase, inbox, ready, events>>
    => NothingForgotten'
BY DEF NothingForgotten, Open, Announced, Patient, Whole, N!Members

LEMMA DiesKept ==
  DiesOnlyAtDescriptorLimit /\ UNCHANGED <<pc, socket_of>> => DiesOnlyAtDescriptorLimit'
BY DEF DiesOnlyAtDescriptorLimit, Open

(* What is announced stays so while the list and the batch grow, and a     *)
(* connection needs no announcement it did not need before.                *)
LEMMA NothingForgottenByGrowth ==
  ASSUME NothingForgotten, running' => running,
         Members(ready) \subseteq Members(ready'), UNCHANGED events,
         \A fd \in Open' :
           \/ fd \in Members(ready')
           \/ /\ fd \in Open
              /\ phase'[socket_of'[fd]] = "shut" => phase[socket_of[fd]] = "shut"
              /\ inbox'[socket_of'[fd]] > 0 /\ Patient(socket_of'[fd])
                   => inbox[socket_of[fd]] > 0 /\ Patient(socket_of[fd])
  PROVE  NothingForgotten'
<1> SUFFICES ASSUME running', NEW fd \in Open'
             PROVE  /\ phase'[socket_of'[fd]] = "shut" => Announced(fd, {"CLOSE_CONNECTION"})'
                    /\ inbox'[socket_of'[fd]] > 0 /\ Patient(socket_of'[fd])
                         => Announced(fd, {"READ", "CLOSE_CONNECTION"})'
  BY DEF NothingForgotten, Patient, Whole
<1>1. \A types : fd \in Members(ready') => Announced(fd, types)'
  BY NotifierLists DEF Announced, Members, N!Members
<1>2. \A types : Announced(fd, types) => Announced(fd, types)'
  BY NotifierLists DEF Announced, Members, N!Members
<1>3. CASE fd \in Members(ready')
  BY <1>1, <1>3
<1>4. CASE fd \notin Members(ready')
  BY <1>2, <1>4 DEF NothingForgotten
<1> QED
  BY <1>3, <1>4

LEMMA EventsInBatch ==
  ASSUME TypeOK
  PROVE  \A i \in DOMAIN events :
           events[i].file_descriptor \in FileDescriptor /\ events[i].type \in N!EventType
<1>1. events \in Seq(N!Event) /\ DOMAIN events = 1 .. Len(events)
  BY LenProperties DEF TypeOK, N!TypeOK
<1>2. \A i \in DOMAIN events : events[i] \in N!Event
  BY <1>1, ElementOfSeq
<1> QED
  BY <1>2 DEF N!Event

(* Whoever has a connection is a client. *)
LEMMA ConnectedClients ==
  ASSUME TypeOK, ConnectionsMirrorDescriptors
  PROVE  /\ \A fd \in Open : fd \in ClientFd /\ socket_of[fd] \in Client
                            /\ current_connections[fd] \in Connection
         /\ \A fd \in ClientFd : current_connections[fd] # NULL => fd \in Open
BY DEF TypeOK, ConnectionsMirrorDescriptors, Open

-----------------------------------------------------------------------------
(* The clients, the clock and the signals. *)

LEMMA ConnectKeepsInv ==
  ASSUME Inv, NEW c \in Client, Connect(c)
  PROVE  Inv' /\ UNCHANGED call_failed
<1>1. /\ phase[c] = "new" /\ N!Wake(Listener)
      /\ backlog' = Append(backlog, c)
      /\ phase' = [phase EXCEPT ![c] = "connected"]
      /\ UNCHANGED <<pc, running, iterations, events, current_connections, socket_of,
                     interest, tracked_file_descriptors_count, call_failed, inbox, outstanding, silence>>
  BY DEF Connect, serverVars, connectionVars, callVars
<1>2. TypeOK /\ backlog \in Seq(Client) /\ phase \in [Client -> {"new", "connected", "shut"}]
  BY DEF Inv, TypeOK
<1>3. ~Queued(c) /\ ~Accepted(c) /\ inbox[c] = 0 /\ outstanding[c] = 0
  BY <1>1 DEF Inv, ClientsInOrder
<1>4. /\ ready' \in Seq(N!Registered') /\ Distinct(ready')
      /\ Members(ready) \subseteq Members(ready')
  BY <1>1, Descriptors, WakeEffect DEF Inv
<1>5. /\ backlog' = Announce(backlog, c)
      /\ backlog' \in Seq(Client) /\ Distinct(backlog')
      /\ \A other : Queued(other)' <=> Queued(other) \/ other = c
      /\ backlog' # <<>>
  <2>1. backlog' = Announce(backlog, c)
    BY <1>1, <1>3, QueuedMembers DEF Announce
  <2>2. /\ backlog' \in Seq(Client) /\ (Distinct(backlog) => Distinct(backlog'))
        /\ Members(backlog') = Members(backlog) \cup {c}
    BY <2>1, <1>2, AnnounceProperties
  <2>3. \A other : Queued(other) <=> other \in Members(backlog)
    BY DEF Queued, Members
  <2>4. \A other : Queued(other)' <=> other \in Members(backlog')
    BY DEF Queued, Members
  <2>5. backlog' # <<>>
    BY <1>1, <1>2, AppendProperties
  <2> QED
    BY <2>1, <2>2, <2>3, <2>4, <2>5 DEF Inv, ClientsInOrder
<1>6. /\ phase' \in [Client -> {"new", "connected", "shut"}]
      /\ \A other \in Client : other # c => phase'[other] = phase[other]
      /\ phase'[c] = "connected"
  BY <1>1, <1>2
<1>7. \A fd \in ClientFd : socket_of[fd] # c
  BY <1>3 DEF Accepted
<1>8. \A fd \in Open : socket_of[fd] \in Client
  BY <1>2 DEF Open, TypeOK
<1>9. TypeOK'
  BY <1>1, <1>2, <1>4, <1>5, <1>6, ConditionType DEF TypeOK, N!TypeOK
<1>10. Lifecycle' /\ Watched'
  BY <1>1, LifecycleKept, WatchedKept DEF Inv
<1>11. ClientsInOrder'
  BY <1>1, <1>5, <1>6 DEF Inv, ClientsInOrder, Accepted
<1>12. ConnectionsMirrorDescriptors'
  BY <1>1, <1>5, <1>7 DEF Inv, ConnectionsMirrorDescriptors, Open, N!Registered
<1>13. RequestsAccountedFor'
  BY <1>1, <1>3, <1>5, ServesKept DEF Inv, RequestsAccountedFor, Open, Alive, Whole
<1>14. PendingEventsAreLive'
  <2>1. \A fd \in ClientFd : current_connections[fd] # NULL =>
          socket_of[fd] \in Client /\ phase'[socket_of[fd]] = phase[socket_of[fd]]
    BY <1>2, <1>6, <1>7 DEF Inv, ConnectionsMirrorDescriptors, TypeOK
  <2>2. \A i \in DOMAIN events : events[i].file_descriptor \in FileDescriptor
    BY <1>2, EventsInBatch
  <2> QED
    BY <1>1, <1>5, <2>1, <2>2, Descriptors DEF Inv, PendingEventsAreLive, Serves
<1>15. NothingForgotten'
  <2>1. \A fd \in Open' : fd \in Open /\ phase'[socket_of'[fd]] = phase[socket_of[fd]]
    BY <1>1, <1>6, <1>7, <1>8 DEF Open
  <2> QED
    BY <1>1, <1>4, <2>1, NothingForgottenByGrowth DEF Inv
<1>16. DiesOnlyAtDescriptorLimit'
  BY <1>1, DiesKept DEF Inv
<1> QED
  BY <1>1, <1>4, <1>9, <1>10, <1>11, <1>12, <1>13, <1>14, <1>15, <1>16 DEF Inv

LEMMA SendKeepsInv ==
  ASSUME Inv, NEW c \in Client, Send(c)
  PROVE  Inv' /\ UNCHANGED call_failed
<1> PICK pieces \in 1 .. Pieces[c] : inbox' = [inbox EXCEPT ![c] = @ + pieces]
  BY DEF Send
<1>1. /\ phase[c] = "connected" /\ WakeSocketOf(c)
      /\ Accepted(c) \/ Queued(c)
      /\ outstanding[c] < MaxOutstanding[c]
      /\ inbox' = [inbox EXCEPT ![c] = @ + pieces]
      /\ outstanding' = [outstanding EXCEPT ![c] = @ + 1]
      /\ UNCHANGED <<pc, running, iterations, events, current_connections, socket_of,
                     interest, tracked_file_descriptors_count, call_failed, backlog, phase, silence>>
  BY DEF Send, serverVars, connectionVars, callVars
<1>2. /\ TypeOK /\ inbox \in [Client -> Nat] /\ outstanding \in [Client -> Nat]
      /\ pieces \in Nat \ {0} /\ (Whole(c) => pieces = 1)
  BY ServerAssumption DEF Inv, TypeOK, Whole
<1>3. /\ ready' \in Seq(N!Registered') /\ Distinct(ready')
      /\ Members(ready) \subseteq Members(ready')
      /\ \A fd \in Open : socket_of[fd] = c => fd \in Members(ready')
  BY <1>1, WakeSocketEffect DEF Inv
<1>4. /\ inbox' \in [Client -> Nat] /\ outstanding' \in [Client -> Nat]
      /\ \A other \in Client :
           other # c => inbox'[other] = inbox[other] /\ outstanding'[other] = outstanding[other]
      /\ inbox'[c] = inbox[c] + pieces /\ outstanding'[c] = outstanding[c] + 1
  BY <1>1, <1>2
<1>5. \A fd \in Open : socket_of[fd] \in Client
  BY <1>2 DEF Open, TypeOK
<1>6. TypeOK'
  BY <1>1, <1>2, <1>3, <1>4, ConditionType DEF TypeOK, N!TypeOK
<1>7. Lifecycle' /\ Watched'
  BY <1>1, LifecycleKept, WatchedKept DEF Inv
<1>8. ClientsInOrder'
  <2>1. outstanding'[c] <= MaxOutstanding[c]
    BY <1>1, <1>2, <1>4, ServerAssumption
  <2> QED
    BY <1>1, <1>4, <2>1 DEF Inv, ClientsInOrder, Accepted, Queued
<1>9. ConnectionsMirrorDescriptors'
  BY <1>1, ConnectionsKept DEF Inv
<1>10. RequestsAccountedFor'
  <2>1. \A other \in Client : Queued(other)' /\ Whole(other) => outstanding'[other] = inbox'[other]
    BY <1>1, <1>2, <1>4 DEF Inv, RequestsAccountedFor, Queued
  <2>2. ASSUME NEW fd \in Open', Alive', Whole(socket_of'[fd]), current_connections'[fd] # NULL
        PROVE  outstanding'[socket_of'[fd]] = inbox'[socket_of'[fd]] + current_connections'[fd].buffered
                                                + (IF Serves(fd)' THEN 1 ELSE 0)
    <3>1. fd \in Open /\ fd \in ClientFd /\ socket_of[fd] \in Client
      BY <1>1, <1>5 DEF Open
    <3>2. current_connections[fd].buffered \in Nat
      BY <1>1, <1>2, <2>2, <3>1 DEF TypeOK, Connection
    <3> DEFINE answering == IF Serves(fd) THEN 1 ELSE 0
    <3>3. outstanding[socket_of[fd]] = inbox[socket_of[fd]] + current_connections[fd].buffered + answering
      BY <1>1, <2>2, <3>1 DEF Inv, RequestsAccountedFor, Alive, Whole
    <3>4. answering \in Nat /\ answering = IF Serves(fd)' THEN 1 ELSE 0
      BY <1>1, ServesKept
    <3>5. Whole(socket_of[fd])
      BY <1>1, <2>2
    <3> HIDE DEF answering
    <3> QED
      BY <1>1, <1>2, <1>4, <3>1, <3>2, <3>3, <3>4, <3>5
  <2> QED
    BY <2>1, <2>2 DEF RequestsAccountedFor, Whole
<1>11. PendingEventsAreLive'
  <2>1. \A fd \in ClientFd : current_connections[fd] # NULL =>
          (inbox[socket_of[fd]] > 0 => inbox'[socket_of[fd]] > 0)
    BY <1>2, <1>4, ConnectedClients DEF Inv
  <2>2. \A i \in DOMAIN events : events[i].file_descriptor \in FileDescriptor
    BY <1>2, EventsInBatch
  <2> QED
    BY <1>1, <2>1, <2>2, Descriptors DEF Inv, PendingEventsAreLive, Serves
<1>12. NothingForgotten'
  <2>1. \A fd \in Open' : fd \in Open /\ (fd \in Members(ready') \/ inbox'[socket_of[fd]] = inbox[socket_of[fd]])
    BY <1>1, <1>3, <1>4, <1>5 DEF Open
  <2> QED
    BY <1>1, <1>3, <2>1, NothingForgottenByGrowth DEF Inv
<1>13. DiesOnlyAtDescriptorLimit'
  BY <1>1, DiesKept DEF Inv
<1> QED
  BY <1>1, <1>3, <1>6, <1>7, <1>8, <1>9, <1>10, <1>11, <1>12, <1>13 DEF Inv

LEMMA CloseClientKeepsInv ==
  ASSUME Inv, NEW c \in Client, CloseClient(c)
  PROVE  Inv' /\ UNCHANGED call_failed
<1>1. /\ phase[c] = "connected" /\ WakeSocketOf(c)
      /\ phase' = [phase EXCEPT ![c] = "shut"]
      /\ UNCHANGED <<pc, running, iterations, events, current_connections, socket_of, interest,
                     tracked_file_descriptors_count, call_failed, backlog, inbox, outstanding, silence>>
  BY DEF CloseClient, serverVars, connectionVars, callVars
<1>2. TypeOK /\ phase \in [Client -> {"new", "connected", "shut"}]
  BY DEF Inv, TypeOK
<1>3. /\ ready' \in Seq(N!Registered') /\ Distinct(ready')
      /\ Members(ready) \subseteq Members(ready')
      /\ \A fd \in Open : socket_of[fd] = c => fd \in Members(ready')
  BY <1>1, WakeSocketEffect DEF Inv
<1>4. /\ phase' \in [Client -> {"new", "connected", "shut"}]
      /\ \A other \in Client : other # c => phase'[other] = phase[other]
      /\ phase'[c] = "shut"
  BY <1>1, <1>2
<1>5. TypeOK'
  BY <1>1, <1>2, <1>3, <1>4, ConditionType DEF TypeOK, N!TypeOK
<1>6. Lifecycle' /\ Watched' /\ ConnectionsMirrorDescriptors' /\ RequestsAccountedFor'
  BY <1>1, LifecycleKept, WatchedKept, ConnectionsKept, RequestsKept, ServesKept DEF Inv, Alive
<1>7. ClientsInOrder'
  BY <1>1, <1>4 DEF Inv, ClientsInOrder, Accepted, Queued
<1>8. PendingEventsAreLive'
  <2>1. \A fd \in ClientFd : current_connections[fd] # NULL =>
          (phase[socket_of[fd]] = "shut" => phase'[socket_of[fd]] = "shut")
    BY <1>2, <1>4, ConnectedClients DEF Inv
  <2>2. \A i \in DOMAIN events : events[i].file_descriptor \in FileDescriptor
    BY <1>2, EventsInBatch
  <2> QED
    BY <1>1, <2>1, <2>2, Descriptors DEF Inv, PendingEventsAreLive, Serves
<1>9. NothingForgotten'
  <2>1. \A fd \in Open : socket_of[fd] \in Client
    BY <1>2, ConnectedClients DEF Inv
  <2>2. \A fd \in Open' : fd \in Open /\ (fd \in Members(ready') \/ phase'[socket_of[fd]] = phase[socket_of[fd]])
    BY <1>1, <1>3, <1>4, <2>1 DEF Open
  <2> QED
    BY <1>1, <1>3, <2>2, NothingForgottenByGrowth DEF Inv
<1>10. DiesOnlyAtDescriptorLimit'
  BY <1>1, DiesKept DEF Inv
<1> QED
  BY <1>1, <1>3, <1>5, <1>6, <1>7, <1>8, <1>9, <1>10 DEF Inv

LEMMA TakeInKeepsInv ==
  ASSUME Inv, NEW c \in Client, TakeIn(c)
  PROVE  Inv' /\ UNCHANGED call_failed
<1>1. /\ WakeSocketOf(c)
      /\ UNCHANGED <<pc, running, iterations, events, current_connections, socket_of, interest,
                     tracked_file_descriptors_count, call_failed, backlog, inbox, phase, outstanding, silence>>
  BY DEF TakeIn, serverVars, connectionVars, callVars, clientVars
<1>2. /\ ready' \in Seq(N!Registered') /\ Distinct(ready')
      /\ Members(ready) \subseteq Members(ready')
  BY <1>1, WakeSocketEffect DEF Inv
<1>3. TypeOK'
  BY <1>1, <1>2, ConditionType DEF Inv, TypeOK, N!TypeOK
<1>4. Lifecycle' /\ Watched' /\ ConnectionsMirrorDescriptors' /\ RequestsAccountedFor'
  BY <1>1, LifecycleKept, WatchedKept, ConnectionsKept, RequestsKept, ServesKept DEF Inv, Alive
<1>5. ClientsInOrder' /\ PendingEventsAreLive' /\ DiesOnlyAtDescriptorLimit'
  BY <1>1, ClientsKept, PendingKept, DiesKept DEF Inv
<1>6. NothingForgotten'
  BY <1>1, <1>2, NothingForgottenByGrowth DEF Inv, Open
<1> QED
  BY <1>1, <1>2, <1>3, <1>4, <1>5, <1>6 DEF Inv

LEMMA TickKeepsInv ==
  ASSUME Inv, Tick
  PROVE  Inv' /\ UNCHANGED call_failed
<1>1. /\ current_connections' = [fd \in ClientFd |->
           IF current_connections[fd] = NULL THEN NULL
           ELSE [current_connections[fd] EXCEPT !.idle = Older(@)]]
      /\ UNCHANGED <<pc, running, iterations, events, socket_of, interest, ready,
                     tracked_file_descriptors_count, call_failed, backlog, inbox, phase, outstanding>>
      /\ silence' = [c \in Client |-> IF Accepted(c) THEN Older(silence[c]) ELSE silence[c]]
  BY DEF Tick, serverVars, notifierVars, callVars, clientVars
<1>2. current_connections \in [ClientFd -> Connection \cup {NULL}]
  BY DEF Inv, TypeOK
<1>3. \A fd \in ClientFd : current_connections[fd] # NULL =>
        /\ current_connections'[fd] \in Connection
        /\ current_connections'[fd].buffered = current_connections[fd].buffered
  <2> SUFFICES ASSUME NEW fd \in ClientFd, current_connections[fd] # NULL
               PROVE  /\ current_connections'[fd] \in Connection
                      /\ current_connections'[fd].buffered = current_connections[fd].buffered
    OBVIOUS
  <2>1. current_connections[fd] \in [idle: 0 .. IdleLimit, buffered: Nat]
    BY <1>2 DEF Connection
  <2>2. current_connections'[fd] = [current_connections[fd] EXCEPT !.idle = Older(@)]
    BY <1>1
  <2>3. Older(current_connections[fd].idle) \in 0 .. IdleLimit
    BY <2>1, ServerAssumption DEF Older
  <2> QED
    BY <2>1, <2>2, <2>3 DEF Connection
<1>4. \A fd \in ClientFd : current_connections[fd] = NULL <=> current_connections'[fd] = NULL
  BY <1>1, <1>3, ServerAssumption
<1>5. current_connections' \in [ClientFd -> Connection \cup {NULL}]
  BY <1>1, <1>3, <1>4
<1>6. TypeOK'
  <2>1. \A age \in 0 .. IdleLimit : Older(age) \in 0 .. IdleLimit
    BY ServerAssumption DEF Older
  <2>2. silence' \in [Client -> 0 .. IdleLimit]
    BY <1>1, <2>1 DEF Inv, TypeOK
  <2> QED
    BY <1>1, <1>5, <2>2, ConditionType DEF Inv, TypeOK, N!TypeOK, N!Registered
<1>7. Lifecycle' /\ Watched' /\ ClientsInOrder' /\ DiesOnlyAtDescriptorLimit' /\ NothingForgotten'
  BY <1>1, LifecycleKept, WatchedKept, ClientsKept, DiesKept, NothingKept DEF Inv
<1>8. ConnectionsMirrorDescriptors'
  BY <1>1, <1>4 DEF Inv, ConnectionsMirrorDescriptors, Open, N!Registered, Queued
<1>9. RequestsAccountedFor'
  BY <1>1, <1>3, <1>4, ServesKept DEF Inv, RequestsAccountedFor, Open, Queued, Alive, Whole
<1>10. PendingEventsAreLive'
  <2>1. \A i \in DOMAIN events : events[i].file_descriptor \in FileDescriptor
    BY EventsInBatch DEF Inv
  <2> QED
    BY <1>1, <1>4, <2>1, Descriptors DEF Inv, PendingEventsAreLive, Serves
<1> QED
  BY <1>1, <1>6, <1>7, <1>8, <1>9, <1>10 DEF Inv

(* Signals, and the steps of the thread that touch no connection. *)
LEMMA ControlKeepsInv ==
  ASSUME Inv,
         \/ Signal \/ Listen \/ EnterLoop \/ AcceptFails
         \/ BreakBatch \/ EndIteration \/ BrokenPipe
  PROVE  Inv' /\ UNCHANGED call_failed
<1>1. UNCHANGED <<current_connections, socket_of, interest, ready, tracked_file_descriptors_count, call_failed,
                  backlog, inbox, phase, outstanding, silence>>
  BY DEF Signal, Listen, EnterLoop, AcceptFails, BreakBatch, EndIteration, BrokenPipe,
         connectionVars, notifierVars, callVars, clientVars
<1>2. Watched' /\ ClientsInOrder' /\ ConnectionsMirrorDescriptors' /\ RequestsAccountedFor'
  <2>1. Alive' => Alive /\ \A fd : Serves(fd)' <=> Serves(fd)
    <3>1. CASE Signal
      BY <3>1, ServesKept DEF Signal, Alive
    <3>2. CASE BrokenPipe
      BY <3>2 DEF BrokenPipe, Alive, Ended
    <3>3. CASE Listen \/ EnterLoop \/ AcceptFails \/ BreakBatch \/ EndIteration
      <4>1. /\ pc \in {"registered", "listening", "dispatch"}
            /\ pc' # "answering"
        BY <3>3 DEF Listen, EnterLoop, AcceptFails, BreakBatch, EndIteration, LoopCondition, Handling
      <4> QED
        BY <4>1, ServesKept DEF Alive, Ended
    <3> QED
      BY <3>1, <3>2, <3>3
  <2> QED
    BY <1>1, <2>1, WatchedKept, ClientsKept, ConnectionsKept, RequestsKept DEF Inv
<1>3. TypeOK'
  <2>1. /\ events' \in Seq(N!Event) /\ running' \in BOOLEAN
        /\ iterations' \in 0 .. CheckEvery - 1
        /\ pc' \in {"main", "registered", "listening", "stopped", "closing"} \cup Loop \cup Ended
    <3>1. TypeOK /\ events \in Seq(N!Event) /\ <<>> \in Seq(N!Event)
      BY DEF Inv, TypeOK, N!TypeOK
    <3>2. CASE Signal
      BY <3>1, <3>2 DEF TypeOK, Signal
    <3>3. CASE Listen
      BY <3>1, <3>3 DEF TypeOK, Listen, Ended
    <3>4. CASE EnterLoop
      BY <3>1, <3>4, ServerAssumption DEF TypeOK, EnterLoop, Loop
    <3>5. CASE AcceptFails
      BY <3>1, <3>5 DEF TypeOK, AcceptFails, Ended
    <3>6. CASE BreakBatch
      BY <3>1, <3>6 DEF TypeOK, BreakBatch
    <3>7. CASE EndIteration
      BY <3>1, <3>7, ServerAssumption DEF TypeOK, EndIteration, LoopCondition, Loop
    <3>8. CASE BrokenPipe
      BY <3>1, <3>8 DEF TypeOK, BrokenPipe, Ended
    <3> QED
      BY <3>2, <3>3, <3>4, <3>5, <3>6, <3>7, <3>8
  <2> QED
    BY <1>1, <2>1, ConditionType DEF Inv, TypeOK, N!TypeOK, N!Registered
<1>4. Lifecycle'
  BY <1>1 DEF Inv, Lifecycle, Loop, Open, Signal, Listen, EnterLoop, AcceptFails, BreakBatch,
     EndIteration, BrokenPipe, LoopCondition, Handling
<1>5. PendingEventsAreLive'
  <2>1. pc' \in {"dispatch", "answering"} => pc' = pc /\ (events' = events \/ events' = <<>>)
    BY DEF Signal, Listen, EnterLoop, AcceptFails, BreakBatch, EndIteration, BrokenPipe, LoopCondition
  <2>2. DOMAIN <<>> = {}
    OBVIOUS
  <2> QED
    BY <1>1, <2>1, <2>2 DEF Inv, PendingEventsAreLive, Serves
<1>6. NothingForgotten'
  <2>1. CASE Open' = {}
    BY <2>1 DEF NothingForgotten
  <2>2. CASE ~running'
    BY <2>2 DEF NothingForgotten
  <2>3. CASE (running' <=> running) /\ events' = events
    BY <1>1, <2>3, NothingForgottenByGrowth DEF Inv, Open
  <2>4. EnterLoop => Open' = {}
    BY <1>1 DEF Inv, Lifecycle, EnterLoop, Open
  <2>5. Signal \/ BreakBatch => ~running'
    BY DEF Signal, BreakBatch
  <2>6. Listen \/ AcceptFails \/ EndIteration \/ BrokenPipe => running' = running /\ events' = events
    BY DEF Listen, AcceptFails, EndIteration, BrokenPipe
  <2> QED
    BY <2>1, <2>2, <2>3, <2>4, <2>5, <2>6
<1>7. DiesOnlyAtDescriptorLimit'
  <2>1. CASE AcceptFails
    <3>1. events # <<>> /\ pc = "dispatch" /\ Head(events).file_descriptor = Listener
      BY <2>1 DEF AcceptFails, Handling
    <3>2. 1 \in DOMAIN events /\ Head(events) = events[1]
      BY <3>1, TailProperties DEF Inv, TypeOK, N!TypeOK
    <3>3. backlog # <<>>
      BY <3>1, <3>2 DEF Inv, PendingEventsAreLive
    <3>4. ClientFd \ Open = {}
      BY <2>1, <3>3 DEF AcceptFails
    <3> QED
      BY <1>1, <3>4 DEF DiesOnlyAtDescriptorLimit, Open
  <2>2. CASE ~AcceptFails
    <3>1. pc' = "terminated" => pc = "terminated"
      BY <2>2 DEF Signal, Listen, EnterLoop, BreakBatch, EndIteration, BrokenPipe, LoopCondition
    <3> QED
      BY <1>1, <3>1 DEF Inv, DiesOnlyAtDescriptorLimit, Open
  <2> QED
    BY <2>1, <2>2
<1> QED
  BY <1>1, <1>2, <1>3, <1>4, <1>5, <1>6, <1>7 DEF Inv

-----------------------------------------------------------------------------
(* The registrations of the listener. *)

LEMMA RegisterKeepsInv ==
  ASSUME Inv, Register
  PROVE  Inv' /\ UNCHANGED call_failed
<1>1. /\ pc = "main" /\ pc' = "registered"
      /\ N!add_event(Listener, {"READ"}, Condition[Listener])
      /\ UNCHANGED <<running, iterations, events, current_connections, socket_of,
                     backlog, inbox, phase, outstanding, silence>>
  BY DEF Register, connectionVars, clientVars
<1>2. interest[Listener] = {} /\ Open = {}
  BY <1>1 DEF Inv, Lifecycle
<1>3. /\ interest' = [interest EXCEPT ![Listener] = {"READ"}]
      /\ interest' \in [FileDescriptor -> SUBSET N!EventType]
      /\ ready' \in Seq(N!Registered') /\ Distinct(ready')
      /\ UNCHANGED <<tracked_file_descriptors_count, call_failed>>
  <2>1. {"READ"} \in SUBSET N!EventType /\ {"READ"} # {}
    BY DEF N!EventType
  <2> QED
    BY <1>1, <1>2, <2>1, Descriptors, AddEffect DEF Inv
<1>4. interest \in [FileDescriptor -> SUBSET N!EventType]
  BY DEF Inv, TypeOK, N!TypeOK
<1>5. /\ \A fd \in ClientFd : interest'[fd] = interest[fd]
      /\ interest'[Listener] # {}
  BY <1>3, <1>4, Descriptors
<1>6. Open' = {}
  BY <1>1, <1>2 DEF Open
<1>7. TypeOK'
  BY <1>1, <1>3, ConditionType DEF Inv, TypeOK, N!TypeOK
<1>8. Lifecycle'
  BY <1>1, <1>5, <1>6 DEF Inv, Lifecycle, Loop
<1>9. Watched' /\ ClientsInOrder' /\ RequestsAccountedFor'
  BY <1>1, <1>5, ClientsKept, RequestsKept, ServesKept DEF Inv, Watched, Alive, Ended
<1>10. ConnectionsMirrorDescriptors'
  <2>1. N!Registered' \ {Listener} = N!Registered \ {Listener}
    BY <1>5, Descriptors DEF N!Registered
  <2> QED
    BY <1>1, <2>1 DEF Inv, ConnectionsMirrorDescriptors, Open, Queued
<1>11. PendingEventsAreLive' /\ DiesOnlyAtDescriptorLimit'
  BY <1>1 DEF PendingEventsAreLive, DiesOnlyAtDescriptorLimit
<1>12. NothingForgotten'
  BY <1>6 DEF NothingForgotten
<1> QED
  BY <1>3, <1>7, <1>8, <1>9, <1>10, <1>11, <1>12 DEF Inv

LEMMA UnlistenKeepsInv ==
  ASSUME Inv, Unlisten
  PROVE  Inv' /\ UNCHANGED call_failed
<1>1. /\ pc = "stopped" /\ pc' = "closing"
      /\ N!delete_events({Listener})
      /\ UNCHANGED <<running, iterations, events, current_connections, socket_of,
                     backlog, inbox, phase, outstanding, silence>>
  BY DEF Unlisten, N!delete_event, connectionVars, clientVars
<1>2. Listener \in N!Registered
  BY <1>1, Descriptors DEF Inv, Lifecycle, N!Registered
<1>3. /\ interest' = [fd \in FileDescriptor |-> IF fd \in {Listener} THEN {} ELSE interest[fd]]
      /\ interest' \in [FileDescriptor -> SUBSET N!EventType]
      /\ ready' \in Seq(N!Registered') /\ Distinct(ready')
      /\ Members(ready') = Members(ready) \ {Listener}
      /\ UNCHANGED <<tracked_file_descriptors_count, call_failed>>
  <2>1. {Listener} \in SUBSET N!Registered
    BY <1>2
  <2> QED
    BY <1>1, <2>1, DeleteEffect DEF Inv
<1>4. \A fd \in ClientFd : interest'[fd] = interest[fd]
  BY <1>3, Descriptors
<1>5. TypeOK'
  BY <1>1, <1>3, ConditionType DEF Inv, TypeOK, N!TypeOK
<1>6. Lifecycle'
  BY <1>1 DEF Inv, Lifecycle, Loop
<1>7. Watched' /\ ClientsInOrder' /\ RequestsAccountedFor'
  BY <1>1, <1>4, ClientsKept, RequestsKept, ServesKept DEF Inv, Watched, Alive, Ended
<1>8. ConnectionsMirrorDescriptors'
  <2>1. N!Registered' \ {Listener} = N!Registered \ {Listener}
    BY <1>4, Descriptors DEF N!Registered
  <2> QED
    BY <1>1, <2>1 DEF Inv, ConnectionsMirrorDescriptors, Open, Queued
<1>9. PendingEventsAreLive' /\ DiesOnlyAtDescriptorLimit'
  BY <1>1 DEF PendingEventsAreLive, DiesOnlyAtDescriptorLimit
<1>10. NothingForgotten'
  <2> SUFFICES ASSUME running', NEW fd \in Open'
               PROVE  /\ phase'[socket_of'[fd]] = "shut" => Announced(fd, {"CLOSE_CONNECTION"})'
                      /\ inbox'[socket_of'[fd]] > 0 /\ Patient(socket_of'[fd])
                           => Announced(fd, {"READ", "CLOSE_CONNECTION"})'
    BY DEF NothingForgotten, Patient, Whole
  <2>1. running /\ fd \in Open /\ fd # Listener
    BY <1>1, Descriptors DEF Open
  <2>2. \A types : Announced(fd, types) => Announced(fd, types)'
    BY <1>1, <1>3, <2>1, NotifierLists DEF Announced, Members, N!Members
  <2> QED
    BY <1>1, <2>1, <2>2 DEF Inv, NothingForgotten
<1> QED
  BY <1>3, <1>5, <1>6, <1>7, <1>8, <1>9, <1>10 DEF Inv

(* At the end everything is closed. *)
LEMMA DestroyKeepsInv ==
  ASSUME Inv, Destroy
  PROVE  Inv' /\ UNCHANGED call_failed
<1>1. Open' = {} /\ N!Registered' = {}
  BY DEF Destroy, Open, N!Registered
<1>2. \A c : ~Queued(c)' /\ (c \in Client => ~Accepted(c)')
  BY ServerAssumption DEF Destroy, Queued, Accepted
<1>3. TypeOK'
  BY ConditionType DEF Destroy, Inv, TypeOK, N!TypeOK, Ended
<1>4. Lifecycle'
  BY DEF Destroy, Inv, Lifecycle, Loop
<1>5. Watched' /\ Distinct(ready')
  BY Descriptors DEF Destroy, Watched, Distinct
<1>6. ClientsInOrder'
  BY <1>2 DEF Destroy, Inv, ClientsInOrder, Distinct
<1>7. ConnectionsMirrorDescriptors' /\ RequestsAccountedFor'
  BY <1>1, <1>2 DEF Destroy, ConnectionsMirrorDescriptors, RequestsAccountedFor
<1>8. PendingEventsAreLive' /\ NothingForgotten' /\ DiesOnlyAtDescriptorLimit'
  BY <1>1 DEF Destroy, PendingEventsAreLive, NothingForgotten, DiesOnlyAtDescriptorLimit
<1> QED
  BY <1>3, <1>4, <1>5, <1>6, <1>7, <1>8 DEF Inv, Destroy

-----------------------------------------------------------------------------
(* Connections that are closed. *)

(* Everything of the invariant but the batch survives a Disconnect of      *)
(* connections, and the connections that stay are as they were.            *)
LEMMA DisconnectEffect ==
  ASSUME Inv, NEW fds \in SUBSET Open, Disconnect(fds),
         pc \in {"timeout", "dispatch"}, pc' # "answering"
  PROVE  /\ current_connections' \in [ClientFd -> Connection \cup {NULL}]
         /\ socket_of' \in [ClientFd -> Client \cup {NULL}]
         /\ interest' \in [FileDescriptor -> SUBSET N!EventType]
         /\ ready' \in Seq(N!Registered') /\ Distinct(ready')
         /\ inbox' \in [Client -> Nat] /\ outstanding' \in [Client -> Nat]
         /\ silence' \in [Client -> 0 .. IdleLimit]
         /\ UNCHANGED <<tracked_file_descriptors_count, call_failed, backlog, phase>>
         /\ Open' = Open \ fds
         /\ Members(ready') = Members(ready) \ fds
         /\ interest'[Listener] = interest[Listener]
         /\ \A fd \in Open' : /\ socket_of'[fd] = socket_of[fd]
                              /\ current_connections'[fd] = current_connections[fd]
                              /\ inbox'[socket_of[fd]] = inbox[socket_of[fd]]
                              /\ silence'[socket_of[fd]] = silence[socket_of[fd]]
         /\ Watched' /\ ClientsInOrder' /\ ConnectionsMirrorDescriptors' /\ RequestsAccountedFor'
<1>1. /\ N!delete_events(fds)
      /\ current_connections' =
           [fd \in ClientFd |-> IF fd \in fds THEN NULL ELSE current_connections[fd]]
      /\ socket_of' = [fd \in ClientFd |-> IF fd \in fds THEN NULL ELSE socket_of[fd]]
      /\ inbox' = [c \in Client |-> IF \E fd \in fds : socket_of[fd] = c THEN 0 ELSE inbox[c]]
      /\ outstanding' =
           [c \in Client |-> IF \E fd \in fds : socket_of[fd] = c THEN 0 ELSE outstanding[c]]
      /\ silence' = [c \in Client |-> IF \E fd \in fds : socket_of[fd] = c THEN 0 ELSE silence[c]]
      /\ UNCHANGED <<backlog, phase>>
  BY DEF Disconnect, Unregister
<1>2. /\ TypeOK /\ Watched /\ ConnectionsMirrorDescriptors /\ ClientsInOrder
      /\ inbox \in [Client -> Nat] /\ outstanding \in [Client -> Nat]
      /\ silence \in [Client -> 0 .. IdleLimit] /\ 0 \in 0 .. IdleLimit
      /\ current_connections \in [ClientFd -> Connection \cup {NULL}]
      /\ socket_of \in [ClientFd -> Client \cup {NULL}]
  BY ServerAssumption DEF Inv, TypeOK
<1>3. fds \in SUBSET N!Registered /\ fds \subseteq ClientFd /\ Listener \notin fds
  BY <1>2, RegisteredOpen, Descriptors DEF Open
<1>4. /\ interest' = [fd \in FileDescriptor |-> IF fd \in fds THEN {} ELSE interest[fd]]
      /\ interest' \in [FileDescriptor -> SUBSET N!EventType]
      /\ ready' \in Seq(N!Registered') /\ Distinct(ready')
      /\ Members(ready') = Members(ready) \ fds
      /\ UNCHANGED <<tracked_file_descriptors_count, call_failed>>
  BY <1>1, <1>3, DeleteEffect DEF Inv
<1>5. /\ current_connections' \in [ClientFd -> Connection \cup {NULL}]
      /\ socket_of' \in [ClientFd -> Client \cup {NULL}]
      /\ inbox' \in [Client -> Nat] /\ outstanding' \in [Client -> Nat]
      /\ silence' \in [Client -> 0 .. IdleLimit]
  BY <1>1, <1>2
<1>6. Open' = Open \ fds
  BY <1>1 DEF Open
<1>7. interest'[Listener] = interest[Listener]
  BY <1>3, <1>4, Descriptors
<1>8. \A fd \in Open' : /\ socket_of'[fd] = socket_of[fd]
                        /\ current_connections'[fd] = current_connections[fd]
  BY <1>1, <1>6 DEF Open
<1>9. \A fd \in Open' : /\ inbox'[socket_of[fd]] = inbox[socket_of[fd]]
                        /\ outstanding'[socket_of[fd]] = outstanding[socket_of[fd]]
                        /\ silence'[socket_of[fd]] = silence[socket_of[fd]]
  <2>1. \A fd \in Open' : socket_of[fd] \in Client /\ \A other \in fds : socket_of[other] # socket_of[fd]
    BY <1>2, <1>6, ConnectedClients DEF ConnectionsMirrorDescriptors
  <2> QED
    BY <1>1, <2>1
<1>10. Watched'
  BY <1>1, <1>2, <1>3, <1>4, Descriptors DEF Watched
<1>11. \A c : Queued(c)' <=> Queued(c)
  BY <1>1 DEF Queued
<1>12. \A c \in Client : Queued(c) => \A fd \in fds : socket_of[fd] # c
  BY <1>2 DEF ConnectionsMirrorDescriptors
<1>13. ClientsInOrder'
  <2>1. \A c \in Client : Accepted(c)' => Accepted(c)
    BY <1>1, ServerAssumption DEF Accepted
  <2>2. \A c \in Client : /\ inbox[c] = 0 => inbox'[c] = 0
                          /\ outstanding[c] = 0 => outstanding'[c] = 0
                          /\ outstanding[c] <= MaxOutstanding[c] => outstanding'[c] <= MaxOutstanding[c]
    BY <1>1, ServerAssumption
  <2> QED
    BY <1>1, <1>2, <1>11, <2>1, <2>2 DEF ClientsInOrder
<1>14. ConnectionsMirrorDescriptors'
  <2>1. \A fd \in ClientFd : current_connections'[fd] # NULL <=> socket_of'[fd] # NULL
    BY <1>1, <1>2 DEF ConnectionsMirrorDescriptors
  <2>2. N!Registered' \ {Listener} = Open'
    <3>1. \A fd \in FileDescriptor : interest'[fd] # {} <=> interest[fd] # {} /\ fd \notin fds
      BY <1>4
    <3> QED
      BY <1>2, <1>6, <3>1 DEF ConnectionsMirrorDescriptors, N!Registered
  <2>3. \A fd, other \in Open' : socket_of'[fd] = socket_of'[other] => fd = other
    BY <1>2, <1>6, <1>8 DEF ConnectionsMirrorDescriptors
  <2>4. \A fd \in Open' : ~Queued(socket_of[fd])'
    BY <1>1, <1>2, <1>6, <1>8 DEF ConnectionsMirrorDescriptors, Queued
  <2> QED
    BY <2>1, <2>2, <2>3, <2>4 DEF ConnectionsMirrorDescriptors, Queued
<1>15. RequestsAccountedFor'
  <2>1. \A c \in Client : Queued(c)' /\ Whole(c) => outstanding'[c] = inbox'[c]
    BY <1>1, <1>11, <1>12 DEF Inv, RequestsAccountedFor
  <2>2. ASSUME NEW fd \in Open', Whole(socket_of'[fd]), current_connections'[fd] # NULL
        PROVE  outstanding'[socket_of'[fd]] = inbox'[socket_of'[fd]] + current_connections'[fd].buffered
                                                + (IF Serves(fd)' THEN 1 ELSE 0)
    <3>1. /\ fd \in Open /\ socket_of'[fd] = socket_of[fd]
          /\ current_connections'[fd] = current_connections[fd]
      BY <1>6, <1>8
    <3>2. Alive /\ ~Serves(fd) /\ ~Serves(fd)'
      BY DEF Alive, Ended, Serves
    <3>3. Whole(socket_of[fd]) /\ current_connections[fd] # NULL
      BY <2>2, <3>1
    <3>4. outstanding[socket_of[fd]] = inbox[socket_of[fd]] + current_connections[fd].buffered
                                         + (IF Serves(fd) THEN 1 ELSE 0)
      BY <3>1, <3>2, <3>3 DEF Inv, RequestsAccountedFor
    <3> QED
      BY <1>9, <3>1, <3>2, <3>4
  <2> QED
    BY <2>1, <2>2 DEF RequestsAccountedFor, Whole
<1> QED
  BY <1>1, <1>4, <1>5, <1>6, <1>7, <1>8, <1>9, <1>10, <1>13, <1>14, <1>15

(* Nothing is forgotten of the connections that stay, when the batch keeps *)
(* its events about them.                                                  *)
LEMMA NothingForgottenByDisconnect ==
  ASSUME Inv, NEW fds \in SUBSET Open, Disconnect(fds), running' => running,
         pc \in {"timeout", "dispatch"}, pc' # "answering",
         \A fd \in Open \ fds : \A types : Announced(fd, types) => Announced(fd, types)'
  PROVE  NothingForgotten'
<1>1. /\ Open' = Open \ fds /\ phase' = phase
      /\ \A fd \in Open' : /\ socket_of'[fd] = socket_of[fd]
                           /\ inbox'[socket_of[fd]] = inbox[socket_of[fd]]
  BY DisconnectEffect
<1> QED
  BY <1>1 DEF Inv, NothingForgotten, Patient, Whole

(* The search for idle connections, after a timeout and at the end of      *)
(* every CheckEvery-th iteration.                                          *)
LEMMA IdleCheckKeepsInv ==
  ASSUME Inv, CheckAfterTimeout \/ EndIterationWithCheck
  PROVE  Inv' /\ UNCHANGED call_failed
<1>1. /\ Disconnect(IdleConnections)
      /\ events = <<>>
      /\ pc \in {"timeout", "dispatch"} /\ pc' \in {"dispatch", "wait", "stopped"}
      /\ UNCHANGED <<running, events>>
      /\ iterations' \in {iterations, 0}
  BY DEF CheckAfterTimeout, EndIterationWithCheck, Inv, Lifecycle, Loop, LoopCondition
<1>2. IdleConnections \in SUBSET Open
  BY ConnectedClients DEF Inv, IdleConnections
<1>3. /\ current_connections' \in [ClientFd -> Connection \cup {NULL}]
      /\ socket_of' \in [ClientFd -> Client \cup {NULL}]
      /\ interest' \in [FileDescriptor -> SUBSET N!EventType]
      /\ ready' \in Seq(N!Registered') /\ Distinct(ready')
      /\ inbox' \in [Client -> Nat] /\ outstanding' \in [Client -> Nat]
      /\ silence' \in [Client -> 0 .. IdleLimit]
      /\ UNCHANGED <<tracked_file_descriptors_count, call_failed, backlog, phase>>
      /\ Members(ready') = Members(ready) \ IdleConnections
      /\ interest'[Listener] = interest[Listener]
      /\ Watched' /\ ClientsInOrder' /\ ConnectionsMirrorDescriptors' /\ RequestsAccountedFor'
  BY <1>1, <1>2, DisconnectEffect
<1>4. iterations' \in 0 .. CheckEvery - 1
  BY <1>1, ServerAssumption DEF Inv, TypeOK
<1>5. TypeOK'
  BY <1>1, <1>3, <1>4, ConditionType DEF Inv, TypeOK, N!TypeOK, Loop
<1>6. Lifecycle'
  BY <1>1, <1>3 DEF Inv, Lifecycle, Loop
<1>7. PendingEventsAreLive' /\ DiesOnlyAtDescriptorLimit'
  <2>1. DOMAIN events' = {}
    BY <1>1
  <2> QED
    BY <1>1, <2>1 DEF PendingEventsAreLive, DiesOnlyAtDescriptorLimit
<1>8. NothingForgotten'
  <2>1. \A fd \in Open \ IdleConnections : \A types : Announced(fd, types) => Announced(fd, types)'
    BY <1>1, <1>3, NotifierLists DEF Announced, Members, N!Members
  <2> QED
    BY <1>1, <1>2, <2>1, NothingForgottenByDisconnect
<1> QED
  BY <1>3, <1>5, <1>6, <1>7, <1>8 DEF Inv

-----------------------------------------------------------------------------
(* One event of the batch. *)

(* When an event was handled the rest of the batch is about other          *)
(* descriptors.                                                            *)
LEMMA BatchRest ==
  ASSUME Inv, pc \in {"dispatch", "answering"}, events # <<>>, events' = Tail(events)
  PROVE  /\ 1 \in DOMAIN events /\ Head(events) = events[1]
         /\ Head(events).file_descriptor \in FileDescriptor
         /\ events' \in Seq(N!Event)
         /\ \A i \in DOMAIN events' : \E j \in DOMAIN events :
              /\ events'[i] = events[j]
              /\ events[j].file_descriptor # Head(events).file_descriptor
         /\ \A i, j \in DOMAIN events' :
              events'[i].file_descriptor = events'[j].file_descriptor => i = j
         /\ \A i \in DOMAIN events : i = 1 \/ \E j \in DOMAIN events' : events'[j] = events[i]
<1>1. events \in Seq(N!Event)
  BY DEF Inv, TypeOK, N!TypeOK
<1>2. /\ events' \in Seq(N!Event)
      /\ Head(events) = events[1] /\ 1 \in DOMAIN events
      /\ \A i \in DOMAIN events' :
           i \in Nat /\ i + 1 \in DOMAIN events /\ i + 1 # 1 /\ events'[i] = events[i + 1]
      /\ \A i \in DOMAIN events : i = 1 \/ (i - 1 \in DOMAIN events' /\ events'[i - 1] = events[i])
  BY <1>1, TailProperties
<1>3. \A i, j \in DOMAIN events :
        events[i].file_descriptor = events[j].file_descriptor => i = j
  BY DEF Inv, PendingEventsAreLive
<1>4. Head(events).file_descriptor \in FileDescriptor
  BY <1>2, EventsInBatch DEF Inv
<1>5. \A i \in DOMAIN events' : \E j \in DOMAIN events :
        /\ events'[i] = events[j]
        /\ events[j].file_descriptor # Head(events).file_descriptor
  BY <1>2, <1>3
<1>6. \A i, j \in DOMAIN events' : i + 1 = j + 1 => i = j
  BY <1>2
<1>7. \A i, j \in DOMAIN events' :
        events'[i].file_descriptor = events'[j].file_descriptor => i = j
  BY <1>2, <1>3, <1>6
<1> QED
  BY <1>1, <1>2, <1>4, <1>5, <1>7

(* What was announced still is, unless the event that was handled said it. *)
LEMMA AnnouncedRest ==
  ASSUME Inv, pc \in {"dispatch", "answering"}, events # <<>>, events' = Tail(events), NEW fd, NEW types,
         fd \in Members(ready) => fd \in Members(ready'),
         Announced(fd, types),
         fd # Head(events).file_descriptor \/ Head(events).type \notin types
  PROVE  Announced(fd, types)'
<1>1. CASE fd \in Members(ready)
  BY <1>1, NotifierLists DEF Announced, Members, N!Members
<1>2. CASE \E i \in DOMAIN events : events[i].file_descriptor = fd /\ events[i].type \in types
  <2>1. PICK i \in DOMAIN events : events[i].file_descriptor = fd /\ events[i].type \in types
    BY <1>2
  <2>2. i # 1
    BY <2>1, BatchRest
  <2>3. \E j \in DOMAIN events' : events'[j] = events[i]
    BY <2>1, <2>2, BatchRest
  <2> QED
    BY <2>1, <2>3 DEF Announced
<1> QED
  BY <1>1, <1>2, NotifierLists DEF Announced

(* The rest of the batch stays live when the step that handled the event   *)
(* leaves the other connections as they were.                              *)
LEMMA PendingRest ==
  ASSUME Inv, pc \in {"dispatch", "answering"}, pc' = "dispatch",
         events # <<>>, events' = Tail(events),
         Head(events).file_descriptor = Listener \/ backlog' = backlog,
         \A fd \in Open : fd # Head(events).file_descriptor =>
           /\ current_connections'[fd] = current_connections[fd]
           /\ socket_of'[fd] = socket_of[fd]
           /\ inbox'[socket_of[fd]] = inbox[socket_of[fd]]
           /\ phase'[socket_of[fd]] = phase[socket_of[fd]]
  PROVE  PendingEventsAreLive'
<1>1. /\ \A i \in DOMAIN events' : \E j \in DOMAIN events :
           /\ events'[i] = events[j]
           /\ events[j].file_descriptor # Head(events).file_descriptor
      /\ \A i, j \in DOMAIN events' :
           events'[i].file_descriptor = events'[j].file_descriptor => i = j
  BY BatchRest
<1>2. ASSUME NEW i \in DOMAIN events'
      PROVE  IF events'[i].file_descriptor = Listener THEN backlog' # <<>>
             ELSE LET it == events'[i].file_descriptor
                  IN  /\ current_connections'[it] # NULL
                      /\ events'[i].type = "READ" => inbox'[socket_of'[it]] > 0
                      /\ events'[i].type = "CLOSE_CONNECTION" => phase'[socket_of'[it]] = "shut"
  <2>1. PICK j \in DOMAIN events : /\ events'[i] = events[j]
                                   /\ events[j].file_descriptor # Head(events).file_descriptor
    BY <1>1
  <2> DEFINE it == events[j].file_descriptor
  <2>2. it \in FileDescriptor
    BY EventsInBatch DEF Inv
  <2>3. CASE it = Listener
    BY <2>1, <2>3 DEF Inv, PendingEventsAreLive
  <2>4. CASE it # Listener
    <3>1. /\ current_connections[it] # NULL
          /\ events[j].type = "READ" => inbox[socket_of[it]] > 0
          /\ events[j].type = "CLOSE_CONNECTION" => phase[socket_of[it]] = "shut"
      BY <2>1, <2>4 DEF Inv, PendingEventsAreLive, Serves
    <3>2. it \in Open
      BY <2>2, <2>4, <3>1, Descriptors, ConnectedClients DEF Inv
    <3> QED
      BY <2>1, <2>4, <3>1, <3>2
  <2> QED
    BY <2>3, <2>4
<1> QED
  BY <1>1, <1>2 DEF PendingEventsAreLive

(* A CLOSE_CONNECTION finds its connection, and the peer has closed it. *)
LEMMA DisconnectedIsOpen ==
  ASSUME Inv, HandleClientDisconnected
  PROVE  /\ pc = "dispatch" /\ events # <<>> /\ events' = Tail(events)
         /\ {Head(events).file_descriptor} \in SUBSET Open
         /\ phase[socket_of[Head(events).file_descriptor]] = "shut"
         /\ Disconnect({Head(events).file_descriptor})
         /\ UNCHANGED <<pc, running, iterations>>
<1> DEFINE fd == Head(events).file_descriptor
<1>1. /\ pc = "dispatch" /\ events # <<>> /\ events' = Tail(events)
      /\ fd # Listener /\ Head(events).type = "CLOSE_CONNECTION"
      /\ Disconnect({fd})
      /\ UNCHANGED <<pc, running, iterations>>
  BY DEF HandleClientDisconnected, Handling
<1>2. 1 \in DOMAIN events /\ Head(events) = events[1] /\ fd \in ClientFd
  BY <1>1, BatchRest, Descriptors
<1>3. current_connections[fd] # NULL /\ phase[socket_of[fd]] = "shut"
  BY <1>1, <1>2 DEF Inv, PendingEventsAreLive
<1>4. fd \in Open
  BY <1>2, <1>3, ConnectedClients DEF Inv
<1> QED
  BY <1>1, <1>3, <1>4

LEMMA HandleClientDisconnectedKeepsInv ==
  ASSUME Inv, HandleClientDisconnected
  PROVE  Inv' /\ UNCHANGED call_failed
<1> DEFINE fd == Head(events).file_descriptor
<1>1. /\ pc = "dispatch" /\ events # <<>> /\ events' = Tail(events)
      /\ {fd} \in SUBSET Open
      /\ Disconnect({fd})
      /\ UNCHANGED <<pc, running, iterations>>
  BY DisconnectedIsOpen
<1> HIDE DEF fd
<1>2. /\ current_connections' \in [ClientFd -> Connection \cup {NULL}]
      /\ socket_of' \in [ClientFd -> Client \cup {NULL}]
      /\ interest' \in [FileDescriptor -> SUBSET N!EventType]
      /\ ready' \in Seq(N!Registered') /\ Distinct(ready')
      /\ inbox' \in [Client -> Nat] /\ outstanding' \in [Client -> Nat]
      /\ silence' \in [Client -> 0 .. IdleLimit]
      /\ UNCHANGED <<tracked_file_descriptors_count, call_failed, backlog, phase>>
      /\ Open' = Open \ {fd}
      /\ Members(ready') = Members(ready) \ {fd}
      /\ interest'[Listener] = interest[Listener]
      /\ \A other \in Open' : /\ socket_of'[other] = socket_of[other]
                              /\ current_connections'[other] = current_connections[other]
                              /\ inbox'[socket_of[other]] = inbox[socket_of[other]]
      /\ Watched' /\ ClientsInOrder' /\ ConnectionsMirrorDescriptors' /\ RequestsAccountedFor'
  <2>1. pc \in {"timeout", "dispatch"} /\ pc' # "answering"
    BY <1>1
  <2> QED
    BY <1>1, <2>1, DisconnectEffect
<1>3. events' \in Seq(N!Event)
  BY <1>1, BatchRest
<1>4. TypeOK'
  BY <1>1, <1>2, <1>3, ConditionType DEF Inv, TypeOK, N!TypeOK
<1>5. Lifecycle' /\ DiesOnlyAtDescriptorLimit'
  BY <1>1, <1>2 DEF Inv, Lifecycle, Loop, DiesOnlyAtDescriptorLimit
<1>6. PendingEventsAreLive'
  BY <1>1, <1>2, PendingRest DEF fd
<1>7. NothingForgotten'
  <2>1. ASSUME NEW other \in Open \ {fd}, NEW types, Announced(other, types)
        PROVE  Announced(other, types)'
    BY <1>1, <1>2, <2>1, AnnouncedRest DEF fd
  <2>2. running' => running
    BY <1>1
  <2>3. \A other \in Open \ {fd} : \A types : Announced(other, types) => Announced(other, types)'
    BY <2>1
  <2> QED
    BY <1>1, <2>2, <2>3, NothingForgottenByDisconnect
<1> QED
  BY <1>2, <1>4, <1>5, <1>6, <1>7 DEF Inv

-----------------------------------------------------------------------------
(* A new batch. *)

(* A batch names each descriptor once, with what is the case there; what   *)
(* was announced and is the case is in the batch or stays announced.       *)
LEMMA WaitEffect ==
  ASSUME TypeOK, Distinct(ready), N!wait_for_events
  PROVE  /\ ready' \in Seq(N!Registered') /\ Distinct(ready')
         /\ events' \in Seq(N!Event)
         /\ UNCHANGED <<interest, tracked_file_descriptors_count, call_failed>>
         /\ \A i \in DOMAIN events' :
              LET fd == events'[i].file_descriptor
              IN  /\ fd \in FileDescriptor
                  /\ N!Reportable(fd) # {}
                  /\ events'[i].type = N!TypeOf(N!Reportable(fd))
         /\ \A i, j \in DOMAIN events' :
              events'[i].file_descriptor = events'[j].file_descriptor => i = j
         /\ \A fd \in Members(ready) : N!Reportable(fd) # {} =>
              \/ fd \in Members(ready')
              \/ \E i \in DOMAIN events' : /\ events'[i].file_descriptor = fd
                                           /\ events'[i].type = N!TypeOf(N!Reportable(fd))
<1> DEFINE kept == {fd \in FileDescriptor : N!Reportable(fd) # {}}
           list == Only(ready, kept)
           total == IF Len(list) < MaxEvents THEN Len(list) ELSE MaxEvents
<1>1. /\ events' = [index \in 1 .. total |->
                      [file_descriptor |-> list[index],
                       type            |-> N!TypeOf(N!Reportable(list[index]))]]
      /\ ready' = Remaining(list, total)
      /\ UNCHANGED <<interest, tracked_file_descriptors_count, call_failed>>
  <2>1. N!Only(ready, kept) = list
    BY NotifierOnly
  <2> QED
    BY <2>1, NotifierLists DEF N!wait_for_events, N!callVars
<1>2. ready \in Seq(N!Registered)
  BY DEF TypeOK, N!TypeOK
<1>3. /\ list \in Seq(N!Registered \cap kept) /\ Distinct(list)
      /\ Members(list) = Members(ready) \cap kept
  BY <1>2, OnlyProperties
<1>4. Members(ready) \subseteq FileDescriptor
  BY <1>2, ElementOfSeq, LenProperties DEF Members, N!Registered
<1>5. \A fd : fd \in kept <=> fd \in FileDescriptor /\ N!Reportable(fd) # {}
  OBVIOUS
<1> HIDE DEF kept, list
<1>6. Len(list) \in Nat /\ DOMAIN list = 1 .. Len(list)
  BY <1>3, LenProperties
<1>7. total \in 0 .. Len(list)
  BY <1>6, ServerAssumption
<1> HIDE DEF total
<1>8. /\ ready' \in Seq(N!Registered \cap kept) /\ Distinct(ready')
      /\ Members(list) = Members(ready') \cup {list[i] : i \in 1 .. total}
  BY <1>1, <1>3, <1>7, RemainingProperties
<1>9. ready' \in Seq(N!Registered')
  <2>1. N!Registered \cap kept \subseteq N!Registered'
    BY <1>1 DEF N!Registered
  <2> QED
    BY <1>8, <2>1, SeqMonotonic
<1>10. \A i \in 1 .. total : i \in DOMAIN list /\ list[i] \in kept
  BY <1>3, <1>6, <1>7, ElementOfSeq
<1>11. /\ DOMAIN events' = 1 .. total
       /\ \A i \in 1 .. total : /\ events'[i].file_descriptor = list[i]
                                /\ events'[i].type = N!TypeOf(N!Reportable(list[i]))
  BY <1>1
<1>12. events' \in Seq(N!Event)
  <2>1. \A i \in 1 .. total : [file_descriptor |-> list[i],
                               type |-> N!TypeOf(N!Reportable(list[i]))] \in N!Event
    <3>1. \A types : N!TypeOf(types) \in N!EventType
      BY DEF N!TypeOf, N!EventType
    <3> QED
      BY <1>5, <1>10, <3>1 DEF N!Event
  <2>2. total \in Nat
    BY <1>6, <1>7
  <2> QED
    BY <1>1, <2>1, <2>2, IsASeq
<1>13. \A i, j \in DOMAIN events' :
         events'[i].file_descriptor = events'[j].file_descriptor => i = j
  BY <1>3, <1>10, <1>11 DEF Distinct
<1>14. ASSUME NEW fd \in Members(ready), N!Reportable(fd) # {}, fd \notin Members(ready')
       PROVE  \E i \in DOMAIN events' : /\ events'[i].file_descriptor = fd
                                        /\ events'[i].type = N!TypeOf(N!Reportable(fd))
  <2>1. fd \in Members(list)
    BY <1>3, <1>4, <1>5, <1>14
  <2>2. PICK i \in 1 .. total : list[i] = fd
    BY <1>8, <1>14, <2>1
  <2> QED
    BY <1>11, <2>2
<1> QED
  BY <1>1, <1>5, <1>8, <1>9, <1>10, <1>11, <1>12, <1>13, <1>14

(* What is the case at the descriptor of a client. *)
LEMMA ConditionOf ==
  /\ \A fd \in Open : /\ "READ" \in Condition[fd] <=>
                           inbox[socket_of[fd]] > 0 \/ phase[socket_of[fd]] = "shut"
                      /\ "CLOSE_CONNECTION" \in Condition[fd] <=> phase[socket_of[fd]] = "shut"
  /\ \A fd \in ClientFd \ Open : Condition[fd] = {}
  /\ Condition[Listener] # {} => backlog # <<>>
<1>1. \A fd \in Open : Condition[fd] =
        {"WRITE"} \cup (IF inbox[socket_of[fd]] > 0 THEN {"READ"} ELSE {})
                  \cup (IF phase[socket_of[fd]] = "shut" THEN {"READ", "CLOSE_CONNECTION"} ELSE {})
  BY Descriptors DEF Condition, Open
<1>2. \A fd \in ClientFd \ Open : Condition[fd] = {}
  BY Descriptors DEF Condition, Open
<1>3. Condition[Listener] = IF backlog = <<>> THEN {} ELSE {"READ"}
  BY Descriptors DEF Condition
<1> QED
  BY <1>1, <1>2, <1>3

LEMMA WaitForEventsKeepsInv ==
  ASSUME Inv, WaitForEvents
  PROVE  Inv' /\ UNCHANGED call_failed
<1>1. /\ pc = "wait" /\ N!wait_for_events
      /\ pc' = IF events' = <<>> THEN "timeout" ELSE "dispatch"
      /\ UNCHANGED <<running, iterations, current_connections, socket_of,
                     backlog, inbox, phase, outstanding, silence>>
  BY DEF WaitForEvents, AfterWait, connectionVars, clientVars
<1>2. TypeOK /\ events = <<>>
  BY <1>1 DEF Inv, Lifecycle, Loop
<1>3. /\ ready' \in Seq(N!Registered') /\ Distinct(ready')
      /\ events' \in Seq(N!Event)
      /\ UNCHANGED <<interest, tracked_file_descriptors_count, call_failed>>
      /\ \A i \in DOMAIN events' :
           LET fd == events'[i].file_descriptor
           IN  /\ fd \in FileDescriptor
               /\ N!Reportable(fd) # {}
               /\ events'[i].type = N!TypeOf(N!Reportable(fd))
      /\ \A i, j \in DOMAIN events' :
           events'[i].file_descriptor = events'[j].file_descriptor => i = j
      /\ \A fd \in Members(ready) : N!Reportable(fd) # {} =>
           \/ fd \in Members(ready')
           \/ \E i \in DOMAIN events' : /\ events'[i].file_descriptor = fd
                                        /\ events'[i].type = N!TypeOf(N!Reportable(fd))
  BY <1>1, <1>2, WaitEffect DEF Inv
<1>4. \A fd \in Open : N!Reportable(fd) = Condition[fd]
  <2>1. \A fd \in Open : interest[fd] = N!EventType /\ fd \in FileDescriptor
    BY Descriptors DEF Inv, Watched, Open
  <2> QED
    BY <2>1, ConditionType DEF N!Reportable
<1>5. TypeOK'
  BY <1>1, <1>3, ConditionType DEF Inv, TypeOK, N!TypeOK, Loop
<1>6. Lifecycle' /\ DiesOnlyAtDescriptorLimit'
  BY <1>1, <1>3 DEF Inv, Lifecycle, Loop, Open, DiesOnlyAtDescriptorLimit
<1>7. Watched' /\ ClientsInOrder' /\ ConnectionsMirrorDescriptors' /\ RequestsAccountedFor'
  BY <1>1, <1>3, WatchedKept, ClientsKept, ConnectionsKept, RequestsKept, ServesKept
     DEF Inv, Alive, Ended
<1>8. PendingEventsAreLive'
  <2>1. ASSUME NEW i \in DOMAIN events'
        PROVE  IF events'[i].file_descriptor = Listener THEN backlog' # <<>>
               ELSE LET it == events'[i].file_descriptor
                    IN  /\ current_connections'[it] # NULL
                        /\ events'[i].type = "READ" => inbox'[socket_of'[it]] > 0
                        /\ events'[i].type = "CLOSE_CONNECTION" => phase'[socket_of'[it]] = "shut"
    <3> DEFINE it == events'[i].file_descriptor
    <3>1. /\ it \in FileDescriptor /\ N!Reportable(it) # {}
          /\ events'[i].type = N!TypeOf(N!Reportable(it))
      BY <1>3
    <3> HIDE DEF it
    <3>2. Condition[it] # {}
      BY <3>1 DEF N!Reportable
    <3>3. CASE it = Listener
      BY <1>1, <3>2, <3>3, ConditionOf DEF it
    <3>4. CASE it # Listener
      <4>1. it \in Open
        BY <3>1, <3>2, <3>4, Descriptors, ConditionOf
      <4>2. current_connections[it] # NULL
        BY <4>1, ConnectedClients, ServerAssumption, <1>2 DEF Inv
      <4>3. events'[i].type = N!TypeOf(Condition[it])
        BY <1>4, <3>1, <4>1
      <4>4. events'[i].type = "CLOSE_CONNECTION" => "CLOSE_CONNECTION" \in Condition[it]
        BY <4>3 DEF N!TypeOf
      <4>5. events'[i].type = "READ" =>
              "READ" \in Condition[it] /\ "CLOSE_CONNECTION" \notin Condition[it]
        BY <4>3 DEF N!TypeOf
      <4>6. /\ events'[i].type = "READ" => inbox[socket_of[it]] > 0
            /\ events'[i].type = "CLOSE_CONNECTION" => phase[socket_of[it]] = "shut"
        BY <4>1, <4>4, <4>5, ConditionOf
      <4> QED
        BY <1>1, <3>4, <4>2, <4>6 DEF it
    <3> QED
      BY <3>3, <3>4
  <2> QED
    BY <1>3, <2>1 DEF PendingEventsAreLive
<1>9. NothingForgotten'
  <2> SUFFICES ASSUME running', NEW fd \in Open'
               PROVE  /\ phase'[socket_of'[fd]] = "shut" => Announced(fd, {"CLOSE_CONNECTION"})'
                      /\ inbox'[socket_of'[fd]] > 0 /\ Patient(socket_of'[fd])
                           => Announced(fd, {"READ", "CLOSE_CONNECTION"})'
    BY DEF NothingForgotten, Patient, Whole
  <2>1. running /\ fd \in Open
    BY <1>1 DEF Open
  <2>2. ASSUME NEW types, Announced(fd, types), N!TypeOf(Condition[fd]) \in types,
               Condition[fd] # {}
        PROVE  Announced(fd, types)'
    <3>1. fd \in Members(ready)
      <4>1. DOMAIN events = {}
        BY <1>2
      <4> QED
        BY <2>2, <4>1, NotifierLists DEF Announced
    <3>2. CASE fd \in Members(ready')
      BY <3>2, NotifierLists DEF Announced, Members, N!Members
    <3>3. CASE \E i \in DOMAIN events' : /\ events'[i].file_descriptor = fd
                                         /\ events'[i].type = N!TypeOf(N!Reportable(fd))
      BY <1>4, <2>1, <2>2, <3>3 DEF Announced
    <3> QED
      BY <1>3, <1>4, <2>1, <2>2, <3>1, <3>2, <3>3
  <2>3. ASSUME phase[socket_of[fd]] = "shut"
        PROVE  Announced(fd, {"CLOSE_CONNECTION"})'
    <3>1. "CLOSE_CONNECTION" \in Condition[fd]
      BY <2>1, <2>3, ConditionOf
    <3>2. N!TypeOf(Condition[fd]) = "CLOSE_CONNECTION"
      BY <3>1 DEF N!TypeOf
    <3> QED
      BY <2>1, <2>2, <2>3, <3>1, <3>2 DEF Inv, NothingForgotten
  <2>4. ASSUME inbox[socket_of[fd]] > 0, Patient(socket_of[fd])
        PROVE  Announced(fd, {"READ", "CLOSE_CONNECTION"})'
    <3>1. "READ" \in Condition[fd]
      BY <2>1, <2>4, ConditionOf
    <3>2. N!TypeOf(Condition[fd]) \in {"READ", "CLOSE_CONNECTION"}
      BY <3>1 DEF N!TypeOf
    <3> QED
      BY <2>1, <2>2, <2>4, <3>1, <3>2 DEF Inv, NothingForgotten
  <2> QED
    BY <1>1, <2>3, <2>4
<1> QED
  BY <1>3, <1>5, <1>6, <1>7, <1>8, <1>9 DEF Inv

LEMMA IgnoreEventKeepsInv ==
  ASSUME Inv, IgnoreEvent
  PROVE  Inv' /\ UNCHANGED call_failed
<1>1. /\ pc = "dispatch" /\ events # <<>> /\ events' = Tail(events)
      /\ Head(events).type = "WRITE"
      /\ UNCHANGED <<pc, running, iterations, current_connections, socket_of, interest, ready,
                     tracked_file_descriptors_count, call_failed, backlog, inbox, phase, outstanding, silence>>
  BY DEF IgnoreEvent, Handling, connectionVars, notifierVars, callVars, clientVars
<1>2. events' \in Seq(N!Event)
  BY <1>1, BatchRest
<1>3. TypeOK'
  BY <1>1, <1>2, ConditionType DEF Inv, TypeOK, N!TypeOK, N!Registered
<1>4. Lifecycle' /\ DiesOnlyAtDescriptorLimit'
  BY <1>1 DEF Inv, Lifecycle, Loop, Open, DiesOnlyAtDescriptorLimit
<1>5. Watched' /\ ClientsInOrder' /\ ConnectionsMirrorDescriptors' /\ RequestsAccountedFor'
  BY <1>1, WatchedKept, ClientsKept, ConnectionsKept, RequestsKept, ServesKept
     DEF Inv, Alive
<1>6. PendingEventsAreLive'
  BY <1>1, PendingRest
<1>7. NothingForgotten'
  <2>1. \A fd : /\ Announced(fd, {"CLOSE_CONNECTION"}) => Announced(fd, {"CLOSE_CONNECTION"})'
                /\ Announced(fd, {"READ", "CLOSE_CONNECTION"})
                     => Announced(fd, {"READ", "CLOSE_CONNECTION"})'
    BY <1>1, AnnouncedRest
  <2>2. /\ running' = running /\ Open' = Open
        /\ UNCHANGED <<phase, inbox, socket_of>>
    BY <1>1 DEF Open
  <2> QED
    BY <2>1, <2>2 DEF Inv, NothingForgotten, Patient, Whole
<1> QED
  BY <1>1, <1>3, <1>4, <1>5, <1>6, <1>7 DEF Inv

(* A READ finds its connection and something in its socket; what a parse   *)
(* takes is in the socket or in read_buffer, and one request of a client   *)
(* whose requests are taken whole.                                         *)
LEMMA RequestEffect ==
  ASSUME Inv, HandleRequest
  PROVE  LET fd == Head(events).file_descriptor
             c == socket_of[fd]
         IN  /\ pc = "dispatch" /\ pc' = "answering" /\ events # <<>>
             /\ Head(events) = events[1] /\ 1 \in DOMAIN events
             /\ Head(events).type = "READ"
             /\ UNCHANGED <<running, iterations, events, socket_of, interest, ready,
                            tracked_file_descriptors_count, call_failed,
                            backlog, phase, outstanding>>
             /\ silence' = [silence EXCEPT ![c] = 0]
             /\ fd \in Open /\ fd # Listener
             /\ current_connections' \in [ClientFd -> Connection \cup {NULL}]
             /\ current_connections'[fd] # NULL /\ current_connections'[fd].idle = 0
             /\ \A other \in ClientFd :
                  other # fd => current_connections'[other] = current_connections[other]
             /\ inbox' \in [Client -> Nat]
             /\ inbox'[c] \in {0, inbox[c]}
             /\ \A other \in Client : other # c => inbox'[other] = inbox[other]
             /\ Whole(c) => outstanding[c] = inbox'[c] + current_connections'[fd].buffered + 1
<1> DEFINE fd == Head(events).file_descriptor
           c == socket_of[fd]
           buffered == current_connections[fd].buffered
<1>1. /\ pc = "dispatch" /\ pc' = "answering" /\ events # <<>>
      /\ Head(events).type = "READ" /\ fd # Listener
      /\ UNCHANGED <<running, iterations, events, socket_of, interest, ready,
                     tracked_file_descriptors_count, call_failed, backlog, phase, outstanding>>
      /\ silence' = [silence EXCEPT ![c] = 0]
  BY DEF HandleRequest, Handling, notifierVars, callVars
<1>2. /\ TypeOK
      /\ current_connections \in [ClientFd -> Connection \cup {NULL}]
      /\ inbox \in [Client -> Nat] /\ outstanding \in [Client -> Nat]
      /\ events \in Seq(N!Event)
  BY DEF Inv, TypeOK, N!TypeOK
<1>3. 1 \in DOMAIN events /\ Head(events) = events[1] /\ fd \in ClientFd
  <2>1. 1 \in DOMAIN events /\ Head(events) = events[1]
    BY <1>1, <1>2, TailProperties
  <2> QED
    BY <1>1, <1>2, <2>1, EventsInBatch, Descriptors
<1>4. current_connections[fd] # NULL /\ inbox[c] > 0
  BY <1>1, <1>3 DEF Inv, PendingEventsAreLive, Serves
<1>5. fd \in Open /\ c \in Client /\ buffered \in Nat /\ current_connections[fd] \in Connection
  BY <1>3, <1>4, ConnectedClients DEF Inv, Connection
<1>6. Whole(c) => outstanding[c] = inbox[c] + buffered
  <2>1. Alive /\ ~Serves(fd)
    BY <1>1 DEF Alive, Ended, Serves
  <2>2. buffered + 0 = buffered /\ inbox[c] + buffered + 0 = inbox[c] + buffered
    BY <1>2, <1>5
  <2> QED
    BY <1>4, <1>5, <2>1, <2>2 DEF Inv, RequestsAccountedFor
<1>7. PICK reads \in BOOLEAN :
        LET available == buffered + (IF reads THEN inbox[c] ELSE 0)
        IN  /\ buffered = 0 => reads
            /\ (buffered > 0 /\ Whole(c)) => ~reads
            /\ \E taken \in 0 .. available :
                 /\ taken = 0 <=> available = 0
                 /\ Whole(c) => taken <= 1
                 /\ current_connections' = [current_connections EXCEPT ![fd] =
                      [Seen(@) EXCEPT !.buffered = Unbuffered(available, taken)]]
            /\ inbox' = IF reads THEN [inbox EXCEPT ![c] = 0] ELSE inbox
  BY DEF HandleRequest
<1> HIDE DEF buffered
<1>8. PICK available : available = buffered + (IF reads THEN inbox[c] ELSE 0)
  OBVIOUS
<1>9. PICK taken \in 0 .. available :
        /\ taken = 0 <=> available = 0
        /\ Whole(c) => taken <= 1
        /\ current_connections' = [current_connections EXCEPT ![fd] =
             [Seen(@) EXCEPT !.buffered = Unbuffered(available, taken)]]
  BY <1>7, <1>8
<1>10. /\ buffered = 0 => reads
       /\ (buffered > 0 /\ Whole(c)) => ~reads
       /\ inbox' = IF reads THEN [inbox EXCEPT ![c] = 0] ELSE inbox
  BY <1>7
<1>11. available \in Nat /\ available > 0 /\ available - taken \in Nat
  <2>1. inbox[c] \in Nat
    BY <1>2, <1>5
  <2>2. CASE reads
    BY <1>4, <1>5, <1>8, <1>9, <2>1, <2>2
  <2>3. CASE ~reads
    BY <1>5, <1>8, <1>9, <1>10, <2>3
  <2> QED
    BY <2>2, <2>3
<1>12. PICK after : after = [current_connections[fd] EXCEPT !.idle = 0, !.buffered = available - taken]
  OBVIOUS
<1>13. after \in Connection /\ after # NULL /\ after.idle = 0 /\ after.buffered = available - taken
  <2>1. after \in Connection /\ after.idle = 0 /\ after.buffered = available - taken
    <3>1. /\ current_connections[fd] \in [idle: 0 .. IdleLimit, buffered: Nat]
          /\ 0 \in 0 .. IdleLimit
      BY <1>5, ServerAssumption DEF Connection
    <3> HIDE DEF fd
    <3> QED
      BY <1>11, <1>12, <3>1 DEF Connection
  <2> QED
    BY <2>1, ServerAssumption
<1>14. current_connections' = [current_connections EXCEPT ![fd] = after]
  <2>1. [Seen(current_connections[fd]) EXCEPT !.buffered = Unbuffered(available, taken)] = after
    BY <1>5, <1>12 DEF Seen, Unbuffered, Connection
  <2> QED
    BY <1>2, <1>3, <1>9, <2>1
<1>15. /\ current_connections' \in [ClientFd -> Connection \cup {NULL}]
       /\ current_connections'[fd] = after
       /\ \A other \in ClientFd :
            other # fd => current_connections'[other] = current_connections[other]
  BY <1>2, <1>3, <1>13, <1>14
<1>16. /\ inbox' \in [Client -> Nat]
       /\ inbox'[c] = IF reads THEN 0 ELSE inbox[c]
       /\ \A other \in Client : other # c => inbox'[other] = inbox[other]
  BY <1>2, <1>5, <1>10
<1>17. Whole(c) => outstanding[c] = inbox'[c] + (available - taken) + 1
  <2> SUFFICES ASSUME Whole(c)
               PROVE  outstanding[c] = inbox'[c] + (available - taken) + 1
    OBVIOUS
  <2>1. taken = 1
    BY <1>9, <1>11
  <2>2. inbox[c] \in Nat /\ outstanding[c] = inbox[c] + buffered
    BY <1>2, <1>5, <1>6
  <2>3. CASE reads
    <3>1. buffered = 0 /\ available = inbox[c] /\ inbox'[c] = 0
      BY <1>5, <1>8, <1>10, <1>16, <2>2, <2>3
    <3> QED
      BY <2>1, <2>2, <3>1
  <2>4. CASE ~reads
    <3>1. available = buffered /\ inbox'[c] = inbox[c]
      BY <1>5, <1>8, <1>16, <2>4
    <3> QED
      BY <1>5, <2>1, <2>2, <3>1
  <2> QED
    BY <2>3, <2>4
<1> QED
  BY <1>1, <1>3, <1>5, <1>13, <1>15, <1>16, <1>17

LEMMA HandleRequestKeepsInv ==
  ASSUME Inv, HandleRequest
  PROVE  Inv' /\ UNCHANGED call_failed
<1> DEFINE fd == Head(events).file_descriptor
           c == socket_of[fd]
<1>1. /\ pc = "dispatch" /\ pc' = "answering" /\ events # <<>>
      /\ Head(events) = events[1] /\ 1 \in DOMAIN events
      /\ Head(events).type = "READ"
      /\ UNCHANGED <<running, iterations, events, socket_of, interest, ready,
                     tracked_file_descriptors_count, call_failed, backlog, phase, outstanding>>
      /\ silence' = [silence EXCEPT ![c] = 0]
      /\ fd \in Open /\ fd # Listener
      /\ current_connections' \in [ClientFd -> Connection \cup {NULL}]
      /\ current_connections'[fd] # NULL
      /\ \A other \in ClientFd :
           other # fd => current_connections'[other] = current_connections[other]
      /\ inbox' \in [Client -> Nat]
      /\ inbox'[c] \in {0, inbox[c]}
      /\ \A other \in Client : other # c => inbox'[other] = inbox[other]
      /\ Whole(c) => outstanding[c] = inbox'[c] + current_connections'[fd].buffered + 1
  BY RequestEffect
<1>2. TypeOK /\ c \in Client /\ current_connections[fd] # NULL /\ inbox[c] \in Nat
  BY <1>1, ConnectedClients, ServerAssumption DEF Inv, TypeOK
<1>3. \A other \in Open : other # fd =>
        /\ socket_of[other] \in Client /\ socket_of[other] # c /\ other \in ClientFd
        /\ inbox'[socket_of[other]] = inbox[socket_of[other]]
  <2>1. \A other \in Open : socket_of[other] = c => other = fd
    BY <1>1 DEF Inv, ConnectionsMirrorDescriptors
  <2> QED
    BY <1>1, <2>1, ConnectedClients DEF Inv
<1>4. \A it : Serves(it)' <=> it = fd
  BY <1>1 DEF Serves
<1>5. \A it : ~Serves(it)
  BY <1>1 DEF Serves
<1> HIDE DEF fd, c
<1>6. Open' = Open
  BY <1>1 DEF Open
<1>7. TypeOK'
  <2>1. silence' \in [Client -> 0 .. IdleLimit]
    BY <1>1, <1>2, ServerAssumption DEF TypeOK
  <2>2. pc' \in Loop
    BY <1>1 DEF Loop
  <2> QED
    BY <1>1, <1>2, <2>1, <2>2, ConditionType DEF TypeOK, N!TypeOK, N!Registered
<1>8. Lifecycle' /\ Watched' /\ DiesOnlyAtDescriptorLimit'
  BY <1>1, <1>6, WatchedKept DEF Inv, Lifecycle, Loop, DiesOnlyAtDescriptorLimit, fd
<1>9. ~Queued(c) /\ Accepted(c)
  BY <1>1 DEF Inv, ConnectionsMirrorDescriptors, Accepted, Open, c
<1>10. ClientsInOrder'
  <2>1. phase[c] # "new"
    BY <1>2, <1>9 DEF Inv, ClientsInOrder
  <2> QED
    BY <1>1, <2>1 DEF Inv, ClientsInOrder, Accepted, Queued
<1>11. ConnectionsMirrorDescriptors'
  <2>1. \A other \in ClientFd : current_connections'[other] # NULL <=> current_connections[other] # NULL
    BY <1>1, <1>2
  <2> QED
    BY <1>1, <1>6, <2>1 DEF Inv, ConnectionsMirrorDescriptors, N!Registered, Queued
<1>12. RequestsAccountedFor'
  <2>1. \A other \in Client : Queued(other)' /\ Whole(other) => outstanding'[other] = inbox'[other]
    BY <1>1, <1>9 DEF Inv, RequestsAccountedFor, Queued
  <2>2. ASSUME NEW other \in Open', Whole(socket_of'[other]), current_connections'[other] # NULL
        PROVE  outstanding'[socket_of'[other]] = inbox'[socket_of'[other]] + current_connections'[other].buffered
                                                   + (IF Serves(other)' THEN 1 ELSE 0)
    <3>1. other \in Open /\ socket_of'[other] = socket_of[other] /\ outstanding' = outstanding
      BY <1>1, <1>6
    <3>2. CASE other = fd
      <4>1. Serves(other)' /\ socket_of[other] = c /\ Whole(c)
        BY <1>4, <2>2, <3>1, <3>2 DEF c
      <4> QED
        BY <1>1, <3>1, <3>2, <4>1
    <3>3. CASE other # fd
      <4>1. /\ current_connections'[other] = current_connections[other]
            /\ inbox'[socket_of[other]] = inbox[socket_of[other]]
        BY <1>1, <1>3, <3>1, <3>3
      <4>2. ~Serves(other)' /\ ~Serves(other) /\ Alive
        BY <1>1, <1>4, <1>5, <3>3 DEF Alive, Ended
      <4>3. Whole(socket_of[other]) /\ current_connections[other] # NULL
        BY <2>2, <3>1, <4>1
      <4>4. outstanding[socket_of[other]] = inbox[socket_of[other]] + current_connections[other].buffered
                                              + (IF Serves(other) THEN 1 ELSE 0)
        BY <3>1, <4>2, <4>3 DEF Inv, RequestsAccountedFor
      <4> QED
        BY <3>1, <4>1, <4>2, <4>4
    <3> QED
      BY <3>2, <3>3
  <2> QED
    BY <2>1, <2>2 DEF RequestsAccountedFor, Whole
<1>13. PendingEventsAreLive'
  <2>1. \A i, j \in DOMAIN events :
          events[i].file_descriptor = events[j].file_descriptor => i = j
    BY <1>1 DEF Inv, PendingEventsAreLive
  <2>2. ASSUME NEW i \in DOMAIN events
        PROVE  IF events[i].file_descriptor = Listener THEN backlog # <<>>
               ELSE LET it == events[i].file_descriptor
                    IN  /\ current_connections'[it] # NULL
                        /\ (events[i].type = "READ" /\ ~Serves(it)') => inbox'[socket_of[it]] > 0
                        /\ events[i].type = "CLOSE_CONNECTION" => phase[socket_of[it]] = "shut"
    <3>1. IF events[i].file_descriptor = Listener THEN backlog # <<>>
          ELSE LET it == events[i].file_descriptor
               IN  /\ current_connections[it] # NULL
                   /\ events[i].type = "READ" => inbox[socket_of[it]] > 0
                   /\ events[i].type = "CLOSE_CONNECTION" => phase[socket_of[it]] = "shut"
      BY <1>1, <1>5 DEF Inv, PendingEventsAreLive
    <3>2. events[i].file_descriptor \in FileDescriptor
      BY <1>2, EventsInBatch
    <3>3. CASE events[i].file_descriptor = fd
      BY <1>1, <1>4, <3>1, <3>3
    <3>4. CASE events[i].file_descriptor # fd
      <4>1. events[i].file_descriptor # Listener => events[i].file_descriptor \in Open
        BY <3>1, <3>2, Descriptors, ConnectedClients DEF Inv
      <4> QED
        BY <1>1, <1>3, <3>1, <3>4, <4>1
    <3> QED
      BY <3>3, <3>4
  <2> QED
    BY <1>1, <2>1, <2>2 DEF PendingEventsAreLive
<1>14. NothingForgotten'
  <2>1. \A it \in Open' : /\ it \in Open /\ socket_of'[it] = socket_of[it]
                          /\ inbox'[socket_of[it]] > 0 => inbox[socket_of[it]] > 0
    BY <1>1, <1>2, <1>3, <1>6 DEF c
  <2> QED
    BY <1>1, <2>1, NothingForgottenByGrowth DEF Inv
<1> QED
  BY <1>1, <1>7, <1>8, <1>10, <1>11, <1>12, <1>13, <1>14 DEF Inv

(* The answer is out: its event leaves the batch.  A patient client had    *)
(* nothing else on the way, so nothing of it is forgotten.                 *)
LEMMA SendReturnsKeepsInv ==
  ASSUME Inv, SendReturns
  PROVE  Inv' /\ UNCHANGED call_failed
<1> DEFINE fd == Head(events).file_descriptor
           c == socket_of[fd]
<1>1. /\ pc = "answering" /\ pc' = "dispatch" /\ events' = Tail(events)
      /\ UNCHANGED <<running, iterations, current_connections, socket_of, interest, ready,
                     tracked_file_descriptors_count, call_failed, backlog, inbox, phase, silence>>
      /\ outstanding' = [outstanding EXCEPT ![c] = Answered(@)]
  BY DEF SendReturns, connectionVars, notifierVars, callVars
<1>2. events # <<>> /\ fd # Listener /\ Head(events).type = "READ"
  BY <1>1 DEF Inv, Lifecycle
<1>3. /\ TypeOK /\ inbox \in [Client -> Nat] /\ outstanding \in [Client -> Nat]
      /\ MaxOutstanding \in [Client -> Nat]
  BY ServerAssumption DEF Inv, TypeOK
<1>4. /\ 1 \in DOMAIN events /\ Head(events) = events[1] /\ fd \in ClientFd
      /\ events' \in Seq(N!Event)
  BY <1>1, <1>2, BatchRest, Descriptors
<1>5. current_connections[fd] # NULL
  BY <1>1, <1>2, <1>4 DEF Inv, PendingEventsAreLive
<1>6. fd \in Open /\ c \in Client /\ current_connections[fd].buffered \in Nat
  BY <1>4, <1>5, ConnectedClients DEF Inv, Connection
<1>7. Whole(c) => outstanding[c] = inbox[c] + current_connections[fd].buffered + 1
  <2>1. Alive /\ Serves(fd)
    BY <1>1 DEF Alive, Ended, Serves
  <2> QED
    BY <1>5, <1>6, <2>1 DEF Inv, RequestsAccountedFor
<1>8. \A other \in Open : other # fd => socket_of[other] # c
  BY <1>6 DEF Inv, ConnectionsMirrorDescriptors
<1>9. \A it : Serves(it) <=> it = fd
  BY <1>1 DEF Serves
<1>10. \A it : ~Serves(it)'
  BY <1>1 DEF Serves
<1> HIDE DEF fd, c
<1>11. /\ outstanding' \in [Client -> Nat]
       /\ \A other \in Client : other # c => outstanding'[other] = outstanding[other]
       /\ outstanding'[c] = Answered(outstanding[c])
       /\ outstanding'[c] <= outstanding[c]
       /\ outstanding[c] > 0 => outstanding'[c] = outstanding[c] - 1
  <2>1. /\ Answered(outstanding[c]) \in Nat /\ Answered(outstanding[c]) <= outstanding[c]
        /\ outstanding[c] > 0 => Answered(outstanding[c]) = outstanding[c] - 1
    BY <1>3, <1>6 DEF Answered
  <2> QED
    BY <1>1, <1>3, <1>6, <2>1
<1>12. Open' = Open
  BY <1>1 DEF Open
<1>13. TypeOK'
  BY <1>1, <1>3, <1>4, <1>11, ConditionType DEF TypeOK, N!TypeOK, N!Registered, Loop
<1>14. Lifecycle' /\ Watched' /\ DiesOnlyAtDescriptorLimit' /\ ConnectionsMirrorDescriptors'
  BY <1>1, <1>12, WatchedKept, ConnectionsKept DEF Inv, Lifecycle, Loop, DiesOnlyAtDescriptorLimit
<1>15. ClientsInOrder'
  <2>1. \A other \in Client : /\ outstanding[other] = 0 => outstanding'[other] = 0
                              /\ outstanding'[other] <= MaxOutstanding[other]
    <3>1. \A other \in Client : /\ outstanding'[other] <= outstanding[other]
                                /\ outstanding[other] <= MaxOutstanding[other]
                                /\ outstanding[other] \in Nat /\ outstanding'[other] \in Nat
                                /\ MaxOutstanding[other] \in Nat
      BY <1>3, <1>11 DEF Inv, ClientsInOrder
    <3> QED
      BY <3>1
  <2> QED
    BY <1>1, <2>1 DEF Inv, ClientsInOrder, Accepted, Queued
<1>16. ~Queued(c)
  BY <1>6 DEF Inv, ConnectionsMirrorDescriptors, c
<1>17. RequestsAccountedFor'
  <2>1. \A other \in Client : Queued(other)' /\ Whole(other) => outstanding'[other] = inbox'[other]
    BY <1>1, <1>11, <1>16 DEF Inv, RequestsAccountedFor, Queued
  <2>2. ASSUME NEW other \in Open', Whole(socket_of'[other]), current_connections'[other] # NULL
        PROVE  outstanding'[socket_of'[other]] = inbox'[socket_of'[other]] + current_connections'[other].buffered
                                                   + (IF Serves(other)' THEN 1 ELSE 0)
    <3>1. /\ other \in Open /\ socket_of'[other] = socket_of[other] /\ inbox' = inbox
          /\ current_connections' = current_connections /\ ~Serves(other)'
          /\ Whole(socket_of[other]) /\ current_connections[other] # NULL
      BY <1>1, <1>10, <1>12, <2>2
    <3>2. CASE other = fd
      <4>1. socket_of[other] = c /\ inbox[c] \in Nat /\ outstanding[c] \in Nat
        BY <1>3, <1>6, <3>2 DEF c
      <4>2. outstanding[c] = inbox[c] + current_connections[fd].buffered + 1
        BY <1>7, <3>1, <4>1
      <4>3. outstanding'[c] = inbox[c] + current_connections[fd].buffered + 0
        BY <1>6, <1>11, <4>1, <4>2
      <4> QED
        BY <3>1, <3>2, <4>1, <4>3
    <3>3. CASE other # fd
      <4>1. socket_of[other] # c /\ socket_of[other] \in Client /\ ~Serves(other) /\ Alive
        BY <1>1, <1>8, <1>9, <3>1, <3>3, <1>3, ConnectedClients DEF Inv, Alive, Ended
      <4>2. outstanding[socket_of[other]] = inbox[socket_of[other]] + current_connections[other].buffered
                                              + (IF Serves(other) THEN 1 ELSE 0)
        BY <3>1, <4>1 DEF Inv, RequestsAccountedFor
      <4> QED
        BY <1>11, <3>1, <4>1, <4>2
    <3> QED
      BY <3>2, <3>3
  <2> QED
    BY <2>1, <2>2 DEF RequestsAccountedFor, Whole
<1>18. PendingEventsAreLive'
  BY <1>1, <1>2, PendingRest DEF fd
<1>19. NothingForgotten'
  <2> SUFFICES ASSUME running', NEW it \in Open'
               PROVE  /\ phase'[socket_of'[it]] = "shut" => Announced(it, {"CLOSE_CONNECTION"})'
                      /\ inbox'[socket_of'[it]] > 0 /\ Patient(socket_of'[it])
                           => Announced(it, {"READ", "CLOSE_CONNECTION"})'
    BY DEF NothingForgotten, Patient, Whole
  <2>1. /\ Announced(it, {"CLOSE_CONNECTION"}) => Announced(it, {"CLOSE_CONNECTION"})'
        /\ it # fd /\ Announced(it, {"READ", "CLOSE_CONNECTION"})
             => Announced(it, {"READ", "CLOSE_CONNECTION"})'
    BY <1>1, <1>2, AnnouncedRest DEF fd
  <2>2. it \in Open /\ running /\ socket_of' = socket_of /\ phase' = phase /\ inbox' = inbox
    BY <1>1, <1>12
  <2>3. CASE it = fd
    <3>1. ~(inbox[c] > 0 /\ Patient(c))
      <4>1. /\ outstanding[c] <= MaxOutstanding[c]
            /\ inbox[c] \in Nat /\ MaxOutstanding[c] \in Nat
        BY <1>3, <1>6 DEF Inv, ClientsInOrder
      <4> QED
        BY <1>6, <1>7, <4>1 DEF Patient
    <3> QED
      BY <2>1, <2>2, <2>3, <3>1 DEF Inv, NothingForgotten, c
  <2>4. CASE it # fd
    BY <2>1, <2>2, <2>4 DEF Inv, NothingForgotten
  <2> QED
    BY <2>3, <2>4
<1> QED
  BY <1>1, <1>13, <1>14, <1>15, <1>17, <1>18, <1>19 DEF Inv

(* A connection is accepted: a client that waited gets a descriptor that   *)
(* was free, and leaves the backlog.                                       *)
LEMMA AcceptEffect ==
  ASSUME Inv, HandleNewConnection
  PROVE  LET fd == LowestFree
             c == Head(backlog)
         IN  /\ pc = "dispatch" /\ events # <<>> /\ events' = Tail(events)
             /\ Head(events).file_descriptor = Listener
             /\ UNCHANGED <<pc, running, iterations, inbox, phase, outstanding,
                            tracked_file_descriptors_count, call_failed>>
             /\ silence' = [silence EXCEPT ![c] = 0]
             /\ fd \in ClientFd /\ fd \notin Open /\ c \in Client
             /\ Queued(c) /\ ~Accepted(c)
             /\ backlog' \in Seq(Client) /\ Distinct(backlog')
             /\ \A other : Queued(other)' <=> Queued(other) /\ other # c
             /\ socket_of' = [socket_of EXCEPT ![fd] = c]
             /\ current_connections' =
                  [current_connections EXCEPT ![fd] = [idle |-> 0, buffered |-> 0]]
             /\ interest' = [interest EXCEPT ![fd] = N!EventType]
             /\ interest' \in [FileDescriptor -> SUBSET N!EventType]
             /\ ready' \in Seq(N!Registered') /\ Distinct(ready')
             /\ Members(ready) \subseteq Members(ready')
             /\ fd \in Members(ready')
<1> DEFINE fd == LowestFree
           c == Head(backlog)
           now == {"WRITE"} \cup (IF inbox[c] > 0 THEN {"READ"} ELSE {})
                            \cup (IF phase[c] = "shut" THEN {"READ", "CLOSE_CONNECTION"} ELSE {})
<1>1. /\ pc = "dispatch" /\ events # <<>> /\ events' = Tail(events)
      /\ Head(events).file_descriptor = Listener
      /\ backlog # <<>> /\ ClientFd \ Open # {}
      /\ UNCHANGED <<pc, running, iterations, inbox, phase, outstanding>>
      /\ silence' = [silence EXCEPT ![c] = 0]
      /\ backlog' = Tail(backlog)
      /\ socket_of' = [socket_of EXCEPT ![fd] = c]
      /\ N!add_event(fd, N!EventType, now)
      /\ current_connections' = [current_connections EXCEPT ![fd] =
                                   IF @ = NULL THEN [idle |-> 0, buffered |-> 0] ELSE @]
  BY DEF HandleNewConnection, Handling
<1>2. fd \in ClientFd /\ fd \notin Open
  <2>1. ClientFd \ Open \in SUBSET Nat
    BY ServerAssumption DEF ClientFd
  <2>2. \E free \in ClientFd \ Open : \A other \in ClientFd \ Open : free <= other
    BY <1>1, <2>1, Smallest
  <2> QED
    BY <2>2 DEF LowestFree
<1>3. /\ TypeOK /\ backlog \in Seq(Client) /\ Distinct(backlog)
      /\ current_connections \in [ClientFd -> Connection \cup {NULL}]
  BY DEF Inv, TypeOK, ClientsInOrder
<1>4. /\ socket_of[fd] = NULL /\ interest[fd] = {} /\ current_connections[fd] = NULL
      /\ fd \in FileDescriptor
  BY <1>2, Descriptors DEF Inv, Open, Watched, ConnectionsMirrorDescriptors
<1> HIDE DEF fd, now
<1>5. /\ Tail(backlog) \in Seq(Client) /\ c = backlog[1] /\ 1 \in DOMAIN backlog
      /\ \A i \in DOMAIN Tail(backlog) :
           i \in Nat /\ i + 1 \in DOMAIN backlog /\ i + 1 # 1 /\ Tail(backlog)[i] = backlog[i + 1]
      /\ \A i \in DOMAIN backlog :
           i = 1 \/ (i - 1 \in DOMAIN Tail(backlog) /\ Tail(backlog)[i - 1] = backlog[i])
  BY <1>1, <1>3, TailProperties
<1> HIDE DEF c
<1>6. c \in Client /\ Queued(c)
  <2>1. DOMAIN backlog = 1 .. Len(backlog)
    BY <1>3, LenProperties
  <2> QED
    BY <1>3, <1>5, <2>1, ElementOfSeq DEF Queued
<1>7. ~Accepted(c)
  <2>1. c # NULL
    BY <1>6, ServerAssumption
  <2> QED
    BY <1>6, <2>1 DEF Inv, ConnectionsMirrorDescriptors, Accepted, Open
<1>8. backlog' \in Seq(Client) /\ Distinct(backlog')
  <2>1. \A i, j \in DOMAIN backlog' : i + 1 = j + 1 => i = j
    BY <1>1, <1>5
  <2> QED
    BY <1>1, <1>3, <1>5, <2>1 DEF Distinct
<1>9. \A other : Queued(other)' <=> Queued(other) /\ other # c
  <2>1. \A i \in DOMAIN backlog' : \E j \in DOMAIN backlog : backlog'[i] = backlog[j] /\ backlog[j] # c
    BY <1>1, <1>3, <1>5 DEF Distinct
  <2>2. \A j \in DOMAIN backlog : backlog[j] = c \/ \E i \in DOMAIN backlog' : backlog'[i] = backlog[j]
    BY <1>1, <1>5
  <2> QED
    BY <2>1, <2>2 DEF Queued
<1>10. current_connections' = [current_connections EXCEPT ![fd] = [idle |-> 0, buffered |-> 0]]
  BY <1>1, <1>4
<1>11. /\ interest' = [interest EXCEPT ![fd] = N!EventType]
       /\ interest' \in [FileDescriptor -> SUBSET N!EventType]
       /\ ready' \in Seq(N!Registered') /\ Distinct(ready')
       /\ Members(ready) \subseteq Members(ready')
       /\ fd \in Members(ready')
       /\ UNCHANGED <<tracked_file_descriptors_count, call_failed>>
  <2>1. N!EventType \cap now # {} /\ N!EventType # {} /\ N!EventType \in SUBSET N!EventType
    BY DEF N!EventType, now
  <2> QED
    BY <1>1, <1>3, <1>4, <2>1, AddEffect DEF Inv
<1> QED
  BY <1>1, <1>2, <1>6, <1>7, <1>8, <1>9, <1>10, <1>11 DEF fd, c

LEMMA HandleNewConnectionKeepsInv ==
  ASSUME Inv, HandleNewConnection
  PROVE  Inv' /\ UNCHANGED call_failed
<1> DEFINE fd == LowestFree
           c == Head(backlog)
           fresh == [idle |-> 0, buffered |-> 0]
<1>1. /\ pc = "dispatch" /\ events # <<>> /\ events' = Tail(events)
      /\ Head(events).file_descriptor = Listener
      /\ UNCHANGED <<pc, running, iterations, inbox, phase, outstanding,
                     tracked_file_descriptors_count, call_failed>>
      /\ silence' = [silence EXCEPT ![c] = 0]
      /\ fd \in ClientFd /\ fd \notin Open /\ c \in Client
      /\ Queued(c) /\ ~Accepted(c)
      /\ backlog' \in Seq(Client) /\ Distinct(backlog')
      /\ \A other : Queued(other)' <=> Queued(other) /\ other # c
      /\ socket_of' = [socket_of EXCEPT ![fd] = c]
      /\ current_connections' = [current_connections EXCEPT ![fd] = fresh]
      /\ interest' = [interest EXCEPT ![fd] = N!EventType]
      /\ interest' \in [FileDescriptor -> SUBSET N!EventType]
      /\ ready' \in Seq(N!Registered') /\ Distinct(ready')
      /\ Members(ready) \subseteq Members(ready')
      /\ fd \in Members(ready')
  BY AcceptEffect
<1>2. /\ TypeOK
      /\ current_connections \in [ClientFd -> Connection \cup {NULL}]
      /\ socket_of \in [ClientFd -> Client \cup {NULL}]
      /\ interest \in [FileDescriptor -> SUBSET N!EventType]
      /\ inbox \in [Client -> Nat]
  BY DEF Inv, TypeOK, N!TypeOK
<1> HIDE DEF fd, c
<1>3. fresh \in Connection /\ fresh # NULL /\ fresh.buffered = 0 /\ c # NULL
  BY <1>1, ServerAssumption DEF Connection
<1> HIDE DEF fresh
<1>4. /\ socket_of'[fd] = c /\ current_connections'[fd] = fresh /\ interest'[fd] = N!EventType
      /\ \A other \in ClientFd : other # fd => /\ socket_of'[other] = socket_of[other]
                                               /\ current_connections'[other] = current_connections[other]
                                               /\ interest'[other] = interest[other]
      /\ interest'[Listener] = interest[Listener]
  BY <1>1, <1>2, Descriptors
<1>5. Open' = Open \cup {fd}
  BY <1>1, <1>3, <1>4 DEF Open
<1>6. \A other \in Open : socket_of[other] # c
  BY <1>1 DEF Accepted, Open
<1>7. TypeOK'
  <2>1. /\ socket_of' \in [ClientFd -> Client \cup {NULL}]
        /\ current_connections' \in [ClientFd -> Connection \cup {NULL}]
    BY <1>1, <1>2, <1>3
  <2>2. events' \in Seq(N!Event)
    BY <1>1, BatchRest
  <2>3. silence' \in [Client -> 0 .. IdleLimit]
    BY <1>1, <1>2, ServerAssumption DEF TypeOK
  <2> QED
    BY <1>1, <1>2, <2>1, <2>2, <2>3, ConditionType DEF TypeOK, N!TypeOK
<1>8. Lifecycle' /\ DiesOnlyAtDescriptorLimit'
  BY <1>1, <1>4 DEF Inv, Lifecycle, Loop, DiesOnlyAtDescriptorLimit
<1>9. Watched'
  BY <1>3, <1>4 DEF Inv, Watched
<1>10. ClientsInOrder'
  <2>1. \A other \in Client : Accepted(other)' => Accepted(other) \/ other = c
    BY <1>4 DEF Accepted
  <2>2. phase[c] # "new"
    BY <1>1 DEF Inv, ClientsInOrder
  <2> QED
    BY <1>1, <2>1, <2>2 DEF Inv, ClientsInOrder
<1>11. ConnectionsMirrorDescriptors'
  <2>1. \A other \in ClientFd : current_connections'[other] # NULL <=> socket_of'[other] # NULL
    BY <1>3, <1>4 DEF Inv, ConnectionsMirrorDescriptors
  <2>2. N!Registered' \ {Listener} = Open'
    <3>1. Watched'
      BY <1>9
    <3>2. \A other \in ClientFd : interest'[other] # {} <=> socket_of'[other] # NULL
      BY <3>1 DEF Watched, N!EventType
    <3> QED
      BY <3>2, Descriptors DEF N!Registered, Open
  <2>3. \A it, other \in Open' : socket_of'[it] = socket_of'[other] => it = other
    <3>1. \A other \in Open : socket_of'[other] = socket_of[other]
      BY <1>1, <1>4 DEF Open
    <3> QED
      BY <1>4, <1>5, <1>6, <3>1 DEF Inv, ConnectionsMirrorDescriptors
  <2>4. \A other \in Open' : ~Queued(socket_of'[other])
          \/ socket_of'[other] = c
    BY <1>1, <1>4, <1>5 DEF Inv, ConnectionsMirrorDescriptors, Open
  <2> QED
    BY <1>1, <2>1, <2>2, <2>3, <2>4 DEF ConnectionsMirrorDescriptors
<1>12. RequestsAccountedFor'
  <2>1. \A other \in Client : Queued(other)' /\ Whole(other) => outstanding'[other] = inbox'[other]
    BY <1>1 DEF Inv, RequestsAccountedFor
  <2>2. ASSUME NEW other \in Open', Whole(socket_of'[other]), current_connections'[other] # NULL
        PROVE  outstanding'[socket_of'[other]] = inbox'[socket_of'[other]] + current_connections'[other].buffered
                                                   + (IF Serves(other)' THEN 1 ELSE 0)
    <3>1. ~Serves(other)' /\ ~Serves(other) /\ Alive
      BY <1>1 DEF Serves, Alive, Ended
    <3>2. CASE other = fd
      <4>1. Whole(c)
        BY <1>4, <2>2, <3>2
      <4>2. outstanding[c] = inbox[c] /\ inbox[c] \in Nat
        BY <1>1, <1>2, <4>1 DEF Inv, RequestsAccountedFor
      <4> QED
        BY <1>1, <1>3, <1>4, <3>1, <3>2, <4>2
    <3>3. CASE other # fd
      <4>1. /\ other \in Open /\ socket_of'[other] = socket_of[other]
            /\ current_connections'[other] = current_connections[other]
        BY <1>1, <1>4, <1>5, <3>3 DEF Open
      <4>2. Whole(socket_of[other]) /\ current_connections[other] # NULL
        BY <2>2, <4>1
      <4>3. outstanding[socket_of[other]] = inbox[socket_of[other]] + current_connections[other].buffered
                                              + (IF Serves(other) THEN 1 ELSE 0)
        BY <3>1, <4>1, <4>2 DEF Inv, RequestsAccountedFor
      <4> QED
        BY <1>1, <3>1, <4>1, <4>3
    <3> QED
      BY <3>2, <3>3
  <2> QED
    BY <2>1, <2>2 DEF RequestsAccountedFor, Whole
<1>13. PendingEventsAreLive'
  <2>1. \A other \in Open : other \in ClientFd /\ other # fd
    BY <1>1 DEF Open
  <2> QED
    BY <1>1, <1>4, <2>1, PendingRest
<1>14. NothingForgotten'
  <2> SUFFICES ASSUME running', NEW it \in Open'
               PROVE  /\ phase'[socket_of'[it]] = "shut" => Announced(it, {"CLOSE_CONNECTION"})'
                      /\ inbox'[socket_of'[it]] > 0 /\ Patient(socket_of'[it])
                           => Announced(it, {"READ", "CLOSE_CONNECTION"})'
    BY DEF NothingForgotten, Patient, Whole
  <2>1. CASE it = fd
    BY <1>1, <2>1, NotifierLists DEF Announced, Members, N!Members
  <2>2. CASE it # fd
    <3>1. it \in Open /\ it # Listener /\ socket_of'[it] = socket_of[it]
      BY <1>4, <1>5, <2>2, Descriptors DEF Open
    <3>2. \A types : Announced(it, types) => Announced(it, types)'
      BY <1>1, <3>1, AnnouncedRest
    <3> QED
      BY <1>1, <3>1, <3>2 DEF Inv, NothingForgotten
  <2> QED
    BY <2>1, <2>2
<1> QED
  BY <1>1, <1>7, <1>8, <1>9, <1>10, <1>11, <1>12, <1>13, <1>14 DEF Inv

-----------------------------------------------------------------------------
(* The invariant, and what it gives. *)

LEMMA InitGivesInv == Init => Inv
<1> SUFFICES ASSUME Init
             PROVE  Inv
  OBVIOUS
<1>1. Open = {} /\ N!Registered = {} /\ DOMAIN <<>> = {}
  BY DEF Init, Open, N!Registered
<1>2. TypeOK
  <2>1. UninitializedCounts \subseteq 0 .. CountModulus - 1 /\ 0 \in 0 .. CheckEvery - 1
    BY ServerAssumption
  <2>2. N!TypeOK
    <3>1. call_failed \in BOOLEAN
      BY DEF Init
    <3> QED
      BY <2>1, <3>1, ConditionType DEF Init, N!TypeOK
  <2>3. /\ current_connections \in [ClientFd -> Connection \cup {NULL}]
        /\ socket_of \in [ClientFd -> Client \cup {NULL}]
        /\ backlog \in Seq(Client) /\ inbox \in [Client -> Nat] /\ outstanding \in [Client -> Nat]
        /\ silence \in [Client -> 0 .. IdleLimit]
    BY ServerAssumption DEF Init
  <2>4. phase \in [Client -> {"new", "connected", "shut"}]
    BY DEF Init
  <2> QED
    BY <2>1, <2>2, <2>3, <2>4 DEF Init, TypeOK
<1>3. Lifecycle
  BY <1>1, Descriptors DEF Init, Lifecycle, Loop
<1>4. Watched /\ Distinct(ready)
  BY <1>1, Descriptors DEF Init, Watched, Distinct
<1>5. \A c \in Client : ~Queued(c) /\ ~Accepted(c)
  BY <1>1, ServerAssumption DEF Init, Queued, Accepted
<1>6. ClientsInOrder
  BY <1>1, <1>5, ServerAssumption DEF Init, ClientsInOrder, Distinct
<1>7. ConnectionsMirrorDescriptors /\ RequestsAccountedFor
  BY <1>1, <1>5 DEF Init, ConnectionsMirrorDescriptors, RequestsAccountedFor
<1>8. PendingEventsAreLive /\ NothingForgotten /\ DiesOnlyAtDescriptorLimit
  BY <1>1 DEF Init, PendingEventsAreLive, NothingForgotten, DiesOnlyAtDescriptorLimit
<1> QED
  BY <1>2, <1>3, <1>4, <1>6, <1>7, <1>8 DEF Inv

LEMMA StepKeepsInv ==
  ASSUME Inv, [Next]_vars
  PROVE  Inv' /\ UNCHANGED call_failed
<1>1. CASE ClientStep
  BY <1>1, ConnectKeepsInv, SendKeepsInv, TakeInKeepsInv, CloseClientKeepsInv DEF ClientStep
<1>2. CASE Tick
  BY <1>2, TickKeepsInv
<1>3. CASE Signal \/ Listen \/ EnterLoop \/ AcceptFails \/ BreakBatch \/ EndIteration \/ BrokenPipe
  BY <1>3, ControlKeepsInv
<1>4. CASE Register
  BY <1>4, RegisterKeepsInv
<1>5. CASE WaitForEvents
  BY <1>5, WaitForEventsKeepsInv
<1>6. CASE CheckAfterTimeout \/ EndIterationWithCheck
  BY <1>6, IdleCheckKeepsInv
<1>7. CASE HandleNewConnection
  BY <1>7, HandleNewConnectionKeepsInv
<1>8. CASE HandleClientDisconnected
  BY <1>8, HandleClientDisconnectedKeepsInv
<1>9. CASE HandleRequest
  BY <1>9, HandleRequestKeepsInv
<1>10. CASE IgnoreEvent
  BY <1>10, IgnoreEventKeepsInv
<1>11. CASE Unlisten
  BY <1>11, UnlistenKeepsInv
<1>12. CASE Destroy
  BY <1>12, DestroyKeepsInv
<1>13. CASE SendReturns
  BY <1>13, SendReturnsKeepsInv
<1>14. CASE UNCHANGED vars
  <2>1. UNCHANGED <<pc, running, iterations, events, current_connections, socket_of,
                    interest, ready, tracked_file_descriptors_count, call_failed,
                    backlog, inbox, phase, outstanding, silence>>
    BY <1>14 DEF vars, serverVars, connectionVars, notifierVars, callVars, clientVars
  <2>2. TypeOK' /\ Distinct(ready')
    BY <2>1, ConditionType DEF Inv, TypeOK, N!TypeOK, N!Registered
  <2>3. RequestsAccountedFor'
    BY <2>1, ServesKept, RequestsKept DEF Inv, Alive
  <2> QED
    BY <2>1, <2>2, <2>3, LifecycleKept, WatchedKept, ClientsKept, ConnectionsKept,
       PendingKept, NothingKept, DiesKept DEF Inv
<1> QED
  BY <1>1, <1>2, <1>3, <1>4, <1>5, <1>6, <1>7, <1>8, <1>9, <1>10, <1>11, <1>12, <1>13, <1>14
     DEF Next, ServerStep, HandleEvent, CallReturns

(* Inv is an invariant of the event loop, for any number of clients and    *)
(* descriptors, batches of any length, and any idle check interval.        *)
THEOREM InvHolds == Spec => []Inv
<1>1. Init => Inv
  BY InitGivesInv
<1>2. Inv /\ [Next]_vars => Inv'
  BY StepKeepsInv
<1> QED
  BY <1>1, <1>2, PTL DEF Spec

(* The loop's variables keep their types: the keys of current_connections  *)
(* and the events of a batch are descriptors of the process, the count     *)
(* stays in its width.                                                     *)
THEOREM TypeCorrect == Spec => []TypeOK
<1>1. Inv => TypeOK
  BY DEF Inv
<1> QED
  BY <1>1, InvHolds, PTL

(* The keys of current_connections are the open sockets, and they are what *)
(* epoll watches: handle_new_connection, handle_client_disconnected and    *)
(* check_idle_connections never leak a descriptor nor use a closed one.    *)
THEOREM ConnectionsMirrored == Spec => []ConnectionsMirrorDescriptors
<1>1. Inv => ConnectionsMirrorDescriptors
  BY DEF Inv
<1> QED
  BY <1>1, InvHolds, PTL

(* Every event still to be handled in a batch of start() is about the      *)
(* connection it was about when epoll_wait returned it, and what it says   *)
(* is still the case.                                                      *)
THEOREM PendingEventsLive == Spec => []PendingEventsAreLive
<1>1. Inv => PendingEventsAreLive
  BY DEF Inv
<1> QED
  BY <1>1, InvHolds, PTL

(* What a connected client whose requests are taken whole has no answer to *)
(* is in its socket, in the read_buffer of its ClientSocket or being       *)
(* answered: no request of it is lost or answered twice, whatever the      *)
(* clients that are refused or time out do.                                *)
THEOREM RequestsAccounted == Spec => []RequestsAccountedFor
<1>1. Inv => RequestsAccountedFor
  BY DEF Inv
<1> QED
  BY <1>1, InvHolds, PTL

(* A close by any client, and a request of one that waits for its answers  *)
(* and whose requests are taken whole, is on epoll's list or in the batch  *)
(* at hand until start() deals with it, although registrations are         *)
(* edge-triggered and others may leave anything in their read_buffer.      *)
THEOREM NothingIsForgotten == Spec => []NothingForgotten
<1>1. Inv => NothingForgotten
  BY DEF Inv
<1> QED
  BY <1>1, InvHolds, PTL

(* What accept_connection throws, and nothing catches, ends the server     *)
(* only when the process has no descriptor left.                           *)
THEOREM DiesAtDescriptorLimit == Spec => []DiesOnlyAtDescriptorLimit
<1>1. Inv => DiesOnlyAtDescriptorLimit
  BY DEF Inv
<1> QED
  BY <1>1, InvHolds, PTL

(* No epoll_ctl of add_event or delete_event fails, so the count that      *)
(* moves only on failures never moves.                                     *)
THEOREM NotifierCallsAllSucceed == Spec => []NotifierCallsSucceed
<1>1. Init => Inv /\ ~call_failed
  BY InitGivesInv DEF Init
<1>2. Inv /\ ~call_failed /\ [Next]_vars => Inv' /\ ~call_failed'
  BY StepKeepsInv
<1>3. Inv /\ ~call_failed => NotifierCallsSucceed
  BY DEF NotifierCallsSucceed
<1> QED
  BY <1>1, <1>2, <1>3, PTL DEF Spec

-----------------------------------------------------------------------------
(* Why a connection ends. *)

(* last_seen of a connection is when the server last took up a request of  *)
(* its client, or accepted it.                                             *)
Heard == \A fd \in Open : silence[socket_of[fd]] = current_connections[fd].idle

LEMMA HeardKept ==
  ASSUME Heard, Open' \subseteq Open,
         \A fd \in Open' : /\ socket_of'[fd] = socket_of[fd]
                           /\ current_connections'[fd].idle = current_connections[fd].idle
                           /\ silence'[socket_of[fd]] = silence[socket_of[fd]]
  PROVE  Heard'
BY DEF Heard

LEMMA StepKeepsHeard ==
  ASSUME Inv, Heard, [Next]_vars
  PROVE  Heard'
<1>1. CASE UNCHANGED <<current_connections, socket_of, silence>>
  BY <1>1 DEF Heard, Open
<1>2. CASE Tick
  <2>1. /\ current_connections' = [fd \in ClientFd |->
             IF current_connections[fd] = NULL THEN NULL
             ELSE [current_connections[fd] EXCEPT !.idle = Older(@)]]
        /\ silence' = [c \in Client |-> IF Accepted(c) THEN Older(silence[c]) ELSE silence[c]]
        /\ socket_of' = socket_of
    BY <1>2 DEF Tick
  <2>2. ASSUME NEW fd \in Open'
        PROVE  silence'[socket_of'[fd]] = current_connections'[fd].idle
    <3>1. /\ fd \in Open /\ fd \in ClientFd /\ socket_of[fd] \in Client
          /\ current_connections[fd] \in Connection /\ current_connections[fd] # NULL
      BY <2>1, ConnectedClients, ServerAssumption DEF Inv, Open
    <3>2. silence'[socket_of[fd]] = Older(silence[socket_of[fd]])
      BY <2>1, <3>1 DEF Accepted
    <3>3. current_connections'[fd].idle = Older(current_connections[fd].idle)
      BY <2>1, <3>1 DEF Connection
    <3> QED
      BY <2>1, <3>1, <3>2, <3>3 DEF Heard
  <2> QED
    BY <2>2 DEF Heard
<1>3. CASE HandleNewConnection
  <2> DEFINE fd == LowestFree
             c == Head(backlog)
  <2>1. /\ silence' = [silence EXCEPT ![c] = 0]
        /\ fd \in ClientFd /\ fd \notin Open /\ c \in Client /\ ~Accepted(c)
        /\ socket_of' = [socket_of EXCEPT ![fd] = c]
        /\ current_connections' = [current_connections EXCEPT ![fd] = [idle |-> 0, buffered |-> 0]]
    BY <1>3, AcceptEffect
  <2> HIDE DEF fd, c
  <2>2. /\ socket_of \in [ClientFd -> Client \cup {NULL}]
        /\ current_connections \in [ClientFd -> Connection \cup {NULL}]
        /\ silence \in [Client -> 0 .. IdleLimit]
    BY DEF Inv, TypeOK
  <2>3. ASSUME NEW it \in Open'
        PROVE  silence'[socket_of'[it]] = current_connections'[it].idle
    <3>1. CASE it = fd
      BY <2>1, <2>2, <3>1
    <3>2. CASE it # fd
      <4>1. it \in Open /\ socket_of'[it] = socket_of[it]
            /\ current_connections'[it] = current_connections[it]
        BY <2>1, <2>2, <3>2 DEF Open
      <4>2. socket_of[it] \in Client /\ socket_of[it] # c
        BY <2>1, <2>2, <4>1 DEF Open, Accepted
      <4> QED
        BY <2>1, <2>2, <4>1, <4>2 DEF Heard
    <3> QED
      BY <3>1, <3>2
  <2> QED
    BY <2>3 DEF Heard
<1>4. ASSUME NEW fds \in SUBSET Open, Disconnect(fds),
             pc \in {"timeout", "dispatch"}, pc' # "answering"
      PROVE  Heard'
  <2>1. /\ Open' = Open \ fds
        /\ \A fd \in Open' : /\ socket_of'[fd] = socket_of[fd]
                             /\ current_connections'[fd] = current_connections[fd]
                             /\ silence'[socket_of[fd]] = silence[socket_of[fd]]
    BY <1>4, DisconnectEffect
  <2> QED
    BY <2>1, HeardKept
<1>5. CASE CheckAfterTimeout \/ EndIterationWithCheck
  <2>1. IdleConnections \in SUBSET Open
    BY ConnectedClients DEF Inv, IdleConnections
  <2>2. /\ Disconnect(IdleConnections)
        /\ pc \in {"timeout", "dispatch"} /\ pc' # "answering"
    BY <1>5 DEF CheckAfterTimeout, EndIterationWithCheck, LoopCondition
  <2> QED
    BY <1>4, <2>1, <2>2
<1>6. CASE HandleClientDisconnected
  <2>1. /\ {Head(events).file_descriptor} \in SUBSET Open
        /\ Disconnect({Head(events).file_descriptor})
        /\ pc \in {"timeout", "dispatch"} /\ pc' # "answering"
    BY <1>6, DisconnectedIsOpen
  <2> QED
    BY <1>4, <2>1
<1>7. CASE HandleRequest
  <2> DEFINE fd == Head(events).file_descriptor
             c == socket_of[fd]
  <2>1. /\ socket_of' = socket_of
        /\ silence' = [silence EXCEPT ![c] = 0]
        /\ fd \in Open
        /\ current_connections'[fd].idle = 0
        /\ \A other \in ClientFd :
             other # fd => current_connections'[other] = current_connections[other]
    BY <1>7, RequestEffect
  <2>2. /\ silence \in [Client -> 0 .. IdleLimit] /\ Open' = Open
        /\ \A it \in Open : it \in ClientFd /\ socket_of[it] \in Client
        /\ \A it \in Open : socket_of[it] = c => it = fd
    BY <2>1, ConnectedClients DEF Inv, TypeOK, ConnectionsMirrorDescriptors, Open
  <2> HIDE DEF fd
  <2>3. ASSUME NEW it \in Open
        PROVE  silence'[socket_of[it]] = current_connections'[it].idle
    <3>1. CASE it = fd
      BY <2>1, <2>2, <3>1
    <3>2. CASE it # fd
      BY <2>1, <2>2, <3>2 DEF Heard
    <3> QED
      BY <3>1, <3>2
  <2> QED
    BY <2>1, <2>2, <2>3 DEF Heard
<1>8. CASE Destroy
  BY <1>8 DEF Destroy, Heard, Open
<1> QED
  <2>1. \/ UNCHANGED <<current_connections, socket_of, silence>>
        \/ Tick \/ HandleNewConnection \/ CheckAfterTimeout \/ EndIterationWithCheck
        \/ HandleClientDisconnected \/ HandleRequest \/ Destroy
    BY DEF Next, ServerStep, HandleEvent, CallReturns, ClientStep, vars, connectionVars,
       Connect, Send, CloseClient, TakeIn, Signal, Register, Listen, EnterLoop, WaitForEvents,
       AcceptFails, SendReturns, BrokenPipe, IgnoreEvent, BreakBatch, EndIteration, Unlisten
  <2> QED
    BY <1>1, <1>2, <1>3, <1>5, <1>6, <1>7, <1>8, <2>1

(* The step property of ClosedForAReason. *)
LEMMA StepClosesForAReason ==
  ASSUME Inv, Heard, [Next]_vars, NEW fd \in Open, socket_of'[fd] # socket_of[fd]
  PROVE  /\ socket_of'[fd] = NULL
         /\ \/ phase[socket_of[fd]] = "shut"
            \/ silence[socket_of[fd]] = IdleLimit
            \/ pc = "closing"
<1>1. fd \in ClientFd /\ socket_of \in [ClientFd -> Client \cup {NULL}]
  BY DEF Open, Inv, TypeOK
<1>2. \/ HandleNewConnection \/ CheckAfterTimeout \/ EndIterationWithCheck
      \/ HandleClientDisconnected \/ Destroy
  <2> SUFFICES ASSUME UNCHANGED socket_of
               PROVE  FALSE
    BY DEF Next, ServerStep, HandleEvent, CallReturns, ClientStep, vars, connectionVars,
       Connect, Send, CloseClient, TakeIn, Tick, Signal, Register, Listen, EnterLoop, WaitForEvents,
       AcceptFails, HandleRequest, SendReturns, BrokenPipe, IgnoreEvent, BreakBatch,
       EndIteration, Unlisten
  <2> QED
    OBVIOUS
<1>3. CASE HandleNewConnection
  <2>1. LowestFree \notin Open /\ socket_of' = [socket_of EXCEPT ![LowestFree] = Head(backlog)]
    BY <1>3, AcceptEffect
  <2> QED
    BY <1>1, <2>1
<1>4. ASSUME NEW fds, Disconnect(fds)
      PROVE  fd \in fds /\ socket_of'[fd] = NULL
  BY <1>1, <1>4 DEF Disconnect
<1>5. CASE CheckAfterTimeout \/ EndIterationWithCheck
  <2>1. fd \in IdleConnections /\ socket_of'[fd] = NULL
    BY <1>4, <1>5 DEF CheckAfterTimeout, EndIterationWithCheck
  <2>2. current_connections[fd] \in Connection /\ IsIdle(current_connections[fd].idle)
    BY <2>1, ConnectedClients DEF Inv, IdleConnections
  <2>3. current_connections[fd].idle = IdleLimit
    BY <2>2, ServerAssumption DEF Connection, IsIdle
  <2> QED
    BY <2>1, <2>3 DEF Heard
<1>6. CASE HandleClientDisconnected
  <2>1. /\ Disconnect({Head(events).file_descriptor})
        /\ phase[socket_of[Head(events).file_descriptor]] = "shut"
    BY <1>6, DisconnectedIsOpen
  <2> QED
    BY <1>4, <2>1
<1>7. CASE Destroy
  BY <1>1, <1>7 DEF Destroy
<1> QED
  BY <1>2, <1>3, <1>5, <1>6, <1>7

(* handle_client_disconnected and check_idle_connections close a           *)
(* connection only when its peer has closed it or no request of it was     *)
(* taken up for the whole limit, and ~Server the rest; no step gives the   *)
(* descriptor of one connection to another.                                *)
THEOREM ClosedOnlyForAReason == Spec => ClosedForAReason
<1>1. Init => Inv /\ Heard
  BY InitGivesInv DEF Init, Heard, Open
<1>2. Inv /\ Heard /\ [Next]_vars => Inv' /\ Heard'
  BY StepKeepsInv, StepKeepsHeard
<1>3. Inv /\ Heard /\ [Next]_vars =>
        \A fd \in Open : socket_of'[fd] # socket_of[fd] =>
          /\ socket_of'[fd] = NULL
          /\ \/ phase[socket_of[fd]] = "shut"
             \/ silence[socket_of[fd]] = IdleLimit
             \/ pc = "closing"
  BY StepClosesForAReason
<1> QED
  BY <1>1, <1>2, <1>3, PTL DEF Spec, ClosedForAReason
=============================================================================
