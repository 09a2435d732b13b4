----------------------------- MODULE IONotifier -----------------------------
(***************************************************************************)
(* The event notifier: class IONotifier of source/io_notifier.cpp, over    *)
(* Linux's edge-triggered epoll.  The kernel keeps the registered          *)
(* descriptors and a list of those something has happened to; one          *)
(* epoll_wait takes at most MaxEvents entries from the front of the list,  *)
(* and an entry that was taken comes back only with a new occurrence.      *)
(*                                                                         *)
(* What poll(2) would say of a descriptor is the variable condition.  A    *)
(* module that uses the notifier substitutes its sockets for it.           *)
(***************************************************************************)
EXTENDS Integers, Sequences, FiniteSets, Lists

CONSTANTS
  FileDescriptor,
  MaxEvents,            (* 32: the length of events_buffer.                *)
  CountModulus,         (* 2^32: the count is a uint32_t.                  *)
  UninitializedCounts   (* What it may hold at first: no constructor sets it. *)

ASSUME IONotifierAssumption ==
  /\ MaxEvents \in Nat \ {0}
  /\ CountModulus \in Nat \ {0}
  /\ UninitializedCounts \subseteq 0 .. CountModulus - 1

VARIABLES
  interest,    (* The event types each descriptor is registered for, none  *)
               (* when it is not registered.                               *)
  ready,       (* epoll's list of descriptors with something to report.    *)
  condition,   (* What is the case at each descriptor now.                 *)
  returned,    (* The events the last wait_for_events returned.            *)
  tracked_file_descriptors_count,
  call_failed  (* History: some epoll_ctl has failed.                      *)

callVars == <<interest, tracked_file_descriptors_count, call_failed>>
vars == <<callVars, ready, condition, returned>>

EventType == {"READ", "WRITE", "CLOSE_CONNECTION"}
Event == [file_descriptor: FileDescriptor, type: EventType]

Registered == {fd \in FileDescriptor : interest[fd] # {}}

TypeOK ==
  /\ interest \in [FileDescriptor -> SUBSET EventType]
  /\ ready \in Seq(Registered)
  /\ condition \in [FileDescriptor -> SUBSET EventType]
  /\ returned \in Seq(Event)
  /\ tracked_file_descriptors_count \in 0 .. CountModulus - 1
  /\ call_failed \in BOOLEAN

-----------------------------------------------------------------------------
Init ==
  /\ interest = [fd \in FileDescriptor |-> {}]
  /\ ready = <<>>
  /\ condition = [fd \in FileDescriptor |-> {}]
  /\ returned = <<>>
  /\ tracked_file_descriptors_count \in UninitializedCounts
  /\ call_failed = FALSE

(* An occurrence puts a registered descriptor on the list, once. *)
Wake(fd) == ready' = IF interest[fd] = {} THEN ready ELSE Announce(ready, fd)

(* epoll_ctl returns 0 when it succeeds, which "const bool success" turns  *)
(* into false: the count moves only when the call fails, because the       *)
(* descriptor is registered already, or not registered.  A registration    *)
(* announces what is the case at the descriptor now.                       *)
add_event(fd, types, now) ==
  LET fails == interest[fd] # {}
  IN  /\ interest' = IF fails THEN interest ELSE [interest EXCEPT ![fd] = types]
      /\ ready' = IF fails \/ types \cap now = {}
                    THEN ready ELSE Announce(ready, fd)
      /\ tracked_file_descriptors_count' =
           (tracked_file_descriptors_count + (IF fails THEN 1 ELSE 0)) % CountModulus
      /\ call_failed' = (call_failed \/ fails)

(* delete_event for each descriptor of a set, one call after the other. *)
delete_events(fds) ==
  /\ interest' = [fd \in FileDescriptor |-> IF fd \in fds THEN {} ELSE interest[fd]]
  /\ ready' = Only(ready, FileDescriptor \ fds)
  /\ tracked_file_descriptors_count' =
       (tracked_file_descriptors_count - Cardinality(fds \ Registered)) % CountModulus
  /\ call_failed' = (call_failed \/ ~(fds \subseteq Registered))
delete_event(fd) == delete_events({fd})

(* The condition of a descriptor that its registration asks for. *)
Reportable(fd) == interest[fd] \cap condition[fd]

(* Mutant: the first test is for WRITE, which nearly always holds. *)
TypeWriteFirst(types) ==
  IF "WRITE" \in types THEN "WRITE"
  ELSE IF "CLOSE_CONNECTION" \in types THEN "CLOSE_CONNECTION" ELSE "READ"
(* Mutant: no test for WRITE. *)
TypeUnset(types) ==
  IF "CLOSE_CONNECTION" \in types THEN "CLOSE_CONNECTION"
  ELSE IF "READ" \in types THEN "READ" ELSE "NONE"
(* An Event carries one type: a closed peer hides unread data, and unread  *)
(* data hides that the descriptor can be written.                          *)
TypeOf(types) ==
  IF "CLOSE_CONNECTION" \in types THEN "CLOSE_CONNECTION"
  ELSE IF "READ" \in types THEN "READ" ELSE "WRITE"

(* epoll_wait passes over descriptors with nothing to report any more. An  *)
(* empty result stands for the timeout, and for an error: EINTR, which     *)
(* epoll_wait gives only when it has nothing to report.                    *)
wait_for_events ==
  LET list == Only(ready, {fd \in FileDescriptor : Reportable(fd) # {}})
      total_events == IF Len(list) < MaxEvents THEN Len(list) ELSE MaxEvents
  IN  /\ returned' = [index \in 1 .. total_events |->
                        [file_descriptor |-> list[index],
                         type            |-> TypeOf(Reportable(list[index]))]]
      /\ ready' = Remaining(list, total_events)
      /\ UNCHANGED callVars

-----------------------------------------------------------------------------
(* What happens to descriptors: data or a connection arrives, the send     *)
(* buffer has room, the peer closes; and their owner reads what was there. *)
Occur(fd, type) ==
  /\ condition' = [condition EXCEPT ![fd] = @ \cup {type}]
  /\ Wake(fd)
  /\ UNCHANGED <<callVars, returned>>

Consume(fd) ==
  /\ "READ" \in condition[fd]
  /\ condition' = [condition EXCEPT ![fd] = @ \ {"READ"}]
  /\ UNCHANGED <<callVars, ready, returned>>

(* An owner may also register twice, or unregister what is not registered; *)
(* the server does not (NotifierCallsSucceed in Server).                   *)
Add(fd, types) ==
  /\ add_event(fd, types, condition[fd])
  /\ UNCHANGED <<condition, returned>>
Delete(fd) ==
  /\ delete_event(fd)
  /\ UNCHANGED <<condition, returned>>
Wait == wait_for_events /\ UNCHANGED condition

(* The registrations the server makes: a listener's and a client's. *)
Registration == {{"READ"}, EventType}

Next ==
  \/ \E fd \in FileDescriptor :
       \/ \E type \in EventType : Occur(fd, type)
       \/ Consume(fd)
       \/ \E types \in Registration : Add(fd, types)
       \/ Delete(fd)
  \/ Wait

Spec == Init /\ [][Next]_vars
FairSpec == Spec /\ WF_vars(Wait)

-----------------------------------------------------------------------------
(* Data or a connection that is announced is reported to the owner as such *)
(* or as a closed peer, however many descriptors compete for the places of *)
(* a batch and whatever else is the case at the descriptor, unless it is   *)
(* read or unregistered before.                                            *)
Reports(fd, types) ==
  \E i \in DOMAIN returned : returned[i].file_descriptor = fd /\ returned[i].type \in types
Unread(fd) == "READ" \in Reportable(fd)
DataIsReported ==
  \A fd \in FileDescriptor :
    (fd \in Members(ready) /\ Unread(fd))
      ~> (Reports(fd, {"READ", "CLOSE_CONNECTION"}) \/ ~Unread(fd))

-----------------------------------------------------------------------------
(* "How many file descriptors are registered" (io_notifier.hpp:65): what   *)
(* tracked_file_descriptors_count counts, even if it was zero at first.    *)
CountsRegistered == tracked_file_descriptors_count = Cardinality(Registered) % CountModulus
=============================================================================
