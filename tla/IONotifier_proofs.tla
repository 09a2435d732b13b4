-------------------------- MODULE IONotifier_proofs --------------------------
(***************************************************************************)
(* The notifier's state is well typed, for any set of descriptors and any  *)
(* length of a batch: above all, epoll's list holds registered descriptors *)
(* only, and each of them once, whatever is added, deleted and reported.   *)
(***************************************************************************)
EXTENDS IONotifier, Lists_proofs

Inv ==
  /\ TypeOK
  /\ Distinct(ready)

(* What an Event says is one of the three types. *)
LEMMA TypeOfType ==
  ASSUME NEW types \in SUBSET EventType
  PROVE  TypeOf(types) \in EventType
BY DEF TypeOf, EventType

(* An occurrence keeps the list in order. *)
LEMMA WakeKeepsInv ==
  ASSUME Inv, NEW fd \in FileDescriptor, Wake(fd), UNCHANGED interest
  PROVE  ready' \in Seq(Registered') /\ Distinct(ready')
<1>1. CASE interest[fd] = {}
  BY <1>1 DEF Wake, Inv, TypeOK, Registered
<1>2. CASE interest[fd] # {}
  <2>1. fd \in Registered /\ Registered' = Registered
    BY <1>2 DEF Registered
  <2>2. ready' = Announce(ready, fd)
    BY <1>2 DEF Wake
  <2> QED
    BY <2>1, <2>2, AnnounceProperties DEF Inv, TypeOK
<1> QED
  BY <1>1, <1>2

(* A registration adds its descriptor to the list, or leaves it. *)
LEMMA AddKeepsInv ==
  ASSUME Inv, NEW fd \in FileDescriptor, NEW types \in Registration, Add(fd, types)
  PROVE  Inv'
<1>1. types \in SUBSET EventType /\ types # {}
  BY DEF Registration, EventType
<1>2. CASE interest[fd] # {}
  <2>1. /\ interest' = interest /\ ready' = ready
        /\ tracked_file_descriptors_count' = (tracked_file_descriptors_count + 1) % CountModulus
        /\ UNCHANGED <<condition, returned>>
        /\ call_failed' \in BOOLEAN
    BY <1>2 DEF Add, add_event
  <2>2. tracked_file_descriptors_count' \in 0 .. CountModulus - 1
    BY <2>1, IONotifierAssumption DEF Inv, TypeOK
  <2> QED
    BY <2>1, <2>2 DEF Inv, TypeOK, Registered
<1>3. CASE interest[fd] = {}
  <2>1. interest' = [interest EXCEPT ![fd] = types]
    BY <1>3 DEF Add, add_event
  <2>2. interest' \in [FileDescriptor -> SUBSET EventType]
    BY <1>1, <2>1 DEF Inv, TypeOK
  <2>3. fd \in Registered' /\ Registered \subseteq Registered'
    BY <1>1, <1>3, <2>1 DEF Inv, TypeOK, Registered
  <2>4. ready \in Seq(Registered') /\ Distinct(ready)
    BY <2>3, SeqMonotonic DEF Inv, TypeOK
  <2>5. ready' = ready \/ ready' = Announce(ready, fd)
    BY DEF Add, add_event
  <2>6. ready' \in Seq(Registered') /\ Distinct(ready')
    BY <2>3, <2>4, <2>5, AnnounceProperties
  <2>7. tracked_file_descriptors_count' = (tracked_file_descriptors_count + 0) % CountModulus
    BY <1>3 DEF Add, add_event
  <2>8. tracked_file_descriptors_count' \in 0 .. CountModulus - 1
    BY <2>7, IONotifierAssumption DEF Inv, TypeOK
  <2>9. call_failed' \in BOOLEAN
    BY DEF Add, add_event
  <2> QED
    BY <2>2, <2>6, <2>8, <2>9 DEF Inv, TypeOK, Add
<1> QED
  BY <1>2, <1>3

(* What is unregistered leaves the list. *)
LEMMA DeleteKeepsInv ==
  ASSUME Inv, NEW fd \in FileDescriptor, Delete(fd)
  PROVE  Inv'
<1>1. interest' = [other \in FileDescriptor |-> IF other \in {fd} THEN {} ELSE interest[other]]
  BY DEF Delete, delete_event, delete_events
<1>2. interest' \in [FileDescriptor -> SUBSET EventType]
  BY <1>1 DEF Inv, TypeOK
<1>3. Registered \cap (FileDescriptor \ {fd}) \subseteq Registered'
  BY <1>1 DEF Registered
<1>4. ready' = Only(ready, FileDescriptor \ {fd})
  BY DEF Delete, delete_event, delete_events
<1>5. ready' \in Seq(Registered \cap (FileDescriptor \ {fd})) /\ Distinct(ready')
  BY <1>4, OnlyProperties DEF Inv, TypeOK
<1>6. ready' \in Seq(Registered')
  BY <1>3, <1>5, SeqMonotonic
<1>7. tracked_file_descriptors_count' \in 0 .. CountModulus - 1
  <2> DEFINE unregistered == {fd} \ Registered
  <2>1. IsFiniteSet(unregistered)
    BY FS_Singleton, FS_Subset
  <2>2. Cardinality(unregistered) \in Nat
    BY <2>1, FS_CardinalityType
  <2>3. tracked_file_descriptors_count' =
          (tracked_file_descriptors_count - Cardinality(unregistered)) % CountModulus
    BY DEF Delete, delete_event, delete_events
  <2> HIDE DEF unregistered
  <2> QED
    BY <2>2, <2>3, IONotifierAssumption DEF Inv, TypeOK
<1>8. call_failed' \in BOOLEAN
  BY DEF Delete, delete_event, delete_events
<1> QED
  BY <1>2, <1>5, <1>6, <1>7, <1>8 DEF Inv, TypeOK, Delete

(* A batch holds events of registered descriptors, and what it leaves on   *)
(* the list was there before.                                              *)
LEMMA WaitKeepsInv ==
  ASSUME Inv, Wait
  PROVE  Inv'
<1> DEFINE kept == {fd \in FileDescriptor : Reportable(fd) # {}}
           list == Only(ready, kept)
           total_events == IF Len(list) < MaxEvents THEN Len(list) ELSE MaxEvents
<1>1. list \in Seq(Registered \cap kept) /\ Distinct(list)
  BY OnlyProperties DEF Inv, TypeOK
<1>2. list \in Seq(Registered)
  BY <1>1, SeqMonotonic
<1>3. /\ returned' = [index \in 1 .. total_events |->
                        [file_descriptor |-> list[index],
                         type            |-> TypeOf(Reportable(list[index]))]]
      /\ ready' = Remaining(list, total_events)
      /\ UNCHANGED <<callVars, condition>>
  BY DEF Wait, wait_for_events
<1> HIDE DEF list
<1>4. Len(list) \in Nat /\ total_events \in 0 .. Len(list)
  BY <1>2, LenProperties, IONotifierAssumption
<1>5. Registered' = Registered
  BY <1>3 DEF Registered, callVars
<1>6. ready' \in Seq(Registered') /\ Distinct(ready')
  BY <1>1, <1>2, <1>3, <1>4, <1>5, RemainingProperties
<1>7. returned' \in Seq(Event)
  <2>1. \A index \in 1 .. total_events : list[index] \in FileDescriptor
    BY <1>2, <1>4, ElementOfSeq DEF Registered
  <2>2. \A index \in 1 .. total_events :
          [file_descriptor |-> list[index], type |-> TypeOf(Reportable(list[index]))] \in Event
    BY <2>1, TypeOfType DEF Event, Reportable, Inv, TypeOK
  <2> HIDE DEF total_events
  <2> QED
    BY <1>3, <1>4, <2>2
<1> QED
  BY <1>3, <1>6, <1>7 DEF Inv, TypeOK, callVars

(* The list holds registered descriptors, once each, and the count of      *)
(* descriptors stays in its range, for any number of descriptors and any   *)
(* length of the buffer (source/io_notifier.cpp).                          *)
THEOREM InvHolds == Spec => []Inv
<1>1. Init => Inv
  <2>1. Init => call_failed \in BOOLEAN
    BY DEF Init
  <2>2. Init => TypeOK
    BY <2>1, IONotifierAssumption DEF Init, TypeOK
  <2> QED
    BY <2>2 DEF Init, Inv, Distinct
<1>2. Inv /\ [Next]_vars => Inv'
  <2> SUFFICES ASSUME Inv, [Next]_vars
               PROVE  Inv'
    OBVIOUS
  <2>1. ASSUME NEW fd \in FileDescriptor, NEW type \in EventType, Occur(fd, type)
        PROVE  Inv'
    <3>1. ready' \in Seq(Registered') /\ Distinct(ready')
      BY <2>1, WakeKeepsInv DEF Occur, callVars
    <3> QED
      BY <2>1, <3>1 DEF Occur, callVars, Inv, TypeOK
  <2>2. ASSUME NEW fd \in FileDescriptor, Consume(fd)
        PROVE  Inv'
    BY <2>2 DEF Consume, callVars, Inv, TypeOK, Registered
  <2>3. ASSUME NEW fd \in FileDescriptor, NEW types \in Registration, Add(fd, types)
        PROVE  Inv'
    BY <2>3, AddKeepsInv
  <2>4. ASSUME NEW fd \in FileDescriptor, Delete(fd)
        PROVE  Inv'
    BY <2>4, DeleteKeepsInv
  <2>5. CASE Wait
    BY <2>5, WaitKeepsInv
  <2>6. CASE UNCHANGED vars
    BY <2>6 DEF vars, callVars, Inv, TypeOK, Registered
  <2> QED
    BY <2>1, <2>2, <2>3, <2>4, <2>5, <2>6 DEF Next
<1> QED
  BY <1>1, <1>2, PTL DEF Spec

(* The type invariant the run checks. *)
THEOREM TypeCorrect == Spec => []TypeOK
<1>1. Inv => TypeOK
  BY DEF Inv
<1> QED
  BY <1>1, InvHolds, PTL
=============================================================================
