------------------------------ MODULE Service -------------------------------
(***************************************************************************)
(* What the whole system promises the users of its command line clients,   *)
(* without sockets, buffers or bytes.  Each process makes one request.  It *)
(* takes effect at most once, at one moment, on a map in which a key keeps *)
(* its first value; a process that reports success made a request that was *)
(* granted, at some moment before it reports.  Failure says nothing: the   *)
(* request may have taken effect, may do so later, or never.               *)
(***************************************************************************)
EXTENDS Replies

CONSTANTS
  Process,
  Asked,      (* The requests a process may make. *)
  NULL

VARIABLES
  asked,     (* The request of each process.                               *)
  kv,        (* The map.                                                   *)
  effect,    (* The answer each request was given, or NULL.                *)
  told       (* What each process told its user: NULL, success, failure.   *)

vars == <<asked, kv, effect, told>>

Init ==
  /\ asked \in [Process -> Asked]
  /\ kv = <<>>
  /\ effect = [c \in Process |-> NULL]
  /\ told = [c \in Process |-> NULL]

TakeEffect(c) ==
  /\ effect[c] = NULL
  /\ effect' = [effect EXCEPT ![c] = Reply(kv, asked[c])]
  /\ kv' = Updated(kv, asked[c])
  /\ UNCHANGED <<asked, told>>

(* The process was interrupted while it asked. *)
Garbled(c) ==
  /\ effect[c] = NULL
  /\ told[c] = "failure"
  /\ effect' = [effect EXCEPT ![c] = Refusal]
  /\ UNCHANGED <<asked, kv, told>>

Granted(c) == effect[c] # NULL /\ effect[c].status = OK

Tell(c) ==
  /\ told[c] = NULL
  /\ told' = [told EXCEPT ![c] = "failure"] \/ (Granted(c) /\ told' = [told EXCEPT ![c] = "success"])
  /\ UNCHANGED <<asked, kv, effect>>

Next == \E c \in Process : TakeEffect(c) \/ Garbled(c) \/ Tell(c)

Spec == Init /\ [][Next]_vars
=============================================================================
