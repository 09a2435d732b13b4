---------------------------- MODULE RequestReply ----------------------------
(***************************************************************************)
(* What one client may expect of its connection, without bytes, segments   *)
(* or buffers: its requests are answered in the order it made them, one    *)
(* answer each, from a map in which a key keeps its first value.  Once a   *)
(* request is given up, nothing is promised any more.                      *)
(***************************************************************************)
EXTENDS Replies

CONSTANT Request

VARIABLES
  requests,   (* The requests the client has made.                         *)
  kv,         (* The map, a function on the keys that were written.        *)
  answers,    (* The answers it was given.                                 *)
  lost        (* A request was given up.                                   *)

vars == <<requests, kv, answers, lost>>

Init ==
  /\ requests = <<>>
  /\ kv = <<>>
  /\ answers = <<>>
  /\ lost = FALSE

Ask(request) ==
  /\ ~lost
  /\ requests' = Append(requests, request)
  /\ UNCHANGED <<kv, answers, lost>>

Answer ==
  /\ ~lost
  /\ Len(answers) < Len(requests)
  /\ LET request == requests[Len(answers) + 1]
     IN  /\ answers' = Append(answers, Reply(kv, request))
         /\ kv' = Updated(kv, request)
  /\ UNCHANGED <<requests, lost>>

(* A request is refused, and the map left as it is. *)
GiveUp ==
  /\ ~lost
  /\ Len(answers) < Len(requests)
  /\ answers' = Append(answers, Refusal)
  /\ lost' = TRUE
  /\ UNCHANGED <<requests, kv>>

Anything == lost /\ lost'

Next == Answer \/ GiveUp \/ Anything \/ \E request \in Request : Ask(request)

Spec == Init /\ [][Next]_vars
=============================================================================
