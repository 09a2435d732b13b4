------------------------------- MODULE Replies ------------------------------
(***************************************************************************)
(* What a request does to the map and what it is answered: the branches of *)
(* Handler::parse_request as functions, over the map that Database         *)
(* implements (see ImplementsKVStore there).                               *)
(***************************************************************************)
EXTENDS KnowNothing

Refusal == [status |-> CLIENT_ERROR, body |-> <<>>]
Success(content) == [status |-> OK, body |-> content]

(* unordered_map::insert. *)
Inserted(map, key, content) ==
  [k \in DOMAIN map \cup {key} |-> IF k \in DOMAIN map THEN map[k] ELSE content]

Found(map, key) == IF key \in DOMAIN map THEN Success(map[key]) ELSE Refusal

Reply(map, request) ==
  IF ~IsKeyValid(request.key) THEN Refusal
  ELSE IF IsWrite(request) THEN Success(<<>>) ELSE Found(map, request.key)

Updated(map, request) ==
  IF IsKeyValid(request.key) /\ IsWrite(request)
    THEN Inserted(map, request.key, request.value) ELSE map
=============================================================================
