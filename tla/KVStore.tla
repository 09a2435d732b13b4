------------------------------ MODULE KVStore -------------------------------
(***************************************************************************)
(* What EasyKeyDB promises to its clients, without files, offsets or       *)
(* sockets: a map from keys to values.  A key keeps the first value it was *)
(* given: Database::write adds its entry with unordered_map::insert, which *)
(* does nothing when the key is already there.  A write is always answered *)
(* OK, a read is answered with the value of the key or with a client       *)
(* error.  When the device cuts the first write of a key, nothing is       *)
(* promised of that key but that it is found.  Nothing survives a restart. *)
(***************************************************************************)
CONSTANTS
  Key,      (* The keys a client may name.                     *)
  Value,    (* The values a client may store.                  *)
  NoValue   (* The value of a key that has not been written.   *)

VARIABLES
  kv,       (* The map.                                        *)
  damaged,  (* The keys whose first write was cut.             *)
  answer    (* The answer to the last request.                 *)

vars == <<kv, damaged, answer>>

Init ==
  /\ kv = [k \in Key |-> NoValue]
  /\ damaged = {}
  /\ answer = [status |-> "NONE", body |-> NoValue]

Written == [status |-> "OK", body |-> NoValue]

Put(key, data) ==
  /\ answer' = Written
  /\ kv' = [kv EXCEPT ![key] = IF @ = NoValue /\ key \notin damaged THEN data ELSE @]
  /\ UNCHANGED damaged

PutCut(key) ==
  /\ kv[key] = NoValue /\ key \notin damaged
  /\ answer' = Written
  /\ damaged' = damaged \cup {key}
  /\ UNCHANGED kv

GetFound(key) ==
  /\ kv[key] # NoValue
  /\ answer' = [status |-> "OK", body |-> kv[key]]
  /\ UNCHANGED <<kv, damaged>>

GetMissing(key) ==
  /\ kv[key] = NoValue /\ key \notin damaged
  /\ answer' = [status |-> "CLIENT_ERROR", body |-> NoValue]
  /\ UNCHANGED <<kv, damaged>>

GetDamaged(key) ==
  /\ key \in damaged
  /\ answer'.status = "OK"
  /\ UNCHANGED <<kv, damaged>>

Restart ==
  /\ kv' = [k \in Key |-> NoValue]
  /\ damaged' = {}
  /\ answer' = [status |-> "NONE", body |-> NoValue]

Next ==
  \/ \E key \in Key, data \in Value : Put(key, data)
  \/ \E key \in Key : PutCut(key) \/ GetFound(key) \/ GetMissing(key) \/ GetDamaged(key)
  \/ Restart

Spec == Init /\ [][Next]_vars
=============================================================================
