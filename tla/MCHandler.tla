----------------------------- MODULE MCHandler ------------------------------
(* Handler with requests of a few bytes.  a and b are valid keys; a dash   *)
(* and the empty key are not.                                              *)
EXTENDS Handler

a == <<97>>
b == <<98>>
dash == <<45>>

ReadOf(k) == [messages |-> 1, key |-> k, value |-> <<>>]
WriteOf(k, v) == [messages |-> 2, key |-> k, value |-> v]

(* Reads of a key that is there or not and of one that is no key, and      *)
(* writes of an empty value and of one longer than what a socket holds.    *)
MCWellFormed ==
  {ReadOf(a), ReadOf(<<>>), WriteOf(a, <<>>), WriteOf(a, <<1, 2, 1, 0, 0>>)}

(* A write whose key is refused, and whose value then reads like the       *)
(* beginning of a read of a key of 200 bytes.                              *)
MCMisleading == {WriteOf(dash, <<1, 1, 200, 0, 0, 0>>)}

MCRequest == MCWellFormed \cup MCMisleading
=============================================================================
