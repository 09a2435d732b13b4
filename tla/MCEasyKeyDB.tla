---------------------------- MODULE MCEasyKeyDB -----------------------------
(* EasyKeyDB with two processes over one key. *)
EXTENDS EasyKeyDB, TLC

CONSTANTS p1, p2

k == <<107>>
Read == [request |-> [messages |-> 1, key |-> k, value |-> <<>>], from_file |-> FALSE]
WriteOf(v, file) == [request |-> [messages |-> 2, key |-> k, value |-> v], from_file |-> file]

(* A file is written and read, an argument is, or one and the other are    *)
(* written.  The file makes an answer that does not fit the two buffers,   *)
(* with a record longer than one sendfile transfers; the argument makes    *)
(* one that fits.                                                          *)
MCTwo == {p1, p2}
File == WriteOf(<<1, 2, 3, 4, 5, 6, 7, 8, 9, 10>>, TRUE)
Argument == WriteOf(<<6>>, FALSE)
MCCommandLines ==
  {(p1 :> File) @@ (p2 :> Read),
   (p1 :> Argument) @@ (p2 :> Read),
   (p1 :> File) @@ (p2 :> Argument)}
MCText == <<33>>
MCSegments == {4}
=============================================================================
