-------------------------------- MODULE Lists --------------------------------
(***************************************************************************)
(* epoll's list of descriptors with something to report: an occurrence     *)
(* puts a descriptor at its end, and epoll_wait takes from its front.      *)
(***************************************************************************)
EXTENDS Integers, Sequences

Members(list) == {list[i] : i \in DOMAIN list}

(* A descriptor that is on the list stays where it is. *)
Announce(list, fd) == IF fd \in Members(list) THEN list ELSE Append(list, fd)

(* The entries that are in a set, in the order they have on the list:      *)
(* SelectSeq, as a recursive function.                                     *)
Only(list, kept) ==
  LET only[n \in 0 .. Len(list)] ==
        IF n = 0 THEN <<>>
        ELSE IF list[n] \in kept THEN Append(only[n - 1], list[n])
        ELSE only[n - 1]
  IN  only[Len(list)]

(* Mutant: the events beyond the length of the buffer are lost. *)
TakeDropping(list, n) == <<>>
(* What epoll keeps for the next call when it has taken n entries. *)
Remaining(list, n) == SubSeq(list, n + 1, Len(list))
=============================================================================
