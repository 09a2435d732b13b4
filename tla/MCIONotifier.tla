---------------------------- MODULE MCIONotifier ----------------------------
(* Two descriptors that compete for the one place of a batch. *)
EXTENDS IONotifier

CONSTANTS fd1, fd2

MCFileDescriptor == {fd1, fd2}
MCUninitializedCounts == {0, 2}

(* Only selects from lists of up to three entries what SelectSeq does. *)
ASSUME OnlySelects ==
  \A list \in UNION {[1 .. n -> FileDescriptor] : n \in 0 .. 3}, kept \in SUBSET FileDescriptor :
    Only(list, kept) = SelectSeq(list, LAMBDA fd : fd \in kept)
=============================================================================
