----------------------------- MODULE Interactive ----------------------------
(***************************************************************************)
(* The interactive demo of clients/EasyKeyV1Client-Interactive.c: a menu   *)
(* that forks a process for every choice.  The child inherits stdin and a  *)
(* copy of the parent's memory, the stdio buffer of stdin included, asks   *)
(* for the value of a write itself, and becomes cli-write or cli-read      *)
(* (module Client).                                                        *)
(*                                                                         *)
(* Option lines are of at most two characters and the others of less than  *)
(* 1023, so that fgets returns each of them whole.                         *)
(***************************************************************************)
EXTENDS Integers, Sequences, FiniteSets

CONSTANTS
  Line,       (* What a line may say; 1, 2 and 3 are options.              *)
  MaxLines,   (* Bound: the lines the user types before the end of file.   *)
  MaxRuns,    (* Bound: the programs that are started.                     *)
  Garbage,    (* What an array holds that nobody has written.              *)
  NULL

ASSUME InteractiveAssumption ==
  /\ {1, 2, 3} \subseteq Line
  /\ MaxLines \in Nat /\ MaxRuns \in Nat
  /\ {Garbage, NULL} \cap Line = {}

VARIABLES
  script,    (* History: what the user types, ahead or when asked.         *)
  terminal,  (* stdin is a terminal, and not a pipe.                       *)
  input,     (* The lines of it that no process has read.                  *)
  buffer,    (* The stdio buffer of the parent's stdin,                    *)
  copy,      (* and of the child's.                                        *)
  pc,        (* Where the parent is.                                       *)
  child,     (* Where the child is.                                        *)
  option, key, value,  (* The variables of main and fork_p.                *)
  ran        (* The programs started, with their arguments.                *)

vars == <<script, terminal, input, buffer, copy, pc, child, option, key, value, ran>>

Text == Line \cup {Garbage}

(* What runs, and what it was given: cli-write needs a value. *)
Command ==
  [program: {"cli-read"}, key: Text, value: {NULL}] \cup
  [program: {"cli-write"}, key: Text, value: Text]

TypeOK ==
  /\ script \in Seq(Line) /\ terminal \in BOOLEAN /\ input \in Seq(Line)
  /\ buffer \in Seq(Line) /\ copy \in Seq(Line)
  /\ pc \in {"menu", "key", "waiting", "exited"}
  /\ child \in {"none", "value", "exec", "running", "ended"}
  /\ option \in 0 .. 3 /\ key \in Text /\ value \in Text \cup {NULL}
  /\ ran \in Seq(Command)

Init ==
  /\ \E n \in 0 .. MaxLines : script \in [1 .. n -> Line]
  /\ terminal \in BOOLEAN
  /\ input = script
  /\ buffer = <<>> /\ copy = <<>>
  /\ pc = "menu" /\ child = "none"
  /\ option = 3 /\ key = Garbage /\ value = NULL
  /\ ran = <<>>

-----------------------------------------------------------------------------
(* fgets. *)

(* How many lines read(2) may return: one of a terminal, and of a pipe as  *)
(* many as have been written.                                              *)
LinesRead == IF terminal THEN {1} \cap 1 .. Len(input) ELSE 1 .. Len(input)

(* A process takes a line out of its own buffer, which it fills first if   *)
(* there is nothing in it.                                                 *)
Lines(own) ==
  IF own # <<>> THEN {[line |-> Head(own), own |-> Tail(own), input |-> input]}
  ELSE {[line |-> input[1], own |-> SubSeq(input, 2, n),
         input |-> SubSeq(input, n + 1, Len(input))] : n \in LinesRead}

(* The end of the file: fgets leaves the array as it is.  Nobody looks at  *)
(* its result, and nobody has initialized the array.                       *)
AtEnd(own) == own = <<>> /\ input = <<>>
Gets(own, unwritten) ==
  Lines(own) \cup
  (IF AtEnd(own) THEN {[line |-> l, own |-> own, input |-> input] : l \in unwritten} ELSE {})

Atoi(line) == IF line \in 1 .. 3 THEN line ELSE 0

-----------------------------------------------------------------------------
(* The parent: main, and fork_p up to the fork. *)

ReadOption ==
  /\ pc = "menu"
  /\ \E got \in Gets(buffer, Line) :
       /\ option' = Atoi(got.line)
       /\ buffer' = got.own
       /\ input' = got.input
  /\ pc' = CASE option' \in {1, 2} -> "key"
             [] option' = 3 -> "exited"
             [] OTHER -> "menu"
  /\ UNCHANGED <<script, terminal, copy, child, key, value, ran>>

(* Mutant: the value is asked for when there is a key to read. *)
AskedWhenReading == option = 2
AsksValue == option = 1

(* Mutant: the parent goes on while its child is at work. *)
AfterForkAtOnce == "menu"
AfterFork == "waiting"

fork_p ==
  /\ pc = "key"
  /\ Len(ran) < MaxRuns
  /\ \E got \in Gets(buffer, {Garbage}) :
       /\ key' = got.line
       /\ buffer' = got.own
       /\ input' = got.input
       /\ \/ /\ pc' = AfterFork
             /\ child' = IF AsksValue THEN "value" ELSE "exec"
             /\ copy' = got.own
          \/ /\ pc' = "exited"
             /\ UNCHANGED <<child, copy>>
  /\ UNCHANGED <<script, terminal, option, value, ran>>

(* waitpid; the status is not looked at. *)
Wait ==
  /\ pc = "waiting"
  /\ child = "ended"
  /\ pc' = "menu"
  /\ child' = "none"
  /\ UNCHANGED <<script, terminal, input, buffer, copy, option, key, value, ran>>

-----------------------------------------------------------------------------
(* The child. *)

ReadValue ==
  /\ child = "value"
  /\ \E got \in Gets(copy, {Garbage}) :
       /\ value' = got.line
       /\ copy' = got.own
       /\ input' = got.input
  /\ child' = "exec"
  /\ UNCHANGED <<script, terminal, buffer, pc, option, key, ran>>

(* execv, which returns only when it failed: exit(1). *)
Exec ==
  /\ child = "exec"
  /\ ran' = Append(ran, [program |-> IF option = 1 THEN "cli-write" ELSE "cli-read",
                         key |-> key, value |-> value])
  /\ child' \in {"running", "ended"}
  /\ copy' = <<>>
  /\ value' = NULL
  /\ UNCHANGED <<script, terminal, input, buffer, pc, option, key>>

(* cli-write or cli-read ends. *)
End ==
  /\ child = "running"
  /\ child' = "ended"
  /\ UNCHANGED <<script, terminal, input, buffer, copy, pc, option, key, value, ran>>

Parent == ReadOption \/ fork_p \/ Wait
Child == ReadValue \/ Exec

Next == Parent \/ Child \/ End

Spec == Init /\ [][Next]_vars

(* Both processes run on up to the execv.  The programs need not end: one  *)
(* that the server never accepts (EveryConnectionAccepted in Server) waits *)
(* in read(2), and the parent waits in waitpid with it.                    *)
FairSpec == Spec /\ WF_vars(Parent) /\ WF_vars(Child)

-----------------------------------------------------------------------------
(* What each line was typed for, by the menu alone. *)
Role[i \in 1 .. Len(script)] ==
  IF i = 1 THEN "option"
  ELSE CASE Role[i - 1] = "option" /\ script[i - 1] \in {1, 2} -> "key"
         [] Role[i - 1] = "key" /\ script[i - 2] = 1 -> "value"
         [] Role[i - 1] = "option" /\ script[i - 1] = 3 -> "nothing"
         [] Role[i - 1] = "nothing" -> "nothing"
         [] OTHER -> "option"

(* Where the last line of a command stands. *)
Typed ==
  {i \in DOMAIN script : Role[i] = "value" \/ (Role[i] = "key" /\ script[i - 1] = 2)}
CommandTyped(i) ==
  IF Role[i] = "value"
    THEN [program |-> "cli-write", key |-> script[i - 1], value |-> script[i]]
    ELSE [program |-> "cli-read", key |-> script[i], value |-> NULL]
Place(i) == Cardinality({j \in Typed : j <= i})

(* Two processes read one stdin through two buffers that were one.  On a   *)
(* terminal that cannot go wrong, and on a pipe only when a child reads    *)
(* too, which it does for the value of a write.                            *)
Orderly == terminal \/ \A i \in DOMAIN script : Role[i] # "value"

(* Every line reaches the one it was typed for, also what is typed ahead:  *)
(* the programs that run are those the user asked for, in order and with   *)
(* their arguments.  Others run only when there is nothing left to read.   *)
CommandsAsTyped ==
  Orderly =>
    /\ \A i \in Typed : Place(i) <= Len(ran) => ran[Place(i)] = CommandTyped(i)
    /\ Len(ran) > Cardinality(Typed) => input = <<>> /\ buffer = <<>>

(* A user who chooses 3 gets out of the menu, or waits for ever for one    *)
(* program that does not end; nothing else, and no line that went astray,  *)
(* keeps the menu going.                                                   *)
EndsWhenAsked ==
  <>[](child = "running") \/
  \A i \in 1 .. MaxLines :
    (i \in DOMAIN script /\ Role[i] = "option" /\ script[i] = 3 /\ Orderly) ~> pc = "exited"
=============================================================================
