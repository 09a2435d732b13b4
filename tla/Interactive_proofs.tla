-------------------------- MODULE Interactive_proofs -------------------------
(***************************************************************************)
(* The interactive demo, proved for scripts of any length and any number   *)
(* of programs: where each line goes that the user types.                  *)
(***************************************************************************)
EXTENDS Interactive, Lists_proofs

-----------------------------------------------------------------------------
(* What the lines are for: the equations of Role, which is recursive.      *)

RoleAfter(before, i) ==
  CASE before = "option" /\ script[i - 1] \in {1, 2} -> "key"
    [] before = "key" /\ script[i - 2] = 1 -> "value"
    [] before = "option" /\ script[i - 1] = 3 -> "nothing"
    [] before = "nothing" -> "nothing"
    [] OTHER -> "option"

LEMMA RoleExists ==
  ASSUME Len(script) \in Nat
  PROVE  \E role : role = [i \in 1 .. Len(script) |->
           IF i = 1 THEN "option" ELSE RoleAfter(role[i - 1], i)]
<1> DEFINE Step(role, i) == IF i = 1 THEN "option" ELSE RoleAfter(role[i - 1], i)
           Solves(role, length) == role = [i \in 1 .. length |-> Step(role, i)]
           Solved == {length \in 0 .. Len(script) : \E role : Solves(role, length)}
<1>1. 0 \in Solved
  <2>1. Solves([i \in 1 .. 0 |-> "option"], 0)
    OBVIOUS
  <2> HIDE DEF Solves
  <2> QED
    BY <2>1
<1>2. ASSUME NEW length \in 0 .. Len(script) - 1, length \in Solved
      PROVE  length + 1 \in Solved
  <2>1. PICK role : Solves(role, length)
    BY <1>2
  <2> DEFINE longer == [i \in 1 .. length + 1 |-> IF i = length + 1 THEN Step(role, i) ELSE role[i]]
  <2>2. length \in Nat /\ length + 1 \in 0 .. Len(script)
    OBVIOUS
  <2>3. \A i \in 1 .. length : longer[i] = role[i] /\ role[i] = Step(role, i)
    <3> HIDE DEF Step
    <3>1. \A i \in 1 .. length : i \in 1 .. length + 1 /\ i # length + 1
      BY <2>2
    <3>2. \A i \in 1 .. length : longer[i] = role[i]
      BY <3>1
    <3>3. \A i \in 1 .. length : role[i] = Step(role, i)
      BY <2>1
    <3> QED
      BY <3>2, <3>3
  <2>4. longer[length + 1] = Step(role, length + 1)
    <3> HIDE DEF Step
    <3> QED
      BY <2>2
  <2>5. \A i \in 1 .. length + 1 : longer[i] = Step(longer, i)
    <3> TAKE i \in 1 .. length + 1
    <3>1. i = 1 \/ i - 1 \in 1 .. length
      BY <2>2
    <3>2. Step(longer, i) = Step(role, i)
      <4> HIDE DEF longer
      <4> QED
        BY <3>1, <2>3
    <3>3. i = length + 1 \/ i \in 1 .. length
      BY <2>2
    <3> HIDE DEF longer, Step
    <3> QED
      BY <3>2, <3>3, <2>3, <2>4
  <2>6. Solves(longer, length + 1)
    <3> HIDE DEF Step
    <3> QED
      BY <2>5
  <2> QED
    BY <2>2, <2>6
<1>3. Len(script) \in Solved
  <2> HIDE DEF Solved
  <2>1. \A n \in 0 .. Len(script) - 1 : n \in Solved => n + 1 \in Solved
    BY <1>2
  <2>2. \A n \in 0 .. Len(script) : n \in Solved
    BY <1>1, <2>1, InductionUpTo
  <2> QED
    BY <2>2
<1> QED
  BY <1>3

LEMMA RoleUnfolds ==
  ASSUME Len(script) \in Nat
  PROVE  \A i \in 1 .. Len(script) :
           Role[i] = IF i = 1 THEN "option" ELSE RoleAfter(Role[i - 1], i)
<1> DEFINE Solves(role) == role = [i \in 1 .. Len(script) |->
             IF i = 1 THEN "option" ELSE RoleAfter(role[i - 1], i)]
<1>1. \E role : Solves(role)
  BY RoleExists
<1>2. Role = CHOOSE role : Solves(role)
  BY DEF Role, RoleAfter
<1>3. Solves(Role)
  <2> HIDE DEF Solves
  <2> QED
    BY <1>1, <1>2
<1> QED
  BY <1>3

-----------------------------------------------------------------------------
(* Places. *)

Upto(i) == {j \in Typed : j <= i}

LEMMA TypedLines ==
  ASSUME script \in Seq(Line)
  PROVE  /\ Len(script) \in Nat /\ DOMAIN script = 1 .. Len(script)
         /\ Typed \subseteq 1 .. Len(script) /\ IsFiniteSet(Typed) /\ Cardinality(Typed) \in Nat
         /\ \A i : /\ Place(i) = Cardinality(Upto(i)) /\ IsFiniteSet(Upto(i))
                   /\ Place(i) \in Nat /\ Place(i) <= Cardinality(Typed)
<1>1. Len(script) \in Nat /\ DOMAIN script = 1 .. Len(script)
  BY LenProperties
<1>2. Typed \subseteq 1 .. Len(script)
  BY <1>1 DEF Typed
<1>3. IsFiniteSet(Typed)
  <2>1. IsFiniteSet(1 .. Len(script))
    BY <1>1, FS_Interval
  <2> QED
    BY <1>2, <2>1, FS_Subset
<1>4. Cardinality(Typed) \in Nat
  BY <1>3, FS_CardinalityType
<1>5. ASSUME NEW i
      PROVE  /\ Place(i) = Cardinality(Upto(i)) /\ IsFiniteSet(Upto(i))
             /\ Place(i) \in Nat /\ Place(i) <= Cardinality(Typed)
  <2>1. Upto(i) \in SUBSET Typed /\ Place(i) = Cardinality(Upto(i))
    BY DEF Upto, Place
  <2>2. IsFiniteSet(Upto(i)) /\ Cardinality(Upto(i)) <= Cardinality(Typed)
    BY <1>3, <2>1, FS_Subset
  <2>3. Cardinality(Upto(i)) \in Nat
    BY <2>2, FS_CardinalityType
  <2> QED
    BY <2>1, <2>2, <2>3
<1> QED
  BY <1>1, <1>2, <1>3, <1>4, <1>5

LEMMA Places ==
  ASSUME script \in Seq(Line)
  PROVE  /\ Place(0) = 0 /\ Place(Len(script)) = Cardinality(Typed)
         /\ \A i \in Nat : Place(i + 1) = IF i + 1 \in Typed THEN Place(i) + 1 ELSE Place(i)
         /\ \A i, j \in Nat : i <= j => Place(i) <= Place(j)
         /\ \A i \in Nat : \A j \in Typed : i < j => Place(i) < Place(j)
<1>1. /\ Len(script) \in Nat /\ Typed \subseteq 1 .. Len(script)
      /\ \A i : /\ Place(i) = Cardinality(Upto(i)) /\ IsFiniteSet(Upto(i)) /\ Place(i) \in Nat
  BY TypedLines
<1>0. \A j \in Typed : j \in Nat /\ j > 0 /\ j <= Len(script)
  BY <1>1
<1>2. Place(0) = 0
  <2>1. Upto(0) = {}
    BY <1>0 DEF Upto
  <2> QED
    BY <1>1, <2>1, FS_EmptySet
<1>3. Place(Len(script)) = Cardinality(Typed)
  <2>1. Upto(Len(script)) = Typed
    BY <1>0 DEF Upto
  <2> QED
    BY <1>1, <2>1
<1>4. ASSUME NEW i \in Nat
      PROVE  Place(i + 1) = IF i + 1 \in Typed THEN Place(i) + 1 ELSE Place(i)
  <2>1. \A j \in Typed : j \in Nat
    BY <1>1
  <2>2. CASE i + 1 \in Typed
    <3>1. Upto(i + 1) = Upto(i) \cup {i + 1} /\ i + 1 \notin Upto(i)
      BY <2>1, <2>2 DEF Upto
    <3>2. Cardinality(Upto(i) \cup {i + 1}) = Cardinality(Upto(i)) + 1
      BY <1>1, <3>1, FS_AddElement
    <3> QED
      BY <1>1, <2>2, <3>1, <3>2
  <2>3. CASE i + 1 \notin Typed
    <3>1. Upto(i + 1) = Upto(i)
      BY <2>1, <2>3 DEF Upto
    <3> QED
      BY <1>1, <2>3, <3>1
  <2> QED
    BY <2>2, <2>3
<1>5. ASSUME NEW i \in Nat, NEW j \in Nat, i <= j
      PROVE  Place(i) <= Place(j)
  <2>1. Upto(i) \in SUBSET Upto(j)
    <3>1. \A k \in Typed : k <= i => k <= j
      BY <1>0, <1>5
    <3> QED
      BY <3>1 DEF Upto
  <2>2. Cardinality(Upto(i)) <= Cardinality(Upto(j))
    BY <1>1, <2>1, FS_Subset
  <2> QED
    BY <1>1, <2>2
<1>6. ASSUME NEW i \in Nat, NEW j \in Typed, i < j
      PROVE  Place(i) < Place(j)
  <2>1. j \in Nat /\ j - 1 \in Nat /\ i <= j - 1 /\ (j - 1) + 1 = j
    BY <1>1, <1>6
  <2>2. Place((j - 1) + 1) = IF (j - 1) + 1 \in Typed THEN Place(j - 1) + 1 ELSE Place(j - 1)
    BY <1>4, <2>1
  <2>3. Place(j) = Place(j - 1) + 1
    BY <2>1, <2>2
  <2>4. Place(i) <= Place(j - 1) /\ Place(i) \in Nat /\ Place(j - 1) \in Nat
    BY <1>1, <1>5, <2>1
  <2> QED
    BY <2>3, <2>4
<1> QED
  BY <1>2, <1>3, <1>4, <1>5, <1>6

LEMMA PlacesApart ==
  ASSUME script \in Seq(Line), NEW i \in Typed, NEW j \in Typed, Place(i) = Place(j)
  PROVE  i = j
<1>1. i \in Nat /\ j \in Nat /\ Place(i) \in Nat /\ Place(j) \in Nat
  BY TypedLines
<1>2. \A k \in Nat : \A l \in Typed : k < l => Place(k) < Place(l)
  BY Places
<1>3. (i < j => Place(i) < Place(j)) /\ (j < i => Place(j) < Place(i))
  BY <1>1, <1>2
<1> QED
  BY <1>1, <1>3

LEMMA SameScript ==
  ASSUME script' = script, terminal' = terminal
  PROVE  /\ Role' = Role /\ Typed' = Typed /\ Orderly' = Orderly
         /\ \A i : Place(i)' = Place(i) /\ CommandTyped(i)' = CommandTyped(i)
<1>1. Role' = Role
  BY DEF Role
<1> QED
  BY <1>1 DEF Typed, Orderly, Place, CommandTyped

-----------------------------------------------------------------------------
(* fgets. *)

(* Two buffers, one behind the other, have the lines of the script from a  *)
(* place on.                                                               *)
Stands(own, rest, at) ==
  /\ Len(own) + Len(rest) = Len(script) - at
  /\ \A i \in 1 .. Len(own) : own[i] = script[at + i]
  /\ \A i \in 1 .. Len(rest) : rest[i] = script[at + Len(own) + i]

LEMMA LineTaken ==
  ASSUME script \in Seq(Line), input \in Seq(Line), NEW own \in Seq(Line),
         NEW at \in 0 .. Len(script), Stands(own, input, at), NEW got \in Lines(own)
  PROVE  /\ at < Len(script) /\ got.line = script[at + 1] /\ got.line \in Line
         /\ got.own \in Seq(Line) /\ got.input \in Seq(Line)
         /\ Stands(got.own, got.input, at + 1)
         /\ terminal /\ own = <<>> => got.own = <<>>
<1>1. Len(script) \in Nat /\ Len(input) \in Nat /\ Len(own) \in Nat
  BY LenProperties
<1>2. /\ \A i \in 1 .. Len(own) : own[i] = script[at + i]
      /\ \A i \in 1 .. Len(input) : input[i] = script[at + Len(own) + i]
      /\ Len(own) + Len(input) = Len(script) - at
  BY DEF Stands
<1>3. CASE own # <<>>
  <2>1. got = [line |-> Head(own), own |-> Tail(own), input |-> input]
    BY <1>3 DEF Lines
  <2>2. /\ Head(own) = own[1] /\ Tail(own) \in Seq(Line) /\ Len(Tail(own)) = Len(own) - 1
        /\ \A i \in 1 .. Len(Tail(own)) : Tail(own)[i] = own[i + 1]
    BY <1>3, HeadTailProperties
  <2>3. Len(own) >= 1 /\ own[1] \in Line
    <3>1. Len(own) # 0
      BY <1>3, EmptySeq
    <3>2. 1 \in 1 .. Len(own)
      BY <1>1, <3>1
    <3> QED
      BY <1>1, <3>2, ElementOfSeq
  <2> DEFINE back == Tail(own)
  <2>4. got.line = own[1] /\ got.own = back /\ got.input = input
    BY <2>1, <2>2
  <2>5. back \in Seq(Line) /\ Len(back) = Len(own) - 1 /\ \A i \in 1 .. Len(back) : back[i] = own[i + 1]
    BY <2>2
  <2> HIDE DEF back
  <2>6. \A i \in 1 .. Len(back) : back[i] = script[(at + 1) + i]
    <3> TAKE i \in 1 .. Len(back)
    <3>1. i + 1 \in 1 .. Len(own) /\ at + (i + 1) = (at + 1) + i
      BY <1>1, <2>5
    <3>2. own[i + 1] = script[at + (i + 1)]
      BY <1>2, <3>1
    <3> QED
      BY <2>5, <3>1, <3>2
  <2>7. \A i \in 1 .. Len(input) : input[i] = script[(at + 1) + Len(back) + i]
    <3> TAKE i \in 1 .. Len(input)
    <3>1. at + Len(own) + i = (at + 1) + Len(back) + i
      BY <1>1, <2>5
    <3> QED
      BY <1>2, <3>1
  <2>8. Len(back) + Len(input) = Len(script) - (at + 1) /\ at < Len(script)
    BY <1>1, <1>2, <2>3, <2>5
  <2>9. own[1] = script[at + 1]
    BY <1>1, <1>2, <2>3
  <2>10. Stands(back, input, at + 1)
    BY <2>6, <2>7, <2>8 DEF Stands
  <2> QED
    BY <1>3, <2>3, <2>4, <2>5, <2>8, <2>9, <2>10
<1>4. CASE own = <<>>
  <2>1. PICK n \in LinesRead :
          got = [line |-> input[1], own |-> SubSeq(input, 2, n), input |-> SubSeq(input, n + 1, Len(input))]
    BY <1>4 DEF Lines
  <2>2. n \in 1 .. Len(input) /\ (terminal => n = 1)
    BY DEF LinesRead
  <2>3. Len(own) = 0
    BY <1>4, EmptySeq
  <2> DEFINE front == SubSeq(input, 2, n)
             back == SubSeq(input, n + 1, Len(input))
  <2>4. \A i \in 1 .. Len(input) : input[i] \in Line
    BY <1>1, ElementOfSeq
  <2>5. /\ front \in Seq(Line) /\ Len(front) = n - 1
        /\ \A i \in 1 .. n - 1 : front[i] = input[1 + i]
    <3>1. \A i \in 2 .. n : input[i] \in Line
      BY <1>1, <2>2, <2>4
    <3>2. /\ front \in Seq(Line) /\ Len(front) = IF 2 <= n THEN n - 2 + 1 ELSE 0
          /\ \A i \in 1 .. n - 2 + 1 : front[i] = input[2 + i - 1]
      BY <2>2, <3>1, SubSeqProperties
    <3> HIDE DEF front
    <3>3. n - 2 + 1 = n - 1 /\ (~(2 <= n) => n - 1 = 0) /\ \A i \in 1 .. n - 1 : 2 + i - 1 = 1 + i
      BY <1>1, <2>2
    <3> QED
      BY <3>2, <3>3
  <2>6. /\ back \in Seq(Line) /\ Len(back) = Len(input) - n
        /\ \A i \in 1 .. Len(input) - n : back[i] = input[n + i]
    <3>1. n \in 0 .. Len(input)
      BY <1>1, <2>2
    <3> QED
      BY <3>1, SplitAt
  <2>7. got.line = input[1] /\ got.own = front /\ got.input = back
    BY <2>1
  <2>8. terminal => front = <<>>
    <3> HIDE DEF front
    <3>1. terminal => Len(front) = 0
      BY <2>2, <2>5
    <3> QED
      BY <2>5, <3>1, EmptySeq
  <2> HIDE DEF front, back
  <2>9. input[1] = script[at + 1] /\ input[1] \in Line /\ at < Len(script)
    <3>1. 1 \in 1 .. Len(input) /\ at + Len(own) + 1 = at + 1
      BY <1>1, <2>2, <2>3
    <3>2. input[1] = script[at + Len(own) + 1] /\ input[1] \in Line
      BY <1>2, <2>4, <3>1
    <3> QED
      BY <1>1, <1>2, <2>3, <3>1, <3>2
  <2>10. \A i \in 1 .. Len(front) : front[i] = script[(at + 1) + i]
    <3> TAKE i \in 1 .. Len(front)
    <3>1. i \in 1 .. n - 1 /\ 1 + i \in 1 .. Len(input) /\ at + Len(own) + (1 + i) = (at + 1) + i
      BY <1>1, <2>2, <2>3, <2>5
    <3> QED
      BY <1>2, <2>5, <3>1
  <2>11. \A i \in 1 .. Len(back) : back[i] = script[(at + 1) + Len(front) + i]
    <3> TAKE i \in 1 .. Len(back)
    <3>1. /\ i \in 1 .. Len(input) - n /\ n + i \in 1 .. Len(input)
          /\ at + Len(own) + (n + i) = (at + 1) + Len(front) + i
      BY <1>1, <2>2, <2>3, <2>5, <2>6
    <3> QED
      BY <1>2, <2>6, <3>1
  <2>12. Len(front) + Len(back) = Len(script) - (at + 1)
    BY <1>1, <1>2, <2>2, <2>3, <2>5, <2>6
  <2>13. Stands(front, back, at + 1)
    BY <2>10, <2>11, <2>12 DEF Stands
  <2> QED
    BY <2>5, <2>6, <2>7, <2>8, <2>9, <2>13
<1> QED
  BY <1>3, <1>4

-----------------------------------------------------------------------------
(* The invariant. *)

Forked ==
  /\ pc = "waiting" <=> child # "none"
  /\ pc = "key" => option \in {1, 2}
  /\ child = "value" => option = 1 /\ copy = buffer
  /\ child = "exec" => (option = 1 /\ value \in Text) \/ (option = 2 /\ value = NULL)
  /\ child # "exec" => value = NULL
  /\ terminal => buffer = <<>>

(* What the child is about to start. *)
Pending ==
  [program |-> IF option = 1 THEN "cli-write" ELSE "cli-read", key |-> key, value |-> value]

(* What the next line was typed for is what will be made of it, ...        *)
Expects(at) ==
  /\ pc = "key" => Role[at + 1] = "key" /\ script[at] = option
  /\ child = "value" => Role[at + 1] = "value" /\ script[at] = key
  /\ pc # "key" /\ child # "value" => Role[at + 1] = "option"

(* ... and what was read so far has been run, but for the command that is  *)
(* being started.  At the end of the script there may be more.             *)
Counted(at) ==
  \/ at = Len(script) /\ Len(ran) >= Place(at)
  \/ child # "exec" /\ Len(ran) = Place(at)
  \/ /\ child = "exec"
     /\ at \in Typed /\ Len(ran) + 1 = Place(at) /\ Pending = CommandTyped(at)

InOrder(at) ==
  /\ \A i \in Typed : Place(i) <= Len(ran) => ran[Place(i)] = CommandTyped(i)
  /\ at < Len(script) => Len(ran) <= Cardinality(Typed)
  /\ pc # "exited" => Counted(at) /\ (at < Len(script) => Expects(at))

(* The lines before a place have been read, and the others stand in the    *)
(* parent's buffer and in stdin.                                           *)
ReadUpTo(at) ==
  /\ at \in 0 .. Len(script)
  /\ Stands(buffer, input, at)
  /\ Orderly => InOrder(at)

Inv == TypeOK /\ Forked /\ \E at : ReadUpTo(at)

-----------------------------------------------------------------------------
(* Steps. *)

LEMMA LineAhead ==
  ASSUME script \in Seq(Line), NEW at \in 0 .. Len(script), at < Len(script)
  PROVE  /\ at + 1 \in Typed <=> Role[at + 1] = "value" \/ (Role[at + 1] = "key" /\ script[at] = 2)
         /\ Place(at) \in Nat
         /\ Place(at + 1) = IF at + 1 \in Typed THEN Place(at) + 1 ELSE Place(at)
         /\ at + 1 < Len(script) =>
              /\ Role[at + 1] = "option" /\ script[at + 1] \in {1, 2} => Role[at + 2] = "key"
              /\ Role[at + 1] = "option" /\ script[at + 1] \notin {1, 2, 3} => Role[at + 2] = "option"
              /\ Role[at + 1] = "key" /\ script[at] = 1 => Role[at + 2] = "value"
              /\ Role[at + 1] = "key" /\ script[at] # 1 => Role[at + 2] = "option"
              /\ Role[at + 1] = "value" => Role[at + 2] = "option"
<1>1. Len(script) \in Nat /\ DOMAIN script = 1 .. Len(script) /\ at \in Nat
  BY TypedLines
<1>2. Place(at + 1) = IF at + 1 \in Typed THEN Place(at) + 1 ELSE Place(at)
  BY <1>1, Places
<1>3. at + 1 \in Typed <=> Role[at + 1] = "value" \/ (Role[at + 1] = "key" /\ script[at] = 2)
  <2>1. at + 1 \in DOMAIN script /\ (at + 1) - 1 = at
    BY <1>1
  <2> QED
    BY <2>1 DEF Typed
<1>4. ASSUME at + 1 < Len(script)
      PROVE  Role[at + 2] = RoleAfter(Role[at + 1], at + 2)
  <2>1. at + 2 \in 1 .. Len(script) /\ at + 2 # 1 /\ (at + 2) - 1 = at + 1
    BY <1>1, <1>4
  <2>2. Role[at + 2] = IF at + 2 = 1 THEN "option" ELSE RoleAfter(Role[(at + 2) - 1], at + 2)
    BY <1>1, <2>1, RoleUnfolds
  <2> QED
    BY <2>1, <2>2
<1>5. \A before : RoleAfter(before, at + 2) =
        CASE before = "option" /\ script[at + 1] \in {1, 2} -> "key"
          [] before = "key" /\ script[at] = 1 -> "value"
          [] before = "option" /\ script[at + 1] = 3 -> "nothing"
          [] before = "nothing" -> "nothing"
          [] OTHER -> "option"
  <2>1. (at + 2) - 1 = at + 1 /\ (at + 2) - 2 = at
    BY <1>1
  <2> QED
    BY <2>1 DEF RoleAfter
<1>6. Place(at) \in Nat
  BY TypedLines
<1> QED
  BY <1>2, <1>3, <1>4, <1>5, <1>6

(* A step in which nothing is started. *)
LEMMA ReadsOn ==
  ASSUME NEW at, ReadUpTo(at), NEW next \in 0 .. Len(script), at <= next,
         Len(script) \in Nat, Stands(buffer', input', next),
         script' = script, terminal' = terminal, ran' = ran,
         (Orderly /\ InOrder(at) /\ pc' # "exited") =>
           Counted(next)' /\ (next < Len(script) => Expects(next)')
  PROVE  ReadUpTo(next)'
<1>1. /\ Role' = Role /\ Typed' = Typed /\ Orderly' = Orderly
      /\ \A i : Place(i)' = Place(i) /\ CommandTyped(i)' = CommandTyped(i)
  BY SameScript
<1>2. Stands(buffer, input, next)'
  BY DEF Stands
<1>3. ASSUME Orderly
      PROVE  InOrder(next)'
  <2>1. InOrder(at)
    BY <1>3 DEF ReadUpTo
  <2>2. \A i \in Typed' : Place(i)' <= Len(ran') => ran'[Place(i)'] = CommandTyped(i)'
    BY <1>1, <2>1 DEF InOrder
  <2>3. next < Len(script') => Len(ran') <= Cardinality(Typed')
    <3>1. at \in 0 .. Len(script)
      BY DEF ReadUpTo
    <3>2. next < Len(script) => at < Len(script)
      BY <3>1
    <3> QED
      BY <1>1, <2>1, <3>2 DEF InOrder
  <2> QED
    BY <1>3, <2>1, <2>2, <2>3 DEF InOrder
<1> QED
  BY <1>1, <1>2, <1>3 DEF ReadUpTo

(* fgets, of the parent. *)
LEMMA ParentGets ==
  ASSUME TypeOK, Forked, NEW at, ReadUpTo(at), NEW unwritten, NEW got \in Gets(buffer, unwritten)
  PROVE  /\ got.own \in Seq(Line) /\ got.input \in Seq(Line)
         /\ terminal => got.own = <<>>
         /\ \/ /\ got.line \in Line /\ at < Len(script) /\ got.line = script[at + 1]
               /\ at + 1 \in 0 .. Len(script) /\ Stands(got.own, got.input, at + 1)
            \/ /\ got.line \in unwritten /\ at = Len(script)
               /\ at \in 0 .. Len(script) /\ Stands(got.own, got.input, at)
<1>1. /\ script \in Seq(Line) /\ input \in Seq(Line) /\ buffer \in Seq(Line)
      /\ at \in 0 .. Len(script) /\ Stands(buffer, input, at) /\ (terminal => buffer = <<>>)
  BY DEF TypeOK, Forked, ReadUpTo
<1>2. Len(script) \in Nat
  BY <1>1, LenProperties
<1>3. CASE got \in Lines(buffer)
  <2>1. /\ at < Len(script) /\ got.line = script[at + 1] /\ got.line \in Line
        /\ got.own \in Seq(Line) /\ got.input \in Seq(Line)
        /\ Stands(got.own, got.input, at + 1)
        /\ terminal /\ buffer = <<>> => got.own = <<>>
    BY <1>1, <1>3, LineTaken
  <2>2. at + 1 \in 0 .. Len(script)
    BY <1>1, <1>2, <2>1
  <2> QED
    BY <1>1, <2>1, <2>2
<1>4. CASE got \notin Lines(buffer)
  <2>1. /\ buffer = <<>> /\ input = <<>>
        /\ got.line \in unwritten /\ got.own = buffer /\ got.input = input
    BY <1>4 DEF Gets, AtEnd
  <2>2. Len(buffer) = 0 /\ Len(input) = 0
    BY <2>1, EmptySeq
  <2>3. at = Len(script)
    BY <1>1, <1>2, <2>2 DEF Stands
  <2> QED
    BY <1>1, <2>1, <2>3
<1> QED
  BY <1>3, <1>4

LEMMA ReadOptionStep ==
  ASSUME Inv, ReadOption
  PROVE  Inv'
<1>1. PICK at : ReadUpTo(at)
  BY DEF Inv
<1>2. PICK got \in Gets(buffer, Line) :
        option' = Atoi(got.line) /\ buffer' = got.own /\ input' = got.input
  BY DEF ReadOption
<1>3. /\ pc = "menu" /\ script' = script /\ terminal' = terminal /\ copy' = copy /\ child' = child
      /\ key' = key /\ value' = value /\ ran' = ran
      /\ option' \in {1, 2} => pc' = "key"
      /\ option' = 3 => pc' = "exited"
      /\ option' \notin {1, 2, 3} => pc' = "menu"
      /\ TypeOK /\ Forked
  BY DEF ReadOption, Inv
<1>4. child = "none" /\ at \in 0 .. Len(script) /\ script \in Seq(Line) /\ Len(script) \in Nat
  BY <1>1, <1>3, LenProperties DEF Forked, ReadUpTo, TypeOK
<1>5. /\ got.own \in Seq(Line) /\ got.input \in Seq(Line)
      /\ terminal => got.own = <<>>
      /\ \/ /\ got.line \in Line /\ at < Len(script) /\ got.line = script[at + 1]
            /\ at + 1 \in 0 .. Len(script) /\ Stands(got.own, got.input, at + 1)
         \/ /\ got.line \in Line /\ at = Len(script)
            /\ at \in 0 .. Len(script) /\ Stands(got.own, got.input, at)
  BY <1>1, <1>3, ParentGets
<1>6. option' \in 0 .. 3 /\ (option' = got.line \/ (option' = 0 /\ got.line \notin {1, 2, 3}))
  BY <1>2 DEF Atoi
<1>7. TypeOK'
  BY <1>2, <1>3, <1>5, <1>6 DEF TypeOK
<1>8. Forked'
  BY <1>2, <1>3, <1>4, <1>5, <1>6 DEF Forked
<1>9. /\ Role' = Role /\ Typed' = Typed
      /\ \A i : Place(i)' = Place(i) /\ CommandTyped(i)' = CommandTyped(i)
  BY <1>3, SameScript
<1>10. CASE at < Len(script) /\ got.line = script[at + 1]
            /\ at + 1 \in 0 .. Len(script) /\ Stands(got.own, got.input, at + 1)
  <2>1. PICK next : next = at + 1
    OBVIOUS
  <2>2. ASSUME Orderly, InOrder(at), pc' # "exited"
        PROVE  Counted(next)' /\ (next < Len(script) => Expects(next)')
    <3>1. Role[at + 1] = "option"
      BY <1>3, <1>4, <1>10, <2>2 DEF InOrder, Expects
    <3>2. at + 1 \notin Typed /\ Place(at + 1) = Place(at)
      BY <1>4, <1>10, <3>1, LineAhead
    <3>3. Len(ran) = Place(at)
      BY <1>3, <1>4, <1>10, <2>2 DEF InOrder, Counted
    <3>4. Counted(next)'
      BY <1>3, <1>4, <1>9, <2>1, <3>2, <3>3 DEF Counted
    <3>5. ASSUME next < Len(script)
          PROVE  Expects(next)'
      <4>1. next + 1 = at + 2
        BY <1>4, <2>1
      <4>2. CASE option' \in {1, 2}
        <5>1. Role[at + 2] = "key"
          BY <1>4, <1>6, <1>10, <2>1, <3>1, <3>5, <4>2, LineAhead
        <5>2. script'[next] = option' /\ pc' = "key"
          BY <1>3, <1>6, <1>10, <2>1, <4>2
        <5> QED
          BY <1>3, <1>4, <1>9, <4>1, <5>1, <5>2 DEF Expects
      <4>3. CASE option' \notin {1, 2}
        <5>1. script[at + 1] \notin {1, 2, 3} /\ pc' = "menu"
          BY <1>3, <1>6, <1>10, <2>2, <4>3
        <5>2. Role[at + 2] = "option"
          BY <1>4, <1>10, <2>1, <3>1, <3>5, <5>1, LineAhead
        <5> QED
          BY <1>3, <1>4, <1>9, <4>1, <5>1, <5>2 DEF Expects
      <4> QED
        BY <4>2, <4>3
    <3> QED
      BY <3>4, <3>5
  <2>3. at <= next /\ next \in 0 .. Len(script) /\ Stands(buffer', input', next)
    BY <1>2, <1>4, <1>10, <2>1
  <2>4. ReadUpTo(next)'
    BY <1>1, <1>3, <1>4, <2>2, <2>3, ReadsOn
  <2> QED
    BY <1>7, <1>8, <2>4 DEF Inv
<1>11. CASE at = Len(script) /\ at \in 0 .. Len(script) /\ Stands(got.own, got.input, at)
  <2>1. ASSUME Orderly, InOrder(at), pc' # "exited"
        PROVE  Counted(at)' /\ (at < Len(script) => Expects(at)')
    <3>1. Counted(at)
      BY <1>3, <2>1 DEF InOrder
    <3>2. Counted(at)'
      BY <1>3, <1>4, <1>9, <1>11, <3>1 DEF Counted
    <3> QED
      BY <1>4, <1>11, <3>2
  <2>2. at <= at /\ Stands(buffer', input', at)
    BY <1>2, <1>4, <1>11
  <2>3. ReadUpTo(at)'
    BY <1>1, <1>3, <1>4, <2>1, <2>2, ReadsOn
  <2> QED
    BY <1>7, <1>8, <2>3 DEF Inv
<1> QED
  BY <1>5, <1>10, <1>11

LEMMA ForkStep ==
  ASSUME Inv, fork_p
  PROVE  Inv'
<1>1. PICK at : ReadUpTo(at)
  BY DEF Inv
<1>2. PICK got \in Gets(buffer, {Garbage}) :
        /\ key' = got.line /\ buffer' = got.own /\ input' = got.input
        /\ \/ /\ pc' = "waiting"
              /\ child' = IF option = 1 THEN "value" ELSE "exec"
              /\ copy' = got.own
           \/ pc' = "exited" /\ child' = child /\ copy' = copy
  BY DEF fork_p, AfterFork, AsksValue
<1>3. /\ pc = "key" /\ script' = script /\ terminal' = terminal /\ option' = option
      /\ value' = value /\ ran' = ran /\ TypeOK /\ Forked
  BY DEF fork_p, Inv
<1>4. /\ child = "none" /\ option \in {1, 2} /\ value = NULL
      /\ at \in 0 .. Len(script) /\ script \in Seq(Line) /\ Len(script) \in Nat
  BY <1>1, <1>3, LenProperties DEF Forked, ReadUpTo, TypeOK
<1>5. /\ got.own \in Seq(Line) /\ got.input \in Seq(Line)
      /\ terminal => got.own = <<>>
      /\ \/ /\ got.line \in Line /\ at < Len(script) /\ got.line = script[at + 1]
            /\ at + 1 \in 0 .. Len(script) /\ Stands(got.own, got.input, at + 1)
         \/ /\ got.line \in {Garbage} /\ at = Len(script)
            /\ at \in 0 .. Len(script) /\ Stands(got.own, got.input, at)
  BY <1>1, <1>3, ParentGets
<1>6. key' \in Text
  BY <1>2, <1>5 DEF Text
<1>7. TypeOK'
  BY <1>2, <1>3, <1>5, <1>6 DEF TypeOK
<1>8. Forked'
  BY <1>2, <1>3, <1>4, <1>5 DEF Forked
<1>9. /\ Role' = Role /\ Typed' = Typed
      /\ \A i : Place(i)' = Place(i) /\ CommandTyped(i)' = CommandTyped(i)
  BY <1>3, SameScript
<1>10. CASE at < Len(script) /\ got.line = script[at + 1]
            /\ at + 1 \in 0 .. Len(script) /\ Stands(got.own, got.input, at + 1)
  <2>1. PICK next : next = at + 1
    OBVIOUS
  <2>2. ASSUME Orderly, InOrder(at), pc' # "exited"
        PROVE  Counted(next)' /\ (next < Len(script) => Expects(next)')
    <3>1. Role[at + 1] = "key" /\ script[at] = option
      BY <1>3, <1>4, <1>10, <2>2 DEF InOrder, Expects
    <3>2. Len(ran) = Place(at) /\ Place(at) \in Nat
      BY <1>3, <1>4, <1>10, <2>2, LineAhead DEF InOrder, Counted
    <3>3. pc' = "waiting" /\ child' = IF option = 1 THEN "value" ELSE "exec"
      BY <1>2, <2>2
    <3>4. next + 1 = at + 2 /\ script'[next] = key' /\ key' = script[at + 1] /\ (next - 1) = at
      BY <1>2, <1>3, <1>4, <1>10, <2>1
    <3>5. CASE option = 1
      <4>1. at + 1 \notin Typed /\ Place(at + 1) = Place(at)
        BY <1>4, <1>10, <3>1, <3>5, LineAhead
      <4>2. Counted(next)'
        BY <1>3, <1>9, <2>1, <3>2, <3>3, <3>5, <4>1 DEF Counted
      <4>3. ASSUME next < Len(script) PROVE Expects(next)'
        <5>1. Role[at + 2] = "value"
          BY <1>4, <1>10, <2>1, <3>1, <3>5, <4>3, LineAhead
        <5> QED
          BY <1>9, <3>3, <3>4, <3>5, <5>1 DEF Expects
      <4> QED
        BY <4>2, <4>3
    <3>6. CASE option = 2
      <4>1. at + 1 \in Typed /\ Place(at + 1) = Place(at) + 1
        BY <1>4, <1>10, <3>1, <3>6, LineAhead
      <4>2. Pending' = CommandTyped(next)
        BY <1>3, <1>4, <2>1, <3>1, <3>4, <3>6 DEF Pending, CommandTyped
      <4>3. Counted(next)'
        BY <1>3, <1>9, <2>1, <3>2, <3>3, <3>6, <4>1, <4>2 DEF Counted
      <4>4. ASSUME next < Len(script) PROVE Expects(next)'
        <5>1. Role[at + 2] = "option"
          BY <1>4, <1>10, <2>1, <3>1, <3>6, <4>4, LineAhead
        <5> QED
          BY <1>9, <3>3, <3>4, <3>6, <5>1 DEF Expects
      <4> QED
        BY <4>3, <4>4
    <3> QED
      BY <1>4, <3>5, <3>6
  <2>3. at <= next /\ next \in 0 .. Len(script) /\ Stands(buffer', input', next)
    BY <1>2, <1>4, <1>10, <2>1
  <2>4. ReadUpTo(next)'
    BY <1>1, <1>3, <1>4, <2>2, <2>3, ReadsOn
  <2> QED
    BY <1>7, <1>8, <2>4 DEF Inv
<1>11. CASE at = Len(script) /\ at \in 0 .. Len(script) /\ Stands(got.own, got.input, at)
  <2>1. ASSUME Orderly, InOrder(at), pc' # "exited"
        PROVE  Counted(at)' /\ (at < Len(script) => Expects(at)')
    <3>1. Len(ran) >= Place(at)
      <4>1. Place(at) \in Nat
        BY <1>4, TypedLines
      <4> QED
        BY <1>3, <1>4, <2>1, <4>1 DEF InOrder, Counted
    <3>2. Counted(at)'
      BY <1>3, <1>9, <1>11, <3>1 DEF Counted
    <3> QED
      BY <1>4, <1>11, <3>2
  <2>2. at <= at /\ Stands(buffer', input', at)
    BY <1>2, <1>4, <1>11
  <2>3. ReadUpTo(at)'
    BY <1>1, <1>3, <1>4, <2>1, <2>2, ReadsOn
  <2> QED
    BY <1>7, <1>8, <2>3 DEF Inv
<1> QED
  BY <1>5, <1>10, <1>11

(* The parent returns from waitpid; a program ends. *)
LEMMA WaitStep ==
  ASSUME Inv, Wait \/ End
  PROVE  Inv'
<1>1. PICK at : ReadUpTo(at)
  BY DEF Inv
<1>2. /\ script' = script /\ terminal' = terminal /\ input' = input /\ buffer' = buffer /\ copy' = copy
      /\ option' = option /\ key' = key /\ value' = value /\ ran' = ran
      /\ \/ pc = "waiting" /\ child = "ended" /\ pc' = "menu" /\ child' = "none"
         \/ child = "running" /\ pc' = pc /\ child' = "ended"
      /\ TypeOK /\ Forked
  BY DEF Wait, End, Inv
<1>3. at \in 0 .. Len(script) /\ Len(script) \in Nat
  BY <1>1, <1>2, LenProperties DEF ReadUpTo, TypeOK
<1>4. TypeOK' /\ Forked'
  BY <1>2 DEF TypeOK, Forked
<1>5. /\ Role' = Role /\ Typed' = Typed
      /\ \A i : Place(i)' = Place(i) /\ CommandTyped(i)' = CommandTyped(i)
  BY <1>2, SameScript
<1>6. ASSUME Orderly, InOrder(at), pc' # "exited"
      PROVE  Counted(at)' /\ (at < Len(script) => Expects(at)')
  <2>1. pc = "waiting" /\ child \in {"ended", "running"}
    BY <1>2 DEF Forked
  <2>2. Counted(at) /\ (at < Len(script) => Expects(at))
    BY <1>6, <2>1 DEF InOrder
  <2>3. Counted(at)'
    BY <1>2, <1>5, <2>1, <2>2 DEF Counted
  <2>4. at < Len(script) => Expects(at)'
    BY <1>2, <1>5, <2>1, <2>2 DEF Expects
  <2> QED
    BY <2>3, <2>4
<1>7. at <= at /\ Stands(buffer', input', at)
  BY <1>1, <1>2, <1>3 DEF ReadUpTo
<1>8. ReadUpTo(at)'
  BY <1>1, <1>2, <1>3, <1>6, <1>7, ReadsOn
<1> QED
  BY <1>4, <1>8 DEF Inv

(* The child reads the value of a write, from its copy of the buffer first. *)
LEMMA ReadValueStep ==
  ASSUME Inv, ReadValue
  PROVE  Inv'
<1>1. PICK at : ReadUpTo(at)
  BY DEF Inv
<1>2. PICK got \in Gets(copy, {Garbage}) :
        value' = got.line /\ copy' = got.own /\ input' = got.input
  BY DEF ReadValue
<1>3. /\ child = "value" /\ child' = "exec" /\ script' = script /\ terminal' = terminal
      /\ buffer' = buffer /\ pc' = pc /\ option' = option /\ key' = key /\ ran' = ran
      /\ TypeOK /\ Forked
  BY DEF ReadValue, Inv
<1>4. /\ pc = "waiting" /\ option = 1 /\ copy = buffer /\ (terminal => buffer = <<>>)
      /\ at \in 0 .. Len(script) /\ script \in Seq(Line) /\ Len(script) \in Nat
      /\ input \in Seq(Line) /\ buffer \in Seq(Line) /\ Stands(buffer, input, at)
  BY <1>1, <1>3, LenProperties DEF Forked, ReadUpTo, TypeOK
<1>5. /\ got.own \in Seq(Line) /\ got.input \in Seq(Line)
      /\ \/ /\ got.line \in Line /\ at < Len(script) /\ got.line = script[at + 1]
            /\ at + 1 \in 0 .. Len(script) /\ Stands(got.own, got.input, at + 1)
         \/ /\ got.line \in {Garbage} /\ at = Len(script)
            /\ at \in 0 .. Len(script) /\ Stands(got.own, got.input, at)
  BY <1>1, <1>2, <1>3, <1>4, ParentGets
<1>6. value' \in Text
  BY <1>2, <1>5 DEF Text
<1>7. TypeOK'
  BY <1>2, <1>3, <1>5, <1>6 DEF TypeOK
<1>8. Forked'
  BY <1>3, <1>4, <1>6 DEF Forked
<1>9. /\ Role' = Role /\ Typed' = Typed
      /\ \A i : Place(i)' = Place(i) /\ CommandTyped(i)' = CommandTyped(i)
  BY <1>3, SameScript
(* The lines that are left have their places, even if some went into the   *)
(* copy and are lost with it.                                              *)
<1>10. PICK next \in 0 .. Len(script) :
         /\ at <= next /\ Stands(buffer', input', next)
         /\ terminal => \/ next = at + 1 /\ got.line = script[at + 1] /\ at < Len(script)
                        \/ next = at /\ at = Len(script)
         /\ at = Len(script) => next = at
  <2>1. CASE buffer # <<>>
    <3>1. input' = input
      <4>1. got \in Lines(copy)
        BY <1>4, <2>1 DEF Gets, AtEnd
      <4> QED
        BY <1>2, <1>4, <2>1, <4>1 DEF Lines
    <3>2. ~terminal
      BY <1>4, <2>1
    <3> QED
      BY <1>3, <1>4, <3>1, <3>2
  <2>2. CASE buffer = <<>> /\ at = Len(script)
    <3>1. at \in 0 .. Len(script) /\ Stands(got.own, got.input, at)
      BY <1>4, <1>5, <2>2
    <3>2. got.own = <<>>
      <4>1. Len(got.own) = 0
        <5>1. Len(got.own) \in Nat /\ Len(got.input) \in Nat
          BY <1>5, LenProperties
        <5>2. Len(got.own) + Len(got.input) = Len(script) - at
          BY <3>1 DEF Stands
        <5>3. Len(script) - at = 0
          BY <1>4, <2>2
        <5>4. \A m, n \in Nat : m + n = 0 => m = 0
          OBVIOUS
        <5> QED
          BY <5>1, <5>2, <5>3, <5>4
      <4> QED
        BY <1>5, <4>1, EmptySeq
    <3> QED
      BY <1>2, <1>3, <1>4, <2>2, <3>1, <3>2
  <2>3. CASE buffer = <<>> /\ at # Len(script)
    <3>1. /\ at < Len(script) /\ got.line = script[at + 1]
          /\ at + 1 \in 0 .. Len(script) /\ Stands(got.own, got.input, at + 1)
      BY <1>5, <2>3
    <3>2. PICK n, place : n = Len(got.own) /\ place = at + 1 + n
      OBVIOUS
    <3>3. n \in Nat /\ Len(got.input) \in Nat /\ n + Len(got.input) = Len(script) - (at + 1)
      BY <1>5, <3>1, <3>2, LenProperties DEF Stands
    <3>4. place \in 0 .. Len(script) /\ at <= place /\ Len(got.input) = Len(script) - place
      <4>1. at \in Nat /\ place = at + 1 + n
        BY <1>4, <3>2
      <4> QED
        BY <1>4, <3>3, <4>1
    <3>5. Stands(buffer', input', place)
      <4>1. Len(<<>>) = 0 /\ buffer' = <<>> /\ input' = got.input
        BY <1>2, <1>3, <2>3, EmptySeq
      <4>2. \A i \in 1 .. Len(got.input) : got.input[i] = script[place + 0 + i]
        <5> TAKE i \in 1 .. Len(got.input)
        <5>1. place + 0 + i = (at + 1) + n + i
          BY <1>4, <3>2, <3>3
        <5>2. got.input[i] = script[(at + 1) + n + i]
          BY <3>1, <3>2 DEF Stands
        <5> QED
          BY <5>1, <5>2
      <4>3. 0 + Len(got.input) = Len(script) - place
        BY <3>3, <3>4
      <4> QED
        BY <4>1, <4>2, <4>3 DEF Stands
    <3>6. terminal => place = at + 1
      <4>1. terminal => got.own = <<>>
        <5>1. terminal /\ got \in Lines(buffer) => got.own = <<>>
          BY <1>4, <2>3, LineTaken
        <5>2. got \in Lines(buffer)
          <6>1. ~AtEnd(copy)
            <7>1. Len(<<>>) = 0
              BY EmptySeq
            <7> QED
              BY <1>4, <2>3, <7>1 DEF AtEnd, Stands
          <6> QED
            BY <1>4, <6>1 DEF Gets
        <5> QED
          BY <5>1, <5>2
      <4>2. Len(<<>>) = 0
        BY EmptySeq
      <4>3. terminal => n = 0
        BY <3>2, <4>1, <4>2
      <4>4. at \in Nat /\ place = at + 1 + n
        BY <1>4, <3>2
      <4> QED
        BY <4>3, <4>4
    <3> QED
      BY <2>3, <3>1, <3>4, <3>5, <3>6
  <2> QED
    BY <2>1, <2>2, <2>3
<1>11. ASSUME Orderly, InOrder(at), pc' # "exited"
       PROVE  Counted(next)' /\ (next < Len(script) => Expects(next)')
  <2>1. Counted(at) /\ (at < Len(script) => Expects(at)) /\ Place(at) \in Nat
    BY <1>4, <1>11, TypedLines DEF InOrder
  <2>2. CASE at = Len(script)
    <3>1. next = at /\ Len(ran) >= Place(at)
      BY <1>3, <1>10, <2>1, <2>2 DEF Counted
    <3>2. Counted(next)'
      BY <1>3, <1>9, <2>2, <3>1 DEF Counted
    <3> QED
      BY <1>4, <2>2, <3>1, <3>2
  <2>3. CASE at # Len(script)
    <3>1. at < Len(script) /\ Role[at + 1] = "value" /\ script[at] = key
      BY <1>3, <1>4, <2>1, <2>3 DEF Expects
    <3>2. terminal
      <4>1. at + 1 \in DOMAIN script
        BY <1>4, <3>1, TypedLines
      <4> QED
        BY <1>11, <3>1, <4>1 DEF Orderly
    <3>3. next = at + 1 /\ value' = script[at + 1] /\ next - 1 = at /\ next + 1 = at + 2
      BY <1>2, <1>4, <1>10, <2>3, <3>2
    <3>4. at + 1 \in Typed /\ Place(at + 1) = Place(at) + 1
      BY <1>4, <3>1, LineAhead
    <3>5. Len(ran) = Place(at)
      BY <1>3, <2>1, <2>3 DEF Counted
    <3>6. Pending' = CommandTyped(next)
      BY <1>3, <1>4, <3>1, <3>3 DEF Pending, CommandTyped
    <3>7. Counted(next)'
      BY <1>3, <1>9, <3>3, <3>4, <3>5, <3>6 DEF Counted
    <3>8. ASSUME next < Len(script) PROVE Expects(next)'
      <4>1. Role[at + 2] = "option"
        BY <1>4, <3>1, <3>3, <3>8, LineAhead
      <4> QED
        BY <1>3, <1>4, <1>9, <3>3, <4>1 DEF Expects
    <3> QED
      BY <3>7, <3>8
  <2> QED
    BY <2>2, <2>3
<1>12. ReadUpTo(next)'
  BY <1>1, <1>3, <1>4, <1>10, <1>11, ReadsOn
<1> QED
  BY <1>7, <1>8, <1>12 DEF Inv

(* The child becomes another program: the copy of the buffer is gone.      *)
LEMMA ExecStep ==
  ASSUME Inv, Exec
  PROVE  Inv'
<1>1. PICK at : ReadUpTo(at)
  BY DEF Inv
<1>2. /\ child = "exec" /\ child' \in {"running", "ended"} /\ ran' = Append(ran, Pending)
      /\ copy' = <<>> /\ value' = NULL /\ script' = script /\ terminal' = terminal
      /\ input' = input /\ buffer' = buffer /\ pc' = pc /\ option' = option /\ key' = key
      /\ TypeOK /\ Forked
  BY DEF Exec, Pending, Inv
<1>3. /\ pc = "waiting" /\ ran \in Seq(Command)
      /\ at \in 0 .. Len(script) /\ script \in Seq(Line) /\ Len(script) \in Nat
      /\ Stands(buffer, input, at)
  BY <1>1, <1>2, LenProperties DEF Forked, ReadUpTo, TypeOK
<1>4. Pending \in Command
  BY <1>2 DEF Forked, TypeOK, Pending, Command
<1>5. PICK done : done = Len(ran)
  OBVIOUS
<1>6. /\ done \in Nat /\ ran' \in Seq(Command) /\ Len(ran') = done + 1
      /\ \A i \in 1 .. done : ran'[i] = ran[i]
      /\ ran'[done + 1] = Pending
  BY <1>2, <1>3, <1>4, <1>5, AppendProperties, LenProperties
<1>7. TypeOK'
  BY <1>2, <1>6, EmptySeq DEF TypeOK
<1>8. Forked'
  BY <1>2, <1>3 DEF Forked
<1>9. /\ Role' = Role /\ Typed' = Typed /\ Orderly' = Orderly
      /\ \A i : Place(i)' = Place(i) /\ CommandTyped(i)' = CommandTyped(i)
  BY <1>2, SameScript
<1>10. Stands(buffer, input, at)'
  BY <1>2, <1>3 DEF Stands
<1>11. ASSUME Orderly
       PROVE  InOrder(at)'
  <2>1. /\ \A i \in Typed : Place(i) <= done => ran[Place(i)] = CommandTyped(i)
        /\ at < Len(script) => Expects(at)
        /\ Counted(at) /\ Place(at) \in Nat
    BY <1>1, <1>3, <1>5, <1>11, TypedLines DEF ReadUpTo, InOrder
  <2>2. \/ at = Len(script) /\ done >= Place(at)
        \/ at \in Typed /\ done + 1 = Place(at) /\ Pending = CommandTyped(at)
    BY <1>2, <1>5, <2>1 DEF Counted
  <2>3. \A i \in Typed : Place(i) \in Nat /\ Place(i) > 0
    <3>1. \A i \in Typed : i \in Nat /\ i > 0
      BY <1>3, TypedLines
    <3>2. \A j \in Nat : \A i \in Typed : j < i => Place(j) < Place(i)
      BY <1>3, Places
    <3>3. 0 \in Nat /\ Place(0) = 0 /\ \A i \in Typed : Place(i) \in Nat
      BY <1>3, Places, TypedLines
    <3> QED
      BY <3>1, <3>2, <3>3
  <2>4. \A i \in Typed : Place(i) <= done => ran'[Place(i)] = CommandTyped(i)
    <3> TAKE i \in Typed
    <3>1. Place(i) <= done => Place(i) \in 1 .. done
      BY <1>6, <2>3
    <3> QED
      BY <1>6, <2>1, <3>1
  <2>5. \A i \in Typed : Place(i) = done + 1 => ran'[Place(i)] = CommandTyped(i)
    <3> SUFFICES ASSUME NEW i \in Typed, Place(i) = done + 1
                 PROVE  ran'[Place(i)] = CommandTyped(i)
      OBVIOUS
    <3>1. CASE at = Len(script) /\ done >= Place(at)
      <4>1. i \in Nat /\ i <= at /\ at \in Nat
        BY <1>3, <3>1, TypedLines
      <4>2. Place(i) <= Place(at)
        BY <1>3, <4>1, Places
      <4> QED
        BY <1>6, <2>1, <2>3, <3>1, <4>2
    <3>2. CASE at \in Typed /\ done + 1 = Place(at) /\ Pending = CommandTyped(at)
      <4>1. i = at
        BY <1>3, <3>2, PlacesApart
      <4> QED
        BY <1>6, <3>2, <4>1
    <3> QED
      BY <2>2, <3>1, <3>2
  <2>6. \A i \in Typed' : Place(i)' <= Len(ran') => ran'[Place(i)'] = CommandTyped(i)'
    <3>1. \A i \in Typed : Place(i) <= done + 1 => Place(i) <= done \/ Place(i) = done + 1
      BY <1>6, <2>3
    <3> QED
      BY <1>6, <1>9, <2>4, <2>5, <3>1
  <2>7. at < Len(script) => Len(ran') <= Cardinality(Typed)
    <3>1. Place(at) <= Cardinality(Typed)
      BY <1>3, TypedLines
    <3> QED
      BY <1>3, <1>6, <2>2, <3>1
  <2>8. Counted(at)'
    <3>1. CASE at = Len(script) /\ done >= Place(at)
      <4>1. done + 1 >= Place(at)
        BY <1>6, <2>1, <3>1
      <4> QED
        BY <1>2, <1>6, <1>9, <3>1, <4>1 DEF Counted
    <3>2. CASE done + 1 = Place(at)
      BY <1>2, <1>6, <1>9, <3>2 DEF Counted
    <3> QED
      BY <2>2, <3>1, <3>2
  <2>9. at < Len(script) => Expects(at)'
    BY <1>2, <1>3, <1>9, <2>1 DEF Expects
  <2> QED
    BY <1>2, <1>9, <2>6, <2>7, <2>8, <2>9 DEF InOrder
<1>12. ReadUpTo(at)'
  BY <1>2, <1>3, <1>9, <1>10, <1>11 DEF ReadUpTo
<1> QED
  BY <1>7, <1>8, <1>12 DEF Inv

LEMMA InitGivesInv ==
  ASSUME Init
  PROVE  Inv
<1>1. PICK n \in 0 .. MaxLines : script \in [1 .. n -> Line]
  BY DEF Init
<1>2. script \in Seq(Line) /\ Len(script) \in Nat
  <2>1. n \in Nat
    BY InteractiveAssumption
  <2> QED
    BY <1>1, <2>1, SeqDef, LenProperties
<1>3. TypeOK
  BY <1>2, EmptySeq DEF Init, TypeOK, Text
<1>4. Forked
  BY DEF Init, Forked
<1>5. Len(<<>>) = 0
  BY EmptySeq
<1>6. Stands(buffer, input, 0)
  BY <1>2, <1>5 DEF Init, Stands
<1>7. InOrder(0)
  <2>1. Place(0) = 0 /\ ran = <<>> /\ pc = "menu" /\ child = "none"
    BY <1>2, Places DEF Init
  <2>2. \A i \in Typed : ~(Place(i) <= Len(ran))
    <3>1. \A i \in Typed : i \in Nat /\ 0 < i /\ Place(i) \in Nat
      BY <1>2, TypedLines
    <3>2. \A i \in Typed : 0 < i => Place(0) < Place(i)
      BY <1>2, Places
    <3> QED
      BY <1>5, <2>1, <3>1, <3>2
  <2>3. Len(ran) <= Cardinality(Typed)
    <3>1. Cardinality(Typed) \in Nat
      BY <1>2, TypedLines
    <3> QED
      BY <1>5, <2>1, <3>1
  <2>4. Counted(0)
    BY <1>5, <2>1 DEF Counted
  <2>5. 0 < Len(script) => Role[0 + 1] = "option"
    <3>1. 0 < Len(script) => 1 \in 1 .. Len(script) /\ 0 + 1 = 1
      BY <1>2
    <3> QED
      BY <1>2, <3>1, RoleUnfolds
  <2>6. 0 < Len(script) => Expects(0)
    BY <2>1, <2>5 DEF Expects
  <2> QED
    BY <2>2, <2>3, <2>4, <2>6 DEF InOrder
<1>8. ReadUpTo(0)
  BY <1>2, <1>6, <1>7 DEF ReadUpTo
<1> QED
  BY <1>3, <1>4, <1>8 DEF Inv

LEMMA StepKeepsInv ==
  ASSUME Inv, [Next]_vars
  PROVE  Inv'
<1>1. CASE UNCHANGED vars
  <2>1. /\ script' = script /\ terminal' = terminal /\ input' = input /\ buffer' = buffer
        /\ copy' = copy /\ pc' = pc /\ child' = child /\ option' = option /\ key' = key
        /\ value' = value /\ ran' = ran
    BY <1>1 DEF vars
  <2>2. TypeOK' /\ Forked'
    BY <2>1 DEF Inv, TypeOK, Forked
  <2>3. PICK at : ReadUpTo(at)
    BY DEF Inv
  <2>4. at \in 0 .. Len(script) /\ Len(script) \in Nat /\ Stands(buffer', input', at)
    BY <2>1, <2>3, LenProperties DEF ReadUpTo, Inv, TypeOK
  <2>5. /\ Role' = Role /\ Typed' = Typed
        /\ \A i : Place(i)' = Place(i) /\ CommandTyped(i)' = CommandTyped(i)
    BY <2>1, SameScript
  <2>6. (Orderly /\ InOrder(at) /\ pc' # "exited") => Counted(at)' /\ (at < Len(script) => Expects(at)')
    BY <2>1, <2>5 DEF InOrder, Counted, Expects, Pending
  <2>7. ReadUpTo(at)'
    BY <2>1, <2>3, <2>4, <2>6, ReadsOn
  <2> QED
    BY <2>2, <2>7 DEF Inv
<1> QED
  BY <1>1, ReadOptionStep, ForkStep, WaitStep, ReadValueStep, ExecStep DEF Next, Parent, Child

(* What has been read, what is buffered and what is still to come are the  *)
(* script (Inv), whatever the user types, ahead or not.                    *)
THEOREM InvHolds == Spec => []Inv
<1>1. Init => Inv
  BY InitGivesInv
<1>2. Inv /\ [Next]_vars => Inv'
  BY StepKeepsInv
<1> QED
  BY <1>1, <1>2, PTL DEF Spec

(* The variables keep their types: the key of a program is a line or what  *)
(* was in the array, and only cli-write is given a value.                  *)
THEOREM TypeCorrect == Spec => []TypeOK
<1>1. Inv => TypeOK
  BY DEF Inv
<1> QED
  BY <1>1, InvHolds, PTL

(* On a terminal, and on a pipe if no write is asked for, the programs     *)
(* that fork_p starts are those the user typed, in order and with their    *)
(* key and value, and others only after the last line (CommandsAsTyped).   *)
THEOREM RunsAsTyped == Spec => []CommandsAsTyped
<1>1. Inv => CommandsAsTyped
  <2> SUFFICES ASSUME Inv, Orderly
               PROVE  /\ \A i \in Typed : Place(i) <= Len(ran) => ran[Place(i)] = CommandTyped(i)
                      /\ Len(ran) > Cardinality(Typed) => input = <<>> /\ buffer = <<>>
    BY DEF CommandsAsTyped
  <2>1. PICK at : ReadUpTo(at)
    BY DEF Inv
  <2>2. /\ script \in Seq(Line) /\ input \in Seq(Line) /\ buffer \in Seq(Line) /\ ran \in Seq(Command)
        /\ at \in 0 .. Len(script) /\ InOrder(at)
        /\ Len(buffer) + Len(input) = Len(script) - at
    BY <2>1 DEF Inv, TypeOK, ReadUpTo, Stands
  <2>3. /\ Len(script) \in Nat /\ Len(input) \in Nat /\ Len(buffer) \in Nat /\ Len(ran) \in Nat
        /\ Cardinality(Typed) \in Nat
    BY <2>2, LenProperties, TypedLines
  <2>4. ASSUME Len(ran) > Cardinality(Typed)
        PROVE  input = <<>> /\ buffer = <<>>
    <3>1. ~(at < Len(script))
      BY <2>2, <2>3, <2>4 DEF InOrder
    <3>2. Len(input) = 0 /\ Len(buffer) = 0
      BY <2>2, <2>3, <3>1
    <3> QED
      BY <2>2, <3>2, EmptySeq
  <2> QED
    BY <2>2, <2>4 DEF InOrder
<1> QED
  BY <1>1, InvHolds, PTL

=============================================================================
