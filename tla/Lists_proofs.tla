----------------------------- MODULE Lists_proofs ----------------------------
(***************************************************************************)
(* Facts about lists, and the induction they need.  A minimal              *)
(* counterexample takes the place of an induction principle: every set of  *)
(* natural numbers has a smallest element, because the initial segments    *)
(* its elements span are finite sets.                                      *)
(***************************************************************************)
EXTENDS Lists, FiniteSetTheorems, SequenceTheorems, TLAPS

(* No entry is there twice. *)
Distinct(list) == \A i, j \in DOMAIN list : list[i] = list[j] => i = j

-----------------------------------------------------------------------------
(* Induction. *)

(* A set of natural numbers that has an element has a smallest one. *)
LEMMA Smallest ==
  ASSUME NEW T \in SUBSET Nat, T # {}
  PROVE  \E m \in T : \A n \in T : m <= n
<1> DEFINE Spans == {0 .. n : n \in T}
<1>1. \A n \in Nat : 0 .. n \in SUBSET Nat /\ IsFiniteSet(0 .. n)
  BY FS_Interval
<1>2. Spans \subseteq FiniteSubsetsOf(Nat) /\ Spans # {}
  BY <1>1 DEF FiniteSubsetsOf
<1>3. IsWellFoundedOn(StrictSubsetOrdering(Nat), FiniteSubsetsOf(Nat))
  BY FS_StrictSubsetOrderingWellFounded
<1>4. PICK span \in Spans : \A other \in Spans : <<other, span>> \notin StrictSubsetOrdering(Nat)
  <2> HIDE DEF Spans
  <2> QED
    BY <1>2, <1>3, WFMin
<1>5. PICK m \in T : span = 0 .. m
  OBVIOUS
<1>6. ASSUME NEW n \in T, n < m
      PROVE  FALSE
  <2>1. n \in Nat /\ m \in Nat
    OBVIOUS
  <2>2. 0 .. n \in Spans /\ 0 .. n \in SUBSET Nat /\ 0 .. m \in SUBSET Nat
    OBVIOUS
  <2>3. 0 .. n \subseteq 0 .. m /\ m \in 0 .. m /\ m \notin 0 .. n
    BY <2>1, <1>6
  <2>4. <<0 .. n, 0 .. m>> \in StrictSubsetOrdering(Nat)
    BY <2>2, <2>3 DEF StrictSubsetOrdering
  <2> QED
    BY <1>4, <1>5, <2>2, <2>4
<1> QED
  BY <1>6

(* Induction up to a bound, with a set in the place of a predicate. *)
LEMMA InductionUpTo ==
  ASSUME NEW bound \in Nat, NEW T, 0 \in T,
         \A n \in 0 .. bound - 1 : n \in T => n + 1 \in T
  PROVE  \A n \in 0 .. bound : n \in T
<1> SUFFICES ASSUME (0 .. bound) \ T # {}
             PROVE  FALSE
  OBVIOUS
<1> DEFINE Out == (0 .. bound) \ T
<1>1. Out \in SUBSET Nat /\ Out # {}
  OBVIOUS
<1>2. PICK m \in Out : \A n \in Out : m <= n
  <2> HIDE DEF Out
  <2> QED
    BY <1>1, Smallest
<1>3. m # 0 /\ m \in 0 .. bound
  OBVIOUS
<1>4. m - 1 \in 0 .. bound - 1 /\ m - 1 \notin Out
  BY <1>2, <1>3
<1>5. m - 1 \in T
  BY <1>4
<1>6. (m - 1) + 1 \in T
  BY <1>4, <1>5
<1> QED
  BY <1>3, <1>6

-----------------------------------------------------------------------------
(* Only. *)

(* The recursive function in Only exists: its equation can be solved up to *)
(* every length.                                                           *)
LEMMA OnlyExists ==
  ASSUME NEW S, NEW list \in Seq(S), NEW kept
  PROVE  \E only : only = [n \in 0 .. Len(list) |->
           IF n = 0 THEN <<>>
           ELSE IF list[n] \in kept THEN Append(only[n - 1], list[n])
           ELSE only[n - 1]]
<1> DEFINE Step(only, n) == IF n = 0 THEN <<>>
                            ELSE IF list[n] \in kept THEN Append(only[n - 1], list[n])
                            ELSE only[n - 1]
           Solves(only, length) == only = [n \in 0 .. length |-> Step(only, n)]
           Solved == {length \in 0 .. Len(list) : \E only : Solves(only, length)}
<1>1. Len(list) \in Nat
  BY LenProperties
<1>2. 0 \in Solved
  <2>1. Solves([n \in 0 .. 0 |-> <<>>], 0)
    OBVIOUS
  <2> HIDE DEF Solves
  <2> QED
    BY <1>1, <2>1
<1>3. ASSUME NEW length \in 0 .. Len(list) - 1, length \in Solved
      PROVE  length + 1 \in Solved
  <2>1. PICK only : Solves(only, length)
    BY <1>3
  <2> DEFINE longer == [n \in 0 .. length + 1 |->
                          IF n = length + 1 THEN Step(only, n) ELSE only[n]]
  <2>2. length \in Nat /\ length + 1 \in 0 .. Len(list)
    BY <1>1
  <2>3. \A n \in 0 .. length : longer[n] = only[n] /\ only[n] = Step(only, n)
    <3> HIDE DEF Step
    <3>1. \A n \in 0 .. length : n \in 0 .. length + 1 /\ n # length + 1
      BY <2>2
    <3>2. \A n \in 0 .. length : longer[n] = only[n]
      BY <3>1
    <3>3. \A n \in 0 .. length : only[n] = Step(only, n)
      BY <2>1
    <3> QED
      BY <3>2, <3>3
  <2>4. longer[length + 1] = Step(only, length + 1)
    <3> HIDE DEF Step
    <3> QED
      BY <2>2
  <2>5. \A n \in 0 .. length + 1 : longer[n] = Step(longer, n)
    <3> TAKE n \in 0 .. length + 1
    <3>1. n = 0 \/ n - 1 \in 0 .. length
      BY <2>2
    <3>2. Step(longer, n) = Step(only, n)
      <4> HIDE DEF longer
      <4> QED
        BY <3>1, <2>3
    <3>3. n = length + 1 \/ n \in 0 .. length
      BY <2>2
    <3> HIDE DEF longer, Step
    <3> QED
      BY <3>2, <3>3, <2>3, <2>4
  <2>6. Solves(longer, length + 1)
    <3> HIDE DEF Step
    <3> QED
      BY <2>5
  <2> QED
    BY <2>2, <2>6
<1>4. Len(list) \in Solved
  <2> HIDE DEF Solved
  <2>1. \A n \in 0 .. Len(list) - 1 : n \in Solved => n + 1 \in Solved
    BY <1>3
  <2>2. \A n \in 0 .. Len(list) : n \in Solved
    BY <1>1, <1>2, <2>1, InductionUpTo
  <2> QED
    BY <1>1, <2>2
<1> QED
  BY <1>4

(* What Only leaves is a list of the entries that are in the set, each as  *)
(* often as before.                                                        *)
LEMMA OnlyProperties ==
  ASSUME NEW S, NEW list \in Seq(S), NEW kept
  PROVE  /\ Only(list, kept) \in Seq(S \cap kept)
         /\ Members(Only(list, kept)) = Members(list) \cap kept
         /\ Distinct(list) => Distinct(Only(list, kept))
<1> DEFINE Solves(f) == f = [n \in 0 .. Len(list) |->
             IF n = 0 THEN <<>>
             ELSE IF list[n] \in kept THEN Append(f[n - 1], list[n])
             ELSE f[n - 1]]
           only == CHOOSE f : Solves(f)
           Right(n) ==
             /\ only[n] \in Seq(S \cap kept)
             /\ \A i \in DOMAIN only[n] : \E j \in 1 .. n : only[n][i] = list[j]
             /\ \A j \in 1 .. n : list[j] \in kept => \E i \in DOMAIN only[n] : only[n][i] = list[j]
             /\ Distinct(list) => Distinct(only[n])
           Rights == {n \in 0 .. Len(list) : Right(n)}
<1>1. Len(list) \in Nat /\ DOMAIN list = 1 .. Len(list)
  BY LenProperties
<1>2. \A n \in 1 .. Len(list) : list[n] \in S
  BY ElementOfSeq
<1>3. Only(list, kept) = only[Len(list)]
  BY DEF Only
<1>4. Solves(only)
  <2>1. \E f : Solves(f)
    BY OnlyExists
  <2> HIDE DEF Solves
  <2> QED
    BY <2>1
<1> HIDE DEF only
<1>5. only[0] = <<>>
  BY <1>1, <1>4
<1>6. \A n \in 0 .. Len(list) - 1 :
        only[n + 1] = IF list[n + 1] \in kept THEN Append(only[n], list[n + 1]) ELSE only[n]
  <2> TAKE n \in 0 .. Len(list) - 1
  <2>1. n + 1 \in 0 .. Len(list) /\ n + 1 # 0 /\ (n + 1) - 1 = n
    BY <1>1
  <2> QED
    BY <1>4, <2>1
<1>7. 0 \in Rights
  <2>1. only[0] \in Seq(S \cap kept) /\ DOMAIN only[0] = {}
    BY <1>5
  <2>2. Right(0)
    BY <2>1 DEF Distinct
  <2> QED
    BY <1>1, <2>2
<1>8. \A n \in 0 .. Len(list) - 1 : n \in Rights => n + 1 \in Rights
  <2> SUFFICES ASSUME NEW n \in 0 .. Len(list) - 1, Right(n)
               PROVE  Right(n + 1)
    <3>1. \A n \in 0 .. Len(list) - 1 : n + 1 \in 0 .. Len(list)
      BY <1>1
    <3> HIDE DEF Right
    <3> QED
      BY <3>1
  <2>1. n \in Nat /\ n + 1 \in 1 .. Len(list)
    BY <1>1
  <2>2. CASE list[n + 1] \notin kept
    <3>1. only[n + 1] = only[n]
      BY <1>6, <2>2
    <3>2. \A j \in 1 .. n + 1 : list[j] \in kept => j \in 1 .. n
      BY <2>1, <2>2
    <3>3. \A j \in 1 .. n : j \in 1 .. n + 1
      BY <2>1
    <3> QED
      BY <3>1, <3>2, <3>3
  <2>3. CASE list[n + 1] \in kept
    <3>1. only[n + 1] = Append(only[n], list[n + 1])
      BY <1>6, <2>3
    <3>2. list[n + 1] \in S \cap kept
      BY <1>2, <2>1, <2>3
    <3> DEFINE short == only[n]
               long == only[n + 1]
    <3>3. short \in Seq(S \cap kept) /\ Len(short) \in Nat /\ DOMAIN short = 1 .. Len(short)
      BY LenProperties
    <3>4. /\ long \in Seq(S \cap kept)
          /\ Len(long) = Len(short) + 1
          /\ \A i \in 1 .. Len(short) : long[i] = short[i]
          /\ long[Len(short) + 1] = list[n + 1]
      <4> HIDE DEF short
      <4> QED
        BY <3>1, <3>2, <3>3, AppendProperties DEF short
    <3>5. DOMAIN long = 1 .. Len(short) + 1
      BY <3>4, LenProperties
    <3>6. \A i \in DOMAIN short : \E j \in 1 .. n : short[i] = list[j]
      OBVIOUS
    <3>7. \A j \in 1 .. n : list[j] \in kept => \E i \in DOMAIN short : short[i] = list[j]
      OBVIOUS
    <3>8. Distinct(list) => Distinct(short)
      OBVIOUS
    <3> HIDE DEF short, long
    <3>9. \A i \in DOMAIN long : \E j \in 1 .. n + 1 : long[i] = list[j]
      <4> TAKE i \in DOMAIN long
      <4>1. CASE i = Len(short) + 1
        BY <4>1, <3>4, <2>1
      <4>2. CASE i \in DOMAIN short
        <5>1. PICK j \in 1 .. n : short[i] = list[j]
          BY <4>2, <3>6
        <5>2. j \in 1 .. n + 1 /\ long[i] = list[j]
          BY <5>1, <4>2, <3>3, <3>4, <2>1
        <5> QED
          BY <5>2
      <4> QED
        BY <4>1, <4>2, <3>3, <3>5
    <3>10. \A j \in 1 .. n + 1 : list[j] \in kept => \E i \in DOMAIN long : long[i] = list[j]
      <4> TAKE j \in 1 .. n + 1
      <4> HAVE list[j] \in kept
      <4>1. CASE j = n + 1
        BY <4>1, <3>3, <3>4, <3>5
      <4>2. CASE j \in 1 .. n
        <5>1. PICK i \in DOMAIN short : short[i] = list[j]
          BY <4>2, <3>7
        <5>2. i \in DOMAIN long /\ long[i] = list[j]
          BY <5>1, <3>3, <3>4, <3>5
        <5> QED
          BY <5>2
      <4> QED
        BY <4>1, <4>2, <2>1
    <3>11. Distinct(list) => Distinct(long)
      <4> SUFFICES ASSUME Distinct(list), NEW i \in DOMAIN long, NEW k \in DOMAIN long,
                          long[i] = long[k], i < k
                   PROVE  FALSE
        BY <3>3, <3>5 DEF Distinct
      <4>1. i \in DOMAIN short /\ long[i] = short[i]
        BY <3>3, <3>4, <3>5
      <4>2. CASE k \in DOMAIN short
        <5>1. short[i] = short[k]
          BY <4>1, <4>2, <3>3, <3>4
        <5>2. i # k
          BY <3>3, <3>5
        <5> QED
          BY <5>1, <5>2, <4>1, <4>2, <3>8 DEF Distinct
      <4>3. CASE k = Len(short) + 1
        <5>1. PICK j \in 1 .. n : short[i] = list[j]
          BY <4>1, <3>6
        <5>2. list[j] = list[n + 1]
          BY <5>1, <4>1, <4>3, <3>4
        <5>3. j # n + 1 /\ j \in DOMAIN list /\ n + 1 \in DOMAIN list
          BY <2>1, <1>1
        <5> QED
          BY <5>2, <5>3 DEF Distinct
      <4> QED
        BY <4>2, <4>3, <3>3, <3>5
    <3> QED
      BY <3>4, <3>9, <3>10, <3>11 DEF long
  <2> QED
    BY <2>2, <2>3
<1>9. Right(Len(list))
  <2>1. \A n \in 0 .. Len(list) : n \in Rights
    <3> HIDE DEF Rights
    <3> QED
      BY <1>1, <1>7, <1>8, InductionUpTo
  <2> QED
    BY <1>1, <2>1
<1>10. Members(only[Len(list)]) = Members(list) \cap kept
  <2>1. \A i \in DOMAIN only[Len(list)] : only[Len(list)][i] \in kept
    BY <1>9, LenProperties
  <2> QED
    BY <2>1, <1>1, <1>9 DEF Members
<1> QED
  BY <1>3, <1>9, <1>10

-----------------------------------------------------------------------------
(* Announce, Remaining, and the rest of a list. *)

LEMMA AnnounceProperties ==
  ASSUME NEW S, NEW list \in Seq(S), NEW fd \in S
  PROVE  /\ Announce(list, fd) \in Seq(S)
         /\ Members(Announce(list, fd)) = Members(list) \cup {fd}
         /\ Distinct(list) => Distinct(Announce(list, fd))
<1>1. CASE fd \in Members(list)
  BY <1>1 DEF Announce
<1>2. CASE fd \notin Members(list)
  <2> DEFINE longer == Append(list, fd)
  <2>1. Announce(list, fd) = longer
    BY <1>2 DEF Announce
  <2>2. Len(list) \in Nat /\ DOMAIN list = 1 .. Len(list)
    BY LenProperties
  <2>3. /\ longer \in Seq(S)
        /\ Len(longer) = Len(list) + 1
        /\ \A i \in 1 .. Len(list) : longer[i] = list[i]
        /\ longer[Len(list) + 1] = fd
    BY AppendProperties
  <2> HIDE DEF longer
  <2>4. DOMAIN longer = 1 .. Len(list) + 1
    BY <2>3, LenProperties
  <2>5. \A i \in DOMAIN longer : i \in DOMAIN list \/ i = Len(list) + 1
    BY <2>2, <2>4
  <2>6. Members(longer) = Members(list) \cup {fd}
    <3>1. \A i \in DOMAIN longer : longer[i] \in Members(list) \cup {fd}
      BY <2>2, <2>3, <2>5 DEF Members
    <3>2. fd \in Members(longer)
      BY <2>2, <2>3, <2>4 DEF Members
    <3>3. \A i \in DOMAIN list : list[i] = longer[i] /\ i \in DOMAIN longer
      BY <2>2, <2>3, <2>4
    <3> QED
      BY <3>1, <3>2, <3>3 DEF Members
  <2>7. ASSUME Distinct(list), NEW i \in DOMAIN longer, NEW j \in DOMAIN longer,
               longer[i] = longer[j]
        PROVE  i = j
    <3>1. \A k \in DOMAIN list : longer[k] = list[k] /\ list[k] # fd
      BY <1>2, <2>2, <2>3 DEF Members
    <3> QED
      BY <2>3, <2>5, <2>7, <3>1 DEF Distinct
  <2> QED
    BY <2>1, <2>3, <2>6, <2>7 DEF Distinct
<1> QED
  BY <1>1, <1>2

(* What epoll keeps, and what it has taken. *)
LEMMA RemainingProperties ==
  ASSUME NEW S, NEW list \in Seq(S), NEW n \in 0 .. Len(list)
  PROVE  /\ Remaining(list, n) \in Seq(S)
         /\ Members(list) = Members(Remaining(list, n)) \cup {list[i] : i \in 1 .. n}
         /\ Distinct(list) => Distinct(Remaining(list, n))
<1> DEFINE rest == Remaining(list, n)
<1>1. Len(list) \in Nat /\ DOMAIN list = 1 .. Len(list) /\ n \in Nat /\ n <= Len(list)
  BY LenProperties
<1>2. \A i \in 1 .. Len(list) : list[i] \in S
  BY ElementOfSeq
<1>3. /\ rest \in Seq(S)
      /\ Len(rest) = Len(list) - n
      /\ \A i \in 1 .. Len(list) - n : rest[i] = list[n + i]
  <2>1. \A i \in n + 1 .. Len(list) : list[i] \in S
    BY <1>1, <1>2
  <2>2. /\ SubSeq(list, n + 1, Len(list)) \in Seq(S)
        /\ Len(SubSeq(list, n + 1, Len(list))) =
             IF n + 1 <= Len(list) THEN Len(list) - (n + 1) + 1 ELSE 0
        /\ \A i \in 1 .. Len(list) - (n + 1) + 1 :
             SubSeq(list, n + 1, Len(list))[i] = list[n + 1 + i - 1]
    BY <1>1, <2>1, SubSeqProperties
  <2>3. Len(SubSeq(list, n + 1, Len(list))) = Len(list) - n
    <3>1. CASE n + 1 <= Len(list)
      BY <1>1, <2>2, <3>1
    <3>2. CASE ~(n + 1 <= Len(list))
      <4>1. \A l \in Nat : n <= l /\ ~(n + 1 <= l) => n = l
        BY <1>1
      <4>2. n = Len(list)
        BY <1>1, <3>2, <4>1
      <4> QED
        BY <1>1, <2>2, <3>2, <4>2
    <3> QED
      BY <3>1, <3>2
  <2>4. \A i \in 1 .. Len(list) - n : n + 1 + i - 1 = n + i /\ i \in 1 .. Len(list) - (n + 1) + 1
    BY <1>1
  <2> QED
    BY <2>2, <2>3, <2>4 DEF Remaining
<1> HIDE DEF rest
<1>4. DOMAIN rest = 1 .. Len(list) - n
  BY <1>3, LenProperties
<1>5. Members(list) = Members(rest) \cup {list[i] : i \in 1 .. n}
  <2>1. \A i \in DOMAIN rest : rest[i] = list[n + i] /\ n + i \in DOMAIN list
    BY <1>1, <1>3, <1>4
  <2>2. \A i \in DOMAIN list : i \in 1 .. n \/ (i - n \in DOMAIN rest /\ list[i] = rest[i - n])
    BY <1>1, <1>3, <1>4
  <2>3. \A i \in 1 .. n : i \in DOMAIN list
    BY <1>1
  <2> QED
    BY <2>1, <2>2, <2>3 DEF Members
<1>6. Distinct(list) => Distinct(rest)
  <2>1. \A i \in DOMAIN rest : i \in Int /\ rest[i] = list[n + i] /\ n + i \in DOMAIN list
    BY <1>1, <1>3, <1>4
  <2>2. \A i, j \in DOMAIN rest : n + i = n + j => i = j
    BY <1>1, <2>1
  <2> QED
    BY <2>1, <2>2 DEF Distinct
<1> QED
  BY <1>3, <1>5, <1>6 DEF rest

(* Every place of the rest of a list is the next place of the list. *)
LEMMA TailProperties ==
  ASSUME NEW S, NEW list \in Seq(S), list # <<>>
  PROVE  /\ Tail(list) \in Seq(S)
         /\ Head(list) = list[1] /\ 1 \in DOMAIN list
         /\ \A i \in DOMAIN Tail(list) :
              i \in Nat /\ i + 1 \in DOMAIN list /\ i + 1 # 1 /\ Tail(list)[i] = list[i + 1]
         /\ \A i \in DOMAIN list : i = 1 \/ (i - 1 \in DOMAIN Tail(list) /\ Tail(list)[i - 1] = list[i])
<1>1. Len(list) \in Nat \ {0} /\ DOMAIN list = 1 .. Len(list)
  BY LenProperties, EmptySeq
<1>2. /\ Tail(list) \in Seq(S)
      /\ Len(Tail(list)) = Len(list) - 1
      /\ \A i \in 1 .. Len(Tail(list)) : Tail(list)[i] = list[i + 1]
  BY HeadTailProperties
<1>3. DOMAIN Tail(list) = 1 .. Len(list) - 1
  BY <1>2, LenProperties
<1> QED
  BY <1>1, <1>2, <1>3

-----------------------------------------------------------------------------
(* Lists that are cut in two and put together again. *)

(* The entries of two lists that are put together. *)
LEMMA EntriesOfBoth ==
  ASSUME NEW S, NEW s \in Seq(S), NEW t \in Seq(S)
  PROVE  /\ s \o t \in Seq(S) /\ Len(s \o t) = Len(s) + Len(t)
         /\ Len(s) \in Nat /\ Len(t) \in Nat
         /\ \A i \in 1 .. Len(s) : (s \o t)[i] = s[i]
         /\ \A i \in 1 .. Len(t) : (s \o t)[Len(s) + i] = t[i]
<1> DEFINE both == s \o t
<1>1. /\ both \in Seq(S) /\ Len(both) = Len(s) + Len(t)
      /\ \A i \in 1 .. Len(s) + Len(t) :
           both[i] = IF i <= Len(s) THEN s[i] ELSE t[i - Len(s)]
  BY ConcatProperties
<1>2. Len(s) \in Nat /\ Len(t) \in Nat
  BY LenProperties
<1> HIDE DEF both
<1>3. ASSUME NEW i \in 1 .. Len(s) PROVE both[i] = s[i]
  BY <1>1, <1>2
<1>4. ASSUME NEW i \in 1 .. Len(t) PROVE both[Len(s) + i] = t[i]
  <2>1. Len(s) + i \in 1 .. Len(s) + Len(t) /\ ~(Len(s) + i <= Len(s)) /\ (Len(s) + i) - Len(s) = i
    BY <1>2
  <2> QED
    BY <1>1, <2>1
<1> QED
  BY <1>1, <1>2, <1>3, <1>4 DEF both

LEMMA SplitAt ==
  ASSUME NEW S, NEW list \in Seq(S), NEW n \in 0 .. Len(list)
  PROVE  LET front == SubSeq(list, 1, n)
             back == SubSeq(list, n + 1, Len(list))
         IN  /\ front \in Seq(S) /\ Len(front) = n
             /\ back \in Seq(S) /\ Len(back) = Len(list) - n
             /\ \A i \in 1 .. n : front[i] = list[i]
             /\ \A i \in 1 .. Len(list) - n : back[i] = list[n + i]
             /\ front \o back = list
<1> DEFINE front == SubSeq(list, 1, n)
           back == SubSeq(list, n + 1, Len(list))
<1>1. Len(list) \in Nat /\ n \in Nat /\ n <= Len(list) /\ \A i \in 1 .. Len(list) : list[i] \in S
  BY LenProperties, ElementOfSeq
<1>2. front \in Seq(S) /\ Len(front) = n /\ \A i \in 1 .. n : front[i] = list[i]
  <2>1. \A i \in 1 .. n : list[i] \in S
    BY <1>1
  <2> QED
    BY <1>1, <2>1, SubSeqProperties
<1>3. /\ back \in Seq(S) /\ Len(back) = Len(list) - n
      /\ \A i \in 1 .. Len(list) - n : back[i] = list[n + i]
  <2>1. \A i \in n + 1 .. Len(list) : list[i] \in S
    BY <1>1
  <2>2. /\ back \in Seq(S)
        /\ Len(back) = IF n + 1 <= Len(list) THEN Len(list) - (n + 1) + 1 ELSE 0
        /\ \A i \in 1 .. Len(list) - (n + 1) + 1 : back[i] = list[(n + 1) + i - 1]
    BY <1>1, <2>1, SubSeqProperties
  <2> HIDE DEF back
  <2> QED
    BY <1>1, <2>2
<1> HIDE DEF front, back
<1>4. front \o back = list
  <2>1. /\ front \o back \in Seq(S) /\ Len(front \o back) = Len(list)
        /\ \A i \in 1 .. Len(list) :
             (front \o back)[i] = IF i <= n THEN front[i] ELSE back[i - n]
    BY <1>1, <1>2, <1>3, ConcatProperties
  <2>2. \A i \in 1 .. Len(list) : (front \o back)[i] = list[i]
    <3> TAKE i \in 1 .. Len(list)
    <3>1. CASE i <= n
      BY <1>1, <1>2, <2>1, <3>1
    <3>2. CASE ~(i <= n)
      <4>1. i - n \in 1 .. Len(list) - n /\ n + (i - n) = i
        BY <1>1, <3>2
      <4> QED
        BY <1>1, <1>3, <2>1, <3>2, <4>1
    <3> QED
      BY <3>1, <3>2
  <2> QED
    BY <2>1, <2>2, SeqEqual
<1> QED
  BY <1>2, <1>3, <1>4 DEF front, back

(* Of two ways to cut a list the shorter front is the beginning of the     *)
(* longer one.                                                             *)
LEMMA TakeFront ==
  ASSUME NEW S, NEW near \in Seq(S), NEW far \in Seq(S), NEW front \in Seq(S), NEW back \in Seq(S),
         near \o far = front \o back, Len(front) <= Len(near)
  PROVE  /\ SubSeq(near, 1, Len(front)) = front
         /\ SubSeq(near, Len(front) + 1, Len(near)) \in Seq(S)
         /\ SubSeq(near, Len(front) + 1, Len(near)) \o far = back
         /\ \A i \in 1 .. Len(front) : near[i] = front[i]
<1> DEFINE first == SubSeq(near, 1, Len(front))
           rest == SubSeq(near, Len(front) + 1, Len(near))
<1>1. Len(near) \in Nat /\ Len(front) \in Nat /\ Len(far) \in Nat /\ Len(back) \in Nat
  BY LenProperties
<1>2. /\ first \in Seq(S) /\ Len(first) = Len(front)
      /\ rest \in Seq(S) /\ first \o rest = near
      /\ \A i \in 1 .. Len(front) : first[i] = near[i]
  <2>1. Len(front) \in 0 .. Len(near)
    BY <1>1
  <2> QED
    BY <2>1, SplitAt
<1> HIDE DEF first, rest
<1>3. \A i \in 1 .. Len(front) : near[i] = front[i]
  <2>1. \A i \in 1 .. Len(near) + Len(far) :
          (near \o far)[i] = IF i <= Len(near) THEN near[i] ELSE far[i - Len(near)]
    BY ConcatProperties
  <2>2. \A i \in 1 .. Len(front) + Len(back) :
          (front \o back)[i] = IF i <= Len(front) THEN front[i] ELSE back[i - Len(front)]
    BY ConcatProperties
  <2>3. \A i \in 1 .. Len(front) : (near \o far)[i] = near[i]
    BY <1>1, <2>1
  <2>4. \A i \in 1 .. Len(front) : (front \o back)[i] = front[i]
    BY <1>1, <2>2
  <2> QED
    BY <2>3, <2>4
<1>4. first = front
  BY <1>2, <1>3, SeqEqual
<1>5. front \o (rest \o far) = front \o back
  <2>1. (front \o rest) \o far = front \o (rest \o far)
    <3>1. front \in Seq(S) /\ rest \in Seq(S) /\ far \in Seq(S)
      BY <1>2
    <3> QED
      BY ONLY <3>1
  <2> QED
    BY <1>2, <1>4, <2>1
<1>6. rest \o far \in Seq(S)
  BY <1>2, ConcatProperties
<1>7. rest \o far = back
  BY <1>5, <1>6, ConcatSimplifications
<1> QED
  BY <1>2, <1>3, <1>4, <1>7 DEF first, rest
=============================================================================
