-------------------------- MODULE KnowNothing_proofs -------------------------
(***************************************************************************)
(* Sizes of the protocol, written by one program and read by another, for  *)
(* every size that four bytes can hold.                                    *)
(***************************************************************************)
EXTENDS KnowNothing, SequenceTheorems, TLAPS

(* Brackets may be moved.  The provers find an instance of a law of \o     *)
(* under a name that they do not find in the equation.                     *)
Brackets(a, b, c) ==
  a \in Seq(Byte) /\ b \in Seq(Byte) /\ c \in Seq(Byte) => (a \o b) \o c = a \o (b \o c)

LEMMA Associative == \A a, b, c : Brackets(a, b, c)
<1> SUFFICES ASSUME NEW a \in Seq(Byte), NEW b \in Seq(Byte), NEW c \in Seq(Byte)
             PROVE  (a \o b) \o c = a \o (b \o c)
  BY DEF Brackets
<1>1. a \in Seq(Byte) /\ b \in Seq(Byte) /\ c \in Seq(Byte)
  OBVIOUS
<1> QED
  BY ONLY <1>1

LEMMA FourBytes ==
  ASSUME NEW n \in Nat
  PROVE  /\ Serialize4(n) \in Seq(Byte)
         /\ Len(Serialize4(n)) = 4
<1>1. /\ n % 256 \in Byte
      /\ (n \div 256) % 256 \in Byte
      /\ (n \div 65536) % 256 \in Byte
      /\ (n \div 16777216) % 256 \in Byte
  BY SMT DEF Byte
<1> QED BY <1>1, SMT DEF Serialize4

(* The eight bits that push_back keeps of n, n >> 8, n >> 16 and n >> 24   *)
(* are what get_integer4 and read_response put together again: also beyond *)
(* 2^8, 2^16, 2^24 and 2^31 no size is taken for another.                  *)
THEOREM SizesSurvive ==
  ASSUME NEW n \in Nat, n < 4294967296
  PROVE  Deserialize4(Serialize4(n)) = n
<1> DEFINE b1 == n % 256
           b2 == (n \div 256) % 256
           b3 == (n \div 65536) % 256
           b4 == (n \div 16777216) % 256
<1>1. n = 256 * (n \div 256) + b1
  BY SMT
<1>2. n \div 256 = 256 * (n \div 65536) + b2
  BY SMT
<1>3. n \div 65536 = 256 * (n \div 16777216) + b3
  BY SMT
<1>4. n \div 16777216 = b4
  BY SMT
<1>5. b1 + 256 * b2 + 65536 * b3 + 16777216 * b4 = n
  BY <1>1, <1>2, <1>3, <1>4, SMT
<1>6. Serialize4(n) = <<b1, b2, b3, b4>>
  BY SMT DEF Serialize4
<1>7. Deserialize4(Serialize4(n)) = b1 + 256 * b2 + 65536 * b3 + 16777216 * b4
  <2> HIDE DEF b1, b2, b3, b4
  <2> QED BY <1>6, SMT DEF Deserialize4
<1> QED BY <1>5, <1>7, SMT

LEMMA SizesFit ==
  ASSUME NEW content \in Seq(Byte), SizeFits(content)
  PROVE  Deserialize4(Serialize4(Len(content))) = Len(content)
<1>1. Len(content) \in Nat
  BY LenProperties
<1>2. Len(content) < 4294967296
  BY <1>1, SMT DEF SizeFits
<1> QED
  BY <1>1, <1>2, SizesSurvive, SMT

LEMMA MessageBytes ==
  ASSUME NEW content \in Seq(Byte)
  PROVE  /\ Message(content) \in Seq(Byte)
         /\ Serialize4(Len(content)) \in Seq(Byte) /\ Len(Serialize4(Len(content))) = 4
<1>1. Serialize4(Len(content)) \in Seq(Byte) /\ Len(Serialize4(Len(content))) = 4
  BY LenProperties, FourBytes
<1> QED
  BY <1>1, ConcatProperties DEF Message

(* What read_response takes first of the answer to a read. *)
HeaderOf(value) == SubSeq(SuccessHeader \o Record(value), 1, HeaderSize)

LEMMA HeaderBytes ==
  ASSUME NEW value \in Seq(Byte)
  PROVE  /\ HeaderOf(value)[2] = 2
         /\ HeaderOf(value)[7] = OK
         /\ \A i \in 1 .. 4 : SubSeq(HeaderOf(value), 8, 11)[i] = Serialize4(Len(value))[i]
<1> DEFINE size == Serialize4(Len(value))
           record == Record(value)
           answer == SuccessHeader \o record
<1>1. size \in Seq(Byte) /\ Len(size) = 4 /\ Len(value) \in Nat
  BY FourBytes, LenProperties, SMT
<1>2. record = size \o value
  BY SMT DEF Record, Message
<1>3. /\ SuccessHeader \in Seq(Byte)
      /\ Len(SuccessHeader) = 7
      /\ SuccessHeader[2] = 2
      /\ SuccessHeader[7] = OK
  BY SMT DEF SuccessHeader, Byte, V1, OK
<1> HIDE DEF size, record
<1>4. /\ record \in Seq(Byte)
      /\ Len(record) = 4 + Len(value)
      /\ \A i \in 1 .. 4 : record[i] = size[i]
  <2>1. /\ size \o value \in Seq(Byte)
        /\ Len(size \o value) = Len(size) + Len(value)
        /\ \A i \in 1 .. Len(size) + Len(value) :
             (size \o value)[i] = IF i <= Len(size) THEN size[i] ELSE value[i - Len(size)]
    BY <1>1, ConcatProperties
  <2> QED BY <1>1, <1>2, <2>1, SMT
<1>5. /\ answer \in Seq(Byte)
      /\ Len(answer) = 11 + Len(value)
      /\ \A i \in 1 .. 7 : answer[i] = SuccessHeader[i]
      /\ \A i \in 1 .. 4 : answer[7 + i] = record[i]
  <2>1. SuccessHeader \in Seq(Byte) /\ record \in Seq(Byte)
    BY <1>3, <1>4
  <2>2. /\ answer \in Seq(Byte)
        /\ Len(answer) = Len(SuccessHeader) + Len(record)
        /\ \A i \in 1 .. Len(SuccessHeader) + Len(record) :
             answer[i] = IF i <= Len(SuccessHeader) THEN SuccessHeader[i]
                         ELSE record[i - Len(SuccessHeader)]
    BY <2>1, ConcatProperties
  <2> HIDE DEF answer
  <2> QED BY <1>1, <1>3, <1>4, <2>2, SMT
<1> HIDE DEF answer
<1>6. /\ HeaderOf(value) \in Seq(Byte)
      /\ Len(HeaderOf(value)) = 11
      /\ \A i \in 1 .. 11 : HeaderOf(value)[i] = answer[i]
  <2>1. HeaderOf(value) = SubSeq(answer, 1, 11)
    BY DEF HeaderOf, HeaderSize, answer, record
  <2> QED BY <1>1, <1>5, <2>1, SMT
<1>7. \A i \in 1 .. 4 : SubSeq(HeaderOf(value), 8, 11)[i] = HeaderOf(value)[7 + i]
  BY <1>6, SMT
<1> QED BY <1>3, <1>4, <1>5, <1>6, <1>7, SMT DEF size

(* It tells the success, and the number of bytes that the record holds     *)
(* behind its own size: header and record come from two places, the        *)
(* program and the file, and agree for every value.                        *)
THEOREM HeaderTellsValue ==
  ASSUME NEW value \in Seq(Byte), Len(value) < 4294967296
  PROVE  /\ ResponseMessages(HeaderOf(value)) = 2
         /\ ResponseStatus(HeaderOf(value)) = OK
         /\ ResponseSize(HeaderOf(value)) = Len(value)
<1> DEFINE field == SubSeq(HeaderOf(value), 8, 11)
           size == Serialize4(Len(value))
<1>1. Deserialize4(size) = Len(value)
  BY LenProperties, SizesSurvive, SMT
<1>2. \A i \in 1 .. 4 : field[i] = size[i]
  BY HeaderBytes, SMT
<1> HIDE DEF field, size
<1>3. Deserialize4(field) = Deserialize4(size)
  BY <1>2, SMT DEF Deserialize4
<1>4. ResponseSize(HeaderOf(value)) = Deserialize4(field)
  BY SMT DEF ResponseSize, field
<1>5. ResponseMessages(HeaderOf(value)) = 2 /\ ResponseStatus(HeaderOf(value)) = OK
  BY HeaderBytes, SMT DEF ResponseMessages, ResponseStatus
<1> QED BY <1>1, <1>3, <1>4, <1>5, SMT
=============================================================================
