--------------------------- MODULE EasyKeyDB_proofs ---------------------------
(***************************************************************************)
(* The whole system, proved for any number of processes with any requests, *)
(* and for buffers of any size, of which the send buffer holds the header  *)
(* of an answer.                                                           *)
(*                                                                         *)
(* What a client has taken of its answer, what its kernel and the server's *)
(* have for it, what the server has still to send, and what a signal has   *)
(* cut off are at every moment what the calls were to send, until the      *)
(* client ends; and a signal cuts only the last call.  So the first read   *)
(* takes a beginning of the answer, and a success is reported only of a    *)
(* request that was granted.                                               *)
(***************************************************************************)
EXTENDS EasyKeyDB, Lists_proofs, KnowNothing_proofs

-----------------------------------------------------------------------------
(* Bytes in a row, and a row cut in two; named like Brackets, so that the  *)
(* provers find them.                                                      *)

Joined(s, t) ==
  s \in Seq(Byte) /\ t \in Seq(Byte) =>
    /\ s \o t \in Seq(Byte) /\ Len(s \o t) = Len(s) + Len(t)
    /\ Len(s) \in Nat /\ Len(t) \in Nat
    /\ \A i \in 1 .. Len(s) : (s \o t)[i] = s[i]
    /\ \A i \in 1 .. Len(t) : (s \o t)[Len(s) + i] = t[i]

LEMMA Joins == \A s, t : Joined(s, t)
<1> SUFFICES ASSUME NEW s \in Seq(Byte), NEW t \in Seq(Byte)
             PROVE  /\ s \o t \in Seq(Byte) /\ Len(s \o t) = Len(s) + Len(t)
                    /\ Len(s) \in Nat /\ Len(t) \in Nat
                    /\ \A i \in 1 .. Len(s) : (s \o t)[i] = s[i]
                    /\ \A i \in 1 .. Len(t) : (s \o t)[Len(s) + i] = t[i]
  BY DEF Joined
<1>1. s \in Seq(Byte) /\ t \in Seq(Byte)
  OBVIOUS
<1> QED
  BY ONLY <1>1, EntriesOfBoth

Halved(bytes, n) ==
  bytes \in Seq(Byte) /\ n \in 0 .. Len(bytes) =>
    LET front == SubSeq(bytes, 1, n)
        back == SubSeq(bytes, n + 1, Len(bytes))
    IN  /\ front \in Seq(Byte) /\ Len(front) = n /\ \A i \in 1 .. n : front[i] = bytes[i]
        /\ back \in Seq(Byte) /\ Len(back) = Len(bytes) - n
        /\ front \o back = bytes

LEMMA Halves == \A bytes, n : Halved(bytes, n)
<1> SUFFICES ASSUME NEW bytes \in Seq(Byte), NEW n \in 0 .. Len(bytes)
             PROVE  LET front == SubSeq(bytes, 1, n)
                        back == SubSeq(bytes, n + 1, Len(bytes))
                    IN  /\ front \in Seq(Byte) /\ Len(front) = n
                        /\ \A i \in 1 .. n : front[i] = bytes[i]
                        /\ back \in Seq(Byte) /\ Len(back) = Len(bytes) - n
                        /\ front \o back = bytes
  BY DEF Halved
<1>1. bytes \in Seq(Byte) /\ n \in 0 .. Len(bytes)
  OBVIOUS
<1> QED
  BY ONLY <1>1, SplitAt

-----------------------------------------------------------------------------
(* Answers as bytes. *)

Wire(request, answer) ==
  LET made == CallsFor(request, answer)
  IN  IF Len(made) = 1 THEN made[1].bytes ELSE made[1].bytes \o made[2].bytes

(* What the calls for the answer of a client send if no signal cuts them.  *)
ToSend(c) == Wire(Request(c), effect[c])

(* What sendfile(2) transfers of a record. *)
Transferred(value) == SubSeq(Record(value), 1, Lower(MaxTransfer, Len(Record(value))))

LEMMA ConstantTypes ==
  /\ SendBuffer \in Nat /\ SendBuffer >= 7 /\ ReceiveBuffer \in Nat \ {0} /\ MaxTransfer \in Nat \ {0}
  /\ Text \in Seq(Byte) /\ NULL \notin Process /\ NULL \notin Answer
<1>1. Len(SuccessHeader) = 7
  BY DEF SuccessHeader
<1> QED
  BY <1>1, EasyKeyDBAssumption

LEMMA TransferredBytes ==
  ASSUME NEW value \in Seq(Byte)
  PROVE  /\ Record(value) \in Seq(Byte) /\ Len(Record(value)) = 4 + Len(value)
         /\ \A i \in 1 .. 4 : Record(value)[i] = Serialize4(Len(value))[i]
         /\ Transferred(value) \in Seq(Byte) /\ Len(Transferred(value)) <= Len(Record(value))
         /\ \A i \in 1 .. Len(Transferred(value)) : Transferred(value)[i] = Record(value)[i]
<1> DEFINE record == Record(value)
           length == Serialize4(Len(value))
           n == Lower(MaxTransfer, Len(record))
<1>1. record \in Seq(Byte) /\ length \in Seq(Byte) /\ Len(length) = 4 /\ record = length \o value
  BY MessageBytes DEF Record, Message
<1> HIDE DEF record, length
<1>2. /\ Len(record) = 4 + Len(value)
      /\ \A i \in 1 .. 4 : record[i] = length[i]
  <2>1. /\ Len(length \o value) = Len(length) + Len(value)
        /\ \A i \in 1 .. Len(length) + Len(value) :
             (length \o value)[i] = IF i <= Len(length) THEN length[i] ELSE value[i - Len(length)]
    BY <1>1, ConcatProperties
  <2>2. Len(value) \in Nat
    BY LenProperties
  <2> QED
    BY <1>1, <2>1, <2>2
<1>3. n \in 0 .. Len(record)
  <2>1. Len(record) \in Nat
    BY <1>1, LenProperties
  <2> QED
    BY <2>1, ConstantTypes DEF Lower
<1> HIDE DEF n
<1>4. /\ SubSeq(record, 1, n) \in Seq(Byte) /\ Len(SubSeq(record, 1, n)) = n
      /\ \A i \in 1 .. n : SubSeq(record, 1, n)[i] = record[i]
  <2>1. Halved(record, n)
    BY Halves
  <2> QED
    BY <1>1, <1>3, <2>1 DEF Halved
<1>5. Transferred(value) = SubSeq(record, 1, n)
  BY DEF Transferred, record, n
<1> QED
  BY <1>1, <1>2, <1>3, <1>4, <1>5 DEF record, length

LEMMA HeaderOK ==
  /\ SuccessHeader \in Seq(Byte) /\ Len(SuccessHeader) = 7 /\ SuccessHeader[7] = OK
BY DEF SuccessHeader, Byte, V1, OK

(* A response tells its status where a client looks for it. *)
LEMMA ResponseBytes ==
  ASSUME NEW code \in Byte
  PROVE  /\ EncodeResponse(code, Text) \in Seq(Byte)
         /\ EncodeResponse(code, Text)[7] = code
<1> DEFINE start == <<V1, 2>>
           one == <<code>>
           length == Serialize4(Len(one))
           middle == Message(one)
           front == start \o middle
           rest == Message(Text)
<1>1. start \in Seq(Byte) /\ Len(start) = 2 /\ one \in Seq(Byte) /\ Len(one) = 1 /\ one[1] = code
  BY DEF V1, Byte
<1> HIDE DEF start, one
<1>2. /\ middle \in Seq(Byte) /\ length \in Seq(Byte) /\ Len(length) = 4 /\ middle = length \o one
      /\ rest \in Seq(Byte)
  BY <1>1, MessageBytes, ConstantTypes DEF Message
<1> HIDE DEF length, rest
<1>3. Len(middle) = 5 /\ middle[5] = code
  <2>1. /\ Len(length \o one) = Len(length) + Len(one)
        /\ \A i \in 1 .. Len(length) + Len(one) :
             (length \o one)[i] = IF i <= Len(length) THEN length[i] ELSE one[i - Len(length)]
    BY <1>1, <1>2, ConcatProperties
  <2> HIDE DEF middle
  <2> QED
    BY <1>1, <1>2, <2>1
<1> HIDE DEF middle
<1>4. front \in Seq(Byte) /\ Len(front) = 7 /\ front[7] = code
  <2>1. /\ front \in Seq(Byte) /\ Len(front) = Len(start) + Len(middle)
        /\ \A i \in 1 .. Len(start) + Len(middle) :
             front[i] = IF i <= Len(start) THEN start[i] ELSE middle[i - Len(start)]
    BY <1>1, <1>2, ConcatProperties
  <2> HIDE DEF front
  <2> QED
    BY <1>1, <1>3, <2>1
<1>5. EncodeResponse(code, Text) = front \o rest
  BY DEF EncodeResponse, front, start, middle, one, rest
<1> HIDE DEF front
<1> DEFINE bytes == front \o rest
<1>6. bytes \in Seq(Byte) /\ \A i \in 1 .. Len(front) : bytes[i] = front[i]
  <2>1. Joined(front, rest)
    BY Joins
  <2> QED
    BY <1>2, <1>4, <2>1 DEF Joined
<1> HIDE DEF bytes
<1>7. bytes[7] = code
  BY <1>4, <1>6
<1> QED
  BY <1>5, <1>6, <1>7 DEF bytes

LEMMA ValueCalls ==
  ASSUME NEW request, NEW answer, ~IsWrite(request), answer.status = OK
  PROVE  /\ CallsFor(request, answer) = <<Sends(SuccessHeader), SendsFile(Record(answer.body))>>
         /\ Wire(request, answer) = SuccessHeader \o Transferred(answer.body)
<1> DEFINE first == Sends(SuccessHeader)
           second == SendsFile(Record(answer.body))
<1>1. CallsFor(request, answer) = <<first, second>>
  BY DEF CallsFor
<1>2. first.bytes = SuccessHeader
  BY DEF Sends
<1>3. second.bytes = Transferred(answer.body)
  BY DEF SendsFile, Transferred
<1> HIDE DEF first, second
<1>4. Len(<<first, second>>) # 1 /\ <<first, second>>[1] = first /\ <<first, second>>[2] = second
  OBVIOUS
<1>5. Wire(request, answer) = first.bytes \o second.bytes
  BY <1>1, <1>4 DEF Wire
<1> QED
  BY <1>1, <1>2, <1>3, <1>5 DEF first, second

LEMMA OtherCalls ==
  ASSUME NEW request, NEW answer, ~(~IsWrite(request) /\ answer.status = OK)
  PROVE  /\ CallsFor(request, answer) = <<Sends(EncodeResponse(answer.status, Text))>>
         /\ Wire(request, answer) = EncodeResponse(answer.status, Text)
<1>1. CallsFor(request, answer) = <<Sends(EncodeResponse(answer.status, Text))>>
  BY DEF CallsFor
<1>2. Sends(EncodeResponse(answer.status, Text)).bytes = EncodeResponse(answer.status, Text)
  BY DEF Sends
<1> QED
  BY <1>1, <1>2 DEF Wire

LEMMA WireBytes ==
  ASSUME NEW request, NEW answer \in Answer
  PROVE  /\ Wire(request, answer) \in Seq(Byte)
         /\ Wire(request, answer)[7] = answer.status
<1>1. answer.status \in Byte /\ answer.body \in Seq(Byte)
  BY DEF Answer, Byte, OK, CLIENT_ERROR
<1>2. CASE ~IsWrite(request) /\ answer.status = OK
  <2> DEFINE file == Transferred(answer.body)
  <2>1. Wire(request, answer) = SuccessHeader \o file
    BY <1>2, ValueCalls
  <2>2. file \in Seq(Byte) /\ Len(file) \in Nat
    BY <1>1, TransferredBytes, LenProperties
  <2> HIDE DEF file
  <2> DEFINE bytes == SuccessHeader \o file
  <2>3. bytes \in Seq(Byte) /\ \A i \in 1 .. Len(SuccessHeader) : bytes[i] = SuccessHeader[i]
    <3>1. Joined(SuccessHeader, file)
      BY Joins
    <3> QED
      BY <2>2, <3>1, HeaderOK DEF Joined
  <2> HIDE DEF bytes
  <2>4. bytes[7] = OK
    BY <2>3, HeaderOK
  <2> QED
    BY <1>2, <2>1, <2>3, <2>4 DEF bytes
<1>3. CASE ~(~IsWrite(request) /\ answer.status = OK)
  BY <1>1, <1>3, OtherCalls, ResponseBytes
<1> QED
  BY <1>2, <1>3

-----------------------------------------------------------------------------
(* What the two reads of read_response make of a beginning of an answer.   *)

Header(taken) == Filled(taken, HeaderSize)
MadeOf(taken) ==
  [read_size |-> Len(taken), status_code |-> ResponseStatus(Header(taken)),
   array |-> Filled(<<>>, ResponseSize(Header(taken)))]

LEMMA FilledBytes ==
  ASSUME NEW bytes \in Seq(Byte), NEW size \in Nat
  PROVE  /\ Filled(bytes, size) \in Seq(Byte) /\ Len(Filled(bytes, size)) = size
         /\ \A i \in 1 .. size :
              Filled(bytes, size)[i] = IF i <= Len(bytes) THEN bytes[i] ELSE 0
<1> DEFINE at(i) == IF i <= Len(bytes) THEN bytes[i] ELSE 0
           buffer == [i \in 1 .. size |-> at(i)]
<1>1. \A i \in 1 .. size : at(i) \in Byte
  <2>1. 0 \in Byte
    BY DEF Byte
  <2>2. ASSUME NEW i \in 1 .. size, i <= Len(bytes) PROVE bytes[i] \in Byte
    <3>1. i \in 1 .. Len(bytes)
      BY <2>2, LenProperties
    <3> QED
      BY <3>1, ElementOfSeq
  <2> QED
    BY <2>1, <2>2
<1>2. Filled(bytes, size) = buffer
  BY DEF Filled
<1> HIDE DEF at
<1>3. buffer \in [1 .. size -> Byte]
  BY <1>1
<1>4. buffer \in Seq(Byte) /\ Len(buffer) = size
  BY <1>3
<1>5. \A i \in 1 .. size : buffer[i] = at(i)
  OBVIOUS
<1> HIDE DEF buffer
<1> QED
  BY <1>2, <1>4, <1>5 DEF at

LEMMA BytesOfHeader ==
  ASSUME NEW taken \in Seq(Byte)
  PROVE  /\ Header(taken) \in Seq(Byte) /\ Len(Header(taken)) = 11
         /\ \A i \in 1 .. 11 : Header(taken)[i] \in Byte
         /\ \A i \in 1 .. 11 : Header(taken)[i] = IF i <= Len(taken) THEN taken[i] ELSE 0
<1> DEFINE header == Header(taken)
<1>1. /\ header \in Seq(Byte) /\ Len(header) = 11
      /\ \A i \in 1 .. 11 : header[i] = IF i <= Len(taken) THEN taken[i] ELSE 0
  <2>1. 11 \in Nat
    OBVIOUS
  <2> QED
    BY <2>1, FilledBytes DEF Header, HeaderSize
<1> HIDE DEF header
<1>2. \A i \in 1 .. 11 : header[i] \in Byte
  BY <1>1, ElementOfSeq
<1> QED
  BY <1>1, <1>2 DEF header

Value4(a, b, c, d) == a + 256 * b + 65536 * c + 16777216 * d

LEMMA SizeOfHeader ==
  ASSUME NEW header \in Seq(Byte), Len(header) = 11
  PROVE  /\ ResponseSize(header) = Value4(header[8], header[9], header[10], header[11])
         /\ ResponseSize(header) \in Nat
<1> DEFINE field == SubSeq(header, 8, 11)
<1>1. field[1] = header[8] /\ field[2] = header[9] /\ field[3] = header[10] /\ field[4] = header[11]
  <2>1. \A i \in 1 .. 4 : field[i] = header[7 + i]
    BY SMT
  <2> QED
    BY <2>1
<1> HIDE DEF field
<1>2. ResponseSize(header) = Deserialize4(field)
  BY DEF ResponseSize, field
<1>3. Deserialize4(field) = Value4(field[1], field[2], field[3], field[4])
  BY DEF Deserialize4, Value4
<1>4. header[8] \in Nat /\ header[9] \in Nat /\ header[10] \in Nat /\ header[11] \in Nat
  <2>1. \A i \in 1 .. 11 : header[i] \in Byte
    BY ElementOfSeq
  <2>2. \A byte \in Byte : byte \in Nat
    BY DEF Byte
  <2> QED
    BY <2>1, <2>2
<1>5. \A a, b, c, d \in Nat : Value4(a, b, c, d) \in Nat
  BY SMT DEF Value4
<1>6. ResponseSize(header) = Value4(header[8], header[9], header[10], header[11])
  BY <1>1, <1>2, <1>3
<1>7. Value4(header[8], header[9], header[10], header[11]) \in Nat
  BY <1>4, <1>5
<1> QED
  BY <1>6, <1>7

LEMMA MadeTypes ==
  ASSUME NEW taken \in Seq(Byte), Len(taken) <= HeaderSize
  PROVE  /\ MadeOf(taken).read_size = Len(taken) /\ MadeOf(taken).read_size \in 0 .. HeaderSize
         /\ MadeOf(taken).status_code = Header(taken)[7] /\ MadeOf(taken).status_code \in Byte
         /\ MadeOf(taken).array \in Seq(Byte)
         /\ Len(MadeOf(taken).array) = ResponseSize(Header(taken))
<1>1. Len(taken) \in Nat
  BY LenProperties
<1>2. Header(taken)[7] \in Byte /\ ResponseSize(Header(taken)) \in Nat
  BY BytesOfHeader, SizeOfHeader
<1>3. <<>> \in Seq(Byte)
  BY EmptySeq
<1>4. /\ Filled(<<>>, ResponseSize(Header(taken))) \in Seq(Byte)
      /\ Len(Filled(<<>>, ResponseSize(Header(taken)))) = ResponseSize(Header(taken))
  BY <1>2, <1>3, FilledBytes
<1>5. /\ MadeOf(taken).read_size = Len(taken)
      /\ MadeOf(taken).status_code = Header(taken)[7]
      /\ MadeOf(taken).array = Filled(<<>>, ResponseSize(Header(taken)))
  BY DEF MadeOf, ResponseStatus
<1>6. Len(taken) \in 0 .. HeaderSize
  <2>1. HeaderSize \in Nat
    BY DEF HeaderSize
  <2> QED
    BY <1>1, <2>1
<1> QED
  BY <1>2, <1>4, <1>5, <1>6

(* The status that a client reads is the status of its answer.             *)
LEMMA StatusRead ==
  ASSUME NEW request, NEW answer \in Answer, NEW taken \in Seq(Byte), NEW ahead \in Seq(Byte),
         taken \o ahead = Wire(request, answer), Header(taken)[7] = OK
  PROVE  answer.status = OK /\ Len(taken) >= 7
<1>1. Len(taken) >= 7 /\ taken[7] = OK
  <2>1. Header(taken)[7] = IF 7 <= Len(taken) THEN taken[7] ELSE 0
    <3>1. \A i \in 1 .. 11 : Header(taken)[i] = IF i <= Len(taken) THEN taken[i] ELSE 0
      BY BytesOfHeader
    <3> QED
      BY <3>1
  <2>2. Len(taken) \in Nat
    BY LenProperties
  <2> QED
    BY <2>1, <2>2 DEF OK
<1> DEFINE bytes == taken \o ahead
<1>2. Len(taken) \in Nat /\ \A i \in 1 .. Len(taken) : bytes[i] = taken[i]
  <2>1. Joined(taken, ahead)
    BY Joins
  <2> QED
    BY <2>1 DEF Joined
<1> HIDE DEF bytes
<1>3. bytes[7] = OK
  BY <1>1, <1>2
<1>4. bytes[7] = answer.status
  BY WireBytes DEF bytes
<1> QED
  BY <1>1, <1>3, <1>4

(* A header that says OK has all of success_header, and its size field has *)
(* the first bytes of the value's size and zeros.                          *)
LEMMA ValueRead ==
  ASSUME NEW value \in Seq(Byte), SizeFits(value),
         NEW taken \in Seq(Byte), NEW ahead \in Seq(Byte),
         taken \o ahead = SuccessHeader \o Transferred(value),
         Len(taken) >= 7, Len(taken) <= 11
  PROVE  /\ ResponseSize(Header(taken)) \in 0 .. Len(value)
         /\ Len(taken) = 11 => ResponseSize(Header(taken)) = Len(value)
         /\ Len(ahead) <= Len(Record(value)) - (Len(taken) - 7)
         /\ \A i \in 1 .. Len(ahead) : ahead[i] = Record(value)[Len(taken) - 7 + i]
<1> DEFINE record == Record(value)
           file == Transferred(value)
           bytes == taken \o ahead
           header == Header(taken)
           length == Serialize4(Len(value))
<1>1. /\ record \in Seq(Byte) /\ Len(record) = 4 + Len(value)
      /\ \A i \in 1 .. 4 : record[i] = length[i]
      /\ file \in Seq(Byte) /\ Len(file) <= Len(record)
      /\ \A i \in 1 .. Len(file) : file[i] = record[i]
  BY TransferredBytes
<1> HIDE DEF record, file
<1>2. /\ Len(taken) \in Nat /\ Len(ahead) \in Nat /\ Len(bytes) = Len(taken) + Len(ahead)
      /\ \A i \in 1 .. Len(taken) : bytes[i] = taken[i]
      /\ \A i \in 1 .. Len(ahead) : bytes[Len(taken) + i] = ahead[i]
  <2>1. Joined(taken, ahead)
    BY Joins
  <2> QED
    BY <2>1 DEF Joined
<1>3. /\ Len(file) \in Nat /\ Len(bytes) = 7 + Len(file)
      /\ \A i \in 1 .. Len(file) : bytes[7 + i] = file[i]
  <2>1. Joined(SuccessHeader, file)
    BY Joins
  <2>2. bytes = SuccessHeader \o file
    BY DEF file
  <2> HIDE DEF bytes
  <2> QED
    BY <1>1, <2>1, <2>2, HeaderOK DEF Joined
<1> HIDE DEF bytes
<1>4. Len(value) \in Nat /\ Len(record) \in Nat
  BY <1>1, LenProperties
<1>5. Len(ahead) <= Len(record) - (Len(taken) - 7)
  BY <1>1, <1>2, <1>3, <1>4
<1>6. ASSUME NEW i \in 1 .. Len(ahead)
      PROVE  ahead[i] = record[Len(taken) - 7 + i]
  <2>1. Len(taken) - 7 + i \in 1 .. Len(file) /\ 7 + (Len(taken) - 7 + i) = Len(taken) + i
    BY <1>2, <1>3
  <2>2. bytes[7 + (Len(taken) - 7 + i)] = file[Len(taken) - 7 + i]
    BY <1>3, <2>1
  <2> QED
    BY <1>1, <1>2, <2>1, <2>2
<1>7. /\ header \in Seq(Byte) /\ Len(header) = 11
      /\ \A i \in 1 .. 11 : header[i] = IF i <= Len(taken) THEN taken[i] ELSE 0
  BY BytesOfHeader
<1> HIDE DEF header
<1>8. \A i \in 1 .. 4 : header[7 + i] = IF 7 + i <= Len(taken) THEN length[i] ELSE 0
  <2> TAKE i \in 1 .. 4
  <2>1. 7 + i \in 1 .. 11 /\ header[7 + i] = IF 7 + i <= Len(taken) THEN taken[7 + i] ELSE 0
    BY <1>7
  <2>2. ASSUME 7 + i <= Len(taken) PROVE taken[7 + i] = length[i]
    <3>1. 7 + i \in 1 .. Len(taken) /\ i \in 1 .. Len(file)
      BY <1>2, <1>3, <2>2
    <3>2. bytes[7 + i] = taken[7 + i]
      BY <1>2, <3>1
    <3>3. bytes[7 + i] = file[i] /\ file[i] = record[i] /\ record[i] = length[i]
      BY <1>1, <1>3, <3>1
    <3> QED
      BY <3>2, <3>3
  <2> QED
    BY <2>1, <2>2
<1>9. /\ length \in Seq(Byte) /\ Len(length) = 4
      /\ Len(value) = Value4(length[1], length[2], length[3], length[4])
  <2>1. length \in Seq(Byte) /\ Len(length) = 4
    BY <1>4, FourBytes
  <2>2. Deserialize4(length) = Len(value)
    BY SizesFit
  <2> HIDE DEF length
  <2>3. Deserialize4(length) = Value4(length[1], length[2], length[3], length[4])
    BY DEF Deserialize4, Value4
  <2> QED
    BY <2>1, <2>2, <2>3
<1> HIDE DEF length
<1>10. /\ length[1] \in Nat /\ length[2] \in Nat /\ length[3] \in Nat /\ length[4] \in Nat
  <2>1. \A i \in 1 .. 4 : length[i] \in Byte
    BY <1>9, ElementOfSeq
  <2>2. \A byte \in Byte : byte \in Nat
    BY DEF Byte
  <2>3. length[1] \in Byte /\ length[2] \in Byte /\ length[3] \in Byte /\ length[4] \in Byte
    BY <2>1
  <2> QED
    BY <2>2, <2>3
<1>11. /\ header[8] \in {0, length[1]} /\ header[9] \in {0, length[2]}
       /\ header[10] \in {0, length[3]} /\ header[11] \in {0, length[4]}
       /\ Len(taken) = 11 => /\ header[8] = length[1] /\ header[9] = length[2]
                             /\ header[10] = length[3] /\ header[11] = length[4]
  <2>1. /\ header[7 + 1] = IF 7 + 1 <= Len(taken) THEN length[1] ELSE 0
        /\ header[7 + 2] = IF 7 + 2 <= Len(taken) THEN length[2] ELSE 0
        /\ header[7 + 3] = IF 7 + 3 <= Len(taken) THEN length[3] ELSE 0
        /\ header[7 + 4] = IF 7 + 4 <= Len(taken) THEN length[4] ELSE 0
    BY <1>8
  <2>2. /\ header[8] = IF 8 <= Len(taken) THEN length[1] ELSE 0
        /\ header[9] = IF 9 <= Len(taken) THEN length[2] ELSE 0
        /\ header[10] = IF 10 <= Len(taken) THEN length[3] ELSE 0
        /\ header[11] = IF 11 <= Len(taken) THEN length[4] ELSE 0
    BY <2>1
  <2>3. /\ header[8] \in {0, length[1]} /\ header[9] \in {0, length[2]}
        /\ header[10] \in {0, length[3]} /\ header[11] \in {0, length[4]}
    BY <2>2
  <2>4. Len(taken) = 11 => 8 <= Len(taken) /\ 9 <= Len(taken) /\ 10 <= Len(taken) /\ 11 <= Len(taken)
    BY <1>2
  <2> QED
    BY <2>2, <2>3, <2>4
<1>12. ResponseSize(header) = Value4(header[8], header[9], header[10], header[11])
  BY <1>7, SizeOfHeader
<1>13. \A a, b, c, d \in Nat : \A e \in {0, a}, f \in {0, b}, g \in {0, c}, h \in {0, d} :
         Value4(e, f, g, h) \in 0 .. Value4(a, b, c, d)
  BY SMT DEF Value4
<1>14. ResponseSize(header) \in 0 .. Len(value)
  <2>1. Value4(header[8], header[9], header[10], header[11])
          \in 0 .. Value4(length[1], length[2], length[3], length[4])
    BY <1>10, <1>11, <1>13
  <2> QED
    BY <1>9, <1>12, <2>1
<1>15. Len(taken) = 11 => ResponseSize(header) = Len(value)
  BY <1>9, <1>11, <1>12
<1> QED
  BY <1>5, <1>6, <1>14, <1>15 DEF record, header

(* ShownFromRecord, of what is shown of a value. *)
ShowsPart(value, reply) ==
  LET record == Record(value)
      shown == reply.array
      from == reply.read_size - Len(SuccessHeader)
  IN  /\ Len(shown) <= Len(value)
      /\ \E n \in 0 .. Lower(Len(shown), Len(record) - from) :
           shown = Filled(SubSeq(record, from + 1, from + n), Len(shown))
      /\ reply.read_size = HeaderSize => Len(shown) = Len(value)

(* What the second read takes is of the record, where the first stopped.   *)
LEMMA ValueShown ==
  ASSUME NEW value \in Seq(Byte), SizeFits(value),
         NEW taken \in Seq(Byte), NEW near \in Seq(Byte), NEW far \in Seq(Byte),
         taken \o (near \o far) = SuccessHeader \o Transferred(value),
         Len(taken) >= 7, Len(taken) <= 11,
         NEW size, size = ResponseSize(Header(taken)),
         NEW n, n = Lower(size, Len(near)),
         NEW reply, reply.read_size = Len(taken), reply.array = Filled(SubSeq(near, 1, n), size)
  PROVE  ShowsPart(value, reply)
<1> DEFINE record == Record(value)
           ahead == near \o far
           from == Len(taken) - 7
<1>1. /\ ahead \in Seq(Byte) /\ Len(near) \in Nat /\ Len(near) <= Len(ahead) /\ Len(ahead) \in Nat
      /\ \A i \in 1 .. Len(near) : ahead[i] = near[i]
  <2>1. Joined(near, far)
    BY Joins
  <2>2. /\ ahead \in Seq(Byte) /\ Len(ahead) = Len(near) + Len(far)
        /\ Len(near) \in Nat /\ Len(far) \in Nat
        /\ \A i \in 1 .. Len(near) : ahead[i] = near[i]
    BY <2>1 DEF Joined
  <2> HIDE DEF ahead
  <2> QED
    BY <2>2
<1>2. taken \o ahead = SuccessHeader \o Transferred(value)
  OBVIOUS
<1> HIDE DEF ahead
<1>3. /\ size \in 0 .. Len(value)
      /\ Len(taken) = 11 => size = Len(value)
      /\ Len(ahead) <= Len(record) - from
      /\ \A i \in 1 .. Len(ahead) : ahead[i] = record[from + i]
  <2>1. /\ ResponseSize(Header(taken)) \in 0 .. Len(value)
        /\ Len(taken) = 11 => ResponseSize(Header(taken)) = Len(value)
        /\ Len(ahead) <= Len(Record(value)) - (Len(taken) - 7)
        /\ \A i \in 1 .. Len(ahead) : ahead[i] = Record(value)[Len(taken) - 7 + i]
    <3>1. ahead \in Seq(Byte)
      BY <1>1
    <3> QED
      BY <1>2, <3>1, ValueRead
  <2> QED
    BY <2>1
<1>4. record \in Seq(Byte) /\ Len(record) \in Nat /\ Len(taken) \in Nat /\ from \in Nat /\ Len(value) \in Nat
  <2>1. record \in Seq(Byte)
    BY TransferredBytes
  <2>2. Len(taken) \in Nat /\ Len(value) \in Nat /\ Len(record) \in Nat
    BY <2>1, LenProperties
  <2> QED
    BY <2>1, <2>2
<1> HIDE DEF record, from
<1>5. n \in 0 .. size /\ n \in 0 .. Len(near) /\ n \in 0 .. Lower(size, Len(record) - from)
  BY <1>1, <1>3, <1>4 DEF Lower
<1> DEFINE front == SubSeq(near, 1, n)
           slice == SubSeq(record, from + 1, from + n)
<1>6. front \in Seq(Byte) /\ Len(front) = n /\ \A i \in 1 .. n : front[i] = near[i]
  <2>1. Halved(near, n)
    BY Halves
  <2> QED
    BY <1>5, <2>1 DEF Halved
<1>7. slice \in Seq(Byte) /\ Len(slice) = n /\ \A i \in 1 .. n : slice[i] = record[from + i]
  <2>1. from + n <= Len(record) /\ n \in Nat
    BY <1>1, <1>3, <1>4, <1>5
  <2>2. \A i \in from + 1 .. from + n : record[i] \in Byte
    <3>1. \A i \in 1 .. Len(record) : record[i] \in Byte
      BY <1>4, ElementOfSeq
    <3>2. \A i \in from + 1 .. from + n : i \in 1 .. Len(record)
      BY <1>4, <2>1
    <3> QED
      BY <3>1, <3>2
  <2>3. from + 1 \in Int /\ from + n \in Int
    BY <1>4, <2>1
  <2>4. /\ slice \in Seq(Byte)
        /\ Len(slice) = IF from + 1 <= from + n THEN (from + n) - (from + 1) + 1 ELSE 0
        /\ \A i \in 1 .. (from + n) - (from + 1) + 1 : slice[i] = record[(from + 1) + i - 1]
    BY <2>2, <2>3, SubSeqProperties
  <2> HIDE DEF slice
  <2>5. /\ (from + n) - (from + 1) + 1 = n
        /\ IF from + 1 <= from + n THEN n = n ELSE n = 0
        /\ \A i \in 1 .. n : (from + 1) + i - 1 = from + i
    <3>1. \A f, m \in Nat :
            /\ (f + m) - (f + 1) + 1 = m
            /\ IF f + 1 <= f + m THEN m = m ELSE m = 0
            /\ \A i \in 1 .. m : (f + 1) + i - 1 = f + i
      OBVIOUS
    <3>2. from \in Nat /\ n \in Nat
      BY <1>4, <2>1
    <3> QED
      BY ONLY <3>1, <3>2
  <2> QED
    BY <2>4, <2>5
<1>8. front = slice
  <2> HIDE DEF front, slice
  <2>1. \A i \in 1 .. n : front[i] = slice[i]
    <3> TAKE i \in 1 .. n
    <3>1. i \in 1 .. Len(near) /\ i \in 1 .. Len(ahead)
      BY <1>1, <1>5
    <3> QED
      BY <1>1, <1>3, <1>6, <1>7, <3>1
  <2> QED
    BY <1>6, <1>7, <2>1, SeqEqual
<1>9. Len(reply.array) = size
  <2>1. size \in Nat
    BY <1>3
  <2>2. reply.array = Filled(front, size)
    OBVIOUS
  <2> HIDE DEF front
  <2>3. Len(Filled(front, size)) = size
    BY <1>6, <2>1, FilledBytes
  <2> QED
    BY <2>2, <2>3
<1>10. reply.read_size - Len(SuccessHeader) = from
  BY HeaderOK DEF from
<1>11. reply.array = Filled(slice, size)
  BY <1>8
<1>12. size <= Len(value) /\ (reply.read_size = HeaderSize => size = Len(value))
  BY <1>3, <1>4 DEF HeaderSize
<1> HIDE DEF front, slice
<1> QED
  BY <1>5, <1>9, <1>10, <1>11, <1>12 DEF ShowsPart, slice, record

-----------------------------------------------------------------------------
(* The invariant. *)

(* What parse_request has still to send, and of whose answer. *)
Owed ==
  IF Len(calls) = 0 THEN <<>>
  ELSE IF Len(calls) = 1 THEN calls[1].bytes ELSE calls[1].bytes \o calls[2].bytes
ToCome(c) == IF serving = c THEN Owed ELSE <<>>

(* The bytes before a client, in the order in which it will read them. *)
Ahead(c) == inbox[c] \o (outbox[c] \o ToCome(c))

(* Before a request is answered nothing comes from the server, and only a  *)
(* process that has ended has a connection that is not open.               *)
Progress(c) ==
  /\ status[c] = "running" <=> ~Gone(c)
  /\ sent[c] = "whole" => pc[c] \notin {"main", "connected"}
  /\ sent[c] = "part" => status[c] = "crash"
  /\ peer[c] # "open" => Gone(c)
  /\ effect[c] # NULL => sent[c] # "nothing"
  /\ effect[c] = NULL => inbox[c] = <<>> /\ outbox[c] = <<>> /\ peer[c] # "broken"

(* What a client has taken of its answer is the beginning of it, and what  *)
(* is before the client is the rest, up to where a signal has cut it.      *)
IsLost(c, lost) == lost = <<>> \/ (running = FALSE /\ serving # c)
HasTaken(c, taken) ==
  /\ \E lost \in Seq(Byte) :
       IsLost(c, lost) /\ taken \o (Ahead(c) \o lost) = ToSend(c)
  /\ pc[c] = "waiting" => taken = <<>>
  /\ pc[c] = "sized" => Len(taken) <= HeaderSize /\ response[c] = MadeOf(taken)
Arrives(c) ==
  /\ pc[c] = "sized" => effect[c] # NULL
  /\ (effect[c] # NULL /\ ~Gone(c)) => \E taken \in Seq(Byte) : HasTaken(c, taken)

(* A value that was found stays what it is. *)
IsSentValue(c) == ~IsWrite(Request(c)) /\ effect[c].status = OK
ValueKept(c) ==
  (effect[c] # NULL /\ IsSentValue(c)) =>
    Request(c).key \in DOMAIN kv /\ effect[c].body = kv[Request(c).key]

(* ShownFromRecord of one process. *)
Shows(c) ==
  (status[c] = "success" /\ ~IsWrite(Request(c))) =>
    Request(c).key \in DOMAIN kv /\ ShowsPart(kv[Request(c).key], response[c])

PerProcess(c) == Progress(c) /\ Arrives(c) /\ ValueKept(c) /\ Shows(c)

(* Only a value takes two calls.  Any other answer is one send(2), which   *)
(* cannot find the connection broken before it has copied something.       *)
OneCall ==
  /\ Len(calls) = 1
  /\ ~calls[1].sendfile
  /\ calls[1].started \/ (outbox[serving] = <<>> /\ peer[serving] # "broken")
(* The header goes first, and has the send buffer for itself.              *)
HeaderFirst ==
  Len(calls) = 2 =>
    /\ calls[1].bytes = SuccessHeader /\ ~calls[1].started
    /\ outbox[serving] = <<>>
Serving ==
  /\ serving = NULL <=> calls = <<>>
  /\ Len(calls) <= 2
  /\ HeaderFirst
  /\ serving # NULL => effect[serving] # NULL /\ (IsSentValue(serving) \/ OneCall)

Inv ==
  /\ TypeOK
  /\ DOMAIN response = Process
  /\ \A key \in DOMAIN kv : SizeFits(kv[key])
  /\ \A c \in Process : PerProcess(c)
  /\ Serving
  /\ DiesOnlySendingValues

-----------------------------------------------------------------------------
(* Types that the steps need. *)

LEMMA Types ==
  ASSUME TypeOK, DOMAIN response = Process
  PROVE  /\ DOMAIN command = Process
         /\ pc \in [Process -> {"main", "connected", "waiting", "sized", "exited"}]
         /\ link \in [Process -> {"none", "open", "eof", "reset", "closed", "aborted"}]
         /\ sent \in [Process -> {"nothing", "part", "whole"}]
         /\ inbox \in [Process -> Seq(Byte)]
         /\ status \in [Process -> {"running", "success", "failure", "crash"}]
         /\ peer \in [Process -> {"open", "half", "reset", "broken"}]
         /\ outbox \in [Process -> Seq(Byte)]
         /\ effect \in [Process -> Answer \cup {NULL}]
         /\ DOMAIN response = Process
         /\ \A c \in Process : Request(c).key \in Seq(Byte)
         /\ \A c \in Process : Request(c).value \in Seq(Byte) /\ SizeFits(Request(c).value)
BY ClientAssumption DEF TypeOK, ClientTypeOK, Request

LEMMA CallTypes ==
  ASSUME TypeOK
  PROVE  /\ calls \in Seq([bytes: Seq(Byte), sendfile: BOOLEAN, started: BOOLEAN])
         /\ Len(calls) \in Nat
         /\ \A i \in 1 .. Len(calls) :
              calls[i] \in [bytes: Seq(Byte), sendfile: BOOLEAN, started: BOOLEAN]
<1> DEFINE Call == [bytes: Seq(Byte), sendfile: BOOLEAN, started: BOOLEAN]
<1>1. calls \in Seq(Call)
  BY DEF TypeOK
<1> HIDE DEF Call
<1>2. Len(calls) \in Nat /\ \A i \in 1 .. Len(calls) : calls[i] \in Call
  BY <1>1, LenProperties, ElementOfSeq
<1> QED
  BY <1>1, <1>2 DEF Call

LEMMA OwedType ==
  ASSUME TypeOK, Len(calls) <= 2
  PROVE  Owed \in Seq(Byte) /\ \A c : ToCome(c) \in Seq(Byte)
<1>1. /\ Len(calls) \in Nat
      /\ \A i \in 1 .. Len(calls) : calls[i].bytes \in Seq(Byte)
  BY CallTypes
<1>2. <<>> \in Seq(Byte)
  BY EmptySeq
<1>3. CASE Len(calls) = 0
  BY <1>2, <1>3 DEF Owed, ToCome
<1>4. CASE Len(calls) = 1
  <2>1. Owed = calls[1].bytes
    BY <1>4 DEF Owed
  <2> QED
    BY <1>1, <1>2, <1>4, <2>1 DEF ToCome
<1>5. CASE Len(calls) = 2
  <2>1. Owed = calls[1].bytes \o calls[2].bytes
    BY <1>5 DEF Owed
  <2>2. calls[1].bytes \in Seq(Byte) /\ calls[2].bytes \in Seq(Byte)
    BY <1>1, <1>5
  <2>3. Owed \in Seq(Byte)
    BY <2>1, <2>2, ConcatProperties
  <2> QED
    BY <1>2, <2>3 DEF ToCome
<1>6. Len(calls) = 0 \/ Len(calls) = 1 \/ Len(calls) = 2
  <2>1. \A n \in Nat : n <= 2 => n = 0 \/ n = 1 \/ n = 2
    OBVIOUS
  <2>2. Len(calls) \in Nat /\ Len(calls) <= 2
    BY <1>1
  <2> QED
    BY <2>1, <2>2
<1> QED
  BY <1>3, <1>4, <1>5, <1>6

LEMMA AheadType ==
  ASSUME Inv, NEW c \in Process
  PROVE  /\ inbox[c] \in Seq(Byte) /\ outbox[c] \in Seq(Byte) /\ ToCome(c) \in Seq(Byte)
         /\ outbox[c] \o ToCome(c) \in Seq(Byte) /\ Ahead(c) \in Seq(Byte)
<1>1. inbox[c] \in Seq(Byte) /\ outbox[c] \in Seq(Byte)
  BY Types DEF Inv
<1>2. ToCome(c) \in Seq(Byte)
  BY OwedType DEF Inv, Serving
<1>3. outbox[c] \o ToCome(c) \in Seq(Byte)
  BY <1>1, <1>2, ConcatProperties
<1> QED
  BY <1>1, <1>2, <1>3, ConcatProperties DEF Ahead

-----------------------------------------------------------------------------
(* A process that a step has nothing to do with. *)

KvGrows == \A key \in DOMAIN kv : key \in DOMAIN kv' /\ kv'[key] = kv[key]

Undisturbed(d) ==
  /\ pc'[d] = pc[d] /\ sent'[d] = sent[d] /\ status'[d] = status[d]
  /\ response'[d] = response[d] /\ inbox'[d] = inbox[d]
  /\ peer'[d] = peer[d] /\ outbox'[d] = outbox[d] /\ effect'[d] = effect[d]
  /\ ToCome(d)' = ToCome(d)
  /\ running' = running \/ running' = FALSE
  /\ serving' # d \/ serving = d

LEMMA StillThere ==
  ASSUME NEW d \in Process, PerProcess(d), Undisturbed(d), command' = command, KvGrows
  PROVE  PerProcess(d)'
<1>1. Request(d)' = Request(d)
  BY DEF Request
<1>2. Progress(d)'
  BY DEF Progress, PerProcess, Undisturbed, Gone
<1>3. Arrives(d)'
  <2>1. ToSend(d)' = ToSend(d)
    <3>1. ToSend(d)' = Wire(Request(d)', effect'[d])
      BY DEF ToSend, Wire
    <3> QED
      BY <1>1, <3>1 DEF ToSend, Undisturbed
  <2>2. Ahead(d)' = Ahead(d)
    BY DEF Ahead, Undisturbed
  <2>3. \A lost : IsLost(d, lost) => IsLost(d, lost)'
    BY DEF IsLost, Undisturbed
  <2>4. \A taken \in Seq(Byte) : HasTaken(d, taken) => HasTaken(d, taken)'
    BY <2>1, <2>2, <2>3 DEF HasTaken, Undisturbed
  <2> QED
    BY <2>4 DEF Arrives, PerProcess, Undisturbed, Gone
<1>4. ValueKept(d)'
  BY <1>1 DEF ValueKept, IsSentValue, PerProcess, Undisturbed, KvGrows
<1>5. Shows(d)'
  BY <1>1 DEF Shows, PerProcess, Undisturbed, KvGrows
<1> QED
  BY <1>2, <1>3, <1>4, <1>5 DEF PerProcess

-----------------------------------------------------------------------------
(* A process ends. *)

(* What the server's kernel hears of it. *)
LEMMA HearsOfEnd ==
  ASSUME TypeOK, DOMAIN response = Process, NEW c \in Process, pc'[c] = "exited", Hears(c), peer[c] = "open"
  PROVE  /\ peer' \in [Process -> {"open", "half", "reset", "broken"}] /\ peer'[c] # "broken"
         /\ outbox' \in [Process -> Seq(Byte)] /\ (outbox'[c] = outbox[c] \/ outbox'[c] = <<>>)
         /\ \A d \in Process \ {c} : peer'[d] = peer[d] /\ outbox'[d] = outbox[d]
<1>1. peer \in [Process -> {"open", "half", "reset", "broken"}] /\ outbox \in [Process -> Seq(Byte)]
  BY Types
<1>2. <<>> \in Seq(Byte)
  BY EmptySeq
<1>3. Gone(c)'
  BY DEF Gone
<1>4. CASE link'[c] = "closed"
  <2>1. peer' = [peer EXCEPT ![c] = "half"] /\ outbox' = outbox
    BY <1>3, <1>4 DEF Hears
  <2> QED
    BY <1>1, <2>1
<1>5. CASE link'[c] = "aborted"
  <2>1. peer' = [peer EXCEPT ![c] = "reset"] /\ outbox' = [outbox EXCEPT ![c] = <<>>]
    BY <1>3, <1>5 DEF Hears
  <2> QED
    BY <1>1, <1>2, <2>1
<1>6. CASE link'[c] # "closed" /\ link'[c] # "aborted"
  <2>1. peer' = peer /\ outbox' = outbox
    BY <1>6 DEF Hears
  <2> QED
    BY <1>1, <2>1
<1> QED
  BY <1>4, <1>5, <1>6

LEMMA HearsNothing ==
  ASSUME NEW c, pc'[c] # "exited", Hears(c)
  PROVE  peer' = peer /\ outbox' = outbox
BY DEF Hears, Gone

IsReply(shown) ==
  /\ shown.read_size \in 0 .. HeaderSize
  /\ shown.status_code \in Byte
  /\ shown.array \in Seq(Byte)

LEMMA ExitKeepsInv ==
  ASSUME Inv, NEW c \in Process, ~Gone(c),
         NEW outcome \in {"success", "failure", "crash"}, NEW shown, NEW unread,
         Exits(c, outcome, shown, unread), Hears(c),
         UNCHANGED <<command, server, running, conn, serving, calls, kv, effect>>,
         sent' = sent \/ (outcome = "crash" /\ sent' = [sent EXCEPT ![c] = "part"]),
         shown = NULL \/ IsReply(shown),
         (outcome = "success" /\ ~IsWrite(Request(c))) =>
           Request(c).key \in DOMAIN kv /\ ShowsPart(kv[Request(c).key], shown)
  PROVE  Inv'
<1>1. /\ pc' = [pc EXCEPT ![c] = "exited"]
      /\ status' = [status EXCEPT ![c] = outcome]
      /\ response' = [response EXCEPT ![c] = shown]
      /\ inbox' = [inbox EXCEPT ![c] = <<>>]
      /\ link' = [link EXCEPT ![c] =
           IF link[c] = "none" THEN link[c] ELSE IF unread = <<>> THEN "closed" ELSE "aborted"]
  BY DEF Exits
<1>2. /\ pc \in [Process -> {"main", "connected", "waiting", "sized", "exited"}]
      /\ link \in [Process -> {"none", "open", "eof", "reset", "closed", "aborted"}]
      /\ sent \in [Process -> {"nothing", "part", "whole"}]
      /\ inbox \in [Process -> Seq(Byte)]
      /\ status \in [Process -> {"running", "success", "failure", "crash"}]
      /\ DOMAIN response = Process
      /\ TypeOK
  BY Types DEF Inv
<1>3. Progress(c) /\ status[c] = "running" /\ peer[c] = "open"
  BY DEF Inv, PerProcess, Progress
<1>4. /\ pc'[c] = "exited" /\ status'[c] = outcome /\ response'[c] = shown /\ inbox'[c] = <<>>
      /\ \A d \in Process \ {c} : pc'[d] = pc[d] /\ status'[d] = status[d]
                                   /\ response'[d] = response[d] /\ inbox'[d] = inbox[d]
      /\ DOMAIN response' = Process
  BY <1>1, <1>2
<1>5. /\ peer' \in [Process -> {"open", "half", "reset", "broken"}] /\ peer'[c] # "broken"
      /\ outbox' \in [Process -> Seq(Byte)] /\ (outbox'[c] = outbox[c] \/ outbox'[c] = <<>>)
      /\ \A d \in Process \ {c} : peer'[d] = peer[d] /\ outbox'[d] = outbox[d]
  BY <1>2, <1>3, <1>4, HearsOfEnd
<1>6. /\ command' = command /\ server' = server /\ running' = running /\ conn' = conn /\ serving' = serving
      /\ calls' = calls /\ kv' = kv /\ effect' = effect
  OBVIOUS
<1>7. /\ sent' \in [Process -> {"nothing", "part", "whole"}]
      /\ \A d \in Process \ {c} : sent'[d] = sent[d]
      /\ sent'[c] = "part" => outcome = "crash"
      /\ sent[c] # "nothing" => sent'[c] # "nothing"
  <2>1. sent[c] # "part"
    BY <1>3 DEF Progress
  <2>2. CASE sent' = sent
    BY <1>2, <2>1, <2>2
  <2>3. CASE outcome = "crash" /\ sent' = [sent EXCEPT ![c] = "part"]
    BY <1>2, <2>3
  <2> QED
    BY <2>2, <2>3
<1>8. TypeOK'
  <2>1. ClientTypeOK'
    <3>1. command' \in CommandLines
      BY <1>2, <1>6 DEF TypeOK, ClientTypeOK
    <3>2. pc' \in [Process -> {"main", "connected", "waiting", "sized", "exited"}]
      BY <1>1, <1>2
    <3>3. link' \in [Process -> {"none", "open", "eof", "reset", "closed", "aborted"}]
      BY <1>1, <1>2
    <3>4. inbox' \in [Process -> Seq(Byte)]
      <4>1. <<>> \in Seq(Byte)
        BY EmptySeq
      <4> QED
        BY <1>1, <1>2, <4>1
    <3>5. status' \in [Process -> {"running", "success", "failure", "crash"}]
      BY <1>1, <1>2
    <3>6. \A d \in Process : response'[d] = NULL \/
            /\ response'[d].read_size \in 0 .. HeaderSize
            /\ response'[d].status_code \in Byte
            /\ response'[d].array \in Seq(Byte)
      BY <1>2, <1>4 DEF TypeOK, ClientTypeOK, IsReply
    <3> QED
      BY <1>7, <3>1, <3>2, <3>3, <3>4, <3>5, <3>6 DEF ClientTypeOK
  <2>2. \A d \in Process : Len(outbox'[d]) <= SendBuffer /\ Len(inbox'[d]) <= ReceiveBuffer
    <3>1. Len(<<>>) = 0 /\ 0 <= SendBuffer /\ 0 <= ReceiveBuffer
      BY ConstantTypes
    <3>2. \A d \in Process : Len(outbox[d]) <= SendBuffer /\ Len(inbox[d]) <= ReceiveBuffer
      BY <1>2 DEF TypeOK
    <3> QED
      BY <1>4, <1>5, <3>1, <3>2
  <2> QED
    BY <1>2, <1>5, <1>6, <2>1, <2>2 DEF TypeOK
<1>9. PerProcess(c)'
  <2>1. Request(c)' = Request(c)
    BY <1>6 DEF Request
  <2>2. Progress(c)'
    BY <1>3, <1>4, <1>5, <1>6, <1>7 DEF Progress, Gone
  <2>3. Arrives(c)'
    BY <1>4 DEF Arrives, Gone
  <2>4. ValueKept(c)'
    BY <1>6, <2>1 DEF ValueKept, IsSentValue, Inv, PerProcess
  <2>5. Shows(c)'
    BY <1>4, <1>6, <2>1 DEF Shows
  <2> QED
    BY <2>2, <2>3, <2>4, <2>5 DEF PerProcess
<1>10. ASSUME NEW d \in Process \ {c} PROVE PerProcess(d)'
  <2>1. ToCome(d)' = ToCome(d)
    BY <1>6 DEF ToCome, Owed
  <2>2. Undisturbed(d)
    BY <1>4, <1>5, <1>6, <1>7, <2>1 DEF Undisturbed
  <2>3. KvGrows
    BY <1>6 DEF KvGrows
  <2> QED
    BY <1>6, <2>2, <2>3, StillThere DEF Inv
<1>11. Serving'
  <2>1. \A d : IsSentValue(d)' = IsSentValue(d)
    BY <1>6 DEF IsSentValue, Request
  <2>2. serving \in Process \cup {NULL}
    BY <1>2 DEF TypeOK
  <2>3. (serving # NULL /\ OneCall) => OneCall'
    BY <1>5, <1>6, <2>2 DEF OneCall
  <2>4. (serving # NULL /\ HeaderFirst) => HeaderFirst'
    BY <1>5, <1>6, <2>2 DEF HeaderFirst
  <2>5. serving = NULL => Len(calls) = 0
    BY EmptySeq DEF Serving, Inv
  <2>6. HeaderFirst'
    BY <1>6, <2>4, <2>5 DEF HeaderFirst, Serving, Inv
  <2> QED
    BY <1>6, <2>1, <2>3, <2>6 DEF Serving, Inv
<1>12. DiesOnlySendingValues'
  <2>1. server = "killed" => serving \in Process
    BY <1>2 DEF TypeOK, DiesOnlySendingValues, Inv
  <2> QED
    BY <1>4, <1>6, <2>1 DEF DiesOnlySendingValues, Inv, Request, Gone
<1> QED
  BY <1>4, <1>6, <1>8, <1>9, <1>10, <1>11, <1>12 DEF Inv

-----------------------------------------------------------------------------
(* The steps of the service that steps of the system stand for. *)

LEMMA ServiceReplies ==
  ASSUME NEW map, NEW request
  PROVE  S!Reply(map, request) = Reply(map, request) /\ S!Updated(map, request) = Updated(map, request)
         /\ S!Refusal = Refusal
BY DEF S!Reply, S!Updated, S!IsKeyValid, S!KeyCharacter, S!IsWrite, S!Refusal, S!Success,
       S!Inserted, S!Found, S!OK, S!CLIENT_ERROR,
       Reply, Updated, IsKeyValid, KeyCharacter, IsWrite, Refusal, Success, Inserted, Found, OK, CLIENT_ERROR

LEMMA ServiceWaits ==
  ASSUME UNCHANGED <<command, status, kv, effect>>
  PROVE  UNCHANGED S!vars
<1>1. [c \in Process |-> Request(c)]' = [c \in Process |-> Request(c)]
  BY DEF Request
<1>2. Told' = Told
  BY DEF Told
<1> QED
  BY <1>1, <1>2 DEF S!vars

WasGranted(c) == effect[c] # NULL /\ effect[c].status = OK

LEMMA ServiceTells ==
  ASSUME Inv, NEW c \in Process, ~Gone(c),
         NEW outcome \in {"success", "failure", "crash"}, NEW shown, NEW unread,
         Exits(c, outcome, shown, unread), UNCHANGED <<command, kv, effect>>,
         outcome = "success" => WasGranted(c)
  PROVE  S!Next
<1>1. status' = [status EXCEPT ![c] = outcome] /\ command' = command /\ kv' = kv /\ effect' = effect
  BY DEF Exits
<1>2. status \in [Process -> {"running", "success", "failure", "crash"}] /\ status[c] = "running"
  BY Types DEF Inv, PerProcess, Progress
<1>3. [d \in Process |-> Request(d)]' = [d \in Process |-> Request(d)]
  BY <1>1 DEF Request
<1>4. status'[c] = outcome /\ \A d \in Process \ {c} : status'[d] = status[d]
  BY <1>1, <1>2
<1>5. /\ Told[c] = NULL /\ DOMAIN Told = Process
      /\ Told' = [Told EXCEPT ![c] = IF outcome = "success" THEN "success" ELSE "failure"]
  BY <1>2, <1>4 DEF Told
<1>6. S!Tell(c)
  <2>1. CASE outcome = "success"
    <3>1. S!Granted(c)
      BY <2>1 DEF S!Granted, WasGranted, S!OK, OK
    <3> QED
      BY <1>1, <1>3, <1>5, <2>1, <3>1 DEF S!Tell
  <2>2. CASE outcome # "success"
    BY <1>1, <1>3, <1>5, <2>2 DEF S!Tell
  <2> QED
    BY <2>1, <2>2
<1> QED
  BY <1>6 DEF S!Next

-----------------------------------------------------------------------------
(* The steps of a process. *)

(* Every way to end, but for a kill in the middle of write(2). *)
Ends(c, outcome, shown, unread) ==
  /\ Exits(c, outcome, shown, unread)
  /\ outcome \in {"success", "failure", "crash"}
  /\ shown = NULL \/ IsReply(shown)
  /\ outcome = "success" =>
       /\ WasGranted(c)
       /\ ~IsWrite(Request(c)) =>
            Request(c).key \in DOMAIN kv /\ ShowsPart(kv[Request(c).key], shown)

LEMMA EndStep ==
  ASSUME Inv, NEW c \in Process, ~Gone(c), NEW outcome, NEW shown, NEW unread,
         Ends(c, outcome, shown, unread), Hears(c),
         UNCHANGED <<command, server, running, conn, serving, calls, kv, effect>>,
         sent' = sent \/ (outcome = "crash" /\ sent' = [sent EXCEPT ![c] = "part"])
  PROVE  Inv' /\ S!Next
<1>1. /\ Exits(c, outcome, shown, unread)
      /\ outcome \in {"success", "failure", "crash"}
      /\ shown = NULL \/ IsReply(shown)
      /\ outcome = "success" => WasGranted(c)
      /\ (outcome = "success" /\ ~IsWrite(Request(c))) =>
            Request(c).key \in DOMAIN kv /\ ShowsPart(kv[Request(c).key], shown)
  BY DEF Ends
<1>2. Inv'
  BY <1>1, ExitKeepsInv
<1>3. S!Next
  BY <1>1, ServiceTells
<1> QED
  BY <1>2, <1>3

LEMMA EarlyExit ==
  ASSUME NEW c, NEW outcome \in {"failure", "crash"}, ExitsEarly(c, outcome)
  PROVE  Ends(c, outcome, NULL, inbox[c])
BY DEF ExitsEarly, Ends

(* A step that only takes the process further. *)
LEMMA MoveKeepsInv ==
  ASSUME Inv, NEW c \in Process, TypeOK', DOMAIN response' = Process,
         UNCHANGED <<command, status, server, running, conn, peer, outbox, serving, calls, kv, effect>>,
         \A d \in Process \ {c} : /\ pc'[d] = pc[d] /\ sent'[d] = sent[d]
                                  /\ inbox'[d] = inbox[d] /\ response'[d] = response[d],
         ~Gone(c), ~Gone(c)', Progress(c)', Arrives(c)'
  PROVE  Inv'
<1>1. /\ command' = command /\ status' = status /\ server' = server /\ running' = running /\ conn' = conn /\ peer' = peer
      /\ outbox' = outbox /\ serving' = serving /\ calls' = calls /\ kv' = kv /\ effect' = effect
  OBVIOUS
<1>2. \A d \in Process \ {c} : PerProcess(d)'
  <2> SUFFICES ASSUME NEW d \in Process \ {c} PROVE PerProcess(d)'
    OBVIOUS
  <2>1. ToCome(d)' = ToCome(d)
    BY <1>1 DEF ToCome, Owed
  <2>2. Undisturbed(d)
    BY <1>1, <2>1 DEF Undisturbed
  <2>3. KvGrows
    BY <1>1 DEF KvGrows
  <2> QED
    BY <1>1, <2>2, <2>3, StillThere DEF Inv
<1>3. PerProcess(c)'
  <2>1. Request(c)' = Request(c)
    BY <1>1 DEF Request
  <2>2. status[c] = "running"
    BY DEF Inv, PerProcess, Progress
  <2>3. ValueKept(c)'
    BY <1>1, <2>1 DEF ValueKept, IsSentValue, Inv, PerProcess
  <2>4. Shows(c)'
    BY <1>1, <2>2 DEF Shows
  <2> QED
    BY <2>3, <2>4 DEF PerProcess
<1>4. Serving'
  BY <1>1 DEF Serving, OneCall, HeaderFirst, IsSentValue, Request, Inv
<1>5. DiesOnlySendingValues'
  <2>1. \A d \in Process : Gone(d) => Gone(d)'
    BY DEF Gone
  <2>2. serving \in Process \cup {NULL}
    BY DEF Inv, TypeOK
  <2> QED
    BY <1>1, <2>1, <2>2 DEF DiesOnlySendingValues, Inv, Request
<1> QED
  BY <1>1, <1>2, <1>3, <1>4, <1>5 DEF Inv

(* Before it has asked, a process has no answer. *)
LEMMA NotAnswered ==
  ASSUME Inv, NEW c \in Process, pc[c] \in {"main", "connected"}
  PROVE  effect[c] = NULL /\ sent[c] = "nothing" /\ ~Gone(c)
<1>1. Progress(c) /\ sent[c] \in {"nothing", "part", "whole"}
  BY Types DEF Inv, PerProcess
<1> QED
  BY <1>1 DEF Progress, Gone

LEMMA ConnectStep ==
  ASSUME Inv, NEW c \in Process, Connect(c), Hears(c),
         UNCHANGED <<server, running, conn, serving, calls, kv, effect>>
  PROVE  Inv' /\ UNCHANGED S!vars
<1>1. /\ pc[c] = "main" /\ pc' = [pc EXCEPT ![c] = "connected"]
      /\ link' = [link EXCEPT ![c] = "open"]
      /\ command' = command /\ sent' = sent /\ inbox' = inbox /\ response' = response /\ status' = status
  BY DEF Connect
<1>2. /\ pc \in [Process -> {"main", "connected", "waiting", "sized", "exited"}]
      /\ link \in [Process -> {"none", "open", "eof", "reset", "closed", "aborted"}]
  BY Types DEF Inv
<1>3. pc'[c] = "connected" /\ \A d \in Process \ {c} : pc'[d] = pc[d]
  BY <1>1, <1>2
<1>4. peer' = peer /\ outbox' = outbox
  BY <1>3, HearsNothing
<1>5. /\ server' = server /\ running' = running /\ conn' = conn /\ serving' = serving /\ calls' = calls
      /\ kv' = kv /\ effect' = effect
  OBVIOUS
<1>6. TypeOK'
  <2>1. pc' \in [Process -> {"main", "connected", "waiting", "sized", "exited"}]
    BY <1>1, <1>2
  <2>2. link' \in [Process -> {"none", "open", "eof", "reset", "closed", "aborted"}]
    BY <1>1, <1>2
  <2> QED
    BY <1>1, <1>4, <1>5, <2>1, <2>2 DEF Inv, TypeOK, ClientTypeOK
<1>7. effect[c] = NULL /\ sent[c] = "nothing" /\ ~Gone(c)
  BY <1>1, NotAnswered
<1>8. ~Gone(c)'
  BY <1>3 DEF Gone
<1>9. Progress(c)'
  BY <1>1, <1>3, <1>4, <1>5, <1>7 DEF Progress, Inv, PerProcess, Gone
<1>10. Arrives(c)'
  BY <1>3, <1>5, <1>7 DEF Arrives
<1>11. DOMAIN response' = Process
  BY <1>1 DEF Inv
<1>12. Inv'
  BY <1>1, <1>3, <1>4, <1>6, <1>7, <1>8, <1>9, <1>10, <1>11, MoveKeepsInv
<1> QED
  BY <1>1, <1>12, ServiceWaits

LEMMA WriteRequestStep ==
  ASSUME Inv, NEW c \in Process, WriteRequest(c), Hears(c),
         UNCHANGED <<server, running, conn, serving, calls, kv, effect>>
  PROVE  Inv' /\ UNCHANGED S!vars
<1>1. /\ pc[c] = "connected" /\ pc' = [pc EXCEPT ![c] = "waiting"]
      /\ sent' = [sent EXCEPT ![c] = "whole"]
      /\ link' = [link EXCEPT ![c] = IF link[c] = "eof" THEN "reset" ELSE link[c]]
      /\ command' = command /\ inbox' = inbox /\ response' = response /\ status' = status
  BY DEF WriteRequest
<1>2. /\ pc \in [Process -> {"main", "connected", "waiting", "sized", "exited"}]
      /\ link \in [Process -> {"none", "open", "eof", "reset", "closed", "aborted"}]
      /\ sent \in [Process -> {"nothing", "part", "whole"}]
  BY Types DEF Inv
<1>3. /\ pc'[c] = "waiting" /\ sent'[c] = "whole"
      /\ \A d \in Process \ {c} : pc'[d] = pc[d] /\ sent'[d] = sent[d]
  BY <1>1, <1>2
<1>4. peer' = peer /\ outbox' = outbox
  BY <1>3, HearsNothing
<1>5. /\ server' = server /\ running' = running /\ conn' = conn /\ serving' = serving /\ calls' = calls
      /\ kv' = kv /\ effect' = effect
  OBVIOUS
<1>6. TypeOK'
  <2>1. pc' \in [Process -> {"main", "connected", "waiting", "sized", "exited"}]
    BY <1>1, <1>2
  <2>2. link' \in [Process -> {"none", "open", "eof", "reset", "closed", "aborted"}]
    BY <1>1, <1>2
  <2>3. sent' \in [Process -> {"nothing", "part", "whole"}]
    BY <1>1, <1>2
  <2> QED
    BY <1>1, <1>4, <1>5, <2>1, <2>2, <2>3 DEF Inv, TypeOK, ClientTypeOK
<1>7. effect[c] = NULL /\ ~Gone(c)
  BY <1>1, NotAnswered
<1>8. ~Gone(c)'
  BY <1>3 DEF Gone
<1>9. Progress(c)'
  BY <1>1, <1>3, <1>4, <1>5, <1>7 DEF Progress, Inv, PerProcess, Gone
<1>10. Arrives(c)'
  BY <1>3, <1>5, <1>7 DEF Arrives
<1>11. DOMAIN response' = Process
  BY <1>1 DEF Inv
<1>12. Inv'
  BY <1>1, <1>3, <1>4, <1>6, <1>7, <1>8, <1>9, <1>10, <1>11, MoveKeepsInv
<1> QED
  BY <1>1, <1>12, ServiceWaits

LEMMA NumberTaken ==
  ASSUME Inv, NEW c \in Process, NEW size \in Nat
  PROVE  /\ TakenBy(c, size) \in 0 .. Len(inbox[c]) /\ TakenBy(c, size) <= size
         /\ TakenBy(c, size) = Lower(size, Len(inbox[c]))
         /\ Len(inbox[c]) \in Nat
<1>1. inbox[c] \in Seq(Byte)
  BY AheadType
<1>2. Len(inbox[c]) \in Nat
  BY <1>1, LenProperties
<1> QED
  BY <1>2 DEF TakenBy, Lower

(* The first read, when it is not the last. *)
LEMMA ReadHeaderStep ==
  ASSUME Inv, NEW c \in Process, ReadHeader(c), Hears(c),
         UNCHANGED <<server, running, conn, serving, calls, kv, effect>>
  PROVE  Inv' /\ [S!Next]_(S!vars)
<1> DEFINE n == TakenBy(c, HeaderSize)
           bytes == inbox[c]
           front == SubSeq(bytes, 1, n)
           back == SubSeq(bytes, n + 1, Len(bytes))
           buffer == Filled(front, HeaderSize)
<1>1. /\ n \in 0 .. Len(bytes) /\ n <= HeaderSize /\ Len(bytes) \in Nat
  <2>1. HeaderSize \in Nat
    BY DEF HeaderSize
  <2> QED
    BY <2>1, NumberTaken
<1>2. /\ pc[c] = "waiting" /\ command' = command /\ sent' = sent /\ ~Gone(c)
      /\ \/ Exits(c, "crash", NULL, back)
         \/ /\ ResponseMessages(buffer) = 2
            /\ pc' = [pc EXCEPT ![c] = "sized"]
            /\ inbox' = [inbox EXCEPT ![c] = back]
            /\ response' = [response EXCEPT ![c] =
                 [read_size |-> n, status_code |-> ResponseStatus(buffer),
                  array |-> Filled(<<>>, ResponseSize(buffer))]]
            /\ link' = link /\ status' = status
  BY DEF ReadHeader, Gone
<1>3. CASE Exits(c, "crash", NULL, back)
  <2>1. Ends(c, "crash", NULL, back)
    BY <1>3 DEF Ends
  <2> QED
    BY <1>2, <2>1, EndStep
<1>4. CASE /\ ResponseMessages(buffer) = 2
           /\ pc' = [pc EXCEPT ![c] = "sized"]
           /\ inbox' = [inbox EXCEPT ![c] = back]
           /\ response' = [response EXCEPT ![c] =
                 [read_size |-> n, status_code |-> ResponseStatus(buffer),
                  array |-> Filled(<<>>, ResponseSize(buffer))]]
           /\ link' = link /\ status' = status
  <2>1. bytes \in Seq(Byte)
    BY AheadType
  <2> HIDE DEF n, bytes
  <2>2. /\ front \in Seq(Byte) /\ Len(front) = n
        /\ back \in Seq(Byte) /\ Len(back) = Len(bytes) - n /\ front \o back = bytes
    <3>1. Halved(bytes, n)
      BY Halves
    <3> QED
      BY <1>1, <2>1, <3>1 DEF Halved
  <2> HIDE DEF front, back
  <2>3. buffer = Header(front)
    BY DEF Header
  <2> HIDE DEF buffer
  <2>4. Len(front) >= 2
    <3>1. Header(front)[2] = IF 2 <= Len(front) THEN front[2] ELSE 0
      <4>1. \A i \in 1 .. 11 : Header(front)[i] = IF i <= Len(front) THEN front[i] ELSE 0
        BY <2>2, BytesOfHeader
      <4> QED
        BY <4>1
    <3>2. Header(front)[2] = 2
      BY <1>4, <2>3 DEF ResponseMessages
    <3> QED
      BY <1>1, <2>2, <3>1, <3>2
  <2>5. effect[c] # NULL
    <3>1. bytes # <<>>
      <4>1. Len(<<>>) = 0
        BY EmptySeq
      <4> QED
        BY <1>1, <2>2, <2>4, <4>1
    <3> QED
      BY <3>1 DEF bytes, Inv, PerProcess, Progress
  <2>6. response' = [response EXCEPT ![c] = MadeOf(front)]
    BY <1>4, <2>2, <2>3 DEF MadeOf
  <2>7. /\ pc \in [Process -> {"main", "connected", "waiting", "sized", "exited"}]
        /\ inbox \in [Process -> Seq(Byte)] /\ DOMAIN response = Process
    BY Types DEF Inv
  <2>8. /\ pc'[c] = "sized" /\ inbox'[c] = back /\ response'[c] = MadeOf(front)
        /\ \A d \in Process \ {c} : pc'[d] = pc[d] /\ inbox'[d] = inbox[d] /\ response'[d] = response[d]
        /\ DOMAIN response' = Process
    BY <1>4, <2>6, <2>7
  <2>9. peer' = peer /\ outbox' = outbox
    BY <2>8, HearsNothing
  <2>10. /\ server' = server /\ running' = running /\ conn' = conn /\ serving' = serving /\ calls' = calls
         /\ kv' = kv /\ effect' = effect
    OBVIOUS
  <2>11. TypeOK'
    <3>1. pc' \in [Process -> {"main", "connected", "waiting", "sized", "exited"}]
      BY <1>4, <2>7
    <3>2. inbox' \in [Process -> Seq(Byte)]
      BY <1>4, <2>2, <2>7
    <3>3. \A d \in Process : response'[d] = NULL \/
            /\ response'[d].read_size \in 0 .. HeaderSize
            /\ response'[d].status_code \in Byte
            /\ response'[d].array \in Seq(Byte)
      <4>1. /\ MadeOf(front).read_size \in 0 .. HeaderSize
            /\ MadeOf(front).status_code \in Byte /\ MadeOf(front).array \in Seq(Byte)
        BY <1>1, <2>2, MadeTypes
      <4>2. \A d \in Process : response[d] = NULL \/
            /\ response[d].read_size \in 0 .. HeaderSize
            /\ response[d].status_code \in Byte
            /\ response[d].array \in Seq(Byte)
        BY DEF Inv, TypeOK, ClientTypeOK
      <4> QED
        BY <2>8, <4>1, <4>2
    <3>4. ClientTypeOK'
      BY <1>2, <1>4, <3>1, <3>2, <3>3 DEF Inv, TypeOK, ClientTypeOK
    <3>5. \A d \in Process : Len(outbox'[d]) <= SendBuffer /\ Len(inbox'[d]) <= ReceiveBuffer
      <4>1. \A d \in Process : Len(outbox[d]) <= SendBuffer /\ Len(inbox[d]) <= ReceiveBuffer
        BY DEF Inv, TypeOK
      <4>2. Len(bytes) <= ReceiveBuffer
        BY <4>1 DEF bytes
      <4>3. Len(back) <= ReceiveBuffer
        BY <1>1, <2>2, <4>2, ConstantTypes
      <4> QED
        BY <2>8, <2>9, <4>1, <4>3
    <3> QED
      BY <2>9, <2>10, <3>4, <3>5 DEF Inv, TypeOK
  <2>12. ~Gone(c)'
    BY <2>8 DEF Gone
  <2>13. Progress(c)'
    BY <1>2, <1>4, <2>5, <2>8, <2>9, <2>10, <2>12 DEF Progress, Inv, PerProcess
  <2>14. Arrives(c)'
    <3> DEFINE between == outbox[c] \o ToCome(c)
    <3>1. PICK lost \in Seq(Byte) : IsLost(c, lost) /\ <<>> \o (Ahead(c) \o lost) = ToSend(c)
      <4>1. PICK taken \in Seq(Byte) : HasTaken(c, taken)
        BY <1>2, <2>5 DEF Inv, PerProcess, Arrives
      <4> QED
        BY <1>2, <4>1 DEF HasTaken
    <3> DEFINE far == between \o lost
    <3>2. between \in Seq(Byte) /\ far \in Seq(Byte)
      BY AheadType, ConcatProperties
    <3>3. bytes \o far = ToSend(c)
      <4>1. Ahead(c) \o lost \in Seq(Byte)
        BY AheadType, ConcatProperties
      <4>2. <<>> \o (Ahead(c) \o lost) = Ahead(c) \o lost
        BY <4>1, ConcatEmptySeq
      <4>3. Ahead(c) = bytes \o between
        BY DEF Ahead, bytes
      <4> HIDE DEF between
      <4>4. (bytes \o between) \o lost = bytes \o (between \o lost)
        <5>1. Brackets(bytes, between, lost)
          BY Associative
        <5> QED
          BY <2>1, <3>2, <5>1 DEF Brackets
      <4> QED
        BY <3>1, <4>2, <4>3, <4>4
    <3>4. ToCome(c)' = ToCome(c)
      BY <2>10 DEF ToCome, Owed
    <3>5. Ahead(c)' \o lost = back \o far
      <4>1. Ahead(c)' = back \o between
        BY <2>8, <2>9, <3>4 DEF Ahead
      <4> HIDE DEF between
      <4>2. Brackets(back, between, lost)
        BY Associative
      <4> QED
        BY <2>2, <3>2, <4>1, <4>2 DEF Brackets
    <3>6. ToSend(c)' = ToSend(c) /\ IsLost(c, lost)'
      BY <1>2, <2>10, <3>1 DEF ToSend, Request, IsLost
    <3> HIDE DEF far
    <3>7. front \o (back \o far) = bytes \o far
      <4>1. Brackets(front, back, far)
        BY Associative
      <4> QED
        BY <2>2, <3>2, <4>1 DEF Brackets
    <3>8. PICK taken : taken = front
      OBVIOUS
    <3>9. HasTaken(c, taken)'
      <4>1. taken \o (Ahead(c)' \o lost) = ToSend(c)' /\ IsLost(c, lost)'
        BY <3>3, <3>5, <3>6, <3>7, <3>8
      <4>2. pc'[c] = "sized" /\ Len(taken) <= HeaderSize /\ response'[c] = MadeOf(taken)
        BY <1>1, <2>2, <2>8, <3>8
      <4> QED
        BY <4>1, <4>2 DEF HasTaken
    <3> QED
      BY <2>2, <2>5, <2>10, <3>8, <3>9 DEF Arrives
  <2>15. Inv'
    BY <1>2, <1>4, <2>8, <2>9, <2>10, <2>11, <2>12, <2>13, <2>14, MoveKeepsInv
  <2> QED
    BY <1>2, <1>4, <2>10, <2>15, ServiceWaits
<1> QED
  BY <1>2, <1>3, <1>4

(* A success was granted, and what is shown is of the value. *)
LEMMA SuccessEnds ==
  ASSUME Inv, NEW c \in Process, pc[c] = "sized", NEW size, size = Len(response[c].array),
         NEW n, n = TakenBy(c, size), NEW reply,
         reply = [response[c] EXCEPT !.array = Filled(SubSeq(inbox[c], 1, n), size)],
         Succeeds(reply.status_code), NEW unread, Exits(c, "success", reply, unread)
  PROVE  Ends(c, "success", reply, unread)
<1> DEFINE near == inbox[c]
           between == outbox[c] \o ToCome(c)
<1>1. effect[c] # NULL /\ effect[c] \in Answer
  BY Types DEF Inv, PerProcess, Arrives
<1>2. PICK taken \in Seq(Byte), lost \in Seq(Byte) :
        /\ taken \o (Ahead(c) \o lost) = Wire(Request(c), effect[c])
        /\ Len(taken) <= HeaderSize /\ response[c] = MadeOf(taken)
  <2>1. PICK taken \in Seq(Byte) : HasTaken(c, taken)
    BY <1>1 DEF Inv, PerProcess, Arrives, Gone
  <2> QED
    BY <2>1 DEF HasTaken, ToSend
<1> DEFINE far == between \o lost
<1>3. /\ near \in Seq(Byte) /\ far \in Seq(Byte) /\ near \o far = Ahead(c) \o lost
      /\ near \o far \in Seq(Byte)
  <2>1. /\ near \in Seq(Byte) /\ between \in Seq(Byte) /\ far \in Seq(Byte)
        /\ near \o between = Ahead(c) /\ Ahead(c) \o lost \in Seq(Byte)
    BY AheadType, ConcatProperties DEF Ahead
  <2> HIDE DEF near, between
  <2>2. Brackets(near, between, lost)
    BY Associative
  <2>3. near \o far = Ahead(c) \o lost
    BY <2>1, <2>2 DEF Brackets
  <2> QED
    BY <2>1, <2>3
<1>4. /\ taken \o (near \o far) = Wire(Request(c), effect[c])
      /\ Len(taken) <= HeaderSize /\ response[c] = MadeOf(taken)
  BY <1>3, <1>2
<1>5. /\ response[c].read_size = Len(taken) /\ Len(taken) \in 0 .. HeaderSize
      /\ response[c].status_code = Header(taken)[7] /\ response[c].status_code \in Byte
      /\ size = ResponseSize(Header(taken)) /\ size \in Nat
  <2>1. ResponseSize(Header(taken)) \in Nat
    BY BytesOfHeader, SizeOfHeader
  <2> QED
    BY <1>4, <2>1, MadeTypes
<1> DEFINE shown == Filled(SubSeq(near, 1, n), size)
<1>6. /\ reply.read_size = Len(taken) /\ reply.status_code = Header(taken)[7] /\ reply.array = shown
  <2>1. reply = [MadeOf(taken) EXCEPT !.array = shown]
    BY <1>4
  <2> HIDE DEF shown
  <2>2. reply.read_size = MadeOf(taken).read_size /\ reply.status_code = MadeOf(taken).status_code
        /\ reply.array = shown
    BY <2>1 DEF MadeOf
  <2> QED
    BY <1>4, <1>5, <2>2
<1>7. n \in 0 .. Len(near) /\ n = Lower(size, Len(near))
  BY <1>5, NumberTaken
<1>8. shown \in Seq(Byte)
  <2>1. SubSeq(near, 1, n) \in Seq(Byte)
    <3>1. Halved(near, n)
      BY Halves
    <3> QED
      BY <1>3, <1>7, <3>1 DEF Halved
  <2> QED
    BY <1>5, <2>1, FilledBytes
<1> HIDE DEF shown
<1>9. IsReply(reply)
  BY <1>5, <1>6, <1>8 DEF IsReply
<1>10. effect[c].status = OK /\ Len(taken) >= 7
  <2>1. Header(taken)[7] = OK
    BY <1>6 DEF Succeeds
  <2> QED
    BY <1>3, <1>1, <1>4, <2>1, StatusRead
<1>11. ASSUME ~IsWrite(Request(c))
       PROVE  Request(c).key \in DOMAIN kv /\ ShowsPart(kv[Request(c).key], reply)
  <2> DEFINE value == kv[Request(c).key]
  <2>1. Request(c).key \in DOMAIN kv /\ effect[c].body = value
    BY <1>1, <1>10, <1>11 DEF Inv, PerProcess, ValueKept, IsSentValue
  <2>2. value \in Seq(Byte) /\ SizeFits(value)
    BY <2>1 DEF Inv, TypeOK
  <2>3. Wire(Request(c), effect[c]) = SuccessHeader \o Transferred(value)
    BY <1>10, <1>11, <2>1, ValueCalls
  <2> HIDE DEF value
  <2>4. taken \o (near \o far) = SuccessHeader \o Transferred(value)
    BY <1>3, <1>4, <2>3
  <2>5. Len(taken) <= 11
    BY <1>4 DEF HeaderSize
  <2> HIDE DEF near, far
  <2>6. reply.array = Filled(SubSeq(near, 1, n), size)
    BY <1>6 DEF shown
  <2>7. ShowsPart(value, reply)
    BY <1>3, <1>5, <1>6, <1>7, <1>10, <2>2, <2>4, <2>5, <2>6, ValueShown
  <2> QED
    BY <2>1, <2>7 DEF value
<1> QED
  BY <1>1, <1>9, <1>10, <1>11 DEF Ends, WasGranted

(* The second read. *)
LEMMA ReadValueStep ==
  ASSUME Inv, NEW c \in Process, ReadValue(c), Hears(c),
         UNCHANGED <<server, running, conn, serving, calls, kv, effect>>
  PROVE  Inv' /\ [S!Next]_(S!vars)
<1>1. PICK size, n, reply, rest :
        /\ size = Len(response[c].array)
        /\ n = TakenBy(c, size)
        /\ reply = [response[c] EXCEPT !.array = Filled(SubSeq(inbox[c], 1, n), size)]
        /\ Returns(c, reply, rest) \/ FreesArgv(c, rest)
  BY DEF ReadValue
<1>2. pc[c] = "sized" /\ command' = command /\ sent' = sent /\ ~Gone(c)
  BY DEF ReadValue, Gone
<1>3. \E outcome, shown : Ends(c, outcome, shown, rest)
  <2>1. CASE FreesArgv(c, rest)
    <3>1. Ends(c, "crash", NULL, rest)
      BY <2>1 DEF FreesArgv, Ends
    <3> QED
      BY <3>1
  <2>2. CASE Returns(c, reply, rest) /\ Succeeds(reply.status_code)
    <3>1. Exits(c, "success", reply, rest)
      BY <2>2 DEF Returns
    <3>2. Ends(c, "success", reply, rest)
      BY <1>1, <1>2, <2>2, <3>1, SuccessEnds
    <3> QED
      BY <3>2
  <2>3. CASE Returns(c, reply, rest) /\ ~Succeeds(reply.status_code)
    <3>1. Ends(c, "failure", NULL, rest)
      BY <2>3 DEF Returns, Ends
    <3> QED
      BY <3>1
  <2> QED
    BY <1>1, <2>1, <2>2, <2>3
<1> QED
  BY <1>2, <1>3, EndStep

LEMMA ProcessStep ==
  ASSUME Inv, NEW c \in Process, ClientStep(c)
  PROVE  Inv' /\ [S!Next]_(S!vars)
<1>1. Hears(c) /\ UNCHANGED <<server, running, conn, serving, calls, kv, effect>>
  BY DEF ClientStep
<1>2. CASE Connect(c)
  BY <1>1, <1>2, ConnectStep
<1>3. CASE WriteRequest(c)
  BY <1>1, <1>3, WriteRequestStep
<1>4. CASE ReadHeader(c)
  BY <1>1, <1>4, ReadHeaderStep
<1>5. CASE ReadValue(c)
  BY <1>1, <1>5, ReadValueStep
<1>6. CASE ConnectFails(c) \/ FileFails(c) \/ WriteFails(c) \/ ReadFails(c)
  <2>1. /\ ~Gone(c) /\ command' = command /\ sent' = sent
        /\ \E outcome \in {"failure", "crash"} : ExitsEarly(c, outcome)
    BY <1>6 DEF ConnectFails, FileFails, WriteFails, ReadFails, Gone
  <2>2. \E outcome : Ends(c, outcome, NULL, inbox[c])
    BY <2>1, EarlyExit
  <2> QED
    BY <1>1, <2>1, <2>2, EndStep
<1> QED
  BY <1>2, <1>3, <1>4, <1>5, <1>6 DEF ClientStep, Run

LEMMA KillStep ==
  ASSUME Inv, NEW c \in Process, ClientKilled(c)
  PROVE  Inv' /\ [S!Next]_(S!vars)
<1>1. /\ Hears(c) /\ UNCHANGED <<server, running, conn, serving, calls, kv, effect>>
      /\ ~Gone(c) /\ command' = command /\ ExitsEarly(c, "crash")
      /\ sent' = sent \/ sent' = [sent EXCEPT ![c] = "part"]
  BY DEF ClientKilled, Kill, Gone
<1>2. Ends(c, "crash", NULL, inbox[c])
  BY <1>1, EarlyExit
<1> QED
  BY <1>1, <1>2, EndStep

-----------------------------------------------------------------------------
(* The network, and the end of connections. *)

(* Steps that concern one connection, and tell nobody anything. *)
LEMMA OneConnection ==
  ASSUME Inv, NEW c \in Process, TypeOK',
         UNCHANGED <<command, pc, sent, response, status, kv, effect>>,
         running' = running \/ running' = FALSE,
         \A d \in Process \ {c} : /\ inbox'[d] = inbox[d] /\ outbox'[d] = outbox[d]
                                  /\ peer'[d] = peer[d] /\ ToCome(d)' = ToCome(d)
                                  /\ (serving' # d \/ serving = d),
         Progress(c)', Arrives(c)', Serving', DiesOnlySendingValues'
  PROVE  Inv' /\ UNCHANGED S!vars
<1>1. /\ command' = command /\ pc' = pc /\ sent' = sent /\ response' = response
      /\ status' = status /\ kv' = kv /\ effect' = effect
  OBVIOUS
<1>2. KvGrows
  BY <1>1 DEF KvGrows
<1>3. ASSUME NEW d \in Process \ {c} PROVE PerProcess(d)'
  <2>1. Undisturbed(d)
    BY <1>1 DEF Undisturbed
  <2> QED
    BY <1>1, <1>2, <2>1, StillThere DEF Inv
<1>4. PerProcess(c)'
  <2>1. Request(c)' = Request(c)
    BY <1>1 DEF Request
  <2>2. ValueKept(c)'
    BY <1>1, <2>1 DEF ValueKept, IsSentValue, Inv, PerProcess
  <2>3. Shows(c)'
    BY <1>1, <2>1 DEF Shows, Inv, PerProcess
  <2> QED
    BY <2>2, <2>3 DEF PerProcess
<1>5. Inv'
  BY <1>1, <1>3, <1>4 DEF Inv
<1> QED
  BY <1>1, <1>5, ServiceWaits

(* Steps that move no byte. *)
LEMMA NothingMoves ==
  ASSUME Inv, TypeOK',
         UNCHANGED <<command, pc, sent, inbox, response, status, peer, outbox, serving, calls, kv, effect>>,
         running' = running \/ running' = FALSE,
         server' = "killed" => server = "killed" \/ (serving # NULL /\ Gone(serving) /\ IsSentValue(serving))
  PROVE  Inv' /\ UNCHANGED S!vars
<1>1. /\ command' = command /\ pc' = pc /\ sent' = sent /\ inbox' = inbox /\ response' = response
      /\ status' = status /\ peer' = peer /\ outbox' = outbox /\ serving' = serving /\ calls' = calls
      /\ kv' = kv /\ effect' = effect
  OBVIOUS
<1>2. KvGrows
  BY <1>1 DEF KvGrows
<1>3. ASSUME NEW d \in Process PROVE PerProcess(d)'
  <2>1. ToCome(d)' = ToCome(d)
    BY <1>1 DEF ToCome, Owed
  <2>2. Undisturbed(d)
    BY <1>1, <2>1 DEF Undisturbed
  <2> QED
    BY <1>1, <1>2, <2>2, StillThere DEF Inv
<1>4. Serving'
  BY <1>1 DEF Serving, OneCall, HeaderFirst, IsSentValue, Request, Inv
<1>5. DiesOnlySendingValues'
  BY <1>1 DEF DiesOnlySendingValues, IsSentValue, Request, Gone, Inv
<1>6. Inv'
  BY <1>1, <1>3, <1>4, <1>5 DEF Inv
<1> QED
  BY <1>1, <1>6, ServiceWaits

LEMMA AcceptStep ==
  ASSUME Inv, NEW c \in Process, Accept(c) \/ CloseIdle(c)
  PROVE  Inv' /\ UNCHANGED S!vars
<1>1. /\ \/ conn' = [conn EXCEPT ![c] = "open"] \/ conn' = [conn EXCEPT ![c] = "closed"]
      /\ command' = command /\ pc' = pc /\ link' = link /\ sent' = sent /\ inbox' = inbox
      /\ response' = response /\ status' = status /\ server' = server /\ running' = running /\ peer' = peer
      /\ outbox' = outbox /\ serving' = serving /\ calls' = calls /\ kv' = kv /\ effect' = effect
  BY DEF Accept, CloseIdle, clientVars
<1>2. TypeOK'
  <2>1. conn \in [Process -> {"none", "open", "closed"}]
    BY DEF Inv, TypeOK
  <2>2. conn' \in [Process -> {"none", "open", "closed"}]
    BY <1>1, <2>1
  <2> QED
    BY <1>1, <2>2 DEF Inv, TypeOK, ClientTypeOK
<1> QED
  BY <1>1, <1>2, NothingMoves

LEMMA DeliverEndStep ==
  ASSUME Inv, NEW c \in Process, DeliverEnd(c)
  PROVE  Inv' /\ UNCHANGED S!vars
<1>1. /\ \E end \in {"reset", "eof"} : link' = [link EXCEPT ![c] = end]
      /\ command' = command /\ pc' = pc /\ conn' = conn /\ sent' = sent /\ inbox' = inbox
      /\ response' = response /\ status' = status /\ server' = server /\ running' = running /\ peer' = peer
      /\ outbox' = outbox /\ serving' = serving /\ calls' = calls /\ kv' = kv /\ effect' = effect
  BY DEF DeliverEnd, serverVars
<1>2. TypeOK'
  <2>1. link \in [Process -> {"none", "open", "eof", "reset", "closed", "aborted"}]
    BY DEF Inv, TypeOK, ClientTypeOK
  <2>2. link' \in [Process -> {"none", "open", "eof", "reset", "closed", "aborted"}]
    BY <1>1, <2>1
  <2> QED
    BY <1>1, <2>2 DEF Inv, TypeOK, ClientTypeOK
<1> QED
  BY <1>1, <1>2, NothingMoves

(* The server ends. *)
LEMMA EndsTypes ==
  ASSUME Inv, NEW how \in {"stopped", "killed"}, ServerEnds(how), UNCHANGED <<serving, calls>>
  PROVE  /\ TypeOK' /\ server' = how /\ running' = running
         /\ UNCHANGED <<command, pc, sent, inbox, response, status, peer, outbox, serving, calls, kv, effect>>
<1>1. /\ server' = how /\ running' = running
      /\ command' = command /\ pc' = pc /\ sent' = sent /\ inbox' = inbox
      /\ response' = response /\ status' = status /\ peer' = peer
      /\ outbox' = outbox /\ serving' = serving /\ calls' = calls /\ kv' = kv /\ effect' = effect
  BY DEF ServerEnds
<1>2. conn \in [Process -> {"none", "open", "closed"}]
      /\ link \in [Process -> {"none", "open", "eof", "reset", "closed", "aborted"}]
  BY DEF Inv, TypeOK, ClientTypeOK
<1>3. conn' \in [Process -> {"none", "open", "closed"}]
  BY <1>2 DEF ServerEnds
<1>4. link' \in [Process -> {"none", "open", "eof", "reset", "closed", "aborted"}]
  BY <1>2 DEF ServerEnds
<1>5. TypeOK'
  BY <1>1, <1>3, <1>4 DEF Inv, TypeOK, ClientTypeOK
<1> QED
  BY <1>1, <1>5

LEMMA StopStep ==
  ASSUME Inv, Stop
  PROVE  Inv' /\ UNCHANGED S!vars
<1>1. ServerEnds("stopped") /\ UNCHANGED <<serving, calls>>
  BY DEF Stop
<1>2. /\ TypeOK' /\ server' = "stopped" /\ running' = running
      /\ UNCHANGED <<command, pc, sent, inbox, response, status, peer, outbox, serving, calls, kv, effect>>
  BY <1>1, EndsTypes
<1> QED
  BY <1>2, NothingMoves

(* It is killed while it sends a value: any other answer is a call that is *)
(* not made on a connection that is broken, or has copied something.       *)
LEMMA BrokenPipeStep ==
  ASSUME Inv, BrokenPipe
  PROVE  Inv' /\ UNCHANGED S!vars
<1>1. ServerEnds("killed") /\ UNCHANGED <<serving, calls>>
  BY DEF BrokenPipe
<1>2. /\ TypeOK' /\ server' = "killed" /\ running' = running
      /\ UNCHANGED <<command, pc, sent, inbox, response, status, peer, outbox, serving, calls, kv, effect>>
  BY <1>1, EndsTypes
<1>3. serving # NULL /\ serving \in Process /\ peer[serving] = "broken"
  BY DEF BrokenPipe, Inv, Serving, TypeOK
<1>4. Gone(serving)
  BY <1>3 DEF Inv, PerProcess, Progress
<1>5. ~OneCall
  <2>1. Head(calls) = calls[1]
    OBVIOUS
  <2> QED
    BY <1>3, <2>1 DEF OneCall, BrokenPipe
<1>6. IsSentValue(serving)
  BY <1>3, <1>5 DEF Inv, Serving
<1> QED
  BY <1>2, <1>3, <1>4, <1>6, NothingMoves

(* Bytes go from one kernel to the other. *)
LEMMA DeliverStep ==
  ASSUME Inv, NEW c \in Process, Deliver(c)
  PROVE  Inv' /\ UNCHANGED S!vars
<1> DEFINE bytes == outbox[c]
           room == ReceiveBuffer - Len(inbox[c])
<1>1. PICK n \in 1 .. Lower(Len(bytes), room) :
        /\ inbox' = [inbox EXCEPT ![c] = inbox[c] \o SubSeq(bytes, 1, n)]
        /\ outbox' = [outbox EXCEPT ![c] = SubSeq(bytes, n + 1, Len(bytes))]
  BY DEF Deliver
<1>2. /\ ~Gone(c)
      /\ command' = command /\ pc' = pc /\ link' = link /\ conn' = conn /\ sent' = sent
      /\ response' = response /\ status' = status /\ server' = server /\ running' = running /\ peer' = peer
      /\ serving' = serving /\ calls' = calls /\ kv' = kv /\ effect' = effect
  BY DEF Deliver
<1> DEFINE front == SubSeq(bytes, 1, n)
           back == SubSeq(bytes, n + 1, Len(bytes))
           near == inbox[c]
           far == ToCome(c)
<1>3. near \in Seq(Byte) /\ bytes \in Seq(Byte) /\ far \in Seq(Byte) /\ Ahead(c) = near \o (bytes \o far)
  BY AheadType DEF Ahead
<1>4. Len(near) <= ReceiveBuffer /\ Len(bytes) <= SendBuffer
  BY DEF Inv, TypeOK
<1>5. inbox \in [Process -> Seq(Byte)] /\ outbox \in [Process -> Seq(Byte)]
  BY Types DEF Inv
<1>6. inbox' = [inbox EXCEPT ![c] = near \o front] /\ outbox' = [outbox EXCEPT ![c] = back]
  BY <1>1
<1>7. n \in 1 .. Len(bytes) /\ n \in 0 .. Len(bytes) /\ n + Len(near) <= ReceiveBuffer
  <2>1. Len(bytes) \in Nat /\ Len(near) \in Nat /\ ReceiveBuffer \in Nat
    BY <1>3, LenProperties, ConstantTypes
  <2> HIDE DEF bytes
  <2> QED
    BY <2>1 DEF Lower
<1>8. bytes # <<>>
  <2>1. Len(<<>>) = 0
    BY EmptySeq
  <2> QED
    BY <1>7, <2>1
<1>9. effect[c] # NULL
  BY <1>8 DEF Inv, PerProcess, Progress
<1> HIDE DEF bytes, room, near, far
<1>10. /\ front \in Seq(Byte) /\ Len(front) = n
       /\ back \in Seq(Byte) /\ Len(back) = Len(bytes) - n /\ front \o back = bytes
  <2>1. Halved(bytes, n)
    BY Halves
  <2> QED
    BY <1>3, <1>7, <2>1 DEF Halved
<1> HIDE DEF front, back
<1>11. near \o front \in Seq(Byte) /\ Len(near \o front) = Len(near) + n /\ Len(near) \in Nat
  <2>1. Joined(near, front)
    BY Joins
  <2> QED
    BY <1>3, <1>10, <2>1 DEF Joined
<1> DEFINE nearer == near \o front
<1>12. /\ inbox'[c] = nearer /\ outbox'[c] = back
       /\ \A d \in Process \ {c} : inbox'[d] = inbox[d] /\ outbox'[d] = outbox[d]
  BY <1>5, <1>6
<1>13. TypeOK'
  <2>1. inbox' \in [Process -> Seq(Byte)] /\ outbox' \in [Process -> Seq(Byte)]
    BY <1>5, <1>6, <1>10, <1>11
  <2>2. \A d \in Process : Len(outbox'[d]) <= SendBuffer /\ Len(inbox'[d]) <= ReceiveBuffer
    <3>1. \A d \in Process : Len(outbox[d]) <= SendBuffer /\ Len(inbox[d]) <= ReceiveBuffer
      BY DEF Inv, TypeOK
    <3>2. Len(bytes) \in Nat
      BY <1>3, LenProperties
    <3>3. Len(nearer) <= ReceiveBuffer /\ Len(back) <= SendBuffer
      BY <1>4, <1>7, <1>10, <1>11, <3>2, ConstantTypes
    <3> HIDE DEF nearer
    <3> QED
      BY <1>12, <3>1, <3>3
  <2> QED
    BY <1>2, <2>1, <2>2 DEF Inv, TypeOK, ClientTypeOK
<1>14. \A d \in Process : ToCome(d)' = ToCome(d)
  BY <1>2 DEF ToCome, Owed
<1>15. Ahead(c)' = Ahead(c)
  <2>1. Ahead(c)' = nearer \o (back \o far)
    BY <1>12, <1>14 DEF Ahead, far
  <2>2. back \o far \in Seq(Byte)
    BY <1>3, <1>10, ConcatProperties
  <2>3. nearer \o (back \o far) = near \o (front \o (back \o far))
    <3> DEFINE rest == back \o far
    <3>1. Brackets(near, front, rest)
      BY Associative
    <3> HIDE DEF rest
    <3>2. rest \in Seq(Byte)
      BY <2>2 DEF rest
    <3>3. nearer \o rest = near \o (front \o rest)
      BY <1>3, <1>10, <3>1, <3>2 DEF Brackets
    <3> QED
      BY <3>3 DEF rest
  <2>4. front \o (back \o far) = bytes \o far
    <3>1. Brackets(front, back, far)
      BY Associative
    <3> QED
      BY <1>3, <1>10, <3>1 DEF Brackets
  <2> QED
    BY <1>3, <2>1, <2>3, <2>4
<1>16. Progress(c)'
  BY <1>2, <1>9 DEF Progress, Inv, PerProcess, Gone
<1>17. Arrives(c)'
  <2>1. ToSend(c)' = ToSend(c) /\ \A lost : IsLost(c, lost) => IsLost(c, lost)'
    BY <1>2 DEF ToSend, Request, IsLost
  <2>2. PICK taken \in Seq(Byte) : HasTaken(c, taken)
    BY <1>2, <1>9 DEF Inv, PerProcess, Arrives
  <2>3. HasTaken(c, taken)'
    BY <1>2, <1>15, <2>1, <2>2 DEF HasTaken
  <2> QED
    BY <1>2, <1>9, <2>3 DEF Arrives
<1>18. Serving'
  <2>1. \A d : IsSentValue(d)' = IsSentValue(d)
    BY <1>2 DEF IsSentValue, Request
  <2>2. (serving # NULL /\ OneCall) => OneCall'
    <3>1. serving \in Process \cup {NULL}
      BY DEF Inv, TypeOK
    <3>2. CASE serving = c
      BY <1>2, <1>8, <3>2 DEF OneCall, bytes
    <3>3. CASE serving # c
      BY <1>2, <1>12, <3>1, <3>3 DEF OneCall
    <3> QED
      BY <3>2, <3>3
  <2>3. HeaderFirst'
    <3>1. Len(calls) = 2 => serving \in Process /\ serving # c
      <4> SUFFICES ASSUME Len(calls) = 2
                   PROVE  serving \in Process /\ serving # c
        OBVIOUS
      <4>1. serving \in Process
        <5>1. calls # <<>>
          BY EmptySeq
        <5>2. serving # NULL /\ serving \in Process \cup {NULL}
          BY <5>1 DEF Inv, Serving, TypeOK
        <5> QED
          BY <5>2
      <4>2. outbox[serving] = <<>>
        BY DEF Inv, Serving, HeaderFirst
      <4>3. outbox[c] # <<>>
        BY <1>8, EmptySeq DEF bytes
      <4> QED
        BY <4>1, <4>2, <4>3
    <3> QED
      BY <1>2, <1>12, <3>1 DEF HeaderFirst, Serving, Inv
  <2> QED
    BY <1>2, <2>1, <2>2, <2>3 DEF Serving, Inv
<1>19. DiesOnlySendingValues'
  BY <1>2 DEF DiesOnlySendingValues, Inv, Request, Gone
<1> QED
  BY <1>2, <1>12, <1>13, <1>14, <1>16, <1>17, <1>18, <1>19, OneConnection

(* What still arrives at a process that is gone is thrown away. *)
LEMMA RejectStep ==
  ASSUME Inv, NEW c \in Process, Reject(c)
  PROVE  Inv' /\ UNCHANGED S!vars
<1>1. /\ Gone(c) /\ outbox[c] # <<>>
      /\ peer' = [peer EXCEPT ![c] = "broken"] /\ outbox' = [outbox EXCEPT ![c] = <<>>]
      /\ command' = command /\ pc' = pc /\ link' = link /\ conn' = conn /\ sent' = sent
      /\ inbox' = inbox /\ response' = response /\ status' = status /\ server' = server /\ running' = running
      /\ serving' = serving /\ calls' = calls /\ kv' = kv /\ effect' = effect
  BY DEF Reject, clientVars
<1>2. peer \in [Process -> {"open", "half", "reset", "broken"}] /\ outbox \in [Process -> Seq(Byte)]
  BY Types DEF Inv
<1>3. /\ peer'[c] = "broken" /\ outbox'[c] = <<>>
      /\ \A d \in Process \ {c} : peer'[d] = peer[d] /\ outbox'[d] = outbox[d]
  BY <1>1, <1>2
<1>4. TypeOK'
  <2>1. <<>> \in Seq(Byte) /\ Len(<<>>) = 0
    BY EmptySeq
  <2>2. peer' \in [Process -> {"open", "half", "reset", "broken"}] /\ outbox' \in [Process -> Seq(Byte)]
    BY <1>1, <1>2, <2>1
  <2>3. \A d \in Process : Len(outbox'[d]) <= SendBuffer /\ Len(inbox'[d]) <= ReceiveBuffer
    <3>1. \A d \in Process : Len(outbox[d]) <= SendBuffer /\ Len(inbox[d]) <= ReceiveBuffer
      BY DEF Inv, TypeOK
    <3>2. 0 <= SendBuffer
      BY ConstantTypes
    <3> QED
      BY <1>1, <1>3, <2>1, <3>1, <3>2
  <2> QED
    BY <1>1, <2>2, <2>3 DEF Inv, TypeOK, ClientTypeOK
<1>5. \A d \in Process : ToCome(d)' = ToCome(d)
  BY <1>1 DEF ToCome, Owed
<1>6. Progress(c) /\ effect[c] # NULL
  BY <1>1 DEF Progress, Inv, PerProcess
<1>7. Progress(c)'
  BY <1>1, <1>3, <1>6 DEF Progress, Gone
<1>8. Arrives(c)'
  BY <1>1, <1>6 DEF Arrives, Gone
<1>9. Serving'
  <2>1. \A d : IsSentValue(d)' = IsSentValue(d)
    BY <1>1 DEF IsSentValue, Request
  <2>2. (serving # NULL /\ OneCall) => OneCall'
    <3>1. serving \in Process \cup {NULL}
      BY DEF Inv, TypeOK
    <3>2. CASE serving = c
      BY <1>1, <3>2 DEF OneCall
    <3>3. CASE serving # c
      BY <1>1, <1>3, <3>1, <3>3 DEF OneCall
    <3> QED
      BY <3>2, <3>3
  <2>3. HeaderFirst'
    <3>1. Len(calls) = 2 => serving \in Process
      <4>1. Len(calls) = 2 => calls # <<>>
        BY EmptySeq
      <4>2. (serving = NULL <=> calls = <<>>) /\ serving \in Process \cup {NULL}
        BY DEF Inv, Serving, TypeOK
      <4> QED
        BY <4>1, <4>2
    <3> QED
      BY <1>1, <1>3, <3>1 DEF HeaderFirst, Serving, Inv
  <2> QED
    BY <1>1, <2>1, <2>2, <2>3 DEF Serving, Inv
<1>10. DiesOnlySendingValues'
  BY <1>1 DEF DiesOnlySendingValues, Inv, Request, Gone
<1> QED
  BY <1>1, <1>3, <1>4, <1>5, <1>7, <1>8, <1>9, <1>10, OneConnection

(* Only a process that is gone is disconnected. *)
LEMMA DisconnectStep ==
  ASSUME Inv, NEW c \in Process, Disconnect(c)
  PROVE  Inv' /\ UNCHANGED S!vars
<1>1. /\ serving = NULL /\ peer[c] # "open"
      /\ conn' = [conn EXCEPT ![c] = "closed"] /\ outbox' = [outbox EXCEPT ![c] = <<>>]
      /\ command' = command /\ pc' = pc /\ link' = link /\ peer' = peer /\ sent' = sent
      /\ inbox' = inbox /\ response' = response /\ status' = status /\ server' = server /\ running' = running
      /\ serving' = serving /\ calls' = calls /\ kv' = kv /\ effect' = effect
  BY DEF Disconnect, Idle, clientVars
<1>2. conn \in [Process -> {"none", "open", "closed"}] /\ outbox \in [Process -> Seq(Byte)]
  BY Types DEF Inv, TypeOK
<1>3. outbox'[c] = <<>> /\ \A d \in Process \ {c} : outbox'[d] = outbox[d]
  BY <1>1, <1>2
<1>4. TypeOK'
  <2>1. <<>> \in Seq(Byte) /\ Len(<<>>) = 0
    BY EmptySeq
  <2>2. conn' \in [Process -> {"none", "open", "closed"}] /\ outbox' \in [Process -> Seq(Byte)]
    BY <1>1, <1>2, <2>1
  <2>3. \A d \in Process : Len(outbox'[d]) <= SendBuffer /\ Len(inbox'[d]) <= ReceiveBuffer
    <3>1. \A d \in Process : Len(outbox[d]) <= SendBuffer /\ Len(inbox[d]) <= ReceiveBuffer
      BY DEF Inv, TypeOK
    <3>2. 0 <= SendBuffer
      BY ConstantTypes
    <3> QED
      BY <1>1, <1>3, <2>1, <3>1, <3>2
  <2> QED
    BY <1>1, <2>2, <2>3 DEF Inv, TypeOK, ClientTypeOK
<1>5. \A d \in Process : ToCome(d)' = ToCome(d)
  BY <1>1 DEF ToCome, Owed
<1>6. Progress(c) /\ Gone(c)
  BY <1>1 DEF Progress, Inv, PerProcess
<1>7. Progress(c)'
  BY <1>1, <1>3, <1>6 DEF Progress, Gone
<1>8. Arrives(c)'
  <2>1. pc[c] = "exited" /\ pc'[c] = "exited"
    BY <1>1, <1>6 DEF Gone
  <2> QED
    BY <2>1 DEF Arrives, Gone
<1>9. Serving'
  <2>1. Len(calls) = 0
    BY <1>1, EmptySeq DEF Serving, Inv
  <2>2. HeaderFirst'
    BY <1>1, <2>1 DEF HeaderFirst
  <2> QED
    BY <1>1, <2>2 DEF Serving, Inv
<1>10. DiesOnlySendingValues'
  BY <1>1 DEF DiesOnlySendingValues, Inv, Request, Gone
<1> QED
  BY <1>1, <1>3, <1>4, <1>5, <1>7, <1>8, <1>9, <1>10, OneConnection

-----------------------------------------------------------------------------
(* The answer. *)

LEMMA RepliesAreAnswers ==
  ASSUME \A key \in DOMAIN kv : IsKeyValid(key) /\ kv[key] \in Seq(Byte) /\ SizeFits(kv[key]),
         NEW request, request.key \in Seq(Byte), request.value \in Seq(Byte), SizeFits(request.value)
  PROVE  /\ Reply(kv, request) \in Answer /\ Refusal \in Answer
         /\ (~IsWrite(request) /\ Reply(kv, request).status = OK) =>
              request.key \in DOMAIN kv /\ Reply(kv, request).body = kv[request.key]
         /\ \A key \in DOMAIN Updated(kv, request) :
              /\ IsKeyValid(key) /\ Updated(kv, request)[key] \in Seq(Byte)
              /\ SizeFits(Updated(kv, request)[key])
         /\ \A key \in DOMAIN kv :
              key \in DOMAIN Updated(kv, request) /\ Updated(kv, request)[key] = kv[key]
         /\ ~IsWrite(request) => Updated(kv, request) = kv
<1>1. Refusal \in Answer /\ Refusal.status # OK
  <2>1. <<>> \in Seq(Byte)
    BY EmptySeq
  <2> QED
    BY <2>1 DEF Refusal, Answer, OK, CLIENT_ERROR
<1>2. \A content \in Seq(Byte) :
        Success(content) \in Answer /\ Success(content).status = OK /\ Success(content).body = content
  BY DEF Success, Answer
<1>3. Reply(kv, request) \in Answer
  <2>1. <<>> \in Seq(Byte)
    BY EmptySeq
  <2> QED
    BY <1>1, <1>2, <2>1 DEF Reply, Found
<1>4. ASSUME ~IsWrite(request), Reply(kv, request).status = OK
      PROVE  request.key \in DOMAIN kv /\ Reply(kv, request).body = kv[request.key]
  BY <1>1, <1>2, <1>4 DEF Reply, Found
<1>5. CASE IsKeyValid(request.key) /\ IsWrite(request)
  <2>1. Updated(kv, request) = Inserted(kv, request.key, request.value)
    BY <1>5 DEF Updated
  <2> DEFINE map == Inserted(kv, request.key, request.value)
  <2>2. /\ DOMAIN map = DOMAIN kv \cup {request.key}
        /\ \A key \in DOMAIN kv : map[key] = kv[key]
        /\ request.key \notin DOMAIN kv => map[request.key] = request.value
    BY DEF Inserted
  <2> HIDE DEF map
  <2>3. \A key \in DOMAIN map : IsKeyValid(key) /\ map[key] \in Seq(Byte) /\ SizeFits(map[key])
    BY <1>5, <2>2
  <2> QED
    BY <1>1, <1>3, <1>4, <1>5, <2>1, <2>2, <2>3 DEF map
<1>6. CASE ~(IsKeyValid(request.key) /\ IsWrite(request))
  <2>1. Updated(kv, request) = kv
    BY <1>6 DEF Updated
  <2> QED
    BY <1>1, <1>3, <1>4, <2>1
<1> QED
  BY <1>5, <1>6

(* The calls that an answer takes are the whole answer. *)
LEMMA CallsOfAnswer ==
  ASSUME NEW request, NEW answer \in Answer, calls' = CallsFor(request, answer)
  PROVE  /\ calls' \in Seq([bytes: Seq(Byte), sendfile: BOOLEAN, started: BOOLEAN])
         /\ calls' # <<>> /\ Len(calls') <= 2 /\ Owed' = Wire(request, answer)
         /\ ~(~IsWrite(request) /\ answer.status = OK) =>
              Len(calls') = 1 /\ ~calls'[1].sendfile /\ ~calls'[1].started
         /\ Len(calls') = 2 => calls'[1].bytes = SuccessHeader /\ ~calls'[1].started
<1> DEFINE Call == [bytes: Seq(Byte), sendfile: BOOLEAN, started: BOOLEAN]
<1>1. answer.status \in Byte /\ answer.body \in Seq(Byte)
  BY DEF Answer, Byte, OK, CLIENT_ERROR
<1>2. CASE ~IsWrite(request) /\ answer.status = OK
  <2>1. PICK first, second : first = Sends(SuccessHeader) /\ second = SendsFile(Record(answer.body))
    OBVIOUS
  <2>2. /\ calls' = <<first, second>>
        /\ Wire(request, answer) = SuccessHeader \o Transferred(answer.body)
    BY <1>2, <2>1, ValueCalls
  <2>3. first.bytes = SuccessHeader /\ second.bytes = Transferred(answer.body) /\ ~first.started
    BY <2>1 DEF Sends, SendsFile, Transferred
  <2>4. first \in Call
    BY <2>1, HeaderOK DEF Sends
  <2>5. second \in Call
    <3>1. Transferred(answer.body) \in Seq(Byte)
      BY <1>1, TransferredBytes
    <3>2. second = [bytes |-> Transferred(answer.body), sendfile |-> TRUE, started |-> FALSE]
      BY <2>1 DEF SendsFile, Transferred
    <3> HIDE DEF Transferred
    <3> QED
      BY <3>1, <3>2
  <2> HIDE DEF Call
  <2>6. <<first, second>> \in Seq(Call) /\ Len(<<first, second>>) = 2
        /\ <<first, second>>[1] = first /\ <<first, second>>[2] = second
    BY <2>4, <2>5
  <2>7. calls' \in Seq(Call) /\ Len(calls') = 2 /\ calls'[1] = first /\ calls'[2] = second
    BY <2>2, <2>6
  <2>8. Owed' = calls'[1].bytes \o calls'[2].bytes
    BY <2>7 DEF Owed
  <2>9. calls' # <<>>
    BY <2>2
  <2> QED
    BY <1>2, <2>2, <2>3, <2>7, <2>8, <2>9 DEF Call
<1>3. CASE ~(~IsWrite(request) /\ answer.status = OK)
  <2>1. PICK bytes : bytes = EncodeResponse(answer.status, Text)
    OBVIOUS
  <2>2. PICK only : only = Sends(bytes)
    OBVIOUS
  <2>3. calls' = <<only>> /\ Wire(request, answer) = bytes
    BY <1>3, <2>1, <2>2, OtherCalls
  <2>4. bytes \in Seq(Byte)
    BY <1>1, <2>1, ResponseBytes
  <2>5. only \in Call /\ only.bytes = bytes /\ ~only.sendfile /\ ~only.started
    BY <2>2, <2>4 DEF Sends
  <2> HIDE DEF Call
  <2>6. <<only>> \in Seq(Call) /\ Len(<<only>>) = 1 /\ <<only>>[1] = only
    BY <2>5
  <2>7. calls' \in Seq(Call) /\ Len(calls') = 1 /\ calls'[1] = only
    BY <2>3, <2>6
  <2>8. Owed' = calls'[1].bytes
    BY <2>7 DEF Owed
  <2>9. calls' # <<>>
    BY <2>3
  <2> QED
    BY <1>3, <2>3, <2>5, <2>7, <2>8, <2>9 DEF Call
<1> QED
  BY <1>2, <1>3

LEMMA ServeStep ==
  ASSUME Inv, NEW c \in Process, Serve(c)
  PROVE  Inv' /\ [S!Next]_(S!vars)
<1>1. PICK answer : /\ answer = IF sent[c] = "whole" THEN Reply(kv, Request(c)) ELSE Refusal
                    /\ effect' = [effect EXCEPT ![c] = answer]
                    /\ calls' = CallsFor(Request(c), answer)
  BY DEF Serve
<1>2. /\ server = "up" /\ serving = NULL /\ effect[c] = NULL /\ sent[c] # "nothing" /\ serving' = c
      /\ kv' = IF sent[c] = "whole" THEN Updated(kv, Request(c)) ELSE kv
      /\ command' = command /\ pc' = pc /\ link' = link /\ conn' = conn /\ peer' = peer
      /\ sent' = sent /\ inbox' = inbox /\ outbox' = outbox /\ response' = response
      /\ status' = status /\ server' = server /\ running' = running
  BY DEF Serve, Idle, Up, clientVars
<1>3. /\ effect \in [Process -> Answer \cup {NULL}] /\ sent[c] \in {"nothing", "part", "whole"}
      /\ Request(c).key \in Seq(Byte) /\ Request(c).value \in Seq(Byte) /\ SizeFits(Request(c).value)
      /\ \A key \in DOMAIN kv : IsKeyValid(key) /\ kv[key] \in Seq(Byte) /\ SizeFits(kv[key])
  BY Types DEF Inv, TypeOK
<1>4. /\ Reply(kv, Request(c)) \in Answer /\ Refusal \in Answer
      /\ (~IsWrite(Request(c)) /\ Reply(kv, Request(c)).status = OK) =>
           Request(c).key \in DOMAIN kv /\ Reply(kv, Request(c)).body = kv[Request(c).key]
      /\ \A key \in DOMAIN Updated(kv, Request(c)) :
           /\ IsKeyValid(key) /\ Updated(kv, Request(c))[key] \in Seq(Byte)
           /\ SizeFits(Updated(kv, Request(c))[key])
      /\ \A key \in DOMAIN kv :
           key \in DOMAIN Updated(kv, Request(c)) /\ Updated(kv, Request(c))[key] = kv[key]
  BY <1>3, RepliesAreAnswers
<1>5. answer \in Answer /\ answer # NULL
  BY <1>1, <1>4, ConstantTypes
<1>6. /\ KvGrows
      /\ \A key \in DOMAIN kv' : IsKeyValid(key) /\ kv'[key] \in Seq(Byte) /\ SizeFits(kv'[key])
  <2>1. CASE sent[c] = "whole"
    BY <1>2, <1>4, <2>1 DEF KvGrows
  <2>2. CASE sent[c] # "whole"
    BY <1>2, <1>3, <2>2 DEF KvGrows
  <2> QED
    BY <2>1, <2>2
<1>7. /\ calls' \in Seq([bytes: Seq(Byte), sendfile: BOOLEAN, started: BOOLEAN])
      /\ calls' # <<>> /\ Len(calls') <= 2 /\ Owed' = Wire(Request(c), answer)
      /\ ~(~IsWrite(Request(c)) /\ answer.status = OK) =>
           Len(calls') = 1 /\ ~calls'[1].sendfile /\ ~calls'[1].started
      /\ Len(calls') = 2 => calls'[1].bytes = SuccessHeader /\ ~calls'[1].started
  BY <1>1, <1>5, CallsOfAnswer
<1>8. effect'[c] = answer /\ \A d \in Process \ {c} : effect'[d] = effect[d]
  BY <1>1, <1>3
<1>9. TypeOK'
  <2>1. effect' \in [Process -> Answer \cup {NULL}]
    BY <1>1, <1>3, <1>5
  <2> QED
    BY <1>2, <1>6, <1>7, <2>1 DEF Inv, TypeOK, ClientTypeOK
<1>10. Request(c)' = Request(c)
  BY <1>2 DEF Request
<1>11. PerProcess(c) /\ inbox[c] = <<>> /\ outbox[c] = <<>> /\ peer[c] # "broken"
  BY <1>2 DEF Inv, PerProcess, Progress
<1>12. PerProcess(c)'
  <2>1. Progress(c)'
    BY <1>2, <1>5, <1>8, <1>11 DEF Progress, PerProcess, Gone
  <2>2. Arrives(c)'
    <3>1. pc[c] # "sized"
      BY <1>2, <1>11 DEF PerProcess, Arrives
    <3>2. PICK taken : taken = <<>>
      OBVIOUS
    <3>3. taken \in Seq(Byte)
      BY <3>2, EmptySeq
    <3>4. HasTaken(c, taken)'
      <4>1. ToSend(c)' = Wire(Request(c), answer)
        BY <1>8, <1>10 DEF ToSend, Wire
      <4>2. Ahead(c)' = <<>> \o (<<>> \o Wire(Request(c), answer))
        BY <1>2, <1>7, <1>11 DEF Ahead, ToCome
      <4>3. Wire(Request(c), answer) \in Seq(Byte)
        BY <1>5, WireBytes
      <4>4. Ahead(c)' = Wire(Request(c), answer) /\ <<>> \o Wire(Request(c), answer) = Wire(Request(c), answer)
        BY <4>2, <4>3, ConcatEmptySeq
      <4>5. Ahead(c)' \o taken = Ahead(c)'
        BY <3>2, <4>3, <4>4, ConcatEmptySeq
      <4>6. taken \o (Ahead(c)' \o taken) = ToSend(c)' /\ IsLost(c, taken)'
        BY <3>2, <4>1, <4>4, <4>5 DEF IsLost
      <4> QED
        BY <1>2, <3>1, <3>2, <3>3, <4>6 DEF HasTaken
    <3> QED
      BY <1>2, <1>5, <1>8, <3>1, <3>3, <3>4 DEF Arrives
  <2>3. ValueKept(c)'
    <3>1. ASSUME ~IsWrite(Request(c)), answer.status = OK
          PROVE  Request(c).key \in DOMAIN kv' /\ answer.body = kv'[Request(c).key]
      <4>1. answer = Reply(kv, Request(c))
        BY <1>1, <3>1 DEF Refusal, OK, CLIENT_ERROR
      <4> QED
        BY <1>4, <1>6, <3>1, <4>1 DEF KvGrows
    <3> QED
      BY <1>8, <1>10, <3>1 DEF ValueKept, IsSentValue
  <2>4. Shows(c)'
    BY <1>2, <1>6, <1>10, <1>11 DEF Shows, PerProcess, KvGrows
  <2> QED
    BY <2>1, <2>2, <2>3, <2>4 DEF PerProcess
<1>13. ASSUME NEW d \in Process \ {c} PROVE PerProcess(d)'
  <2>1. ToCome(d)' = ToCome(d)
    BY <1>2, ConstantTypes DEF ToCome
  <2>2. Undisturbed(d)
    BY <1>2, <1>8, <2>1 DEF Undisturbed
  <2> QED
    BY <1>2, <1>6, <2>2, StillThere DEF Inv
<1>14. Serving'
  <2>1. c # NULL /\ effect'[c] # NULL
    BY <1>5, <1>8, ConstantTypes
  <2>2. IsSentValue(c)' \/ OneCall'
    <3>1. CASE ~IsWrite(Request(c)) /\ answer.status = OK
      BY <1>8, <1>10, <3>1 DEF IsSentValue
    <3>2. CASE ~(~IsWrite(Request(c)) /\ answer.status = OK)
      BY <1>2, <1>7, <1>11, <3>2 DEF OneCall
    <3> QED
      BY <3>1, <3>2
  <2>3. HeaderFirst'
    BY <1>2, <1>7, <1>11 DEF HeaderFirst
  <2> QED
    BY <1>2, <1>7, <2>1, <2>2, <2>3 DEF Serving
<1>15. DiesOnlySendingValues'
  BY <1>2 DEF DiesOnlySendingValues
<1>16. Inv'
  BY <1>2, <1>6, <1>9, <1>12, <1>13, <1>14, <1>15 DEF Inv
<1>17. S!Next
  <2>1. [d \in Process |-> Request(d)]' = [d \in Process |-> Request(d)] /\ Told' = Told
    BY <1>2 DEF Request, Told
  <2>2. [d \in Process |-> Request(d)][c] = Request(c)
    OBVIOUS
  <2>3. CASE sent[c] = "whole"
    <3>1. S!TakeEffect(c)
      BY <1>1, <1>2, <2>1, <2>2, <2>3, ServiceReplies DEF S!TakeEffect
    <3> QED
      BY <3>1 DEF S!Next
  <2>4. CASE sent[c] # "whole"
    <3>1. Told[c] = "failure"
      <4>1. status[c] = "crash"
        BY <1>2, <1>3, <1>11, <2>4 DEF PerProcess, Progress
      <4> QED
        BY <4>1 DEF Told
    <3>2. S!Garbled(c)
      BY <1>1, <1>2, <2>1, <2>4, <3>1, ServiceReplies DEF S!Garbled
    <3> QED
      BY <3>2 DEF S!Next
  <2> QED
    BY <2>3, <2>4
<1> QED
  BY <1>16, <1>17

-----------------------------------------------------------------------------
(* write. *)

Call == [bytes: Seq(Byte), sendfile: BOOLEAN, started: BOOLEAN]

(* What comes behind the call that is being made. *)
Later == IF Len(calls) = 2 THEN calls[2].bytes ELSE <<>>

LEMMA CallsTaken ==
  ASSUME TypeOK, Len(calls) <= 2, calls # <<>>
  PROVE  /\ Head(calls) = calls[1] /\ calls[1] \in Call /\ Len(calls) \in {1, 2}
         /\ Later \in Seq(Byte) /\ Owed = calls[1].bytes \o Later
         /\ Tail(calls) \in Seq(Call) /\ Len(Tail(calls)) = Len(calls) - 1
         /\ Len(calls) = 2 => Tail(calls)[1] = calls[2] /\ calls[2] \in Call
<1>1. calls \in Seq(Call) /\ Len(calls) \in Nat /\ \A i \in 1 .. Len(calls) : calls[i] \in Call
  BY CallTypes DEF Call
<1>2. Len(calls) \in {1, 2}
  <2>1. Len(calls) # 0
    BY <1>1, EmptySeq
  <2>2. \A n \in Nat : n # 0 /\ n <= 2 => n \in {1, 2}
    OBVIOUS
  <2> QED
    BY <1>1, <2>1, <2>2
<1>3. calls[1] \in Call /\ (Len(calls) = 2 => calls[2] \in Call)
  <2>1. 1 \in 1 .. Len(calls) /\ (Len(calls) = 2 => 2 \in 1 .. Len(calls))
    BY <1>2
  <2> QED
    BY <1>1, <2>1
<1>4. /\ Head(calls) = calls[1] /\ Tail(calls) \in Seq(Call) /\ Len(Tail(calls)) = Len(calls) - 1
      /\ \A i \in 1 .. Len(Tail(calls)) : Tail(calls)[i] = calls[i + 1]
  BY <1>1, HeadTailProperties
<1>5. Len(calls) = 2 => Tail(calls)[1] = calls[2]
  BY <1>4
<1>6. /\ <<>> \in Seq(Byte) /\ calls[1].bytes \in Seq(Byte)
      /\ Len(calls) = 2 => calls[2].bytes \in Seq(Byte)
  BY <1>3, EmptySeq DEF Call
<1>7. Later \in Seq(Byte) /\ Owed = calls[1].bytes \o Later
  <2>1. CASE Len(calls) = 1
    <3>1. Later = <<>> /\ Owed = calls[1].bytes
      BY <2>1 DEF Later, Owed
    <3>2. calls[1].bytes \o <<>> = calls[1].bytes
      BY <1>6, ConcatEmptySeq
    <3> QED
      BY <1>6, <3>1, <3>2
  <2>2. CASE Len(calls) = 2
    <3>1. Later = calls[2].bytes /\ Owed = calls[1].bytes \o calls[2].bytes
      BY <2>2 DEF Later, Owed
    <3> QED
      BY <1>6, <2>2, <3>1
  <2> QED
    BY <1>2, <2>1, <2>2
<1> QED
  BY <1>2, <1>3, <1>4, <1>5, <1>7

(* A call returns. *)
LEMMA CallIsOver ==
  ASSUME TypeOK, Len(calls) <= 2, calls # <<>>, CallReturns
  PROVE  /\ calls' \in Seq(Call) /\ Owed' = Later
         /\ calls' = <<>> => serving' = NULL /\ Len(calls) = 1 /\ Later = <<>>
         /\ calls' # <<>> => serving' = serving /\ Len(calls) = 2 /\ Len(calls') <= 1
<1>1. /\ Len(calls) \in {1, 2} /\ calls' \in Seq(Call) /\ Len(calls') = Len(calls) - 1
      /\ Len(calls) = 2 => calls'[1] = calls[2]
  BY CallsTaken DEF CallReturns
<1>2. calls' = <<>> <=> Len(calls') = 0
  BY <1>1, EmptySeq
<1>3. CASE Len(calls) = 1
  <2>1. Len(calls') = 0 /\ Later = <<>>
    BY <1>1, <1>3 DEF Later
  <2>2. Owed' = <<>>
    BY <2>1 DEF Owed
  <2> QED
    BY <1>1, <1>2, <1>3, <2>1, <2>2 DEF CallReturns
<1>4. CASE Len(calls) = 2
  <2>1. Len(calls') = 1 /\ Later = calls[2].bytes /\ calls'[1] = calls[2]
    BY <1>1, <1>4 DEF Later
  <2>2. Owed' = calls'[1].bytes
    BY <2>1 DEF Owed
  <2>3. calls' # <<>> /\ Len(calls') <= 1
    BY <1>2, <2>1
  <2>4. serving' = serving
    BY <2>3 DEF CallReturns
  <2> QED
    BY <1>1, <1>4, <2>1, <2>2, <2>3, <2>4
<1> QED
  BY <1>1, <1>3, <1>4

(* A call goes on. *)
LEMMA CallGoesOn ==
  ASSUME TypeOK, Len(calls) <= 2, calls # <<>>, NEW call \in Call, calls' = <<call>> \o Tail(calls)
  PROVE  /\ calls' \in Seq(Call) /\ calls' # <<>> /\ Len(calls') = Len(calls)
         /\ calls'[1] = call /\ Owed' = call.bytes \o Later
<1>1. /\ Len(calls) \in {1, 2} /\ Tail(calls) \in Seq(Call) /\ Len(Tail(calls)) = Len(calls) - 1
      /\ Len(calls) = 2 => Tail(calls)[1] = calls[2]
  BY CallsTaken
<1> DEFINE front == <<call>>
           back == Tail(calls)
<1>2. front \in Seq(Call) /\ Len(front) = 1 /\ front[1] = call
  OBVIOUS
<1> HIDE DEF front, back
<1>3. back \in Seq(Call) /\ Len(back) = Len(calls) - 1 /\ (Len(calls) = 2 => back[1] = calls[2])
  BY <1>1 DEF back
<1>4. calls' = front \o back
  BY DEF front, back
<1>5. /\ front \o back \in Seq(Call) /\ Len(front \o back) = Len(front) + Len(back)
      /\ \A i \in 1 .. Len(front) + Len(back) :
           (front \o back)[i] = IF i <= Len(front) THEN front[i] ELSE back[i - Len(front)]
  BY <1>2, <1>3, ConcatProperties
<1>6. Len(front) + Len(back) = Len(calls)
  BY <1>1, <1>2, <1>3
<1>7. /\ calls' \in Seq(Call) /\ Len(calls') = Len(calls)
      /\ \A i \in 1 .. Len(calls) : calls'[i] = IF i <= 1 THEN front[i] ELSE back[i - 1]
  BY <1>2, <1>4, <1>5, <1>6
<1>8. calls'[1] = call /\ (Len(calls) = 2 => calls'[2] = calls[2])
  BY <1>1, <1>2, <1>3, <1>7
<1>9. calls' # <<>>
  BY <1>1, <1>7, EmptySeq
<1>10. Owed' = call.bytes \o Later
  <2>1. CASE Len(calls) = 1
    <3>1. Later = <<>> /\ Owed' = calls'[1].bytes
      BY <1>7, <2>1 DEF Later, Owed
    <3>2. call.bytes \o <<>> = call.bytes
      <4>1. call.bytes \in Seq(Byte)
        BY DEF Call
      <4> QED
        BY <4>1, ConcatEmptySeq
    <3> QED
      BY <1>8, <3>1, <3>2
  <2>2. CASE Len(calls) = 2
    <3>1. Later = calls[2].bytes
      BY <2>2 DEF Later
    <3>2. Len(calls') = 2
      BY <1>7, <2>2
    <3>3. Owed' = calls'[1].bytes \o calls'[2].bytes
      BY ONLY <3>2 DEF Owed
    <3> QED
      BY <1>8, <2>2, <3>1, <3>3
  <2> QED
    BY <1>1, <2>1, <2>2
<1> QED
  BY <1>7, <1>8, <1>9, <1>10

(* What both kinds of step of a call have in common. *)
LEMMA BeingServed ==
  ASSUME Inv, calls # <<>>
  PROVE  /\ serving \in Process /\ serving # NULL /\ effect[serving] # NULL
         /\ Len(calls) <= 2 /\ (Len(calls) = 2 => IsSentValue(serving))
         /\ IsSentValue(serving) \/ OneCall
         /\ HeaderFirst
<1>1. serving # NULL /\ serving \in Process /\ Len(calls) <= 2
  BY DEF Inv, TypeOK, Serving
<1>2. effect[serving] # NULL /\ (IsSentValue(serving) \/ OneCall) /\ HeaderFirst
  BY <1>1 DEF Inv, Serving
<1>3. OneCall => Len(calls) = 1
  BY DEF OneCall
<1> QED
  BY <1>1, <1>2, <1>3

(* A part of a call is copied into the send buffer. *)
LEMMA SendStep ==
  ASSUME Inv, Send
  PROVE  Inv' /\ UNCHANGED S!vars
<1>1. PICK c, call, n :
        /\ c = serving /\ call = calls[1]
        /\ n = Lower(SendBuffer - Len(outbox[c]), Len(call.bytes))
  OBVIOUS
<1> DEFINE bytes == call.bytes
           front == SubSeq(bytes, 1, n)
           back == SubSeq(bytes, n + 1, Len(bytes))
           near == inbox[c]
           far == outbox[c]
<1>2. /\ server = "up" /\ calls # <<>> /\ peer[c] \in {"open", "half"}
      /\ command' = command /\ pc' = pc /\ link' = link /\ conn' = conn /\ peer' = peer
      /\ sent' = sent /\ inbox' = inbox /\ response' = response
      /\ status' = status /\ server' = server /\ running' = running /\ kv' = kv /\ effect' = effect
  BY <1>1 DEF Send, Up, clientVars
<1>3. /\ c \in Process /\ c # NULL /\ effect[c] # NULL
      /\ Len(calls) <= 2 /\ (Len(calls) = 2 => IsSentValue(c))
      /\ IsSentValue(c) \/ OneCall
      /\ HeaderFirst
  BY <1>1, <1>2, BeingServed
<1>4. TypeOK /\ Head(calls) = call /\ call \in Call /\ Later \in Seq(Byte) /\ Owed = bytes \o Later
  BY <1>1, <1>2, <1>3, CallsTaken DEF Inv
<1>5. /\ n > 0 /\ outbox' = [outbox EXCEPT ![c] = far \o front]
      /\ back = <<>> => CallReturns
      /\ back # <<>> => /\ calls' = <<[call EXCEPT !.bytes = back, !.started = TRUE]>> \o Tail(calls)
                        /\ serving' = serving
  BY <1>1, <1>4 DEF Send
<1>6. near \in Seq(Byte) /\ far \in Seq(Byte) /\ bytes \in Seq(Byte) /\ ToCome(c) = bytes \o Later
      /\ Len(far) <= SendBuffer /\ outbox \in [Process -> Seq(Byte)]
  <2>1. near \in Seq(Byte) /\ far \in Seq(Byte)
    BY <1>3, AheadType
  <2>2. ToCome(c) = bytes \o Later
    BY <1>1, <1>4 DEF ToCome
  <2>3. bytes \in Seq(Byte)
    BY <1>4 DEF Call
  <2> QED
    BY <1>3, <1>4, <2>1, <2>2, <2>3, Types DEF TypeOK
<1>7. n \in 0 .. Len(bytes) /\ Len(far) + n <= SendBuffer
  <2>1. Len(bytes) \in Nat /\ Len(far) \in Nat /\ SendBuffer \in Nat
    BY <1>6, LenProperties, ConstantTypes
  <2> HIDE DEF bytes, far
  <2>2. n = Lower(SendBuffer - Len(far), Len(bytes))
    BY <1>1 DEF far, bytes
  <2> QED
    BY <1>5, <1>6, <2>1, <2>2 DEF Lower
(* The header finds room for all of it.                                    *)
<1>8. Len(calls) = 2 => n = Len(bytes)
  <2>1. Len(calls) = 2 => bytes = SuccessHeader /\ far = <<>>
    BY <1>1, <1>3 DEF HeaderFirst
  <2>2. Len(SuccessHeader) = 7 /\ Len(<<>>) = 0
    BY HeaderOK, EmptySeq
  <2>3. n = Lower(SendBuffer - Len(far), Len(bytes))
    BY <1>1
  <2>4. SendBuffer \in Nat /\ SendBuffer >= 7
    BY ConstantTypes
  <2>5. Len(calls) = 2 => Len(bytes) = 7 /\ Len(far) = 0
    BY <2>1, <2>2
  <2> HIDE DEF bytes, far
  <2> SUFFICES ASSUME Len(calls) = 2
               PROVE  n = Len(bytes)
    OBVIOUS
  <2>6. n = Lower(SendBuffer - 0, 7)
    BY <2>3, <2>5
  <2>7. n = 7
    BY <2>4, <2>6 DEF Lower
  <2> QED
    BY <2>5, <2>7
<1> HIDE DEF bytes, near, far
<1>9. /\ front \in Seq(Byte) /\ Len(front) = n /\ back \in Seq(Byte) /\ front \o back = bytes
      /\ Len(back) = Len(bytes) - n
  <2>1. Halved(bytes, n)
    BY Halves
  <2> QED
    BY <1>6, <1>7, <2>1 DEF Halved
<1> HIDE DEF front, back
<1> DEFINE fuller == far \o front
<1>10. fuller \in Seq(Byte) /\ Len(fuller) = Len(far) + n
  <2>1. Joined(far, front)
    BY Joins
  <2> QED
    BY <1>6, <1>9, <2>1 DEF Joined
<1>11. outbox'[c] = fuller /\ \A d \in Process \ {c} : outbox'[d] = outbox[d]
  BY <1>3, <1>5, <1>6
<1>12. outbox' \in [Process -> Seq(Byte)]
  BY <1>5, <1>6, <1>10
<1> HIDE DEF fuller
(* What is left of this call, and what comes behind it, is still owed.     *)
<1>13. /\ calls' \in Seq(Call) /\ Len(calls') <= 2 /\ (serving' = c \/ serving' = NULL)
       /\ serving' = NULL <=> calls' = <<>>
       /\ ToCome(c)' = back \o Later
       /\ calls' # <<>> => IsSentValue(c) \/ (Len(calls') = 1 /\ ~calls'[1].sendfile /\ calls'[1].started)
       /\ Len(calls') # 2
  <2>1. CASE back = <<>>
    <3>1. /\ calls' \in Seq(Call) /\ Owed' = Later
          /\ calls' = <<>> => serving' = NULL /\ Len(calls) = 1 /\ Later = <<>>
          /\ calls' # <<>> => serving' = serving /\ Len(calls) = 2 /\ Len(calls') <= 1
      BY <1>2, <1>3, <1>4, <1>5, <2>1, CallIsOver
    <3>2. <<>> \o Later = Later
      BY <1>4, ConcatEmptySeq
    <3>3. Len(<<>>) = 0 /\ Len(calls') \in Nat
      BY <3>1, EmptySeq, LenProperties
    <3>4. ToCome(c)' = Later
      BY <1>1, <1>3, <3>1 DEF ToCome
    <3>5. ToCome(c)' = back \o Later
      BY <2>1, <3>2, <3>4
    <3>6. Len(calls') <= 1
      BY <3>1, <3>3
    <3>7. serving' = c \/ serving' = NULL
      BY <1>1, <3>1
    <3>8. serving' = NULL <=> calls' = <<>>
      BY <1>1, <1>3, <3>1
    <3>9. calls' # <<>> => IsSentValue(c)
      BY <1>3, <3>1
    <3>10. Len(calls') # 2
      BY <3>3, <3>6
    <3>11. calls' # <<>> => IsSentValue(c) \/ (Len(calls') = 1 /\ ~calls'[1].sendfile /\ calls'[1].started)
      BY <3>9
    <3>12. Len(calls') <= 2 /\ calls' \in Seq(Call)
      BY <3>1, <3>3, <3>6
    <3> QED
      BY <3>5, <3>7, <3>8, <3>10, <3>11, <3>12
  <2>2. CASE back # <<>>
    <3>1. PICK goingOn : goingOn = [call EXCEPT !.bytes = back, !.started = TRUE]
      OBVIOUS
    <3>2. goingOn \in Call /\ goingOn.bytes = back /\ goingOn.started /\ goingOn.sendfile = call.sendfile
      BY <1>4, <1>9, <3>1 DEF Call
    <3>3. calls' = <<goingOn>> \o Tail(calls) /\ serving' = serving
      BY <1>5, <2>2, <3>1
    <3>4. /\ calls' \in Seq(Call) /\ calls' # <<>> /\ Len(calls') = Len(calls)
          /\ calls'[1] = goingOn /\ Owed' = goingOn.bytes \o Later
      BY <1>2, <1>3, <1>4, <3>2, <3>3, CallGoesOn
    <3>5. ToCome(c)' = back \o Later
      BY <1>1, <3>2, <3>3, <3>4 DEF ToCome
    <3>6. Len(calls) # 2
      <4>1. Len(bytes) \in Nat
        BY <1>6, LenProperties
      <4>2. Len(back) # 0
        BY <1>9, <2>2, EmptySeq
      <4> QED
        BY <1>9, <1>8, <4>1, <4>2
    <3>7. IsSentValue(c) \/ (Len(calls') = 1 /\ ~calls'[1].sendfile /\ calls'[1].started)
      BY <1>1, <1>3, <3>2, <3>4 DEF OneCall
    <3> QED
      BY <1>1, <1>3, <3>3, <3>4, <3>5, <3>7, <3>6
  <2> QED
    BY <2>1, <2>2
<1>14. TypeOK'
  <2>1. \A d \in Process : Len(outbox'[d]) <= SendBuffer /\ Len(inbox'[d]) <= ReceiveBuffer
    <3>1. \A d \in Process : Len(outbox[d]) <= SendBuffer /\ Len(inbox[d]) <= ReceiveBuffer
      BY DEF Inv, TypeOK
    <3>2. Len(fuller) <= SendBuffer
      BY <1>7, <1>10
    <3> QED
      BY <1>2, <1>11, <3>1, <3>2
  <2>2. serving' \in Process \cup {NULL}
    BY <1>3, <1>13
  <2> QED
    BY <1>2, <1>12, <1>13, <2>1, <2>2 DEF Inv, TypeOK, ClientTypeOK, Call
<1>15. \A d \in Process \ {c} : ToCome(d)' = ToCome(d)
  BY <1>1, <1>13, ConstantTypes DEF ToCome
<1>16. Ahead(c)' = Ahead(c)
  <2> DEFINE rest == back \o Later
  <2>1. Ahead(c) = near \o (far \o (bytes \o Later)) /\ Ahead(c)' = near \o (fuller \o rest)
    BY <1>2, <1>6, <1>11, <1>13 DEF Ahead, near, far
  <2>2. rest \in Seq(Byte)
    BY <1>4, <1>9, ConcatProperties
  <2>3. front \o rest = bytes \o Later
    <3>1. Brackets(front, back, Later)
      BY Associative
    <3> QED
      BY <1>4, <1>9, <3>1 DEF Brackets
  <2> HIDE DEF rest
  <2>4. fuller \o rest = far \o (front \o rest)
    <3>1. Brackets(far, front, rest)
      BY Associative
    <3> QED
      BY <1>6, <1>9, <2>2, <3>1 DEF Brackets, fuller
  <2> QED
    BY <2>1, <2>3, <2>4
<1>17. Progress(c)'
  BY <1>2, <1>3 DEF Progress, Inv, PerProcess, Gone
<1>18. Arrives(c)'
  <2>1. ToSend(c)' = ToSend(c) /\ \A lost : IsLost(c, lost) => IsLost(c, lost)'
    BY <1>1, <1>2 DEF ToSend, Request, IsLost
  <2>2. \A taken \in Seq(Byte) : HasTaken(c, taken) => HasTaken(c, taken)'
    BY <1>2, <1>16, <2>1 DEF HasTaken
  <2> QED
    BY <1>2, <1>3, <2>2 DEF Arrives, Inv, PerProcess, Gone
<1>19. Serving'
  <2>1. IsSentValue(c)' = IsSentValue(c)
    BY <1>2 DEF IsSentValue, Request
  <2> QED
    BY <1>2, <1>3, <1>13, <2>1 DEF Serving, OneCall, HeaderFirst
<1>20. DiesOnlySendingValues'
  BY <1>2 DEF DiesOnlySendingValues
<1>21. \A d \in Process \ {c} : serving' # d
  BY <1>3, <1>13, ConstantTypes
<1> QED
  BY <1>2, <1>3, <1>11, <1>14, <1>15, <1>17, <1>18, <1>19, <1>20, <1>21, OneConnection

(* A call ends with an error. *)
LEMMA SendReportsErrorStep ==
  ASSUME Inv, SendReportsError
  PROVE  Inv' /\ UNCHANGED S!vars
<1>1. PICK c : c = serving
  OBVIOUS
<1>2. /\ server = "up" /\ calls # <<>> /\ peer[c] \in {"reset", "broken"} /\ CallReturns
      /\ peer' = peer \/ peer' = [peer EXCEPT ![c] = "broken"]
      /\ command' = command /\ pc' = pc /\ link' = link /\ conn' = conn /\ outbox' = outbox
      /\ sent' = sent /\ inbox' = inbox /\ response' = response
      /\ status' = status /\ server' = server /\ running' = running /\ kv' = kv /\ effect' = effect
  BY <1>1 DEF SendReportsError, Up, clientVars
<1>3. /\ c \in Process /\ c # NULL /\ effect[c] # NULL
      /\ Len(calls) <= 2 /\ (Len(calls) = 2 => IsSentValue(c))
  BY <1>1, <1>2, BeingServed
<1>4. /\ calls' \in Seq(Call)
      /\ calls' = <<>> => serving' = NULL
      /\ calls' # <<>> => serving' = serving /\ Len(calls) = 2 /\ Len(calls') <= 1
  BY <1>2, <1>3, CallIsOver DEF Inv
<1>5. peer \in [Process -> {"open", "half", "reset", "broken"}]
  BY Types DEF Inv
<1>6. /\ peer' \in [Process -> {"open", "half", "reset", "broken"}]
      /\ \A d \in Process \ {c} : peer'[d] = peer[d]
  BY <1>2, <1>5
<1>7. TypeOK'
  <2>1. serving' \in Process \cup {NULL}
    BY <1>1, <1>3, <1>4
  <2> QED
    BY <1>2, <1>4, <1>6, <2>1 DEF Inv, TypeOK, ClientTypeOK, Call
<1>8. \A d \in Process \ {c} : ToCome(d)' = ToCome(d)
  BY <1>1, <1>4, ConstantTypes DEF ToCome
<1>9. Progress(c) /\ Gone(c)
  BY <1>2, <1>3 DEF Progress, Inv, PerProcess
<1>10. Progress(c)'
  BY <1>2, <1>3, <1>9 DEF Progress, Gone
<1>11. Arrives(c)'
  <2>1. pc'[c] = "exited"
    BY <1>2, <1>9 DEF Gone
  <2> QED
    BY <2>1 DEF Arrives, Gone
<1>12. Serving'
  <2>1. IsSentValue(c)' = IsSentValue(c)
    BY <1>2 DEF IsSentValue, Request
  <2>2. Len(calls') \in Nat /\ Len(calls') <= 1
    BY <1>4, EmptySeq, LenProperties
  <2>3. HeaderFirst'
    BY <2>2 DEF HeaderFirst
  <2> QED
    BY <1>1, <1>2, <1>3, <1>4, <2>1, <2>2, <2>3 DEF Serving
<1>13. DiesOnlySendingValues'
  BY <1>2 DEF DiesOnlySendingValues
<1>14. \A d \in Process \ {c} : serving' # d
  BY <1>1, <1>3, <1>4, ConstantTypes
<1> QED
  BY <1>2, <1>3, <1>6, <1>7, <1>8, <1>10, <1>11, <1>12, <1>13, <1>14, OneConnection

(* A signal comes, between calls or in the middle of the last.             *)
LEMMA SignalStep ==
  ASSUME Inv, Signal
  PROVE  Inv' /\ UNCHANGED S!vars
<1>1. /\ running' = FALSE
      /\ command' = command /\ pc' = pc /\ link' = link /\ conn' = conn /\ outbox' = outbox
      /\ sent' = sent /\ inbox' = inbox /\ response' = response /\ status' = status
      /\ server' = server /\ peer' = peer /\ kv' = kv /\ effect' = effect
      /\ server = "up"
  BY DEF Signal, Up, clientVars
<1>2. CASE UNCHANGED <<serving, calls>>
  <2>1. serving' = serving /\ calls' = calls
    BY <1>2
  <2>2. running' \in BOOLEAN
    BY <1>1
  <2>3. TypeOK'
    BY <1>1, <2>1, <2>2 DEF Inv, TypeOK, ClientTypeOK
  <2> QED
    BY <1>1, <2>1, <2>3, NothingMoves
<1>3. CASE Interrupts
  <2>1. PICK c : c = serving
    OBVIOUS
  <2>2. calls # <<>> /\ Head(calls).started /\ CallReturns
    BY <1>3 DEF Interrupts
  <2>3. /\ c \in Process /\ c # NULL /\ effect[c] # NULL /\ Len(calls) <= 2
        /\ HeaderFirst
    BY <2>1, <2>2, BeingServed
  <2>4. Len(calls) # 2
    <3>1. Head(calls) = calls[1]
      BY <2>2, <2>3, CallsTaken DEF Inv
    <3> QED
      BY <2>2, <2>3, <3>1 DEF HeaderFirst
  <2>5. calls' = <<>> /\ serving' = NULL /\ calls' \in Seq(Call) /\ Len(calls') = 0
    BY <2>2, <2>3, <2>4, CallIsOver, EmptySeq DEF Inv
  <2>6. TypeOK'
    BY <1>1, <2>5 DEF Inv, TypeOK, ClientTypeOK, Call
  <2>7. \A d \in Process \ {c} : ToCome(d)' = ToCome(d) /\ serving' # d
    BY <2>1, <2>5, ConstantTypes DEF ToCome
  <2>8. Progress(c)'
    BY <1>1, <2>3 DEF Progress, Inv, PerProcess, Gone
  <2>9. Arrives(c)'
    <3>1. CASE Gone(c)
      BY <1>1, <2>3, <3>1 DEF Arrives, Gone
    <3>2. CASE ~Gone(c)
      <4>1. PICK taken \in Seq(Byte) : HasTaken(c, taken)
        BY <2>3, <3>2 DEF Inv, PerProcess, Arrives
      <4> DEFINE near == inbox[c]
                 far == outbox[c]
      <4>2. /\ near \in Seq(Byte) /\ far \in Seq(Byte) /\ Owed \in Seq(Byte)
            /\ far \o Owed \in Seq(Byte) /\ Ahead(c) \in Seq(Byte)
            /\ Ahead(c) = near \o (far \o Owed)
        BY <2>1, <2>3, AheadType DEF Ahead, ToCome
      <4>3. taken \o (Ahead(c) \o <<>>) = ToSend(c)
        BY <2>1, <4>1 DEF HasTaken, IsLost
      <4>4. taken \o Ahead(c) = ToSend(c)
        BY <4>2, <4>3, ConcatEmptySeq
      <4>5. Ahead(c)' = near \o far
        <5>1. Ahead(c)' = near \o (far \o <<>>)
          BY <1>1, <2>3, <2>5 DEF Ahead, ToCome
        <5> QED
          BY <4>2, <5>1, ConcatEmptySeq
      <4>6. (near \o far) \o Owed = Ahead(c)
        <5> HIDE DEF near, far
        <5>1. Brackets(near, far, Owed)
          BY Associative
        <5> QED
          BY <4>2, <5>1 DEF Brackets
      <4>7. ToSend(c)' = ToSend(c)
        BY <1>1 DEF ToSend, Request
      <4>8. PICK lost \in Seq(Byte) : lost = Owed
        BY <4>2
      <4>9. taken \o (Ahead(c)' \o lost) = ToSend(c)' /\ IsLost(c, lost)'
        BY <1>1, <2>3, <2>5, <4>4, <4>5, <4>6, <4>7, <4>8 DEF IsLost
      <4>10. HasTaken(c, taken)'
        BY <1>1, <4>1, <4>8, <4>9 DEF HasTaken
      <4> QED
        BY <1>1, <2>3, <4>1, <4>10 DEF Arrives
    <3> QED
      BY <3>1, <3>2
  <2>10. Serving'
    BY <2>5 DEF Serving, HeaderFirst
  <2>11. DiesOnlySendingValues'
    BY <1>1 DEF DiesOnlySendingValues
  <2> QED
    BY <1>1, <2>3, <2>6, <2>7, <2>8, <2>9, <2>10, <2>11, OneConnection
<1> QED
  BY <1>2, <1>3 DEF Signal

-----------------------------------------------------------------------------
(* The invariant holds of every behaviour, and every step is one of the    *)
(* service or none.                                                        *)

LEMMA InitGivesInv == Init => Inv
<1> SUFFICES ASSUME Init PROVE Inv
  OBVIOUS
<1>1. <<>> \in Seq(Byte) /\ Len(<<>>) = 0 /\ <<>> \in Seq(Call)
  BY EmptySeq
<1>2. \A c \in Process :
        /\ pc[c] = "main" /\ sent[c] = "nothing" /\ inbox[c] = <<>> /\ outbox[c] = <<>>
        /\ status[c] = "running" /\ peer[c] = "open" /\ effect[c] = NULL /\ response[c] = NULL
  BY DEF Init, ClientInit
<1>3. server = "up" /\ running = TRUE /\ serving = NULL /\ calls = <<>> /\ DOMAIN kv = {} /\ DOMAIN response = Process
  BY DEF Init, ClientInit
<1>4. TypeOK
  <2>1. ClientTypeOK
    <3>1. command \in CommandLines
      BY DEF Init, ClientInit
    <3>2. /\ pc \in [Process -> {"main", "connected", "waiting", "sized", "exited"}]
          /\ link \in [Process -> {"none", "open", "eof", "reset", "closed", "aborted"}]
          /\ sent \in [Process -> {"nothing", "part", "whole"}]
          /\ inbox \in [Process -> Seq(Byte)]
          /\ status \in [Process -> {"running", "success", "failure", "crash"}]
      BY <1>1 DEF Init, ClientInit
    <3> QED
      BY <1>2, <3>1, <3>2 DEF ClientTypeOK
  <2>2. /\ conn \in [Process -> {"none", "open", "closed"}]
        /\ peer \in [Process -> {"open", "half", "reset", "broken"}]
        /\ outbox \in [Process -> Seq(Byte)]
        /\ effect \in [Process -> Answer \cup {NULL}]
    BY <1>1 DEF Init
  <2>3. \A c \in Process : Len(outbox[c]) <= SendBuffer /\ Len(inbox[c]) <= ReceiveBuffer
    BY <1>1, <1>2, ConstantTypes
  <2> QED
    BY <1>1, <1>3, <2>1, <2>2, <2>3 DEF TypeOK, Call
<1>5. \A c \in Process : PerProcess(c)
  BY <1>2 DEF PerProcess, Progress, Arrives, ValueKept, Shows, Gone
<1>6. Serving
  BY <1>1, <1>3 DEF Serving, HeaderFirst
<1> QED
  BY <1>3, <1>4, <1>5, <1>6 DEF Inv, DiesOnlySendingValues

LEMMA InitIsServiceInit == Init => S!Init
<1> SUFFICES ASSUME Init PROVE S!Init
  OBVIOUS
<1> DEFINE Asked == {argv[c].request : argv \in CommandLines, c \in Process}
           asked == [c \in Process |-> Request(c)]
<1>1. command \in CommandLines /\ status = [c \in Process |-> "running"]
  BY DEF Init, ClientInit
<1>2. asked \in [Process -> Asked]
  BY <1>1 DEF Request
<1>3. Told = [c \in Process |-> NULL]
  BY <1>1 DEF Told
<1> QED
  BY <1>2, <1>3 DEF Init, S!Init

LEMMA StepKeepsInv == Inv /\ [Next]_vars => Inv' /\ [S!Next]_(S!vars)
<1> SUFFICES ASSUME Inv, [Next]_vars PROVE Inv' /\ [S!Next]_(S!vars)
  OBVIOUS
<1>1. ASSUME NEW c \in Process, ClientStep(c) PROVE Inv' /\ [S!Next]_(S!vars)
  BY <1>1, ProcessStep
<1>2. ASSUME NEW c \in Process, ClientKilled(c) PROVE Inv' /\ [S!Next]_(S!vars)
  BY <1>2, KillStep
<1>3. ASSUME NEW c \in Process, Network(c) PROVE Inv' /\ [S!Next]_(S!vars)
  BY <1>3, DeliverStep, RejectStep, DeliverEndStep DEF Network
<1>4. ASSUME NEW c \in Process, Accept(c) \/ CloseIdle(c) PROVE Inv' /\ [S!Next]_(S!vars)
  BY <1>4, AcceptStep
<1>5. ASSUME NEW c \in Process, Serve(c) \/ Disconnect(c) PROVE Inv' /\ [S!Next]_(S!vars)
  BY <1>5, ServeStep, DisconnectStep
<1>6. ASSUME Send \/ SendReportsError \/ BrokenPipe \/ Stop PROVE Inv' /\ [S!Next]_(S!vars)
  BY <1>6, SendStep, SendReportsErrorStep, BrokenPipeStep, StopStep
<1>7. ASSUME Signal PROVE Inv' /\ [S!Next]_(S!vars)
  BY <1>7, SignalStep
<1>8. ASSUME UNCHANGED vars PROVE Inv' /\ [S!Next]_(S!vars)
  <2>1. /\ server' = server /\ running' = running
        /\ UNCHANGED <<command, pc, sent, inbox, response, status, peer, outbox, serving, calls, kv, effect>>
    BY <1>8 DEF vars, clientVars, serverVars
  <2>2. TypeOK'
    BY <1>8 DEF vars, clientVars, serverVars, Inv, TypeOK, ClientTypeOK
  <2> QED
    BY <2>1, <2>2, NothingMoves
<1> QED
  BY <1>1, <1>2, <1>3, <1>4, <1>5, <1>6, <1>7, <1>8 DEF Next, ServerStep

(* What the server has answered a process that still waits is what it has  *)
(* taken, what is in the kernels' buffers, what the calls in progress have *)
(* left and what a signal has cut off, whatever the processes, the buffers *)
(* and the calls do.                                                       *)
THEOREM InvHolds == Spec => []Inv
BY InitGivesInv, StepKeepsInv, PTL DEF Spec

-----------------------------------------------------------------------------
(* What it says to users. *)

(* The type invariant, with what the kernels keep for a connection within  *)
(* its buffers.                                                            *)
THEOREM TypeCorrect == Spec => []TypeOK
<1>1. Inv => TypeOK
  BY DEF Inv
<1> QED
  BY <1>1, InvHolds, PTL

(* An answer whose record one sendfile transfers is what the calls send;   *)
(* of a longer one they send a beginning.                                  *)
LEMMA AnswerIsSent ==
  ASSUME Inv, NEW c \in Process, effect[c] # NULL
  PROVE  \E more \in Seq(Byte) :
           /\ ToSend(c) \o more = AnswerBytes(c)
           /\ Len(Record(effect[c].body)) <= MaxTransfer => more = <<>>
<1>1. effect[c] \in Answer /\ effect[c].body \in Seq(Byte) /\ <<>> \in Seq(Byte)
  BY Types, EmptySeq DEF Inv, Answer
<1>2. CASE IsSentValue(c)
  <2> DEFINE record == Record(effect[c].body)
             n == Lower(MaxTransfer, Len(record))
             front == SubSeq(record, 1, n)
             more == SubSeq(record, n + 1, Len(record))
  <2>1. /\ ToSend(c) = SuccessHeader \o front
        /\ AnswerBytes(c) = SuccessHeader \o record
    BY <1>2, ValueCalls DEF ToSend, AnswerBytes, IsSentValue, Transferred
  <2>2. record \in Seq(Byte) /\ Len(record) \in Nat
    BY <1>1, TransferredBytes, LenProperties
  <2>3. SuccessHeader \in Seq(Byte) /\ Len(<<>>) = 0
    BY HeaderOK, EmptySeq
  <2> HIDE DEF record
  <2>4. n \in 0 .. Len(record) /\ (Len(record) <= MaxTransfer => n = Len(record))
    BY <2>2, ConstantTypes DEF Lower
  <2> HIDE DEF n
  <2>5. /\ front \in Seq(Byte) /\ more \in Seq(Byte) /\ Len(more) = Len(record) - n
        /\ front \o more = record
    <3>1. Halved(record, n)
      BY Halves
    <3> QED
      BY <2>2, <2>4, <3>1 DEF Halved
  <2> HIDE DEF front, more
  <2>6. (SuccessHeader \o front) \o more = SuccessHeader \o record
    <3>1. Brackets(SuccessHeader, front, more)
      BY Associative
    <3> QED
      BY <2>3, <2>5, <3>1 DEF Brackets
  <2>7. Len(record) <= MaxTransfer => more = <<>>
    BY <2>2, <2>4, <2>5, EmptySeq
  <2> QED
    BY <2>1, <2>5, <2>6, <2>7 DEF record
<1>3. CASE ~IsSentValue(c)
  <2>1. ToSend(c) = AnswerBytes(c)
    BY <1>3, OtherCalls DEF ToSend, AnswerBytes, IsSentValue
  <2>2. ToSend(c) \in Seq(Byte)
    BY <1>1, WireBytes DEF ToSend
  <2>3. ToSend(c) \o <<>> = ToSend(c)
    BY <2>2, ConcatEmptySeq
  <2> QED
    BY <1>1, <2>1, <2>3
<1> QED
  BY <1>2, <1>3

(* parse_request and both ClientSocket::write: once the server has turned  *)
(* to something else, a client that waits has before it or on its way a    *)
(* beginning of its answer, and all of it unless the record is longer than *)
(* one sendfile transfers or a signal has told the server to stop.         *)
THEOREM AnswersArriveWhole == Spec => []AnswersComplete
<1>1. Inv => AnswersComplete
  <2> SUFFICES ASSUME Inv, NEW c \in Process, effect[c] # NULL, serving # c, pc[c] = "waiting"
               PROVE  /\ \E n \in 0 .. Len(AnswerBytes(c)) :
                           inbox[c] \o outbox[c] = SubSeq(AnswerBytes(c), 1, n)
                      /\ (running /\ Len(Record(effect[c].body)) <= MaxTransfer)
                           => inbox[c] \o outbox[c] = AnswerBytes(c)
    BY DEF AnswersComplete
  <2>1. PICK lost \in Seq(Byte) : IsLost(c, lost) /\ <<>> \o (Ahead(c) \o lost) = ToSend(c)
    <3>1. PICK taken \in Seq(Byte) : HasTaken(c, taken)
      BY DEF Inv, PerProcess, Arrives, Gone
    <3> QED
      BY <3>1 DEF HasTaken
  <2>2. PICK more \in Seq(Byte) :
          /\ ToSend(c) \o more = AnswerBytes(c)
          /\ Len(Record(effect[c].body)) <= MaxTransfer => more = <<>>
    BY AnswerIsSent
  <2> DEFINE arriving == inbox[c] \o outbox[c]
  <2>3. arriving \in Seq(Byte) /\ Ahead(c) = arriving
    <3>1. inbox[c] \in Seq(Byte) /\ outbox[c] \in Seq(Byte) /\ ToCome(c) = <<>>
      BY AheadType DEF ToCome
    <3>2. outbox[c] \o <<>> = outbox[c]
      BY <3>1, ConcatEmptySeq
    <3>3. arriving \in Seq(Byte)
      BY <3>1, ConcatProperties
    <3> QED
      BY <3>1, <3>2, <3>3 DEF Ahead
  <2> HIDE DEF arriving
  <2>4. arriving \o lost = ToSend(c) /\ lost \o more \in Seq(Byte)
    <3>1. arriving \o lost \in Seq(Byte) /\ lost \o more \in Seq(Byte)
      BY <2>3, ConcatProperties
    <3>2. <<>> \o (arriving \o lost) = arriving \o lost
      BY <3>1, ConcatEmptySeq
    <3> QED
      BY <2>1, <2>3, <3>1, <3>2
  <2>5. arriving \o (lost \o more) = AnswerBytes(c)
    <3>1. Brackets(arriving, lost, more)
      BY Associative
    <3> QED
      BY <2>2, <2>3, <2>4, <3>1 DEF Brackets
  <2>6. \E n \in 0 .. Len(AnswerBytes(c)) : arriving = SubSeq(AnswerBytes(c), 1, n)
    <3> DEFINE rest == lost \o more
    <3>1. rest \in Seq(Byte)
      BY <2>4
    <3> HIDE DEF rest
    <3>2. /\ arriving \o rest \in Seq(Byte) /\ Len(arriving \o rest) = Len(arriving) + Len(rest)
          /\ Len(arriving) \in Nat /\ Len(rest) \in Nat
          /\ \A i \in 1 .. Len(arriving) : (arriving \o rest)[i] = arriving[i]
      <4>1. Joined(arriving, rest)
        BY Joins
      <4> QED
        BY <2>3, <3>1, <4>1 DEF Joined
    <3>3. PICK whole, n : whole = arriving \o rest /\ n = Len(arriving)
      OBVIOUS
    <3>4. whole \in Seq(Byte) /\ n \in 0 .. Len(whole)
      BY <3>2, <3>3
    <3>5. /\ SubSeq(whole, 1, n) \in Seq(Byte) /\ Len(SubSeq(whole, 1, n)) = n
          /\ \A i \in 1 .. n : SubSeq(whole, 1, n)[i] = whole[i]
      <4>1. Halved(whole, n)
        BY Halves
      <4> QED
        BY <3>4, <4>1 DEF Halved
    <3>6. \A i \in 1 .. n : SubSeq(whole, 1, n)[i] = arriving[i]
      BY <3>2, <3>3, <3>5
    <3>7. arriving = SubSeq(whole, 1, n)
      BY <2>3, <3>3, <3>5, <3>6, SeqEqual
    <3>8. whole = AnswerBytes(c)
      BY <2>5, <3>3 DEF rest
    <3> QED
      BY <3>4, <3>7, <3>8
  <2>7. ASSUME running, Len(Record(effect[c].body)) <= MaxTransfer
        PROVE  arriving = AnswerBytes(c)
    <3>1. lost = <<>> /\ more = <<>>
      BY <2>1, <2>2, <2>7 DEF IsLost
    <3>2. arriving \o <<>> = arriving /\ <<>> \o <<>> = <<>>
      BY <2>3, ConcatEmptySeq
    <3> QED
      BY <2>5, <3>1, <3>2
  <2> QED
    BY <2>6, <2>7 DEF arriving
<1> QED
  BY <1>1, InvHolds, PTL

(* read_response and cli-read: what a successful read prints is of the     *)
(* record of its key and of no other, from where the first read stopped,   *)
(* zeros after it, and never longer than the value: for values of up to    *)
(* 2^32 - 1 bytes, and however the answer was cut up on its way.           *)
THEOREM ShownOfRecord == Spec => []ShownFromRecord
<1>1. Inv => ShownFromRecord
  BY DEF Inv, PerProcess, Shows, ShowsPart, ShownFromRecord
<1> QED
  BY <1>1, InvHolds, PTL

(* ClientSocket::write and the SIGPIPE nothing handles: a client takes the *)
(* server down only by being gone while it is sent a value it asked for.   *)
THEOREM DiesSendingValues == Spec => []DiesOnlySendingValues
<1>1. Inv => DiesOnlySendingValues
  BY DEF Inv
<1> QED
  BY <1>1, InvHolds, PTL

(* The clients, the network and the server together are the map of module  *)
(* Service: a request takes effect at most once, at one moment, when       *)
(* parse_request has it, and a process exits with 0 only of a request that *)
(* was granted before.                                                     *)
THEOREM SystemImplementsService == Spec => ImplementsService
BY InitIsServiceInit, StepKeepsInv, InvHolds, PTL DEF Spec, ImplementsService, S!Spec
=============================================================================
