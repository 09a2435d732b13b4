---------------------------- MODULE Handler_proofs ---------------------------
(***************************************************************************)
(* One connection, proved for requests of any number, kind and size, and   *)
(* buffers of any size.                                                    *)
(*                                                                         *)
(* What the client has sent is at every moment what the server has taken,  *)
(* what parse_request has of the request at hand, and what is still in its *)
(* buffer, in the socket's and on the wire: that holds on networks of any  *)
(* delay.  Until a request is given up, what was taken is moreover the     *)
(* encoding of the requests that were answered, and what parse_request     *)
(* knows of the one at hand is right; a request that is given up is not    *)
(* well-formed, or late.                                                   *)
(***************************************************************************)
EXTENDS Handler, Lists_proofs, KnowNothing_proofs

-----------------------------------------------------------------------------
(* The codec. *)

LEMMA RequestBytes ==
  ASSUME NEW request, request.messages \in Byte,
         request.key \in Seq(Byte), request.value \in Seq(Byte)
  PROVE  EncodeRequest(request) \in Seq(Byte)
<1>1. <<V1, request.messages>> \in Seq(Byte) /\ <<>> \in Seq(Byte)
  BY DEF V1, Byte
<1>2. Message(request.key) \in Seq(Byte) /\ Message(request.value) \in Seq(Byte)
  BY MessageBytes
<1>3. (IF IsWrite(request) THEN Message(request.value) ELSE <<>>) \in Seq(Byte)
  BY <1>1, <1>2
<1>4. <<V1, request.messages>> \o Message(request.key) \in Seq(Byte)
  BY <1>1, <1>2, ConcatProperties
<1> QED
  BY <1>3, <1>4, ConcatProperties DEF EncodeRequest

LEMMA Digits ==
  ASSUME NEW a \in Byte, NEW b \in Byte, NEW c \in Byte, NEW d \in Byte,
         NEW n, n = a + 256 * b + 65536 * c + 16777216 * d
  PROVE  n \in Nat /\ Serialize4(n) = <<a, b, c, d>>
<1>1. /\ a \in Nat /\ a < 256 /\ b \in Nat /\ b < 256
      /\ c \in Nat /\ c < 256 /\ d \in Nat /\ d < 256
  BY DEF Byte
<1>2. n \in Nat
  BY <1>1, SMT
<1>3. n % 256 = a
  BY <1>1, <1>2, SMT
<1>4. n \div 256 = b + 256 * c + 65536 * d /\ (n \div 256) % 256 = b
  <2>1. n \div 256 = b + 256 * c + 65536 * d
    BY <1>1, <1>2, SMT
  <2> QED
    BY <1>1, <2>1, SMT
<1>5. n \div 65536 = c + 256 * d /\ (n \div 65536) % 256 = c
  <2>1. n \div 65536 = c + 256 * d
    BY <1>1, <1>2, SMT
  <2> QED
    BY <1>1, <2>1, SMT
<1>6. n \div 16777216 = d /\ (n \div 16777216) % 256 = d
  <2>1. n \div 16777216 = d
    BY <1>1, <1>2, SMT
  <2> QED
    BY <1>1, <2>1, SMT
<1> QED
  BY <1>2, <1>3, <1>4, <1>5, <1>6, SMT DEF Serialize4

(* Four bytes are the encoding of the size they are taken for. *)
LEMMA SizesDecoded ==
  ASSUME NEW bytes \in Seq(Byte), Len(bytes) = 4
  PROVE  /\ Deserialize4(bytes) \in Nat
         /\ Serialize4(Deserialize4(bytes)) = bytes
<1>1. /\ bytes[1] \in Byte /\ bytes[2] \in Byte /\ bytes[3] \in Byte /\ bytes[4] \in Byte
  <2>1. \A i \in 1 .. 4 : bytes[i] \in Byte
    BY ElementOfSeq
  <2> QED
    BY <2>1
<1>2. bytes = <<bytes[1], bytes[2], bytes[3], bytes[4]>>
  <2> DEFINE four == <<bytes[1], bytes[2], bytes[3], bytes[4]>>
  <2>1. four \in Seq(Byte) /\ Len(four) = 4
    BY <1>1
  <2>2. \A i \in 1 .. 4 : four[i] = bytes[i]
    OBVIOUS
  <2> HIDE DEF four
  <2>3. \A i \in 1 .. Len(bytes) : bytes[i] = four[i]
    BY <2>2
  <2>4. bytes = four
    BY <2>1, <2>3, SeqEqual
  <2> QED
    BY <2>4 DEF four
<1>3. /\ Deserialize4(bytes) \in Nat
      /\ Serialize4(Deserialize4(bytes)) = <<bytes[1], bytes[2], bytes[3], bytes[4]>>
  BY <1>1, Digits DEF Deserialize4
<1> QED
  BY <1>2, <1>3

-----------------------------------------------------------------------------
(* What a client has sent with its requests. *)

(* The recursive function of Encoded, for any requests. *)
Encodes(f, reqs) ==
  f = [n \in 0 .. Len(reqs) |->
         IF n = 0 THEN <<>> ELSE f[n - 1] \o EncodeRequest(reqs[n])]
Stream(reqs) == CHOOSE f : Encodes(f, reqs)

LEMMA EncodedIsStream == Encoded = Stream(requests) /\ Encoded' = Stream(requests')
BY DEF Encoded, Stream, Encodes

LEMMA StreamExists ==
  ASSUME NEW reqs \in Seq(Request)
  PROVE  \E f : Encodes(f, reqs)
<1> DEFINE Step(f, n) == IF n = 0 THEN <<>> ELSE f[n - 1] \o EncodeRequest(reqs[n])
           Solves(f, length) == f = [n \in 0 .. length |-> Step(f, n)]
           Solved == {length \in 0 .. Len(reqs) : \E f : Solves(f, length)}
<1>1. Len(reqs) \in Nat
  BY LenProperties
<1>2. 0 \in Solved
  <2>1. Solves([n \in 0 .. 0 |-> <<>>], 0)
    OBVIOUS
  <2> HIDE DEF Solves
  <2> QED
    BY <1>1, <2>1
<1>3. ASSUME NEW length \in 0 .. Len(reqs) - 1, length \in Solved
      PROVE  length + 1 \in Solved
  <2>1. PICK f : Solves(f, length)
    BY <1>3
  <2> DEFINE longer == [n \in 0 .. length + 1 |-> IF n = length + 1 THEN Step(f, n) ELSE f[n]]
  <2>2. length \in Nat /\ length + 1 \in 0 .. Len(reqs)
    BY <1>1
  <2>3. \A n \in 0 .. length : longer[n] = f[n] /\ f[n] = Step(f, n)
    <3> HIDE DEF Step
    <3>1. \A n \in 0 .. length : n \in 0 .. length + 1 /\ n # length + 1
      BY <2>2
    <3>2. \A n \in 0 .. length : longer[n] = f[n]
      BY <3>1
    <3>3. \A n \in 0 .. length : f[n] = Step(f, n)
      BY <2>1
    <3> QED
      BY <3>2, <3>3
  <2>4. longer[length + 1] = Step(f, length + 1)
    <3> HIDE DEF Step
    <3> QED
      BY <2>2
  <2>5. \A n \in 0 .. length + 1 : longer[n] = Step(longer, n)
    <3> TAKE n \in 0 .. length + 1
    <3>1. n = 0 \/ n - 1 \in 0 .. length
      BY <2>2
    <3>2. Step(longer, n) = Step(f, n)
      <4> HIDE DEF longer
      <4> QED
        BY <3>1, <2>3
    <3>3. n = length + 1 \/ n \in 0 .. length
      BY <2>2
    <3> HIDE DEF longer, Step
    <3> QED
      BY <3>2, <3>3, <2>3, <2>4
  <2>6. Solves(longer, length + 1)
    <3> HIDE DEF Step
    <3> QED
      BY <2>5
  <2> QED
    BY <2>2, <2>6
<1>4. Len(reqs) \in Solved
  <2> HIDE DEF Solved
  <2>1. \A n \in 0 .. Len(reqs) - 1 : n \in Solved => n + 1 \in Solved
    BY <1>3
  <2>2. \A n \in 0 .. Len(reqs) : n \in Solved
    BY <1>1, <1>2, <2>1, InductionUpTo
  <2> QED
    BY <1>1, <2>2
<1> QED
  BY <1>4 DEF Encodes

LEMMA RequestTypes ==
  ASSUME NEW request \in Request
  PROVE  /\ EncodeRequest(request) \in Seq(Byte)
         /\ Deserialize4(Serialize4(Len(request.key))) = Len(request.key)
         /\ Deserialize4(Serialize4(Len(request.value))) = Len(request.value)
<1>1. /\ request.messages \in Byte
      /\ request.key \in Seq(Byte) /\ SizeFits(request.key)
      /\ request.value \in Seq(Byte) /\ SizeFits(request.value)
  BY HandlerAssumption
<1>2. EncodeRequest(request) \in Seq(Byte)
  BY <1>1, RequestBytes
<1>5. /\ Deserialize4(Serialize4(Len(request.key))) = Len(request.key)
      /\ Deserialize4(Serialize4(Len(request.value))) = Len(request.value)
  BY <1>1, SizesFit
<1> QED
  BY <1>2, <1>5

LEMMA StreamProperties ==
  ASSUME NEW reqs \in Seq(Request)
  PROVE  /\ Stream(reqs)[0] = <<>>
         /\ \A n \in 1 .. Len(reqs) :
              Stream(reqs)[n] = Stream(reqs)[n - 1] \o EncodeRequest(reqs[n])
         /\ \A n \in 0 .. Len(reqs) : Stream(reqs)[n] \in Seq(Byte)
<1> DEFINE f == Stream(reqs)
           Typed == {n \in 0 .. Len(reqs) : f[n] \in Seq(Byte)}
<1>1. Len(reqs) \in Nat /\ \A n \in 1 .. Len(reqs) : reqs[n] \in Request
  BY LenProperties, ElementOfSeq
<1>2. f = [n \in 0 .. Len(reqs) |-> IF n = 0 THEN <<>> ELSE f[n - 1] \o EncodeRequest(reqs[n])]
  <2>1. \E g : Encodes(g, reqs)
    BY StreamExists
  <2>2. Encodes(f, reqs)
    BY <2>1 DEF Stream
  <2> HIDE DEF f
  <2> QED
    BY <2>2 DEF Encodes
<1> HIDE DEF f
<1>3. f[0] = <<>> /\ \A n \in 1 .. Len(reqs) : f[n] = f[n - 1] \o EncodeRequest(reqs[n])
  <2>1. f[0] = <<>>
    BY <1>1, <1>2
  <2>2. \A n \in 1 .. Len(reqs) : n \in 0 .. Len(reqs) /\ n # 0
    BY <1>1
  <2> QED
    BY <1>2, <2>1, <2>2
<1>4. 0 \in Typed
  <2>1. 0 \in 0 .. Len(reqs)
    BY <1>1
  <2>2. f[0] \in Seq(Byte)
    BY <1>3, EmptySeq
  <2> QED
    BY <2>1, <2>2
<1>5. \A n \in 0 .. Len(reqs) - 1 : n \in Typed => n + 1 \in Typed
  <2> SUFFICES ASSUME NEW n \in 0 .. Len(reqs) - 1, f[n] \in Seq(Byte)
               PROVE  n + 1 \in 0 .. Len(reqs) /\ f[n + 1] \in Seq(Byte)
    OBVIOUS
  <2>1. n + 1 \in 1 .. Len(reqs) /\ n + 1 \in 0 .. Len(reqs) /\ (n + 1) - 1 = n
    BY <1>1
  <2>2. f[n + 1] = f[n] \o EncodeRequest(reqs[n + 1])
    BY <1>3, <2>1
  <2>3. EncodeRequest(reqs[n + 1]) \in Seq(Byte)
    BY <1>1, <2>1, RequestTypes
  <2> QED
    BY <2>1, <2>2, <2>3, ConcatProperties
<1> HIDE DEF Typed
<1>6. \A n \in 0 .. Len(reqs) : n \in Typed
  BY <1>1, <1>4, <1>5, InductionUpTo
<1> QED
  BY <1>3, <1>6 DEF f, Typed

LEMMA StreamGrows ==
  ASSUME NEW reqs \in Seq(Request), NEW request \in Request
  PROVE  LET longer == Append(reqs, request)
         IN  /\ longer \in Seq(Request) /\ Len(longer) = Len(reqs) + 1
             /\ \A n \in 1 .. Len(reqs) : longer[n] = reqs[n]
             /\ \A n \in 0 .. Len(reqs) : Stream(longer)[n] = Stream(reqs)[n]
             /\ Stream(longer)[Len(longer)] = Stream(reqs)[Len(reqs)] \o EncodeRequest(request)
<1> DEFINE longer == Append(reqs, request)
           Same == {n \in 0 .. Len(reqs) : Stream(longer)[n] = Stream(reqs)[n]}
<1>1. /\ longer \in Seq(Request) /\ Len(longer) = Len(reqs) + 1 /\ Len(reqs) \in Nat
      /\ \A n \in 1 .. Len(reqs) : longer[n] = reqs[n]
      /\ longer[Len(longer)] = request
  BY AppendProperties, LenProperties
<1> HIDE DEF longer
<1>2. /\ Stream(reqs)[0] = <<>>
      /\ \A n \in 1 .. Len(reqs) :
           Stream(reqs)[n] = Stream(reqs)[n - 1] \o EncodeRequest(reqs[n])
  BY StreamProperties
<1>3. /\ Stream(longer)[0] = <<>>
      /\ \A n \in 1 .. Len(longer) :
           Stream(longer)[n] = Stream(longer)[n - 1] \o EncodeRequest(longer[n])
  BY <1>1, StreamProperties
<1>4. 0 \in Same
  BY <1>1, <1>2, <1>3
<1>5. \A n \in 0 .. Len(reqs) - 1 : n \in Same => n + 1 \in Same
  <2> SUFFICES ASSUME NEW n \in 0 .. Len(reqs) - 1, Stream(longer)[n] = Stream(reqs)[n]
               PROVE  n + 1 \in 0 .. Len(reqs) /\ Stream(longer)[n + 1] = Stream(reqs)[n + 1]
    OBVIOUS
  <2>1. /\ n + 1 \in 1 .. Len(reqs) /\ n + 1 \in 0 .. Len(reqs)
        /\ n + 1 \in 1 .. Len(longer) /\ (n + 1) - 1 = n
    BY <1>1
  <2> QED
    BY <1>1, <1>2, <1>3, <2>1
<1> HIDE DEF Same
<1>6. \A n \in 0 .. Len(reqs) : n \in Same
  BY <1>1, <1>4, <1>5, InductionUpTo
<1>7. \A n \in 0 .. Len(reqs) : Stream(longer)[n] = Stream(reqs)[n]
  BY <1>6 DEF Same
<1>8. Stream(longer)[Len(longer)] = Stream(reqs)[Len(reqs)] \o EncodeRequest(request)
  <2>1. /\ Len(longer) \in 1 .. Len(longer) /\ Len(longer) - 1 = Len(reqs)
        /\ Len(reqs) \in 0 .. Len(reqs)
    BY <1>1
  <2> QED
    BY <1>1, <1>3, <1>7, <2>1
<1> QED
  BY <1>1, <1>7, <1>8 DEF longer

LEMMA StreamFollows ==
  ASSUME NEW reqs \in Seq(Request), NEW n \in 0 .. Len(reqs)
  PROVE  \E rest \in Seq(Byte) : Stream(reqs)[Len(reqs)] = Stream(reqs)[n] \o rest
<1> DEFINE Follows == {d \in 0 .. Len(reqs) - n :
                        \E rest \in Seq(Byte) : Stream(reqs)[n + d] = Stream(reqs)[n] \o rest}
<1>1. Len(reqs) \in Nat /\ n \in Nat /\ Len(reqs) - n \in Nat
  BY LenProperties
<1>2. /\ \A m \in 1 .. Len(reqs) :
           Stream(reqs)[m] = Stream(reqs)[m - 1] \o EncodeRequest(reqs[m])
      /\ \A m \in 0 .. Len(reqs) : Stream(reqs)[m] \in Seq(Byte)
      /\ \A m \in 1 .. Len(reqs) : EncodeRequest(reqs[m]) \in Seq(Byte)
  <2>1. \A m \in 1 .. Len(reqs) : reqs[m] \in Request
    BY ElementOfSeq
  <2> QED
    BY <2>1, StreamProperties, RequestTypes
<1>3. 0 \in Follows
  <2>1. <<>> \in Seq(Byte) /\ Stream(reqs)[n] \o <<>> = Stream(reqs)[n]
    BY <1>2, EmptySeq, ConcatEmptySeq
  <2>2. 0 \in 0 .. Len(reqs) - n /\ n + 0 = n
    BY <1>1
  <2> QED
    BY <2>1, <2>2
<1>4. \A d \in 0 .. (Len(reqs) - n) - 1 : d \in Follows => d + 1 \in Follows
  <2> SUFFICES ASSUME NEW d \in 0 .. (Len(reqs) - n) - 1, NEW rest \in Seq(Byte),
                      Stream(reqs)[n + d] = Stream(reqs)[n] \o rest
               PROVE  d + 1 \in Follows
    OBVIOUS
  <2> DEFINE m == n + (d + 1)
  <2>1. d + 1 \in 0 .. Len(reqs) - n /\ m \in 1 .. Len(reqs) /\ m - 1 = n + d
    BY <1>1
  <2> HIDE DEF m
  <2>2. Stream(reqs)[m] = (Stream(reqs)[n] \o rest) \o EncodeRequest(reqs[m])
    BY <1>2, <2>1
  <2>3. Stream(reqs)[n] \in Seq(Byte) /\ EncodeRequest(reqs[m]) \in Seq(Byte)
    BY <1>2, <2>1
  <2>4. /\ rest \o EncodeRequest(reqs[m]) \in Seq(Byte)
        /\ Stream(reqs)[m] = Stream(reqs)[n] \o (rest \o EncodeRequest(reqs[m]))
    <3>1. rest \in Seq(Byte) /\ Stream(reqs)[n] \in Seq(Byte) /\ EncodeRequest(reqs[m]) \in Seq(Byte)
      BY <2>3
    <3>2. Brackets(Stream(reqs)[n], rest, EncodeRequest(reqs[m]))
      BY Associative
    <3>3. (Stream(reqs)[n] \o rest) \o EncodeRequest(reqs[m]) = Stream(reqs)[n] \o (rest \o EncodeRequest(reqs[m]))
      BY <3>1, <3>2 DEF Brackets
    <3> QED
      BY <2>2, <3>1, <3>3, ConcatProperties
  <2> QED
    BY <2>1, <2>4 DEF m
<1> HIDE DEF Follows
<1>5. Len(reqs) - n \in Follows
  <2>1. \A d \in 0 .. Len(reqs) - n : d \in Follows
    BY <1>1, <1>3, <1>4, InductionUpTo
  <2> QED
    BY <1>1, <2>1
<1>6. n + (Len(reqs) - n) = Len(reqs)
  BY <1>1
<1> QED
  BY <1>5, <1>6 DEF Follows

-----------------------------------------------------------------------------
(* The invariant, for any requests and any network. *)

(* All the client has sent, and what of it the server has not used. *)
Sent == Stream(requests)[Len(requests)]
Unused == buffer \o (inbox \o wire)

(* What parse_request has taken of the request at hand. *)
Parsed ==
  CASE pc = "messages" -> <<V1>>
    [] pc = "first_size" -> <<V1, messages>>
    [] pc = "first" -> <<V1, messages>> \o Serialize4(size)
    [] pc = "second_size" -> <<V1, messages>> \o Message(first_message)
    [] pc = "second" -> (<<V1, messages>> \o Message(first_message)) \o Serialize4(size)
    [] OTHER -> <<>>

Accounted(taken) == taken \in Seq(Byte) /\ Sent = (taken \o Parsed) \o Unused

Inv ==
  /\ TypeOK
  /\ pc \in {"second_size", "second"} => messages = 2 /\ IsKeyValid(first_message)
  /\ \E taken \in Seq(Byte) : Accounted(taken)

-----------------------------------------------------------------------------
(* How the parts move. *)

LEMMA Types ==
  ASSUME TypeOK
  PROVE  /\ requests \in Seq(Request) /\ Len(requests) \in Nat
         /\ wire \in Seq(Byte) /\ inbox \in Seq(Byte) /\ buffer \in Seq(Byte)
         /\ Len(wire) \in Nat /\ Len(inbox) \in Nat /\ Len(buffer) \in Nat
         /\ inbox \o wire \in Seq(Byte) /\ Unused \in Seq(Byte)
         /\ Sent \in Seq(Byte)
         /\ Requested \in Nat
<1>1. /\ requests \in Seq(Request)
      /\ wire \in Seq(Byte) /\ inbox \in Seq(Byte) /\ buffer \in Seq(Byte)
      /\ size \in Nat
  BY DEF TypeOK
<1>2. Len(requests) \in Nat /\ Len(wire) \in Nat /\ Len(inbox) \in Nat /\ Len(buffer) \in Nat
  BY <1>1, LenProperties
<1>3. inbox \o wire \in Seq(Byte)
  BY <1>1, ConcatProperties
<1>4. Unused \in Seq(Byte)
  BY <1>1, <1>3, ConcatProperties DEF Unused
<1>5. Sent \in Seq(Byte)
  <2>1. Len(requests) \in 0 .. Len(requests)
    BY <1>2
  <2> QED
    BY <1>1, <2>1, StreamProperties DEF Sent
<1>6. Requested \in Nat
  BY <1>1 DEF Requested
<1> QED
  BY <1>1, <1>2, <1>3, <1>4, <1>5, <1>6

LEMMA ParsedType ==
  ASSUME TypeOK
  PROVE  Parsed \in Seq(Byte)
<1>1. <<V1>> \in Seq(Byte) /\ <<V1, messages>> \in Seq(Byte) /\ <<>> \in Seq(Byte)
  BY DEF TypeOK, V1, Byte
<1>2. size \in Nat /\ first_message \in Seq(Byte)
  BY DEF TypeOK
<1>3. Serialize4(size) \in Seq(Byte) /\ Message(first_message) \in Seq(Byte)
  BY <1>2, FourBytes, MessageBytes
<1>4. /\ <<V1, messages>> \o Serialize4(size) \in Seq(Byte)
      /\ <<V1, messages>> \o Message(first_message) \in Seq(Byte)
      /\ (<<V1, messages>> \o Message(first_message)) \o Serialize4(size) \in Seq(Byte)
  BY <1>1, <1>3, ConcatProperties
<1> QED
  BY <1>1, <1>4 DEF Parsed

(* Taking n bytes from the buffer moves them to what was taken. *)
LEMMA TakeMoves ==
  ASSUME TypeOK, NEW n \in 0 .. Len(buffer),
         buffer' = Popped(n), UNCHANGED <<requests, wire, inbox>>,
         NEW taken, Accounted(taken)
  PROVE  /\ Taken(n) \in Seq(Byte) /\ Len(Taken(n)) = n /\ Popped(n) \in Seq(Byte)
         /\ Parsed' = Parsed \o Taken(n) => Accounted(taken)'
         /\ \A more : more = taken \o (Parsed \o Taken(n)) /\ Parsed' = <<>> =>
              more \in Seq(Byte) /\ Accounted(more)'
<1> DEFINE far == inbox \o wire
           parsed == Parsed
           whole == Sent
           bite == Taken(n)
           rest == Popped(n)
           before == taken \o parsed
           after == rest \o far
<1>1. /\ buffer \in Seq(Byte) /\ far \in Seq(Byte) /\ parsed \in Seq(Byte)
      /\ taken \in Seq(Byte) /\ whole = before \o (buffer \o far)
  BY Types, ParsedType DEF Accounted, Unused
<1>2. Sent' = whole /\ Unused' = after
  BY DEF Sent, Unused
<1> HIDE DEF far, parsed, whole
<1>3. bite \in Seq(Byte) /\ Len(bite) = n /\ rest \in Seq(Byte) /\ bite \o rest = buffer
  BY <1>1, SplitAt DEF Taken, Popped
<1> HIDE DEF bite, rest
<1>4. before \in Seq(Byte) /\ after \in Seq(Byte) /\ parsed \o bite \in Seq(Byte)
  BY <1>1, <1>3, ConcatProperties
<1>5. buffer \o far = bite \o after
  <2>1. Brackets(bite, rest, far)
    BY Associative
  <2> QED
    BY <1>1, <1>3, <2>1 DEF Brackets
<1>6. before \o bite = taken \o (parsed \o bite) /\ taken \o (parsed \o bite) \in Seq(Byte)
  <2>1. Brackets(taken, parsed, bite)
    BY Associative
  <2>2. taken \o (parsed \o bite) \in Seq(Byte)
    BY <1>1, <1>4, ConcatProperties
  <2> QED
    BY <1>1, <1>3, <2>1, <2>2 DEF Brackets
<1>7. whole = (taken \o (parsed \o bite)) \o after
  <2> HIDE DEF before, after
  <2>1. Brackets(before, bite, after)
    BY Associative
  <2>2. (before \o bite) \o after = before \o (bite \o after)
    BY <1>3, <1>4, <2>1 DEF Brackets
  <2> QED
    BY <1>1, <1>5, <1>6, <2>2
<1> HIDE DEF after
<1>8. ASSUME Parsed' = parsed \o bite PROVE Accounted(taken)'
  BY <1>1, <1>2, <1>8, <1>7 DEF Accounted
<1>9. ASSUME NEW more, more = taken \o (parsed \o bite), Parsed' = <<>>
      PROVE  more \in Seq(Byte) /\ Accounted(more)'
  <2>1. more \in Seq(Byte) /\ more \o <<>> = more
    BY <1>9, <1>6, ConcatEmptySeq
  <2>2. Sent' = (more \o Parsed') \o Unused'
    BY <1>2, <1>9, <1>7, <2>1
  <2> QED
    BY <2>1, <2>2 DEF Accounted
<1> QED
  BY <1>3, <1>8, <1>9 DEF bite, rest, parsed

(* What is left alone stays where it is. *)
LEMMA StillAccounted ==
  ASSUME UNCHANGED requests, Parsed' = Parsed, Unused' = Unused, NEW taken, Accounted(taken)
  PROVE  Accounted(taken)'
BY DEF Accounted, Sent

LEMMA AnswerTypes ==
  ASSUME TypeOK
  PROVE  /\ Refusal \in [status: {OK, CLIENT_ERROR}, body: Seq(Byte)]
         /\ Success(<<>>) \in [status: {OK, CLIENT_ERROR}, body: Seq(Byte)]
         /\ \A key : Found(kv, key) \in [status: {OK, CLIENT_ERROR}, body: Seq(Byte)]
<1>1. <<>> \in Seq(Byte)
  BY EmptySeq
<1>2. \A content \in Seq(Byte) : Success(content) \in [status: {OK, CLIENT_ERROR}, body: Seq(Byte)]
  BY DEF Success
<1>3. Refusal \in [status: {OK, CLIENT_ERROR}, body: Seq(Byte)]
  BY <1>1 DEF Refusal
<1>4. \A key \in DOMAIN kv : kv[key] \in Seq(Byte)
  BY DEF TypeOK
<1> QED
  BY <1>1, <1>2, <1>3, <1>4 DEF Found

-----------------------------------------------------------------------------
(* The steps. *)

LEMMA InitGivesInv == Init => Inv
<1> SUFFICES ASSUME Init PROVE Inv
  OBVIOUS
<1>1. <<>> \in Seq(Byte) /\ <<>> \in Seq(Request)
      /\ <<>> \in Seq([status: {OK, CLIENT_ERROR}, body: Seq(Byte)]) /\ Len(<<>>) = 0
  BY EmptySeq
<1>2. kv = <<>> /\ DOMAIN kv = {}
  BY DEF Init
<1>3. TypeOK
  <2>1. 0 \in Byte /\ 0 \in Nat
    BY DEF Byte
  <2>2. \A key \in DOMAIN kv : IsKeyValid(key) /\ kv[key] \in Seq(Byte)
    BY <1>2
  <2>3. prompt \in BOOLEAN /\ event \in BOOLEAN /\ lost \in BOOLEAN
    BY DEF Init
  <2> QED
    BY <1>1, <2>1, <2>2, <2>3 DEF Init, TypeOK
<1>4. Sent = <<>>
  <2>1. requests \in Seq(Request) /\ Len(requests) = 0
    BY <1>1 DEF Init
  <2> QED
    BY <2>1, StreamProperties DEF Sent
<1>5. Unused = <<>> /\ Parsed = <<>>
  <2>1. <<>> \o <<>> = <<>>
    BY <1>1, ConcatEmptySeq
  <2> QED
    BY <2>1 DEF Init, Unused, Parsed
<1>6. Accounted(<<>>)
  <2>1. <<>> \o <<>> = <<>>
    BY <1>1, ConcatEmptySeq
  <2> QED
    BY <1>1, <1>4, <1>5, <2>1 DEF Accounted
<1> QED
  BY <1>1, <1>3, <1>6 DEF Inv, Init

LEMMA SendKeepsInv ==
  ASSUME Inv, NEW request \in Request, Send(request)
  PROVE  /\ Inv'
         /\ \A taken : Accounted(taken) => Accounted(taken)'
<1> DEFINE more == EncodeRequest(request)
<1>1. more \in Seq(Byte)
  BY RequestTypes
<1> HIDE DEF more
<1>2. /\ requests' = Append(requests, request) /\ wire' = wire \o more
      /\ UNCHANGED <<prompt, inbox, event, buffer, pc, parseVars, kv, answers, lost>>
  BY DEF Send, more
<1>3. requests \in Seq(Request) /\ wire \in Seq(Byte)
  BY DEF Inv, TypeOK
<1>4. requests' \in Seq(Request) /\ Sent' = Sent \o more
  BY <1>2, <1>3, StreamGrows DEF Sent, more
<1>5. TypeOK'
  <2>1. wire' \in Seq(Byte)
    BY <1>1, <1>2, <1>3, ConcatProperties
  <2>2. prompt' \in BOOLEAN /\ event' \in BOOLEAN /\ lost' \in BOOLEAN
    BY <1>2 DEF Inv, TypeOK
  <2> QED
    BY <1>2, <1>4, <2>1, <2>2 DEF Inv, TypeOK, parseVars
<1>6. Unused' = Unused \o more /\ Parsed' = Parsed
  <2> DEFINE far == inbox \o wire
  <2>1. inbox \in Seq(Byte) /\ buffer \in Seq(Byte) /\ far \in Seq(Byte)
    BY Types DEF Inv
  <2>2. Brackets(inbox, wire, more) /\ Brackets(buffer, far, more)
    BY Associative
  <2>3. inbox \o (wire \o more) = far \o more
    BY <1>1, <1>3, <2>1, <2>2 DEF Brackets
  <2> HIDE DEF far
  <2>4. buffer \o (far \o more) = (buffer \o far) \o more
    BY <1>1, <2>1, <2>2 DEF Brackets
  <2>5. Unused = buffer \o far /\ Unused' = buffer \o (inbox \o (wire \o more))
    BY <1>2 DEF Unused, far
  <2>6. Parsed' = Parsed
    BY <1>2 DEF Parsed, parseVars
  <2> QED
    BY <2>3, <2>4, <2>5, <2>6
<1>7. ASSUME NEW taken, Accounted(taken) PROVE Accounted(taken)'
  <2> DEFINE before == taken \o Parsed
  <2>1. taken \in Seq(Byte) /\ Parsed \in Seq(Byte) /\ Unused \in Seq(Byte)
    BY <1>7, Types, ParsedType DEF Inv, Accounted
  <2>2. before \in Seq(Byte)
    BY <2>1, ConcatProperties
  <2>3. Sent = before \o Unused
    BY <1>7 DEF Accounted
  <2>4. Brackets(before, Unused, more)
    BY Associative
  <2> HIDE DEF before
  <2>5. Sent' = before \o (Unused \o more)
    BY <1>1, <1>4, <2>1, <2>2, <2>3, <2>4 DEF Brackets
  <2> QED
    BY <1>6, <2>1, <2>5 DEF Accounted, before
<1>8. pc' \in {"second_size", "second"} => messages' = 2 /\ IsKeyValid(first_message')
  BY <1>2 DEF Inv, parseVars
<1>9. Inv'
  BY <1>5, <1>7, <1>8 DEF Inv
<1> QED
  BY <1>7, <1>9

(* Steps that only move bytes towards the buffer, or begin or end a call.   *)
LEMMA MoveKeepsInv ==
  ASSUME Inv, UNCHANGED <<requests, prompt, parseVars, kv, answers, lost>>,
         Unused' = Unused, Parsed' = Parsed,
         wire' \in Seq(Byte), inbox' \in Seq(Byte), buffer' \in Seq(Byte), event' \in BOOLEAN,
         pc' = pc \/ pc' \in {"protocol", "idle"}
  PROVE  /\ Inv'
         /\ \A taken : Accounted(taken) => Accounted(taken)'
<1>1. requests' = requests /\ messages' = messages /\ size' = size
      /\ first_message' = first_message /\ kv' = kv /\ answers' = answers
  BY DEF parseVars
<1>2. TypeOK'
  <2>1. prompt' \in BOOLEAN /\ lost' \in BOOLEAN
    BY DEF Inv, TypeOK
  <2>2. pc' \in {"idle", "responding"} \cup Items
    BY DEF Inv, TypeOK, Items
  <2> QED
    BY <1>1, <2>1, <2>2 DEF Inv, TypeOK
<1>3. \A taken : Accounted(taken) => Accounted(taken)'
  BY <1>1, StillAccounted
<1>4. Inv'
  BY <1>1, <1>2, <1>3 DEF Inv
<1> QED
  BY <1>3, <1>4

LEMMA DeliverKeepsInv ==
  ASSUME Inv, Deliver
  PROVE  /\ Inv'
         /\ \A taken : Accounted(taken) => Accounted(taken)'
<1>1. PICK n \in 1 .. Len(wire) :
        inbox' = inbox \o SubSeq(wire, 1, n) /\ wire' = SubSeq(wire, n + 1, Len(wire))
  BY DEF Deliver
<1>2. event' = TRUE /\ UNCHANGED <<requests, prompt, buffer, pc, parseVars, kv, answers, lost>>
  BY DEF Deliver
<1> DEFINE front == SubSeq(wire, 1, n)
           back == SubSeq(wire, n + 1, Len(wire))
<1>3. wire \in Seq(Byte) /\ inbox \in Seq(Byte) /\ buffer \in Seq(Byte) /\ n \in 0 .. Len(wire)
  BY Types DEF Inv
<1>4. front \in Seq(Byte) /\ back \in Seq(Byte) /\ front \o back = wire
  BY <1>3, SplitAt
<1> HIDE DEF front, back
<1>5. inbox' = inbox \o front /\ wire' = back /\ inbox' \in Seq(Byte) /\ wire' \in Seq(Byte)
  BY <1>1, <1>3, <1>4, ConcatProperties DEF front, back
<1>6. Unused' = Unused
  <2>1. Brackets(inbox, front, back)
    BY Associative
  <2>2. (inbox \o front) \o back = inbox \o wire
    BY <1>3, <1>4, <2>1 DEF Brackets
  <2> QED
    BY <1>2, <1>5, <2>2 DEF Unused
<1>7. Parsed' = Parsed
  BY <1>2 DEF Parsed, parseVars
<1> QED
  BY <1>2, <1>3, <1>5, <1>6, <1>7, MoveKeepsInv

LEMMA BeginRequestKeepsInv ==
  ASSUME Inv, BeginRequest
  PROVE  /\ Inv'
         /\ \A taken : Accounted(taken) => Accounted(taken)'
<1>1. /\ pc = "idle" /\ pc' = "protocol" /\ event' = FALSE
      /\ UNCHANGED <<requests, prompt, wire, inbox, buffer, parseVars, kv, answers, lost>>
  BY DEF BeginRequest, clientVars
<1>2. Unused' = Unused
  BY <1>1 DEF Unused
<1>3. Parsed' = Parsed
  BY <1>1 DEF Parsed
<1>4. wire' \in Seq(Byte) /\ inbox' \in Seq(Byte) /\ buffer' \in Seq(Byte)
  BY <1>1, Types DEF Inv
<1> QED
  BY <1>1, <1>2, <1>3, <1>4, MoveKeepsInv

LEMMA IgnoreEventKeepsInv ==
  ASSUME Inv, IgnoreEvent
  PROVE  /\ Inv'
         /\ \A taken : Accounted(taken) => Accounted(taken)'
<1>1. /\ event' = FALSE
      /\ UNCHANGED <<requests, prompt, wire, inbox, buffer, pc, parseVars, kv, answers, lost>>
  BY DEF IgnoreEvent, clientVars
<1>2. Unused' = Unused
  BY <1>1 DEF Unused
<1>3. Parsed' = Parsed
  BY <1>1 DEF Parsed, parseVars
<1>4. wire' \in Seq(Byte) /\ inbox' \in Seq(Byte) /\ buffer' \in Seq(Byte)
  BY <1>1, Types DEF Inv
<1> QED
  BY <1>1, <1>2, <1>3, <1>4, MoveKeepsInv

LEMMA ReadSocketKeepsInv ==
  ASSUME Inv, ReadSocket
  PROVE  /\ Inv'
         /\ \A taken : Accounted(taken) => Accounted(taken)'
<1> DEFINE n == IF Len(inbox) < BufferSize THEN Len(inbox) ELSE BufferSize
           front == SubSeq(inbox, 1, n)
           back == SubSeq(inbox, n + 1, Len(inbox))
<1>1. /\ buffer' = buffer \o front /\ inbox' = back
      /\ UNCHANGED <<requests, prompt, wire, event, pc, parseVars, kv, answers, lost>>
  BY DEF ReadSocket, clientVars
<1>2. /\ wire \in Seq(Byte) /\ inbox \in Seq(Byte) /\ buffer \in Seq(Byte)
      /\ Len(inbox) \in Nat
  BY Types DEF Inv
<1>3. n \in 0 .. Len(inbox)
  BY <1>2, HandlerAssumption
<1> HIDE DEF n
<1>4. front \in Seq(Byte) /\ back \in Seq(Byte) /\ front \o back = inbox
  BY <1>2, <1>3, SplitAt
<1> HIDE DEF front, back
<1>5. buffer' \in Seq(Byte) /\ inbox' \in Seq(Byte) /\ wire' \in Seq(Byte)
  BY <1>1, <1>2, <1>4, ConcatProperties
<1>6. Unused' = Unused
  <2> DEFINE rest == back \o wire
  <2>1. Brackets(front, back, wire) /\ Brackets(buffer, front, rest)
    BY Associative
  <2>2. rest \in Seq(Byte)
    BY <1>2, <1>4, ConcatProperties
  <2>3. inbox \o wire = front \o rest
    BY <1>2, <1>4, <2>1 DEF Brackets
  <2>4. Unused' = (buffer \o front) \o rest
    BY <1>1 DEF Unused
  <2> HIDE DEF rest
  <2>5. (buffer \o front) \o rest = buffer \o (front \o rest)
    BY <1>2, <1>4, <2>1, <2>2 DEF Brackets
  <2> QED
    BY <2>3, <2>4, <2>5 DEF Unused
<1>7. Parsed' = Parsed
  BY <1>1 DEF Parsed, parseVars
<1>8. event' \in BOOLEAN
  BY <1>1 DEF Inv, TypeOK
<1> QED
  BY <1>1, <1>5, <1>6, <1>7, <1>8, MoveKeepsInv

LEMMA SendReturnsKeepsInv ==
  ASSUME Inv, SendReturns
  PROVE  /\ Inv'
         /\ \A taken : Accounted(taken) => Accounted(taken)'
<1>1. /\ pc = "responding" /\ pc' = "idle"
      /\ UNCHANGED <<requests, prompt, wire, inbox, event, buffer, parseVars, kv, answers, lost>>
  BY DEF SendReturns, clientVars
<1>2. Unused' = Unused
  BY <1>1 DEF Unused
<1>3. Parsed' = Parsed
  BY <1>1 DEF Parsed
<1>4. wire' \in Seq(Byte) /\ inbox' \in Seq(Byte) /\ buffer' \in Seq(Byte)
  BY <1>1, Types DEF Inv
<1>5. event' \in BOOLEAN
  BY <1>1 DEF Inv, TypeOK
<1> QED
  BY <1>1, <1>2, <1>3, <1>4, <1>5, MoveKeepsInv

-----------------------------------------------------------------------------
(* The steps of parse_request. *)

LEMMA TwoBytes ==
  ASSUME NEW a \in Byte, NEW b \in Byte
  PROVE  <<a>> \o <<b>> = <<a, b>>
<1>1. <<a>> \in Seq(Byte) /\ Len(<<a>>) = 1 /\ <<b>> \in Seq(Byte) /\ Len(<<b>>) = 1
      /\ <<a, b>> \in Seq(Byte) /\ Len(<<a, b>>) = 2
  OBVIOUS
<1> DEFINE first == <<a>>
           second == <<b>>
           both == <<a, b>>
<1>2. first[1] = a /\ second[1] = b /\ both[1] = a /\ both[2] = b
  OBVIOUS
<1> HIDE DEF first, second, both
<1>3. /\ first \o second \in Seq(Byte)
      /\ Len(first \o second) = 2
      /\ \A i \in 1 .. 2 : (first \o second)[i] = IF i <= 1 THEN first[i] ELSE second[i - 1]
  BY <1>1, ConcatProperties DEF first, second
<1>4. (first \o second)[1] = both[1] /\ (first \o second)[2] = both[2]
  BY <1>2, <1>3
<1>5. \A i \in 1 .. 2 : (first \o second)[i] = both[i]
  <2> DEFINE joined == first \o second
  <2> HIDE DEF joined
  <2>1. joined[1] = both[1] /\ joined[2] = both[2]
    BY <1>4 DEF joined
  <2>2. \A i \in 1 .. 2 : joined[i] = both[i]
    BY <2>1
  <2> QED
    BY <2>2 DEF joined
<1>6. first \o second = both
  BY <1>1, <1>3, <1>5, SeqEqual DEF both
<1> QED
  BY <1>6 DEF first, second, both

(* What get_integer1, get_integer4 and get_next return. *)
LEMMA TakenBytes ==
  ASSUME TypeOK, NEW n \in 0 .. Len(buffer)
  PROVE  /\ Taken(n) \in Seq(Byte) /\ Len(Taken(n)) = n /\ Popped(n) \in Seq(Byte)
         /\ n = 1 => buffer[1] \in Byte /\ Taken(n) = <<buffer[1]>>
         /\ n = 4 => /\ Deserialize4(buffer) \in Nat
                     /\ Deserialize4(buffer) = Deserialize4(Taken(n))
                     /\ Taken(n) = Serialize4(Deserialize4(buffer))
<1> DEFINE bite == Taken(n)
<1>1. buffer \in Seq(Byte) /\ Len(buffer) \in Nat
  BY Types
<1>2. /\ bite \in Seq(Byte) /\ Len(bite) = n /\ Popped(n) \in Seq(Byte)
      /\ \A i \in 1 .. n : bite[i] = buffer[i]
  BY <1>1, SplitAt DEF Taken, Popped
<1> HIDE DEF bite
<1>3. ASSUME n = 1 PROVE buffer[1] \in Byte /\ bite = <<buffer[1]>>
  <2>1. 1 \in 1 .. Len(buffer)
    BY <1>1, <1>3
  <2>2. buffer[1] \in Byte
    BY <1>1, <2>1, ElementOfSeq
  <2>3. <<buffer[1]>> \in Seq(Byte) /\ Len(<<buffer[1]>>) = 1
    BY <2>2
  <2>4. \A i \in 1 .. 1 : bite[i] = <<buffer[1]>>[i]
    BY <1>2, <1>3
  <2> QED
    BY <1>2, <1>3, <2>2, <2>3, <2>4, SeqEqual
<1>4. ASSUME n = 4
      PROVE  /\ Deserialize4(buffer) \in Nat /\ Deserialize4(buffer) = Deserialize4(bite)
             /\ bite = Serialize4(Deserialize4(buffer))
  <2>1. bite[1] = buffer[1] /\ bite[2] = buffer[2] /\ bite[3] = buffer[3] /\ bite[4] = buffer[4]
    BY <1>2, <1>4
  <2>2. Deserialize4(bite) = Deserialize4(buffer)
    BY <2>1, SMT DEF Deserialize4
  <2>3. Deserialize4(bite) \in Nat /\ Serialize4(Deserialize4(bite)) = bite
    BY <1>2, <1>4, SizesDecoded
  <2> QED
    BY <2>2, <2>3
<1> QED
  BY <1>2, <1>3, <1>4 DEF bite

(* A step that takes bytes goes on with the request or is done with it.    *)
LEMMA TakeKeepsInv ==
  ASSUME Inv, NEW n \in 0 .. Len(buffer),
         buffer' = Popped(n), UNCHANGED <<requests, prompt, wire, inbox, event>>,
         lost' \in BOOLEAN,
         Parsed' = Parsed \o Taken(n) \/ Parsed' = <<>>,
         pc' \in {"responding", "messages", "first_size", "first", "second_size", "second"},
         pc' \in {"second_size", "second"} => messages' = 2 /\ IsKeyValid(first_message'),
         messages' \in Byte, size' \in Nat, first_message' \in Seq(Byte),
         UNCHANGED answers \/ \E answer \in [status: {OK, CLIENT_ERROR}, body: Seq(Byte)] :
                                 answers' = Append(answers, answer),
         \A key \in DOMAIN kv' : IsKeyValid(key) /\ kv'[key] \in Seq(Byte)
  PROVE  Inv'
<1>1. TypeOK
  BY DEF Inv
<1>2. Popped(n) \in Seq(Byte)
  BY <1>1, TakenBytes
<1>3. answers' \in Seq([status: {OK, CLIENT_ERROR}, body: Seq(Byte)])
  <2> DEFINE Response == [status: {OK, CLIENT_ERROR}, body: Seq(Byte)]
  <2>1. answers \in Seq(Response)
    BY <1>1 DEF TypeOK
  <2>2. UNCHANGED answers \/ \E answer \in Response : answers' = Append(answers, answer)
    OBVIOUS
  <2> HIDE DEF Response
  <2>3. CASE answers' = answers
    BY <2>1, <2>3 DEF Response
  <2>4. ASSUME NEW answer \in Response, answers' = Append(answers, answer)
        PROVE  answers' \in Seq(Response)
    BY <2>1, <2>4, AppendProperties
  <2> QED
    BY <2>2, <2>3, <2>4 DEF Response
<1>4. TypeOK'
  <2>1. prompt' \in BOOLEAN /\ event' \in BOOLEAN
    BY <1>1 DEF TypeOK
  <2>2. pc' \in {"idle", "responding"} \cup Items
    BY DEF Items
  <2> QED
    BY <1>1, <1>2, <1>3, <2>1, <2>2 DEF TypeOK
<1>5. PICK taken \in Seq(Byte) : Accounted(taken)
  BY DEF Inv
<1>6. \E more \in Seq(Byte) : Accounted(more)'
  <2>1. /\ Parsed' = Parsed \o Taken(n) => Accounted(taken)'
        /\ \A more : more = taken \o (Parsed \o Taken(n)) /\ Parsed' = <<>> =>
              more \in Seq(Byte) /\ Accounted(more)'
    BY <1>1, <1>5, TakeMoves
  <2> QED
    BY <1>5, <2>1
<1> QED
  BY <1>4, <1>6 DEF Inv

LEMMA ParseProtocolKeepsInv ==
  ASSUME Inv, ParseProtocol
  PROVE  Inv' /\ (pc' # "responding" => Parsed' = Parsed \o Taken(1))
<1>1. /\ pc = "protocol" /\ Len(buffer) >= 1 /\ buffer' = Popped(1)
      /\ UNCHANGED <<requests, prompt, wire, inbox, event, messages, size, first_message, kv>>
      /\ \/ buffer[1] = V1 /\ pc' = "messages" /\ UNCHANGED <<answers, lost>>
         \/ pc' = "responding" /\ answers' = Append(answers, Refusal) /\ lost' = TRUE
  BY DEF ParseProtocol, Parsing, Satisfied, Requested, Respond, GiveUp, clientVars, parseVars
<1>2. TypeOK /\ 1 \in 0 .. Len(buffer)
  BY <1>1, Types DEF Inv
<1>3. Taken(1) = <<buffer[1]>> /\ Taken(1) \in Seq(Byte)
  BY <1>2, TakenBytes
<1>4. IF pc' = "responding" THEN Parsed' = <<>> ELSE Parsed' = Parsed \o Taken(1)
  <2>1. <<>> \o Taken(1) = Taken(1)
    BY <1>3, ConcatEmptySeq
  <2> QED
    BY <1>1, <1>3, <2>1 DEF Parsed
<1>5. Refusal \in [status: {OK, CLIENT_ERROR}, body: Seq(Byte)]
  BY <1>2, AnswerTypes
<1>6. lost' \in BOOLEAN
  BY <1>1 DEF Inv, TypeOK
<1>7. messages' \in Byte /\ size' \in Nat /\ first_message' \in Seq(Byte)
      /\ \A key \in DOMAIN kv' : IsKeyValid(key) /\ kv'[key] \in Seq(Byte)
  BY <1>1, <1>2 DEF TypeOK
<1> QED
  BY <1>1, <1>2, <1>4, <1>5, <1>6, <1>7, TakeKeepsInv

LEMMA ParseMessagesKeepsInv ==
  ASSUME Inv, ParseMessages
  PROVE  Inv' /\ (pc' # "responding" => Parsed' = Parsed \o Taken(1))
<1>1. /\ pc = "messages" /\ Len(buffer) >= 1 /\ buffer' = Popped(1) /\ messages' = buffer[1]
      /\ UNCHANGED <<requests, prompt, wire, inbox, event, size, first_message, kv>>
      /\ \/ pc' = "first_size" /\ UNCHANGED <<answers, lost>>
         \/ pc' = "responding" /\ answers' = Append(answers, Refusal) /\ lost' = TRUE
  BY DEF ParseMessages, Parsing, Satisfied, Requested, Respond, GiveUp, clientVars
<1>2. TypeOK /\ 1 \in 0 .. Len(buffer)
  BY <1>1, Types DEF Inv
<1>3. buffer[1] \in Byte /\ Taken(1) = <<buffer[1]>> /\ Taken(1) \in Seq(Byte)
  BY <1>2, TakenBytes
<1>4. IF pc' = "responding" THEN Parsed' = <<>> ELSE Parsed' = Parsed \o Taken(1)
  <2>1. <<V1>> \o <<buffer[1]>> = <<V1, buffer[1]>>
    <3>1. V1 \in Byte
      BY DEF V1, Byte
    <3> QED
      BY <1>3, <3>1, TwoBytes
  <2> QED
    BY <1>1, <1>3, <2>1 DEF Parsed
<1>5. Refusal \in [status: {OK, CLIENT_ERROR}, body: Seq(Byte)]
  BY <1>2, AnswerTypes
<1>6. lost' \in BOOLEAN
  BY <1>1 DEF Inv, TypeOK
<1>7. messages' \in Byte /\ size' \in Nat /\ first_message' \in Seq(Byte)
      /\ \A key \in DOMAIN kv' : IsKeyValid(key) /\ kv'[key] \in Seq(Byte)
  BY <1>1, <1>2, <1>3 DEF TypeOK
<1> QED
  BY <1>1, <1>2, <1>4, <1>5, <1>6, <1>7, TakeKeepsInv

LEMMA ParseSizeKeepsInv ==
  ASSUME Inv,
         ParseSize("first_size", "first") \/ ParseSize("second_size", "second")
  PROVE  Inv' /\ Parsed' = Parsed \o Taken(4)
<1>1. /\ Len(buffer) >= 4 /\ buffer' = Popped(4) /\ size' = Deserialize4(buffer)
      /\ UNCHANGED <<requests, prompt, wire, inbox, event, messages, first_message, kv, answers, lost>>
      /\ \/ pc = "first_size" /\ pc' = "first"
         \/ pc = "second_size" /\ pc' = "second"
  BY DEF ParseSize, Parsing, Satisfied, Requested, clientVars
<1>2. TypeOK /\ 4 \in 0 .. Len(buffer)
  BY <1>1, Types DEF Inv
<1>3. size' \in Nat /\ Taken(4) = Serialize4(size')
  BY <1>1, <1>2, TakenBytes
<1>4. Parsed' = Parsed \o Taken(4)
  BY <1>1, <1>3 DEF Parsed
<1>5. lost' \in BOOLEAN
  BY <1>1 DEF Inv, TypeOK
<1>6. pc' \in {"second_size", "second"} => messages' = 2 /\ IsKeyValid(first_message')
  BY <1>1 DEF Inv
<1>7. messages' \in Byte /\ first_message' \in Seq(Byte)
      /\ \A key \in DOMAIN kv' : IsKeyValid(key) /\ kv'[key] \in Seq(Byte)
  BY <1>1, <1>2 DEF TypeOK
<1> QED
  BY <1>1, <1>2, <1>3, <1>4, <1>5, <1>6, <1>7, TakeKeepsInv

(* The three ways on from a key: refused, read, or kept for its value.     *)
LEMMA ParseFirstKeepsInv ==
  ASSUME Inv, InvalidKey \/ ReadKey \/ WantValue
  PROVE  Inv' /\ (pc' # "responding" => Parsed' = Parsed \o Taken(size))
<1>1. /\ pc = "first" /\ Len(buffer) >= size /\ buffer' = Popped(size)
      /\ first_message' = Taken(size)
      /\ UNCHANGED <<requests, prompt, wire, inbox, event, messages, size, kv>>
  BY DEF InvalidKey, ReadKey, WantValue, ParseFirstMessage, Parsing, Satisfied, Requested, clientVars
<1>2. /\ \/ pc' = "responding" /\ answers' = Append(answers, Refusal)
         \/ pc' = "responding" /\ answers' = Append(answers, Found(kv, first_message'))
         \/ /\ pc' = "second_size" /\ UNCHANGED answers
            /\ messages' = 2 /\ IsKeyValid(first_message')
      /\ lost' = lost \/ lost' = TRUE
  BY <1>1 DEF InvalidKey, ReadKey, WantValue, Respond, GiveUp
<1>3. TypeOK /\ size \in 0 .. Len(buffer)
  BY <1>1, Types DEF Inv, TypeOK
<1>4. Taken(size) \in Seq(Byte) /\ Len(Taken(size)) = size
  BY <1>3, TakenBytes
<1>5. IF pc' = "responding" THEN Parsed' = <<>> ELSE Parsed' = Parsed \o Taken(size)
  <2>1. CASE pc' = "responding"
    BY <2>1 DEF Parsed
  <2>2. CASE pc' = "second_size"
    <3> DEFINE bite == Taken(size)
               start == <<V1, messages>>
               length == Serialize4(size)
    <3>1. start \in Seq(Byte) /\ length \in Seq(Byte) /\ bite \in Seq(Byte)
      BY <1>3, <1>4, FourBytes DEF TypeOK, V1, Byte
    <3>2. Parsed = start \o length
      BY <1>1 DEF Parsed
    <3>3. Parsed' = start \o Message(bite)
      BY <1>1, <2>2 DEF Parsed
    <3>4. Message(bite) = length \o bite
      BY <1>4 DEF Message
    <3> HIDE DEF bite, start, length
    <3>5. Brackets(start, length, bite)
      BY Associative
    <3>6. Parsed' = Parsed \o bite
      BY <3>1, <3>2, <3>3, <3>4, <3>5 DEF Brackets
    <3> QED
      BY <2>2, <3>6 DEF bite
  <2> QED
    BY <1>2, <2>1, <2>2
<1>6. \/ UNCHANGED answers
      \/ \E answer \in [status: {OK, CLIENT_ERROR}, body: Seq(Byte)] : answers' = Append(answers, answer)
  BY <1>2, <1>3, AnswerTypes
<1>7. lost' \in BOOLEAN
  BY <1>2 DEF Inv, TypeOK
<1>8. /\ pc' \in {"responding", "messages", "first_size", "first", "second_size", "second"}
      /\ pc' \in {"second_size", "second"} => messages' = 2 /\ IsKeyValid(first_message')
  BY <1>2
<1>9. messages' \in Byte /\ size' \in Nat /\ first_message' \in Seq(Byte)
      /\ \A key \in DOMAIN kv' : IsKeyValid(key) /\ kv'[key] \in Seq(Byte)
  BY <1>1, <1>3, <1>4 DEF TypeOK
<1> QED
  BY <1>1, <1>3, <1>5, <1>6, <1>7, <1>8, <1>9, TakeKeepsInv

LEMMA InsertedValues ==
  ASSUME NEW map, NEW key, NEW content, NEW k \in DOMAIN Inserted(map, key, content)
  PROVE  \/ k \in DOMAIN map /\ Inserted(map, key, content)[k] = map[k]
         \/ k = key /\ Inserted(map, key, content)[k] = content
BY DEF Inserted

LEMMA WriteKeyKeepsInv ==
  ASSUME Inv, WriteKey
  PROVE  Inv'
<1> DEFINE bite == Taken(size)
<1>1. /\ pc = "second" /\ Len(buffer) >= size /\ buffer' = Popped(size)
      /\ kv' = Inserted(kv, first_message, bite)
      /\ pc' = "responding" /\ answers' = Append(answers, Success(<<>>))
      /\ UNCHANGED <<requests, prompt, wire, inbox, event, messages, size, first_message, lost>>
  BY DEF WriteKey, Stored, Parsing, Satisfied, Requested, Respond, GiveUp, clientVars, parseVars
<1>2. TypeOK /\ size \in 0 .. Len(buffer)
  BY <1>1, Types DEF Inv, TypeOK
<1>3. bite \in Seq(Byte) /\ Len(bite) = size
  BY <1>2, TakenBytes
<1>4. IsKeyValid(first_message) /\ first_message \in Seq(Byte)
  BY <1>1 DEF Inv, TypeOK
<1>5. Parsed' = <<>>
  BY <1>1 DEF Parsed
<1> HIDE DEF bite
<1>7. \A key \in DOMAIN kv' :
         \/ key \in DOMAIN kv /\ kv'[key] = kv[key]
         \/ key = first_message /\ kv'[key] = bite
  BY <1>1, InsertedValues
<1>8. lost' \in BOOLEAN
  BY <1>1 DEF Inv, TypeOK
<1>9. messages' \in Byte /\ size' \in Nat /\ first_message' \in Seq(Byte)
      /\ \A key \in DOMAIN kv' : IsKeyValid(key) /\ kv'[key] \in Seq(Byte)
  BY <1>1, <1>2, <1>3, <1>4, <1>7 DEF TypeOK
<1>10. Success(<<>>) \in [status: {OK, CLIENT_ERROR}, body: Seq(Byte)]
  BY <1>2, AnswerTypes
<1> QED
  BY <1>1, <1>2, <1>5, <1>8, <1>9, <1>10, TakeKeepsInv

LEMMA ReadTimeoutKeepsInv ==
  ASSUME Inv, ReadTimeout
  PROVE  Inv'
<1>1. /\ pc' = "responding" /\ answers' = Append(answers, Refusal) /\ lost' = TRUE
      /\ UNCHANGED <<requests, prompt, wire, inbox, event, buffer, messages, size, first_message, kv>>
  BY DEF ReadTimeout, Respond, GiveUp, clientVars, parseVars
<1>2. TypeOK /\ buffer \in Seq(Byte) /\ 0 \in 0 .. Len(buffer)
  BY Types DEF Inv
<1>3. buffer' = Popped(0)
  BY <1>1, <1>2, SubSeqFull DEF Popped
<1>4. Parsed' = <<>>
  BY <1>1 DEF Parsed
<1>5. Refusal \in [status: {OK, CLIENT_ERROR}, body: Seq(Byte)]
  BY <1>2, AnswerTypes
<1>6. lost' \in BOOLEAN
  BY <1>1 DEF Inv, TypeOK
<1>7. messages' \in Byte /\ size' \in Nat /\ first_message' \in Seq(Byte)
      /\ \A key \in DOMAIN kv' : IsKeyValid(key) /\ kv'[key] \in Seq(Byte)
  BY <1>1, <1>2 DEF TypeOK
<1> QED
  BY <1>1, <1>2, <1>3, <1>4, <1>5, <1>6, <1>7, TakeKeepsInv

LEMMA StutterKeepsInv ==
  ASSUME Inv, UNCHANGED vars
  PROVE  /\ Inv'
         /\ \A taken : Accounted(taken) => Accounted(taken)'
<1>1. UNCHANGED <<requests, prompt, wire, inbox, event, buffer, pc, parseVars, kv, answers, lost>>
  BY DEF vars, clientVars
<1>2. Unused' = Unused
  BY <1>1 DEF Unused
<1>3. Parsed' = Parsed
  BY <1>1 DEF Parsed, parseVars
<1>4. wire' \in Seq(Byte) /\ inbox' \in Seq(Byte) /\ buffer' \in Seq(Byte) /\ event' \in BOOLEAN
  BY <1>1 DEF Inv, TypeOK
<1> QED
  BY <1>1, <1>2, <1>3, <1>4, MoveKeepsInv

LEMMA StepKeepsInv == Inv /\ [Next]_vars => Inv'
<1> SUFFICES ASSUME Inv, [Next]_vars PROVE Inv'
  OBVIOUS
<1>1. ASSUME NEW request \in Request, Send(request) PROVE Inv'
  BY <1>1, SendKeepsInv
<1>2. CASE Deliver
  BY <1>2, DeliverKeepsInv
<1>3. CASE BeginRequest
  BY <1>3, BeginRequestKeepsInv
<1>4. CASE IgnoreEvent
  BY <1>4, IgnoreEventKeepsInv
<1>5. CASE ReadSocket
  BY <1>5, ReadSocketKeepsInv
<1>6. CASE ParseProtocol
  BY <1>6, ParseProtocolKeepsInv
<1>7. CASE ParseMessages
  BY <1>7, ParseMessagesKeepsInv
<1>8. CASE ParseSize("first_size", "first") \/ ParseSize("second_size", "second")
  BY <1>8, ParseSizeKeepsInv
<1>9. CASE InvalidKey \/ ReadKey \/ WantValue
  BY <1>9, ParseFirstKeepsInv
<1>10. CASE WriteKey
  BY <1>10, WriteKeyKeepsInv
<1>11. CASE ReadTimeout
  BY <1>11, ReadTimeoutKeepsInv
<1>12. CASE SendReturns
  BY <1>12, SendReturnsKeepsInv
<1>13. CASE UNCHANGED vars
  BY <1>13, StutterKeepsInv
<1> QED
  BY <1>1, <1>2, <1>3, <1>4, <1>5, <1>6, <1>7, <1>8, <1>9, <1>10, <1>11, <1>12, <1>13
     DEF Next, HandlerStep

-----------------------------------------------------------------------------
(* The invariant holds: on every network, whatever the requests are and    *)
(* wherever a read times out, no byte of what the client sent is lost,     *)
(* repeated or out of its place.                                           *)
THEOREM InvHolds == Spec => []Inv
<1>1. Init => Inv
  BY InitGivesInv
<1>2. Inv /\ [Next]_vars => Inv'
  BY StepKeepsInv
<1> QED
  BY <1>1, <1>2, PTL DEF Spec

(* Every variable of parse_request, of the buffers and of the database has *)
(* its type.                                                               *)
THEOREM TypeCorrect == Spec => []TypeOK
<1>1. Inv => TypeOK
  BY DEF Inv
<1> QED
  BY <1>1, InvHolds, PTL

-----------------------------------------------------------------------------
(* The invariant, until a request is given up.                             *)

AtHand == requests[Len(answers) + 1]
Answered == Stream(requests)[Len(answers)]

(* What parse_request knows of the request at hand is right. *)
Expected ==
  /\ pc \in {"first_size", "first", "second_size", "second"} => messages = AtHand.messages
  /\ pc = "first" => size = Len(AtHand.key)
  /\ pc \in {"second_size", "second"} => first_message = AtHand.key
  /\ pc = "second" => size = Len(AtHand.value)

InStep ==
  /\ Len(answers) <= Len(requests)
  /\ \E taken : taken = Answered /\ Accounted(taken)
  /\ pc \in Items => Len(answers) < Len(requests) /\ Expected

(* What a step does then: it stays in step or gives up the request at hand, *)
(* which is not well-formed or late; and it is one of the service.          *)
Onward ==
  /\ lost' \/ InStep'
  /\ [RR!Next]_(RR!vars)
  /\ lost' => pc \in Items /\ ~(prompt /\ WellFormed(AtHand))

(* What parse_request takes next, if all is well. *)
Item ==
  CASE pc = "protocol" -> <<V1>>
    [] pc = "messages" -> <<AtHand.messages>>
    [] pc = "first_size" -> Serialize4(Len(AtHand.key))
    [] pc = "first" -> AtHand.key
    [] pc = "second_size" -> Serialize4(Len(AtHand.value))
    [] OTHER -> AtHand.value

-----------------------------------------------------------------------------
(* What parse_request takes next. *)

(* A request, cut where parse_request cuts it. *)
LEMMA EncodingParts ==
  ASSUME NEW request \in Request
  PROVE  LET start == <<V1, request.messages>>
             key == request.key
             value == request.value
             rest == IF IsWrite(request) THEN Message(value) ELSE <<>>
         IN  /\ start \in Seq(Byte) /\ <<request.messages>> \in Seq(Byte) /\ <<V1>> \in Seq(Byte)
             /\ key \in Seq(Byte) /\ value \in Seq(Byte) /\ rest \in Seq(Byte)
             /\ Message(key) \in Seq(Byte) /\ Message(value) \in Seq(Byte)
             /\ start = <<V1>> \o <<request.messages>>
             /\ (start \o Serialize4(Len(key))) \o key = start \o Message(key)
             /\ (start \o Message(key)) \o Message(value)
                  = ((start \o Message(key)) \o Serialize4(Len(value))) \o value
             /\ EncodeRequest(request) = (start \o Message(key)) \o rest
<1> DEFINE start == <<V1, request.messages>>
           key == request.key
           value == request.value
           rest == IF IsWrite(request) THEN Message(value) ELSE <<>>
           front == start \o Message(key)
<1>1. request.messages \in Byte /\ V1 \in Byte /\ key \in Seq(Byte) /\ value \in Seq(Byte)
  BY HandlerAssumption DEF V1, Byte
<1>2. start \in Seq(Byte) /\ <<request.messages>> \in Seq(Byte) /\ <<V1>> \in Seq(Byte)
  BY <1>1
<1>3. /\ Message(key) \in Seq(Byte) /\ Message(value) \in Seq(Byte)
      /\ Serialize4(Len(key)) \in Seq(Byte) /\ Serialize4(Len(value)) \in Seq(Byte)
  BY <1>1, MessageBytes
<1>4. rest \in Seq(Byte)
  BY <1>3, EmptySeq
<1>5. start = <<V1>> \o <<request.messages>>
  BY <1>1, TwoBytes
<1>6. EncodeRequest(request) = front \o rest
  BY DEF EncodeRequest
<1>7. front \in Seq(Byte)
  BY <1>2, <1>3, ConcatProperties
<1> HIDE DEF start, key, value, rest
<1>8. (start \o Serialize4(Len(key))) \o key = start \o Message(key)
  <2>1. Brackets(start, Serialize4(Len(key)), key)
    BY Associative
  <2> QED
    BY <1>1, <1>2, <1>3, <2>1 DEF Brackets, Message
<1>9. front \o Message(value) = (front \o Serialize4(Len(value))) \o value
  <2>1. Brackets(front, Serialize4(Len(value)), value)
    BY Associative
  <2> HIDE DEF front
  <2> QED
    BY <1>1, <1>3, <1>7, <2>1 DEF Brackets, Message
<1> QED
  BY <1>1, <1>2, <1>3, <1>4, <1>5, <1>6, <1>8, <1>9 DEF start, key, value, rest, front

LEMMA AtHandTypes ==
  ASSUME Inv, Len(answers) < Len(requests)
  PROVE  /\ AtHand \in Request /\ Len(answers) \in Nat
         /\ Len(answers) \in 0 .. Len(requests) /\ Len(answers) + 1 \in 1 .. Len(requests)
         /\ Answered \in Seq(Byte) /\ EncodeRequest(AtHand) \in Seq(Byte)
         /\ Stream(requests)[Len(answers) + 1] = Answered \o EncodeRequest(AtHand)
         /\ \E rest \in Seq(Byte) : Sent = (Answered \o EncodeRequest(AtHand)) \o rest
<1>1. requests \in Seq(Request) /\ Len(requests) \in Nat
  BY Types DEF Inv
<1>2. Len(answers) \in Nat
  <2> DEFINE Response == [status: {OK, CLIENT_ERROR}, body: Seq(Byte)]
  <2>1. answers \in Seq(Response)
    BY DEF Inv, TypeOK
  <2> HIDE DEF Response
  <2> QED
    BY <2>1, LenProperties
<1> DEFINE next == Len(answers) + 1
<1>3. /\ Len(answers) \in 0 .. Len(requests) /\ next \in 1 .. Len(requests)
      /\ next \in 0 .. Len(requests) /\ next - 1 = Len(answers)
  BY <1>1, <1>2
<1> HIDE DEF next
<1>4. requests[next] \in Request
  BY <1>1, <1>3, ElementOfSeq
<1>5. Stream(requests)[next] = Stream(requests)[Len(answers)] \o EncodeRequest(requests[next])
  BY <1>1, <1>3, StreamProperties
<1>6. Stream(requests)[Len(answers)] \in Seq(Byte)
  BY <1>1, <1>3, StreamProperties
<1>7. EncodeRequest(requests[next]) \in Seq(Byte)
  BY <1>4, RequestTypes
<1>8. \E rest \in Seq(Byte) : Sent = Stream(requests)[next] \o rest
  BY <1>1, <1>3, StreamFollows DEF Sent
<1> QED
  BY <1>2, <1>3, <1>4, <1>5, <1>6, <1>7, <1>8 DEF AtHand, Answered, next

LEMMA ItemNext ==
  ASSUME Inv, InStep, pc \in Items
  PROVE  /\ Item \in Seq(Byte) /\ Len(Item) = Requested
         /\ \E left \in Seq(Byte) : EncodeRequest(AtHand) = (Parsed \o Item) \o left
         /\ pc = "second" \/ (pc = "first" /\ ~IsWrite(AtHand))
              => EncodeRequest(AtHand) = Parsed \o Item
<1> DEFINE start == <<V1, AtHand.messages>>
           key == AtHand.key
           value == AtHand.value
           rest == IF IsWrite(AtHand) THEN Message(value) ELSE <<>>
           code == EncodeRequest(AtHand)
<1>1. Len(answers) < Len(requests) /\ Expected /\ AtHand \in Request
  BY AtHandTypes DEF InStep
<1>2. /\ start \in Seq(Byte) /\ <<AtHand.messages>> \in Seq(Byte) /\ <<V1>> \in Seq(Byte)
      /\ key \in Seq(Byte) /\ value \in Seq(Byte) /\ rest \in Seq(Byte)
      /\ Message(key) \in Seq(Byte) /\ Message(value) \in Seq(Byte)
      /\ start = <<V1>> \o <<AtHand.messages>>
      /\ (start \o Serialize4(Len(key))) \o key = start \o Message(key)
      /\ (start \o Message(key)) \o Message(value)
           = ((start \o Message(key)) \o Serialize4(Len(value))) \o value
      /\ code = (start \o Message(key)) \o rest
  BY <1>1, EncodingParts
<1>3. /\ Serialize4(Len(key)) \in Seq(Byte) /\ Len(Serialize4(Len(key))) = 4
      /\ Serialize4(Len(value)) \in Seq(Byte) /\ Len(Serialize4(Len(value))) = 4
  BY <1>2, MessageBytes
<1>4. Len(<<V1>>) = 1 /\ Len(<<AtHand.messages>>) = 1
  OBVIOUS
<1>5. pc \in {"protocol", "messages", "first_size", "first", "second_size", "second"}
  BY DEF Items
<1>6. pc \in {"second_size", "second"} => IsWrite(AtHand)
  BY <1>1 DEF Inv, Expected, IsWrite
<1> HIDE DEF key, value
<1>7. CASE pc = "protocol"
  <2> DEFINE more == Message(key) \o rest
  <2>1. Parsed = <<>> /\ Item = <<V1>> /\ Requested = 1
    BY <1>7 DEF Parsed, Item, Requested
  <2>2. Parsed \o Item = <<V1>>
    BY <1>2, <2>1, ConcatEmptySeq
  <2> HIDE DEF start, rest, code
  <2>3. more \in Seq(Byte) /\ <<AtHand.messages>> \o more \in Seq(Byte)
    BY <1>2, ConcatProperties
  <2>4. code = start \o more
    <3>1. Brackets(start, Message(key), rest)
      BY Associative
    <3> QED
      BY <1>2, <3>1 DEF Brackets
  <2> HIDE DEF more
  <2>5. start \o more = <<V1>> \o (<<AtHand.messages>> \o more)
    <3>1. Brackets(<<V1>>, <<AtHand.messages>>, more)
      BY Associative
    <3> QED
      BY <1>2, <2>3, <3>1 DEF Brackets
  <2> QED
    BY <1>2, <1>4, <1>7, <2>1, <2>2, <2>3, <2>4, <2>5 DEF code
<1>8. CASE pc = "messages"
  <2>1. Parsed = <<V1>> /\ Item = <<AtHand.messages>> /\ Requested = 1
    BY <1>8 DEF Parsed, Item, Requested
  <2> HIDE DEF start, rest, code
  <2>2. Message(key) \o rest \in Seq(Byte)
    BY <1>2, ConcatProperties
  <2>3. code = start \o (Message(key) \o rest)
    <3>1. Brackets(start, Message(key), rest)
      BY Associative
    <3> QED
      BY <1>2, <3>1 DEF Brackets
  <2> QED
    BY <1>2, <1>4, <1>8, <2>1, <2>2, <2>3 DEF code
<1>9. CASE pc = "first_size"
  <2>1. Parsed = start /\ Item = Serialize4(Len(key)) /\ Requested = 4
    BY <1>1, <1>9 DEF Parsed, Item, Requested, Expected, key
  <2> DEFINE head == start \o Serialize4(Len(key))
  <2> HIDE DEF start, rest, code
  <2>2. head \in Seq(Byte) /\ key \o rest \in Seq(Byte)
    BY <1>2, <1>3, ConcatProperties
  <2>3. code = (head \o key) \o rest
    BY <1>2
  <2> HIDE DEF head
  <2>4. code = head \o (key \o rest)
    <3>1. Brackets(head, key, rest)
      BY Associative
    <3> QED
      BY <1>2, <2>2, <2>3, <3>1 DEF Brackets
  <2> QED
    BY <1>3, <1>9, <2>1, <2>2, <2>4 DEF code, head
<1>10. CASE pc = "first"
  <2>1. /\ Parsed = start \o Serialize4(Len(key)) /\ Item = key
        /\ Requested = size /\ size = Len(key)
    BY <1>1, <1>10 DEF Parsed, Item, Requested, Expected, key
  <2>2. ~IsWrite(AtHand) => rest = <<>>
    OBVIOUS
  <2> DEFINE front == start \o Message(key)
  <2> HIDE DEF start, rest, code
  <2>3. front \in Seq(Byte) /\ front \o <<>> = front
    <3>1. front \in Seq(Byte)
      BY <1>2, ConcatProperties
    <3> HIDE DEF front
    <3> QED
      BY <3>1, ConcatEmptySeq
  <2>4. Parsed \o Item = front /\ code = front \o rest
    BY <1>2, <2>1
  <2> QED
    BY <1>2, <1>10, <2>1, <2>2, <2>3, <2>4 DEF code
<1>11. CASE pc = "second_size"
  <2>1. /\ Parsed = start \o Message(key) /\ Item = Serialize4(Len(value)) /\ Requested = 4
        /\ rest = Message(value)
    BY <1>1, <1>6, <1>11 DEF Parsed, Item, Requested, Expected, key, value
  <2> HIDE DEF start, rest, code
  <2>2. code = (Parsed \o Item) \o value
    BY <1>2, <2>1
  <2> QED
    BY <1>2, <1>3, <1>11, <2>1, <2>2 DEF code
<1>12. CASE pc = "second"
  <2>1. /\ Parsed = (start \o Message(key)) \o Serialize4(Len(value)) /\ Item = value
        /\ Requested = size /\ size = Len(value) /\ rest = Message(value)
    BY <1>1, <1>6, <1>12 DEF Parsed, Item, Requested, Expected, key, value
  <2> HIDE DEF start, rest, code
  <2>2. code = Parsed \o Item /\ code \in Seq(Byte)
    BY <1>1, <1>2, <2>1, RequestTypes DEF code
  <2>3. code \o <<>> = code /\ <<>> \in Seq(Byte)
    BY <2>2, ConcatEmptySeq, EmptySeq
  <2> QED
    BY <1>2, <2>1, <2>2, <2>3 DEF code
<1> QED
  BY <1>5, <1>7, <1>8, <1>9, <1>10, <1>11, <1>12

(* What is unused begins with it, also when only part of it has arrived.   *)
LEMMA UnusedBegins ==
  ASSUME Inv, InStep, pc \in Items
  PROVE  \E more \in Seq(Byte) : Unused = Item \o more
<1> DEFINE before == Answered \o Parsed
           code == EncodeRequest(AtHand)
<1>1. Len(answers) < Len(requests)
  BY DEF InStep
<1>2. /\ Answered \in Seq(Byte) /\ Parsed \in Seq(Byte) /\ Unused \in Seq(Byte)
      /\ code \in Seq(Byte) /\ before \in Seq(Byte)
  <2>1. Answered \in Seq(Byte) /\ Parsed \in Seq(Byte) /\ Unused \in Seq(Byte) /\ code \in Seq(Byte)
    BY <1>1, AtHandTypes, ParsedType, Types DEF Inv
  <2> QED
    BY <2>1, ConcatProperties
<1>3. Sent = before \o Unused
  BY DEF InStep, Accounted
<1>4. PICK rest \in Seq(Byte) : Sent = (Answered \o code) \o rest
  BY <1>1, AtHandTypes
<1>5. PICK left \in Seq(Byte) : code = (Parsed \o Item) \o left
  BY ItemNext
<1>6. Item \in Seq(Byte)
  BY ItemNext
<1> DEFINE more == left \o rest
           tail == Item \o left
<1>7. more \in Seq(Byte) /\ tail \in Seq(Byte)
  BY <1>6, ConcatProperties
<1> HIDE DEF code, more, tail, before
<1>8. code = Parsed \o tail
  <2>1. Brackets(Parsed, Item, left)
    BY Associative
  <2> QED
    BY <1>2, <1>5, <1>6, <2>1 DEF Brackets, tail
<1>9. Answered \o code = before \o tail
  <2>1. Brackets(Answered, Parsed, tail)
    BY Associative
  <2> QED
    BY <1>2, <1>7, <1>8, <2>1 DEF Brackets, before
<1>10. Sent = before \o (tail \o rest)
  <2>1. Brackets(before, tail, rest)
    BY Associative
  <2> QED
    BY <1>2, <1>4, <1>7, <1>9, <2>1 DEF Brackets
<1>11. tail \o rest = Item \o more
  <2>1. Brackets(Item, left, rest)
    BY Associative
  <2> QED
    BY <1>6, <2>1 DEF Brackets, tail, more
<1>12. Item \o more \in Seq(Byte)
  BY <1>6, <1>7, ConcatProperties
<1>13. Unused = Item \o more
  <2> DEFINE right == Item \o more
  <2>1. before \o Unused = before \o right /\ right \in Seq(Byte)
    BY <1>3, <1>10, <1>11, <1>12
  <2> HIDE DEF right
  <2>2. Unused = right
    BY <1>2, <2>1, ConcatSimplifications
  <2> QED
    BY <2>2 DEF right
<1> QED
  BY <1>7, <1>13

LEMMA TakesItem ==
  ASSUME Inv, InStep, pc \in Items, Satisfied
  PROVE  /\ Requested \in 0 .. Len(buffer)
         /\ Taken(Requested) = Item
<1>1. PICK more \in Seq(Byte) : Unused = Item \o more
  BY UnusedBegins
<1>2. Item \in Seq(Byte) /\ Len(Item) = Requested
  BY ItemNext
<1> DEFINE far == inbox \o wire
<1>3. /\ buffer \in Seq(Byte) /\ far \in Seq(Byte)
      /\ Requested \in Nat /\ Len(buffer) \in Nat /\ Requested <= Len(buffer)
  BY Types DEF Inv, Satisfied
<1>4. buffer \o far = Item \o more
  BY <1>1 DEF Unused
<1> HIDE DEF far
<1>5. SubSeq(buffer, 1, Len(Item)) = Item
  <2> DEFINE item == Item
  <2>1. /\ item \in Seq(Byte) /\ buffer \in Seq(Byte) /\ far \in Seq(Byte)
        /\ Len(item) <= Len(buffer)
    BY <1>2, <1>3
  <2>2. buffer \o far = item \o more
    BY <1>4
  <2> HIDE DEF item
  <2>3. SubSeq(buffer, 1, Len(item)) = item
    BY <2>1, <2>2, TakeFront
  <2> QED
    BY <2>3 DEF item
<1> QED
  BY <1>2, <1>3, <1>5 DEF Taken

(* The rest of a request never fails to come. *)
LEMMA NothingToWaitFor ==
  ASSUME Inv, InStep, prompt
  PROVE  ~ReadTimeout
<1> SUFFICES ASSUME ReadTimeout PROVE FALSE
  OBVIOUS
<1>1. pc \in Items /\ ~Satisfied /\ inbox = <<>> /\ wire = <<>>
  BY DEF ReadTimeout, HasWaited
<1>2. PICK more \in Seq(Byte) : Unused = Item \o more
  BY <1>1, UnusedBegins
<1>3. Item \in Seq(Byte) /\ Len(Item) = Requested
  BY <1>1, ItemNext
<1>4. buffer \in Seq(Byte) /\ <<>> \in Seq(Byte) /\ Requested \in Nat /\ Len(buffer) \in Nat
  BY Types, EmptySeq DEF Inv
<1>5. Unused = buffer
  <2>1. <<>> \o <<>> = <<>> /\ buffer \o <<>> = buffer
    BY <1>4, ConcatEmptySeq
  <2> QED
    BY <1>1, <2>1 DEF Unused
<1>6. Len(buffer) = Len(Item) + Len(more) /\ Len(more) \in Nat
  BY <1>2, <1>3, <1>5, ConcatProperties, LenProperties
<1> QED
  BY <1>1, <1>3, <1>4, <1>6 DEF Satisfied

(* The abstract answer. *)
LEMMA SameReplies ==
  ASSUME NEW map, NEW request
  PROVE  /\ RR!Reply(map, request) = Reply(map, request)
         /\ RR!Updated(map, request) = Updated(map, request)
BY DEF RR!Reply, RR!Updated, RR!IsKeyValid, RR!KeyCharacter, RR!IsWrite, RR!Refusal, RR!Success,
       RR!Found, RR!Inserted, RR!CLIENT_ERROR, RR!OK,
       Reply, Updated, IsKeyValid, KeyCharacter, IsWrite, Refusal, Success, Found, Inserted,
       CLIENT_ERROR, OK

(* A step that takes the next item and is not done with the request.       *)
LEMMA MidStep ==
  ASSUME Inv, InStep, ~lost, pc \in Items, Satisfied,
         buffer' = Popped(Requested), UNCHANGED <<requests, wire, inbox, answers, kv, lost>>,
         Parsed' = Parsed \o Taken(Requested), Expected'
  PROVE  Onward
<1>1. PICK taken : taken = Answered /\ Accounted(taken)
  BY DEF InStep
<1>2. Requested \in 0 .. Len(buffer)
  BY TakesItem
<1>3. Accounted(taken)'
  <2> DEFINE n == Requested
  <2> HIDE DEF n
  <2>1. TypeOK /\ n \in 0 .. Len(buffer) /\ buffer' = Popped(n) /\ Parsed' = Parsed \o Taken(n)
    BY <1>2 DEF n, Inv
  <2> QED
    BY <1>1, <2>1, TakeMoves
<1>4. Answered' = Answered
  BY DEF Answered
<1>5. RR!vars' = RR!vars
  BY DEF RR!vars
<1>6. InStep'
  BY <1>1, <1>3, <1>4 DEF InStep
<1> QED
  BY <1>5, <1>6 DEF Onward

(* A step that takes the last item and answers. *)
LEMMA LastStep ==
  ASSUME Inv, InStep, ~lost, pc \in Items, Satisfied,
         pc = "second" \/ (pc = "first" /\ ~IsWrite(AtHand)),
         buffer' = Popped(Requested), UNCHANGED <<requests, wire, inbox, lost>>,
         pc' = "responding", answers' = Append(answers, Reply(kv, AtHand)),
         kv' = Updated(kv, AtHand)
  PROVE  Onward
<1>1. PICK taken : taken = Answered /\ Accounted(taken)
  BY DEF InStep
<1>2. Requested \in 0 .. Len(buffer) /\ Taken(Requested) = Item
  BY TakesItem
<1>3. Parsed \o Taken(Requested) = EncodeRequest(AtHand)
  BY <1>2, ItemNext
<1>4. Parsed' = <<>>
  BY DEF Parsed
<1>5. Len(answers) < Len(requests)
  BY DEF InStep
<1>6. Stream(requests)[Len(answers) + 1] = Answered \o EncodeRequest(AtHand)
  BY <1>5, AtHandTypes
<1>7. Len(answers') = Len(answers) + 1 /\ Len(answers) \in Nat /\ Len(requests) \in Nat
  <2> DEFINE Response == [status: {OK, CLIENT_ERROR}, body: Seq(Byte)]
             answer == Reply(kv, AtHand)
  <2>1. answers \in Seq(Response)
    BY DEF Inv, TypeOK
  <2>2. answer \in Response
    BY AnswerTypes DEF Inv, Reply
  <2> HIDE DEF Response, answer
  <2>3. answers' = Append(answers, answer)
    BY DEF answer
  <2> QED
    BY <2>1, <2>2, <2>3, AppendProperties, LenProperties, Types DEF Inv
<1>8. Answered' = Answered \o EncodeRequest(AtHand)
  BY <1>6, <1>7 DEF Answered
<1>9. \A more : more = Answered' => Accounted(more)'
  <2> DEFINE n == Requested
             code == EncodeRequest(AtHand)
  <2> HIDE DEF n, code
  <2>1. TypeOK /\ n \in 0 .. Len(buffer) /\ buffer' = Popped(n) /\ Parsed \o Taken(n) = code
    BY <1>2, <1>3 DEF n, code, Inv
  <2>2. \A more : more = taken \o (Parsed \o Taken(n)) /\ Parsed' = <<>> => Accounted(more)'
    BY <1>1, <2>1, TakeMoves
  <2>3. Answered' = taken \o (Parsed \o Taken(n))
    BY <1>1, <1>8, <2>1 DEF code
  <2> QED
    BY <1>4, <2>2, <2>3
<1>10. RR!Answer
  <2>1. /\ answers' = Append(answers, RR!Reply(kv, AtHand))
        /\ kv' = RR!Updated(kv, AtHand)
    BY SameReplies
  <2> QED
    BY <1>5, <2>1 DEF RR!Answer, AtHand
<1>11. InStep'
  <2>1. Len(answers') <= Len(requests')
    BY <1>5, <1>7
  <2> QED
    BY <1>9, <2>1 DEF InStep, Items
<1> QED
  BY <1>10, <1>11 DEF RR!Next, Onward

(* The request at hand is given up. *)
LEMMA GiveUpInStep ==
  ASSUME Inv, InStep, ~lost, pc \in Items, GiveUp, UNCHANGED <<requests, kv>>,
         ~(prompt /\ WellFormed(AtHand))
  PROVE  Onward
<1>1. Len(answers) < Len(requests)
  BY DEF InStep
<1>2. answers' = Append(answers, RR!Refusal) /\ lost' = TRUE
  BY DEF GiveUp, Respond, Refusal, RR!Refusal, CLIENT_ERROR, RR!CLIENT_ERROR
<1>3. RR!GiveUp
  BY <1>1, <1>2 DEF RR!GiveUp
<1> QED
  BY <1>2, <1>3 DEF RR!Next, Onward

-----------------------------------------------------------------------------
(* The steps, in step. *)

LEMMA MoveInStep ==
  ASSUME Inv, InStep, ~lost, UNCHANGED <<requests, parseVars, kv, answers, lost>>,
         pc' = pc \/ pc' \notin Items,
         \A taken : Accounted(taken) => Accounted(taken)'
  PROVE  Onward
<1>1. Answered' = Answered /\ AtHand' = AtHand
  BY DEF Answered, AtHand
<1>2. ASSUME pc' \in Items PROVE pc \in Items /\ (Expected => Expected')
  BY <1>1, <1>2 DEF Expected, parseVars
<1>3. RR!vars' = RR!vars
  BY DEF RR!vars
<1>4. InStep'
  BY <1>1, <1>2 DEF InStep
<1> QED
  BY <1>3, <1>4 DEF Onward

LEMMA SendInStep ==
  ASSUME Inv, InStep, ~lost, NEW request \in Request, Send(request)
  PROVE  Onward
<1>1. /\ requests' = Append(requests, request)
      /\ UNCHANGED <<pc, messages, size, first_message, kv, answers, lost>>
  BY DEF Send, parseVars
<1>2. requests \in Seq(Request) /\ Len(requests) \in Nat /\ Len(answers) \in Nat
  <2> DEFINE Response == [status: {OK, CLIENT_ERROR}, body: Seq(Byte)]
  <2>1. answers \in Seq(Response)
    BY DEF Inv, TypeOK
  <2> HIDE DEF Response
  <2> QED
    BY <2>1, LenProperties, Types DEF Inv
<1>3. Len(answers) <= Len(requests)
  BY DEF InStep
<1>4. /\ Len(requests') = Len(requests) + 1
      /\ \A n \in 1 .. Len(requests) : requests'[n] = requests[n]
      /\ \A n \in 0 .. Len(requests) : Stream(requests')[n] = Stream(requests)[n]
  BY <1>1, <1>2, StreamGrows
<1>5. Answered' = Answered
  <2>1. Len(answers) \in 0 .. Len(requests)
    BY <1>2, <1>3
  <2> QED
    BY <1>1, <1>4, <2>1 DEF Answered
<1>6. \E taken : taken = Answered' /\ Accounted(taken)'
  BY <1>5, SendKeepsInv DEF InStep
<1>7. ASSUME pc \in Items PROVE Len(answers') < Len(requests') /\ Expected'
  <2>1. Len(answers) < Len(requests) /\ Expected
    BY <1>7 DEF InStep
  <2>2. Len(answers) + 1 \in 1 .. Len(requests)
    BY <1>2, <2>1
  <2>3. AtHand' = AtHand
    BY <1>1, <1>4, <2>2 DEF AtHand
  <2> QED
    BY <1>1, <1>2, <1>4, <2>1, <2>3 DEF Expected
<1>8. InStep'
  BY <1>1, <1>2, <1>3, <1>4, <1>6, <1>7 DEF InStep
<1>9. RR!Ask(request)
  BY <1>1 DEF RR!Ask
<1> QED
  BY <1>1, <1>8, <1>9 DEF RR!Next, Onward

LEMMA BeginRequestInStep ==
  ASSUME Inv, InStep, ~lost, BeginRequest
  PROVE  Onward
<1>1. /\ pc = "idle" /\ inbox # <<>> /\ pc' = "protocol"
      /\ UNCHANGED <<requests, kv, answers, lost>>
  BY DEF BeginRequest, clientVars
<1>2. PICK taken : taken = Answered /\ Accounted(taken)
  BY DEF InStep
<1>3. Accounted(taken)' /\ Answered' = Answered
  BY <1>1, <1>2, BeginRequestKeepsInv DEF Answered
<1>4. Len(answers) # Len(requests)
  <2> SUFFICES ASSUME Len(answers) = Len(requests) PROVE FALSE
    OBVIOUS
  <2>1. Sent \in Seq(Byte) /\ Unused \in Seq(Byte) /\ taken = Sent
    BY <1>2, Types DEF Inv, Answered, Sent
  <2>2. Sent = Sent \o Unused
    <3>1. Parsed = <<>>
      BY <1>1 DEF Parsed
    <3>2. Sent \o <<>> = Sent
      BY <2>1, ConcatEmptySeq
    <3> QED
      BY <1>2, <2>1, <3>1, <3>2 DEF Accounted
  <2> DEFINE far == inbox \o wire
  <2>3. buffer \o far = <<>>
    BY <2>1, <2>2, ConcatEqualIffEmpty DEF Unused
  <2>4. inbox \in Seq(Byte) /\ wire \in Seq(Byte) /\ buffer \in Seq(Byte) /\ far \in Seq(Byte)
    BY Types DEF Inv
  <2>5. far = <<>>
    <3> HIDE DEF far
    <3> QED
      BY <2>3, <2>4, ConcatEqualIffEmpty
  <2> QED
    BY <1>1, <2>4, <2>5, ConcatEqualIffEmpty
<1>5. Len(answers) < Len(requests)
  <2> DEFINE Response == [status: {OK, CLIENT_ERROR}, body: Seq(Byte)]
  <2>1. answers \in Seq(Response)
    BY DEF Inv, TypeOK
  <2> HIDE DEF Response
  <2>2. Len(answers) \in Nat /\ Len(requests) \in Nat /\ Len(answers) <= Len(requests)
    BY <2>1, LenProperties, Types DEF Inv, InStep
  <2> QED
    BY <1>4, <2>2
<1>6. Expected'
  BY <1>1 DEF Expected
<1>7. RR!vars' = RR!vars
  BY <1>1 DEF RR!vars
<1>8. InStep'
  BY <1>1, <1>2, <1>3, <1>5, <1>6 DEF InStep
<1> QED
  BY <1>1, <1>7, <1>8 DEF Onward

LEMMA ParseProtocolInStep ==
  ASSUME Inv, InStep, ~lost, ParseProtocol
  PROVE  Onward
<1>1. /\ pc = "protocol" /\ pc \in Items /\ Satisfied /\ Requested = 1 /\ buffer' = Popped(1)
      /\ UNCHANGED <<requests, wire, inbox, kv>>
      /\ buffer[1] = V1 => pc' = "messages" /\ UNCHANGED <<answers, lost>>
  BY DEF ParseProtocol, Parsing, Requested, Items, clientVars
<1>2. 1 \in 0 .. Len(buffer) /\ Taken(1) = <<V1>>
  BY <1>1, TakesItem DEF Item
<1>3. Taken(1) = <<buffer[1]>>
  BY <1>2, TakenBytes DEF Inv
<1>4. pc' = "messages" /\ UNCHANGED <<answers, lost>>
  <2>1. buffer[1] = V1
    BY <1>2, <1>3
  <2> QED
    BY <1>1, <2>1
<1>5. Parsed' = Parsed \o Taken(1)
  BY <1>4, ParseProtocolKeepsInv
<1>6. Expected'
  BY <1>4 DEF Expected
<1> QED
  BY <1>1, <1>4, <1>5, <1>6, MidStep

LEMMA ParseMessagesInStep ==
  ASSUME Inv, InStep, ~lost, ParseMessages
  PROVE  Onward
<1>1. /\ pc = "messages" /\ pc \in Items /\ Satisfied /\ Requested = 1 /\ buffer' = Popped(1)
      /\ messages' = buffer[1]
      /\ UNCHANGED <<requests, wire, inbox, kv>>
      /\ IF buffer[1] \in {1, 2} THEN pc' = "first_size" /\ UNCHANGED <<answers, lost>>
                                 ELSE GiveUp
  BY DEF ParseMessages, Parsing, Requested, Items, clientVars
<1>2. 1 \in 0 .. Len(buffer) /\ Taken(1) = <<AtHand.messages>>
  BY <1>1, TakesItem DEF Item
<1>3. Taken(1) = <<buffer[1]>>
  BY <1>2, TakenBytes DEF Inv
<1>4. buffer[1] = AtHand.messages
  BY <1>2, <1>3
<1>5. CASE buffer[1] \in {1, 2}
  <2>1. pc' = "first_size" /\ UNCHANGED <<answers, lost>>
    BY <1>1, <1>5
  <2>2. Parsed' = Parsed \o Taken(1)
    BY <2>1, ParseMessagesKeepsInv
  <2>3. AtHand' = AtHand
    BY <1>1, <2>1 DEF AtHand
  <2>4. Expected'
    BY <1>1, <1>4, <2>1, <2>3 DEF Expected
  <2> QED
    BY <1>1, <2>1, <2>2, <2>4, MidStep
<1>6. CASE buffer[1] \notin {1, 2}
  <2>1. ~WellFormed(AtHand)
    BY <1>4, <1>6 DEF WellFormed
  <2> QED
    BY <1>1, <1>6, <2>1, GiveUpInStep
<1> QED
  BY <1>5, <1>6

LEMMA ParseSizeInStep ==
  ASSUME Inv, InStep, ~lost,
         ParseSize("first_size", "first") \/ ParseSize("second_size", "second")
  PROVE  Onward
<1>1. /\ pc \in Items /\ Satisfied /\ Requested = 4 /\ buffer' = Popped(4) /\ size' = Deserialize4(buffer)
      /\ UNCHANGED <<requests, wire, inbox, messages, first_message, kv, answers, lost>>
      /\ \/ pc = "first_size" /\ pc' = "first"
         \/ pc = "second_size" /\ pc' = "second"
  BY DEF ParseSize, Parsing, Requested, Items, clientVars
<1>2. 4 \in 0 .. Len(buffer) /\ Taken(4) = Item
  BY <1>1, TakesItem
<1>3. size' = Deserialize4(Item)
  BY <1>1, <1>2, TakenBytes DEF Inv
<1>4. AtHand \in Request /\ AtHand' = AtHand /\ Expected
  BY <1>1, AtHandTypes DEF InStep, AtHand
<1>5. /\ pc' = "first" => size' = Len(AtHand.key)
      /\ pc' = "second" => size' = Len(AtHand.value)
  BY <1>1, <1>3, <1>4, RequestTypes DEF Item
<1>6. Expected'
  BY <1>1, <1>4, <1>5 DEF Expected
<1>7. Parsed' = Parsed \o Taken(4)
  BY ParseSizeKeepsInv
<1> QED
  BY <1>1, <1>6, <1>7, MidStep

LEMMA ParseFirstInStep ==
  ASSUME Inv, InStep, ~lost, InvalidKey \/ ReadKey \/ WantValue
  PROVE  Onward
<1>1. /\ pc = "first" /\ pc \in Items /\ Satisfied /\ Requested = size /\ buffer' = Popped(size)
      /\ first_message' = Taken(size)
      /\ UNCHANGED <<requests, wire, inbox, messages, size, kv>>
  BY DEF InvalidKey, ReadKey, WantValue, ParseFirstMessage, Parsing, Requested, Items, clientVars
<1>2. AtHand \in Request /\ messages = AtHand.messages
  BY <1>1, AtHandTypes DEF InStep, Expected
<1>3. first_message' = AtHand.key
  BY <1>1, TakesItem DEF Item
<1>4. CASE InvalidKey
  <2>1. ~IsKeyValid(AtHand.key)
    BY <1>3, <1>4 DEF InvalidKey
  <2>2. CASE messages = 1
    <3>1. pc' = "responding" /\ answers' = Append(answers, Refusal) /\ UNCHANGED lost
      BY <1>4, <2>2 DEF InvalidKey, Respond
    <3>2. ~IsWrite(AtHand)
      BY <1>2, <2>2 DEF IsWrite
    <3>3. Reply(kv, AtHand) = Refusal /\ Updated(kv, AtHand) = kv
      BY <2>1, <3>2 DEF Reply, Updated
    <3> QED
      BY <1>1, <3>1, <3>2, <3>3, LastStep
  <2>3. CASE messages # 1
    <3>1. GiveUp
      BY <1>4, <2>3 DEF InvalidKey
    <3>2. ~WellFormed(AtHand)
      BY <1>2, <2>1, <2>3 DEF WellFormed, IsWrite
    <3> QED
      BY <1>1, <3>1, <3>2, GiveUpInStep
  <2> QED
    BY <2>2, <2>3
<1>5. CASE ReadKey
  <2>1. /\ pc' = "responding" /\ answers' = Append(answers, Found(kv, AtHand.key))
        /\ UNCHANGED lost /\ IsKeyValid(AtHand.key) /\ messages = 1
    BY <1>3, <1>5 DEF ReadKey, Respond
  <2>2. ~IsWrite(AtHand)
    BY <1>2, <2>1 DEF IsWrite
  <2>3. Reply(kv, AtHand) = Found(kv, AtHand.key) /\ Updated(kv, AtHand) = kv
    BY <2>1, <2>2 DEF Reply, Updated
  <2> QED
    BY <1>1, <2>1, <2>2, <2>3, LastStep
<1>6. CASE WantValue
  <2>1. pc' = "second_size" /\ UNCHANGED <<answers, lost>>
    BY <1>6 DEF WantValue
  <2>2. AtHand' = AtHand
    BY <1>1, <2>1 DEF AtHand
  <2>3. Expected'
    BY <1>1, <1>2, <1>3, <2>1, <2>2 DEF Expected
  <2>4. Parsed' = Parsed \o Taken(size)
    BY <1>6, <2>1, ParseFirstKeepsInv
  <2> QED
    BY <1>1, <2>1, <2>3, <2>4, MidStep
<1> QED
  BY <1>4, <1>5, <1>6

LEMMA WriteKeyInStep ==
  ASSUME Inv, InStep, ~lost, WriteKey
  PROVE  Onward
<1>1. /\ pc = "second" /\ pc \in Items /\ Satisfied /\ Requested = size /\ buffer' = Popped(size)
      /\ kv' = Inserted(kv, first_message, Taken(size))
      /\ pc' = "responding" /\ answers' = Append(answers, Success(<<>>))
      /\ UNCHANGED <<requests, wire, inbox, lost>>
  BY DEF WriteKey, Stored, Parsing, Requested, Respond, Items, clientVars
<1>2. /\ first_message = AtHand.key /\ messages = AtHand.messages
      /\ messages = 2 /\ IsKeyValid(first_message)
  BY <1>1 DEF Inv, InStep, Expected
<1>3. Taken(size) = AtHand.value
  BY <1>1, TakesItem DEF Item
<1>4. Reply(kv, AtHand) = Success(<<>>) /\ Updated(kv, AtHand) = kv'
  BY <1>1, <1>2, <1>3 DEF Reply, Updated, IsWrite
<1> QED
  BY <1>1, <1>4, LastStep

LEMMA ReadTimeoutInStep ==
  ASSUME Inv, InStep, ~lost, ReadTimeout
  PROVE  Onward
<1>1. pc \in Items /\ GiveUp /\ UNCHANGED <<requests, kv>>
  BY DEF ReadTimeout, clientVars
<1>2. ~prompt
  BY NothingToWaitFor
<1> QED
  BY <1>1, <1>2, GiveUpInStep

LEMMA StepInStep ==
  Inv /\ InStep /\ ~lost /\ [Next]_vars => Onward
<1> SUFFICES ASSUME Inv, InStep, ~lost, [Next]_vars
             PROVE  Onward
  OBVIOUS
<1>1. ASSUME NEW request \in Request, Send(request) PROVE Onward
  BY <1>1, SendInStep
<1>2. CASE Deliver
  <2>1. UNCHANGED <<requests, parseVars, kv, answers, lost>> /\ pc' = pc
    BY <1>2 DEF Deliver
  <2> QED
    BY <1>2, <2>1, DeliverKeepsInv, MoveInStep
<1>3. CASE BeginRequest
  BY <1>3, BeginRequestInStep
<1>4. CASE IgnoreEvent
  <2>1. UNCHANGED <<requests, parseVars, kv, answers, lost>> /\ pc' = pc
    BY <1>4 DEF IgnoreEvent, clientVars
  <2> QED
    BY <1>4, <2>1, IgnoreEventKeepsInv, MoveInStep
<1>5. CASE ReadSocket
  <2>1. UNCHANGED <<requests, parseVars, kv, answers, lost>> /\ pc' = pc
    BY <1>5 DEF ReadSocket, clientVars
  <2> QED
    BY <1>5, <2>1, ReadSocketKeepsInv, MoveInStep
<1>6. CASE ParseProtocol
  BY <1>6, ParseProtocolInStep
<1>7. CASE ParseMessages
  BY <1>7, ParseMessagesInStep
<1>8. CASE ParseSize("first_size", "first") \/ ParseSize("second_size", "second")
  BY <1>8, ParseSizeInStep
<1>9. CASE InvalidKey \/ ReadKey \/ WantValue
  BY <1>9, ParseFirstInStep
<1>10. CASE WriteKey
  BY <1>10, WriteKeyInStep
<1>11. CASE ReadTimeout
  BY <1>11, ReadTimeoutInStep
<1>12. CASE SendReturns
  <2>1. UNCHANGED <<requests, parseVars, kv, answers, lost>> /\ pc' \notin Items
    BY <1>12 DEF SendReturns, clientVars, Items
  <2> QED
    BY <1>12, <2>1, SendReturnsKeepsInv, MoveInStep
<1>13. CASE UNCHANGED vars
  <2>1. UNCHANGED <<requests, parseVars, kv, answers, lost>> /\ pc' = pc
    BY <1>13 DEF vars, clientVars
  <2> QED
    BY <1>13, <2>1, StutterKeepsInv, MoveInStep
<1> QED
  BY <1>1, <1>2, <1>3, <1>4, <1>5, <1>6, <1>7, <1>8, <1>9, <1>10, <1>11, <1>12, <1>13
     DEF Next, HandlerStep

(* A request that was given up stays so. *)
LEMMA StaysLost ==
  ASSUME lost, [Next]_vars
  PROVE  lost' /\ RR!Anything
<1>1. lost'
  BY DEF Next, HandlerStep, Send, Deliver, BeginRequest, IgnoreEvent, ReadSocket, ReadTimeout,
         SendReturns, ParseProtocol, ParseMessages, ParseSize, ParseFirstMessage, InvalidKey,
         ReadKey, WantValue, WriteKey, GiveUp, vars
<1> QED
  BY <1>1 DEF RR!Anything

(* What every step does, in step or not. *)
LEMMA StepOnward ==
  ASSUME Inv, lost \/ InStep, [Next]_vars
  PROVE  /\ lost' \/ InStep'
         /\ [RR!Next]_(RR!vars)
         /\ ~lost /\ lost' => pc \in Items /\ InStep /\ ~(prompt /\ WellFormed(AtHand))
<1>1. CASE lost
  BY <1>1, StaysLost DEF RR!Next
<1>2. CASE ~lost
  BY <1>2, StepInStep DEF Onward
<1> QED
  BY <1>1, <1>2

LEMMA InitInStep == Init => InStep
<1> SUFFICES ASSUME Init PROVE InStep
  OBVIOUS
<1>1. Inv
  BY InitGivesInv
<1>2. pc = "idle" /\ requests = <<>> /\ answers = <<>> /\ buffer = <<>> /\ inbox = <<>> /\ wire = <<>>
  BY DEF Init
<1>3. Answered = Sent
  BY <1>2 DEF Answered, Sent
<1>4. <<>> \in Seq(Byte) /\ Sent \in Seq(Byte) /\ Len(requests) \in Nat
  BY <1>1, EmptySeq, Types DEF Inv
<1>5. Accounted(Sent)
  <2>1. <<>> \o <<>> = <<>> /\ Sent \o <<>> = Sent
    BY <1>4, ConcatEmptySeq
  <2>2. Parsed = <<>> /\ Unused = <<>>
    BY <1>2, <2>1 DEF Parsed, Unused
  <2> QED
    BY <1>4, <2>1, <2>2 DEF Accounted
<1> QED
  BY <1>2, <1>3, <1>4, <1>5 DEF InStep, Items

LEMMA InStepGivesAligned == Inv /\ (lost \/ InStep) => StreamAligned
<1> SUFFICES ASSUME Inv, InStep, ~lost, pc \in {"idle", "responding"}
             PROVE  /\ Len(answers) <= Len(requests)
                    /\ Encoded[Len(requests)] = Encoded[Len(answers)] \o buffer \o inbox \o wire
  BY DEF StreamAligned
<1> DEFINE front == Answered \o buffer
<1>1. /\ Encoded[Len(requests)] = Sent
      /\ Encoded[Len(answers)] = Answered
  BY EncodedIsStream DEF Sent, Answered
<1>2. Answered \in Seq(Byte) /\ Sent = (Answered \o Parsed) \o Unused
  BY DEF InStep, Accounted
<1>3. buffer \in Seq(Byte) /\ inbox \in Seq(Byte) /\ wire \in Seq(Byte) /\ inbox \o wire \in Seq(Byte)
  BY Types DEF Inv
<1>4. Answered \o Parsed = Answered
  <2>1. Parsed = <<>>
    BY DEF Parsed
  <2> QED
    BY <1>2, <2>1, ConcatEmptySeq
<1>5. Answered \o (buffer \o (inbox \o wire)) = front \o (inbox \o wire)
  <2> DEFINE far == inbox \o wire
  <2>1. Brackets(Answered, buffer, far)
    BY Associative
  <2> QED
    BY <1>2, <1>3, <2>1 DEF Brackets
<1>6. front \o (inbox \o wire) = (front \o inbox) \o wire
  <2>1. front \in Seq(Byte)
    BY <1>2, <1>3, ConcatProperties
  <2>2. Brackets(front, inbox, wire)
    BY Associative
  <2> HIDE DEF front
  <2> QED
    BY <1>3, <2>1, <2>2 DEF Brackets
<1>7. Len(answers) <= Len(requests)
  BY DEF InStep
<1> QED
  BY <1>1, <1>2, <1>4, <1>5, <1>6, <1>7 DEF Unused

(* A prompt network and well-formed requests keep the server in its place. *)
LEMMA PlaceStaysKept ==
  ASSUME Inv, lost \/ InStep, PlaceKept, [Next]_vars
  PROVE  PlaceKept'
<1> SUFFICES ASSUME prompt', \A i \in DOMAIN requests' : WellFormed(requests'[i]), lost'
             PROVE  FALSE
  BY DEF PlaceKept
<1>1. requests \in Seq(Request) /\ Len(requests) \in Nat
  BY Types DEF Inv
<1>2. /\ prompt' = prompt
      /\ \/ requests' = requests
         \/ \E request \in Request : requests' = Append(requests, request)
  BY DEF Next, HandlerStep, Send, Deliver, BeginRequest, IgnoreEvent, ReadSocket, ReadTimeout,
         SendReturns, ParseProtocol, ParseMessages, ParseSize, ParseFirstMessage, InvalidKey,
         ReadKey, WantValue, WriteKey, clientVars, vars
<1>3. \A i \in 1 .. Len(requests) : i \in DOMAIN requests' /\ requests'[i] = requests[i]
  <2>1. CASE requests' = requests
    BY <1>1, <2>1
  <2>2. ASSUME NEW request \in Request, requests' = Append(requests, request)
        PROVE  \A i \in 1 .. Len(requests) : i \in DOMAIN requests' /\ requests'[i] = requests[i]
    <3>1. /\ requests' \in Seq(Request) /\ Len(requests') = Len(requests) + 1
          /\ \A i \in 1 .. Len(requests) : requests'[i] = requests[i]
      BY <1>1, <2>2, AppendProperties
    <3>2. DOMAIN requests' = 1 .. Len(requests) + 1
      BY <3>1
    <3> QED
      BY <1>1, <3>1, <3>2
  <2> QED
    BY <1>2, <2>1, <2>2
<1>4. \A i \in 1 .. Len(requests) : WellFormed(requests[i])
  BY <1>3
<1>5. ~lost
  BY <1>1, <1>2, <1>4 DEF PlaceKept
<1>6. pc \in Items /\ InStep /\ ~(prompt /\ WellFormed(AtHand))
  BY <1>5, StepOnward
<1>7. Len(answers) + 1 \in 1 .. Len(requests)
  BY <1>6, AtHandTypes DEF InStep
<1> QED
  BY <1>2, <1>4, <1>6, <1>7 DEF AtHand

(* Between two requests the server stands where a request begins, however  *)
(* the stream is cut into segments and reads, until it gives one up.       *)
THEOREM StaysAligned == Spec => []StreamAligned
<1>1. Init => Inv /\ (lost \/ InStep)
  BY InitGivesInv, InitInStep
<1>2. (Inv /\ (lost \/ InStep)) /\ [Next]_vars => (Inv /\ (lost \/ InStep))'
  BY StepKeepsInv, StepOnward
<1>3. Inv /\ (lost \/ InStep) => StreamAligned
  BY InStepGivesAligned
<1> QED
  BY <1>1, <1>2, <1>3, PTL DEF Spec

(* parse_request, its buffer and its reads implement the request-reply     *)
(* service: the requests are answered in the order they were made, one     *)
(* answer each, from the state the earlier ones made, until one is given   *)
(* up, which is refused and changes nothing.                               *)
THEOREM AnswersInOrder == Spec => ImplementsRequestReply
<1>1. Init => RR!Init
  BY DEF Init, RR!Init
<1>2. Init => Inv /\ (lost \/ InStep)
  BY InitGivesInv, InitInStep
<1>3. (Inv /\ (lost \/ InStep)) /\ [Next]_vars => (Inv /\ (lost \/ InStep))'
  BY StepKeepsInv, StepOnward
<1>4. (Inv /\ (lost \/ InStep)) /\ [Next]_vars => [RR!Next]_(RR!vars)
  BY StepOnward
<1> QED
  BY <1>1, <1>2, <1>3, <1>4, PTL DEF Spec, ImplementsRequestReply, RR!Spec

(* On a prompt network no request of a client that makes well-formed ones  *)
(* is given up in its middle, whatever the sizes of its requests, of the   *)
(* segments, of the reads and of the buffers.                              *)
THEOREM NoRequestGivenUp == Spec => []PlaceKept
<1>1. Init => Inv /\ (lost \/ InStep) /\ PlaceKept
  BY InitGivesInv, InitInStep DEF Init, PlaceKept
<1>2. /\ Inv /\ (lost \/ InStep) /\ PlaceKept
      /\ [Next]_vars
      => (Inv /\ (lost \/ InStep) /\ PlaceKept)'
  BY StepKeepsInv, StepOnward, PlaceStaysKept
<1> QED
  BY <1>1, <1>2, PTL DEF Spec
=============================================================================
