----------------------------- MODULE KnowNothing ----------------------------
(***************************************************************************)
(* Version 1 of the Know Nothing protocol, as the programs speak it: a     *)
(* version byte, the number of messages, and each message behind the four  *)
(* bytes of its size, the least significant one first.  Pure functions on  *)
(* sequences of bytes.                                                     *)
(***************************************************************************)
EXTENDS Integers, Sequences

Byte == 0 .. 255

(* Protocol::V1, and the values of ResponseStatus that are used. *)
V1 == 1
OK == 1
CLIENT_ERROR == 2

(* push_back(n), push_back(n >> 8), ...: a uint8_t keeps the low eight bits. *)
Serialize4(n) == <<n % 256, (n \div 256) % 256, (n \div 65536) % 256, (n \div 16777216) % 256>>

(* Mutant: the bytes are signed characters. *)
Signed(byte) == IF byte < 128 THEN byte ELSE byte - 256
SignedDeserialize4(bytes) ==
  Signed(bytes[1]) + 256 * Signed(bytes[2]) + 65536 * Signed(bytes[3]) + 16777216 * Signed(bytes[4])
(* ByteBuffer::get_integer4: value |= temp << (8 * index). *)
Deserialize4(bytes) ==
  bytes[1] + 256 * bytes[2] + 65536 * bytes[3] + 16777216 * bytes[4]

(* Array.size is an unsigned int. *)
SizeFits(content) == Len(content) \div 16777216 < 256

Message(content) == Serialize4(Len(content)) \o content

(* A request asks for a key (one message) or gives a key its value (two).  *)
IsWrite(request) == request.messages = 2

(* write_request of the client library, and what parse_request takes apart: *)
(* each message has its size before it.  KnowNothing.md:82-118 documents   *)
(* the sizes of both messages before the first, and messages of at most    *)
(* 2^22 - 1 bytes; neither side of the code follows it there.              *)
EncodeRequest(request) ==
  <<V1, request.messages>> \o Message(request.key)
    \o (IF IsWrite(request) THEN Message(request.value) ELSE <<>>)

(* write_dynamic_content: a status and a text. *)
EncodeResponse(status, text) == <<V1, 2>> \o Message(<<status>>) \o Message(text)

(* The answer to a read: success_header, and the record as it is in the    *)
(* file, whose own size makes the value the second message.                *)
SuccessHeader == <<V1, 2, 1, 0, 0, 0, OK>>
Record(value) == Message(value)

(* What the client library reads at once: everything up to the value.      *)
HeaderSize == 11
ResponseMessages(header) == header[2]
ResponseStatus(header) == header[7]
(* Mutant: the size is taken to begin where the status stands. *)
ResponseSizeEarly(header) == Deserialize4(SubSeq(header, 7, 10))
(* buffer[7] | buffer[8] << 8 | buffer[9] << 16 | buffer[10] << 24. *)
ResponseSize(header) == Deserialize4(SubSeq(header, 8, 11))

(* is_key_valid: some characters, all of them of [a-zA-Z0-9_]. *)
KeyCharacter == (48 .. 57) \cup (65 .. 90) \cup (97 .. 122) \cup {95}
IsKeyValid(key) == key # <<>> /\ \A i \in DOMAIN key : key[i] \in KeyCharacter
=============================================================================
