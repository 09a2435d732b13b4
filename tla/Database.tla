------------------------------ MODULE Database ------------------------------
(***************************************************************************)
(* The storage engine: class Database of source/easykey.cpp, and the two   *)
(* requests Handler::parse_request makes of it.  Values are appended to    *)
(* one of NUMBER_OF_FILES files and found again through an in-memory index *)
(* of file, offset and size.                                               *)
(*                                                                         *)
(* A byte of a file is named by the value it belongs to and its position   *)
(* in that value's record, so that a slice of a file equals the record of  *)
(* a value exactly when no byte of it is missing, moved or overwritten.    *)
(*                                                                         *)
(* write(2) may accept fewer bytes than it was given, or fail: the device  *)
(* is full, or the call is interrupted.                                    *)
(***************************************************************************)
EXTENDS Integers, Sequences

CONSTANTS
  Key,              (* The keys clients use.                               *)
  Value,            (* The values clients store.                           *)
  KeySize,          (* KeySize[k]: key.size(), the bytes of the key.       *)
  DataSize,         (* DataSize[v]: data.size(), the bytes of the value.   *)
  NUMBER_OF_FILES,  (* 5 in include/easykey.hpp.                           *)
  FileCapacity,     (* The bytes the device can hold in one file.          *)
  Cuts,             (* Bound: the bytes write(2) may take of a record it   *)
                    (* does not take in full; Nat is no bound.             *)
  NULL              (* No index entry; also the value of an unwritten key. *)

(* The four bytes that store the size of the value in front of it. *)
HeaderSize == 4

File == 0 .. NUMBER_OF_FILES - 1
FileStorage == [size: Nat, offset: Nat, file: File]
Origin == [data: Value, accepted: Nat]

ASSUME DatabaseAssumption ==
  /\ NUMBER_OF_FILES \in 1 .. 255
  /\ KeySize \in [Key -> Nat \ {0}]
  /\ DataSize \in [Value -> Nat]
  /\ FileCapacity \in Nat
  /\ Cuts \subseteq Nat
  /\ NULL \notin Value
  /\ NULL \notin FileStorage
  /\ NULL \notin Origin

VARIABLES
  opened_files,  (* The contents of the files.                             *)
  stored,        (* The index.                                             *)
  answer,        (* The last response: its status and the bytes sent.      *)
  origin         (* History: the write that made a key's index entry, and  *)
                 (* how many bytes of its record write(2) accepted.        *)

vars == <<opened_files, stored, answer, origin>>

Byte == Value \X Nat

RecordSize(data) == HeaderSize + DataSize[data]

(* stored_data: the size of the value, then the value. *)
Record(data) == [i \in 1 .. RecordSize(data) |-> <<data, i>>]

TypeOK ==
  /\ opened_files \in [File -> Seq(Byte)]
  /\ stored \in [Key -> FileStorage \cup {NULL}]
  /\ answer \in [status: {"NONE", "OK", "CLIENT_ERROR"}, body: Seq(Byte)]
  /\ origin \in [Key -> Origin \cup {NULL}]

-----------------------------------------------------------------------------
NoAnswer == [status |-> "NONE", body |-> <<>>]

(* The constructor opens every file with O_TRUNC: whatever an earlier run  *)
(* of the program stored is gone.                                          *)
Init ==
  /\ opened_files = [f \in File |-> <<>>]
  /\ stored = [k \in Key |-> NULL]
  /\ answer = NoAnswer
  /\ origin = [k \in Key |-> NULL]

hash(key) == KeySize[key] % NUMBER_OF_FILES

(* Mutant: the offset of the last byte, not the one after it. *)
SeekLast(file) == Len(opened_files[file]) - 1
(* Mutant: lseek(fd, 0, SEEK_SET). *)
SeekStart(file) == 0
(* lseek(fd, 0, SEEK_END). *)
SeekEnd(file) == Len(opened_files[file])

(* Mutant: the size of the value without its header. *)
BareSize(data) == DataSize[data]
(* stored_data.size(). *)
StoredSize(data) == RecordSize(data)

(* Mutant: stored[key] = storage. *)
ReplaceEntry(old, new) == new
(* unordered_map::insert leaves an entry that is already there alone. *)
InsertEntry(old, new) == IF old = NULL THEN new ELSE old

(* Database::write and the answer parse_request gives to it, whatever      *)
(* write(2) returned: accepted is the number of bytes it took, 0 when it   *)
(* failed.                                                                 *)
Write(key, data, accepted) ==
  LET file == hash(key)
      storage == [size |-> StoredSize(data), offset |-> SeekEnd(file), file |-> file]
  IN  /\ Len(opened_files[file]) + accepted <= FileCapacity
      /\ opened_files' = [opened_files EXCEPT ![file] = @ \o SubSeq(Record(data), 1, accepted)]
      /\ stored' = [stored EXCEPT ![key] = InsertEntry(@, storage)]
      /\ answer' = [status |-> "OK", body |-> <<>>]
      /\ origin' = [origin EXCEPT ![key] =
                      IF @ = NULL THEN [data |-> data, accepted |-> accepted] ELSE @]

(* sendfile(2) sends the bytes from the entry's offset on, and stops at    *)
(* the end of the file.                                                    *)
Slice(entry) ==
  LET content == opened_files[entry.file]
      last == entry.offset + entry.size
  IN  SubSeq(content, entry.offset + 1, IF last <= Len(content) THEN last ELSE Len(content))

ReadFound(key) ==
  /\ stored[key] # NULL
  /\ answer' = [status |-> "OK", body |-> Slice(stored[key])]
  /\ UNCHANGED <<opened_files, stored, origin>>

ReadNotFound(key) ==
  /\ stored[key] = NULL
  /\ answer' = [status |-> "CLIENT_ERROR", body |-> <<>>]
  /\ UNCHANGED <<opened_files, stored, origin>>

(* The process ends, for whatever reason, and is started again. *)
Restart ==
  /\ opened_files' = [f \in File |-> <<>>]
  /\ stored' = [k \in Key |-> NULL]
  /\ answer' = NoAnswer
  /\ origin' = [k \in Key |-> NULL]

Accepted(data) ==
  {n \in 0 .. RecordSize(data) : n \in Cuts \/ n = RecordSize(data)}

Next ==
  \/ \E key \in Key, data \in Value :
        \E accepted \in Accepted(data) : Write(key, data, accepted)
  \/ \E key \in Key : ReadFound(key) \/ ReadNotFound(key)
  \/ Restart

Spec == Init /\ [][Next]_vars

-----------------------------------------------------------------------------
(* The bytes a read of the key would send now, and the value they are the  *)
(* record of, NULL when they are no value's record.                        *)
Readable(key) == IF stored[key] = NULL THEN <<>> ELSE Slice(stored[key])

Decode(bytes) ==
  IF \E v \in Value : bytes = Record(v)
    THEN CHOOSE v \in Value : bytes = Record(v)
    ELSE NULL

(* The index and its history agree: an entry is as large as the record of  *)
(* the value it was made for, in the file its key hashes to.               *)
EntriesMatchOrigin ==
  \A k \in Key :
    /\ stored[k] = NULL <=> origin[k] = NULL
    /\ stored[k] # NULL =>
         /\ stored[k].size = RecordSize(origin[k].data)
         /\ stored[k].file = hash(k)
         /\ origin[k].accepted <= stored[k].size

(* Every byte write(2) accepted for the entry of a key is still where the  *)
(* entry says, whatever was written since for this or any other key and    *)
(* however short those writes were.                                        *)
WrittenBytesIntact ==
  \A k \in Key : stored[k] # NULL =>
    LET s == stored[k]
    IN  /\ s.offset + origin[k].accepted <= Len(opened_files[s.file])
        /\ \A i \in 1 .. origin[k].accepted :
             opened_files[s.file][s.offset + i] = Record(origin[k].data)[i]

(* The bytes accepted for two keys never share a position of a file, also  *)
(* when both keys hash to the same file and hold the same value.           *)
Extent(key) == {stored[key].offset + i : i \in 1 .. origin[key].accepted}
EntriesDisjoint ==
  \A j, k \in Key :
    (j # k /\ stored[j] # NULL /\ stored[k] # NULL /\ stored[j].file = stored[k].file)
      => Extent(j) \cap Extent(k) = {}

(* The inductive invariant behind the theorems of Database_proofs. *)
Inv == TypeOK /\ EntriesMatchOrigin /\ WrittenBytesIntact

(* What EntriesDisjoint needs to be inductive: of two keys in one file, the *)
(* bytes of one end before the other's begin.                              *)
EntriesOrdered ==
  \A j, k \in Key :
    (j # k /\ stored[j] # NULL /\ stored[k] # NULL /\ stored[j].file = stored[k].file)
      => \/ stored[j].offset + origin[j].accepted <= stored[k].offset
         \/ stored[k].offset + origin[k].accepted <= stored[j].offset

(* What a read of a key sends is a prefix of what every later read of it   *)
(* sends: writes never change bytes that a client has already seen.        *)
StartsWith(longer, shorter) ==
  /\ Len(shorter) <= Len(longer)
  /\ \A i \in 1 .. Len(shorter) : longer[i] = shorter[i]
ReadsAreStable ==
  [][\A k \in Key : stored'[k] # NULL => StartsWith(Readable(k)', Readable(k))]_vars

(* The files and the index implement the map: every read sends the         *)
(* complete record of the value the map holds.  A write that the device    *)
(* cut damages the key it was the first for and no other.                  *)
Damaged ==
  {k \in Key : stored[k] # NULL /\ origin[k].accepted < RecordSize(origin[k].data)}

KV == INSTANCE KVStore WITH
        NoValue <- NULL,
        damaged <- Damaged,
        kv      <- [k \in Key |-> IF k \in Damaged THEN NULL ELSE Decode(Readable(k))],
        answer  <- [status |-> answer.status, body |-> Decode(answer.body)]
ImplementsKVStore == KV!Spec

(* The client is told "The key: ... was successfully written!"             *)
(* (source/easykey.cpp:208) of the write that made the entry of a key: a   *)
(* read of the key then gives that value, also on a device that may refuse *)
(* or cut a write.                                                         *)
AnsweredWriteReadable ==
  \A k \in Key : origin[k] # NULL => Decode(Readable(k)) = origin[k].data
=============================================================================
