-------------------------- MODULE Database_proofs ---------------------------
(***************************************************************************)
(* What the checks of Database show on small instances, proved for every   *)
(* set of keys and values, every size and every number of files.           *)
(*                                                                         *)
(* The argument: a file only ever grows at its end (FileGrows), an index   *)
(* entry never changes once it is made (EntryKept), and a new entry starts *)
(* where the file ended.  Inv is the invariant that follows; the bytes of  *)
(* the entries are stated one by one, which is what keeps it inductive     *)
(* when write(2) stops half way through a record.                          *)
(***************************************************************************)
EXTENDS Database, SequenceTheorems, TLAPS

-----------------------------------------------------------------------------
(* Records and files. *)

(* A record has at least the four bytes of its header. *)
LEMMA RecordSizeType ==
  ASSUME NEW data \in Value
  PROVE  RecordSize(data) \in Nat /\ RecordSize(data) >= 4
BY DatabaseAssumption DEF RecordSize, HeaderSize

(* Every key hashes to one of the files. *)
LEMMA HashType ==
  ASSUME NEW key \in Key
  PROVE  hash(key) \in File
<1>1. KeySize[key] \in Nat /\ NUMBER_OF_FILES \in Nat \ {0}
  BY DatabaseAssumption
<1> QED
  BY <1>1 DEF hash, File

(* A record is a sequence of bytes, each named for its place in it. *)
LEMMA RecordProperties ==
  ASSUME NEW data \in Value
  PROVE  /\ Record(data) \in Seq(Byte)
         /\ Len(Record(data)) = RecordSize(data)
         /\ \A i \in 1 .. RecordSize(data) : Record(data)[i] = <<data, i>>
<1>1. RecordSize(data) \in Nat
  BY RecordSizeType
<1>2. \A i \in 1 .. RecordSize(data) : <<data, i>> \in Byte
  BY <1>1 DEF Byte
<1> QED
  BY <1>1, <1>2 DEF Record

(* The part of a record write(2) accepts. *)
LEMMA AcceptedProperties ==
  ASSUME NEW data \in Value, NEW accepted \in 0 .. RecordSize(data)
  PROVE  /\ SubSeq(Record(data), 1, accepted) \in Seq(Byte)
         /\ Len(SubSeq(Record(data), 1, accepted)) = accepted
         /\ \A i \in 1 .. accepted : SubSeq(Record(data), 1, accepted)[i] = Record(data)[i]
<1> DEFINE rec == Record(data)
<1>1. RecordSize(data) \in Nat /\ accepted \in Nat
  BY RecordSizeType
<1>2. rec \in Seq(Byte) /\ Len(rec) = RecordSize(data)
  BY RecordProperties
<1> HIDE DEF rec
<1>3. \A i \in 1 .. accepted : rec[i] \in Byte
  BY <1>1, <1>2, ElementOfSeq
<1>4. /\ SubSeq(rec, 1, accepted) \in Seq(Byte)
      /\ Len(SubSeq(rec, 1, accepted)) = IF 1 <= accepted THEN accepted - 1 + 1 ELSE 0
      /\ \A i \in 1 .. accepted - 1 + 1 : SubSeq(rec, 1, accepted)[i] = rec[1 + i - 1]
  BY <1>1, <1>3, SubSeqProperties
<1> QED
  BY <1>1, <1>4 DEF rec

(* What Write makes of the file of its key: the old bytes, then the ones   *)
(* that were accepted.                                                     *)
LEMMA FileAppended ==
  ASSUME TypeOK,
         NEW key \in Key, NEW data \in Value, NEW accepted \in 0 .. RecordSize(data)
  PROVE  LET old == opened_files[hash(key)]
             new == old \o SubSeq(Record(data), 1, accepted)
         IN  /\ new \in Seq(Byte)
             /\ Len(old) \in Nat
             /\ Len(new) = Len(old) + accepted
             /\ \A i \in 1 .. Len(old) : new[i] = old[i]
             /\ \A i \in 1 .. accepted : new[Len(old) + i] = Record(data)[i]
<1> DEFINE old == opened_files[hash(key)]
           part == SubSeq(Record(data), 1, accepted)
<1>1. old \in Seq(Byte) /\ Len(old) \in Nat
  BY HashType, LenProperties DEF TypeOK
<1>2. /\ part \in Seq(Byte)
      /\ Len(part) = accepted
      /\ \A i \in 1 .. accepted : part[i] = Record(data)[i]
  BY AcceptedProperties
<1>3. accepted \in Nat
  BY RecordSizeType
<1> HIDE DEF old, part
<1>4. /\ old \o part \in Seq(Byte)
      /\ Len(old \o part) = Len(old) + Len(part)
      /\ \A i \in 1 .. Len(old) + Len(part) :
           (old \o part)[i] = IF i <= Len(old) THEN old[i] ELSE part[i - Len(old)]
  BY <1>1, <1>2, ConcatProperties
<1>5. \A i \in 1 .. Len(old) : (old \o part)[i] = old[i]
  BY <1>1, <1>2, <1>3, <1>4
<1>6. \A i \in 1 .. accepted : (old \o part)[Len(old) + i] = Record(data)[i]
  <2> TAKE i \in 1 .. accepted
  <2>1. /\ Len(old) + i \in 1 .. Len(old) + Len(part)
        /\ ~(Len(old) + i <= Len(old))
        /\ Len(old) + i - Len(old) = i
    BY <1>1, <1>2, <1>3
  <2> QED
    BY <2>1, <1>2, <1>4
<1> QED
  BY <1>1, <1>2, <1>4, <1>5, <1>6 DEF old, part

-----------------------------------------------------------------------------
(* The invariant. *)

(* The entry a write makes, when it makes one, and its history. *)
LEMMA NewEntryType ==
  ASSUME TypeOK, NEW key \in Key, NEW data \in Value, NEW accepted \in 0 .. RecordSize(data)
  PROVE  /\ [size |-> StoredSize(data), offset |-> SeekEnd(hash(key)), file |-> hash(key)]
              \in FileStorage
         /\ [data |-> data, accepted |-> accepted] \in Origin
<1>1. RecordSize(data) \in Nat /\ accepted \in Nat
  BY RecordSizeType
<1>2. opened_files[hash(key)] \in Seq(Byte) /\ hash(key) \in File
  BY HashType DEF TypeOK
<1>3. Len(opened_files[hash(key)]) \in Nat
  BY <1>2, LenProperties
<1> QED
  BY <1>1, <1>2, <1>3 DEF FileStorage, Origin, StoredSize, SeekEnd

(* What sendfile sends of a file for an entry: the bytes from the entry's  *)
(* offset on, cut at the end of the file.                                  *)
LEMMA SliceProperties ==
  ASSUME NEW content \in Seq(Byte), NEW entry \in FileStorage
  PROVE  LET end == IF entry.offset + entry.size <= Len(content)
                      THEN entry.offset + entry.size ELSE Len(content)
             length == IF entry.offset + 1 <= end THEN end - entry.offset ELSE 0
             slice == SubSeq(content, entry.offset + 1, end)
         IN  /\ slice \in Seq(Byte)
             /\ Len(slice) = length
             /\ \A i \in 1 .. length : slice[i] = content[entry.offset + i]
<1> DEFINE end == IF entry.offset + entry.size <= Len(content)
                    THEN entry.offset + entry.size ELSE Len(content)
           first == entry.offset + 1
<1>1. entry.size \in Nat /\ entry.offset \in Nat
  BY DEF FileStorage
<1>2. Len(content) \in Nat
  BY LenProperties
<1>4. end \in Nat /\ first \in Nat \ {0} /\ end <= Len(content)
  BY <1>1, <1>2
<1> HIDE DEF end
<1>5. \A i \in first .. end : content[i] \in Byte
  <2> TAKE i \in first .. end
  <2>1. i \in 1 .. Len(content)
    BY <1>2, <1>4
  <2> QED
    BY <2>1, ElementOfSeq
<1> HIDE DEF first
<1>6. /\ SubSeq(content, first, end) \in Seq(Byte)
      /\ Len(SubSeq(content, first, end)) = IF first <= end THEN end - first + 1 ELSE 0
      /\ \A i \in 1 .. end - first + 1 : SubSeq(content, first, end)[i] = content[first + i - 1]
  BY <1>4, <1>5, SubSeqProperties
<1>7. \A i \in Int : first + i - 1 = entry.offset + i
  BY <1>1 DEF first
<1>8. end - first + 1 = end - entry.offset
  BY <1>1, <1>4 DEF first
<1>9. \A i \in 1 .. (IF first <= end THEN end - entry.offset ELSE 0) :
        SubSeq(content, first, end)[i] = content[entry.offset + i]
  <2> SUFFICES ASSUME NEW i \in 1 .. (IF first <= end THEN end - entry.offset ELSE 0)
               PROVE  SubSeq(content, first, end)[i] = content[entry.offset + i]
    OBVIOUS
  <2>1. i \in Int /\ i \in 1 .. end - first + 1
    BY <1>1, <1>4, <1>8
  <2>2. SubSeq(content, first, end)[i] = content[first + i - 1]
    BY <1>6, <2>1
  <2> QED
    BY <1>7, <2>1, <2>2
<1> QED
  BY <1>6, <1>8, <1>9 DEF end, first

(* The program starts with the invariant, and starts again with it. *)
LEMMA InvInit == Init => Inv
<1> SUFFICES ASSUME Init PROVE Inv
  OBVIOUS
<1>1. <<>> \in Seq(Byte)
  BY EmptySeq
<1>2. TypeOK
  BY <1>1 DEF Init, TypeOK, NoAnswer
<1>3. EntriesMatchOrigin
  BY DEF Init, EntriesMatchOrigin
<1>4. WrittenBytesIntact
  BY DEF Init, WrittenBytesIntact
<1> QED
  BY <1>2, <1>3, <1>4 DEF Inv

LEMMA InvRestart == Restart => Inv'
<1> SUFFICES ASSUME Restart PROVE Inv'
  OBVIOUS
<1>1. <<>> \in Seq(Byte)
  BY EmptySeq
<1>2. TypeOK'
  BY <1>1 DEF Restart, TypeOK, NoAnswer
<1>3. EntriesMatchOrigin'
  BY DEF Restart, EntriesMatchOrigin
<1>4. WrittenBytesIntact'
  BY DEF Restart, WrittenBytesIntact
<1> QED
  BY <1>2, <1>3, <1>4 DEF Inv

(* A read changes nothing but the answer. *)
LEMMA InvRead ==
  ASSUME Inv, NEW key \in Key, ReadFound(key) \/ ReadNotFound(key)
  PROVE  Inv'
<1>1. UNCHANGED <<opened_files, stored, origin>>
  BY DEF ReadFound, ReadNotFound
<1>2. answer' \in [status: {"NONE", "OK", "CLIENT_ERROR"}, body: Seq(Byte)]
  <2>1. CASE ReadFound(key)
    <3>1. stored[key] \in FileStorage
      BY <2>1 DEF ReadFound, Inv, TypeOK
    <3>2. opened_files[stored[key].file] \in Seq(Byte)
      BY <3>1 DEF Inv, TypeOK, FileStorage
    <3>3. Slice(stored[key]) \in Seq(Byte)
      BY <3>1, <3>2, SliceProperties DEF Slice
    <3> QED
      BY <2>1, <3>3 DEF ReadFound
  <2>2. CASE ReadNotFound(key)
    <3>1. <<>> \in Seq(Byte)
      BY EmptySeq
    <3> QED
      BY <2>2, <3>1 DEF ReadNotFound
  <2> QED
    BY <2>1, <2>2
<1>3. TypeOK'
  BY <1>1, <1>2 DEF Inv, TypeOK
<1>4. EntriesMatchOrigin'
  BY <1>1 DEF Inv, EntriesMatchOrigin
<1>5. WrittenBytesIntact'
  BY <1>1 DEF Inv, WrittenBytesIntact
<1> QED
  BY <1>3, <1>4, <1>5 DEF Inv

(* A write leaves every file but one alone and appends to that one. *)
LEMMA FileGrows ==
  ASSUME TypeOK, NEW key \in Key, NEW data \in Value,
         NEW accepted \in 0 .. RecordSize(data), Write(key, data, accepted), NEW f \in File
  PROVE  /\ opened_files'[f] \in Seq(Byte)
         /\ Len(opened_files[f]) \in Nat
         /\ Len(opened_files'[f]) \in Nat
         /\ Len(opened_files[f]) <= Len(opened_files'[f])
         /\ \A i \in 1 .. Len(opened_files[f]) : opened_files'[f][i] = opened_files[f][i]
<1> DEFINE old == opened_files[hash(key)]
           new == old \o SubSeq(Record(data), 1, accepted)
<1>1. opened_files' = [opened_files EXCEPT ![hash(key)] = new]
  BY DEF Write
<1>2. opened_files[f] \in Seq(Byte) /\ Len(opened_files[f]) \in Nat
  BY LenProperties DEF TypeOK
<1>3. CASE f = hash(key)
  <2>1. opened_files'[f] = new
    BY <1>1, <1>3 DEF TypeOK
  <2>2. /\ new \in Seq(Byte)
        /\ Len(new) = Len(old) + accepted
        /\ \A i \in 1 .. Len(old) : new[i] = old[i]
    BY FileAppended
  <2>3. accepted \in Nat
    BY RecordSizeType
  <2> HIDE DEF new
  <2> QED
    BY <1>2, <1>3, <2>1, <2>2, <2>3
<1>4. CASE f # hash(key)
  <2>1. opened_files'[f] = opened_files[f]
    BY <1>1, <1>4 DEF TypeOK
  <2> QED
    BY <1>2, <2>1
<1> QED
  BY <1>3, <1>4

(* A write never changes an entry, and makes one for its own key only: it  *)
(* starts where the file ended, and the bytes accepted are in its place.   *)
LEMMA EntryKept ==
  ASSUME TypeOK, EntriesMatchOrigin, NEW key \in Key, NEW data \in Value,
         NEW accepted \in 0 .. RecordSize(data), Write(key, data, accepted), NEW k \in Key
  PROVE  /\ stored[k] # NULL => stored'[k] = stored[k] /\ origin'[k] = origin[k]
         /\ (stored[k] = NULL /\ k # key) => stored'[k] = NULL /\ origin'[k] = NULL
         /\ (stored[k] = NULL /\ k = key) =>
              /\ stored'[k] = [size |-> RecordSize(data),
                               offset |-> Len(opened_files[hash(key)]),
                               file |-> hash(key)]
              /\ origin'[k] = [data |-> data, accepted |-> accepted]
<1> DEFINE storage == [size |-> RecordSize(data), offset |-> Len(opened_files[hash(key)]),
                       file |-> hash(key)]
<1>1. stored' = [stored EXCEPT ![key] = IF stored[key] = NULL THEN storage ELSE stored[key]]
  BY DEF Write, InsertEntry, StoredSize, SeekEnd
<1>2. origin' = [origin EXCEPT ![key] =
                   IF origin[key] = NULL THEN [data |-> data, accepted |-> accepted]
                   ELSE origin[key]]
  BY DEF Write
<1>3. stored[k] = NULL <=> origin[k] = NULL
  BY DEF EntriesMatchOrigin
<1> HIDE DEF storage
<1>4. /\ k # key => stored'[k] = stored[k] /\ origin'[k] = origin[k]
      /\ k = key => /\ stored'[k] = IF stored[k] = NULL THEN storage ELSE stored[k]
                    /\ origin'[k] = IF origin[k] = NULL
                                      THEN [data |-> data, accepted |-> accepted] ELSE origin[k]
  BY <1>1, <1>2 DEF TypeOK
<1> QED
  BY <1>3, <1>4 DEF storage

(* A write keeps the invariant, however much of the record was accepted. *)
LEMMA InvWrite ==
  ASSUME Inv, NEW key \in Key, NEW data \in Value, NEW accepted \in 0 .. RecordSize(data),
         Write(key, data, accepted)
  PROVE  Inv'
<1> DEFINE storage == [size |-> RecordSize(data), offset |-> Len(opened_files[hash(key)]),
                       file |-> hash(key)]
           source == [data |-> data, accepted |-> accepted]
<1> USE DEF Inv
<1>1. storage \in FileStorage /\ source \in Origin
  BY NewEntryType DEF StoredSize, SeekEnd
<1>2. storage # NULL /\ source # NULL
  BY <1>1, DatabaseAssumption
<1>3. RecordSize(data) \in Nat /\ accepted \in Nat /\ accepted <= RecordSize(data)
  BY RecordSizeType
<1>4. TypeOK'
  <2>1. opened_files' \in [File -> Seq(Byte)]
    <3>1. DOMAIN opened_files' = File /\ opened_files' = [f \in File |-> opened_files'[f]]
      BY DEF Write, TypeOK
    <3>2. \A f \in File : opened_files'[f] \in Seq(Byte)
      BY FileGrows
    <3> QED
      BY <3>1, <3>2
  <2>2. /\ stored' \in [Key -> FileStorage \cup {NULL}]
        /\ origin' \in [Key -> Origin \cup {NULL}]
    <3>1. /\ stored' = [k \in Key |-> stored'[k]]
          /\ origin' = [k \in Key |-> origin'[k]]
      BY DEF Write, TypeOK
    <3>2. \A k \in Key : stored'[k] \in FileStorage \cup {NULL} /\ origin'[k] \in Origin \cup {NULL}
      BY <1>1, EntryKept DEF TypeOK
    <3> QED
      BY <3>1, <3>2
  <2>3. answer' \in [status: {"NONE", "OK", "CLIENT_ERROR"}, body: Seq(Byte)]
    <3>1. <<>> \in Seq(Byte)
      BY EmptySeq
    <3> QED
      BY <3>1 DEF Write
  <2> QED
    BY <2>1, <2>2, <2>3 DEF TypeOK
<1>5. EntriesMatchOrigin'
  <2> SUFFICES ASSUME NEW k \in Key
               PROVE  /\ stored'[k] = NULL <=> origin'[k] = NULL
                      /\ stored'[k] # NULL =>
                           /\ stored'[k].size = RecordSize(origin'[k].data)
                           /\ stored'[k].file = hash(k)
                           /\ origin'[k].accepted <= stored'[k].size
    BY DEF EntriesMatchOrigin, hash, RecordSize, HeaderSize
  <2>1. CASE stored[k] # NULL
    BY <2>1, EntryKept DEF EntriesMatchOrigin
  <2>2. CASE stored[k] = NULL /\ k # key
    BY <2>2, EntryKept
  <2>3. CASE stored[k] = NULL /\ k = key
    <3>1. stored'[k] = storage /\ origin'[k] = source
      BY <2>3, EntryKept
    <3> QED
      BY <1>2, <1>3, <2>3, <3>1
  <2> QED
    BY <2>1, <2>2, <2>3
<1>6. WrittenBytesIntact'
  <2> SUFFICES ASSUME NEW k \in Key, stored'[k] # NULL
               PROVE  /\ stored'[k].offset + origin'[k].accepted
                           <= Len(opened_files'[stored'[k].file])
                      /\ \A i \in 1 .. origin'[k].accepted :
                           opened_files'[stored'[k].file][stored'[k].offset + i]
                             = Record(origin'[k].data)[i]
    BY DEF WrittenBytesIntact, Record, RecordSize, HeaderSize
  <2>1. CASE stored[k] # NULL
    <3> DEFINE s == stored[k]  o == origin[k]
    <3>1. stored'[k] = s /\ origin'[k] = o
      BY <2>1, EntryKept
    <3>2. s \in FileStorage /\ o \in Origin
      BY <2>1 DEF TypeOK, EntriesMatchOrigin
    <3>3. s.offset \in Nat /\ s.file \in File /\ o.accepted \in Nat
      BY <3>2 DEF FileStorage, Origin
    <3>4. /\ s.offset + o.accepted <= Len(opened_files[s.file])
          /\ \A i \in 1 .. o.accepted :
               opened_files[s.file][s.offset + i] = Record(o.data)[i]
      BY <2>1, Zenon DEF WrittenBytesIntact
    <3>5. /\ Len(opened_files[s.file]) \in Nat
          /\ Len(opened_files'[s.file]) \in Nat
          /\ Len(opened_files[s.file]) <= Len(opened_files'[s.file])
          /\ \A i \in 1 .. Len(opened_files[s.file]) :
               opened_files'[s.file][i] = opened_files[s.file][i]
      BY <3>3, FileGrows
    <3> HIDE DEF s, o
    <3>6. \A i \in 1 .. o.accepted : s.offset + i \in 1 .. Len(opened_files[s.file])
      BY <3>3, <3>4, <3>5
    <3>7. s.offset + o.accepted <= Len(opened_files'[s.file])
      BY <3>3, <3>4, <3>5
    <3>8. \A i \in 1 .. o.accepted :
             opened_files'[s.file][s.offset + i] = Record(o.data)[i]
      BY <3>4, <3>5, <3>6
    <3> QED
      BY <3>1, <3>7, <3>8
  <2>2. CASE stored[k] = NULL /\ k = key
    <3> DEFINE old == opened_files[hash(key)]
               new == old \o SubSeq(Record(data), 1, accepted)
    <3>1. stored'[k] = storage /\ origin'[k] = source
      BY <2>2, EntryKept
    <3>2. opened_files'[hash(key)] = new
      BY HashType DEF Write, TypeOK
    <3>3. /\ Len(old) \in Nat
          /\ Len(new) = Len(old) + accepted
          /\ \A i \in 1 .. accepted : new[Len(old) + i] = Record(data)[i]
      BY FileAppended
    <3> HIDE DEF new
    <3>4. /\ stored'[k].offset = Len(old) /\ stored'[k].file = hash(key)
          /\ origin'[k].accepted = accepted /\ origin'[k].data = data
      BY <3>1
    <3> HIDE DEF old, storage, source
    <3>5. stored'[k].offset + origin'[k].accepted <= Len(opened_files'[stored'[k].file])
      BY <1>3, <3>2, <3>3, <3>4
    <3>6. \A i \in 1 .. accepted : opened_files'[hash(key)][Len(old) + i] = Record(data)[i]
      BY <3>2, <3>3
    <3> QED
      BY <3>4, <3>5, <3>6
  <2>3. stored[k] # NULL \/ k = key
    BY EntryKept
  <2> QED
    BY <2>1, <2>2, <2>3
<1> QED
  BY <1>4, <1>5, <1>6

(* Every step of the program keeps the invariant. *)
LEMMA InvNext == Inv /\ [Next]_vars => Inv'
<1> SUFFICES ASSUME Inv, [Next]_vars PROVE Inv'
  OBVIOUS
<1>1. CASE \E key \in Key, data \in Value :
             \E accepted \in 0 .. RecordSize(data) : Write(key, data, accepted)
  BY <1>1, InvWrite
<1>2. CASE \E key \in Key : ReadFound(key) \/ ReadNotFound(key)
  BY <1>2, InvRead
<1>3. CASE Restart
  BY <1>3, InvRestart
<1>4. CASE UNCHANGED vars
  BY <1>4 DEF vars, Inv, TypeOK, EntriesMatchOrigin, WrittenBytesIntact
<1> QED
  BY <1>1, <1>2, <1>3, <1>4 DEF Next, Accepted

(* The invariant holds in every state the program reaches. *)
THEOREM Invariance == Spec => []Inv
<1>1. Init => Inv
  BY InvInit
<1>2. Inv /\ [Next]_vars => Inv'
  BY InvNext
<1> QED
  BY <1>1, <1>2, PTL DEF Spec

(* The variables keep their types. *)
THEOREM TypeCorrect == Spec => []TypeOK
<1>1. Inv => TypeOK
  BY DEF Inv
<1> QED
  BY <1>1, Invariance, PTL

(* Whatever was written since, and however short the writes were, the      *)
(* bytes write(2) accepted for a key are where its index entry says.       *)
THEOREM WrittenBytesStayIntact == Spec => []WrittenBytesIntact
<1>1. Inv => WrittenBytesIntact
  BY DEF Inv
<1> QED
  BY <1>1, Invariance, PTL
-----------------------------------------------------------------------------
(* Two keys never share bytes. *)

(* A new entry starts where the file ended, which is after the bytes of    *)
(* every other entry.                                                      *)
LEMMA OrderedWrite ==
  ASSUME Inv, EntriesOrdered, NEW key \in Key, NEW data \in Value,
         NEW accepted \in 0 .. RecordSize(data), Write(key, data, accepted)
  PROVE  EntriesOrdered'
<1> DEFINE end == Len(opened_files[hash(key)])
<1>1. ASSUME NEW k \in Key, stored[k] # NULL, hash(k) = hash(key)
      PROVE  stored[k].offset + origin[k].accepted <= end
  <2>1. stored[k].file = hash(key)
    BY <1>1 DEF Inv, EntriesMatchOrigin
  <2> QED
    BY <1>1, <2>1 DEF Inv, WrittenBytesIntact
<1>2. Inv'
  BY InvWrite
<1>3. ASSUME NEW k \in Key, stored'[k] # NULL
      PROVE  stored'[k].file = hash(k)
  BY <1>2, <1>3 DEF Inv, EntriesMatchOrigin, hash
<1> SUFFICES ASSUME NEW j \in Key, NEW k \in Key, j # k,
                    stored'[j] # NULL, stored'[k] # NULL, stored'[j].file = stored'[k].file
             PROVE  \/ stored'[j].offset + origin'[j].accepted <= stored'[k].offset
                    \/ stored'[k].offset + origin'[k].accepted <= stored'[j].offset
  BY DEF EntriesOrdered
<1>4. hash(j) = hash(k)
  BY <1>3
<1>5. CASE stored[j] # NULL /\ stored[k] # NULL
  BY <1>5, EntryKept DEF Inv, EntriesOrdered
<1>6. CASE stored[j] # NULL /\ stored[k] = NULL
  <2>1. k = key
    BY <1>6, EntryKept DEF Inv
  <2>2. stored'[k].offset = end
    <3>1. stored'[k] = [size |-> RecordSize(data), offset |-> end, file |-> hash(key)]
      BY <1>6, <2>1, EntryKept DEF Inv
    <3> QED
      BY <3>1
  <2>3. stored'[j] = stored[j] /\ origin'[j] = origin[j]
    BY <1>6, EntryKept DEF Inv
  <2> QED
    BY <1>1, <1>4, <1>6, <2>1, <2>2, <2>3
<1>7. CASE stored[j] = NULL
  <2>1. j = key
    BY <1>7, EntryKept DEF Inv
  <2>2. stored'[j].offset = end
    <3>1. stored'[j] = [size |-> RecordSize(data), offset |-> end, file |-> hash(key)]
      BY <1>7, <2>1, EntryKept DEF Inv
    <3> QED
      BY <3>1
  <2>3. stored[k] # NULL
    BY <2>1, EntryKept DEF Inv
  <2>4. stored'[k] = stored[k] /\ origin'[k] = origin[k]
    BY <2>3, EntryKept DEF Inv
  <2> QED
    BY <1>1, <1>4, <2>1, <2>2, <2>3, <2>4
<1> QED
  BY <1>5, <1>6, <1>7

LEMMA OrderedNext == Inv /\ EntriesOrdered /\ [Next]_vars => EntriesOrdered'
<1> SUFFICES ASSUME Inv, EntriesOrdered, [Next]_vars PROVE EntriesOrdered'
  OBVIOUS
<1>1. CASE \E key \in Key, data \in Value :
             \E accepted \in 0 .. RecordSize(data) : Write(key, data, accepted)
  BY <1>1, OrderedWrite
<1>2. CASE \E key \in Key : ReadFound(key) \/ ReadNotFound(key)
  BY <1>2 DEF ReadFound, ReadNotFound, EntriesOrdered
<1>3. CASE Restart
  BY <1>3 DEF Restart, EntriesOrdered
<1>4. CASE UNCHANGED vars
  BY <1>4 DEF vars, EntriesOrdered
<1> QED
  BY <1>1, <1>2, <1>3, <1>4 DEF Next, Accepted

(* Bytes accepted for two keys never share a position of a file.           *)
THEOREM KeysNeverShareBytes == Spec => []EntriesDisjoint
<1>1. Init => EntriesOrdered
  BY DEF Init, EntriesOrdered
<1>2. Inv /\ EntriesOrdered => EntriesDisjoint
  <2> SUFFICES ASSUME Inv, EntriesOrdered,
                      NEW j \in Key, NEW k \in Key, j # k, stored[j] # NULL, stored[k] # NULL,
                      stored[j].file = stored[k].file
               PROVE  Extent(j) \cap Extent(k) = {}
    BY DEF EntriesDisjoint
  <2>1. /\ stored[j].offset \in Nat /\ stored[k].offset \in Nat
        /\ origin[j].accepted \in Nat /\ origin[k].accepted \in Nat
    BY DEF Inv, TypeOK, EntriesMatchOrigin, FileStorage, Origin
  <2>2. \/ stored[j].offset + origin[j].accepted <= stored[k].offset
        \/ stored[k].offset + origin[k].accepted <= stored[j].offset
    BY DEF EntriesOrdered
  <2> QED
    BY <2>1, <2>2 DEF Extent
<1> QED
  BY <1>1, <1>2, OrderedNext, Invariance, InvInit, InvNext, PTL DEF Spec

-----------------------------------------------------------------------------
(* What a client has read stays what it was. *)

(* The number of bytes sendfile sends of a file of n bytes.                *)
SentLength(offset, size, n) ==
  LET last == IF offset + size <= n THEN offset + size ELSE n
  IN  IF offset + 1 <= last THEN last - offset ELSE 0

(* A longer file never makes for fewer bytes.                              *)
LEMMA SentLengthGrows ==
  ASSUME NEW offset \in Nat, NEW size \in Nat, NEW m \in Nat, NEW n \in Nat, m <= n
  PROVE  /\ SentLength(offset, size, m) \in Nat
         /\ SentLength(offset, size, n) \in Nat
         /\ SentLength(offset, size, m) <= SentLength(offset, size, n)
         /\ \A i \in 1 .. SentLength(offset, size, m) : offset + i \in 1 .. m
BY DEF SentLength

(* What is sent of a file that has grown starts with what was sent of it.  *)
LEMMA SentGrows ==
  ASSUME NEW old \in Seq(Byte), NEW new \in Seq(Byte), NEW entry \in FileStorage,
         Len(old) <= Len(new), \A i \in 1 .. Len(old) : new[i] = old[i]
  PROVE  LET sent(content) ==
               SubSeq(content, entry.offset + 1,
                      IF entry.offset + entry.size <= Len(content)
                        THEN entry.offset + entry.size ELSE Len(content))
         IN  StartsWith(sent(new), sent(old))
<1> DEFINE sent(content) ==
             SubSeq(content, entry.offset + 1,
                    IF entry.offset + entry.size <= Len(content)
                      THEN entry.offset + entry.size ELSE Len(content))
           length(content) == SentLength(entry.offset, entry.size, Len(content))
<1>1. entry.size \in Nat /\ entry.offset \in Nat /\ Len(old) \in Nat /\ Len(new) \in Nat
  BY LenProperties DEF FileStorage
<1>2. /\ Len(sent(new)) = length(new)
      /\ \A i \in 1 .. length(new) : sent(new)[i] = new[entry.offset + i]
  BY SliceProperties DEF SentLength
<1>3. /\ Len(sent(old)) = length(old)
      /\ \A i \in 1 .. length(old) : sent(old)[i] = old[entry.offset + i]
  BY SliceProperties DEF SentLength
<1>4. /\ length(old) \in Nat /\ length(new) \in Nat /\ length(old) <= length(new)
      /\ \A i \in 1 .. length(old) : entry.offset + i \in 1 .. Len(old)
  BY <1>1, SentLengthGrows
<1> HIDE DEF sent, length
<1>5. \A i \in 1 .. length(old) : sent(new)[i] = sent(old)[i]
  <2> TAKE i \in 1 .. length(old)
  <2>1. i \in 1 .. length(new)
    BY <1>4
  <2> QED
    BY <1>2, <1>3, <1>4, <2>1
<1>6. StartsWith(sent(new), sent(old))
  BY <1>2, <1>3, <1>4, <1>5 DEF StartsWith
<1> QED
  BY <1>6 DEF sent

LEMMA StableWrite ==
  ASSUME Inv, NEW key \in Key, NEW data \in Value,
         NEW accepted \in 0 .. RecordSize(data), Write(key, data, accepted),
         NEW k \in Key, stored'[k] # NULL
  PROVE  StartsWith(Readable(k)', Readable(k))
<1>1. Inv'
  BY InvWrite
<1>2. stored'[k] \in FileStorage
  BY <1>1 DEF Inv, TypeOK
<1> DEFINE s == stored'[k]
           old == opened_files[s.file]
           new == opened_files'[s.file]
<1>3. s.file \in File
  BY <1>2 DEF FileStorage
<1>4. old \in Seq(Byte) /\ new \in Seq(Byte)
  BY <1>1, <1>3 DEF Inv, TypeOK
<1>5. CASE stored[k] = NULL
  <2>1. Readable(k) = <<>> /\ Len(<<>>) = 0
    BY <1>5, EmptySeq DEF Readable
  <2>2. Readable(k)' \in Seq(Byte)
    BY <1>2, <1>4, SliceProperties DEF Readable, Slice
  <2>3. Len(Readable(k)') \in Nat
    BY <2>2, LenProperties
  <2> QED
    BY <2>1, <2>3 DEF StartsWith
<1>6. CASE stored[k] # NULL
  <2>1. stored[k] = s
    BY <1>6, EntryKept DEF Inv
  <2>2. Len(old) <= Len(new) /\ \A i \in 1 .. Len(old) : new[i] = old[i]
    BY <1>3, FileGrows DEF Inv
  <2> QED
    BY <1>2, <1>4, <1>6, <2>1, <2>2, SentGrows DEF Readable, Slice
<1> QED
  BY <1>5, <1>6

(* A read of a key sends a prefix of what every later read of it sends,    *)
(* until the program is started again.                                     *)
THEOREM ReadsStayStable == Spec => ReadsAreStable
<1> DEFINE Stable == \A k \in Key : stored'[k] # NULL => StartsWith(Readable(k)', Readable(k))
<1>1. Inv /\ [Next]_vars => [Stable]_vars
  <2> SUFFICES ASSUME Inv, Next PROVE Stable
    OBVIOUS
  <2>1. CASE \E key \in Key, data \in Value :
               \E accepted \in 0 .. RecordSize(data) : Write(key, data, accepted)
    BY <2>1, StableWrite
  <2>2. CASE \E key \in Key : ReadFound(key) \/ ReadNotFound(key)
    <3> SUFFICES ASSUME NEW k \in Key, stored'[k] # NULL
                 PROVE  StartsWith(Readable(k)', Readable(k))
      OBVIOUS
    <3>1. UNCHANGED <<opened_files, stored>>
      BY <2>2 DEF ReadFound, ReadNotFound
    <3>2. Readable(k)' = Readable(k)
      BY <3>1 DEF Readable, Slice
    <3>3. stored[k] \in FileStorage /\ opened_files[stored[k].file] \in Seq(Byte)
      BY <3>1 DEF Inv, TypeOK, FileStorage
    <3>4. Readable(k) \in Seq(Byte)
      BY <3>1, <3>3, SliceProperties DEF Readable, Slice
    <3>5. Len(Readable(k)) \in Nat
      BY <3>4, LenProperties
    <3> QED
      BY <3>2, <3>5 DEF StartsWith
  <2>3. CASE Restart
    BY <2>3 DEF Restart
  <2> QED
    BY <2>1, <2>2, <2>3 DEF Next, Accepted
<1> QED
  BY <1>1, Invariance, PTL DEF Spec, ReadsAreStable
-----------------------------------------------------------------------------
(* The database implements the map. *)

(* The value the map holds for a key, and the one that is read of it.      *)
Current(k) == IF origin[k] = NULL \/ k \in Damaged THEN NULL ELSE origin[k].data
Held(k) == IF k \in Damaged THEN NULL ELSE Decode(Readable(k))

(* Records of different values differ in their first byte. *)
LEMMA DecodeRecord ==
  ASSUME NEW data \in Value
  PROVE  Decode(Record(data)) = data
<1>1. \A v \in Value : Record(v)[1] = <<v, 1>>
  BY RecordProperties, RecordSizeType
<1>2. \A v \in Value : Record(data) = Record(v) => v = data
  BY <1>1
<1> QED
  BY <1>2 DEF Decode

(* No bytes are no value's record. *)
LEMMA DecodeNothing == Decode(<<>>) = NULL
<1>1. \A v \in Value : Len(Record(v)) >= 4
  BY RecordProperties, RecordSizeType
<1>2. Len(<<>>) = 0
  BY EmptySeq
<1> QED
  BY <1>1, <1>2 DEF Decode

(* An entry whose record was accepted in full is read back in full. *)
LEMMA SliceIsRecord ==
  ASSUME Inv, NEW k \in Key, stored[k] # NULL, k \notin Damaged
  PROVE  Slice(stored[k]) = Record(origin[k].data) /\ origin[k].data \in Value
<1> DEFINE s == stored[k]
           content == opened_files[s.file]
           data == origin[k].data
<1>1. s \in FileStorage /\ data \in Value
  BY DEF Inv, TypeOK, EntriesMatchOrigin, Origin
<1>2. s.offset \in Nat /\ s.size \in Nat /\ content \in Seq(Byte)
  BY <1>1 DEF Inv, TypeOK, FileStorage
<1>3. /\ s.size = RecordSize(data) /\ origin[k].accepted = s.size
      /\ s.offset + s.size <= Len(content)
      /\ \A i \in 1 .. s.size : content[s.offset + i] = Record(data)[i]
  <2>1. RecordSize(data) \in Nat /\ origin[k].accepted \in Nat
    BY <1>1, RecordSizeType DEF Inv, TypeOK, EntriesMatchOrigin, Origin
  <2>2. s.size = RecordSize(data) /\ origin[k].accepted <= s.size
    BY DEF Inv, EntriesMatchOrigin
  <2>3. ~(origin[k].accepted < RecordSize(data))
    BY DEF Damaged
  <2>4. origin[k].accepted = s.size
    BY <2>1, <2>2, <2>3
  <2> QED
    BY <2>2, <2>4 DEF Inv, WrittenBytesIntact
<1>4. RecordSize(data) \in Nat /\ RecordSize(data) >= 4
  BY <1>1, RecordSizeType
<1>5. Len(content) \in Nat
  BY <1>2, LenProperties
<1>6. /\ Slice(s) \in Seq(Byte)
      /\ Len(Slice(s)) = SentLength(s.offset, s.size, Len(content))
      /\ \A i \in 1 .. SentLength(s.offset, s.size, Len(content)) :
           Slice(s)[i] = content[s.offset + i]
  BY <1>1, <1>2, SliceProperties DEF Slice, SentLength
<1> HIDE DEF s, content, data
<1>7. SentLength(s.offset, s.size, Len(content)) = s.size
  BY <1>2, <1>3, <1>4, <1>5 DEF SentLength
<1>8. Record(data) \in Seq(Byte) /\ Len(Record(data)) = RecordSize(data)
  BY <1>1, RecordProperties
<1>9. Len(Slice(s)) = Len(Record(data)) /\ \A i \in 1 .. Len(Slice(s)) : Slice(s)[i] = Record(data)[i]
  BY <1>3, <1>6, <1>7, <1>8
<1>10. Slice(s) = Record(data)
  BY <1>6, <1>8, <1>9, SeqEqual
<1> QED
  BY <1>1, <1>10 DEF s, data

(* The mapped map holds for every key the value of its entry. *)
LEMMA HeldIsCurrent == Inv => \A k \in Key : Held(k) = Current(k)
<1> SUFFICES ASSUME Inv, NEW k \in Key PROVE Held(k) = Current(k)
  OBVIOUS
<1>1. stored[k] = NULL <=> origin[k] = NULL
  BY DEF Inv, EntriesMatchOrigin
<1>2. CASE stored[k] = NULL
  BY <1>1, <1>2, DecodeNothing DEF Readable, Current, Held
<1>3. CASE stored[k] # NULL
  BY <1>1, <1>3, SliceIsRecord, DecodeRecord DEF Readable, Current, Held
<1> QED
  BY <1>2, <1>3

(* What a write does to the map and to the keys that are damaged. *)
LEMMA WriteMaps ==
  ASSUME Inv, NEW key \in Key, NEW data \in Value, NEW accepted \in 0 .. RecordSize(data),
         Write(key, data, accepted)
  PROVE  /\ \A k \in Key : k # key \/ stored[key] # NULL =>
              Current(k)' = Current(k) /\ (k \in Damaged' <=> k \in Damaged)
         /\ stored[key] # NULL => key \in Damaged \/ Current(key) # NULL
         /\ stored[key] = NULL =>
              /\ key \notin Damaged /\ Current(key) = NULL
              /\ accepted < RecordSize(data) => key \in Damaged' /\ Current(key)' = NULL
              /\ accepted = RecordSize(data) => key \notin Damaged' /\ Current(key)' = data
<1>1. \A k \in Key : stored[k] = NULL <=> origin[k] = NULL
  BY DEF Inv, EntriesMatchOrigin
<1>2. \A k \in Key : stored'[k] = NULL <=> origin'[k] = NULL
  BY InvWrite DEF Inv, EntriesMatchOrigin
<1>3. \A d \in Value : RecordSize(d)' = RecordSize(d) /\ RecordSize(d) \in Nat
  BY RecordSizeType DEF RecordSize, HeaderSize
<1>4. ASSUME NEW k \in Key, k # key \/ stored[key] # NULL
      PROVE  Current(k)' = Current(k) /\ (k \in Damaged' <=> k \in Damaged)
  <2>1. CASE stored[k] = NULL
    <3>1. stored'[k] = NULL /\ origin'[k] = NULL
      BY <1>4, <2>1, EntryKept DEF Inv
    <3> QED
      BY <1>1, <2>1, <3>1 DEF Current, Damaged
  <2>2. CASE stored[k] # NULL
    <3>1. stored'[k] = stored[k] /\ origin'[k] = origin[k]
      BY <2>2, EntryKept DEF Inv
    <3>2. k \in Damaged' <=> k \in Damaged
      BY <3>1 DEF Damaged, RecordSize, HeaderSize
    <3> QED
      BY <3>1, <3>2 DEF Current
  <2> QED
    BY <2>1, <2>2
<1>5. ASSUME stored[key] # NULL, key \notin Damaged PROVE Current(key) # NULL
  <2>1. origin[key].data \in Value /\ origin[key] # NULL
    BY <1>1, <1>5, SliceIsRecord
  <2> QED
    BY <1>5, <2>1, DatabaseAssumption DEF Current
<1>6. ASSUME stored[key] = NULL
      PROVE  /\ key \notin Damaged /\ Current(key) = NULL
             /\ accepted < RecordSize(data) => key \in Damaged' /\ Current(key)' = NULL
             /\ accepted = RecordSize(data) => key \notin Damaged' /\ Current(key)' = data
  <2>1. key \notin Damaged /\ Current(key) = NULL
    BY <1>1, <1>6 DEF Damaged, Current
  <2>2. origin'[key] = [data |-> data, accepted |-> accepted]
    BY <1>6, EntryKept DEF Inv
  <2>3. origin'[key] # NULL /\ stored'[key] # NULL
    <3>1. [data |-> data, accepted |-> accepted] \in Origin
      BY NewEntryType DEF Inv
    <3> QED
      BY <1>2, <2>2, <3>1, DatabaseAssumption
  <2>4. key \in Damaged' <=> accepted < RecordSize(data)
    BY <2>2, <2>3 DEF Damaged, RecordSize, HeaderSize
  <2>5. RecordSize(data) \in Nat
    BY <1>3
  <2> QED
    BY <2>1, <2>2, <2>3, <2>4, <2>5 DEF Current
<1> QED
  BY <1>4, <1>5, <1>6

(* Every step of the database is a step of the map. *)
LEMMA StepImplements ==
  ASSUME Inv, [Next]_vars, Inv',
         \A k \in Key : Held(k) = Current(k),
         \A k \in Key : Held(k)' = Current(k)'
  PROVE  [KV!Next]_(KV!vars)
<1> DEFINE kv == [k \in Key |-> IF k \in Damaged THEN NULL ELSE Decode(Readable(k))]
<1>1. kv = [k \in Key |-> Current(k)] /\ kv' = [k \in Key |-> Current(k)']
  BY DEF Held
<1>2. ASSUME NEW key \in Key, NEW data \in Value,
             NEW accepted \in 0 .. RecordSize(data), Write(key, data, accepted)
      PROVE  KV!Put(key, data) \/ KV!PutCut(key)
  <2>1. /\ \A k \in Key : k # key \/ stored[key] # NULL =>
              Current(k)' = Current(k) /\ (k \in Damaged' <=> k \in Damaged)
        /\ stored[key] # NULL => key \in Damaged \/ Current(key) # NULL
        /\ stored[key] = NULL =>
              /\ key \notin Damaged /\ Current(key) = NULL
              /\ accepted < RecordSize(data) => key \in Damaged' /\ Current(key)' = NULL
              /\ accepted = RecordSize(data) => key \notin Damaged' /\ Current(key)' = data
    BY <1>2, WriteMaps
  <2>2. Damaged \subseteq Key /\ Damaged' \subseteq Key
    BY DEF Damaged
  <2>3. answer'.status = "OK" /\ answer'.body = <<>>
    BY <1>2 DEF Write
  <2>4. KV!Written = [status |-> answer'.status, body |-> Decode(answer'.body)]
    BY <2>3, DecodeNothing DEF KV!Written
  <2>5. CASE stored[key] # NULL
    <3>1. kv' = kv
      BY <1>1, <2>1, <2>5
    <3>2. Damaged' = Damaged
      BY <2>1, <2>2, <2>5
    <3>3. kv' = [kv EXCEPT ![key] = IF kv[key] = NULL /\ key \notin Damaged THEN data ELSE kv[key]]
      BY <1>1, <2>1, <2>5, <3>1
    <3> QED
      BY <2>4, <3>2, <3>3 DEF KV!Put, Decode
  <2>6. CASE stored[key] = NULL /\ accepted = RecordSize(data)
    <3>1. Damaged' = Damaged
      BY <2>1, <2>2, <2>6
    <3>2. kv' = [kv EXCEPT ![key] = IF kv[key] = NULL /\ key \notin Damaged THEN data ELSE kv[key]]
      BY <1>1, <2>1, <2>6
    <3> QED
      BY <2>4, <3>1, <3>2 DEF KV!Put, Decode
  <2>7. CASE stored[key] = NULL /\ accepted < RecordSize(data)
    <3>1. Damaged' = Damaged \cup {key}
      BY <2>1, <2>2, <2>7
    <3>2. kv' = kv /\ kv[key] = NULL
      BY <1>1, <2>1, <2>7
    <3> QED
      BY <2>1, <2>4, <2>7, <3>1, <3>2 DEF KV!PutCut, Decode
  <2>8. accepted = RecordSize(data) \/ accepted < RecordSize(data)
    BY RecordSizeType
  <2> QED
    BY <2>5, <2>6, <2>7, <2>8
<1>3. ASSUME NEW key \in Key, ReadFound(key)
      PROVE  KV!GetFound(key) \/ KV!GetDamaged(key)
  <2>1. UNCHANGED <<opened_files, stored, origin>>
    BY <1>3 DEF ReadFound
  <2>2. Damaged' = Damaged
    BY <2>1 DEF Damaged, RecordSize, HeaderSize
  <2>3. kv' = kv
    BY <1>1, <2>1, <2>2 DEF Current
  <2>4. answer'.status = "OK" /\ answer'.body = Readable(key)
    BY <1>3 DEF ReadFound, Readable
  <2>5. CASE key \in Damaged
    BY <2>2, <2>3, <2>4, <2>5 DEF KV!GetDamaged
  <2>6. CASE key \notin Damaged
    <3>1. kv[key] = Decode(Readable(key))
      BY <2>6
    <3>2. kv[key] # NULL
      <4>1. origin[key] # NULL
        BY <1>3 DEF ReadFound, Inv, EntriesMatchOrigin
      <4>2. origin[key].data \in Value
        BY <1>3, <2>6, SliceIsRecord DEF ReadFound
      <4>3. Current(key) = origin[key].data
        BY <2>6, <4>1 DEF Current
      <4>4. kv[key] = Current(key)
        BY <1>1
      <4> QED
        BY <4>2, <4>3, <4>4, DatabaseAssumption
    <3> QED
      BY <2>2, <2>3, <2>4, <3>1, <3>2 DEF KV!GetFound, Decode
  <2> QED
    BY <2>5, <2>6
<1>4. ASSUME NEW key \in Key, ReadNotFound(key)
      PROVE  KV!GetMissing(key)
  <2>1. UNCHANGED <<opened_files, stored, origin>>
    BY <1>4 DEF ReadNotFound
  <2>2. Damaged' = Damaged /\ key \notin Damaged
    BY <1>4, <2>1 DEF Damaged, RecordSize, HeaderSize, ReadNotFound
  <2>3. kv' = kv
    BY <1>1, <2>1, <2>2 DEF Current
  <2>4. answer'.status = "CLIENT_ERROR" /\ answer'.body = <<>>
    BY <1>4 DEF ReadNotFound
  <2>5. kv[key] = NULL
    BY <1>4, DecodeNothing DEF ReadNotFound, Readable
  <2> QED
    BY <2>2, <2>3, <2>4, <2>5, DecodeNothing DEF KV!GetMissing
<1>5. CASE Restart
  <2>1. Damaged' = {} /\ \A k \in Key : Current(k)' = NULL
    BY <1>5 DEF Restart, Current, Damaged
  <2>2. kv' = [k \in Key |-> NULL]
    BY <1>1, <2>1
  <2>3. answer'.status = "NONE" /\ answer'.body = <<>>
    BY <1>5 DEF Restart, NoAnswer
  <2> QED
    BY <2>1, <2>2, <2>3, DecodeNothing DEF KV!Next, KV!Restart
<1>6. CASE UNCHANGED vars
  <2>1. Damaged' = Damaged
    BY <1>6 DEF vars, Damaged, RecordSize, HeaderSize
  <2>2. kv' = kv /\ answer' = answer
    BY <1>1, <1>6, <2>1 DEF vars, Current
  <2> QED
    BY <2>1, <2>2 DEF KV!vars, Decode
<1>7. CASE \E key \in Key, data \in Value :
             \E accepted \in 0 .. RecordSize(data) : Write(key, data, accepted)
  BY <1>2, <1>7 DEF KV!Next
<1>8. CASE \E key \in Key : ReadFound(key) \/ ReadNotFound(key)
  BY <1>3, <1>4, <1>8 DEF KV!Next
<1> QED
  BY <1>5, <1>6, <1>7, <1>8 DEF Next, Accepted

(* What clients see of the files and the index is the map of KVStore: a    *)
(* read is answered with the complete value the key was first given since  *)
(* the program started, and a write the device cut costs no other key.     *)
THEOREM DatabaseImplementsKVStore == Spec => ImplementsKVStore
<1>1. Init => Inv
  BY InvInit
<1>2. Init => KV!Init
  <2> SUFFICES ASSUME Init PROVE KV!Init
    OBVIOUS
  <2>1. Damaged = {} /\ \A k \in Key : Decode(Readable(k)) = NULL
    BY DecodeNothing DEF Init, Readable, Damaged
  <2> QED
    BY <2>1, DecodeNothing DEF Init, NoAnswer, KV!Init
<1>3. Inv /\ [Next]_vars => Inv'
  BY InvNext
<1> DEFINE Mapped == \A k \in Key : Held(k) = Current(k)
<1>4. Inv => Mapped
  BY HeldIsCurrent
<1>5. Inv /\ Mapped /\ [Next]_vars /\ Inv' /\ Mapped' => [KV!Next]_(KV!vars)
  BY StepImplements
<1> HIDE DEF Mapped
<1> QED
  BY <1>1, <1>2, <1>3, <1>4, <1>5, PTL DEF Spec, ImplementsKVStore, KV!Spec
=============================================================================
