-------------------------- MODULE FileStoreProofs ---------------------------
(* A record rewritten in place under a reader, proved for every set of        *)
(* records: what a torn or mixed file can and cannot make load return.  The   *)
(* checksum is written last, so a checksum in the file vouches for the whole  *)
(* file (Vouched), and one the reader has read for a record that was whole    *)
(* while it read (Witness).                                                   *)
EXTENDS FileStore, TLAPS

-----------------------------------------------------------------------------
(* The codec.                                                                 *)

(* The fields of the cells.                                                   *)
LEMMA CellFields ==
    /\ \A n : Length(n).kind = "length" /\ Length(n).length = n
    /\ \A part : Part(part).kind = "part" /\ Part(part).part = part
    /\ \A payload : /\ Checksum(payload).kind = "checksum"
                    /\ Checksum(payload).payload = payload
BY DEF Length, Part, Checksum

(* What encodeWorkload writes, cell by cell.                                  *)
LEMMA EncodeCells ==
    ASSUME NEW S, NEW payload \in Seq(S)
    PROVE  /\ Len(Encode(payload)) = Len(payload) + 2
           /\ Encode(payload) = [i \in 1..(Len(payload) + 2) |-> Encode(payload)[i]]
           /\ Encode(payload)[1] = Length(Len(payload))
           /\ \A i \in 1..Len(payload) : Encode(payload)[i + 1] = Part(payload[i])
           /\ Encode(payload)[Len(payload) + 2] = Checksum(payload)
<1> DEFINE n == Len(payload)
           parts == [i \in DOMAIN payload |-> Part(payload[i])]
           T == {Length(n), Checksum(payload)} \cup {Part(payload[i]) : i \in DOMAIN payload}
           front == <<Length(n)>> \o parts
<1>1. n \in Nat /\ DOMAIN payload = 1..n
  OBVIOUS
<1>2. /\ Length(n) \in T /\ Checksum(payload) \in T
      /\ \A i \in 1..n : Part(payload[i]) \in T
  BY <1>1
<1>3. parts = [i \in 1..n |-> Part(payload[i])]
  BY <1>1
<1> HIDE DEF parts, n, T
<1>4. parts \in Seq(T) /\ Len(parts) = n /\ \A i \in 1..n : parts[i] = Part(payload[i])
  BY <1>1, <1>2, <1>3
<1>5. /\ front \in Seq(T) /\ Len(front) = n + 1
      /\ front[1] = Length(n) /\ \A i \in 1..n : front[i + 1] = parts[i]
  BY <1>1, <1>2, <1>4
<1>6. Encode(payload) = front \o <<Checksum(payload)>>
  BY DEF Encode, parts, n
<1> HIDE DEF front
<1>7. /\ Encode(payload) \in Seq(T) /\ Len(Encode(payload)) = n + 2
      /\ Encode(payload)[n + 2] = Checksum(payload)
      /\ \A i \in 1..(n + 1) : Encode(payload)[i] = front[i]
  BY <1>1, <1>2, <1>5, <1>6
<1>8. /\ Encode(payload)[1] = Length(n)
      /\ \A i \in 1..n : Encode(payload)[i + 1] = Part(payload[i])
  BY <1>1, <1>4, <1>5, <1>7
<1>9. Encode(payload) = [i \in 1..(n + 2) |-> Encode(payload)[i]]
  BY <1>7
<1> QED
  BY <1>7, <1>8, <1>9 DEF n

(* The cells of a record are what a file may hold.                            *)
LEMMA EncodeType ==
    ASSUME NEW payload \in Seq(Parts)
    PROVE  Encode(payload) \in Seq(Cell)
<1> DEFINE n == Len(payload)
           e == Encode(payload)
<1>1. n \in Nat /\ \A i \in 1..n : payload[i] \in Parts
  OBVIOUS
<1>2. /\ e = [i \in 1..(n + 2) |-> e[i]]
      /\ e[1] = Length(n) /\ e[n + 2] = Checksum(payload)
      /\ \A i \in 1..n : e[i + 1] = Part(payload[i])
  BY EncodeCells
<1>3. Length(n) \in Cell
  BY <1>1 DEF Length, Cell
<1>4. Checksum(payload) \in Cell
  BY DEF Checksum, Cell
<1>5. \A i \in 1..n : Part(payload[i]) \in Cell
  <2>1. ASSUME NEW part \in Parts PROVE Part(part) \in Cell
    <3>1. <<>> \in Seq(Parts)
      OBVIOUS
    <3>2. part \in Parts \cup {"no part"}
      BY Zenon
    <3> QED
      BY <3>1, <3>2 DEF Part, Cell
  <2> QED
    BY <1>1, <2>1
<1> HIDE DEF n, e
<1>6. ASSUME NEW i \in 1..(n + 2) PROVE e[i] \in Cell
  <2>1. CASE i = 1 \/ i = n + 2
    BY <1>2, <1>3, <1>4, <2>1
  <2>2. CASE i # 1 /\ i # n + 2
    <3>1. i - 1 \in 1..n /\ i = (i - 1) + 1
      BY <1>1, <2>2
    <3>2. e[i] = Part(payload[i - 1])
      BY <1>2, <3>1
    <3> QED
      BY <1>5, <3>1, <3>2
  <2> QED
    BY <2>1, <2>2
<1> QED
  BY <1>1, <1>2, <1>6 DEF e

(* decodeWorkload undoes encodeWorkload.                                      *)
LEMMA DecodeEncode ==
    ASSUME NEW payload \in Seq(Parts)
    PROVE  Decode(Encode(payload)) = payload
<1> DEFINE n == Len(payload)
           e == Encode(payload)
<1>1. /\ e \in Seq(Cell) /\ Len(e) = n + 2 /\ n \in Nat
      /\ e[1] = Length(n) /\ \A i \in 1..n : e[i + 1] = Part(payload[i])
  BY EncodeCells, EncodeType
<1>2. payload = [i \in 1..n |-> payload[i]]
  OBVIOUS
<1> HIDE DEF e, n
<1>3. e[1].length = n
  BY <1>1, CellFields
<1>4. \A i \in 1..n : e[i + 1].part = payload[i]
  BY <1>1, CellFields
<1>5. Payload(e) = payload
  BY <1>2, <1>3, <1>4 DEF Payload
<1>6. SubSeq(e, 1, n + 2) = e
  BY <1>1
<1>7. Fits(e) /\ Intact(e)
  BY <1>1, <1>3, <1>5, <1>6 DEF Fits, Intact, e
<1> QED
  BY <1>5, <1>7 DEF Decode, e

(* What decodeWorkload accepts ends in its checksum.                          *)
LEMMA DecodedHasChecksum ==
    ASSUME NEW data \in Seq(Cell), Fits(data), Intact(data)
    PROVE  \E i \in 1..Len(data) : data[i] = Checksum(Payload(data))
<1> DEFINE n == data[1].length
           p == Payload(data)
           S == Parts \cup {"no part"}
<1>1. Len(data) \in Nat /\ \A i \in 1..Len(data) : data[i] \in Cell
  OBVIOUS
<1>2. data # <<>> /\ n + 2 <= Len(data)
  BY DEF Fits
<1>3. n \in Nat
  <2>1. data[1] \in Cell
    BY <1>1, <1>2
  <2> QED
    BY <2>1 DEF Cell
<1>4. \A i \in 1..n : data[i + 1].part \in S
  <2>1. \A i \in 1..n : data[i + 1] \in Cell
    BY <1>1, <1>2, <1>3
  <2> QED
    BY <2>1 DEF Cell
<1>5. p = [i \in 1..n |-> data[i + 1].part]
  BY DEF Payload
<1>6. SubSeq(data, 1, n + 2) = Encode(p)
  BY DEF Intact
<1> HIDE DEF n, p, S
<1>7. p \in Seq(S) /\ Len(p) = n
  BY <1>3, <1>4, <1>5
<1>8. Encode(p)[n + 2] = Checksum(p)
  BY <1>7, EncodeCells
<1>9. SubSeq(data, 1, n + 2)[n + 2] = data[n + 2]
  BY <1>1, <1>2, <1>3
<1>10. data[n + 2] = Checksum(p) /\ n + 2 \in 1..Len(data)
  BY <1>1, <1>2, <1>3, <1>6, <1>8, <1>9
<1> QED
  BY <1>10 DEF p

-----------------------------------------------------------------------------
(* The invariant.                                                             *)

(* What a load keeps.                                                         *)
LoadType ==
    [phase: {"NONE", "READING", "DONE"}, by: {"load", "wf_inspect"}, size: Nat,
     data: Seq(Cell), quiet: BOOLEAN, result: Records \cup {NoRecord}]

USE DEF LoadType

(* The type of the variables.                                                 *)
Typed ==
    /\ file \in Seq(Cell) /\ unsaved \in Seq(Cell)
    /\ saving \in Records \cup {NoRecord} /\ acked \in Records \cup {NoRecord}
    /\ damaged \in BOOLEAN
    /\ seen \subseteq Records
    /\ reader \in LoadType

(* The stream holds what the file lacks.                                      *)
Streamed == ~Idle => file \o unsaved = Encode(saving)

(* A checksum in the file is that of the record the file holds whole.         *)
Vouched ==
    \A i \in 1..Len(file) :
       file[i].kind = "checksum" => file[i].payload \in Whole(file)

(* The reader knows every record that is whole in the file, has read no       *)
(* checksum but theirs, and returned one of them.                             *)
Witness ==
    /\ Len(reader.data) <= reader.size
    /\ Reading => Whole(file) \subseteq seen
    /\ Reading => \A i \in 1..Len(reader.data) :
          reader.data[i].kind = "checksum" => reader.data[i].payload \in seen
    /\ reader.phase = "DONE" /\ reader.result # NoRecord => reader.result \in seen

(* A load no save ran into has the size and the beginning of the file.        *)
Undisturbed ==
    Reading /\ reader.quiet =>
       /\ Idle /\ file # NoFile /\ reader.size = Len(file)
       /\ \A i \in 1..Len(reader.data) : reader.data[i] = file[i]

FileInv == Typed /\ Streamed /\ AckedIsWhole /\ Vouched /\ Witness /\ Undisturbed

-----------------------------------------------------------------------------
(* The saving process.                                                        *)

(* A cell moves from the stream to the file.                                  *)
LEMMA MoveHead ==
    ASSUME NEW S, NEW s \in Seq(S), NEW t \in Seq(S), t # <<>>
    PROVE  /\ Append(s, Head(t)) \in Seq(S) /\ Tail(t) \in Seq(S)
           /\ Append(s, Head(t)) \o Tail(t) = s \o t
OBVIOUS

(* A beginning of a record that has its checksum is the record.               *)
LEMMA BeginningVouched ==
    ASSUME NEW payload \in Records, NEW f \in Seq(Cell), NEW g \in Seq(Cell),
           f \o g = Encode(payload),
           NEW i \in 1..Len(f), f[i].kind = "checksum"
    PROVE  f = Encode(payload) /\ f[i].payload = payload
<1> DEFINE n == Len(payload)
           e == Encode(payload)
<1>1. payload \in Seq(Parts) /\ n \in Nat
  BY RecordsAssumption
<1>2. /\ e \in Seq(Cell) /\ Len(e) = n + 2
      /\ e[1] = Length(n) /\ e[n + 2] = Checksum(payload)
      /\ \A k \in 1..n : e[k + 1] = Part(payload[k])
  BY <1>1, EncodeCells, EncodeType
<1> HIDE DEF n, e
<1>3. Len(f) \in Nat /\ Len(g) \in Nat /\ Len(f) + Len(g) = n + 2 /\ e[i] = f[i]
  BY <1>2 DEF e
<1>4. i = n + 2
  <2>1. i # 1
    BY <1>2, <1>3, CellFields
  <2>2. ASSUME i # n + 2 PROVE FALSE
    <3>1. i - 1 \in 1..n /\ i = (i - 1) + 1
      BY <1>1, <1>3, <2>1, <2>2
    <3>2. e[i] = Part(payload[i - 1])
      BY <1>2, <3>1
    <3> QED
      BY <1>3, <3>2, CellFields
  <2> QED
    BY <2>2
<1>5. Len(f) = n + 2 /\ g = <<>>
  BY <1>1, <1>3, <1>4
<1>6. f = e
  BY <1>5 DEF e
<1>7. f[i].payload = payload
  BY <1>2, <1>3, <1>4, CellFields
<1> QED
  BY <1>6, <1>7 DEF e

(* A file that holds a record, or none, does not hold the other.              *)
LEMMA RecordIsNoFile ==
    ASSUME NEW payload \in Records
    PROVE  Encode(payload) # NoFile
<1>1. payload \in Seq(Parts)
  BY RecordsAssumption
<1>2. Len(Encode(payload)) = Len(payload) + 2 /\ Len(payload) \in Nat
  BY <1>1, EncodeCells
<1>3. Len(NoFile) = 1
  BY DEF NoFile
<1> SUFFICES ASSUME Encode(payload) = NoFile PROVE FALSE
  OBVIOUS
<1>4. Len(payload) + 2 = 1
  BY <1>2, <1>3
<1> QED
  BY <1>2, <1>4

(* The file that is not there is a sequence of cells, too.                    *)
LEMMA NoFileType == NoFile \in Seq(Cell)
<1>1. <<>> \in Seq(Parts)
  OBVIOUS
<1>2. "no part" \in Parts \cup {"no part"}
  BY Zenon
<1> DEFINE c == [kind |-> "no file", length |-> 0, part |-> "no part", payload |-> <<>>]
<1>3. c \in Cell
  BY <1>1, <1>2 DEF Cell
<1>4. NoFile = <<c>>
  BY DEF NoFile
<1> HIDE DEF c
<1> QED
  BY <1>3, <1>4

(* No checksum is in a file that is not there.                                *)
LEMMA NoFileVouches ==
    \A i \in 1..Len(NoFile) : NoFile[i].kind # "checksum"
<1> DEFINE c == [kind |-> "no file", length |-> 0, part |-> "no part", payload |-> <<>>]
<1>1. c.kind # "checksum"
  OBVIOUS
<1>2. NoFile = <<c>>
  BY DEF NoFile
<1> HIDE DEF c
<1>3. Len(<<c>>) = 1 /\ <<c>>[1] = c
  OBVIOUS
<1> QED
  BY <1>1, <1>2, <1>3

(* What the saving process does, the reader aside.                            *)
SaverStep ==
    \/ RefusedSave \/ \E payload \in Records : OpenForSave(payload)
    \/ WritePart \/ CompleteSave \/ CutShort \/ FlushFails

(* It keeps its part of the invariant: the stream and the file together are   *)
(* the record, an acknowledged record is whole, a checksum is the file's.     *)
LEMMA SaverKeeps ==
    ASSUME FileInv, SaverStep
    PROVE  /\ file' \in Seq(Cell) /\ unsaved' \in Seq(Cell)
           /\ saving' \in Records \cup {NoRecord} /\ acked' \in Records \cup {NoRecord}
           /\ damaged' \in BOOLEAN
           /\ Streamed' /\ AckedIsWhole' /\ Vouched' /\ Witnessed
<1> USE DEF FileInv, Typed
<1>1. CASE RefusedSave
  BY <1>1 DEF RefusedSave, Streamed, AckedIsWhole, Vouched, Idle, Whole
<1>2. ASSUME NEW payload \in Records, OpenForSave(payload)
      PROVE  /\ file' \in Seq(Cell) /\ unsaved' \in Seq(Cell)
             /\ saving' \in Records \cup {NoRecord} /\ acked' \in Records \cup {NoRecord}
             /\ damaged' \in BOOLEAN
             /\ Streamed' /\ AckedIsWhole' /\ Vouched' /\ Witnessed
  <2>1. payload \in Seq(Parts) /\ payload # NoRecord
    BY RecordsAssumption
  <2>2. Encode(payload) \in Seq(Cell)
    BY <2>1, EncodeType
  <2>3. file' = <<>> /\ unsaved' = Encode(payload) /\ saving' = payload
        /\ UNCHANGED <<acked, damaged>> /\ Witnessed
    BY <1>2 DEF OpenForSave
  <2>4. file' \o unsaved' = Encode(saving')
    BY <2>2, <2>3
  <2>5. ~Idle'
    BY <2>1, <2>3 DEF Idle
  <2>6. Vouched'
    BY <2>3 DEF Vouched
  <2> QED
    BY <2>2, <2>3, <2>4, <2>5, <2>6 DEF Streamed, AckedIsWhole
<1>3. CASE WritePart
  <2>1. /\ saving \in Records /\ file \o unsaved = Encode(saving) /\ unsaved # <<>>
        /\ file' = Append(file, Head(unsaved)) /\ unsaved' = Tail(unsaved)
        /\ UNCHANGED <<saving, acked, damaged>> /\ Witnessed /\ ~Idle
    BY <1>3 DEF WritePart, Idle, Streamed
  <2>2. /\ file' \in Seq(Cell) /\ unsaved' \in Seq(Cell)
        /\ file' \o unsaved' = Encode(saving)
    <3>1. file \in Seq(Cell) /\ unsaved \in Seq(Cell)
      OBVIOUS
    <3> QED
      <4> HIDE DEF FileInv, Typed
      <4> QED
        BY <2>1, <3>1, MoveHead
  <2>3. ~Idle'
    BY <2>1 DEF Idle
  <2>4. Vouched'
    <3> HIDE DEF FileInv, Typed
    <3>1. ASSUME NEW i \in 1..Len(file'), file'[i].kind = "checksum"
          PROVE  file' = Encode(saving) /\ file'[i].payload = saving
      BY <2>1, <2>2, <3>1, BeginningVouched
    <3> QED
      BY <2>1, <3>1 DEF Vouched, Whole
  <2> QED
    BY <2>1, <2>2, <2>3, <2>4 DEF Streamed, AckedIsWhole
<1>4. CASE CompleteSave \/ CutShort \/ FlushFails
  <2>1. /\ unsaved' = <<>> /\ saving' = NoRecord /\ UNCHANGED file /\ Witnessed
        /\ saving \in Records /\ file \o unsaved = Encode(saving) /\ Idle'
        /\ acked' \in {acked, saving}
    BY <1>4 DEF CompleteSave, CutShort, FlushFails, EndSave, Idle, Streamed
  <2>2. Vouched'
    BY <2>1 DEF Vouched, Whole
  <2>3. damaged' \in BOOLEAN /\ AckedIsWhole'
    <3>1. CASE CompleteSave
      <4>1. file' = Encode(saving) /\ acked' = saving /\ saving # NoRecord
            /\ damaged' = FALSE
        BY <2>1, <3>1, RecordsAssumption DEF CompleteSave
      <4> QED
        BY <4>1 DEF AckedIsWhole
    <3>2. CASE CutShort \/ FlushFails
      BY <3>2 DEF CutShort, FlushFails, AckedIsWhole
    <3> QED
      BY <1>4, <3>1, <3>2
  <2> QED
    BY <2>1, <2>2, <2>3 DEF Streamed
<1> QED
  BY <1>1, <1>2, <1>3, <1>4 DEF SaverStep

(* A reader that witnesses such a step knows the file it leaves, and counts   *)
(* as disturbed.                                                              *)
LEMMA WitnessedKeeps ==
    ASSUME FileInv, Witnessed
    PROVE  /\ seen' \subseteq Records
           /\ reader' \in LoadType
           /\ Witness' /\ Undisturbed'
<1>1. /\ seen \subseteq seen' /\ seen' \subseteq Records
      /\ Reading => Whole(file') \subseteq seen'
  BY DEF Witnessed, FileInv, Typed, Whole
<1>2. /\ reader' \in LoadType
      /\ reader'.phase = reader.phase /\ reader'.data = reader.data
      /\ reader'.size = reader.size /\ reader'.result = reader.result
      /\ reader'.quiet => ~Reading
  BY DEF Witnessed, FileInv, Typed
<1>3. Reading' <=> Reading
  BY <1>2 DEF Reading
<1>4. Witness'
  <2>1. Whole(file)' = Whole(file')
    BY DEF Whole
  <2> QED
    BY <1>1, <1>2, <1>3, <2>1 DEF FileInv, Witness
<1>5. Undisturbed'
  BY <1>2, <1>3 DEF Undisturbed
<1> QED
  BY <1>1, <1>2, <1>4, <1>5

-----------------------------------------------------------------------------
(* The reader.                                                                *)

Unread == UNCHANGED <<file, unsaved, saving, acked, damaged>>

(* A load that begins, or finds nothing.                                      *)
LEMMA OpenKeeps ==
    ASSUME FileInv, NEW by \in {"load", "wf_inspect"}, OpenForLoad(by) \/ LoadNothing(by)
    PROVE  FileInv'
<1>1. Unread /\ Streamed' /\ AckedIsWhole' /\ Vouched'
  BY DEF OpenForLoad, LoadNothing, Unread, FileInv, Streamed, AckedIsWhole, Vouched, Idle,
         Whole
<1>2. <<>> \in Seq(Cell) /\ Len(<<>>) = 0 /\ Len(file) \in Nat
  BY DEF FileInv, Typed
<1>3. CASE OpenForLoad(by)
  <2>1. Idle \in BOOLEAN
    BY DEF Idle
  <2>2. /\ reader' = [phase |-> "READING", by |-> by, size |-> Len(file), data |-> <<>>,
                      quiet |-> Idle, result |-> NoRecord]
        /\ seen' = Whole(file) /\ file # NoFile
    BY <1>3 DEF OpenForLoad
  <2>3. /\ reader' \in LoadType
        /\ reader'.size = Len(file) /\ reader'.data = <<>> /\ reader'.quiet = Idle
        /\ reader'.phase = "READING" /\ reader'.result = NoRecord
    BY <1>2, <2>1, <2>2
  <2>4. Typed'
    BY <1>1, <2>2, <2>3 DEF Unread, FileInv, Typed, Whole
  <2>5. Witness'
    BY <1>1, <1>2, <2>2, <2>3 DEF Unread, Witness, Whole
  <2>6. Undisturbed'
    <3>1. file' = file /\ (Idle' <=> Idle)
      BY <1>1 DEF Unread, Idle
    <3>2. Len(reader'.data) = 0
      BY <1>2, <2>3
    <3>3. \A i \in 1..Len(reader'.data) : reader'.data[i] = file'[i]
      BY <3>2
    <3> QED
      BY <2>2, <2>3, <3>1, <3>3 DEF Undisturbed
  <2> QED
    BY <1>1, <2>4, <2>5, <2>6 DEF FileInv
<1>4. CASE LoadNothing(by)
  <2>1. /\ reader' = [phase |-> "DONE", by |-> by, size |-> 0, data |-> <<>>,
                      quiet |-> TRUE, result |-> NoRecord]
        /\ seen' = {}
    BY <1>4 DEF LoadNothing
  <2>2. /\ reader' \in LoadType
        /\ reader'.size = 0 /\ reader'.data = <<>>
        /\ reader'.phase = "DONE" /\ reader'.result = NoRecord
    BY <1>2, <2>1
  <2>3. Typed'
    BY <1>1, <2>1, <2>2 DEF Unread, FileInv, Typed
  <2>4. Witness' /\ Undisturbed'
    BY <1>2, <2>2 DEF Witness, Undisturbed, Reading
  <2> QED
    BY <1>1, <2>3, <2>4 DEF FileInv
<1> QED
  BY <1>3, <1>4

(* A part is read: if it is a checksum, its record is whole in the file.      *)
LEMMA ReadKeeps ==
    ASSUME FileInv, ReadPart
    PROVE  FileInv'
<1> DEFINE k == Len(reader.data) + 1
<1>1. Unread /\ UNCHANGED seen /\ Streamed' /\ AckedIsWhole' /\ Vouched' /\ Reading
  BY DEF ReadPart, Unread, FileInv, Streamed, AckedIsWhole, Vouched, Idle, Whole
<1>2. /\ file \in Seq(Cell) /\ reader.data \in Seq(Cell) /\ reader.size \in Nat
      /\ reader \in LoadType
  BY DEF FileInv, Typed
<1>3. /\ Len(reader.data) < reader.size /\ Len(reader.data) < Len(file)
      /\ reader' = [reader EXCEPT !.data = Append(@, file[Len(@) + 1])]
  BY DEF ReadPart
<1>4. k \in 1..Len(file) /\ k <= reader.size /\ file[k] \in Cell
  BY <1>2, <1>3
<1>5. Append(reader.data, file[k]) \in Seq(Cell)
  BY <1>2, <1>4
<1>6. /\ reader' \in LoadType
      /\ reader'.data = Append(reader.data, file[k])
      /\ reader'.size = reader.size /\ reader'.quiet = reader.quiet
      /\ reader'.phase = reader.phase
  BY <1>2, <1>3, <1>5
<1>7. /\ Len(reader'.data) = k
      /\ \A i \in 1..k : \/ i = k /\ reader'.data[i] = file[k]
                         \/ i \in 1..Len(reader.data) /\ reader'.data[i] = reader.data[i]
  BY <1>2, <1>4, <1>6
<1> HIDE DEF k
<1>8. Typed'
  BY <1>1, <1>6 DEF Unread, FileInv, Typed
<1>9. Witness'
  <2>1. file[k].kind = "checksum" => file[k].payload \in seen
    BY <1>1, <1>4 DEF FileInv, Vouched, Witness
  <2>2. \A i \in 1..Len(reader'.data) :
           reader'.data[i].kind = "checksum" => reader'.data[i].payload \in seen
    BY <1>1, <1>7, <2>1 DEF FileInv, Witness
  <2>3. Whole(file)' \subseteq seen' /\ reader'.phase # "DONE"
    BY <1>1, <1>6 DEF Unread, FileInv, Witness, Whole, Reading
  <2> QED
    BY <1>1, <1>4, <1>6, <1>7, <2>2, <2>3 DEF Witness
<1>10. Undisturbed'
  <2>1. ASSUME reader.quiet
        PROVE  /\ Idle /\ file # NoFile /\ reader.size = Len(file)
               /\ \A i \in 1..Len(reader.data) : reader.data[i] = file[i]
    BY <1>1, <2>1 DEF FileInv, Undisturbed
  <2> QED
    BY <1>1, <1>6, <1>7, <2>1 DEF Unread, Undisturbed, Idle
<1> QED
  BY <1>1, <1>8, <1>9, <1>10 DEF FileInv

(* What load returns is nothing, or a record the reader has witnessed.        *)
LEMMA DecodedIsSeen ==
    ASSUME FileInv, Reading, Decode(reader.data) # NoRecord
    PROVE  Decode(reader.data) \in seen
<1>1. Fits(reader.data) /\ Intact(reader.data) /\ Decode(reader.data) = Payload(reader.data)
  BY DEF Decode
<1>2. reader.data \in Seq(Cell)
  BY DEF FileInv, Typed
<1>3. PICK i \in 1..Len(reader.data) : reader.data[i] = Checksum(Payload(reader.data))
  BY <1>1, <1>2, DecodedHasChecksum
<1>4. reader.data[i].kind = "checksum" /\ reader.data[i].payload = Payload(reader.data)
  BY <1>3, CellFields
<1> QED
  BY <1>1, <1>4 DEF FileInv, Witness

(* A load returns a record only behind the checksum it has read for it.       *)
LEMMA FinishKeeps ==
    ASSUME FileInv, FinishLoad
    PROVE  FileInv'
<1> DEFINE r == IF Len(reader.data) < reader.size /\ reader.by = "load"
                THEN NoRecord ELSE Decode(reader.data)
<1>1. Unread /\ UNCHANGED seen /\ Streamed' /\ AckedIsWhole' /\ Vouched' /\ Reading
  BY DEF FinishLoad, Unread, FileInv, Streamed, AckedIsWhole, Vouched, Idle, Whole
<1>2. r = NoRecord \/ r \in seen
  BY <1>1, DecodedIsSeen
<1>3. r \in Records \cup {NoRecord}
  BY <1>2 DEF FileInv, Typed
<1>4. reader' = [reader EXCEPT !.phase = "DONE", !.data = <<>>, !.result = r]
  BY DEF FinishLoad
<1> HIDE DEF r
<1>5. /\ reader \in LoadType
      /\ <<>> \in Seq(Cell)
  BY DEF FileInv, Typed
<1>6. /\ reader' \in LoadType
      /\ reader'.phase = "DONE" /\ reader'.data = <<>> /\ reader'.size \in Nat
      /\ reader'.result = r
  BY <1>3, <1>4, <1>5
<1>7. Typed'
  BY <1>1, <1>6 DEF Unread, FileInv, Typed
<1>8. Witness' /\ Undisturbed'
  BY <1>1, <1>2, <1>6 DEF Witness, Undisturbed, Reading
<1> QED
  BY <1>1, <1>7, <1>8 DEF FileInv

(* remove finds no reader.                                                    *)
LEMMA RemoveKeeps ==
    ASSUME FileInv, RemoveRecord
    PROVE  FileInv'
<1>1. /\ Idle /\ ~Reading /\ file' = NoFile /\ acked' = NoRecord /\ damaged' = FALSE
      /\ UNCHANGED <<unsaved, saving, reader, seen>>
  BY DEF RemoveRecord
<1>2. Typed'
  BY <1>1, NoFileType DEF FileInv, Typed
<1>3. Vouched'
  BY <1>1, NoFileVouches DEF Vouched
<1>4. Witness' /\ Undisturbed'
  BY <1>1 DEF FileInv, Witness, Undisturbed, Reading
<1>5. Streamed' /\ AckedIsWhole'
  BY <1>1 DEF Streamed, AckedIsWhole, Idle
<1> QED
  BY <1>2, <1>3, <1>4, <1>5 DEF FileInv

-----------------------------------------------------------------------------
(* The theorems.                                                              *)

(* Whatever is written, cut short, lost at the flush, removed or read, and in *)
(* whatever order, the invariant holds.                                       *)
THEOREM FileCorrect == FileStoreSpec => []FileInv
<1>1. FileStoreInit => FileInv
  <2> SUFFICES ASSUME FileStoreInit PROVE FileInv
    OBVIOUS
  <2>1. Typed
    <3>1. <<>> \in Seq(Cell)
      OBVIOUS
    <3>2. reader \in LoadType
      BY <3>1 DEF FileStoreInit
    <3> QED
      BY <3>1, <3>2, NoFileType DEF FileStoreInit, Typed
  <2>2. Streamed /\ AckedIsWhole /\ Witness /\ Undisturbed
    BY DEF FileStoreInit, Streamed, AckedIsWhole, Witness, Undisturbed, Idle, Reading
  <2>3. Vouched
    BY NoFileVouches DEF FileStoreInit, Vouched
  <2> QED
    BY <2>1, <2>2, <2>3 DEF FileInv
<1>2. FileInv /\ [FileStoreNext]_storeVars => FileInv'
  <2> SUFFICES ASSUME FileInv, [FileStoreNext]_storeVars PROVE FileInv'
    OBVIOUS
  <2>1. CASE SaverStep
    BY <2>1, SaverKeeps, WitnessedKeeps DEF FileInv, Typed
  <2>2. CASE UNCHANGED storeVars
    BY <2>2
    DEF storeVars, FileInv, Typed, Streamed, AckedIsWhole, Vouched, Witness, Undisturbed,
        Idle, Reading, Whole
  <2> QED
    BY <2>1, <2>2, OpenKeeps, ReadKeeps, FinishKeeps, RemoveKeeps
    DEF FileStoreNext, SaverStep
<1> QED
  BY <1>1, <1>2, PTL DEF FileStoreSpec

(* The stream holds what the file lacks, and what is returned is a record.    *)
THEOREM FileStoreTypeCorrect == FileStoreSpec => []FileStoreTypeOK
<1>1. FileInv => FileStoreTypeOK
  BY DEF FileInv, Typed, Streamed, Witness, FileStoreTypeOK
<1> QED
  BY <1>1, FileCorrect, PTL

(* No load returns a mixture of two records or a torn one.                    *)
THEOREM LoadCorrect == FileStoreSpec => []LoadIsGenuine
<1>1. FileInv => LoadIsGenuine
  BY DEF FileInv, Witness, LoadIsGenuine
<1> QED
  BY <1>1, FileCorrect, PTL

(* An acknowledged record stays whole until the next save opens the file, and *)
(* a removed one stays away: no refused save and no reader touches either.    *)
(* The record whose flush failed behind its acknowledgement, and the one a    *)
(* crash cut short, are excepted until a later save completes.                *)
THEOREM AckedCorrect == FileStoreSpec => []AckedIsWhole
<1>1. FileInv => AckedIsWhole
  BY DEF FileInv
<1> QED
  BY <1>1, FileCorrect, PTL

(* A load no save ran into returns the acknowledged record.                   *)
THEOREM QuietLoadCorrect == FileStoreSpec => QuietLoadSucceeds
<1>1. ASSUME FileInv, FileStoreNext,
             reader'.phase = "DONE", reader.phase = "READING", reader.quiet, ~damaged
      PROVE  reader'.result = acked
  <2>1. Reading /\ reader \in LoadType
    BY <1>1 DEF Reading, FileInv, Typed
  <2>2. FinishLoad
    <3>1. Witnessed => reader'.phase = reader.phase
      BY <2>1 DEF Witnessed
    <3>2. ReadPart => reader'.phase = reader.phase
      BY <2>1 DEF ReadPart
    <3> QED
      BY <1>1, <2>1, <3>1, <3>2
      DEF FileStoreNext, RefusedSave, OpenForSave, WritePart, CompleteSave, CutShort,
          FlushFails, EndSave, RemoveRecord, OpenForLoad, LoadNothing
  <2>3. /\ Idle /\ file # NoFile /\ reader.size = Len(file)
        /\ Len(reader.data) <= reader.size
        /\ \A i \in 1..Len(reader.data) : reader.data[i] = file[i]
        /\ file \in Seq(Cell) /\ reader.data \in Seq(Cell)
    BY <1>1, <2>1 DEF FileInv, Typed, Undisturbed, Witness
  <2>4. Len(reader.data) = Len(file)
    BY <2>2, <2>3 DEF FinishLoad
  <2>5. reader.data = file
    BY <2>3, <2>4
  <2>6. acked # NoRecord /\ file = Encode(acked) /\ acked \in Records
    BY <1>1, <2>3 DEF FileInv, Typed, AckedIsWhole
  <2>7. Decode(reader.data) = acked
    BY <2>5, <2>6, DecodeEncode, RecordsAssumption
  <2>8. reader'.result = Decode(reader.data)
    BY <2>1, <2>2, <2>3, <2>4 DEF FinishLoad
  <2> QED
    BY <2>7, <2>8
<1>2. FileInv /\ [FileStoreNext]_storeVars
        => [reader'.phase = "DONE" /\ reader.phase = "READING"
            /\ reader.quiet /\ ~damaged => reader'.result = acked]_storeVars
  BY <1>1
<1> QED
  BY <1>2, FileCorrect, PTL DEF FileStoreSpec, QuietLoadSucceeds
=============================================================================
