----------------------------- MODULE FileStore ------------------------------
(* FileStateStore (src/persistence.cpp): one workload's record in a file that *)
(* save rewrites in place, while another process reads it with load or with   *)
(* tools/wf_inspect.cpp.  The engine's mutex makes saves and removes          *)
(* sequential; nothing makes a reader wait.  A write may fail, silently when  *)
(* it happens as the stream is closed, and the saving process may die.        *)
(*                                                                            *)
(* A record is the sequence of the parts of its payload.  In the file the     *)
(* length comes before them and a checksum after them.  Two payloads are      *)
(* taken to have different checksums, magic, version and the checks on the    *)
(* fields of the payload always to pass, the system not to lose what a        *)
(* process that died had already written.                                     *)
EXTENDS Integers, Sequences

CONSTANTS
    Parts,   \* the parts payloads are made of
    Records  \* the payloads the engine saves

NoRecord == <<"no record">>

ASSUME RecordsAssumption == Records \subseteq Seq(Parts) /\ NoRecord \notin Records

(* What a file consists of: the length, the parts and the checksum.           *)
Cell ==
    [kind: {"no file", "length", "part", "checksum"}, length: Nat,
     part: Parts \cup {"no part"}, payload: Seq(Parts)]

NoFile == <<[kind |-> "no file", length |-> 0, part |-> "no part", payload |-> <<>>]>>

VARIABLES
    file,    \* the parts in the file, or NoFile
    unsaved, \* the parts save has still to write, in its open stream
    saving,  \* the record being saved, or NoRecord
    reader,  \* the load in progress, or the last one
    acked,   \* the record of the last save that returned ALLOW
    damaged, \* a save was cut short or not flushed, and none has completed since
    seen     \* the records that were whole in the file during the load

storeVars == <<file, unsaved, saving, reader, acked, damaged, seen>>

-----------------------------------------------------------------------------
(* The codec.                                                                 *)

Length(n) == [kind |-> "length", length |-> n, part |-> "no part", payload |-> <<>>]
Part(part) == [kind |-> "part", length |-> 0, part |-> part, payload |-> <<>>]
Checksum(payload) ==
    [kind |-> "checksum", length |-> 0, part |-> "no part", payload |-> payload]

(* encodeWorkload.                                                            *)
Encode(payload) ==
    <<Length(Len(payload))>> \o [i \in DOMAIN payload |-> Part(payload[i])]
        \o <<Checksum(payload)>>

(* The parts decodeWorkload takes for the payload: as many as the length says.*)
Payload(data) == [i \in 1..data[1].length |-> data[i + 1].part]

(* Mutant: the checksum is not compared.                                      *)
IntactUnchecked(data) == TRUE

(* The stored checksum is that of the parts before it.                        *)
Intact(data) == SubSeq(data, 1, data[1].length + 2) = Encode(Payload(data))

(* Mutant: off by one, no room is left for the checksum.                      *)
FitsStrictly(data) == data # <<>> /\ data[1].length + 2 < Len(data)

(* The parts and the checksum are all there; what follows is not looked at.   *)
Fits(data) == data # <<>> /\ data[1].length + 2 <= Len(data)

(* decodeWorkload: the record in the data, or NoRecord.                       *)
Decode(data) ==
    IF Fits(data) /\ Intact(data) THEN Payload(data) ELSE NoRecord

(* The record that is whole in the file.                                      *)
Whole(f) == {payload \in Records : f = Encode(payload)}

-----------------------------------------------------------------------------
Reading == reader.phase = "READING"

Idle == saving = NoRecord

FileStoreInit ==
    /\ file = NoFile
    /\ unsaved = <<>>
    /\ saving = NoRecord
    /\ reader = [phase |-> "NONE", by |-> "load", size |-> 0, data |-> <<>>,
                 quiet |-> TRUE, result |-> NoRecord]
    /\ acked = NoRecord
    /\ damaged = FALSE
    /\ seen = {}

(* A step of the saving process, as a load in progress witnesses it.          *)
Witnessed ==
    /\ seen' = IF Reading THEN seen \cup Whole(file') ELSE seen
    /\ reader' = [reader EXCEPT !.quiet = @ /\ ~Reading]

(* Mutant: the file is truncated before the directory is looked at.           *)
RefusedSaveTruncating ==
    /\ Idle
    /\ file' = <<>>
    /\ Witnessed
    /\ UNCHANGED <<unsaved, saving, acked, damaged>>

(* create_directories or the opening of the file fails: save returns          *)
(* REJECT_UNKNOWN with the file as it was.                                    *)
RefusedSave ==
    /\ Idle
    /\ UNCHANGED file
    /\ Witnessed
    /\ UNCHANGED <<unsaved, saving, acked, damaged>>

(* Mutant: the file is opened for appending.                                  *)
OpenForSaveAppending(payload) ==
    /\ Idle
    /\ file' = IF file = NoFile THEN <<>> ELSE file
    /\ unsaved' = Encode(payload)
    /\ saving' = payload
    /\ Witnessed
    /\ UNCHANGED <<acked, damaged>>

(* The file is opened and truncated.                                          *)
OpenForSave(payload) ==
    /\ Idle
    /\ file' = <<>>
    /\ unsaved' = Encode(payload)
    /\ saving' = payload
    /\ Witnessed
    /\ UNCHANGED <<acked, damaged>>

(* The next part reaches the file.                                            *)
WritePart ==
    /\ ~Idle /\ unsaved # <<>>
    /\ file' = Append(file, Head(unsaved))
    /\ unsaved' = Tail(unsaved)
    /\ Witnessed
    /\ UNCHANGED <<saving, acked, damaged>>

EndSave ==
    /\ unsaved' = <<>>
    /\ saving' = NoRecord
    /\ UNCHANGED file
    /\ Witnessed

(* Everything is written and the stream closed: ALLOW.                        *)
CompleteSave ==
    /\ ~Idle /\ unsaved = <<>>
    /\ EndSave
    /\ acked' = saving
    /\ damaged' = FALSE

(* ofs.write fails (REJECT_UNKNOWN, which persist ignores) or the process     *)
(* dies.                                                                      *)
CutShort ==
    /\ ~Idle
    /\ EndSave
    /\ damaged' = TRUE
    /\ UNCHANGED acked

(* The flush at the end of the stream's life fails, after the last test of    *)
(* the stream: save returns ALLOW all the same.                               *)
FlushFails ==
    /\ ~Idle /\ unsaved # <<>>
    /\ EndSave
    /\ acked' = saving
    /\ damaged' = TRUE

(* remove; the system refuses it while another process has the file open.     *)
RemoveRecord ==
    /\ Idle /\ ~Reading
    /\ file' = NoFile
    /\ acked' = NoRecord
    /\ damaged' = FALSE
    /\ UNCHANGED <<unsaved, saving, reader, seen>>

-----------------------------------------------------------------------------
(* The reader opens the file and asks for its size, ...                       *)
OpenForLoad(by) ==
    /\ ~Reading
    /\ file # NoFile
    /\ reader' = [phase |-> "READING", by |-> by, size |-> Len(file), data |-> <<>>,
                  quiet |-> Idle, result |-> NoRecord]
    /\ seen' = Whole(file)
    /\ UNCHANGED <<file, unsaved, saving, acked, damaged>>

(* (REJECT_WORKLOAD_NOT_FOUND.)                                               *)
LoadNothing(by) ==
    /\ ~Reading
    /\ file = NoFile
    /\ reader' = [phase |-> "DONE", by |-> by, size |-> 0, data |-> <<>>,
                  quiet |-> TRUE, result |-> NoRecord]
    /\ seen' = {}
    /\ UNCHANGED <<file, unsaved, saving, acked, damaged>>

(* ... reads that many parts, one after the other, ...                        *)
ReadPart ==
    /\ Reading
    /\ Len(reader.data) < reader.size /\ Len(reader.data) < Len(file)
    /\ reader' = [reader EXCEPT !.data = Append(@, file[Len(@) + 1])]
    /\ UNCHANGED <<file, unsaved, saving, acked, damaged, seen>>

(* ... and decodes them.  If the file ends early load fails and wf_inspect    *)
(* decodes what it got.                                                       *)
FinishLoad ==
    /\ Reading
    /\ Len(reader.data) = reader.size \/ Len(reader.data) >= Len(file)
    /\ reader' = [reader EXCEPT
                    !.phase = "DONE",
                    !.data = <<>>,
                    !.result = IF Len(reader.data) < reader.size /\ reader.by = "load"
                               THEN NoRecord ELSE Decode(reader.data)]
    /\ UNCHANGED <<file, unsaved, saving, acked, damaged, seen>>

FileStoreNext ==
    \/ RefusedSave
    \/ \E payload \in Records : OpenForSave(payload)
    \/ WritePart \/ CompleteSave \/ CutShort \/ FlushFails \/ RemoveRecord
    \/ \E by \in {"load", "wf_inspect"} : OpenForLoad(by) \/ LoadNothing(by)
    \/ ReadPart \/ FinishLoad

FileStoreSpec == FileStoreInit /\ [][FileStoreNext]_storeVars

-----------------------------------------------------------------------------
(* The stream holds what the file lacks of the record being saved, and a      *)
(* load's buffer never exceeds the size it asked for.                         *)
FileStoreTypeOK ==
    /\ acked \in Records \cup {NoRecord} /\ saving \in Records \cup {NoRecord}
    /\ ~Idle => file \o unsaved = Encode(saving)
    /\ reader.result \in Records \cup {NoRecord}
    /\ Len(reader.data) <= reader.size

(* A load that overlaps saves, crashes and failed writes returns a record     *)
(* that was whole in the file at some time of the load, or none: never a      *)
(* mixture of two records and never a torn one (persistence.hpp, "one         *)
(* integrity-checked record per workload").                                   *)
LoadIsGenuine ==
    reader.phase = "DONE" /\ reader.result # NoRecord => reader.result \in seen

(* An acknowledged record stays whole in the file until the next save opens   *)
(* it: no refused save and no reader touches it.  Only a save that was cut    *)
(* short, or that failed as its stream was closed, loses it.                  *)
AckedIsWhole ==
    Idle /\ ~damaged => IF acked = NoRecord THEN file = NoFile ELSE file = Encode(acked)

(* A load no save ran into returns the acknowledged record, unless a save     *)
(* before it was cut short.                                                   *)
QuietLoadSucceeds ==
    [][reader'.phase = "DONE" /\ reader.phase = "READING"
       /\ reader.quiet /\ ~damaged => reader'.result = acked]_storeVars
=============================================================================
