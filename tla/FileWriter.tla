----------------------------- MODULE FileWriter -----------------------------
(***************************************************************************)
(* FileWriter (src/file/file_writer.cpp) under WALWriter::AddLog           *)
(* (src/wal/wal_writer.cpp): the buffer, the write and fsync calls one by  *)
(* one, a write that falls short, the death of the process, the loss of    *)
(* power, and the reopening of the file, which appends.  A byte is named   *)
(* by its entry and its place in the entry's record.                       *)
(***************************************************************************)
EXTENDS Integers, Sequences

CONSTANTS BUFFER_SIZE,
          kHeaderSize,    \* checksum and length
          LogLens,        \* lengths of the entries that are added
          MaxLogs, MaxDeaths, MaxErrors    \* bounds

ASSUME SizeAssumption == BUFFER_SIZE \in Nat \ {0} /\ kHeaderSize \in Nat \ {0} /\ LogLens \subseteq Nat
ASSUME BoundAssumption == MaxLogs \in Nat /\ MaxDeaths \in Nat /\ MaxErrors \in Nat

VARIABLES
  buffer,     \* buffer[0 .. buffer_offset)
  data,       \* what append has yet to copy
  file,       \* the file as the kernel has it
  synced,     \* how much of it has reached the device
  part,       \* which append of AddLog: the header or the entry
  len,        \* length of each entry that was added
  pc,
  acked,      \* (history) entries whose AddLog returned after an fsync that worked
  given,      \* (history) what append was given, since the file was opened
  base,       \* (history) what the file held then
  deaths,
  errors      \* times that fsync failed

vars == <<buffer, data, file, synced, part, len, pc, acked, given, base, deaths, errors>>

Entry == Len(len)                 \* the latest
Size(r) == kHeaderSize + len[r]
Bytes(r, from, n) == [i \in 1..n |-> <<r, from + i>>]
Header == Bytes(Entry, 0, kHeaderSize)
Body == Bytes(Entry, kHeaderSize, len[Entry])

Init == /\ buffer = <<>> /\ data = <<>> /\ file = <<>> /\ synced = 0
        /\ part = "header" /\ len = <<>> /\ pc = "idle" /\ acked = {}
        /\ given = <<>> /\ base = <<>> /\ deaths = 0 /\ errors = 0

-----------------------------------------------------------------------------
(* append. *)

\* AddLog makes the header and appends it.
AddLog(n) == /\ pc = "idle"
             /\ Len(len) < MaxLogs
             /\ len' = Append(len, n)
             /\ pc' = "append" /\ part' = "header"
             /\ data' = Bytes(Len(len) + 1, 0, kHeaderSize)
             /\ given' = given \o data'
             /\ UNCHANGED <<buffer, file, synced, acked, base, deaths, errors>>

\* The header is appended: the entry is next.  The entry is: it is flushed.
Appended == IF part = "header"
            THEN /\ part' = "entry" /\ pc' = "append"
                 /\ data' = Body /\ given' = given \o Body
            ELSE /\ pc' = "flush"
                 /\ data' = <<>>
                 /\ UNCHANGED <<part, given>>

Room == BUFFER_SIZE - Len(buffer)
First(n) == SubSeq(data, 1, n)
Rest(n) == SubSeq(data, n + 1, Len(data))

\* (Mutant of AppendAll: data may be longer than the room.)
AppendUnchecked == /\ pc = "append" /\ data # <<>>
                   /\ buffer' = buffer \o data
                   /\ Appended
                   /\ UNCHANGED <<file, synced, len, acked, base, deaths, errors>>

AppendAll == /\ pc = "append" /\ data # <<>>
             /\ Len(data) < Room
             /\ buffer' = buffer \o data
             /\ Appended
             /\ UNCHANGED <<file, synced, len, acked, base, deaths, errors>>

\* An empty entry: append returns before it flushes.
AppendNothing == /\ pc = "append" /\ data = <<>>
                 /\ pc' = "sync"
                 /\ UNCHANGED <<buffer, data, file, synced, part, len, acked, given, base, deaths, errors>>

\* No room for all of it, or just enough: the buffer fills up and is written.
AppendFirst == /\ pc = "append" /\ data # <<>>
               /\ Len(data) >= Room
               /\ buffer' = buffer \o First(Room)
               /\ data' = Rest(Room)
               /\ pc' = "full"
               /\ UNCHANGED <<file, synced, part, len, acked, given, base, deaths, errors>>

\* write(fd, buffer, all of it).
Persist == /\ file' = file \o buffer
           /\ buffer' = <<>>

WriteFull == /\ pc = "full"
             /\ Persist
             /\ IF data = <<>> THEN Appended
                ELSE pc' = "copy" /\ UNCHANGED <<data, part, given>>
             /\ UNCHANGED <<synced, len, acked, base, deaths, errors>>

\* The loop: a full buffer is written only when more is to come.
\* (Mutant: data_offset stays behind.)
CopyAgain == /\ pc = "copy"
             /\ LET n == IF Len(data) < Room THEN Len(data) ELSE Room
                IN  /\ buffer' = buffer \o [i \in 1..n |-> data[1]]
                    /\ IF n = Len(data) THEN Appended
                       ELSE data' = Rest(n) /\ pc' = "full" /\ UNCHANGED <<part, given>>
             /\ UNCHANGED <<file, synced, len, acked, base, deaths, errors>>

Copy == /\ pc = "copy"
        /\ LET n == IF Len(data) < Room THEN Len(data) ELSE Room
           IN  /\ buffer' = buffer \o First(n)
               /\ IF n = Len(data) THEN Appended
                  ELSE data' = Rest(n) /\ pc' = "full" /\ UNCHANGED <<part, given>>
        /\ UNCHANGED <<file, synced, len, acked, base, deaths, errors>>

\* flush = true.
WriteRest == /\ pc = "flush"
             /\ Persist
             /\ pc' = "sync"
             /\ UNCHANGED <<data, synced, part, len, acked, given, base, deaths, errors>>

-----------------------------------------------------------------------------
(* sync, close, and the end of the process. *)

\* sync flushes first, which matters when the entry is empty.
\* (Mutant: it does not.)
SyncNoFlush == /\ pc = "sync"
               /\ pc' = "fsync"
               /\ UNCHANGED <<buffer, data, file, synced, part, len, acked, given, base, deaths, errors>>

SyncFlush == /\ pc = "sync"
             /\ Persist
             /\ pc' = "fsync"
             /\ UNCHANGED <<data, synced, part, len, acked, given, base, deaths, errors>>

\* fsync, and AddLog returns.
Fsync == /\ pc = "fsync"
         /\ synced' = Len(file)
         /\ acked' = acked \cup {Entry}
         /\ pc' = "idle"
         /\ UNCHANGED <<buffer, data, file, part, len, given, base, deaths, errors>>

\* fsync fails, and AddLog returns all the same.  What it left is written by a
\* later one, or in part by the kernel (PowerLoss).
FsyncFails == /\ pc = "fsync"
              /\ errors < MaxErrors                                  \* bound: MaxErrors
              /\ errors' = errors + 1
              /\ pc' = "idle"
              /\ UNCHANGED <<buffer, data, file, synced, part, len, acked, given, base, deaths>>

\* ~WALWriter: flush, close.
Close == /\ pc = "idle"
         /\ Persist
         /\ pc' = "closed"
         /\ UNCHANGED <<data, synced, part, len, acked, given, base, deaths, errors>>

Die == /\ deaths < MaxDeaths                                 \* bound: MaxDeaths
       /\ deaths' = deaths + 1
       /\ pc' = "dead" /\ buffer' = <<>> /\ data' = <<>>
       /\ given' = <<>> /\ base' = <<>>
       /\ UNCHANGED <<part, len, acked, errors>>

\* write took a part of the buffer: assert(ret == len).
ShortWrite == /\ pc \in {"full", "flush", "sync"}
              /\ \E n \in 0..Len(buffer) - 1 : file' = file \o SubSeq(buffer, 1, n)
              /\ Die
              /\ UNCHANGED synced

\* The process is killed: what the kernel has stays.
Kill == /\ pc \notin {"closed", "dead"}
        /\ Die
        /\ UNCHANGED <<file, synced>>

\* Power is lost: of what was not synced, any first part has reached the device.
PowerLoss == /\ pc # "dead"
             /\ Die
             /\ \E n \in synced..Len(file) : file' = SubSeq(file, 1, n) /\ synced' = n

\* open(O_APPEND).  (Mutant: O_TRUNC.)
ReopenTruncated == /\ pc \in {"closed", "dead"}
                   /\ pc' = "idle"
                   /\ file' = <<>> /\ synced' = 0 /\ base' = <<>> /\ given' = <<>>
                   /\ UNCHANGED <<buffer, data, part, len, acked, deaths, errors>>

Reopen == /\ pc \in {"closed", "dead"}
          /\ pc' = "idle"
          /\ base' = file /\ given' = <<>>
          /\ UNCHANGED <<buffer, data, file, synced, part, len, acked, deaths, errors>>

Next == \/ \E n \in LogLens : AddLog(n)
        \/ AppendAll \/ AppendNothing \/ AppendFirst \/ WriteFull \/ Copy \/ WriteRest
        \/ SyncFlush \/ Fsync \/ FsyncFails \/ Close
        \/ ShortWrite \/ Kill \/ PowerLoss \/ Reopen

Spec == Init /\ [][Next]_vars

-----------------------------------------------------------------------------
(* Properties. *)

\* Every variable holds a value of its type, and the buffer is never overrun.
TypeOK == /\ \A s \in {buffer, data, file, given, base} :
               s \in Seq((1..Len(len)) \X Nat)
          /\ Len(buffer) <= BUFFER_SIZE
          /\ synced \in 0..Len(file)
          /\ part \in {"header", "entry"}
          /\ len \in Seq(LogLens) /\ acked \subseteq DOMAIN len
          /\ pc \in {"idle", "append", "full", "copy", "flush", "sync", "fsync", "closed", "dead"}
          /\ deaths \in 0..MaxDeaths /\ errors \in 0..MaxErrors

\* Whatever the sizes, the bytes given to append go to the file in order, none
\* lost, none twice: the file, the buffer and what is left to copy are together
\* what was there and what was given.
NothingLostOnTheWay ==
  pc # "dead" => file \o buffer \o data = base \o given

\* The record of an entry whose AddLog returned after an fsync that worked is
\* whole on the device, and stays there through every crash and reopening; an
\* fsync that failed unnoticed before or after it changes nothing of that.
Starts(r, i) == SubSeq(file, i + 1, i + Size(r)) = Bytes(r, 0, Size(r))
Whole(r, n) == \E i \in 0..(n - Size(r)) : Starts(r, i)
AckedIsWhole == \A r \in acked : Whole(r, synced)

Entries(n) == {r \in DOMAIN len : Whole(r, n)}
Place(r) == CHOOSE i \in 0..(Len(file) - Size(r)) : Starts(r, i)

Log == INSTANCE DurableLog
         WITH log <- [r \in Entries(Len(file)) |-> Place(r)],
              firm <- Entries(synced),
              adding <- IF pc \in {"idle", "closed", "dead"} THEN 0 ELSE Entry,
              added <- Len(len),
              faults <- errors

\* Through every division of a record into writes, every short write, kill,
\* failed fsync and loss of power, AddLog keeps to DurableLog.
ImplementsDurableLog == Log!Spec
=============================================================================
