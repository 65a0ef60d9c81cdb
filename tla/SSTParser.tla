----------------------------- MODULE SSTParser ------------------------------
(***************************************************************************)
(* SSTParser (src/sst_parser): the bytes that SSTableBuilder leaves in the *)
(* file, and what the parser makes of them: ReadAll, Parse up to the       *)
(* filter, Seek.  Positions are counted from 0, as in the code.            *)
(***************************************************************************)
EXTENDS SSTable

CONSTANTS Fill,      \* what the bytes of a value are
          Newline,   \* the byte '\n'
          Fault      \* a failed assert, or a read outside the file

ASSUME ByteAssumption == Byte = 256 /\ Fill \in 0..Byte - 1 /\ Newline \in 0..Byte - 1
ASSUME IntervalIsInt32 == RESTART_INTERVAL <= 2147483647

-----------------------------------------------------------------------------
(* codec.cpp, and how the builders put their parts into bytes. *)

\* EncodeFixed32, little-endian.
Fixed32(n) == <<n % 256, (n \div 256) % 256, (n \div 65536) % 256, (n \div 16777216) % 256>>

\* DecodeFixed32, or a cast, of the four bytes at p, as int32_t.
Word(s, p) == LET top == s[p + 4]
              IN  s[p + 1] + 256 * s[p + 2] + 65536 * s[p + 3]
                    + 16777216 * (IF top < 128 THEN top ELSE top - 256)

\* OffsetInfo has its size first.  (Mutant: its offset.)
OffsetFirst(o) == Fixed32(o.offset) \o Fixed32(o.size)
OffsetBytes(o) == Fixed32(o.size) \o Fixed32(o.offset)
OffsetAt(s, p) == [size |-> Word(s, p), offset |-> Word(s, p + 4)]

Content(n) == [i \in 1..n |-> Fill]
RecordBytes(r) == Fixed32(r.shared) \o Fixed32(Len(r.rest)) \o Fixed32(r.val)
                    \o r.rest \o Content(r.val)

\* The Restart_Offset of the schema is not written.
BlockBytes(b) ==
  FlattenSeq([i \in DOMAIN b.recs |-> RecordBytes(b.recs[i])])
    \o FlattenSeq([i \in DOMAIN b.restarts |-> Fixed32(b.restarts[i].num) \o OffsetBytes(b.restarts[i])])
    \o Fixed32(b.restartNum)

FilterBytes(f) ==
  [i \in 1..f.bytes |-> SumFunction([b \in 0..7 |-> IF 8 * (i - 1) + b \in f.bits THEN 2^b ELSE 0])]
    \o Fixed32(f.hashes)

IndexBytes(e) == Fixed32(Len(e.key)) \o e.key \o OffsetBytes(e)

\* The file after finish_sst.
File == FlattenSeq([i \in DOMAIN blocks |-> BlockBytes(blocks[i])])
          \o FilterBytes(filter)
          \o FlattenSeq([i \in DOMAIN index |-> IndexBytes(index[i])])
          \o OffsetBytes(footer.filter) \o OffsetBytes(footer.index)

-----------------------------------------------------------------------------
(* ReadAll and Parse.  Its third step takes the filter's trailer from the   *)
(* address START + SIZE - 4 without the file's own; DBImpl!ParseSST is that *)
(* end of Parse, and what follows here supposes a parser that is past it.   *)

\* getline takes the line ends away.
ReadAll(f) ==
  LET Upto[i \in 0..Len(f)] == IF i = 0 THEN <<>>
                                  ELSE IF f[i] = Newline THEN Upto[i - 1]
                                  ELSE Append(Upto[i - 1], f[i])
  IN  Upto[Len(f)]

Readable(s, p, n) == p >= 0 /\ n >= 0 /\ p + n <= Len(s)
StringAt(s, p, n) == SubSeq(s, p + 1, p + n)

Header(s) == [filter |-> OffsetAt(s, Len(s) - 16), index |-> OffsetAt(s, Len(s) - 8)]

\* The index blocks from p to end, where the last one must end.
IndexBlocks(s, p, end) ==
  LET From[q \in Int] ==
        IF q >= end THEN IF q = end THEN <<>> ELSE <<Fault>>
        ELSE IF ~Readable(s, q, 4) THEN <<Fault>>
        ELSE LET n == Word(s, q)
                 o == OffsetAt(s, q + 4 + n)
             IN  IF ~Readable(s, q + 4, n) \/ ~Readable(s, q + 4 + n, 8) THEN <<Fault>>
                 ELSE <<[key |-> StringAt(s, q + 4, n), size |-> o.size, offset |-> o.offset]>>
                        \o From[q + 12 + n]
  IN  From[p]

Parse(s) == LET h == Header(s)
            IN  [header |-> h,
                 index |-> IndexBlocks(s, h.index.offset, h.index.offset + h.index.size)]

-----------------------------------------------------------------------------
(* Seek. *)

\* FindFullKeyByRP: the first record of a group has the whole key.
FindFullKeyByRP(s, start, num, rg) ==
  LET p == start + rg.offset
  IN  IF \/ num <= 0
         \/ ~Readable(s, p, 12)
         \/ Word(s, p) # 0 \/ Word(s, p + 4) <= 0
         \/ ~Readable(s, p + 12, Word(s, p + 4))
      THEN Fault ELSE StringAt(s, p + 12, Word(s, p + 4))

\* The restart points from p on, n of them, up to the first whose key is above k.
RestartsUpTo(s, k, start, p, n) ==
  LET From[i \in Nat] ==       \* those behind the first i
        IF i >= n THEN <<>>
        ELSE IF ~Readable(s, p + 12 * i, 12) THEN <<Fault>>
        ELSE LET num == Word(s, p + 12 * i)
                 rg == OffsetAt(s, p + 12 * i + 4)
                 full == FindFullKeyByRP(s, start, num, rg)
             IN  IF full = Fault THEN <<Fault>>
                 ELSE IF Less(k, full) THEN <<>>
                 ELSE <<[num |-> num, full |-> full] @@ rg>> \o From[i + 1]
  IN  From[0]

\* The records of a group, n of them from p on.  All three lengths are read
\* from a record's first word; substr(0, n).data() is the whole full key.
Scan(s, k, full, p, n) ==
  LET From[q \in Nat, m \in Int] ==       \* the last m records, from q on
        IF m <= 0 THEN [val |-> <<>>, at |-> q]
        ELSE IF ~Readable(s, q, 12) THEN Fault
        ELSE LET len == Word(s, q)
                 behind == q + 12 + 2 * len
             IN  IF len < 0 \/ ~Readable(s, q + 12, 2 * len) THEN Fault
                 ELSE IF full \o StringAt(s, q + 12, len) = k
                 THEN [val |-> StringAt(s, q + 12 + len, len), at |-> behind]
                 ELSE From[behind, m - 1]
  IN  From[p, n]

\* Restart_Num and Restart_Offset are taken from the block's last 12 bytes.
FindKeyInDB(s, k, start, end) ==
  IF ~Readable(s, end - 12, 12) THEN Fault
  ELSE LET restarts == RestartsUpTo(s, k, start, start + OffsetAt(s, end - 8).offset,
                                    Word(s, end - 12))
       IN  IF restarts = <<>> THEN None
           ELSE IF Last(restarts) = Fault THEN Fault
           ELSE LET rg == Last(restarts)
                    found == Scan(s, k, rg.full, start + rg.offset, rg.num)
                IN  IF found = Fault THEN Fault
                    ELSE IF found.at > start + rg.offset + rg.size THEN Fault
                    ELSE IF found.val = <<>> THEN None ELSE found.val

Seek(s, ix, k) ==
  LET i == IF Exists(filter, k) THEN FindKeyDBIndex(ix, k) ELSE 0
  IN  IF i = 0 THEN None
      ELSE FindKeyInDB(s, k, ix[i].offset, ix[i].offset + ix[i].size)

-----------------------------------------------------------------------------
(* Properties. *)

\* A finished file in which no byte is a newline, and whose places are int32_t.
Legible == status = "done" /\ Newline \notin Range(File) /\ Len(File) <= 2147483647

\* Parse finds in the file's bytes the footer and the index that the builder
\* wrote, to the last entry's last byte, and the footer leads to the filter,
\* whatever the sizes of the blocks, of the filter and of the keys: for files in
\* which no byte is a newline.
ParseReadsBack ==
  Legible =>
    LET s == ReadAll(File)
    IN  /\ Parse(s) = [header |-> footer, index |-> index]
        /\ StringAt(s, footer.filter.offset, footer.filter.size) = FilterBytes(filter)

\* The restart points in the file's bytes, each behind its block's records, lead
\* FindFullKeyByRP to the key their group begins with, unless they count no
\* records (a last group that is full).
RestartsLeadToKeys ==
  Legible =>
    LET s == ReadAll(File)
    IN  \A i \in DOMAIN blocks : \A j \in DOMAIN blocks[i].restarts :
          LET p == Start(i) + DataSize(blocks[i].recs) + 12 * (j - 1)
              num == Word(s, p)
          IN  num # 0 =>
                FindFullKeyByRP(s, Start(i), num, OffsetAt(s, p + 4))
                  = Head(ReadGroup(blocks[i], blocks[i].restarts[j])).key

\* sst_parser.h:95, if the key exists Seek finds it and returns its value.
SeekFindsEntries ==
  Legible =>
    \A e \in Range(added) : Seek(ReadAll(File), Parse(ReadAll(File)).index, e.key) = Content(e.val)
=============================================================================
