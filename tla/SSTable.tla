------------------------------ MODULE SSTable -------------------------------
(***************************************************************************)
(* SSTableBuilder and DataBlockBuilder (src/table): the records of a data  *)
(* block with their keys cut to what differs from the key before, restart  *)
(* points, the division into blocks, the bloom filter, the index with its  *)
(* separator keys and the footer.  A key is a sequence of bytes, a value   *)
(* is its length, sizes and offsets are those of the file.                 *)
(***************************************************************************)
EXTENDS BloomFilter, Sequences, SequencesExt

CONSTANTS Keys,                  \* keys the memtable may hand over
          ValLens,               \* lengths of their values
          Space, Byte,           \* the byte ' ', and how many bytes there are
          RESTART_INTERVAL, MAX_DATA_BLOCK_SIZE,
          KeyNums,               \* sizes of the memtable when a builder was made for it
          None,
          MaxAdds                \* bound

ASSUME SizeAssumption == /\ RESTART_INTERVAL \in Nat \ {0} /\ ValLens \subseteq Nat
                         /\ Byte \in Nat \ {0} /\ Space \in 0..Byte - 1
ASSUME KeyAssumption == Keys \subseteq Seq(0..Byte - 1) /\ KeyNums \subseteq Nat \ {0}

VARIABLES
  recs,      \* DataBlockBuilder: the records of the block that is being built
  groups,    \*   record_group_offset
  blkPre,    \*   pre_key
  recNum,    \*   record_num
  preKey,    \* SSTableBuilder: pre_key
  offset,    \*   FilterBlock_offset.offset
  blocks,    \* the blocks that were appended to the file
  index,     \* index_data
  filter,    \* the filter block
  footer,
  keysNum,   \* the keys the filter was sized for
  status,
  added      \* (history) the entries in the order they were added

vars == <<recs, groups, blkPre, recNum, preKey, offset, blocks, index, filter, footer, keysNum,
          status, added>>
blockVars == <<recs, groups, blkPre, recNum>>

Init == /\ recs = <<>> /\ groups = <<>> /\ blkPre = <<>> /\ recNum = 0
        /\ preKey = <<>> /\ offset = 0
        /\ blocks = <<>> /\ index = <<>> /\ filter = None /\ footer = None
        /\ keysNum \in KeyNums
        /\ status = "open" /\ added = <<>>

-----------------------------------------------------------------------------
(* Keys, as std::string compares and cuts them. *)

Less(a, b) == \/ IsStrictPrefix(a, b)
              \/ \E i \in DOMAIN a \cap DOMAIN b :
                   SubSeq(a, 1, i - 1) = SubSeq(b, 1, i - 1) /\ a[i] < b[i]

SharedLen(a, b) == Len(LongestCommonPrefix({a, b}))

\* The last byte plus one, in the width of a byte.
Bumped(k) == [k EXCEPT ![Len(k)] = (@ + 1) % Byte]

\* find_shortest_key.  It counts the places where the keys agree, wherever
\* they are.  (Mutant: the separator is cut one byte short.)
Agree(a, b) == Cardinality({i \in DOMAIN a \cap DOMAIN b : a[i] = b[i]})
TooShort(a, b) == IF Agree(a, b) \in {0, Len(a)} THEN a
                  ELSE SubSeq(a, 1, Agree(a, b))
ShortestKey(a, b) == IF Agree(a, b) = Len(a) THEN Append(a, Space)
                     ELSE Bumped(SubSeq(a, 1, Agree(a, b) + 1))

-----------------------------------------------------------------------------
(* DataBlockBuilder. *)

RecSize(r) == 12 + Len(r.rest) + r.val
DataSize(rs) == FoldLeft(LAMBDA n, r : n + RecSize(r), 0, rs)

NeedFullKey == recNum % RESTART_INTERVAL = 0

\* The record of k: a full key at a restart point, elsewhere what k does not
\* share with the key before.
Record(k, v) == LET s == IF NeedFullKey THEN 0 ELSE SharedLen(k, blkPre)
                IN  [shared |-> s, rest |-> SubSeq(k, s + 1, Len(k)), val |-> v]

\* The block with k: its records and restart points.
\* (Mutant of GroupsWith: the restart point is noted after the record.)
GroupsAfter(k, v) == IF NeedFullKey THEN Append(groups, DataSize(Append(recs, Record(k, v))))
                     ELSE groups
GroupsWith(k, v) == IF NeedFullKey THEN Append(groups, DataSize(recs)) ELSE groups

\* finish_data_block.  The last group's number is record_num % 16: 0 for a
\* full one.
Restart(rs, gs, n, i) ==
  IF i < Len(gs)
  THEN [num |-> RESTART_INTERVAL, size |-> gs[i + 1] - gs[i], offset |-> gs[i]]
  ELSE [num |-> n % RESTART_INTERVAL, size |-> DataSize(rs) - gs[i], offset |-> gs[i]]

Block(rs, gs, n) ==
  [recs |-> rs, restarts |-> [i \in 1..Len(gs) |-> Restart(rs, gs, n, i)],
   restartNum |-> ((n - 1) \div RESTART_INTERVAL) + 1,
   size |-> DataSize(rs) + 12 * Len(gs) + 4]

\* (Mutant of clear: record_num stays.)
ClearKeepNum == recs' = <<>> /\ groups' = <<>> /\ blkPre' = <<>> /\ UNCHANGED recNum
Clear == recs' = <<>> /\ groups' = <<>> /\ blkPre' = <<>> /\ recNum' = 0

-----------------------------------------------------------------------------
(* SSTableBuilder. *)

Die == /\ status' = "aborted"
       /\ UNCHANGED <<blockVars, preKey, offset, blocks, index, filter, footer, keysNum, added>>

\* SSTableBuilder::add, DataBlockBuilder::add under it: nothing for an empty
\* key; when the block has grown past its limit it goes to the file and the
\* index.  find_shortest_key asserts that there was a key before.
Add(k, v) ==
  /\ status = "open" /\ k # <<>>
  /\ Len(added) < MaxAdds                                          \* bound: MaxAdds
  /\ added # <<>> => Less(Last(added).key, k)     \* ConvertToL1SST adds in order
  /\ LET rs == Append(recs, Record(k, v))
         gs == GroupsWith(k, v)
         b == Block(rs, gs, recNum + 1)
     IN  IF DataSize(rs) <= MAX_DATA_BLOCK_SIZE
         THEN /\ recs' = rs /\ groups' = gs /\ blkPre' = k /\ recNum' = recNum + 1
              /\ preKey' = k
              /\ added' = Append(added, [key |-> k, val |-> v])
              /\ UNCHANGED <<offset, blocks, index, filter, footer, keysNum, status>>
         ELSE IF preKey = <<>> THEN Die
         ELSE /\ blocks' = Append(blocks, b)
              /\ offset' = offset + b.size
              /\ index' = Append(index, [key |-> ShortestKey(preKey, k),
                                         size |-> b.size, offset |-> offset'])
              /\ Clear
              /\ preKey' = k
              /\ added' = Append(added, [key |-> k, val |-> v])
              /\ UNCHANGED <<filter, footer, keysNum, status>>

IndexSize(ix) == SumFunction([i \in DOMAIN ix |-> 12 + Len(ix[i].key)])

\* (Mutant of Footer: the index starts where the filter does.)
FooterAtFilter(end, fs, ix) == [filter |-> [offset |-> end, size |-> fs],
                                index |-> [offset |-> end, size |-> IndexSize(ix)]]
Footer(end, fs, ix) == [filter |-> [offset |-> end, size |-> fs],
                        index |-> [offset |-> end + fs, size |-> IndexSize(ix)]]

\* finish_sst: the block that was begun, the filter, the index, the footer.
Finish ==
  /\ status = "open"
  /\ LET b == Block(recs, groups, recNum)
         ix == IF recs = <<>> THEN index
               ELSE Append(index, [key |-> Bumped(preKey), size |-> b.size, offset |-> offset])
         f == CreateFilter(keysNum, {e.key : e \in Range(added)})
         end == IF recs = <<>> THEN offset ELSE offset + b.size
     IN  IF ix = <<>> THEN Die               \* assert(index_data.size() > 0)
         ELSE /\ blocks' = IF recs = <<>> THEN blocks ELSE Append(blocks, b)
              /\ index' = ix
              /\ filter' = f
              /\ footer' = Footer(end, BlockSize(f), ix)
              /\ offset' = 0 /\ preKey' = <<>>
              /\ Clear
              /\ status' = "done"
              /\ UNCHANGED <<keysNum, added>>

Next == \/ \E k \in Keys, v \in ValLens : Add(k, v)
        \/ Finish

Spec == Init /\ [][Next]_vars

-----------------------------------------------------------------------------
(* Reading. *)

\* FindKeyDBIndex: the first entry above the key, 0 if there is none.
FindKeyDBIndex(ix, k) == SelectInSeq(ix, LAMBDA e : Less(k, e.key))

\* The block that Seek reads for k, 0 for "not here".
SeekBlock(k) == IF Exists(filter, k) THEN FindKeyDBIndex(index, k) ELSE 0

\* A block read by undoing what add did: from each restart point on, for the
\* size it gives, each key from the key before, with which it shares the length
\* in its record (README.md 3.1; data_block_builder.h:45 says otherwise, see
\* GroupsFollowSchema).
StartOf(b, i) == DataSize(SubSeq(b.recs, 1, i - 1))
Before(b, place) == Cardinality({i \in DOMAIN b.recs : StartOf(b, i) < place})
ReadGroup(b, g) ==
  LET from == Before(b, g.offset)
      n == Before(b, g.offset + g.size) - from
      Key[j \in 0..n] ==
        IF j = 0 THEN <<>>
        ELSE SubSeq(Key[j - 1], 1, b.recs[from + j].shared) \o b.recs[from + j].rest
  IN  [j \in 1..n |-> [key |-> Key[j], val |-> b.recs[from + j].val]]
ReadBlock(b) == FlattenSeq([i \in DOMAIN b.restarts |-> ReadGroup(b, b.restarts[i])])

Start(i) == SumFunction([j \in 1..i - 1 |-> blocks[j].size])
HasKey(i, k) == \E e \in Range(ReadBlock(blocks[i])) : e.key = k

\* A record's key as data_block_builder.h:45 has it: what it shares is the head of
\* the full key at the restart point.
KeyFromFull(full, r) == SubSeq(full, 1, Min({r.shared, Len(full)})) \o r.rest

-----------------------------------------------------------------------------
(* Properties. *)

\* Every variable holds a value of its type; a record's cut key never claims
\* to share more than the key before has.
TypeOK == /\ \A i \in DOMAIN recs : recs[i].shared >= 0 /\ recs[i].val \in ValLens
          /\ \A i \in DOMAIN groups : groups[i] \in 0..DataSize(recs) - 1
          /\ recNum = Len(recs) /\ blkPre \in Keys \cup {<<>>} /\ preKey \in Keys \cup {<<>>}
          /\ offset \in Nat
          /\ \A i \in DOMAIN index : index[i].key # <<>> /\ index[i].offset \in Nat
          /\ status \in {"open", "done", "aborted"}

\* Cutting each key against the key before, restarting every RESTART_INTERVAL
\* records and dividing into blocks lose nothing: the blocks, read from their
\* restart points and each key put together with the key before, give back the
\* entries that were added, in order.
BlocksReadBack ==
  LET read == FlattenSeq([i \in DOMAIN blocks |-> ReadBlock(blocks[i])])
  IN  IF status = "done" THEN read = added
      ELSE read = SubSeq(added, 1, Len(added) - Len(recs))

\* The index leads every key that is not the last of its block to its block.
IndexSeparates ==
  \A i \in DOMAIN blocks : \A k \in {e.key : e \in Range(Front(ReadBlock(blocks[i])))} :
    FindKeyDBIndex(index, k) = i

\* No false negative: the filter in the file admits every key of the table,
\* also when more keys came than it was sized for.
FilterAdmitsKeys == status = "done" => \A e \in Range(added) : Exists(filter, e.key)

\* The index entry that Seek goes by for a key of the table is that of the
\* block that holds it, with the block's place: README.md 3.3.
IndexLeadsToKey ==
  \A e \in Range(added) :
    LET i == SeekBlock(e.key)
    IN  i # 0 /\ HasKey(i, e.key) /\ index[i].offset = Start(i)

\* data_block_builder.h:56 and :45: a restart point has the number of the records
\* of its group, and their keys share their heads with its full key.
GroupsFollowSchema(b) ==
  \A rg \in Range(b.restarts) :
    LET es == ReadGroup(b, rg)
        from == Before(b, rg.offset)
    IN  /\ rg.num = Len(es)
        /\ \A j \in DOMAIN es : es[j].key = KeyFromFull(es[1].key, b.recs[from + j])

\* A finished table is what the schemas say that SSTParser reads it by: in its
\* index (README.md 3.3) and in the record groups of its blocks
\* (data_block_builder.h:45 and :56).
FileFollowsSchema ==
  status = "done" => IndexLeadsToKey /\ \A i \in DOMAIN blocks : GroupsFollowSchema(blocks[i])
=============================================================================
