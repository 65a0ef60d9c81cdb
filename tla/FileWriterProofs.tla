-------------------------- MODULE FileWriterProofs --------------------------
(***************************************************************************)
(* The log's writer, for every size of the buffer, of the header and of    *)
(* the entries: its types, that no byte is lost on its way, that what was  *)
(* acknowledged stays whole, and that the writer is a durable log.         *)
(***************************************************************************)
EXTENDS FileWriter, SequenceTheorems, TLAPS

Of(R) == R \X Nat        \* the bytes of the entries R
AByte == Of(1..Len(len))
Adding == {"append", "full", "copy", "flush", "sync", "fsync"}
Record == IF part = "header" THEN Header ELSE Header \o Body

\* What each place says of what is on its way.
Placed ==
  /\ pc \in Adding => len # <<>>
  /\ pc \in {"idle", "closed", "dead", "flush", "sync", "fsync"} => data = <<>>
  /\ pc \in {"idle", "fsync", "closed", "dead"} => buffer = <<>>
  /\ pc \in {"flush", "sync", "fsync"} => part = "entry"
  /\ pc = "append" => data = IF part = "header" THEN Header ELSE Body

\* The last that append was given is the record of the latest entry.
GivenLast == pc \in Adding => \E g \in Seq(AByte) : given = g \o Record

IInv == TypeOK /\ Placed /\ NothingLostOnTheWay /\ GivenLast /\ AckedIsWhole

-----------------------------------------------------------------------------
(* Sequences of bytes. *)

LEMMA BytesProps ==
  ASSUME NEW R, NEW r \in R, NEW from \in Nat, NEW n \in Nat
  PROVE  /\ Bytes(r, from, n) \in Seq(Of(R))
         /\ Len(Bytes(r, from, n)) = n
         /\ \A i \in 1..n : Bytes(r, from, n)[i] = <<r, from + i>>
<1> DEFINE e(i) == <<r, from + i>>
<1>1. \A i \in 1..n : e(i) \in Of(R)
  BY DEF Of
<1>2. Bytes(r, from, n) = [i \in 1..n |-> e(i)]
  BY DEF Bytes
<1> HIDE DEF e
<1>3. /\ Bytes(r, from, n) \in Seq(Of(R))
      /\ Len(Bytes(r, from, n)) = n
      /\ \A i \in 1..n : Bytes(r, from, n)[i] = e(i)
  BY <1>1, <1>2
<1> QED BY <1>3 DEF e

LEMMA BytesFromStart ==
  ASSUME NEW R, NEW r \in R, NEW n \in Nat
  PROVE  /\ Bytes(r, 0, n) \in Seq(Of(R))
         /\ Len(Bytes(r, 0, n)) = n
         /\ \A i \in 1..n : Bytes(r, 0, n)[i] = <<r, i>>
<1>1. /\ Bytes(r, 0, n) \in Seq(Of(R))
      /\ Len(Bytes(r, 0, n)) = n
      /\ \A i \in 1..n : Bytes(r, 0, n)[i] = <<r, 0 + i>>
  <2>1. Bytes(r, 0, n) \in Seq(Of(R))
    BY BytesProps
  <2>2. Len(Bytes(r, 0, n)) = n
    BY BytesProps
  <2>3. \A i \in 1..n : Bytes(r, 0, n)[i] = <<r, 0 + i>>
    BY BytesProps
  <2> QED BY <2>1, <2>2, <2>3
<1>2. \A i \in 1..n : 0 + i = i
  OBVIOUS
<1>3. ASSUME NEW i \in 1..n PROVE Bytes(r, 0, n)[i] = <<r, i>>
  <2>1. Bytes(r, 0, n)[i] = <<r, 0 + i>>
    BY <1>1
  <2>2. 0 + i = i
    BY <1>2
  <2> QED BY <2>1, <2>2, Zenon
<1> QED BY <1>1, <1>3

\* Two parts of an entry's bytes are the whole.
LEMMA BytesJoin ==
  ASSUME NEW R, NEW r \in R, NEW a \in Nat, NEW b \in Nat
  PROVE  Bytes(r, 0, a) \o Bytes(r, a, b) = Bytes(r, 0, a + b)
<1> DEFINE x == Bytes(r, 0, a)
           y == Bytes(r, a, b)
           z == Bytes(r, 0, a + b)
<1>1. x \in Seq(Of(R)) /\ Len(x) = a /\ \A i \in 1..a : x[i] = <<r, i>>
  BY BytesFromStart
<1>2. y \in Seq(Of(R)) /\ Len(y) = b /\ \A i \in 1..b : y[i] = <<r, a + i>>
  <2>1. Bytes(r, a, b) \in Seq(Of(R))
    BY BytesProps
  <2>2. Len(Bytes(r, a, b)) = b
    BY BytesProps
  <2>3. \A i \in 1..b : Bytes(r, a, b)[i] = <<r, a + i>>
    BY BytesProps
  <2> QED BY <2>1, <2>2, <2>3
<1>3. z \in Seq(Of(R)) /\ Len(z) = a + b /\ \A i \in 1..(a + b) : z[i] = <<r, i>>
  <2>1. a + b \in Nat
    OBVIOUS
  <2> HIDE DEF z
  <2>2. z = Bytes(r, 0, a + b)
    BY DEF z
  <2> QED BY <2>1, <2>2, BytesFromStart
<1> HIDE DEF x, y, z
<1>4. /\ x \o y \in Seq(Of(R)) /\ Len(x \o y) = a + b
      /\ \A i \in 1..(a + b) : (x \o y)[i] = IF i <= a THEN x[i] ELSE y[i - a]
  BY <1>1, <1>2, ConcatProperties
<1>5. ASSUME NEW i \in 1..(a + b) PROVE (x \o y)[i] = z[i]
  <2>1. CASE i <= a
    <3>1. i \in 1..a
      BY <2>1
    <3> QED BY <1>1, <1>3, <1>4, <2>1, <3>1
  <2>2. CASE ~(i <= a)
    <3>1. i - a \in 1..b /\ a + (i - a) = i
      BY <2>2
    <3>2. y[i - a] = <<r, i>>
      BY <1>2, <3>1
    <3> QED BY <1>3, <1>4, <2>2, <3>2
  <2> QED BY <2>1, <2>2
<1>6. x \o y = z
  BY <1>3, <1>4, <1>5, SeqEqual
<1> QED BY <1>6 DEF x, y, z

USE SizeAssumption, BoundAssumption

LEMMA LensAreNats ==
  ASSUME TypeOK
  PROVE  /\ Len(len) \in Nat
         /\ \A r \in DOMAIN len : len[r] \in Nat /\ Size(r) \in Nat /\ Size(r) >= kHeaderSize
         /\ DOMAIN len = 1..Len(len)
<1>1. len \in Seq(LogLens)
  BY DEF TypeOK
<1>2. /\ Len(len) \in Nat /\ DOMAIN len = 1..Len(len)
      /\ len \in [1..Len(len) -> LogLens]
  BY <1>1, LenProperties
<1>3. \A r \in DOMAIN len : len[r] \in Nat
  BY <1>2
<1> QED BY <1>2, <1>3 DEF Size

LEMMA RecordParts ==
  ASSUME TypeOK, len # <<>>
  PROVE  /\ Entry \in 1..Len(len) /\ Size(Entry) \in Nat
         /\ Header \in Seq(AByte) /\ Body \in Seq(AByte)
         /\ Header \o Body = Bytes(Entry, 0, Size(Entry))
         /\ Record \in Seq(AByte)
<1>1. Entry \in 1..Len(len) /\ Size(Entry) \in Nat /\ Size(Entry) >= kHeaderSize
  <2>1. len \in Seq(LogLens) /\ Len(len) \in Nat
    BY DEF TypeOK
  <2>2. Len(len) # 0
    BY <2>1
  <2> QED BY <2>1, <2>2, LensAreNats DEF Entry
<1>2. Header \in Seq(AByte) /\ Body \in Seq(AByte)
  BY <1>1, BytesProps, LensAreNats DEF AByte, Header, Body
<1>3. Header \o Body = Bytes(Entry, 0, Size(Entry))
  BY <1>1, BytesJoin, LensAreNats DEF Header, Body, Size
<1>4. Header \o Body \in Seq(AByte)
  BY <1>2, ConcatProperties
<1> QED BY <1>1, <1>2, <1>3, <1>4 DEF Record

\* Files that agree up to n agree on what lies before n.
LEMMA SamePart ==
  ASSUME NEW S, NEW f \in Seq(S), NEW g \in Seq(S), NEW n \in Nat,
         n <= Len(f), n <= Len(g), \A j \in 1..n : g[j] = f[j],
         NEW i \in Nat, NEW k \in Nat, i + k <= n
  PROVE  SubSeq(g, i + 1, i + k) = SubSeq(f, i + 1, i + k)
<1> DEFINE x == SubSeq(f, i + 1, i + k)
           y == SubSeq(g, i + 1, i + k)
<1>1. \A j \in (i + 1)..(i + k) : f[j] \in S /\ g[j] \in S
  OBVIOUS
<1>2. /\ x \in Seq(S) /\ Len(x) = k /\ \A j \in 1..k : x[j] = f[i + j]
      /\ y \in Seq(S) /\ Len(y) = k /\ \A j \in 1..k : y[j] = g[i + j]
  BY <1>1, SubSeqProperties
<1>3. \A j \in 1..k : i + j \in 1..n
  OBVIOUS
<1> HIDE DEF x, y
<1>4. x = y
  BY <1>2, <1>3, SeqEqual
<1> QED BY <1>4 DEF x, y

-----------------------------------------------------------------------------
(* What each step keeps. *)

LEMMA Splits ==
  ASSUME NEW S, data \in Seq(S), NEW n \in 0..Len(data)
  PROVE  /\ First(n) \in Seq(S) /\ Len(First(n)) = n
         /\ Rest(n) \in Seq(S)
         /\ First(n) \o Rest(n) = data
         /\ n = Len(data) => First(n) = data
<1> DEFINE x == SubSeq(data, 1, n)
           y == SubSeq(data, n + 1, Len(data))
<1>0. Len(data) \in Nat /\ n \in Nat /\ n <= Len(data) /\ \A i \in 1..Len(data) : data[i] \in S
  OBVIOUS
<1>1. x \in Seq(S) /\ Len(x) = n /\ \A j \in 1..n : x[j] = data[j]
  BY <1>0, SubSeqProperties
<1>2. y \in Seq(S) /\ Len(y) = Len(data) - n /\ \A j \in 1..(Len(data) - n) : y[j] = data[n + j]
  BY <1>0, SubSeqProperties
<1> HIDE DEF x, y
<1>3. /\ x \o y \in Seq(S) /\ Len(x \o y) = Len(data)
      /\ \A i \in 1..Len(data) : (x \o y)[i] = IF i <= n THEN x[i] ELSE y[i - n]
  <2>1. /\ x \o y \in Seq(S) /\ Len(x \o y) = Len(x) + Len(y)
        /\ \A i \in 1..(Len(x) + Len(y)) : (x \o y)[i] = IF i <= Len(x) THEN x[i] ELSE y[i - Len(x)]
    BY <1>1, <1>2, ConcatProperties
  <2>2. Len(x) + Len(y) = Len(data) /\ Len(x) = n
    BY <1>0, <1>1, <1>2
  <2> QED BY <2>1, <2>2
<1>4. ASSUME NEW i \in 1..Len(data) PROVE (x \o y)[i] = data[i]
  <2>1. CASE i <= n
    BY <1>0, <1>1, <1>3, <2>1
  <2>2. CASE ~(i <= n)
    <3>1. i - n \in 1..(Len(data) - n) /\ n + (i - n) = i
      BY <1>0, <2>2
    <3> QED BY <1>2, <1>3, <2>2, <3>1
  <2> QED BY <2>1, <2>2
<1>5. x \o y = data
  BY <1>3, <1>4, SeqEqual
<1>6. n = Len(data) => x = data
  BY <1>1, SeqEqual
<1> QED BY <1>1, <1>2, <1>5, <1>6 DEF First, Rest, x, y

\* What was acknowledged stays whole while the file's synced part stays.
LEMMA AckedKept ==
  ASSUME TypeOK, AckedIsWhole, TypeOK', acked' = acked,
         Len(len) <= Len(len'), \A r \in DOMAIN len : len'[r] = len[r],
         synced <= synced', \A i \in 1..synced : file'[i] = file[i]
  PROVE  AckedIsWhole'
<1> DEFINE S == AByte \cup AByte'
<1>1. file \in Seq(S) /\ file' \in Seq(S)
  <2>1. file \in Seq(AByte) /\ file' \in Seq(AByte')
    BY DEF TypeOK, AByte, Of
  <2> HIDE DEF AByte
  <2> QED BY <2>1
<1>2. /\ synced \in Nat /\ synced' \in Nat /\ synced <= Len(file) /\ synced' <= Len(file')
  BY <1>1 DEF TypeOK
<1> HIDE DEF S
<1>3. SUFFICES ASSUME NEW r \in acked PROVE Whole(r, synced)'
  BY DEF AckedIsWhole
<1>4. r \in DOMAIN len /\ Whole(r, synced)
  BY DEF AckedIsWhole, TypeOK
<1>5. Size(r) \in Nat /\ Size(r)' = Size(r)
  BY <1>4, LensAreNats DEF Size
<1>6. Bytes(r, 0, Size(r))' = Bytes(r, 0, Size(r))
  BY <1>5 DEF Bytes
<1>7. PICK i \in 0..(synced - Size(r)) : SubSeq(file, i + 1, i + Size(r)) = Bytes(r, 0, Size(r))
  BY <1>4 DEF Whole, Starts
<1>8. i \in Nat /\ i + Size(r) <= synced /\ i \in 0..(synced' - Size(r))
  BY <1>2, <1>5
<1>9. synced <= Len(file') /\ \A j \in 1..synced : file'[j] = file[j]
  BY <1>1, <1>2
<1>10. SubSeq(file', i + 1, i + Size(r)) = SubSeq(file, i + 1, i + Size(r))
  BY <1>1, <1>2, <1>5, <1>8, <1>9, SamePart, SMTT(60)
<1> QED BY <1>5, <1>6, <1>7, <1>8, <1>10 DEF Whole, Starts

LEMMA TypesOf ==
  ASSUME TypeOK
  PROVE  /\ buffer \in Seq(AByte) /\ data \in Seq(AByte) /\ file \in Seq(AByte)
         /\ given \in Seq(AByte) /\ base \in Seq(AByte)
         /\ Len(buffer) \in Nat /\ Len(buffer) <= BUFFER_SIZE
         /\ synced \in Nat /\ synced <= Len(file) /\ Len(file) \in Nat
<1>1. \A s \in {buffer, data, file, given, base} : s \in Seq(AByte)
  BY DEF TypeOK, AByte, Of
<1> HIDE DEF AByte
<1> QED BY <1>1 DEF TypeOK

LEMMA ConcatAgain == \A a, b, c \in Seq(AByte) : (a \o b) \o c = a \o (b \o c)
<1> DEFINE S == AByte
<1>1. S = AByte
  OBVIOUS
<1> HIDE DEF S
<1>2. ASSUME NEW a \in Seq(S), NEW b \in Seq(S), NEW c \in Seq(S)
      PROVE  (a \o b) \o c = a \o (b \o c)
  BY ConcatAssociative
<1> QED BY <1>1, <1>2

\* What was on its way was the rest of an append: the next one is given, or none.
LEMMA AppendedKeeps ==
  ASSUME TypeOK, len # <<>>, Appended, len' = len, base' = base,
         file' \in Seq(AByte), buffer' \in Seq(AByte),
         file' \o buffer' = base \o given,
         \E g \in Seq(AByte) : given = g \o Record
  PROVE  /\ data' \in Seq(AByte) /\ given' \in Seq(AByte)
         /\ file' \o buffer' \o data' = base \o given'
         /\ GivenLast'
         /\ pc' \in {"append", "flush"} /\ part' = "entry"
         /\ pc' = "append" => data' = Body'
         /\ pc' = "flush" => data' = <<>>
<1>1. Record \in Seq(AByte) /\ Header \in Seq(AByte) /\ Body \in Seq(AByte)
  BY RecordParts
<1>2. Header' = Header /\ Body' = Body /\ AByte' = AByte
  BY DEF Header, Body, AByte, Bytes, Entry
<1>3. base \in Seq(AByte) /\ given \in Seq(AByte)
  BY TypesOf
<1>4. PICK g \in Seq(AByte) : given = g \o Record
  OBVIOUS
<1>5. CASE part = "header"
  <2>1. part' = "entry" /\ pc' = "append" /\ data' = Body /\ given' = given \o Body
    BY <1>5 DEF Appended
  <2>2. file' \o buffer' \o data' = base \o given'
    <3>1. Body \in Seq(AByte) /\ base \in Seq(AByte) /\ given \in Seq(AByte)
      BY <1>1, <1>3
    <3>2. (file' \o buffer') \o Body = (base \o given) \o Body
      BY Zenon
    <3>3. (base \o given) \o Body = base \o (given \o Body)
      BY <3>1, ConcatAgain, ZenonT(60)
    <3> HIDE DEF Body
    <3> QED BY <2>1, <3>2, <3>3
  <2>3. given' = g \o (Header \o Body)
    <3>1. (g \o Header) \o Body = g \o (Header \o Body)
      BY <1>1, ConcatAgain, ZenonT(60)
    <3>2. given = g \o Header
      BY <1>4, <1>5 DEF Record
    <3> QED BY <2>1, <3>1, <3>2
  <2>4. Record' = Header \o Body
    BY <1>2, <2>1 DEF Record
  <2>5. GivenLast'
    BY <1>2, <2>3, <2>4 DEF GivenLast
  <2> HIDE DEF AByte, Body, Header
  <2>6. data' \in Seq(AByte) /\ given' \in Seq(AByte)
    BY <1>1, <1>3, <2>1
  <2> QED BY <1>2, <2>1, <2>2, <2>5, <2>6
<1>6. CASE part # "header"
  <2>1. /\ pc' = "flush" /\ data' = <<>> /\ part' = part /\ given' = given
        /\ part = "entry"
    BY <1>6 DEF Appended, TypeOK
  <2>2. Record' = Record
    BY <1>2, <2>1 DEF Record
  <2>3. file' \o buffer' \in Seq(AByte)
    BY ConcatProperties
  <2>4. file' \o buffer' \o data' = base \o given'
    BY <2>1, <2>3, ConcatEmptySeq
  <2>5. GivenLast'
    BY <1>2, <1>4, <2>1, <2>2 DEF GivenLast
  <2> QED BY <1>3, <2>1, <2>4, <2>5
<1> QED BY <1>5, <1>6

LEMMA SameEntry ==
  ASSUME len' = len
  PROVE  /\ AByte' = AByte /\ Header' = Header /\ Body' = Body
         /\ part' = part => Record' = Record
BY DEF Record, Header, Body, AByte, Bytes, Entry

\* The types, from those of the bytes.
LEMMA TypesFrom ==
  ASSUME \A s \in {buffer, data, file, given, base} : s \in Seq(AByte),
         Len(buffer) <= BUFFER_SIZE, synced \in 0..Len(file),
         part \in {"header", "entry"}, len \in Seq(LogLens), acked \subseteq DOMAIN len,
         pc \in {"idle", "append", "full", "copy", "flush", "sync", "fsync", "closed", "dead"},
         deaths \in 0..MaxDeaths, errors \in 0..MaxErrors
  PROVE  TypeOK
BY DEF TypeOK, AByte, Of

LEMMA InitInv == Init => IInv
<1> SUFFICES ASSUME Init PROVE IInv
  OBVIOUS
<1>1. \A S : <<>> \in Seq(S)
  OBVIOUS
<1>2. TypeOK
  <2>1. \A s \in {buffer, data, file, given, base} : s \in Seq(AByte)
    BY <1>1 DEF Init
  <2> QED BY <2>1, TypesFrom DEF Init
<1>3. Placed /\ GivenLast /\ AckedIsWhole
  BY DEF Init, Placed, GivenLast, AckedIsWhole, Adding
<1>4. NothingLostOnTheWay
  BY DEF Init, NothingLostOnTheWay
<1> QED BY <1>2, <1>3, <1>4 DEF IInv

LEMMA AddLogKeeps ==
  ASSUME IInv, NEW n \in LogLens, AddLog(n)
  PROVE  IInv'
<1>1. len' = Append(len, n) /\ len \in Seq(LogLens) /\ Len(len) \in Nat
  BY DEF AddLog, IInv, TypeOK
<1>2. /\ len' \in Seq(LogLens) /\ Len(len') = Len(len) + 1
      /\ \A r \in DOMAIN len : r \in DOMAIN len' /\ len'[r] = len[r]
      /\ len' # <<>>
  BY <1>1
<1>3. Entry' = Len(len) + 1 /\ Len(len)' \in Nat /\ Len(len) + 1 \in 1..Len(len')
  BY <1>1, <1>2 DEF Entry
<1>4. data' = Header'
  BY <1>3 DEF AddLog, Header, Bytes
<1>5. data' \in Seq(AByte')
  BY <1>2, <1>3, <1>4, BytesProps DEF AByte, Header
<1>6. Seq(AByte) \subseteq Seq(AByte')
  <2>1. AByte \subseteq AByte'
    BY <1>1, <1>2 DEF AByte, Of
  <2> QED BY <2>1
<1>7. /\ data = <<>> /\ pc' = "append" /\ part' = "header" /\ given' = given \o data'
      /\ UNCHANGED <<buffer, file, synced, acked, base, deaths, errors>>
  BY DEF AddLog, IInv, Placed
<1>8. TypeOK'
  <2>1. \A s \in {buffer, data, file, given, base} : s \in Seq(AByte)
    BY TypesOf DEF IInv
  <2>2. given' \in Seq(AByte')
    BY <1>5, <1>6, <1>7, <2>1, ConcatProperties
  <2>3. \A s \in {buffer', data', file', given', base'} : s \in Seq(AByte')
    BY <1>5, <1>6, <1>7, <2>1, <2>2
  <2>4. acked' \subseteq DOMAIN len'
    BY <1>2, <1>7 DEF IInv, TypeOK
  <2> QED BY <1>2, <1>7, <2>3, <2>4 DEF IInv, TypeOK, AByte, Of
<1>9. Placed'
  BY <1>2, <1>4, <1>7 DEF Placed, Adding
<1>10. NothingLostOnTheWay'
  <2>1. file \o buffer = base \o given /\ base \in Seq(AByte') /\ given \in Seq(AByte')
    <3>1. file \o buffer \o data = base \o given
      BY DEF IInv, NothingLostOnTheWay, AddLog
    <3>2. file \o buffer \in Seq(AByte)
      BY TypesOf, ConcatProperties DEF IInv
    <3> QED BY <1>6, <1>7, <3>1, <3>2, ConcatEmptySeq, TypesOf DEF IInv
  <2>2. \A x : x = base \o given => x \o data' = base \o (given \o data')
    BY <1>5, <2>1, ConcatAssociative
  <2> QED BY <1>7, <2>1, <2>2 DEF NothingLostOnTheWay
<1>11. GivenLast'
  <2>1. Record' = Header'
    BY <1>7 DEF Record
  <2>2. given \in Seq(AByte')
    BY <1>6, TypesOf DEF IInv
  <2> QED BY <1>4, <1>7, <2>1, <2>2 DEF GivenLast
<1>12. AckedIsWhole'
  <2>1. synced' = synced /\ file' = file /\ acked' = acked /\ Len(len) <= Len(len')
    BY <1>1, <1>2, <1>7
  <2>2. \A i \in 1..synced : file'[i] = file[i]
    BY <2>1
  <2>3. synced <= synced'
    BY <2>1, TypesOf DEF IInv
  <2>4. \A r \in DOMAIN len : len'[r] = len[r]
    BY <1>2
  <2> QED BY <1>8, <2>1, <2>2, <2>3, <2>4, AckedKept DEF IInv
<1> QED BY <1>8, <1>9, <1>10, <1>11, <1>12 DEF IInv

-----------------------------------------------------------------------------
(* The steps of a call. *)

\* What a step that neither ends a call nor the process has to show.
LEMMA CallKeeps ==
  ASSUME IInv, UNCHANGED <<len, synced, acked, base, deaths, errors>>,
         file' \in Seq(AByte), buffer' \in Seq(AByte), data' \in Seq(AByte), given' \in Seq(AByte),
         Len(buffer') <= BUFFER_SIZE, part' \in {"header", "entry"},
         pc' \in {"idle", "append", "full", "copy", "flush", "sync", "fsync", "closed", "dead"},
         Len(file) <= Len(file'), \A i \in 1..Len(file) : file'[i] = file[i]
  PROVE  TypeOK' /\ AckedIsWhole'
<1>1. TypeOK'
  <2>1. \A s \in {buffer', data', file', given', base'} : s \in Seq(AByte')
    BY TypesOf, SameEntry DEF IInv
  <2>2. Len(file') \in Nat
    BY LenProperties
  <2>3. synced' \in 0..Len(file')
    BY <2>2, TypesOf DEF IInv
  <2> QED BY <2>1, <2>3 DEF IInv, TypeOK, AByte, Of
<1>2. AckedIsWhole'
  <2>1. \A i \in 1..synced : file'[i] = file[i]
    BY TypesOf DEF IInv
  <2>2. synced <= synced' /\ Len(len) <= Len(len')
    BY TypesOf, LensAreNats DEF IInv
  <2> QED BY <1>1, <2>1, <2>2, AckedKept DEF IInv
<1> QED BY <1>1, <1>2

\* The buffer goes behind the file.
LEMMA PersistKeeps ==
  ASSUME TypeOK, Persist
  PROVE  /\ file' \in Seq(AByte) /\ buffer' \in Seq(AByte) /\ Len(buffer') <= BUFFER_SIZE
         /\ Len(file) <= Len(file') /\ \A i \in 1..Len(file) : file'[i] = file[i]
         /\ buffer' = <<>> /\ file' \o buffer' = file \o buffer
<1>1. file' = file \o buffer /\ buffer' = <<>>
  BY DEF Persist
<1>2. file \in Seq(AByte) /\ buffer \in Seq(AByte)
  BY TypesOf
<1>3. /\ file' \in Seq(AByte) /\ Len(file') = Len(file) + Len(buffer)
      /\ \A i \in 1..Len(file) + Len(buffer) :
           file'[i] = IF i <= Len(file) THEN file[i] ELSE buffer[i - Len(file)]
  BY <1>1, <1>2, ConcatProperties
<1>4. Len(file) \in Nat /\ Len(buffer) \in Nat
  BY TypesOf
<1>5. file' \o buffer' = file'
  BY <1>1, <1>3, ConcatEmptySeq
<1>6. Len(buffer') = 0
  BY <1>1
<1> QED BY <1>1, <1>3, <1>4, <1>5, <1>6

\* Of the bytes on their way: where they are does not matter.
LEMMA OnTheWay ==
  ASSUME TypeOK, file \o buffer \o data = base \o given
  PROVE  /\ file \o (buffer \o data) = base \o given
         /\ data = <<>> => file \o buffer = base \o given
<1>1. file \in Seq(AByte) /\ buffer \in Seq(AByte) /\ data \in Seq(AByte)
  BY TypesOf
<1>2. (file \o buffer) \o data = file \o (buffer \o data)
  BY <1>1, ConcatAgain
<1>3. file \o buffer \in Seq(AByte)
  BY <1>1, ConcatProperties
<1>4. (file \o buffer) \o <<>> = file \o buffer
  BY <1>3, ConcatEmptySeq
<1> QED BY <1>2, <1>4

LEMMA AppendAllKeeps == IInv /\ AppendAll => IInv'
<1> SUFFICES ASSUME IInv, AppendAll PROVE IInv'
  OBVIOUS
<1>1. /\ pc = "append" /\ Len(data) < Room /\ buffer' = buffer \o data /\ Appended
      /\ UNCHANGED <<file, synced, len, acked, base, deaths, errors>>
  BY DEF AppendAll
<1>2. /\ TypeOK /\ len # <<>> /\ file \o buffer \o data = base \o given
      /\ \E g \in Seq(AByte) : given = g \o Record
  BY <1>1 DEF IInv, Placed, NothingLostOnTheWay, GivenLast, Adding
<1>3. buffer' \in Seq(AByte) /\ Len(buffer') = Len(buffer) + Len(data)
  BY <1>1, <1>2, TypesOf, ConcatProperties
<1>4. Len(buffer') <= BUFFER_SIZE
  <2>1. Len(data) \in Nat /\ Len(buffer) \in Nat
    BY <1>2, TypesOf, LenProperties
  <2> QED BY <1>1, <1>3, <2>1 DEF Room
<1>5. file' \o buffer' = base \o given /\ file' \in Seq(AByte)
  BY <1>1, <1>2, OnTheWay, TypesOf
<1>6. /\ data' \in Seq(AByte) /\ given' \in Seq(AByte)
      /\ file' \o buffer' \o data' = base \o given'
      /\ GivenLast'
      /\ pc' \in {"append", "flush"} /\ part' = "entry"
      /\ pc' = "append" => data' = Body'
      /\ pc' = "flush" => data' = <<>>
  BY <1>1, <1>2, <1>3, <1>5, AppendedKeeps
<1>7. TypeOK' /\ AckedIsWhole'
  <2>1. Len(file) <= Len(file') /\ \A i \in 1..Len(file) : file'[i] = file[i]
    BY <1>1, <1>2, TypesOf
  <2> QED BY <1>1, <1>3, <1>4, <1>5, <1>6, <2>1, CallKeeps
<1>8. Placed'
  BY <1>1, <1>2, <1>6 DEF Placed, Adding
<1>9. NothingLostOnTheWay'
  BY <1>1, <1>6 DEF NothingLostOnTheWay
<1> QED BY <1>6, <1>7, <1>8, <1>9 DEF IInv

\* The record's first part is not empty: an empty append is the entry's.
LEMMA AppendNothingKeeps == IInv /\ AppendNothing => IInv'
<1> SUFFICES ASSUME IInv, AppendNothing PROVE IInv'
  OBVIOUS
<1>1. /\ pc = "append" /\ data = <<>> /\ pc' = "sync"
      /\ UNCHANGED <<buffer, data, file, synced, part, len, acked, given, base, deaths, errors>>
  BY DEF AppendNothing
<1>2. part = "entry"
  <2>1. TypeOK /\ len # <<>> /\ data = IF part = "header" THEN Header ELSE Body
    BY <1>1 DEF IInv, Placed, Adding
  <2>2. Entry \in 1..Len(len)
    BY <2>1, RecordParts
  <2>3. Len(Header) = kHeaderSize
    <3>1. 0 \in Nat /\ kHeaderSize \in Nat /\ 0 <= kHeaderSize /\ kHeaderSize - 0 = kHeaderSize
      BY SizeAssumption
    <3> QED BY <2>2, <3>1, BytesProps DEF Header
  <2>4. Header # <<>>
    BY <2>3
  <2> QED BY <1>1, <2>1, <2>4 DEF TypeOK
<1>3. TypeOK' /\ AckedIsWhole'
  <2>1. Len(file) <= Len(file') /\ \A i \in 1..Len(file) : file'[i] = file[i]
    BY <1>1, TypesOf DEF IInv
  <2>2. file' \in Seq(AByte) /\ buffer' \in Seq(AByte) /\ data' \in Seq(AByte) /\ given' \in Seq(AByte)
        /\ Len(buffer') <= BUFFER_SIZE
    BY <1>1, TypesOf DEF IInv
  <2>3. part' \in {"header", "entry"}
    BY <1>1, <1>2
  <2> QED BY <1>1, <2>1, <2>2, <2>3, CallKeeps
<1>4. Placed'
  BY <1>1, <1>2 DEF IInv, Placed, Adding
<1>5. NothingLostOnTheWay'
  BY <1>1 DEF IInv, NothingLostOnTheWay
<1>6. GivenLast'
  BY <1>1, SameEntry DEF IInv, GivenLast, Adding
<1> QED BY <1>3, <1>4, <1>5, <1>6 DEF IInv

\* n bytes of the data move to the buffer.
LEMMA FillKeeps ==
  ASSUME TypeOK, NEW n \in 0..Len(data), n <= Room,
         file \o buffer \o data = base \o given
  PROVE  /\ buffer \o First(n) \in Seq(AByte) /\ Len(buffer \o First(n)) <= BUFFER_SIZE
         /\ Rest(n) \in Seq(AByte)
         /\ file \o (buffer \o First(n)) \o Rest(n) = base \o given
         /\ n = Len(data) => file \o (buffer \o First(n)) = base \o given
<1>1. file \in Seq(AByte) /\ buffer \in Seq(AByte) /\ data \in Seq(AByte)
  BY TypesOf
<1>2. /\ First(n) \in Seq(AByte) /\ Len(First(n)) = n /\ Rest(n) \in Seq(AByte)
      /\ First(n) \o Rest(n) = data
      /\ n = Len(data) => First(n) = data
  BY <1>1, Splits
<1>3. buffer \o First(n) \in Seq(AByte) /\ Len(buffer \o First(n)) = Len(buffer) + n
  BY <1>1, <1>2, ConcatProperties
<1>4. Len(buffer \o First(n)) <= BUFFER_SIZE
  <2>1. Len(buffer) \in Nat
    BY TypesOf
  <2> QED BY <1>3, <2>1 DEF Room
<1>5. file \o (buffer \o First(n)) \o Rest(n) = base \o given
  <2>1. (file \o (buffer \o First(n))) \o Rest(n) = file \o ((buffer \o First(n)) \o Rest(n))
    <3> DEFINE p == buffer \o First(n)
               q == Rest(n)
    <3>1. file \in Seq(AByte) /\ p \in Seq(AByte) /\ q \in Seq(AByte)
      BY <1>1, <1>2, <1>3
    <3> HIDE DEF p, q
    <3>2. (file \o p) \o q = file \o (p \o q)
      BY <3>1, ConcatAgain
    <3> QED BY <3>2 DEF p, q
  <2>2. (buffer \o First(n)) \o Rest(n) = buffer \o (First(n) \o Rest(n))
    BY <1>1, <1>2, ConcatAgain, ZenonT(60)
  <2>3. file \o (buffer \o data) = base \o given
    BY OnTheWay
  <2> QED BY <1>2, <2>1, <2>2, <2>3
<1>6. n = Len(data) => file \o (buffer \o First(n)) = base \o given
  BY <1>2, OnTheWay
<1> QED BY <1>2, <1>3, <1>4, <1>5, <1>6

LEMMA AppendFirstKeeps == IInv /\ AppendFirst => IInv'
<1> SUFFICES ASSUME IInv, AppendFirst PROVE IInv'
  OBVIOUS
<1>1. /\ pc = "append" /\ pc' = "full" /\ Len(data) >= Room
      /\ buffer' = buffer \o First(Room) /\ data' = Rest(Room)
      /\ UNCHANGED <<file, synced, part, len, acked, given, base, deaths, errors>>
  BY DEF AppendFirst
<1>2. /\ TypeOK /\ len # <<>> /\ file \o buffer \o data = base \o given
      /\ \E g \in Seq(AByte) : given = g \o Record
  BY <1>1 DEF IInv, Placed, NothingLostOnTheWay, GivenLast, Adding
<1>3. Room \in 0..Len(data) /\ Room <= Room
  <2>1. Len(buffer) \in Nat /\ Len(buffer) <= BUFFER_SIZE /\ Len(data) \in Nat
    BY <1>2, TypesOf, LenProperties
  <2> QED BY <1>1, <2>1 DEF Room
<1>4. /\ buffer' \in Seq(AByte) /\ Len(buffer') <= BUFFER_SIZE /\ data' \in Seq(AByte)
      /\ file' \o buffer' \o data' = base \o given
  BY <1>1, <1>2, <1>3, FillKeeps
<1>5. TypeOK' /\ AckedIsWhole'
  <2>1. /\ Len(file) <= Len(file') /\ \A i \in 1..Len(file) : file'[i] = file[i]
        /\ file' \in Seq(AByte) /\ given' \in Seq(AByte)
    BY <1>1, <1>2, TypesOf
  <2>2. part' \in {"header", "entry"}
    BY <1>1, <1>2 DEF TypeOK
  <2> QED BY <1>1, <1>4, <2>1, <2>2, CallKeeps
<1>6. Placed'
  BY <1>1, <1>2 DEF Placed, Adding
<1>7. NothingLostOnTheWay'
  BY <1>1, <1>4 DEF NothingLostOnTheWay
<1>8. GivenLast'
  BY <1>1, <1>2, SameEntry DEF GivenLast
<1> QED BY <1>5, <1>6, <1>7, <1>8 DEF IInv

LEMMA CopyKeeps == IInv /\ Copy => IInv'
<1> SUFFICES ASSUME IInv, Copy PROVE IInv'
  OBVIOUS
<1> DEFINE n == IF Len(data) < Room THEN Len(data) ELSE Room
<1>1. /\ pc = "copy" /\ buffer' = buffer \o First(n)
      /\ IF n = Len(data) THEN Appended
         ELSE data' = Rest(n) /\ pc' = "full" /\ UNCHANGED <<part, given>>
      /\ UNCHANGED <<file, synced, len, acked, base, deaths, errors>>
  BY DEF Copy
<1>2. /\ TypeOK /\ len # <<>> /\ file \o buffer \o data = base \o given
      /\ \E g \in Seq(AByte) : given = g \o Record
  BY <1>1 DEF IInv, Placed, NothingLostOnTheWay, GivenLast, Adding
<1>3. n \in 0..Len(data) /\ n <= Room
  <2>1. Len(buffer) \in Nat /\ Len(buffer) <= BUFFER_SIZE /\ Len(data) \in Nat
    BY <1>2, TypesOf, LenProperties
  <2> QED BY <1>1, <2>1 DEF Room
<1> HIDE DEF n
<1>4. /\ buffer' \in Seq(AByte) /\ Len(buffer') <= BUFFER_SIZE /\ Rest(n) \in Seq(AByte)
      /\ file' \o buffer' \o Rest(n) = base \o given
      /\ n = Len(data) => file' \o buffer' = base \o given
  BY <1>1, <1>2, <1>3, FillKeeps
<1>5. /\ Len(file) <= Len(file') /\ \A i \in 1..Len(file) : file'[i] = file[i]
      /\ file' \in Seq(AByte) /\ given \in Seq(AByte)
  BY <1>1, <1>2, TypesOf
<1>6. CASE n = Len(data)
  <2>1. /\ data' \in Seq(AByte) /\ given' \in Seq(AByte)
        /\ file' \o buffer' \o data' = base \o given'
        /\ GivenLast'
        /\ pc' \in {"append", "flush"} /\ part' = "entry"
        /\ pc' = "append" => data' = Body'
        /\ pc' = "flush" => data' = <<>>
    BY <1>1, <1>2, <1>4, <1>5, <1>6, AppendedKeeps
  <2>2. TypeOK' /\ AckedIsWhole'
    BY <1>1, <1>4, <1>5, <2>1, CallKeeps
  <2>3. Placed'
    BY <1>1, <1>2, <2>1 DEF Placed, Adding
  <2>4. NothingLostOnTheWay'
    BY <1>1, <2>1 DEF NothingLostOnTheWay
  <2> QED BY <2>1, <2>2, <2>3, <2>4 DEF IInv
<1>7. CASE n # Len(data)
  <2>1. data' = Rest(n) /\ pc' = "full" /\ UNCHANGED <<part, given>>
    BY <1>1, <1>7
  <2>2. TypeOK' /\ AckedIsWhole'
    <3>1. part' \in {"header", "entry"}
      BY <1>2, <2>1 DEF TypeOK
    <3> QED BY <1>1, <1>4, <1>5, <2>1, <3>1, CallKeeps
  <2>3. Placed'
    BY <1>1, <1>2, <2>1 DEF Placed, Adding
  <2>4. NothingLostOnTheWay'
    BY <1>1, <1>4, <2>1 DEF NothingLostOnTheWay
  <2>5. GivenLast'
    BY <1>1, <1>2, <2>1, SameEntry DEF GivenLast
  <2> QED BY <2>2, <2>3, <2>4, <2>5 DEF IInv
<1> QED BY <1>6, <1>7

LEMMA WriteFullKeeps == IInv /\ WriteFull => IInv'
<1> SUFFICES ASSUME IInv, WriteFull PROVE IInv'
  OBVIOUS
<1>1. /\ pc = "full" /\ Persist
      /\ IF data = <<>> THEN Appended
         ELSE pc' = "copy" /\ UNCHANGED <<data, part, given>>
      /\ UNCHANGED <<synced, len, acked, base, deaths, errors>>
  BY DEF WriteFull
<1>2. /\ TypeOK /\ len # <<>> /\ file \o buffer \o data = base \o given
      /\ \E g \in Seq(AByte) : given = g \o Record
  BY <1>1 DEF IInv, Placed, NothingLostOnTheWay, GivenLast, Adding
<1>3. /\ file' \in Seq(AByte) /\ buffer' \in Seq(AByte) /\ Len(buffer') <= BUFFER_SIZE
      /\ Len(file) <= Len(file') /\ \A i \in 1..Len(file) : file'[i] = file[i]
      /\ buffer' = <<>> /\ file' \o buffer' = file \o buffer
  BY <1>1, <1>2, PersistKeeps
<1>4. CASE data = <<>>
  <2>1. /\ data' \in Seq(AByte) /\ given' \in Seq(AByte)
        /\ file' \o buffer' \o data' = base \o given'
        /\ GivenLast'
        /\ pc' \in {"append", "flush"} /\ part' = "entry"
        /\ pc' = "append" => data' = Body'
        /\ pc' = "flush" => data' = <<>>
    <3>1. file' \o buffer' = base \o given
      BY <1>2, <1>3, <1>4, OnTheWay
    <3> QED BY <1>1, <1>2, <1>3, <1>4, <3>1, AppendedKeeps
  <2>2. TypeOK' /\ AckedIsWhole'
    BY <1>1, <1>3, <2>1, CallKeeps
  <2>3. Placed'
    BY <1>1, <1>2, <2>1 DEF Placed, Adding
  <2>4. NothingLostOnTheWay'
    BY <1>1, <2>1 DEF NothingLostOnTheWay
  <2> QED BY <2>1, <2>2, <2>3, <2>4 DEF IInv
<1>5. CASE data # <<>>
  <2>1. pc' = "copy" /\ UNCHANGED <<data, part, given>>
    BY <1>1, <1>5
  <2>2. TypeOK' /\ AckedIsWhole'
    <3>1. part' \in {"header", "entry"} /\ data' \in Seq(AByte) /\ given' \in Seq(AByte)
      BY <1>2, <2>1, TypesOf DEF TypeOK
    <3> QED BY <1>1, <1>3, <2>1, <3>1, CallKeeps
  <2>3. Placed'
    BY <1>1, <1>2, <2>1 DEF Placed, Adding
  <2>4. NothingLostOnTheWay'
    BY <1>1, <1>2, <1>3, <2>1 DEF NothingLostOnTheWay
  <2>5. GivenLast'
    BY <1>1, <1>2, <2>1, SameEntry DEF GivenLast
  <2> QED BY <2>2, <2>3, <2>4, <2>5 DEF IInv
<1> QED BY <1>4, <1>5

\* A flush at one of the places where nothing is left to copy.
LEMMA FlushKeeps ==
  ASSUME IInv, Persist, pc \in {"flush", "sync", "idle"},
         pc' \in {"sync", "fsync", "closed"}, pc = "idle" <=> pc' = "closed",
         UNCHANGED <<data, synced, part, len, acked, given, base, deaths, errors>>
  PROVE  IInv'
<1>1. /\ TypeOK /\ file \o buffer \o data = base \o given /\ data = <<>>
  BY DEF IInv, Placed, NothingLostOnTheWay
<1>2. /\ file' \in Seq(AByte) /\ buffer' \in Seq(AByte) /\ Len(buffer') <= BUFFER_SIZE
      /\ Len(file) <= Len(file') /\ \A i \in 1..Len(file) : file'[i] = file[i]
      /\ buffer' = <<>> /\ file' \o buffer' = file \o buffer
  BY <1>1, PersistKeeps
<1>3. TypeOK' /\ AckedIsWhole'
  <2>1. part' \in {"header", "entry"} /\ data' \in Seq(AByte) /\ given' \in Seq(AByte)
    BY <1>1, TypesOf DEF TypeOK
  <2> QED BY <1>2, <2>1, CallKeeps
<1>4. Placed'
  BY <1>1, <1>2 DEF IInv, Placed, Adding
<1>5. NothingLostOnTheWay'
  BY <1>1, <1>2 DEF NothingLostOnTheWay
<1>6. GivenLast'
  BY SameEntry DEF IInv, GivenLast, Adding
<1> QED BY <1>3, <1>4, <1>5, <1>6 DEF IInv

LEMMA FlushesKeep == IInv /\ (WriteRest \/ SyncFlush \/ Close) => IInv'
<1> SUFFICES ASSUME IInv, WriteRest \/ SyncFlush \/ Close PROVE IInv'
  OBVIOUS
<1>1. /\ Persist /\ pc \in {"flush", "sync", "idle"} /\ pc' \in {"sync", "fsync", "closed"}
      /\ pc = "idle" <=> pc' = "closed"
      /\ UNCHANGED <<data, synced, part, len, acked, given, base, deaths, errors>>
  BY DEF WriteRest, SyncFlush, Close
<1> QED BY <1>1, FlushKeeps

\* What was given to append is in the file, and ends with the entry's record.
LEMMA EntryIsWhole ==
  ASSUME IInv, pc = "fsync"
  PROVE  Entry \in DOMAIN len /\ Whole(Entry, Len(file))
<1>1. /\ TypeOK /\ len # <<>> /\ file \o buffer \o data = base \o given
      /\ part = "entry" /\ buffer = <<>> /\ data = <<>>
      /\ \E g \in Seq(AByte) : given = g \o Record
  BY DEF IInv, Placed, NothingLostOnTheWay, GivenLast, Adding
<1>2. PICK g \in Seq(AByte) : given = g \o Record
  BY <1>1
<1> DEFINE w == Bytes(Entry, 0, Size(Entry))
           h == base \o g
<1>3. /\ Entry \in 1..Len(len) /\ Size(Entry) \in Nat /\ Record \in Seq(AByte) /\ Record = w
      /\ Entry \in DOMAIN len
  BY <1>1, RecordParts, LensAreNats DEF Record
<1>4. file = base \o given
  <2>1. file \in Seq(AByte)
    BY <1>1, TypesOf
  <2> QED BY <1>1, <2>1, ConcatEmptySeq
<1>5. base \in Seq(AByte) /\ h \in Seq(AByte)
  BY <1>1, TypesOf, ConcatProperties
<1>6. file = h \o w
  <2>1. (base \o g) \o Record = base \o (g \o Record)
    BY <1>3, <1>5, ConcatAgain
  <2> QED BY <1>2, <1>3, <1>4, <2>1
<1>7. Len(w) = Size(Entry) /\ w \in Seq(AByte)
  <2>1. Len(w) = Size(Entry)
    BY <1>3, BytesProps
  <2> QED BY <1>3, <2>1
<1> HIDE DEF w, h
<1>8. /\ Len(file) = Len(h) + Len(w) /\ Len(h) \in Nat
      /\ SubSeq(file, Len(h) + 1, Len(h) + Len(w)) = w
  <2>1. /\ file \in Seq(AByte) /\ Len(file) = Len(h) + Len(w)
        /\ \A i \in 1..Len(h) + Len(w) : file[i] = IF i <= Len(h) THEN h[i] ELSE w[i - Len(h)]
    BY <1>5, <1>6, <1>7, ConcatProperties
  <2>2. Len(h) \in Nat /\ Len(w) \in Nat
    BY <1>5, <1>7, LenProperties
  <2> DEFINE x == SubSeq(file, Len(h) + 1, Len(h) + Len(w))
  <2>3. x \in Seq(AByte) /\ Len(x) = Len(w) /\ \A j \in 1..Len(w) : x[j] = file[Len(h) + j]
    <3>1. \A j \in (Len(h) + 1)..(Len(h) + Len(w)) : file[j] \in AByte
      BY <2>1, <2>2, ElementOfSeq
    <3> QED BY <2>1, <2>2, <3>1, SubSeqProperties
  <2> HIDE DEF x
  <2>4. \A j \in 1..Len(w) : file[Len(h) + j] = w[j]
    BY <2>1, <2>2
  <2>5. x = w
    BY <1>7, <2>3, <2>4, SeqEqual
  <2> QED BY <2>1, <2>2, <2>5 DEF x
<1>9. Len(h) \in 0..(Len(file) - Size(Entry))
  BY <1>3, <1>7, <1>8
<1> QED BY <1>3, <1>7, <1>8, <1>9 DEF Whole, Starts, w

LEMMA FsyncKeeps == IInv /\ (Fsync \/ FsyncFails) => IInv'
<1> SUFFICES ASSUME IInv, Fsync \/ FsyncFails PROVE IInv'
  OBVIOUS
<1>1. /\ pc = "fsync" /\ pc' = "idle"
      /\ UNCHANGED <<buffer, data, file, part, len, given, base, deaths>>
      /\ TypeOK
  BY DEF Fsync, FsyncFails, IInv
<1>2. Entry \in DOMAIN len /\ Whole(Entry, Len(file))
  BY <1>1, EntryIsWhole
<1>3. /\ synced' \in 0..Len(file') /\ synced <= synced' /\ acked' \subseteq DOMAIN len'
      /\ errors' \in 0..MaxErrors
  <2>1. synced \in Nat /\ synced <= Len(file) /\ Len(file) \in Nat
    BY <1>1, TypesOf
  <2>2. \/ synced' = Len(file) /\ errors' = errors /\ acked' = acked \cup {Entry}
        \/ synced' = synced /\ acked' = acked /\ errors' = errors + 1 /\ errors < MaxErrors
    BY <1>1 DEF Fsync, FsyncFails
  <2>3. errors' \in 0..MaxErrors
    BY <1>1, <2>2, BoundAssumption DEF TypeOK
  <2>4. acked \subseteq DOMAIN len
    BY <1>1 DEF TypeOK
  <2>5. acked' \subseteq DOMAIN len
    BY <1>2, <2>2, <2>4
  <2> QED BY <1>1, <2>1, <2>2, <2>3, <2>5
<1>4. TypeOK'
  BY <1>1, <1>3 DEF TypeOK
<1>5. Placed'
  BY <1>1 DEF IInv, Placed, Adding
<1>6. NothingLostOnTheWay' /\ GivenLast'
  BY <1>1 DEF IInv, NothingLostOnTheWay, GivenLast, Adding
<1>7. AckedIsWhole'
  <2>1. \A r \in acked' : Whole(r, synced')
    <3>1. CASE Fsync
      <4>1. synced' = Len(file) /\ acked' = acked \cup {Entry}
        BY <3>1 DEF Fsync
      <4>2. ASSUME NEW r \in acked PROVE Whole(r, Len(file))
        <5>1. /\ Whole(r, synced) /\ Size(r) \in Nat /\ file \in Seq(AByte)
              /\ synced \in Nat /\ synced <= Len(file) /\ Len(file) \in Nat
          BY <1>1, TypesOf, LensAreNats DEF IInv, AckedIsWhole, TypeOK
        <5>2. 0..(synced - Size(r)) \subseteq 0..(Len(file) - Size(r))
          BY <5>1
        <5> QED BY <5>1, <5>2 DEF Whole, Starts
      <4> QED BY <1>2, <4>1, <4>2
    <3>2. CASE FsyncFails
      BY <3>2 DEF FsyncFails, IInv, AckedIsWhole
    <3> QED BY <3>1, <3>2
  <2> QED BY <1>1, <2>1 DEF AckedIsWhole, Whole, Starts, Size, Bytes
<1> QED BY <1>4, <1>5, <1>6, <1>7 DEF IInv

-----------------------------------------------------------------------------
(* The end of the process, and the file opened again. *)

LEMMA DieKeeps ==
  ASSUME IInv, Die, file' \in Seq(AByte), synced' \in 0..Len(file'), synced <= synced',
         \A i \in 1..synced : file'[i] = file[i]
  PROVE  IInv'
<1>1. /\ pc' = "dead" /\ buffer' = <<>> /\ data' = <<>> /\ given' = <<>> /\ base' = <<>>
      /\ UNCHANGED <<part, len, acked, errors>> /\ TypeOK
  BY DEF Die, IInv
<1>2. TypeOK'
  <2>1. \A s \in {buffer', data', file', given', base'} : s \in Seq(AByte')
    <3>1. AByte' = AByte
      BY <1>1, SameEntry
    <3>2. <<>> \in Seq(AByte)
      OBVIOUS
    <3>3. \A s \in {buffer', data', file', given', base'} : s = <<>> \/ s = file'
      BY <1>1
    <3> HIDE DEF AByte
    <3> QED BY <3>1, <3>2, <3>3
  <2>2. Len(buffer') <= BUFFER_SIZE /\ deaths' \in 0..MaxDeaths
    BY <1>1 DEF Die, TypeOK
  <2> QED BY <1>1, <2>1, <2>2 DEF TypeOK, AByte, Of
<1>3. Placed' /\ NothingLostOnTheWay' /\ GivenLast'
  BY <1>1 DEF Placed, NothingLostOnTheWay, GivenLast, Adding
<1>4. AckedIsWhole'
  <2>1. Len(len) <= Len(len') /\ \A r \in DOMAIN len : len'[r] = len[r]
    BY <1>1, LensAreNats
  <2> QED BY <1>1, <1>2, <2>1, AckedKept DEF IInv
<1> QED BY <1>2, <1>3, <1>4 DEF IInv

\* A first part of the file.
LEMMA FirstPart ==
  ASSUME NEW S, NEW s \in Seq(S), NEW n \in 0..Len(s)
  PROVE  /\ SubSeq(s, 1, n) \in Seq(S) /\ Len(SubSeq(s, 1, n)) = n
         /\ \A i \in 1..n : SubSeq(s, 1, n)[i] = s[i]
BY SubSeqProperties

LEMMA DeathsKeep == IInv /\ (ShortWrite \/ Kill \/ PowerLoss) => IInv'
<1> SUFFICES ASSUME IInv, ShortWrite \/ Kill \/ PowerLoss PROVE IInv'
  OBVIOUS
<1>1. /\ file \in Seq(AByte) /\ buffer \in Seq(AByte)
      /\ synced \in Nat /\ synced <= Len(file) /\ Len(file) \in Nat /\ Len(buffer) \in Nat
  BY TypesOf DEF IInv
<1>2. CASE ShortWrite
  <2>1. PICK n \in 0..Len(buffer) - 1 : file' = file \o SubSeq(buffer, 1, n)
    BY <1>2 DEF ShortWrite
  <2> DEFINE x == SubSeq(buffer, 1, n)
  <2>2. x \in Seq(AByte)
    BY <1>1, FirstPart
  <2> HIDE DEF x
  <2>3. /\ file' \in Seq(AByte) /\ Len(file') = Len(file) + Len(x)
        /\ \A i \in 1..Len(file) + Len(x) : file'[i] = IF i <= Len(file) THEN file[i] ELSE x[i - Len(file)]
    BY <1>1, <2>1, <2>2, ConcatProperties DEF x
  <2>4. Len(x) \in Nat /\ synced' = synced /\ Die
    BY <1>2, <2>2 DEF ShortWrite
  <2>5. \A i \in 1..synced : file'[i] = file[i]
    BY <1>1, <2>3, <2>4
  <2>6. synced' \in 0..Len(file') /\ synced <= synced'
    BY <1>1, <2>3, <2>4
  <2> QED BY <2>3, <2>4, <2>5, <2>6, DieKeeps
<1>3. CASE Kill
  <2>1. Die /\ file' = file /\ synced' = synced
    BY <1>3 DEF Kill
  <2>2. \A i \in 1..synced : file'[i] = file[i]
    BY <2>1
  <2>3. file' \in Seq(AByte) /\ synced' \in 0..Len(file') /\ synced <= synced'
    BY <1>1, <2>1
  <2> QED BY <2>1, <2>2, <2>3, DieKeeps
<1>4. CASE PowerLoss
  <2>1. PICK n \in synced..Len(file) : file' = SubSeq(file, 1, n) /\ synced' = n
    BY <1>4 DEF PowerLoss
  <2>2. n \in 0..Len(file) /\ synced <= n /\ n \in Nat
    BY <1>1, <2>1
  <2>3. /\ file' \in Seq(AByte) /\ Len(file') = n
        /\ \A i \in 1..n : file'[i] = file[i]
    BY <1>1, <2>1, <2>2, FirstPart
  <2>4. synced' \in 0..Len(file') /\ synced <= synced' /\ \A i \in 1..synced : file'[i] = file[i]
    BY <1>1, <2>1, <2>2, <2>3
  <2> QED BY <1>4, <2>3, <2>4, DieKeeps DEF PowerLoss
<1> QED BY <1>2, <1>3, <1>4

LEMMA ReopenKeeps == IInv /\ Reopen => IInv'
<1> SUFFICES ASSUME IInv, Reopen PROVE IInv'
  OBVIOUS
<1>1. /\ pc \in {"closed", "dead"} /\ pc' = "idle" /\ base' = file /\ given' = <<>>
      /\ UNCHANGED <<buffer, data, file, synced, part, len, acked, deaths, errors>>
      /\ TypeOK /\ data = <<>> /\ buffer = <<>>
  BY DEF Reopen, IInv, Placed
<1>2. file \in Seq(AByte)
  BY <1>1, TypesOf
<1>3. TypeOK'
  BY <1>1 DEF TypeOK
<1>4. Placed' /\ GivenLast'
  BY <1>1 DEF Placed, GivenLast, Adding
<1>5. NothingLostOnTheWay'
  <2>1. file \o <<>> = file
    BY <1>2, ConcatEmptySeq
  <2> QED BY <1>1, <2>1 DEF NothingLostOnTheWay
<1>6. AckedIsWhole'
  BY <1>1 DEF IInv, AckedIsWhole, Whole, Starts, Size, Bytes
<1> QED BY <1>3, <1>4, <1>5, <1>6 DEF IInv

LEMMA StutterKeeps == IInv /\ UNCHANGED vars => IInv'
BY SameEntry DEF IInv, vars, TypeOK, Placed, NothingLostOnTheWay, GivenLast, Adding,
                 AckedIsWhole, Whole, Starts, Size, Bytes

LEMMA StepInv == IInv /\ [Next]_vars => IInv'
<1> SUFFICES ASSUME IInv, [Next]_vars PROVE IInv'
  OBVIOUS
<1>1. CASE \E n \in LogLens : AddLog(n)
  BY <1>1, AddLogKeeps
<1>2. CASE AppendAll
  BY <1>2, AppendAllKeeps
<1>3. CASE AppendNothing
  BY <1>3, AppendNothingKeeps
<1>4. CASE AppendFirst
  BY <1>4, AppendFirstKeeps
<1>5. CASE WriteFull
  BY <1>5, WriteFullKeeps
<1>6. CASE Copy
  BY <1>6, CopyKeeps
<1>7. CASE WriteRest \/ SyncFlush \/ Close
  BY <1>7, FlushesKeep
<1>8. CASE Fsync \/ FsyncFails
  BY <1>8, FsyncKeeps
<1>9. CASE ShortWrite \/ Kill \/ PowerLoss
  BY <1>9, DeathsKeep
<1>10. CASE Reopen
  BY <1>10, ReopenKeeps
<1>11. CASE UNCHANGED vars
  BY <1>11, StutterKeeps
<1> QED BY <1>1, <1>2, <1>3, <1>4, <1>5, <1>6, <1>7, <1>8, <1>9, <1>10, <1>11 DEF Next

LEMMA Invariant == Spec => []IInv
BY InitInv, StepInv, PTL DEF Spec

\* Every variable of FileWriter (src/file/file_writer.cpp) keeps its type, and
\* append never copies more than the buffer has room for, whatever is its size.
THEOREM BufferNeverOverrun == Spec => []TypeOK
<1>1. IInv => TypeOK
  BY DEF IInv
<1> QED BY <1>1, Invariant, PTL

\* The bytes that AddLog gives to append reach the file in order, none lost and
\* none twice, however records and the buffer's end fall together.
THEOREM EveryByteOnItsWay == Spec => []NothingLostOnTheWay
<1>1. IInv => NothingLostOnTheWay
  BY DEF IInv
<1> QED BY <1>1, Invariant, PTL

\* An entry whose AddLog (src/wal/wal_writer.cpp) returned after an fsync that
\* worked is whole on the device for ever.
THEOREM AckedStaysWhole == Spec => []AckedIsWhole
<1>1. IInv => AckedIsWhole
  BY DEF IInv
<1> QED BY <1>1, Invariant, PTL

-----------------------------------------------------------------------------
(* The order of the bytes. *)

Bit(ln) == (1..Len(ln)) \X Nat
All(ln, r) == kHeaderSize + ln[r]      \* the size of the entry's record

\* Entry after entry, no byte twice, and each byte behind those before it in its
\* record: where a crash cut a record off, the bytes of later ones follow.
Ordered(ln, s) ==
  /\ s \in Seq(Bit(ln))
  /\ \A p \in 1..Len(s) :
       /\ s[p][2] \in 1..All(ln, s[p][1]) /\ s[p][2] <= p
       /\ \A k \in 1..s[p][2] : s[p - s[p][2] + k] = <<s[p][1], k>>
  /\ \A p, q \in 1..Len(s) :
       p < q => s[p][1] < s[q][1] \/ (s[p][1] = s[q][1] /\ s[p][2] < s[q][2])

LEMMA AllIs ==
  ASSUME NEW ln, NEW r, ln[r] \in Nat
  PROVE  All(ln, r) \in Nat \ {0}
BY DEF All

\* Two facts about places.
LEMMA WithinFirst ==
  \A p, j, k, m \in Nat : 1 <= k /\ k <= j /\ j <= p /\ p <= m => p - j + k \in 1..m
OBVIOUS

LEMMA StepsBetween == \A a, b \in Nat : a < b => \E k \in Nat : a + k = b /\ k # 0
<1> SUFFICES ASSUME NEW a \in Nat, NEW b \in Nat, a < b
             PROVE  \E k \in Nat : a + k = b /\ k # 0
  OBVIOUS
<1>1. b - a \in Nat /\ a + (b - a) = b /\ b - a # 0
  OBVIOUS
<1> QED BY <1>1

LEMMA BitIs ==
  ASSUME NEW ln, Len(ln) \in Nat, NEW s \in Seq(Bit(ln)), NEW p \in 1..Len(s)
  PROVE  s[p][1] \in 1..Len(ln) /\ s[p][2] \in Nat /\ s[p] = <<s[p][1], s[p][2]>>
<1>1. s[p] \in (1..Len(ln)) \X Nat
  BY ElementOfSeq DEF Bit
<1> QED BY <1>1

\* What a file has before a place is ordered as the file is.
LEMMA OrderedCut ==
  ASSUME NEW ln, NEW s, Ordered(ln, s), NEW t \in Seq(Bit(ln)), Len(t) <= Len(s),
         \A p \in 1..Len(t) : t[p] = s[p]
  PROVE  Ordered(ln, t)
<1>1. Len(s) \in Nat /\ Len(t) \in Nat /\ 1..Len(t) \subseteq 1..Len(s)
  BY LenProperties DEF Ordered
<1>2. ASSUME NEW p \in 1..Len(t)
      PROVE  /\ t[p][2] \in 1..All(ln, t[p][1]) /\ t[p][2] <= p
             /\ \A k \in 1..t[p][2] : t[p - t[p][2] + k] = <<t[p][1], k>>
  <2>1. /\ s[p][2] \in 1..All(ln, s[p][1]) /\ s[p][2] <= p
        /\ \A k \in 1..s[p][2] : s[p - s[p][2] + k] = <<s[p][1], k>>
    BY <1>1 DEF Ordered
  <2>2. t[p] = s[p]
    OBVIOUS
  <2> PICK r, j : r = s[p][1] /\ j = s[p][2]
    OBVIOUS
  <2>3. j \in Nat /\ j <= p /\ \A k \in 1..j : s[p - j + k] = <<r, k>>
    BY <2>1
  <2>4. \A k \in 1..j : p - j + k \in 1..Len(t)
    BY <1>1, <2>3
  <2>5. \A k \in 1..j : t[p - j + k] = <<r, k>>
    BY <2>3, <2>4
  <2> QED BY <2>1, <2>2, <2>5
<1>3. ASSUME NEW p \in 1..Len(t), NEW q \in 1..Len(t), p < q
      PROVE  t[p][1] < t[q][1] \/ (t[p][1] = t[q][1] /\ t[p][2] < t[q][2])
  <2>1. s[p][1] < s[q][1] \/ (s[p][1] = s[q][1] /\ s[p][2] < s[q][2])
    BY <1>1, <1>3 DEF Ordered
  <2> QED BY <2>1
<1> QED BY <1>2, <1>3 DEF Ordered

\* An entry more changes nothing of the others.
LEMMA OrderedWith ==
  ASSUME NEW ln, Len(ln) \in Nat, NEW ln2, Len(ln2) \in Nat, Len(ln) <= Len(ln2),
         \A r \in 1..Len(ln) : ln2[r] = ln[r], NEW s, Ordered(ln, s)
  PROVE  Ordered(ln2, s)
<1>1. s \in Seq(Bit(ln)) /\ \A p \in 1..Len(s) : s[p][1] \in 1..Len(ln)
  BY BitIs DEF Ordered
<1>2. s \in Seq(Bit(ln2))
  <2>1. Bit(ln) \subseteq Bit(ln2)
    BY DEF Bit
  <2> QED BY <1>1, <2>1
<1>3. \A p \in 1..Len(s) : All(ln2, s[p][1]) = All(ln, s[p][1])
  BY <1>1 DEF All
<1> QED BY <1>2, <1>3 DEF Ordered

\* More bytes of the latest entry: the first ones, or those that follow.
LEMMA OrderedMore ==
  ASSUME NEW ln, Len(ln) \in Nat, NEW s, Ordered(ln, s), NEW r \in 1..Len(ln),
         NEW from \in Nat, NEW x \in Seq(Bit(ln)), \A i \in 1..Len(x) : x[i] = <<r, from + i>>,
         ln[r] \in Nat, from + Len(x) <= All(ln, r),
         \/ from = 0 /\ \A p \in 1..Len(s) : s[p][1] < r
         \/ Len(s) > 0 /\ s[Len(s)] = <<r, from>>
  PROVE  Ordered(ln, s \o x)
<1> PICK t, m, n : t = s \o x /\ m = Len(s) /\ n = Len(x)
  OBVIOUS
<1>1. m \in Nat /\ n \in Nat /\ s \in Seq(Bit(ln))
  BY LenProperties DEF Ordered
<1>2. /\ t \in Seq(Bit(ln)) /\ Len(t) = m + n
      /\ \A i \in 1..(m + n) : t[i] = IF i <= m THEN s[i] ELSE x[i - m]
  BY <1>1, ConcatProperties
<1>3. /\ \A i \in 1..m : t[i] = s[i]
      /\ \A i \in 1..n : t[m + i] = <<r, from + i>>
  BY <1>1, <1>2
<1>4. /\ \A p \in 1..m : /\ s[p][1] \in Nat /\ s[p][2] \in Nat
                         /\ s[p][2] \in 1..All(ln, s[p][1]) /\ s[p][2] <= p
                         /\ \A k \in 1..s[p][2] : s[p - s[p][2] + k] = <<s[p][1], k>>
      /\ \A p, q \in 1..m :
           p < q => s[p][1] < s[q][1] \/ (s[p][1] = s[q][1] /\ s[p][2] < s[q][2])
  <2>1. \A p \in 1..m : s[p][1] \in Nat /\ s[p][2] \in Nat
    BY <1>1, BitIs
  <2> QED BY <2>1 DEF Ordered
\* Where the record's bytes so far are.
<1>5. \A p \in 1..m : s[p][1] < r \/ (s[p][1] = r /\ s[p][2] <= from)
  <2>1. CASE from = 0 /\ \A p \in 1..Len(s) : s[p][1] < r
    BY <2>1
  <2>2. CASE Len(s) > 0 /\ s[Len(s)] = <<r, from>>
    <3>1. m \in 1..m /\ s[m][1] = r /\ s[m][2] = from
      BY <1>1, <2>2
    <3>2. ASSUME NEW p \in 1..m, p # m PROVE s[p][1] < r \/ (s[p][1] = r /\ s[p][2] <= from)
      <4>1. p < m
        BY <1>1, <3>2
      <4>2. s[p][1] < s[m][1] \/ (s[p][1] = s[m][1] /\ s[p][2] < s[m][2])
        BY <1>4, <3>1, <4>1
      <4> QED BY <1>4, <3>1, <4>2
    <3> QED BY <3>1, <3>2
  <2> QED BY <2>1, <2>2
<1>6. from <= m /\ \A k \in 1..from : s[m - from + k] = <<r, k>>
  <2>1. CASE from = 0
    BY <1>1, <2>1
  <2>2. CASE Len(s) > 0 /\ s[Len(s)] = <<r, from>>
    <3>1. m \in 1..m /\ s[m][1] = r /\ s[m][2] = from
      BY <1>1, <2>2
    <3> QED BY <1>4, <3>1
  <2> QED BY <2>1, <2>2
<1>7. ASSUME NEW p \in 1..(m + n)
      PROVE  /\ t[p][2] \in 1..All(ln, t[p][1]) /\ t[p][2] <= p
             /\ \A k \in 1..t[p][2] : t[p - t[p][2] + k] = <<t[p][1], k>>
  <2>1. CASE p <= m
    <3>1. p \in 1..m /\ t[p] = s[p]
      BY <1>1, <1>3, <2>1
    <3> PICK a, j : a = s[p][1] /\ j = s[p][2]
      OBVIOUS
    <3>2. /\ j \in 1..All(ln, a) /\ j \in Nat /\ j <= p
          /\ \A k \in 1..j : s[p - j + k] = <<a, k>>
      BY <1>4, <3>1
    <3>3. ASSUME NEW k \in 1..j PROVE p - j + k \in 1..m
      <4>1. p \in Nat /\ p <= m /\ k \in Nat /\ 1 <= k /\ k <= j
        BY <1>1, <3>1, <3>2, <3>3
      <4> QED BY <1>1, <3>2, <4>1, WithinFirst
    <3>4. \A k \in 1..j : t[p - j + k] = <<a, k>>
      BY <1>3, <3>2, <3>3
    <3> QED BY <3>1, <3>2, <3>4
  <2>2. CASE ~(p <= m)
    <3>1. PICK i \in 1..n : p = m + i
      <4>1. p - m \in 1..n /\ p = m + (p - m)
        BY <1>1, <2>2
      <4> QED BY <4>1
    <3>2. t[p] = <<r, from + i>>
      BY <1>3, <3>1
    <3>3. from + i \in 1..All(ln, r)
      <4>1. All(ln, r) \in Nat
        BY DEF All
      <4> QED BY <1>1, <4>1
    <3>4. from + i <= p
      BY <1>1, <1>6, <3>1
    <3>5. ASSUME NEW k \in 1..(from + i) PROVE t[p - (from + i) + k] = <<r, k>>
      <4>1. CASE k <= from
        <5>1. k \in 1..from /\ p - (from + i) + k = m - from + k /\ m - from + k \in 1..m
          BY <1>1, <1>6, <3>1, <4>1
        <5> QED BY <1>3, <1>6, <5>1
      <4>2. CASE ~(k <= from)
        <5>1. k - from \in 1..n /\ p - (from + i) + k = m + (k - from) /\ from + (k - from) = k
          <6>1. k \in Nat /\ k <= from + i /\ k > from /\ i \in Nat /\ i <= n
            BY <1>1, <3>5, <4>2
          <6>2. k - from \in 1..n /\ from + (k - from) = k
            BY <1>1, <6>1
          <6>3. p \in Nat /\ p = m + i
            BY <1>1, <3>1, <6>1
          <6>4. p - (from + i) + k = m + (k - from)
            BY <1>1, <6>1, <6>3
          <6> QED BY <6>2, <6>4
        <5> QED BY <1>3, <5>1
      <4> QED BY <4>1, <4>2
    <3> PICK j : j = from + i
      OBVIOUS
    <3>6. t[p][1] = r /\ t[p][2] = j
      BY <3>2
    <3> QED BY <3>3, <3>4, <3>5, <3>6
  <2> QED BY <2>1, <2>2
<1>8. ASSUME NEW p \in 1..(m + n), NEW q \in 1..(m + n), p < q
      PROVE  t[p][1] < t[q][1] \/ (t[p][1] = t[q][1] /\ t[p][2] < t[q][2])
  <2>1. CASE q <= m
    <3>1. p \in 1..m /\ q \in 1..m
      BY <1>1, <1>8, <2>1
    <3> QED BY <1>3, <1>4, <1>8, <3>1
  <2>2. CASE ~(q <= m)
    <3>1. PICK i \in 1..n : q = m + i
      <4>1. q - m \in 1..n /\ q = m + (q - m)
        BY <1>1, <2>2
      <4> QED BY <4>1
    <3>2. t[q] = <<r, from + i>>
      BY <1>3, <3>1
    <3>3. CASE p <= m
      <4>1. p \in 1..m /\ t[p] = s[p]
        BY <1>1, <1>3, <3>3
      <4>2. /\ (t[p][1] < r \/ (t[p][1] = r /\ t[p][2] <= from))
             /\ t[p][1] \in Nat /\ t[p][2] \in Nat
        BY <1>4, <1>5, <4>1
      <4> QED BY <1>4, <3>2, <4>1, <4>2
    <3>4. CASE ~(p <= m)
      <4>1. PICK j \in 1..n : p = m + j
        <5>1. p \in Nat /\ m < p /\ p <= m + n
          BY <1>1, <3>4
        <5>2. p - m \in 1..n /\ p = m + (p - m)
          BY <1>1, <5>1
        <5> QED BY <5>2
      <4>2. i \in Nat /\ j \in Nat
        BY <1>1
      <4>3. j < i
        BY <1>1, <1>8, <3>1, <4>1, <4>2
      <4>4. t[p] = <<r, from + j>>
        BY <1>3, <4>1
      <4>5. from + j < from + i
        BY <4>2, <4>3
      <4> QED BY <3>2, <4>4, <4>5
    <3> QED BY <3>3, <3>4
  <2> QED BY <2>1, <2>2
<1>9. /\ \A p \in 1..Len(t) :
           /\ t[p][2] \in 1..All(ln, t[p][1]) /\ t[p][2] <= p
           /\ \A k \in 1..t[p][2] : t[p - t[p][2] + k] = <<t[p][1], k>>
      /\ \A p, q \in 1..Len(t) :
           p < q => t[p][1] < t[q][1] \/ (t[p][1] = t[q][1] /\ t[p][2] < t[q][2])
  <2>1. \A p \in 1..Len(t) : p \in 1..(m + n)
    BY <1>2
  <2>2. ASSUME NEW p \in 1..Len(t)
        PROVE  /\ t[p][2] \in 1..All(ln, t[p][1]) /\ t[p][2] <= p
               /\ \A k \in 1..t[p][2] : t[p - t[p][2] + k] = <<t[p][1], k>>
    BY <1>7, <2>1, Zenon
  <2>3. ASSUME NEW p \in 1..Len(t), NEW q \in 1..Len(t), p < q
        PROVE  t[p][1] < t[q][1] \/ (t[p][1] = t[q][1] /\ t[p][2] < t[q][2])
    BY <1>8, <2>1, <2>3, Zenon
  <2> QED BY <2>2, <2>3, Zenon
<1>10. Ordered(ln, t)
  <2>1. t \in Seq(Bit(ln))
    BY <1>2
  <2> QED BY <1>9, <2>1, Zenon DEF Ordered
<1> QED BY <1>10

-----------------------------------------------------------------------------
(* The entries of a file, and where they are. *)

Lens(ln) == Len(ln) \in Nat /\ \A r \in 1..Len(ln) : ln[r] \in Nat

\* The entries whose last bytes are in the file's first n.
Ends(ln, f, n) == {r \in 1..Len(ln) : \E p \in 1..n : f[p] = <<r, All(ln, r)>>}
Found(f, r, z, i) == SubSeq(f, i + 1, i + z) = Bytes(r, 0, z)
Scanned(ln, f, n) == {r \in DOMAIN ln : \E i \in 0..(n - All(ln, r)) : Found(f, r, All(ln, r), i)}
PlaceIn(ln, f, r) == CHOOSE i \in 0..(Len(f) - All(ln, r)) : Found(f, r, All(ln, r), i)
LogOf(ln, f) == [r \in Ends(ln, f, Len(f)) |-> PlaceIn(ln, f, r)]

\* In an ordered file a record's last byte tells that all of it is there.
LEMMA FoundIs ==
  ASSUME NEW ln, Lens(ln), NEW f, Ordered(ln, f), NEW n \in 0..Len(f), NEW r \in 1..Len(ln),
         NEW z, z = All(ln, r), NEW i
  PROVE  i \in 0..(n - z) /\ Found(f, r, z, i) <=> i \in Nat /\ i + z <= n /\ f[i + z] = <<r, z>>
<1>1. z \in Nat \ {0} /\ ln[r] \in Nat
  BY DEF All, Lens
<1>2. f \in Seq(Bit(ln)) /\ Len(f) \in Nat /\ n \in Nat /\ n <= Len(f)
  BY LenProperties DEF Ordered
<1> DEFINE b == Bytes(r, 0, z)
           x == SubSeq(f, i + 1, i + z)
<1>3. Len(b) = z /\ b \in Seq(Bit(ln)) /\ \A k \in 1..z : b[k] = <<r, k>>
  <2>1. Of(1..Len(ln)) = Bit(ln)
    BY DEF Of, Bit
  <2> QED BY <1>1, <2>1, BytesFromStart
<1>4. i \in 0..(n - z) <=> i \in Nat /\ i + z <= n
  BY <1>1, <1>2
<1>5. ASSUME i \in Nat, i + z <= n
      PROVE  x \in Seq(Bit(ln)) /\ Len(x) = z /\ \A k \in 1..z : x[k] = f[i + k]
  <2>1. \A j \in (i + 1)..(i + z) : j \in 1..Len(f)
    BY <1>1, <1>2, <1>5
  <2>2. \A j \in (i + 1)..(i + z) : f[j] \in Bit(ln)
    BY <1>2, <2>1, ElementOfSeq
  <2> QED BY <1>1, <1>5, <2>2, SubSeqProperties
<1> HIDE DEF b, x
<1>6. ASSUME i \in Nat, i + z <= n, x = b PROVE f[i + z] = <<r, z>>
  <2>1. z \in 1..z
    BY <1>1
  <2> QED BY <1>3, <1>5, <1>6, <2>1
<1>7. ASSUME i \in Nat, i + z <= n, f[i + z] = <<r, z>> PROVE x = b
  <2>1. PICK p \in 1..Len(f) : p = i + z
    BY <1>1, <1>2, <1>7
  <2>2. f[p][1] = r /\ f[p][2] = z
    BY <1>7, <2>1
  <2>3. \A k \in 1..z : f[p - z + k] = <<r, k>>
    BY <2>2 DEF Ordered
  <2>4. \A k \in 1..z : p - z + k = i + k
    BY <1>1, <1>7, <2>1
  <2>5. \A k \in 1..z : x[k] = b[k]
    BY <1>3, <1>5, <1>7, <2>3, <2>4
  <2> QED BY <1>3, <1>5, <1>7, <2>5, SeqEqual
<1> QED BY <1>4, <1>6, <1>7 DEF Found, x, b

LEMMA ScannedIs ==
  ASSUME NEW ln, Lens(ln), DOMAIN ln = 1..Len(ln), NEW f, Ordered(ln, f), NEW n \in 0..Len(f)
  PROVE  Scanned(ln, f, n) = Ends(ln, f, n)
<1>1. ASSUME NEW r \in 1..Len(ln), NEW z, z = All(ln, r)
      PROVE  (\E i \in 0..(n - z) : Found(f, r, z, i)) <=> \E p \in 1..n : f[p] = <<r, z>>
  <2>1. z \in Nat \ {0} /\ n \in Nat
    <3>1. Len(f) \in Nat
      BY LenProperties DEF Ordered
    <3> QED BY <1>1, <3>1 DEF All, Lens
  <2>2. ASSUME NEW i \in 0..(n - z), Found(f, r, z, i) PROVE \E p \in 1..n : f[p] = <<r, z>>
    <3>1. i \in Nat /\ i + z <= n /\ f[i + z] = <<r, z>>
      BY <1>1, <2>2, FoundIs
    <3>2. i + z \in 1..n
      BY <2>1, <3>1
    <3> QED BY <3>1, <3>2
  <2>3. ASSUME NEW p \in 1..n, f[p] = <<r, z>> PROVE \E i \in 0..(n - z) : Found(f, r, z, i)
    <3>1. p \in 1..Len(f) /\ f[p][2] = z /\ z <= p
      <4>1. p \in 1..Len(f)
        BY <2>1
      <4>2. f[p][2] = z
        BY <2>3
      <4> QED BY <4>1, <4>2 DEF Ordered
    <3>2. PICK i : i \in Nat /\ i + z = p /\ i + z <= n
      <4>1. p - z \in Nat /\ (p - z) + z = p /\ p <= n
        BY <2>1, <3>1
      <4> QED BY <4>1
    <3>3. i \in 0..(n - z) /\ Found(f, r, z, i)
      BY <1>1, <2>3, <3>2, FoundIs
    <3> QED BY <3>3
  <2> QED BY <2>2, <2>3
<1> QED BY <1>1 DEF Scanned, Ends

LEMMA PlaceIs ==
  ASSUME NEW ln, Lens(ln), NEW f, Ordered(ln, f), NEW r \in 1..Len(ln),
         NEW p \in 1..Len(f), f[p] = <<r, All(ln, r)>>
  PROVE  PlaceIn(ln, f, r) \in Nat /\ PlaceIn(ln, f, r) + All(ln, r) = p
<1> PICK z : z = All(ln, r)
  OBVIOUS
<1>1. z \in Nat \ {0} /\ Len(f) \in Nat /\ Len(f) \in 0..Len(f)
  <2>1. Len(f) \in Nat
    BY LenProperties DEF Ordered
  <2> QED BY <2>1 DEF All, Lens
<1>2. ASSUME NEW i
      PROVE  i \in 0..(Len(f) - z) /\ Found(f, r, z, i) <=>
               i \in Nat /\ i + z <= Len(f) /\ f[i + z] = <<r, z>>
  <2>1. PICK n : n = Len(f) /\ n \in 0..Len(f)
    BY <1>1
  <2>2. i \in 0..(n - z) /\ Found(f, r, z, i) <=> i \in Nat /\ i + z <= n /\ f[i + z] = <<r, z>>
    BY <2>1, FoundIs
  <2> QED BY <2>1, <2>2
<1>3. f[p][1] = r /\ f[p][2] = z /\ z <= p
  <2>1. f[p][1] = r /\ f[p][2] = z
    OBVIOUS
  <2> QED BY <2>1 DEF Ordered
<1>4. p - z \in Nat /\ (p - z) + z = p /\ p <= Len(f)
  BY <1>1, <1>3
<1>5. p - z \in 0..(Len(f) - z) /\ Found(f, r, z, p - z)
  BY <1>2, <1>4
<1> PICK i : i = PlaceIn(ln, f, r)
  OBVIOUS
<1>6. i \in 0..(Len(f) - z) /\ Found(f, r, z, i)
  BY <1>5 DEF PlaceIn
<1>7. i \in Nat /\ i + z <= Len(f) /\ f[i + z] = <<r, z>>
  BY <1>2, <1>6
<1>8. i + z = p
  <2>1. i + z \in 1..Len(f) /\ f[i + z][1] = r /\ f[i + z][2] = z
    BY <1>1, <1>7
  <2> PICK q \in 1..Len(f) : q = i + z
    BY <2>1
  <2>2. ~(p < q) /\ ~(q < p)
    <3>1. f[q][1] = f[p][1] /\ f[q][2] = f[p][2] /\ f[p][2] \in Nat /\ f[p][1] \in Nat
      BY <1>1, <1>3, <2>1
    <3>2. \A a, b \in 1..Len(f) :
            a < b => f[a][1] < f[b][1] \/ (f[a][1] = f[b][1] /\ f[a][2] < f[b][2])
      BY DEF Ordered
    <3>3. PICK c, d : c = f[p][1] /\ d = f[p][2]
      OBVIOUS
    <3>4. ~(c < c) /\ ~(d < d)
      BY <3>1, <3>3
    <3> QED BY <3>1, <3>2, <3>3, <3>4
  <2> QED BY <1>1, <2>2
<1> QED BY <1>7, <1>8

\* Records that end one behind the other start so.
LEMMA PlacesAscend ==
  ASSUME NEW ln, Lens(ln), NEW f, Ordered(ln, f), NEW r \in 1..Len(ln), NEW s \in 1..Len(ln),
         r # s, NEW p \in 1..Len(f), f[p] = <<r, All(ln, r)>>,
         NEW q \in 1..Len(f), f[q] = <<s, All(ln, s)>>, p < q
  PROVE  PlaceIn(ln, f, r) < PlaceIn(ln, f, s)
<1> PICK z, y : z = All(ln, r) /\ y = All(ln, s)
  OBVIOUS
<1>1. z \in Nat \ {0} /\ y \in Nat \ {0} /\ Len(f) \in Nat
  <2>1. Len(f) \in Nat
    BY LenProperties DEF Ordered
  <2>2. ln[r] \in Nat /\ ln[s] \in Nat
    BY DEF Lens
  <2>3. z \in Nat \ {0}
    BY <2>2, AllIs
  <2>4. y \in Nat \ {0}
    BY <2>2, AllIs
  <2> QED BY <2>1, <2>3, <2>4
<1> PICK P, Q : P = PlaceIn(ln, f, r) /\ Q = PlaceIn(ln, f, s)
  OBVIOUS
<1>2. P \in Nat /\ P + z = p /\ Q \in Nat /\ Q + y = q
  <2>1. P \in Nat /\ P + z = p
    BY PlaceIs
  <2>2. Q \in Nat /\ Q + y = q
    BY PlaceIs
  <2> QED BY <2>1, <2>2
<1>3. \A k \in 1..y : f[q - y + k] = <<s, k>>
  <2>1. f[q][1] = s /\ f[q][2] = y
    OBVIOUS
  <2> QED BY <2>1 DEF Ordered
<1>4. ~(Q < p)
  <2> SUFFICES ASSUME Q < p PROVE FALSE
    OBVIOUS
  <2>1. p \in Nat /\ q \in Nat /\ y \in Nat
    BY <1>1
  <2>2. PICK k \in Nat : Q + k = p /\ k # 0
    <3>1. Q \in Nat
      BY <1>2
    <3> QED BY <2>1, <3>1, StepsBetween
  <2>3. k \in 1..y
    <3>1. k < y
      BY <1>2, <2>1, <2>2
    <3> QED BY <2>1, <2>2, <3>1
  <2>4. q - y + k = p
    <3>1. q - y = Q
      BY <1>2, <2>1
    <3> QED BY <2>2, <3>1
  <2>5. f[p] = <<s, k>>
    BY <1>3, <2>3, <2>4
  <2>6. f[p][1] = s /\ f[p][1] = r
    BY <2>5
  <2> QED BY <2>6
<1>5. P < p
  BY <1>1, <1>2
<1>6. P < Q
  BY <1>2, <1>4, <1>5
<1> QED BY <1>6

LEMMA EndsSame ==
  ASSUME NEW ln, NEW f, NEW g, NEW n, \A p \in 1..n : g[p] = f[p]
  PROVE  Ends(ln, g, n) = Ends(ln, f, n)
BY DEF Ends

\* An entry that is new has no bytes in the file.
LEMMA LogWith ==
  ASSUME NEW ln, Lens(ln), NEW ln2, Lens(ln2), Len(ln2) = Len(ln) + 1,
         \A r \in 1..Len(ln) : ln2[r] = ln[r], NEW f, Ordered(ln, f)
  PROVE  /\ LogOf(ln2, f) = LogOf(ln, f)
         /\ \A n \in 0..Len(f) : Ends(ln2, f, n) = Ends(ln, f, n)
<1>1. Len(ln) \in Nat /\ Len(ln2) \in Nat /\ 1..Len(ln) \subseteq 1..Len(ln2)
  BY DEF Lens
<1>2. \A r \in 1..Len(ln) : All(ln2, r) = All(ln, r)
  BY DEF All
<1>3. \A p \in 1..Len(f) : f[p][1] \in 1..Len(ln)
  BY <1>1, BitIs DEF Ordered
<1>4. ASSUME NEW n \in 0..Len(f) PROVE Ends(ln2, f, n) = Ends(ln, f, n)
  <2>1. Len(f) \in Nat /\ 1..n \subseteq 1..Len(f)
    <3>1. Len(f) \in Nat
      BY LenProperties DEF Ordered
    <3> QED BY <3>1
  <2>2. ASSUME NEW r, NEW z, NEW p \in 1..n, f[p] = <<r, z>> PROVE r \in 1..Len(ln)
    <3>1. f[p][1] = r
      BY <2>2
    <3> QED BY <1>3, <2>1, <3>1
  <2>3. \A r \in Ends(ln2, f, n) : r \in Ends(ln, f, n)
    BY <1>2, <2>2 DEF Ends
  <2>4. \A r \in Ends(ln, f, n) : r \in Ends(ln2, f, n)
    BY <1>1, <1>2 DEF Ends
  <2> QED BY <2>3, <2>4
<1>5. Ends(ln2, f, Len(f)) = Ends(ln, f, Len(f))
  <2>1. Len(f) \in Nat
    BY LenProperties DEF Ordered
  <2> QED BY <1>4, <2>1
<1>6. \A r \in Ends(ln, f, Len(f)) : PlaceIn(ln2, f, r) = PlaceIn(ln, f, r)
  BY <1>2 DEF Ends, PlaceIn
<1>7. LogOf(ln2, f) = LogOf(ln, f)
  BY <1>5, <1>6 DEF LogOf
<1> QED BY <1>4, <1>7

\* What A has, and e behind it.
Behind(A, B, e) == /\ e \notin DOMAIN A
                   /\ B \in [DOMAIN A \cup {e} -> Nat]
                   /\ \A r \in DOMAIN A : B[r] = A[r] /\ A[r] < B[e]

\* A has the entries E of a file of n bytes.
Says(ln, f, n, A, E) ==
  /\ A = [r \in E |-> A[r]]
  /\ \A r \in E : \E p \in 1..n : /\ f[p] = <<r, All(ln, r)>>
                                  /\ A[r] = p - All(ln, r) /\ A[r] \in Nat

LEMMA LogIs ==
  ASSUME NEW ln, Lens(ln), NEW f, Ordered(ln, f), NEW n, n = Len(f),
         NEW A, A = LogOf(ln, f), NEW E, E = Ends(ln, f, n)
  PROVE  Says(ln, f, n, A, E)
<1>1. A = [r \in E |-> A[r]] /\ \A r \in E : A[r] = PlaceIn(ln, f, r)
  BY DEF LogOf
<1>2. ASSUME NEW r \in E
      PROVE  \E p \in 1..n : /\ f[p] = <<r, All(ln, r)>>
                             /\ PlaceIn(ln, f, r) = p - All(ln, r) /\ PlaceIn(ln, f, r) \in Nat
  <2>1. PICK p \in 1..n : r \in 1..Len(ln) /\ f[p] = <<r, All(ln, r)>>
    BY <1>2 DEF Ends
  <2>2. PlaceIn(ln, f, r) \in Nat /\ PlaceIn(ln, f, r) + All(ln, r) = p
    BY <2>1, PlaceIs
  <2>3. All(ln, r) \in Nat /\ n \in Nat
    <3>1. n \in Nat
      BY LenProperties DEF Ordered
    <3> QED BY <2>1, <3>1 DEF All, Lens
  <2> QED BY <2>1, <2>2, <2>3
<1> QED BY <1>1, <1>2 DEF Says

\* The file grows by bytes of one entry: its record gets whole behind the others,
\* or nothing changes.
LEMMA LogGrows ==
  ASSUME NEW ln, Lens(ln), NEW f, Ordered(ln, f), NEW g, Ordered(ln, g),
         Len(f) <= Len(g), \A p \in 1..Len(f) : g[p] = f[p],
         NEW e \in 1..Len(ln), \A p \in (Len(f) + 1)..Len(g) : g[p][1] = e
  PROVE  LogOf(ln, g) = LogOf(ln, f) \/ Behind(LogOf(ln, f), LogOf(ln, g), e)
<1> PICK A, B, E, F, m, n : /\ A = LogOf(ln, f) /\ B = LogOf(ln, g) /\ m = Len(f) /\ n = Len(g)
                            /\ E = Ends(ln, f, m) /\ F = Ends(ln, g, n)
  OBVIOUS
<1>1. m \in Nat /\ n \in Nat /\ 1..m \subseteq 1..n
  <2>1. m \in Nat /\ n \in Nat
    BY LenProperties DEF Ordered
  <2> QED BY <2>1
<1>2. /\ A = [r \in E |-> A[r]]
      /\ \A r \in E : \E p \in 1..m : /\ f[p] = <<r, All(ln, r)>>
                                      /\ A[r] = p - All(ln, r) /\ A[r] \in Nat
  <2>1. Says(ln, f, m, A, E)
    BY LogIs
  <2> QED BY <2>1 DEF Says
<1>3. /\ B = [r \in F |-> B[r]]
      /\ \A r \in F : \E p \in 1..n : /\ g[p] = <<r, All(ln, r)>>
                                      /\ B[r] = p - All(ln, r) /\ B[r] \in Nat
  <2>1. Says(ln, g, n, B, F)
    BY LogIs
  <2> QED BY <2>1 DEF Says
<1>4. /\ E \subseteq 1..Len(ln) /\ F \subseteq 1..Len(ln)
      /\ \A r \in E : \E p \in 1..m : f[p] = <<r, All(ln, r)>>
      /\ \A r \in F : \E p \in 1..n : g[p] = <<r, All(ln, r)>>
      /\ \A r \in 1..Len(ln) : (\E p \in 1..m : f[p] = <<r, All(ln, r)>>) => r \in E
      /\ \A r \in 1..Len(ln) : (\E p \in 1..n : g[p] = <<r, All(ln, r)>>) => r \in F
  BY DEF Ends
<1>5. ASSUME NEW r \in E PROVE r \in F /\ B[r] = A[r]
  <2>1. PICK p \in 1..m : f[p] = <<r, All(ln, r)>> /\ A[r] = p - All(ln, r) /\ A[r] \in Nat
    BY <1>2, <1>5
  <2>2. p \in 1..n /\ g[p] = <<r, All(ln, r)>>
    BY <1>1, <2>1
  <2>3. r \in F /\ B[r] = PlaceIn(ln, g, r)
    BY <1>4, <1>5, <2>2 DEF LogOf
  <2>4. PlaceIn(ln, g, r) \in Nat /\ PlaceIn(ln, g, r) + All(ln, r) = p
    <3>1. r \in 1..Len(ln) /\ p \in 1..Len(g)
      BY <1>4, <1>5, <2>2
    <3> QED BY <2>2, <3>1, PlaceIs
  <2>5. All(ln, r) \in Nat
    BY <1>4, <1>5 DEF All, Lens
  <2> QED BY <1>1, <2>1, <2>3, <2>4, <2>5
<1>6. ASSUME NEW r \in F, r \notin E PROVE r = e /\ \E p \in (m + 1)..n : g[p] = <<r, All(ln, r)>>
  <2>1. PICK p \in 1..n : g[p] = <<r, All(ln, r)>>
    BY <1>4, <1>6
  <2>2. p \notin 1..m
    BY <1>4, <1>6, <2>1
  <2>3. p \in (m + 1)..n
    BY <1>1, <2>2
  <2>4. g[p][1] = e /\ g[p][1] = r
    BY <2>1, <2>3
  <2> QED BY <2>1, <2>3, <2>4
<1>7. CASE e \in F /\ e \notin E
  <2>1. F = E \cup {e}
    BY <1>5, <1>6, <1>7
  <2>2. PICK q \in (m + 1)..n : g[q] = <<e, All(ln, e)>>
    BY <1>6, <1>7
  <2>3. ASSUME NEW r \in E PROVE A[r] < B[e]
    <3>1. PICK p \in 1..m : f[p] = <<r, All(ln, r)>>
      BY <1>2, <2>3
    <3>2. p \in 1..n /\ q \in 1..n /\ p < q /\ r # e /\ g[p] = <<r, All(ln, r)>>
      BY <1>1, <1>7, <2>3, <3>1
    <3>3. PlaceIn(ln, g, r) < PlaceIn(ln, g, e)
      BY <1>4, <2>2, <2>3, <3>2, PlacesAscend
    <3>4. B[r] = PlaceIn(ln, g, r) /\ B[e] = PlaceIn(ln, g, e)
      BY <1>5, <1>7, <2>3 DEF LogOf
    <3> QED BY <1>5, <2>3, <3>3, <3>4
  <2>4. DOMAIN A = E
    BY <1>2
  <2>5. B \in [E \cup {e} -> Nat]
    BY <1>3, <2>1
  <2> QED BY <1>5, <1>7, <2>3, <2>4, <2>5 DEF Behind
<1>8. CASE ~(e \in F /\ e \notin E)
  <2>1. F = E
    <3>1. \A r \in E : r \in F
      BY <1>5
    <3>2. \A r \in F : r \in E
      BY <1>6, <1>8
    <3> QED BY <3>1, <3>2
  <2> QED BY <1>2, <1>3, <1>5, <2>1
<1> QED BY <1>7, <1>8

\* The file is cut: what is left are the entries before a place.
LEMMA LogCut ==
  ASSUME NEW ln, Lens(ln), NEW f, Ordered(ln, f), NEW g, Ordered(ln, g),
         Len(g) <= Len(f), \A p \in 1..Len(g) : g[p] = f[p],
         NEW left, left = Ends(ln, g, Len(g))
  PROVE  /\ left \subseteq DOMAIN LogOf(ln, f)
         /\ LogOf(ln, g) = [r \in left |-> LogOf(ln, f)[r]]
         /\ \A r \in left : \A s \in DOMAIN LogOf(ln, f) \ left : LogOf(ln, f)[r] < LogOf(ln, f)[s]
<1> PICK A, B, E, m, n : /\ A = LogOf(ln, f) /\ B = LogOf(ln, g) /\ m = Len(f) /\ n = Len(g)
                         /\ E = Ends(ln, f, m)
  OBVIOUS
<1>1. m \in Nat /\ n \in Nat /\ 1..n \subseteq 1..m
  <2>1. m \in Nat /\ n \in Nat
    BY LenProperties DEF Ordered
  <2> QED BY <2>1
<1>2. /\ A = [r \in E |-> A[r]] /\ DOMAIN A = E
      /\ \A r \in E : A[r] = PlaceIn(ln, f, r)
      /\ B = [r \in left |-> B[r]] /\ \A r \in left : B[r] = PlaceIn(ln, g, r)
  BY DEF LogOf
<1>3. /\ E \subseteq 1..Len(ln) /\ left \subseteq 1..Len(ln)
      /\ \A r \in E : \E p \in 1..m : f[p] = <<r, All(ln, r)>>
      /\ \A r \in left : \E p \in 1..n : g[p] = <<r, All(ln, r)>>
      /\ \A r \in 1..Len(ln) : (\E p \in 1..m : f[p] = <<r, All(ln, r)>>) => r \in E
      /\ \A r \in 1..Len(ln) : (\E p \in 1..n : g[p] = <<r, All(ln, r)>>) => r \in left
  BY DEF Ends
<1>4. ASSUME NEW r \in left PROVE r \in E /\ B[r] = A[r]
  <2>1. PICK p \in 1..n : g[p] = <<r, All(ln, r)>>
    BY <1>3, <1>4
  <2>2. p \in 1..m /\ f[p] = <<r, All(ln, r)>>
    BY <1>1, <2>1
  <2>3. r \in E
    BY <1>3, <1>4, <2>2
  <2>4. PlaceIn(ln, g, r) \in Nat /\ PlaceIn(ln, g, r) + All(ln, r) = p
    BY <1>3, <1>4, <2>1, PlaceIs
  <2>5. PlaceIn(ln, f, r) \in Nat /\ PlaceIn(ln, f, r) + All(ln, r) = p
    BY <1>3, <1>4, <2>2, PlaceIs
  <2>6. All(ln, r) \in Nat
    BY <1>3, <1>4 DEF All, Lens
  <2> QED BY <1>2, <1>4, <2>3, <2>4, <2>5, <2>6
<1>5. ASSUME NEW r \in left, NEW s \in E \ left PROVE A[r] < A[s]
  <2>1. PICK p \in 1..n : g[p] = <<r, All(ln, r)>>
    BY <1>3, <1>5
  <2>2. PICK q \in 1..m : f[q] = <<s, All(ln, s)>>
    BY <1>3, <1>5
  <2>3. q \notin 1..n
    BY <1>3, <1>5, <2>2
  <2>4. p \in 1..m /\ p < q /\ f[p] = <<r, All(ln, r)>> /\ r # s
    BY <1>1, <1>5, <2>1, <2>2, <2>3
  <2>5. PlaceIn(ln, f, r) < PlaceIn(ln, f, s)
    BY <1>3, <1>5, <2>2, <2>4, PlacesAscend
  <2> QED BY <1>2, <1>4, <1>5, <2>5
<1>6. B = [r \in left |-> A[r]]
  BY <1>2, <1>4
<1> QED BY <1>2, <1>4, <1>5, <1>6

-----------------------------------------------------------------------------
(* The writer keeps the order. *)

Way == file \o buffer \o data

\* What is in the file and on its way there is ordered, and during a call all
\* behind the file is the latest entry's, up to the end of what append was given.
Strings ==
  /\ Ordered(len, Way)
  /\ pc \in Adding =>
       /\ \A p \in (Len(file) + 1)..Len(Way) : Way[p][1] = Entry
       /\ Len(Way) > 0
       /\ Way[Len(Way)] = <<Entry, IF part = "header" THEN kHeaderSize ELSE Size(Entry)>>

LEMMA WayParts ==
  ASSUME NEW S, NEW f \in Seq(S), NEW b \in Seq(S), NEW d \in Seq(S), NEW w, w = f \o b \o d
  PROVE  /\ w \in Seq(S) /\ Len(w) = Len(f) + Len(b) + Len(d)
         /\ Len(f) \in Nat /\ Len(b) \in Nat /\ Len(d) \in Nat
         /\ \A p \in 1..Len(f) : w[p] = f[p]
         /\ \A i \in 1..Len(b) : w[Len(f) + i] = b[i]
         /\ b = <<>> /\ d = <<>> => w = f
<1>1. Len(f) \in Nat /\ Len(b) \in Nat /\ Len(d) \in Nat
  BY LenProperties
<1>2. /\ f \o b \in Seq(S) /\ Len(f \o b) = Len(f) + Len(b)
      /\ \A i \in 1..Len(f) + Len(b) : (f \o b)[i] = IF i <= Len(f) THEN f[i] ELSE b[i - Len(f)]
  BY ConcatProperties
<1> PICK u : u = f \o b
  OBVIOUS
<1>3. /\ w \in Seq(S) /\ Len(w) = Len(u) + Len(d)
      /\ \A i \in 1..Len(u) + Len(d) : w[i] = IF i <= Len(u) THEN u[i] ELSE d[i - Len(u)]
  BY <1>2, ConcatProperties
<1>4. \A i \in 1..Len(f) + Len(b) : w[i] = u[i]
  BY <1>1, <1>2, <1>3
<1>5. \A p \in 1..Len(f) : w[p] = f[p]
  BY <1>1, <1>2, <1>4
<1>6. ASSUME NEW i \in 1..Len(b) PROVE w[Len(f) + i] = b[i]
  <2>1. Len(f) + i \in 1..Len(f) + Len(b) /\ ~(Len(f) + i <= Len(f)) /\ Len(f) + i - Len(f) = i
    BY <1>1
  <2> QED BY <1>2, <1>4, <2>1
<1>7. b = <<>> /\ d = <<>> => w = f
  BY <1>2, ConcatEmptySeq
<1> QED BY <1>1, <1>2, <1>3, <1>5, <1>6, <1>7

LEMMA WayIs ==
  ASSUME IInv
  PROVE  /\ Way \in Seq(Bit(len)) /\ Len(Way) = Len(file) + Len(buffer) + Len(data)
         /\ Len(file) \in Nat /\ Len(buffer) \in Nat /\ Len(data) \in Nat
         /\ \A p \in 1..Len(file) : Way[p] = file[p]
         /\ pc \notin Adding => Way = file
         /\ pc # "dead" => Way = base \o given
         /\ Lens(len)
<1>1. /\ file \in Seq(Bit(len)) /\ buffer \in Seq(Bit(len)) /\ data \in Seq(Bit(len))
      /\ pc \notin Adding => buffer = <<>> /\ data = <<>>
      /\ pc # "dead" => Way = base \o given
  <2>1. \A s \in {buffer, data, file, given, base} : s \in Seq(Bit(len))
    BY DEF IInv, TypeOK, Bit
  <2>2. pc \notin Adding => buffer = <<>> /\ data = <<>>
    BY DEF IInv, TypeOK, Placed, Adding
  <2>3. pc # "dead" => Way = base \o given
    BY DEF IInv, NothingLostOnTheWay, Way
  <2> QED BY <2>1, <2>2, <2>3
<1>2. /\ Way \in Seq(Bit(len)) /\ Len(Way) = Len(file) + Len(buffer) + Len(data)
      /\ Len(file) \in Nat /\ Len(buffer) \in Nat /\ Len(data) \in Nat
      /\ \A p \in 1..Len(file) : Way[p] = file[p]
      /\ buffer = <<>> /\ data = <<>> => Way = file
  BY <1>1, WayParts DEF Way
<1>3. Lens(len)
  BY LensAreNats DEF Lens, IInv
<1> QED BY <1>1, <1>2, <1>3

\* The same of the next state.
LEMMA WayNext ==
  ASSUME IInv'
  PROVE  /\ Way' \in Seq(Bit(len')) /\ Len(Way') = Len(file') + Len(buffer') + Len(data')
         /\ Len(file') \in Nat /\ Len(buffer') \in Nat /\ Len(data') \in Nat
         /\ \A p \in 1..Len(file') : Way'[p] = file'[p]
         /\ pc' \notin Adding => Way' = file'
         /\ pc' # "dead" => Way' = base' \o given'
<1>1. /\ file' \in Seq(Bit(len')) /\ buffer' \in Seq(Bit(len')) /\ data' \in Seq(Bit(len'))
      /\ pc' \notin Adding => buffer' = <<>> /\ data' = <<>>
      /\ pc' # "dead" => Way' = base' \o given'
  <2>1. \A s \in {buffer', data', file', given', base'} : s \in Seq(Bit(len'))
    BY DEF IInv, TypeOK, Bit
  <2>2. pc' \notin Adding => buffer' = <<>> /\ data' = <<>>
    BY DEF IInv, TypeOK, Placed, Adding
  <2>3. pc' # "dead" => Way' = base' \o given'
    BY DEF IInv, NothingLostOnTheWay, Way
  <2> QED BY <2>1, <2>2, <2>3
<1> PICK f, b, d, w, S : f = file' /\ b = buffer' /\ d = data' /\ w = Way' /\ S = Bit(len')
  OBVIOUS
<1>2. w = f \o b \o d /\ f \in Seq(S) /\ b \in Seq(S) /\ d \in Seq(S)
  BY <1>1 DEF Way
<1>3. /\ w \in Seq(S) /\ Len(w) = Len(f) + Len(b) + Len(d)
      /\ Len(f) \in Nat /\ Len(b) \in Nat /\ Len(d) \in Nat
      /\ \A p \in 1..Len(f) : w[p] = f[p]
      /\ b = <<>> /\ d = <<>> => w = f
  BY <1>2, WayParts
<1> QED BY <1>1, <1>3

LEMMA EntryIs ==
  ASSUME IInv, pc \in Adding
  PROVE  /\ Entry \in 1..Len(len) /\ Size(Entry) = All(len, Entry) /\ len[Entry] \in Nat
         /\ Size(Entry) = kHeaderSize + len[Entry]
<1>1. TypeOK /\ len # <<>>
  BY DEF IInv, Placed
<1>2. Entry \in 1..Len(len)
  BY <1>1, RecordParts
<1> QED BY <1>1, <1>2, LensAreNats DEF Size, All

\* What the steps of a call and Close do with the file and with what is given.
InCall == \/ AppendAll \/ AppendNothing \/ AppendFirst \/ WriteFull \/ Copy \/ WriteRest
          \/ SyncFlush \/ Fsync \/ FsyncFails \/ Close

LEMMA InCallDoes ==
  ASSUME IInv, InCall
  PROVE  /\ UNCHANGED <<len, base>> /\ pc # "dead" /\ pc' # "dead"
         /\ file' = file \/ Persist
         /\ \/ UNCHANGED <<part, given>> /\ (pc' \in Adding => pc \in Adding)
            \/ /\ part = "header" /\ part' = "entry" /\ pc \in Adding /\ pc' \in Adding
               /\ given' = given \o Body
<1>1. CASE AppendAll
  BY <1>1 DEF AppendAll, Appended, Adding
<1>2. CASE AppendNothing \/ AppendFirst
  BY <1>2 DEF AppendNothing, AppendFirst, Adding
<1>3. CASE WriteFull
  BY <1>3 DEF WriteFull, Appended, Adding
<1>4. CASE Copy
  <2>1. /\ UNCHANGED <<file, len, base>> /\ pc = "copy"
        /\ Appended \/ (pc' = "full" /\ UNCHANGED <<part, given>>)
    BY <1>4 DEF Copy
  <2> QED BY <2>1 DEF Appended, Adding
<1>5. CASE WriteRest \/ SyncFlush \/ Close
  BY <1>5 DEF WriteRest, SyncFlush, Close, Adding
<1>6. CASE Fsync \/ FsyncFails
  BY <1>6 DEF Fsync, FsyncFails, Adding
<1> QED BY <1>1, <1>2, <1>3, <1>4, <1>5, <1>6 DEF InCall

\* The file gets longer or stays.
LEMMA FileGoesOn ==
  ASSUME IInv, file' = file \/ Persist
  PROVE  Len(file) <= Len(file') /\ \A p \in 1..Len(file) : file'[p] = file[p]
<1>1. CASE file' = file
  BY <1>1, WayIs
<1>2. CASE Persist
  BY <1>2, PersistKeeps DEF IInv
<1> QED BY <1>1, <1>2

LEMMA InCallStrings ==
  ASSUME IInv, IInv', Strings, InCall
  PROVE  Strings'
<1> PICK w, w2 : w = Way /\ w2 = Way'
  OBVIOUS
<1>1. /\ len' = len /\ base' = base /\ pc # "dead" /\ pc' # "dead"
      /\ file' = file \/ Persist
  BY InCallDoes
<1>2. /\ w = base \o given /\ w2 = base \o given'
      /\ w \in Seq(Bit(len)) /\ Len(w) \in Nat /\ Len(file) \in Nat /\ Len(file') \in Nat
      /\ Lens(len)
  <2>1. w = base \o given /\ w \in Seq(Bit(len)) /\ Len(file) \in Nat /\ Lens(len)
    BY <1>1, WayIs
  <2>2. w2 = base \o given' /\ Len(file') \in Nat
    BY <1>1, WayNext
  <2> QED BY <2>1, <2>2, LenProperties
<1>3. Len(file) <= Len(file')
  BY <1>1, FileGoesOn
<1>4. Ordered(len, w) /\ Entry' = Entry /\ Size(Entry)' = Size(Entry)
  BY <1>1 DEF Strings, Entry, Size
<1>5. CASE UNCHANGED <<part, given>> /\ (pc' \in Adding => pc \in Adding)
  <2>1. w2 = w
    BY <1>2, <1>5
  <2>2. ASSUME pc' \in Adding
        PROVE  /\ \A p \in (Len(file') + 1)..Len(w) : w[p][1] = Entry
               /\ Len(w) > 0
               /\ w[Len(w)] = <<Entry, IF part' = "header" THEN kHeaderSize ELSE Size(Entry)>>
    <3>1. /\ \A p \in (Len(file) + 1)..Len(w) : w[p][1] = Entry
          /\ Len(w) > 0
          /\ w[Len(w)] = <<Entry, IF part = "header" THEN kHeaderSize ELSE Size(Entry)>>
      BY <1>5, <2>2 DEF Strings
    <3>2. (Len(file') + 1)..Len(w) \subseteq (Len(file) + 1)..Len(w)
      BY <1>2, <1>3
    <3> QED BY <1>5, <3>1, <3>2
  <2> QED BY <1>1, <1>4, <2>1, <2>2 DEF Strings
<1>6. CASE /\ part = "header" /\ part' = "entry" /\ pc \in Adding /\ pc' \in Adding
           /\ given' = given \o Body
  <2> PICK e, x : e = Entry /\ x = Body
    OBVIOUS
  <2>1. e \in 1..Len(len) /\ len[e] \in Nat /\ Size(e) = kHeaderSize + len[e] /\ All(len, e) = Size(e)
    BY <1>6, EntryIs
  <2>2. /\ x \in Seq(Bit(len)) /\ Len(x) = len[e]
        /\ \A i \in 1..len[e] : x[i] = <<e, kHeaderSize + i>>
    <3> PICK R, h, n : R = 1..Len(len) /\ h = kHeaderSize /\ n = len[e]
      OBVIOUS
    <3>1. x = Bytes(e, h, n) /\ h \in Nat /\ n \in Nat /\ e \in R
      BY <2>1 DEF Body
    <3>2. Bytes(e, h, n) \in Seq(Of(R))
      BY <3>1, BytesProps
    <3>3. Len(Bytes(e, h, n)) = n
      BY <3>1, BytesProps
    <3>4. \A i \in 1..n : Bytes(e, h, n)[i] = <<e, h + i>>
      BY DEF Bytes
    <3> QED BY <3>1, <3>2, <3>3, <3>4 DEF Of, Bit
  <2>3. w2 = w \o x
    <3>1. base \in Seq(AByte) /\ given \in Seq(AByte) /\ x \in Seq(AByte)
      <4>1. x \in Seq(AByte)
        BY <2>2 DEF Bit, AByte, Of
      <4> QED BY <4>1, TypesOf DEF IInv
    <3>2. (base \o given) \o x = base \o (given \o x)
      BY <3>1, ConcatAgain
    <3> QED BY <1>2, <1>6, <3>2
  <2>4. /\ \A p \in (Len(file) + 1)..Len(w) : w[p][1] = e
        /\ Len(w) > 0 /\ w[Len(w)] = <<e, kHeaderSize>>
    BY <1>6 DEF Strings
  <2>5. Ordered(len, w \o x)
    <3>1. kHeaderSize \in Nat /\ kHeaderSize + Len(x) <= All(len, e) /\ Len(len) \in Nat
      BY <1>2, <2>1, <2>2 DEF Lens
    <3>2. \A i \in 1..Len(x) : x[i] = <<e, kHeaderSize + i>>
      BY <2>2
    <3> QED BY <1>4, <2>1, <2>2, <2>4, <3>1, <3>2, OrderedMore
  <2>6. /\ Len(w2) = Len(w) + len[e]
        /\ \A i \in 1..Len(w) : w2[i] = w[i]
        /\ \A i \in 1..len[e] : w2[Len(w) + i] = <<e, kHeaderSize + i>>
    <3>1. /\ Len(w \o x) = Len(w) + Len(x)
          /\ \A i \in 1..Len(w) + Len(x) :
               (w \o x)[i] = IF i <= Len(w) THEN w[i] ELSE x[i - Len(w)]
      BY <1>2, <2>2, ConcatProperties
    <3>2. ASSUME NEW i \in 1..len[e] PROVE w2[Len(w) + i] = <<e, kHeaderSize + i>>
      <4>1. Len(w) \in Nat /\ Len(x) \in Nat /\ i \in Nat /\ 1 <= i /\ i <= Len(x)
        BY <1>2, <2>1, <2>2
      <4>2. Len(w) + i \in 1..Len(w) + Len(x)
        BY <4>1
      <4>3. ~(Len(w) + i <= Len(w)) /\ Len(w) + i - Len(w) = i
        BY <4>1
      <4>4. w2[Len(w) + i] = x[i]
        BY <2>3, <3>1, <4>2, <4>3
      <4> QED BY <2>2, <4>4
    <3>3. ASSUME NEW i \in 1..Len(w) PROVE w2[i] = w[i]
      <4>1. Len(w) \in Nat /\ Len(x) \in Nat
        BY <1>2, <2>1, <2>2
      <4>2. i \in 1..Len(w) + Len(x) /\ i <= Len(w)
        BY <4>1
      <4> QED BY <2>3, <3>1, <4>2
    <3>4. Len(w2) = Len(w) + len[e]
      BY <2>2, <2>3, <3>1
    <3> QED BY <3>2, <3>3, <3>4
  <2>7. \A p \in (Len(file') + 1)..Len(w2) : w2[p][1] = e
    <3> SUFFICES ASSUME NEW p \in (Len(file') + 1)..Len(w2) PROVE w2[p][1] = e
      OBVIOUS
    <3>1. CASE p <= Len(w)
      <4>1. p \in (Len(file) + 1)..Len(w) /\ p \in 1..Len(w)
        BY <1>2, <1>3, <2>1, <2>6, <3>1
      <4> QED BY <2>4, <2>6, <4>1
    <3>2. CASE ~(p <= Len(w))
      <4>1. p - Len(w) \in 1..len[e] /\ Len(w) + (p - Len(w)) = p
        BY <1>2, <2>1, <2>6, <3>2
      <4> QED BY <2>6, <4>1
    <3> QED BY <3>1, <3>2
  <2>8. w2[Len(w2)] = <<e, Size(e)>> /\ Len(w2) > 0
    <3>1. CASE len[e] = 0
      <4>1. Len(w) \in Nat /\ kHeaderSize \in Nat
        BY <1>2
      <4>2. Len(w2) = Len(w) /\ Size(e) = kHeaderSize
        BY <2>1, <2>6, <3>1, <4>1
      <4>3. Len(w) \in 1..Len(w)
        BY <2>4, <4>1
      <4>4. w2[Len(w)] = w[Len(w)]
        BY <2>6, <4>3
      <4> QED BY <2>4, <4>2, <4>4
    <3>2. CASE len[e] # 0
      <4>1. len[e] \in 1..len[e]
        BY <2>1, <3>2
      <4>2. w2[Len(w) + len[e]] = <<e, Size(e)>>
        BY <2>1, <2>6, <4>1
      <4>3. Len(w2) = Len(w) + len[e]
        BY <2>6
      <4>4. Len(w2) > 0
        <5>1. Len(w) \in Nat /\ len[e] \in Nat /\ Len(w) > 0
          BY <1>2, <2>1, <2>4
        <5> QED BY <4>3, <5>1
      <4> QED BY <4>2, <4>3, <4>4
    <3> QED BY <3>1, <3>2
  <2>9. Ordered(len', w2)
    BY <1>1, <2>3, <2>5
  <2>10. Entry' = e /\ Size(Entry)' = Size(e)
    BY <1>4
  <2> QED BY <1>6, <2>7, <2>8, <2>9, <2>10 DEF Strings
<1> QED BY <1>5, <1>6, InCallDoes

\* The new entry, of which the file has no byte.
LEMMA AddLogDoes ==
  ASSUME IInv, IInv', NEW n \in LogLens, AddLog(n)
  PROVE  /\ Len(len') = Len(len) + 1 /\ \A r \in 1..Len(len) : len'[r] = len[r]
         /\ Lens(len) /\ Lens(len') /\ Entry' = Len(len) + 1
         /\ Way = file /\ file' = file /\ synced' = synced /\ data' = Header' /\ Way' = Way \o Header'
         /\ pc \notin Adding /\ pc' \in Adding /\ part' = "header"
<1>1. len' = Append(len, n) /\ len \in Seq(LogLens) /\ pc = "idle" /\ pc' = "append"
  BY DEF AddLog, IInv, TypeOK
<1>2. Len(len') = Len(len) + 1 /\ (\A r \in 1..Len(len) : len'[r] = len[r]) /\ Entry' = Len(len) + 1
  BY <1>1 DEF Entry
<1>3. Way = file /\ Lens(len) /\ pc \notin Adding
  BY <1>1, WayIs DEF Adding
<1>4. Lens(len')
  <2>1. \A r \in 1..Len(len') : len'[r] \in Nat
    BY <1>1, <1>2, <1>3 DEF Lens
  <2> QED BY <1>2, <1>3, <2>1 DEF Lens
<1>5. data' = Header'
  BY <1>2 DEF AddLog, Header, Bytes
<1>6. Way' = Way \o Header'
  <2>1. buffer' = <<>> /\ file' = file
    BY <1>1 DEF AddLog, IInv, Placed
  <2>2. file \o <<>> = file
    <3>1. file \in Seq(AByte)
      BY TypesOf DEF IInv
    <3> QED BY <3>1, ConcatEmptySeq
  <2> QED BY <1>3, <1>5, <2>1, <2>2 DEF Way
<1> QED BY <1>1, <1>2, <1>3, <1>4, <1>5, <1>6 DEF AddLog, Adding

LEMMA AddLogStrings ==
  ASSUME IInv, IInv', Strings, NEW n \in LogLens, AddLog(n)
  PROVE  Strings'
<1> PICK w, ln, e, x, w2 : w = Way /\ ln = len' /\ e = Entry' /\ x = Header' /\ w2 = Way'
  OBVIOUS
<1>1. /\ Len(ln) = Len(len) + 1 /\ (\A r \in 1..Len(len) : ln[r] = len[r])
      /\ Lens(len) /\ Lens(ln) /\ e = Len(len) + 1 /\ w2 = w \o x
      /\ w = file /\ file' = file /\ pc' \in Adding /\ part' = "header"
  BY AddLogDoes
<1>2. Ordered(len, w) /\ Ordered(ln, w) /\ Len(w) \in Nat
  <2>1. Ordered(len, w)
    BY DEF Strings
  <2>2. Len(len) \in Nat /\ Len(ln) \in Nat /\ Len(len) <= Len(ln)
    BY <1>1 DEF Lens
  <2>3. Len(w) \in Nat
    BY <2>1, LenProperties DEF Ordered
  <2> QED BY <1>1, <2>1, <2>2, <2>3, OrderedWith
<1>3. \A p \in 1..Len(w) : w[p][1] < e
  <2>1. Len(len) \in Nat /\ w \in Seq(Bit(len))
    BY <1>1, <1>2 DEF Lens, Ordered
  <2>2. \A p \in 1..Len(w) : w[p][1] \in 1..Len(len)
    BY <2>1, BitIs
  <2> QED BY <1>1, <2>1, <2>2
<1>4. e \in 1..Len(ln) /\ Len(ln) \in Nat /\ ln[e] \in Nat
  BY <1>1 DEF Lens
<1>5. x \in Seq(Bit(ln)) /\ Len(x) = kHeaderSize /\ \A i \in 1..Len(x) : x[i] = <<e, 0 + i>>
  <2> PICK R, h : R = 1..Len(ln) /\ h = kHeaderSize
    OBVIOUS
  <2>1. x = Bytes(e, 0, h) /\ h \in Nat /\ e \in R
    BY <1>4 DEF Header
  <2>2. Bytes(e, 0, h) \in Seq(Of(R))
    BY <2>1, BytesProps
  <2>3. Len(Bytes(e, 0, h)) = h
    BY <2>1, BytesProps
  <2>4. \A i \in 1..h : Bytes(e, 0, h)[i] = <<e, 0 + i>>
    BY DEF Bytes
  <2> QED BY <2>1, <2>2, <2>3, <2>4 DEF Of, Bit
<1>6. Ordered(ln, w \o x)
  <2>1. 0 + Len(x) <= All(ln, e)
    BY <1>4, <1>5 DEF All
  <2> QED BY <1>2, <1>3, <1>4, <1>5, <2>1, OrderedMore
<1>7. /\ Len(w2) = Len(w) + kHeaderSize
      /\ \A i \in 1..kHeaderSize : w2[Len(w) + i] = <<e, i>>
  <2>1. /\ Len(w \o x) = Len(w) + Len(x)
        /\ \A i \in 1..Len(w) + Len(x) : (w \o x)[i] = IF i <= Len(w) THEN w[i] ELSE x[i - Len(w)]
    <3>1. w \in Seq(Bit(ln))
      BY <1>2 DEF Ordered
    <3>2. x \in Seq(Bit(ln))
      BY <1>5
    <3> QED BY <3>1, <3>2, ConcatProperties
  <2>2. ASSUME NEW i \in 1..kHeaderSize PROVE w2[Len(w) + i] = <<e, i>>
    <3>1. /\ Len(w) + i \in 1..Len(w) + Len(x) /\ ~(Len(w) + i <= Len(w))
          /\ Len(w) + i - Len(w) = i /\ 0 + i = i
      BY <1>2, <1>5
    <3>2. x[i] = <<e, 0 + i>>
      BY <1>5
    <3>3. w2[Len(w) + i] = x[i]
      BY <1>1, <2>1, <3>1
    <3> QED BY <3>1, <3>2, <3>3
  <2> QED BY <1>1, <1>5, <2>1, <2>2
<1>8. \A p \in (Len(file') + 1)..Len(w2) : w2[p][1] = e
  <2> SUFFICES ASSUME NEW p \in (Len(w) + 1)..Len(w2) PROVE w2[p][1] = e
    BY <1>1
  <2>1. p - Len(w) \in 1..kHeaderSize /\ Len(w) + (p - Len(w)) = p
    BY <1>2, <1>7
  <2> QED BY <1>7, <2>1
<1>9. Len(w2) > 0 /\ w2[Len(w2)] = <<e, kHeaderSize>>
  <2>1. kHeaderSize \in 1..kHeaderSize
    OBVIOUS
  <2>2. w2[Len(w) + kHeaderSize] = <<e, kHeaderSize>>
    BY <1>7, <2>1
  <2>3. Len(w2) > 0
    BY <1>2, <1>7
  <2> QED BY <1>7, <2>2, <2>3
<1> QED BY <1>1, <1>6, <1>8, <1>9 DEF Strings

\* What death leaves of the file, and of the buffer in it, is the way's beginning.
LEMMA DeathLeaves ==
  ASSUME IInv, IInv', ShortWrite \/ Kill \/ PowerLoss
  PROVE  /\ len' = len /\ pc' = "dead" /\ Way' = file'
         /\ Len(file') <= Len(Way) /\ \A p \in 1..Len(file') : file'[p] = Way[p]
         /\ ShortWrite => /\ Len(file) <= Len(file') /\ Len(file') < Len(Way) /\ synced' = synced
                          /\ \A p \in 1..Len(file) : file'[p] = file[p]
<1>1. len' = len /\ pc' = "dead"
  BY DEF ShortWrite, Kill, PowerLoss, Die
<1>2. Way' = file'
  BY <1>1, WayNext DEF Adding
<1>3. /\ Len(Way) = Len(file) + Len(buffer) + Len(data)
      /\ Len(file) \in Nat /\ Len(buffer) \in Nat /\ Len(data) \in Nat
      /\ \A p \in 1..Len(file) : Way[p] = file[p]
  BY WayIs
<1>4. file \in Seq(AByte) /\ buffer \in Seq(AByte) /\ data \in Seq(AByte)
  BY TypesOf DEF IInv
<1>5. \A i \in 1..Len(buffer) : Way[Len(file) + i] = buffer[i]
  BY <1>4, WayParts DEF Way
<1>6. CASE ShortWrite
  <2>1. PICK n \in 0..Len(buffer) - 1 : file' = file \o SubSeq(buffer, 1, n)
    BY <1>6 DEF ShortWrite
  <2> PICK x, g : x = SubSeq(buffer, 1, n) /\ g = file'
    OBVIOUS
  <2>2. x \in Seq(AByte) /\ Len(x) = n /\ \A i \in 1..n : x[i] = buffer[i]
    <3>1. n \in 0..Len(buffer)
      BY <1>3, <2>1
    <3> QED BY <1>4, <3>1, FirstPart
  <2>3. /\ Len(g) = Len(file) + n
        /\ \A i \in 1..Len(file) + n : g[i] = IF i <= Len(file) THEN file[i] ELSE x[i - Len(file)]
    BY <1>4, <2>1, <2>2, ConcatProperties
  <2>4. \A p \in 1..Len(file) : g[p] = file[p]
    BY <1>3, <2>1, <2>3
  <2>5. ASSUME NEW p \in 1..Len(g) PROVE g[p] = Way[p]
    <3>1. CASE p <= Len(file)
      BY <1>3, <2>3, <3>1
    <3>2. CASE ~(p <= Len(file))
      <4>1. p - Len(file) \in 1..n /\ Len(file) + (p - Len(file)) = p
        BY <1>3, <2>3, <3>2
      <4>2. p - Len(file) \in 1..Len(buffer)
        BY <1>3, <2>1, <4>1
      <4>3. g[p] = buffer[p - Len(file)]
        BY <2>2, <2>3, <3>2, <4>1
      <4> QED BY <1>5, <4>1, <4>2, <4>3
    <3> QED BY <3>1, <3>2
  <2>6. Len(file) <= Len(g) /\ Len(g) < Len(Way) /\ synced' = synced
    BY <1>3, <1>6, <2>1, <2>3 DEF ShortWrite
  <2> QED BY <1>1, <1>2, <1>3, <2>3, <2>4, <2>5, <2>6
<1>7. CASE Kill
  <2>1. file' = file
    BY <1>7 DEF Kill
  <2>2. CASE ShortWrite
    BY <1>6, <2>2
  <2>3. CASE ~ShortWrite
    BY <1>1, <1>2, <1>3, <2>1, <2>3
  <2> QED BY <2>2, <2>3
<1>8. CASE PowerLoss
  <2>1. PICK n \in synced..Len(file) : file' = SubSeq(file, 1, n)
    BY <1>8 DEF PowerLoss
  <2>2. n \in 0..Len(file)
    BY <2>1, TypesOf DEF IInv
  <2>3. Len(file') = n /\ \A i \in 1..n : file'[i] = file[i]
    BY <1>4, <2>1, <2>2, FirstPart
  <2>4. \A i \in 1..n : i \in 1..Len(file)
    BY <1>3, <2>2
  <2>5. CASE ShortWrite
    BY <1>6, <2>5
  <2>6. CASE ~ShortWrite
    BY <1>1, <1>2, <1>3, <2>2, <2>3, <2>4, <2>6
  <2> QED BY <2>5, <2>6
<1> QED BY <1>6, <1>7, <1>8

LEMMA DeathStrings ==
  ASSUME IInv, IInv', Strings, ShortWrite \/ Kill \/ PowerLoss
  PROVE  Strings'
<1> PICK w, g : w = Way /\ g = file'
  OBVIOUS
<1>1. /\ len' = len /\ pc' = "dead" /\ Way' = g
      /\ Len(g) <= Len(w) /\ \A p \in 1..Len(g) : g[p] = w[p]
  BY DeathLeaves
<1>2. Ordered(len, w) /\ g \in Seq(Bit(len))
  BY <1>1, WayNext DEF Strings
<1>3. Ordered(len, g)
  BY <1>1, <1>2, OrderedCut
<1> QED BY <1>1, <1>3 DEF Strings, Adding

LEMMA StringsStep == IInv /\ IInv' /\ Strings /\ [Next]_vars => Strings'
<1> SUFFICES ASSUME IInv, IInv', Strings, [Next]_vars PROVE Strings'
  OBVIOUS
<1>1. CASE \E n \in LogLens : AddLog(n)
  BY <1>1, AddLogStrings
<1>2. CASE InCall
  BY <1>2, InCallStrings
<1>3. CASE ShortWrite \/ Kill \/ PowerLoss
  BY <1>3, DeathStrings
<1>4. CASE Reopen
  <2>1. pc \notin Adding /\ pc' \notin Adding /\ file' = file /\ len' = len
    BY <1>4 DEF Reopen, Adding
  <2>2. Way' = Way
    <3>1. Way' = file' /\ Way = file
      BY <2>1, WayIs, WayNext
    <3> QED BY <2>1, <3>1
  <2> QED BY <2>1, <2>2 DEF Strings
<1>5. CASE UNCHANGED vars
  BY <1>5 DEF vars, Strings, Way, Entry, Size
<1> QED BY <1>1, <1>2, <1>3, <1>4, <1>5 DEF Next, InCall

LEMMA InitStrings == Init => Strings
<1> SUFFICES ASSUME Init PROVE Strings
  OBVIOUS
<1>1. IInv
  BY InitInv
<1>2. Way = file /\ file = <<>> /\ pc \notin Adding /\ Len(file) = 0
  BY <1>1, WayIs DEF Init, Adding
<1>3. Ordered(len, <<>>)
  BY DEF Ordered
<1> QED BY <1>2, <1>3 DEF Strings

LEMMA InOrder == Spec => [](IInv /\ Strings)
<1>1. IInv /\ Strings /\ [Next]_vars => IInv' /\ Strings'
  BY StepInv, StringsStep
<1> QED BY <1>1, InitInv, InitStrings, PTL DEF Spec

-----------------------------------------------------------------------------
(* The writer is a durable log. *)

\* What DurableLog sees of the file.
LogSeen == /\ Ordered(len, file) /\ Lens(len) /\ synced \in 0..Len(file)
           /\ Entries(Len(file)) = Ends(len, file, Len(file))
           /\ [r \in Entries(Len(file)) |-> Place(r)] = LogOf(len, file)
           /\ Entries(synced) = Ends(len, file, synced)

LEMMA Seen == IInv /\ Strings => LogSeen
<1> SUFFICES ASSUME IInv, Strings PROVE LogSeen
  OBVIOUS
<1>1. Ordered(len, file) /\ Lens(len)
  <2> PICK w : w = Way
    OBVIOUS
  <2>1. /\ Ordered(len, w) /\ Len(file) <= Len(w)
        /\ \A p \in 1..Len(file) : file[p] = w[p]
    BY WayIs DEF Strings
  <2>2. file \in Seq(Bit(len)) /\ Lens(len)
    BY WayIs DEF IInv, TypeOK, Bit
  <2> QED BY <2>1, <2>2, OrderedCut
<1>2. synced \in 0..Len(file) /\ Len(file) \in 0..Len(file) /\ DOMAIN len = 1..Len(len)
  BY WayIs, LensAreNats DEF IInv, TypeOK
<1>3. ASSUME NEW n \in 0..Len(file) PROVE Entries(n) = Ends(len, file, n)
  <2>1. Entries(n) = Scanned(len, file, n)
    BY DEF Entries, Whole, Starts, Size, Scanned, Found, All
  <2> QED BY <1>1, <1>2, <2>1, ScannedIs
<1>4. \A r : Place(r) = PlaceIn(len, file, r)
  BY DEF Place, PlaceIn, Starts, Found, Size, All
<1>5. [r \in Entries(Len(file)) |-> Place(r)] = LogOf(len, file)
  <2>1. Entries(Len(file)) = Ends(len, file, Len(file))
    BY <1>2, <1>3
  <2> QED BY <1>4, <2>1 DEF LogOf
<1> QED BY <1>1, <1>2, <1>3, <1>5 DEF LogSeen

LEMMA SeenNext == IInv' /\ Strings' => LogSeen'
BY Seen, PTL

LEMMA InitMaps == Init => Log!Init
<1> SUFFICES ASSUME Init PROVE Log!Init
  OBVIOUS
<1>1. LogSeen
  BY InitInv, InitStrings, Seen
<1>2. len = <<>> /\ file = <<>> /\ synced = 0 /\ pc = "idle" /\ errors = 0 /\ Len(len) = 0
  BY DEF Init
<1>3. \A n : Ends(len, file, n) = {}
  BY <1>2 DEF Ends
<1>4. [r \in Entries(Len(file)) |-> Place(r)] = [r \in {} |-> 0]
  BY <1>1, <1>3 DEF LogSeen
<1>5. Entries(synced) = {}
  BY <1>1, <1>3 DEF LogSeen
<1> QED BY <1>2, <1>4, <1>5 DEF Log!Init, Log!Nothing

\* What DurableLog takes for the entry of the call in progress.
InProgress == IF pc \in {"idle", "closed", "dead"} THEN 0 ELSE Entry

LEMMA InProgressIs ==
  ASSUME IInv
  PROVE  /\ pc \in Adding => InProgress = Entry /\ Entry \in 1..Len(len) /\ Entry # 0
         /\ pc \notin Adding => InProgress = 0
<1>1. pc \in Adding => Entry \in 1..Len(len) /\ Len(len) \in Nat
  BY EntryIs, LensAreNats DEF IInv
<1>2. pc \in Adding <=> pc \notin {"idle", "closed", "dead"}
  BY DEF IInv, TypeOK, Adding
<1> QED BY <1>1, <1>2 DEF InProgress

LEMMA InProgressNext ==
  ASSUME IInv'
  PROVE  /\ pc' \in Adding => InProgress' = Entry'
         /\ pc' \notin Adding => InProgress' = 0
<1>1. pc' \in Adding <=> pc' \notin {"idle", "closed", "dead"}
  BY DEF IInv, TypeOK, Adding
<1> QED BY <1>1 DEF InProgress

\* The file stays as it is.
LEMMA LogStays ==
  ASSUME UNCHANGED <<file, len, synced>>
  PROVE  /\ [r \in Entries(Len(file)) |-> Place(r)]' = [r \in Entries(Len(file)) |-> Place(r)]
         /\ Entries(synced)' = Entries(synced)
BY DEF Entries, Whole, Starts, Size, Place

LEMMA Stutters ==
  ASSUME UNCHANGED <<file, len, synced, errors>>, InProgress' = InProgress
  PROVE  UNCHANGED Log!lvars
<1>1. /\ [r \in Entries(Len(file)) |-> Place(r)]' = [r \in Entries(Len(file)) |-> Place(r)]
      /\ Entries(synced)' = Entries(synced)
  BY LogStays
<1> QED BY <1>1 DEF Log!lvars, InProgress

LEMMA BeginMaps ==
  ASSUME IInv, IInv', LogSeen, LogSeen', NEW n \in LogLens, AddLog(n)
  PROVE  Log!Begin
<1>1. /\ Len(len') = Len(len) + 1 /\ \A r \in 1..Len(len) : len'[r] = len[r]
      /\ Lens(len) /\ Lens(len') /\ Entry' = Len(len) + 1
      /\ file' = file /\ synced' = synced /\ pc \notin Adding /\ pc' \in Adding
  BY AddLogDoes
<1> PICK ln : ln = len'
  OBVIOUS
<1>2. /\ LogOf(ln, file) = LogOf(len, file)
      /\ \A k \in 0..Len(file) : Ends(ln, file, k) = Ends(len, file, k)
  BY <1>1, LogWith DEF LogSeen
<1>3. /\ [r \in Entries(Len(file)) |-> Place(r)]' = [r \in Entries(Len(file)) |-> Place(r)]
      /\ Entries(synced)' = Entries(synced)
  BY <1>1, <1>2 DEF LogSeen
<1>4. InProgress = 0 /\ InProgress' = Len(len) + 1
  BY <1>1, InProgressIs, InProgressNext
<1>5. errors' = errors
  BY DEF AddLog
<1> QED BY <1>1, <1>3, <1>4, <1>5 DEF Log!Begin, InProgress

\* More of the entry gets into the file: the log stays, or gets the entry.
LEMMA GrowMaps ==
  ASSUME IInv, IInv', LogSeen, LogSeen', Strings, pc \in Adding,
         UNCHANGED <<len, synced>>, Len(file) <= Len(file'), Len(file') <= Len(Way),
         \A p \in 1..Len(file') : file'[p] = Way[p]
  PROVE  /\ Entries(synced)' = Entries(synced)
         /\ \/ [r \in Entries(Len(file)) |-> Place(r)]' = [r \in Entries(Len(file)) |-> Place(r)]
            \/ Behind([r \in Entries(Len(file)) |-> Place(r)],
                      [r \in Entries(Len(file)) |-> Place(r)]', Entry)
<1> PICK f, g, w, A, B, e : /\ f = file /\ g = file' /\ w = Way /\ e = Entry
                            /\ A = [r \in Entries(Len(file)) |-> Place(r)]
                            /\ B = [r \in Entries(Len(file)) |-> Place(r)]'
  OBVIOUS
<1>1. /\ Ordered(len, f) /\ Ordered(len, g) /\ Lens(len) /\ e \in 1..Len(len)
      /\ A = LogOf(len, f) /\ B = LogOf(len, g)
      /\ Entries(synced) = Ends(len, f, synced) /\ Entries(synced)' = Ends(len, g, synced)
      /\ synced \in 0..Len(f)
  BY InProgressIs DEF LogSeen
<1>2. /\ \A p \in 1..Len(f) : w[p] = f[p]
      /\ Len(f) \in Nat /\ Len(g) \in Nat /\ Len(w) \in Nat
  <2>1. \A p \in 1..Len(f) : w[p] = f[p]
    BY WayIs
  <2>2. w \in Seq(Bit(len)) /\ Len(f) \in Nat
    BY WayIs
  <2>3. Len(g) \in Nat
    BY WayNext
  <2> QED BY <2>1, <2>2, <2>3, LenProperties
<1>3. \A p \in 1..Len(f) : g[p] = f[p]
  BY <1>2
<1>4. \A p \in (Len(f) + 1)..Len(g) : g[p][1] = e
  <2>1. \A p \in (Len(f) + 1)..Len(w) : w[p][1] = e
    BY DEF Strings
  <2> QED BY <1>2, <2>1
<1>5. B = A \/ Behind(A, B, e)
  BY <1>1, <1>3, <1>4, LogGrows
<1>6. Ends(len, g, synced) = Ends(len, f, synced)
  <2>1. \A p \in 1..synced : g[p] = f[p]
    BY <1>1, <1>2, <1>3
  <2> QED BY <2>1, EndsSame
<1> QED BY <1>1, <1>5, <1>6

LEMMA WriteMaps ==
  ASSUME IInv, IInv', LogSeen, LogSeen', Strings, WriteFull \/ WriteRest \/ SyncFlush
  PROVE  Log!Write \/ UNCHANGED Log!lvars
<1>1. pc \in Adding /\ pc' \in Adding /\ UNCHANGED <<len, synced, errors>> /\ Persist
  <2>1. CASE WriteFull
    BY <2>1 DEF WriteFull, Appended, Adding
  <2>2. CASE WriteRest \/ SyncFlush
    BY <2>2 DEF WriteRest, SyncFlush, Adding
  <2> QED BY <2>1, <2>2
<1>2. /\ Len(file) <= Len(file') /\ Len(file') <= Len(Way)
      /\ \A p \in 1..Len(file') : file'[p] = Way[p]
  <2> PICK g : g = file'
    OBVIOUS
  <2>1. file \in Seq(AByte) /\ buffer \in Seq(AByte) /\ data \in Seq(AByte)
    BY TypesOf DEF IInv
  <2>2. g = file \o buffer
    BY <1>1 DEF Persist
  <2>3. g \in Seq(AByte) /\ Len(g) \in Nat /\ Len(data) \in Nat
    BY <2>1, <2>2, ConcatProperties, LenProperties
  <2>4. Way = g \o data
    BY <2>2 DEF Way
  <2>5. /\ Len(g \o data) = Len(g) + Len(data)
        /\ \A i \in 1..Len(g) + Len(data) :
             (g \o data)[i] = IF i <= Len(g) THEN g[i] ELSE data[i - Len(g)]
    BY <2>1, <2>3, ConcatProperties
  <2>6. Len(g) <= Len(Way) /\ \A p \in 1..Len(g) : g[p] = Way[p]
    BY <2>3, <2>4, <2>5
  <2>7. Len(file) <= Len(g)
    BY <1>1, FileGoesOn
  <2> QED BY <2>6, <2>7
<1>3. Entry' = Entry
  BY <1>1 DEF Entry
<1>4. /\ InProgress = Entry /\ InProgress' = Entry /\ Entry # 0
  BY <1>1, <1>3, InProgressIs, InProgressNext
<1>5. Entries(synced)' = Entries(synced)
  BY <1>1, <1>2, GrowMaps
<1>6. CASE [r \in Entries(Len(file)) |-> Place(r)]' = [r \in Entries(Len(file)) |-> Place(r)]
  BY <1>1, <1>4, <1>5, <1>6 DEF Log!lvars, InProgress
<1>7. CASE Behind([r \in Entries(Len(file)) |-> Place(r)],
                  [r \in Entries(Len(file)) |-> Place(r)]', Entry)
  BY <1>1, <1>4, <1>5, <1>7 DEF Log!Write, Log!Has, Behind, InProgress
<1> QED BY <1>1, <1>2, <1>6, <1>7, GrowMaps

\* All of the entry is in the file when fsync is called.
LEMMA ReturnMaps ==
  ASSUME IInv, IInv', LogSeen, LogSeen', Strings, Fsync \/ FsyncFails
  PROVE  Log!Return \/ Log!ReturnOnFault
<1>1. pc = "fsync" /\ pc \in Adding /\ pc' \notin Adding /\ UNCHANGED <<file, len>>
  BY DEF Fsync, FsyncFails, Adding
<1>2. part = "entry" /\ Way = file
  <2>1. part = "entry" /\ buffer = <<>> /\ data = <<>>
    BY <1>1 DEF IInv, Placed
  <2>2. file \in Seq(AByte) /\ buffer \in Seq(AByte) /\ data \in Seq(AByte)
    BY TypesOf DEF IInv
  <2> QED BY <2>1, <2>2, WayParts DEF Way
<1>3. Entry \in Entries(Len(file))
  <2>1. Len(file) > 0 /\ file[Len(file)] = <<Entry, Size(Entry)>> /\ Len(file) \in Nat
    BY <1>1, <1>2, WayIs DEF Strings
  <2>2. Entry \in 1..Len(len) /\ Size(Entry) = All(len, Entry)
    BY <1>1, EntryIs
  <2>3. Len(file) \in 1..Len(file)
    BY <2>1
  <2>4. Entry \in Ends(len, file, Len(file))
    BY <2>1, <2>2, <2>3 DEF Ends
  <2> QED BY <2>4 DEF LogSeen
<1>4. InProgress = Entry /\ Entry # 0 /\ InProgress' = 0
  BY <1>1, InProgressIs, InProgressNext
<1>5. [r \in Entries(Len(file)) |-> Place(r)]' = [r \in Entries(Len(file)) |-> Place(r)]
  BY <1>1 DEF Entries, Whole, Starts, Size, Place
<1>6. CASE Fsync
  <2>1. synced' = Len(file) /\ errors' = errors
    BY <1>6 DEF Fsync
  <2>2. Entries(synced)' = Entries(Len(file))
    BY <1>1, <2>1 DEF Entries, Whole, Starts, Size
  <2> QED BY <1>1, <1>3, <1>4, <1>5, <2>1, <2>2 DEF Log!Return, Log!Has, InProgress
<1>7. CASE FsyncFails
  <2>1. synced' = synced /\ errors' = errors + 1
    BY <1>7 DEF FsyncFails
  <2>2. Entries(synced)' = Entries(synced)
    BY <1>1, <2>1, LogStays
  <2> QED BY <1>1, <1>3, <1>4, <1>5, <2>1, <2>2 DEF Log!ReturnOnFault, Log!Has, InProgress
<1> QED BY <1>6, <1>7

\* A write that falls short of the buffer does not complete the entry.
LEMMA ShortMaps ==
  ASSUME IInv, IInv', LogSeen, LogSeen', Strings, ShortWrite
  PROVE  Log!Kill
<1>1. pc \in Adding /\ pc' \notin Adding /\ UNCHANGED <<len, synced, errors>>
  BY DEF ShortWrite, Die, Adding
<1>2. /\ Len(file) <= Len(file') /\ Len(file') < Len(Way)
      /\ \A p \in 1..Len(file') : file'[p] = Way[p]
  BY DeathLeaves
<1>3. Len(file') \in Nat /\ Len(Way) \in Nat /\ Way \in Seq(Bit(len))
  BY WayIs, WayNext
<1>4. Len(file') <= Len(Way)
  BY <1>2, <1>3
<1>5. ~Behind([r \in Entries(Len(file)) |-> Place(r)],
              [r \in Entries(Len(file)) |-> Place(r)]', Entry)
  <2> PICK A, B, e, w, g : /\ A = [r \in Entries(Len(file)) |-> Place(r)] /\ e = Entry
                           /\ B = [r \in Entries(Len(file)) |-> Place(r)]'
                           /\ w = Way /\ g = file'
    OBVIOUS
  <2> SUFFICES ASSUME Behind(A, B, e) PROVE FALSE
    OBVIOUS
  <2>1. B = LogOf(len, g)
    BY <1>1 DEF LogSeen
  <2>2. e \in Ends(len, g, Len(g))
    <3>1. e \in DOMAIN B
      BY DEF Behind
    <3> QED BY <2>1, <3>1 DEF LogOf
  <2>3. PICK p \in 1..Len(g) : g[p] = <<e, All(len, e)>>
    BY <2>2 DEF Ends
  <2>4. PICK q : q = Len(w)
    OBVIOUS
  <2>5. p \in 1..Len(w) /\ q \in 1..Len(w) /\ p < q
    BY <1>2, <1>3, <2>4
  <2>6. w[p][1] = e /\ w[p][2] = All(len, e)
    BY <1>2, <2>3
  <2>7. All(len, e) \in Nat /\ All(len, e) = Size(e) /\ kHeaderSize <= Size(e) /\ Size(e) \in Nat
    BY <1>1, EntryIs
  <2>8. w[q][1] = e /\ w[q][2] <= Size(e) /\ w[q][2] \in Nat
    <3>1. w[q] = <<e, IF part = "header" THEN kHeaderSize ELSE Size(e)>>
      BY <1>1, <2>4 DEF Strings
    <3> QED BY <2>7, <3>1
  <2>9. w[p][1] < w[q][1] \/ (w[p][1] = w[q][1] /\ w[p][2] < w[q][2])
    BY <2>5 DEF Strings, Ordered
  <2>10. e \in Nat
    BY <1>1, EntryIs
  <2> QED BY <2>6, <2>7, <2>8, <2>9, <2>10
<1>6. /\ Entries(synced)' = Entries(synced)
      /\ [r \in Entries(Len(file)) |-> Place(r)]' = [r \in Entries(Len(file)) |-> Place(r)]
  BY <1>1, <1>2, <1>4, <1>5, GrowMaps
<1>7. InProgress' = 0
  BY <1>1, InProgressNext
<1> QED BY <1>1, <1>6, <1>7 DEF Log!Kill, InProgress

LEMMA KillMaps ==
  ASSUME IInv', Kill
  PROVE  Log!Kill
<1>1. pc' \notin Adding /\ UNCHANGED <<len, synced, errors, file>>
  BY DEF Kill, Die, Adding
<1>2. InProgress' = 0
  BY <1>1, InProgressNext
<1>3. /\ [r \in Entries(Len(file)) |-> Place(r)]' = [r \in Entries(Len(file)) |-> Place(r)]
      /\ Entries(synced)' = Entries(synced)
  BY <1>1, LogStays
<1> QED BY <1>1, <1>2, <1>3 DEF Log!Kill, InProgress

\* The device keeps the entries before a place, those that were synced among them.
LEMMA PowerLossMaps ==
  ASSUME IInv, IInv', LogSeen, LogSeen', PowerLoss
  PROVE  Log!PowerLoss
<1>1. pc' \notin Adding /\ UNCHANGED <<len, errors>>
  BY DEF PowerLoss, Die, Adding
<1>2. InProgress' = 0
  BY <1>1, InProgressNext
<1> PICK A, B, left, f, g, n : /\ A = [r \in Entries(Len(file)) |-> Place(r)]
                               /\ B = [r \in Entries(Len(file)) |-> Place(r)]'
                               /\ f = file /\ g = file' /\ n = synced'
                               /\ left = Ends(len, g, Len(g))
  OBVIOUS
<1>3. /\ Len(f) \in Nat /\ synced \in 0..Len(f) /\ n \in synced..Len(f)
      /\ Len(g) = n /\ \A p \in 1..n : g[p] = f[p]
  <2>1. f \in Seq(AByte) /\ synced \in 0..Len(f) /\ Len(f) \in Nat
    BY TypesOf, LenProperties DEF IInv, LogSeen
  <2>2. n \in synced..Len(f) /\ g = SubSeq(f, 1, n)
    BY DEF PowerLoss
  <2>3. n \in 0..Len(f)
    BY <2>1, <2>2
  <2>4. Len(g) = n /\ \A p \in 1..n : g[p] = f[p]
    <3>1. /\ Len(SubSeq(f, 1, n)) = n
          /\ \A p \in 1..n : SubSeq(f, 1, n)[p] = f[p]
      BY <2>1, <2>3, FirstPart
    <3> QED BY <2>2, <3>1
  <2> QED BY <2>1, <2>2, <2>4
<1>4. /\ A = LogOf(len, f) /\ B = LogOf(len, g) /\ Lens(len)
      /\ Ordered(len, f) /\ Ordered(len, g)
      /\ Entries(synced) = Ends(len, f, synced) /\ Entries(synced)' = left
  BY <1>1, <1>3 DEF LogSeen
<1>5. /\ left \subseteq DOMAIN A /\ B = [r \in left |-> A[r]]
      /\ \A r \in left : \A s \in DOMAIN A \ left : A[r] < A[s]
  <2>1. Len(g) <= Len(f) /\ \A p \in 1..Len(g) : g[p] = f[p]
    BY <1>3
  <2> QED BY <1>4, <2>1, LogCut
<1>6. Entries(synced) \subseteq left
  <2>1. \A p \in 1..synced : p \in 1..Len(g) /\ g[p] = f[p]
    BY <1>3
  <2> QED BY <1>4, <2>1 DEF Ends
<1>7. Log!Spared(left)
  BY <1>5, <1>6 DEF Log!Spared
<1> QED BY <1>1, <1>2, <1>4, <1>5, <1>7 DEF Log!PowerLoss, InProgress

LEMMA NextMaps ==
  IInv /\ IInv' /\ Strings /\ Strings' /\ [Next]_vars => [Log!Next]_(Log!lvars)
<1> SUFFICES ASSUME IInv, IInv', Strings, Strings', [Next]_vars
             PROVE  [Log!Next]_(Log!lvars)
  OBVIOUS
<1>1. LogSeen /\ LogSeen'
  BY Seen, SeenNext
<1>2. CASE \E n \in LogLens : AddLog(n)
  BY <1>1, <1>2, BeginMaps DEF Log!Next
<1>3. CASE AppendAll \/ AppendNothing \/ AppendFirst \/ Copy
  <2>1. UNCHANGED <<file, len, synced, errors>> /\ pc \in Adding /\ pc' \in Adding
    <3>1. CASE AppendAll
      BY <3>1 DEF AppendAll, Appended, Adding
    <3>2. CASE AppendNothing \/ AppendFirst
      BY <3>2 DEF AppendNothing, AppendFirst, Adding
    <3>3. CASE Copy
      <4>1. /\ UNCHANGED <<file, len, synced, errors>> /\ pc = "copy"
            /\ Appended \/ pc' = "full"
        BY <3>3 DEF Copy
      <4> QED BY <4>1 DEF Appended, Adding
    <3> QED BY <1>3, <3>1, <3>2, <3>3
  <2>2. InProgress' = InProgress
    BY <2>1, InProgressIs, InProgressNext DEF Entry
  <2> QED BY <2>1, <2>2, Stutters
<1>4. CASE WriteFull \/ WriteRest \/ SyncFlush
  BY <1>1, <1>4, WriteMaps DEF Log!Next
<1>5. CASE Fsync \/ FsyncFails
  BY <1>1, <1>5, ReturnMaps DEF Log!Next
<1>6. CASE Close \/ Reopen
  <2>1. UNCHANGED <<len, synced, errors>> /\ pc \notin Adding /\ pc' \notin Adding
    BY <1>6 DEF Close, Reopen, Adding
  <2>2. file' = file
    <3>1. CASE Close
      <4>1. file' = file \o <<>>
        BY <3>1 DEF Close, Persist, IInv, Placed
      <4>2. file \in Seq(AByte)
        BY TypesOf DEF IInv
      <4> QED BY <4>1, <4>2, ConcatEmptySeq
    <3>2. CASE Reopen
      BY <3>2 DEF Reopen
    <3> QED BY <1>6, <3>1, <3>2
  <2>3. InProgress' = InProgress
    BY <2>1, InProgressIs, InProgressNext
  <2> QED BY <2>1, <2>2, <2>3, Stutters
<1>7. CASE ShortWrite
  BY <1>1, <1>7, ShortMaps DEF Log!Next
<1>8. CASE Kill
  BY <1>8, KillMaps DEF Log!Next
<1>9. CASE PowerLoss
  BY <1>1, <1>9, PowerLossMaps DEF Log!Next
<1>10. CASE UNCHANGED vars
  BY <1>10, Stutters DEF vars, InProgress, Entry
<1> QED BY <1>2, <1>3, <1>4, <1>5, <1>6, <1>7, <1>8, <1>9, <1>10 DEF Next

\* AddLog through the buffer (file_writer.cpp, wal_writer.cpp) is a durable log,
\* whatever the sizes: an entry gets whole behind the others or not at all, its
\* call returns when it is there for good or the device failed it, and no write,
\* short write, kill or loss of power takes back more than DurableLog allows.
THEOREM WriterIsADurableLog == Spec => ImplementsDurableLog
<1>1. IInv /\ Strings /\ Init => Log!Init
  BY InitMaps
<1>2. (IInv /\ Strings) /\ (IInv /\ Strings)' /\ [Next]_vars => [Log!Next]_(Log!lvars)
  BY NextMaps
<1> QED BY <1>1, <1>2, InOrder, PTL DEF Spec, ImplementsDurableLog, Log!Spec
=============================================================================
