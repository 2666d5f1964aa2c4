------------------------- MODULE Tls13Stream_proofs -------------------------
(***************************************************************************)
(* Proofs that one direction of a TLS 1.3 session never uses a record       *)
(* number twice, keeps its queue within its limit and takes only steps of   *)
(* ReliableStream, for every header length, payload size, transport and     *)
(* queue limit, however records are torn, refused and delayed.              *)
(***************************************************************************)
EXTENDS Tls13Stream, SequenceTheorems, TLAPS

USE StreamAssumption DEF StreamAssumption

Records ==
    [type : {"data", "key_update", "close_notify", "alert"}, gen : Nat, seq : Nat,
     units : Seq(Nat), len : 1 .. MaxChunk, at : Nat, ok : BOOLEAN]

Writers ==
    [state : {"connected", "closed"}, pending : Seq(Byte), limit : Limits, gen : Nat, seq : Nat]

(* The parts of the state that only the writer, or only the reader, changes. *)
WriterOK ==
    /\ tx \in Writers
    /\ Len(tx.pending) <= tx.limit
    /\ log \in Seq(Records) /\ Len(log) <= MaxSeals
    /\ sent \in Nat
    /\ fault \in BOOLEAN
WireOK == wire \in Seq(Byte) /\ Len(wire) <= WireCapacity
ReaderOK ==
    /\ rx \in [state : {"connected", "closing", "closed"}, gen : Nat, seq : Nat,
               header : Seq(Byte), length : NoLength .. TooLong, payload : Seq(Byte),
               allocated : BOOLEAN, app : Seq(Nat), postHs : Nat]
    /\ Len(rx.header) <= HeaderLen /\ Len(rx.payload) <= MaxChunk /\ Len(rx.app) <= MaxChunk
    /\ (rx.length = NoLength) <=> (Len(rx.header) < HeaderLen)
    /\ got \in Seq(Nat)

(* The units of a data record are those that follow what was accepted       *)
(* before it.                                                               *)
UnitsFollow ==
    \A k \in DOMAIN log : log[k].type = "data" =>
        /\ Len(log[k].units) = log[k].len
        /\ \A i \in 1 .. log[k].len : log[k].units[i] = log[k].at + i

(* Nothing is sealed after a close_notify but an alert in the clear, and     *)
(* nothing after that.                                                      *)
ClosedIsLast ==
    \A k \in DOMAIN log :
        /\ log[k].type \in {"close_notify", "alert"} => tx.state = "closed"
        /\ log[k].type = "alert" => k = Len(log)
        /\ log[k].type = "close_notify" /\ k < Len(log) => log[k + 1].type = "alert"

(* Every number used is below the writer's counter.                         *)
NumbersBelow ==
    \A k \in DOMAIN log : log[k].type # "alert" =>
        \/ log[k].gen < tx.gen
        \/ log[k].gen = tx.gen /\ log[k].seq < tx.seq

AcceptedBelow == \A k \in DOMAIN log : log[k].at <= sent

(* The number, and the units accepted, at a place in the log.               *)
Cursor(k) ==
    IF k <= Len(log) /\ log[k].type # "alert"
    THEN [gen |-> log[k].gen, seq |-> log[k].seq, at |-> log[k].at]
    ELSE [gen |-> tx.gen, seq |-> tx.seq, at |-> sent]

After(r) ==
    [gen |-> IF r.type = "key_update" /\ r.ok THEN r.gen + 1 ELSE r.gen,
     seq |-> IF r.type = "key_update" /\ r.ok THEN 0 ELSE r.seq + 1,
     at |-> IF r.type = "data" /\ r.ok THEN r.at + r.len ELSE r.at]

Consecutive ==
    /\ Cursor(1) = [gen |-> 0, seq |-> 0, at |-> 0]
    /\ \A k \in DOMAIN log : log[k].type # "alert" => Cursor(k + 1) = After(log[k])

(* The bytes between the writer and the reader's next record.               *)
Elements(s) == { s[i] : i \in 1 .. Len(s) }
Pipe == Elements(tx.pending) \cup Elements(wire) \cup Elements(rx.header) \cup Elements(rx.payload)

LastByte(k) == <<k, HeaderLen + log[k].len>>

(* Bytes come from sealed records, and the last byte of a refused record    *)
(* never left.                                                              *)
PipeIsSealed == \A b \in Pipe : b[1] \in 1 .. Len(log)
RefusedIsTorn == \A k \in DOMAIN log : ~ log[k].ok => LastByte(k) \notin Pipe

(* What the reader has is what the writer accepted before some place in the *)
(* log, and the reader's keys and number are those of that place.           *)
ReaderAt(p) ==
    /\ p \in 1 .. Len(log) + 1
    /\ Cursor(p) = [gen |-> rx.gen, seq |-> rx.seq, at |-> Len(got) + Len(rx.app)]
ReaderPlaced == rx.state = "connected" => \E p \in 1 .. Len(log) + 1 : ReaderAt(p)

InOrder ==
    /\ \A i \in 1 .. Len(got) : got[i] = i
    /\ \A i \in 1 .. Len(rx.app) : rx.app[i] = Len(got) + i
    /\ rx.app # << >> => rx.header = << >>

EndIsTheEnd == rx.state = "closing" => tx.state = "closed" /\ Len(got) = sent

WriterInv == NonceUnique /\ UnitsFollow /\ ClosedIsLast /\ NumbersBelow /\ AcceptedBelow
             /\ Consecutive
ReaderInv == ReaderPlaced /\ InOrder /\ EndIsTheEnd

Inv ==
    /\ WriterOK /\ WireOK /\ ReaderOK
    /\ WriterInv
    /\ PipeIsSealed /\ RefusedIsTorn
    /\ ReaderInv

-----------------------------------------------------------------------------
(* Output.                                                                  *)
Ios == [pending : Seq(Byte), wire : Seq(Byte), ok : BOOLEAN]

LEMMA MinPair ==
    ASSUME NEW a \in Int, NEW b \in Int
    PROVE  Min({a, b}) \in Int /\ Min({a, b}) <= a /\ Min({a, b}) <= b
<1>1. \E x \in {a, b} : \A y \in {a, b} : x <= y
  OBVIOUS
<1> QED
  BY <1>1 DEF Min

(* What is joined or cut holds only what was there.                         *)
LEMMA ElementsConcat ==
    ASSUME NEW S, NEW s \in Seq(S), NEW t \in Seq(S)
    PROVE  Elements(s \o t) = Elements(s) \cup Elements(t)
<1>1. ASSUME NEW i \in 1 .. Len(s) PROVE s[i] = (s \o t)[i] /\ i \in 1 .. Len(s \o t)
  OBVIOUS
<1>2. ASSUME NEW i \in 1 .. Len(t)
      PROVE  t[i] = (s \o t)[Len(s) + i] /\ Len(s) + i \in 1 .. Len(s \o t)
  OBVIOUS
<1>3. ASSUME NEW i \in 1 .. Len(s \o t)
      PROVE  (s \o t)[i] \in Elements(s) \cup Elements(t)
  BY DEF Elements
<1> QED
  BY <1>1, <1>2, <1>3, ZenonT(40) DEF Elements

(* The same, in the form in which it is used of the byte queues.            *)
Joins(s, t) == Elements(s \o t) = Elements(s) \cup Elements(t)

LEMMA BytesJoin == \A s, t \in Seq(Byte) : Joins(s, t)
<1>1. SUFFICES ASSUME NEW s \in Seq(Byte), NEW t \in Seq(Byte)
               PROVE  Elements(s \o t) = Elements(s) \cup Elements(t)
  BY DEF Joins
<1> QED
  BY ElementsConcat

LEMMA ElementsSubSeq ==
    ASSUME NEW S, NEW s \in Seq(S), NEW m \in 1 .. Len(s) + 1, NEW n \in 0 .. Len(s)
    PROVE  /\ SubSeq(s, m, n) \in Seq(S)
           /\ Len(SubSeq(s, m, n)) = IF m <= n THEN n - m + 1 ELSE 0
           /\ Elements(SubSeq(s, m, n)) \subseteq Elements(s)
           /\ \A i \in 1 .. Len(SubSeq(s, m, n)) : SubSeq(s, m, n)[i] = s[m + i - 1]
<1>1. /\ SubSeq(s, m, n) \in Seq(S)
      /\ Len(SubSeq(s, m, n)) = IF m <= n THEN n - m + 1 ELSE 0
      /\ \A i \in 1 .. Len(SubSeq(s, m, n)) : SubSeq(s, m, n)[i] = s[m + i - 1]
  OBVIOUS
<1> QED
  BY <1>1 DEF Elements

LEMMA TakesBound ==
    ASSUME NEW io \in Ios, Len(io.wire) <= WireCapacity, NEW bytes \in Seq(Byte),
           NEW n \in Takes(io, bytes)
    PROVE  n \in 0 .. Len(bytes) /\ Len(io.wire) + n <= WireCapacity
<1>1. Len(bytes) \in Nat /\ Len(io.wire) \in Nat
  BY DEF Ios
<1> DEFINE room == WireCapacity - Len(io.wire)
           most == Min({Len(bytes), room})
<1>2. room \in Int /\ Len(bytes) \in Int
  BY <1>1
<1> HIDE DEF room
<1>3. most \in Int /\ most <= Len(bytes) /\ most <= room
  BY <1>2, MinPair, Zenon
<1>4. n \in 0 .. most
  BY DEF Takes, room
<1> HIDE DEF most
<1> QED
  BY <1>1, <1>2, <1>3, <1>4 DEF room

LEMMA FlushKeeps ==
    ASSUME NEW io \in Ios, Len(io.wire) <= WireCapacity, NEW n \in Takes(io, io.pending)
    PROVE  LET out == FlushTaking(io, n)
           IN  /\ out \in Ios /\ out.ok = io.ok
               /\ Len(out.wire) <= WireCapacity
               /\ Len(out.pending) <= Len(io.pending)
               /\ Elements(out.pending) \subseteq Elements(io.pending)
               /\ Elements(out.wire) \subseteq Elements(io.pending) \cup Elements(io.wire)
<1> DEFINE head == SubSeq(io.pending, 1, n)
           tail == SubSeq(io.pending, n + 1, Len(io.pending))
<1>1. io.pending \in Seq(Byte) /\ io.wire \in Seq(Byte) /\ io.ok \in BOOLEAN
      /\ Len(io.pending) \in Nat
  BY DEF Ios
<1>2. n \in 0 .. Len(io.pending) /\ Len(io.wire) + n <= WireCapacity
  BY <1>1, TakesBound
<1>3. /\ head \in Seq(Byte) /\ Len(head) = n /\ Elements(head) \subseteq Elements(io.pending)
  BY <1>1, <1>2, ElementsSubSeq
<1>4. /\ tail \in Seq(Byte) /\ Len(tail) <= Len(io.pending)
      /\ Elements(tail) \subseteq Elements(io.pending)
  BY <1>1, <1>2, ElementsSubSeq
<1>5. FlushTaking(io, n) = [io EXCEPT !.pending = tail, !.wire = io.wire \o head]
  BY DEF FlushTaking
<1> HIDE DEF head, tail
<1>6. /\ io.wire \o head \in Seq(Byte) /\ Len(io.wire \o head) = Len(io.wire) + n
      /\ Elements(io.wire \o head) = Elements(io.wire) \cup Elements(head)
  <2>1. io.wire \in Seq(Byte) /\ head \in Seq(Byte)
    BY <1>1, <1>3
  <2>2. Elements(io.wire \o head) = Elements(io.wire) \cup Elements(head)
    <3>1. io.wire \in Seq(Byte) /\ head \in Seq(Byte)
      BY <2>1
    <3>2. Joins(io.wire, head)
      BY <3>1, BytesJoin
    <3> QED
      BY <3>2 DEF Joins
  <2> QED
    BY <1>3, <2>1, <2>2
<1>7. /\ FlushTaking(io, n) \in Ios /\ FlushTaking(io, n).ok = io.ok
      /\ FlushTaking(io, n).pending = tail
      /\ FlushTaking(io, n).wire = io.wire \o head
  BY <1>1, <1>4, <1>5, <1>6 DEF Ios
<1> QED
  BY <1>1, <1>2, <1>3, <1>4, <1>5, <1>6, <1>7


(* A send offers the bytes of one record behind what waits: nothing else is *)
(* added, the transport and the queue keep their limits, and of a refused   *)
(* record at least the last byte is dropped.                                *)
Carried(io, bytes, out) ==
    /\ out \in Ios
    /\ Len(out.wire) <= WireCapacity /\ Len(out.pending) <= tx.limit
    /\ \A b \in Elements(out.pending) \cup Elements(out.wire) :
          \/ b \in Elements(io.pending) \cup Elements(io.wire)
          \/ /\ b \in Elements(bytes)
             /\ ~out.ok => b # bytes[Len(bytes)]

Distinct(s) == \A i, j \in 1 .. Len(s) : s[i] = s[j] => i = j

LEMMA QueueCarries ==
    ASSUME NEW io \in Ios, io.ok, Len(io.wire) <= WireCapacity,
           tx.limit \in Nat, Len(io.pending) <= tx.limit,
           NEW bytes \in Seq(Byte), NEW allocates \in BOOLEAN
    PROVE  LET out == QueuePendingOutput(io, bytes, allocates)
           IN  /\ out \in Ios /\ out.wire = io.wire
               /\ Len(out.pending) <= tx.limit
               /\ out.ok => Elements(out.pending) \subseteq Elements(io.pending) \cup Elements(bytes)
               /\ ~out.ok => out.pending = io.pending /\ bytes # << >>
<1> DEFINE out == QueuePendingOutput(io, bytes, allocates)
<1>1. io.pending \in Seq(Byte) /\ io.wire \in Seq(Byte)
      /\ Len(io.pending) \in Nat /\ Len(bytes) \in Nat
  BY DEF Ios
<1>2. /\ io.pending \o bytes \in Seq(Byte)
      /\ Len(io.pending \o bytes) = Len(io.pending) + Len(bytes)
  BY <1>1, ConcatProperties, Zenon
<1>3. Elements(io.pending \o bytes) = Elements(io.pending) \cup Elements(bytes)
  <2>1. io.pending \in Seq(Byte) /\ bytes \in Seq(Byte)
    BY <1>1
  <2>2. Joins(io.pending, bytes)
    BY <2>1, BytesJoin
  <2> QED
    BY <2>2 DEF Joins
<1>4. CASE bytes = << >>
  BY <1>4 DEF QueuePendingOutput
<1>5. CASE /\ bytes # << >>
           /\ allocates /\ Len(io.pending) + Len(bytes) <= tx.limit
  <2>1. out = [io EXCEPT !.pending = @ \o bytes]
    BY <1>5 DEF QueuePendingOutput
  <2>2. /\ out \in Ios /\ out.wire = io.wire /\ out.ok
        /\ out.pending = io.pending \o bytes
    BY <1>1, <1>2, <2>1 DEF Ios
  <2> QED
    BY <1>2, <1>3, <1>5, <2>2
<1>6. CASE /\ bytes # << >>
           /\ ~ (allocates /\ Len(io.pending) + Len(bytes) <= tx.limit)
  <2>1. out = [io EXCEPT !.ok = FALSE]
    BY <1>6 DEF QueuePendingOutput
  <2>2. /\ out \in Ios /\ out.wire = io.wire /\ ~out.ok
        /\ out.pending = io.pending
    BY <1>1, <2>1 DEF Ios
  <2> QED
    BY <1>6, <2>2
<1> QED
  BY <1>4, <1>5, <1>6

LEMMA SendCarries ==
    ASSUME NEW io \in Ios, io.ok, Len(io.wire) <= WireCapacity,
           tx.limit \in Nat, Len(io.pending) <= tx.limit,
           NEW bytes \in Seq(Byte), Distinct(bytes),
           NEW out \in SendOutcomes(io, bytes)
    PROVE  Carried(io, bytes, out)
<1>a. PICK n \in Takes(io, io.pending) :
        \E m \in Takes(FlushTaking(io, n), bytes), allocates \in BOOLEAN :
           out = NonblockingSendRecord(io, bytes, n, m, allocates)
  BY DEF SendOutcomes
<1>1. PICK m \in Takes(FlushTaking(io, n), bytes), allocates \in BOOLEAN :
           out = NonblockingSendRecord(io, bytes, n, m, allocates)
  BY <1>a, Zenon
<1> DEFINE flushed == FlushTaking(io, n)
           head == SubSeq(bytes, 1, m)
           rest == SubSeq(bytes, m + 1, Len(bytes))
           taken == [flushed EXCEPT !.wire = @ \o head]
<1>2. /\ flushed \in Ios /\ flushed.ok
      /\ Len(flushed.wire) <= WireCapacity
      /\ Len(flushed.pending) <= Len(io.pending)
      /\ Elements(flushed.pending) \subseteq Elements(io.pending)
      /\ Elements(flushed.wire) \subseteq Elements(io.pending) \cup Elements(io.wire)
  BY FlushKeeps
<1>3. /\ flushed.pending \in Seq(Byte) /\ flushed.wire \in Seq(Byte)
      /\ Len(flushed.pending) \in Nat /\ Len(io.pending) \in Nat
  BY <1>2 DEF Ios
<1>4. Len(flushed.pending) <= tx.limit
  BY <1>2, <1>3
<1>5. m \in 0 .. Len(bytes) /\ Len(flushed.wire) + m <= WireCapacity
  BY <1>2, TakesBound
<1>6. /\ head \in Seq(Byte) /\ Len(head) = m /\ Elements(head) \subseteq Elements(bytes)
      /\ \A i \in 1 .. m : head[i] = bytes[i]
      /\ rest \in Seq(Byte) /\ Elements(rest) \subseteq Elements(bytes)
      /\ rest # << >> => m < Len(bytes)
  BY <1>5, ElementsSubSeq
<1> HIDE DEF head, rest, flushed
<1>7. CASE flushed.pending # << >>
  <2>1. out = QueuePendingOutput(flushed, bytes, allocates)
    BY <1>1, <1>7 DEF NonblockingSendRecord, flushed
  <2> QED
    BY <1>2, <1>4, <2>1, QueueCarries DEF Carried
<1>8. CASE flushed.pending = << >>
  <2>1. out = QueuePendingOutput(taken, rest, allocates)
    BY <1>1, <1>8 DEF NonblockingSendRecord, flushed, head, rest
  <2>2. /\ flushed.wire \o head \in Seq(Byte)
        /\ Len(flushed.wire \o head) = Len(flushed.wire) + m
    BY <1>3, <1>6, ConcatProperties, Zenon
  <2>3. Elements(flushed.wire \o head) = Elements(flushed.wire) \cup Elements(head)
    <3>1. flushed.wire \in Seq(Byte) /\ head \in Seq(Byte)
      BY <1>3, <1>6
    <3>2. Joins(flushed.wire, head)
      BY <3>1, BytesJoin
    <3> QED
      BY <3>2 DEF Joins
  <2>4. /\ taken \in Ios /\ taken.ok /\ taken.pending = flushed.pending
        /\ taken.wire = flushed.wire \o head
    BY <1>2, <1>3, <2>2 DEF Ios
  <2>5. Len(taken.wire) <= WireCapacity
    BY <1>5, <2>2, <2>4
  <2> HIDE DEF taken
  <2>6. /\ out \in Ios /\ out.wire = taken.wire
        /\ Len(out.pending) <= tx.limit
        /\ out.ok => Elements(out.pending) \subseteq Elements(taken.pending) \cup Elements(rest)
        /\ ~out.ok => out.pending = taken.pending /\ rest # << >>
    BY <1>4, <1>6, <2>1, <2>4, <2>5, QueueCarries, ZenonT(40)
  <2>7. m < Len(bytes) => bytes[Len(bytes)] \notin Elements(head)
    <3> SUFFICES ASSUME m < Len(bytes), NEW i \in 1 .. m, head[i] = bytes[Len(bytes)]
                 PROVE  FALSE
      BY <1>6 DEF Elements
    <3>1. i \in 1 .. Len(bytes) /\ Len(bytes) \in 1 .. Len(bytes) /\ i # Len(bytes)
      BY <1>5
    <3> QED
      BY <1>6, <3>1 DEF Distinct
  <2> QED
    BY <1>2, <1>6, <2>3, <2>4, <2>5, <2>6, <2>7 DEF Carried
<1> QED
  BY <1>7, <1>8


LEMMA BytesOK ==
    ASSUME NEW k \in 1 .. MaxSeals, NEW r, r.len \in 1 .. MaxChunk
    PROVE  /\ Bytes(k, r) \in Seq(Byte) /\ Len(Bytes(k, r)) = HeaderLen + r.len
           /\ \A i \in 1 .. HeaderLen + r.len : Bytes(k, r)[i] = <<k, i>>
           /\ Distinct(Bytes(k, r))
<1>1. HeaderLen + r.len \in Nat
  OBVIOUS
<1>2. \A i \in 1 .. HeaderLen + r.len : <<k, i>> \in Byte
  BY DEF Byte
<1>3. Bytes(k, r) \in Seq(Byte) /\ Len(Bytes(k, r)) = HeaderLen + r.len
  BY <1>1, <1>2 DEF Bytes
<1>4. \A i \in 1 .. HeaderLen + r.len : Bytes(k, r)[i] = <<k, i>>
  BY DEF Bytes
<1> QED
  BY <1>3, <1>4 DEF Distinct

LEMMA IoOK ==
    ASSUME Inv
    PROVE  /\ Io \in Ios /\ Io.ok /\ Io.pending = tx.pending /\ Io.wire = wire
           /\ Len(Io.wire) <= WireCapacity
           /\ tx.limit \in Nat /\ Len(Io.pending) <= tx.limit
  BY DEF Inv, WriterOK, Writers, WireOK, Io, Ios

(* What the send of the record in place k leaves.                           *)
LEMMA RecordCarried ==
    ASSUME NEW io \in Ios, io.ok, Len(io.wire) <= WireCapacity,
           tx.limit \in Nat, Len(io.pending) <= tx.limit,
           NEW k \in 1 .. MaxSeals, NEW r, r.len \in 1 .. MaxChunk,
           NEW out \in SendOutcomes(io, Bytes(k, r))
    PROVE  /\ out \in Ios
           /\ Len(out.wire) <= WireCapacity /\ Len(out.pending) <= tx.limit
           /\ \A b \in Elements(out.pending) \cup Elements(out.wire) :
                 \/ b \in Elements(io.pending) \cup Elements(io.wire)
                 \/ b[1] = k /\ (~out.ok => b # <<k, HeaderLen + r.len>>)
<1> DEFINE bytes == Bytes(k, r)
<1>1. /\ bytes \in Seq(Byte) /\ Len(bytes) = HeaderLen + r.len
      /\ \A i \in 1 .. HeaderLen + r.len : bytes[i] = <<k, i>>
      /\ Distinct(bytes)
  BY BytesOK
<1>2. HeaderLen + r.len \in 1 .. HeaderLen + r.len
  OBVIOUS
<1> HIDE DEF bytes
<1>3. Carried(io, bytes, out)
  BY <1>1, SendCarries DEF bytes
<1>4. ASSUME NEW b \in Elements(bytes) PROVE b[1] = k
  BY <1>1, <1>4 DEF Elements
<1> QED
  BY <1>1, <1>2, <1>3, <1>4 DEF Carried

(* The log grows by one sealed record.                                      *)
Grows(r) ==
    /\ log' \in Seq(Records) /\ Len(log') = Len(log) + 1
    /\ \A i \in 1 .. Len(log) : log'[i] = log[i]
    /\ log'[Len(log) + 1] = r

LEMMA SealCarried ==
    ASSUME Inv, NEW r, r.len \in 1 .. MaxChunk, Len(log) < MaxSeals,
           NEW io \in SendOutcomes(Io, Bytes(Len(log) + 1, r))
    PROVE  /\ io \in Ios
           /\ Len(io.wire) <= WireCapacity /\ Len(io.pending) <= tx.limit
           /\ \A b \in Elements(io.pending) \cup Elements(io.wire) :
                 \/ b \in Elements(tx.pending) \cup Elements(wire)
                 \/ b[1] = Len(log) + 1
                    /\ (~io.ok => b # <<Len(log) + 1, HeaderLen + r.len>>)
<1> DEFINE k == Len(log) + 1
<1>1. k \in 1 .. MaxSeals
  BY DEF Inv, WriterOK
<1>2. /\ Io \in Ios /\ Io.ok /\ Io.pending = tx.pending /\ Io.wire = wire
      /\ Len(Io.wire) <= WireCapacity
      /\ tx.limit \in Nat /\ Len(Io.pending) <= tx.limit
  BY IoOK
<1>3. io \in SendOutcomes(Io, Bytes(k, r))
  OBVIOUS
<1> HIDE DEF k
<1>4. /\ io \in Ios
      /\ Len(io.wire) <= WireCapacity /\ Len(io.pending) <= tx.limit
      /\ \A b \in Elements(io.pending) \cup Elements(io.wire) :
            \/ b \in Elements(Io.pending) \cup Elements(Io.wire)
            \/ b[1] = k /\ (~io.ok => b # <<k, HeaderLen + r.len>>)
  BY <1>1, <1>2, <1>3, RecordCarried, SMTT(40)
<1> QED
  BY <1>2, <1>4 DEF k

LEMMA SealPipe ==
    ASSUME Inv, NEW r \in Records, Len(log) < MaxSeals,
           NEW s \in Records, s.len = r.len, Grows(s),
           NEW io \in SendOutcomes(Io, Bytes(Len(log) + 1, r)), ~ s.ok => ~ io.ok,
           tx'.pending = io.pending, wire' = io.wire, rx' = rx
    PROVE  WireOK' /\ io \in Ios /\ Len(io.pending) <= tx.limit /\ PipeIsSealed' /\ RefusedIsTorn'
<1> DEFINE k == Len(log) + 1
<1>1. /\ Len(log) \in Nat /\ k \in 1 .. MaxSeals /\ r.len \in 1 .. MaxChunk
      /\ DOMAIN log = 1 .. Len(log)
  <2>1. r.len \in 1 .. MaxChunk
    BY DEF Records
  <2> QED
    BY <2>1 DEF Inv, WriterOK
<1>2. /\ io \in Ios
      /\ Len(io.wire) <= WireCapacity /\ Len(io.pending) <= tx.limit
      /\ \A b \in Elements(io.pending) \cup Elements(io.wire) :
            \/ b \in Elements(tx.pending) \cup Elements(wire)
            \/ b[1] = k /\ (~io.ok => b # <<k, HeaderLen + r.len>>)
  BY <1>1, SealCarried
<1>3. \A b \in Pipe' :
            \/ b \in Pipe
            \/ b[1] = k /\ (~io.ok => b # <<k, HeaderLen + r.len>>)
  BY <1>2 DEF Pipe
<1>4. PipeIsSealed'
  BY <1>1, <1>3 DEF PipeIsSealed, Inv, Grows
<1>5. ASSUME NEW j \in DOMAIN log', ~ log'[j].ok PROVE LastByte(j)' \notin Pipe'
  <2>1. j \in 1 .. k
    BY <1>1 DEF Grows
  <2>2. CASE j = k
    <3>1. LastByte(j)' = <<k, HeaderLen + r.len>> /\ ~io.ok
      BY <1>5, <2>2 DEF LastByte, Grows
    <3>2. <<k, HeaderLen + r.len>> \notin Pipe
      BY <1>1 DEF PipeIsSealed, Inv
    <3> QED
      BY <1>3, <3>1, <3>2
  <2>3. CASE j \in 1 .. Len(log)
    <3>1. LastByte(j)' = LastByte(j) /\ ~ log[j].ok /\ LastByte(j)[1] = j
      BY <1>5, <2>3 DEF LastByte, Grows
    <3>2. LastByte(j) \notin Pipe
      BY <1>1, <2>3, <3>1 DEF RefusedIsTorn, Inv, WriterOK
    <3> QED
      BY <1>1, <1>3, <2>3, <3>1, <3>2
  <2> QED
    BY <1>1, <2>1, <2>2, <2>3
<1>6. WireOK'
  BY <1>2 DEF WireOK, Ios
<1> QED
  BY <1>2, <1>4, <1>5, <1>6 DEF RefusedIsTorn


(* Sealing takes the writer's number, which no record has, and moves it on; *)
(* places already in the log keep theirs.                                   *)
PlacesKept == \A p \in 1 .. Len(log) + 1 : Cursor(p)' = Cursor(p)

LEMMA SealNumbers ==
    ASSUME WriterOK, WriterInv, tx.state = "connected",
           NEW r \in Records, r.type # "alert", Grows(r),
           r.gen = tx.gen, r.seq = tx.seq, r.at = sent,
           r.type = "data" => /\ Len(r.units) = r.len
                              /\ \A i \in 1 .. r.len : r.units[i] = r.at + i,
           [gen |-> tx'.gen, seq |-> tx'.seq, at |-> sent'] = After(r),
           r.type = "close_notify" => tx'.state = "closed"
    PROVE  WriterInv' /\ PlacesKept
<1>0. PICK n \in Nat : n = Len(log)
  BY DEF WriterOK
<1>1. /\ n \in Nat /\ DOMAIN log = 1 .. n /\ DOMAIN log' = 1 .. n + 1
      /\ \A i \in 1 .. n : log[i] \in Records
  BY <1>0 DEF WriterOK, Grows
<1>2. /\ Len(log') = n + 1 /\ log'[n + 1] = r /\ \A i \in 1 .. n : log'[i] = log[i]
  BY <1>0 DEF Grows
<1>3. \A i \in 1 .. n : log[i].type \notin {"close_notify", "alert"}
  BY <1>1 DEF WriterInv, ClosedIsLast
<1>4. /\ \A i \in 1 .. n : log[i].gen \in Nat /\ log[i].seq \in Nat
      /\ tx.gen \in Nat /\ tx.seq \in Nat
      /\ r.type \in {"data", "key_update", "close_notify", "alert"} /\ r.len \in 1 .. MaxChunk
      /\ sent \in Nat
  BY <1>1 DEF Records, WriterOK, Writers
<1>5. /\ tx'.gen = IF r.type = "key_update" /\ r.ok THEN r.gen + 1 ELSE r.gen
      /\ tx'.seq = IF r.type = "key_update" /\ r.ok THEN 0 ELSE r.seq + 1
      /\ sent' = IF r.type = "data" /\ r.ok THEN r.at + r.len ELSE r.at
  BY DEF After
<1>6. NonceUnique' /\ NumbersBelow'
  <2>1. \A i \in 1 .. n : log[i].gen < tx.gen \/ (log[i].gen = tx.gen /\ log[i].seq < tx.seq)
    BY <1>1, <1>3 DEF WriterInv, NumbersBelow
  <2>2. NumbersBelow'
    BY <1>1, <1>2, <1>4, <1>5, <2>1, SMTT(40) DEF NumbersBelow
  <2>3. \A i \in 1 .. n : ~ (log'[i].gen = r.gen /\ log'[i].seq = r.seq)
    BY <1>2, <1>4, <2>1
  <2>4. ASSUME NEW i \in 1 .. n, NEW j \in 1 .. n,
               log'[i].gen = log'[j].gen, log'[i].seq = log'[j].seq
        PROVE  i = j
    BY <1>1, <1>2, <1>3, <2>4 DEF WriterInv, NonceUnique
  <2>5. \A i \in 1 .. n + 1 : i = n + 1 \/ i \in 1 .. n
    OBVIOUS
  <2> QED
    BY <1>1, <1>2, <2>2, <2>3, <2>4, <2>5 DEF NonceUnique
<1>7. UnitsFollow'
  <2>1. ASSUME NEW k \in DOMAIN log', log'[k].type = "data"
        PROVE  /\ Len(log'[k].units) = log'[k].len
               /\ \A i \in 1 .. log'[k].len : log'[k].units[i] = log'[k].at + i
    <3>1. CASE k = n + 1
      BY <1>2, <2>1, <3>1
    <3>2. CASE k \in 1 .. n
      BY <1>1, <1>2, <2>1, <3>2 DEF WriterInv, UnitsFollow
    <3> QED
      BY <1>1, <3>1, <3>2
  <2> QED
    BY <2>1 DEF UnitsFollow
<1>8. ClosedIsLast' /\ AcceptedBelow'
  <2>1. ClosedIsLast'
    BY <1>0, <1>1, <1>2, <1>3 DEF ClosedIsLast
  <2>2. \A i \in 1 .. n : log[i].at \in Nat /\ log[i].at <= sent
    BY <1>1 DEF WriterInv, AcceptedBelow, Records
  <2> QED
    BY <1>1, <1>2, <1>4, <1>5, <2>1, <2>2 DEF AcceptedBelow
<1>9. PlacesKept
  <2> SUFFICES ASSUME NEW p \in 1 .. n + 1 PROVE Cursor(p)' = Cursor(p)
    BY <1>0 DEF PlacesKept
  <2>1. CASE p = n + 1
    BY <1>0, <1>1, <1>2, <1>3, <2>1 DEF Cursor
  <2>2. CASE p \in 1 .. n
    BY <1>0, <1>1, <1>2, <1>3, <2>2 DEF Cursor
  <2> QED
    BY <1>1, <2>1, <2>2
<1>10. Consecutive'
  <2>1. Cursor(1)' = [gen |-> 0, seq |-> 0, at |-> 0]
    BY <1>0, <1>9 DEF PlacesKept, WriterInv, Consecutive
  <2>2. ASSUME NEW k \in 1 .. n PROVE Cursor(k + 1)' = After(log[k])
    <3>1. k + 1 \in 1 .. n + 1
      BY <1>1
    <3>2. Cursor(k + 1)' = Cursor(k + 1)
      BY <1>0, <1>9, <3>1 DEF PlacesKept
    <3> QED
      BY <1>1, <1>3, <3>2 DEF WriterInv, Consecutive
  <2>3. Cursor(n + 2)' = After(r)
    BY <1>1, <1>2 DEF Cursor
  <2>4. ASSUME NEW k \in DOMAIN log', log'[k].type # "alert"
        PROVE  Cursor(k + 1)' = After(log'[k])
    <3>1. CASE k = n + 1
      BY <1>1, <1>2, <2>3, <3>1
    <3>2. CASE k \in 1 .. n
      BY <1>2, <2>2, <3>2
    <3> QED
      BY <1>1, <3>1, <3>2
  <2> QED
    BY <2>1, <2>4 DEF Consecutive, After
<1> QED
  BY <1>6, <1>7, <1>8, <1>9, <1>10 DEF WriterInv


(* An alert in the clear takes no number.                                   *)
LEMMA AlertNumbers ==
    ASSUME WriterOK, WriterInv, tx.state = "connected",
           NEW r \in Records, r.type = "alert", r.at = sent, Grows(r),
           tx'.gen = tx.gen, tx'.seq = tx.seq, sent' = sent, tx'.state = "closed"
    PROVE  WriterInv' /\ PlacesKept
<1>0. PICK n \in Nat : n = Len(log)
  BY DEF WriterOK
<1>1. /\ DOMAIN log = 1 .. n /\ DOMAIN log' = 1 .. n + 1
      /\ \A i \in 1 .. n + 1 : i = n + 1 \/ i \in 1 .. n
  BY <1>0 DEF WriterOK, Grows
<1>2. /\ Len(log') = n + 1 /\ log'[n + 1] = r /\ \A i \in 1 .. n : log'[i] = log[i]
  BY <1>0 DEF Grows
<1>3. \A i \in 1 .. n : log[i].type \notin {"close_notify", "alert"}
  BY <1>1 DEF WriterInv, ClosedIsLast
<1>4. NonceUnique' /\ NumbersBelow'
  BY <1>1, <1>2 DEF WriterInv, NonceUnique, NumbersBelow
<1>5. UnitsFollow'
  BY <1>1, <1>2 DEF WriterInv, UnitsFollow
<1>6. ClosedIsLast' /\ AcceptedBelow'
  <2>1. ClosedIsLast'
    BY <1>0, <1>1, <1>2, <1>3 DEF ClosedIsLast
  <2>2. sent <= sent
    BY DEF WriterOK
  <2> QED
    BY <1>1, <1>2, <2>1, <2>2 DEF WriterInv, AcceptedBelow
<1>7. ASSUME NEW p \in 1 .. n + 1 PROVE Cursor(p)' = Cursor(p)
  <2>1. CASE p = n + 1
    BY <1>0, <1>2, <2>1 DEF Cursor
  <2>2. CASE p \in 1 .. n
    BY <1>0, <1>2, <1>3, <2>2 DEF Cursor
  <2> QED
    BY <1>1, <2>1, <2>2
<1>8. Consecutive'
  <2>1. Cursor(1)' = [gen |-> 0, seq |-> 0, at |-> 0]
    BY <1>7 DEF WriterInv, Consecutive
  <2>2. ASSUME NEW k \in DOMAIN log', log'[k].type # "alert"
        PROVE  Cursor(k + 1)' = After(log'[k])
    <3>1. k \in 1 .. n /\ k + 1 \in 1 .. n + 1
      BY <1>1, <1>2, <2>2
    <3>2. Cursor(k + 1)' = Cursor(k + 1)
      BY <1>7, <3>1
    <3> QED
      BY <1>1, <1>2, <1>3, <3>1, <3>2 DEF WriterInv, Consecutive
  <2> QED
    BY <2>1, <2>2 DEF Consecutive, After
<1> QED
  BY <1>0, <1>4, <1>5, <1>6, <1>7, <1>8 DEF WriterInv, PlacesKept

(* A close_notify that was refused, and the alert that replaces it.         *)
GrowsByTwo(r, s) ==
    /\ log' \in Seq(Records) /\ Len(log') = Len(log) + 2
    /\ \A i \in 1 .. Len(log) : log'[i] = log[i]
    /\ log'[Len(log) + 1] = r /\ log'[Len(log) + 2] = s

LEMMA RefusedNumbers ==
    ASSUME WriterOK, WriterInv, tx.state = "connected",
           NEW r \in Records, r.type = "close_notify",
           NEW s \in Records, s.type = "alert", s.at = sent, GrowsByTwo(r, s),
           r.gen = tx.gen, r.seq = tx.seq, r.at = sent,
           tx'.gen = tx.gen, tx'.seq = tx.seq + 1, sent' = sent, tx'.state = "closed"
    PROVE  WriterInv' /\ PlacesKept
<1>0. PICK n \in Nat : n = Len(log)
  BY DEF WriterOK
<1>1. /\ DOMAIN log = 1 .. n /\ DOMAIN log' = 1 .. n + 2
      /\ \A i \in 1 .. n : log[i] \in Records
      /\ \A i \in 1 .. n + 2 : i = n + 2 \/ i = n + 1 \/ i \in 1 .. n
  BY <1>0 DEF WriterOK, GrowsByTwo
<1>2. /\ Len(log') = n + 2 /\ log'[n + 1] = r /\ log'[n + 2] = s
      /\ \A i \in 1 .. n : log'[i] = log[i]
  BY <1>0 DEF GrowsByTwo
<1>3. \A i \in 1 .. n : log[i].type \notin {"close_notify", "alert"}
  BY <1>1 DEF WriterInv, ClosedIsLast
<1>4. /\ \A i \in 1 .. n : log[i].gen \in Nat /\ log[i].seq \in Nat
      /\ tx.gen \in Nat /\ tx.seq \in Nat
  BY <1>1 DEF Records, WriterOK, Writers
<1>5. NonceUnique' /\ NumbersBelow'
  <2>1. \A i \in 1 .. n : log[i].gen < tx.gen \/ (log[i].gen = tx.gen /\ log[i].seq < tx.seq)
    BY <1>1, <1>3 DEF WriterInv, NumbersBelow
  <2>2. NumbersBelow'
    <3> SUFFICES ASSUME NEW k \in 1 .. n + 2, log'[k].type # "alert"
                 PROVE  log'[k].gen < tx.gen \/ (log'[k].gen = tx.gen /\ log'[k].seq < tx.seq + 1)
      BY <1>1 DEF NumbersBelow
    <3>1. CASE k = n + 1
      BY <1>2, <1>4, <3>1
    <3>2. CASE k \in 1 .. n
      BY <1>2, <1>4, <2>1, <3>2
    <3> QED
      BY <1>1, <1>2, <3>1, <3>2
  <2>3. \A i \in 1 .. n : ~ (log'[i].gen = r.gen /\ log'[i].seq = r.seq)
    BY <1>2, <1>4, <2>1
  <2>4. ASSUME NEW i \in 1 .. n, NEW j \in 1 .. n,
               log'[i].gen = log'[j].gen, log'[i].seq = log'[j].seq
        PROVE  i = j
    BY <1>1, <1>2, <1>3, <2>4 DEF WriterInv, NonceUnique
  <2> QED
    BY <1>1, <1>2, <2>2, <2>3, <2>4 DEF NonceUnique
<1>6. UnitsFollow'
  BY <1>1, <1>2 DEF WriterInv, UnitsFollow
<1>7. ClosedIsLast' /\ AcceptedBelow'
  <2>1. ClosedIsLast'
    BY <1>0, <1>1, <1>2, <1>3 DEF ClosedIsLast
  <2>2. sent <= sent
    BY DEF WriterOK
  <2>3. \A i \in 1 .. n : log[i].at <= sent
    BY <1>1 DEF WriterInv, AcceptedBelow
  <2>4. ASSUME NEW k \in DOMAIN log' PROVE log'[k].at <= sent
    BY <1>1, <1>2, <2>2, <2>3
  <2> QED
    BY <2>1, <2>4 DEF AcceptedBelow
<1>8. ASSUME NEW p \in 1 .. n + 1 PROVE Cursor(p)' = Cursor(p)
  <2>1. CASE p = n + 1
    BY <1>0, <1>2, <2>1 DEF Cursor
  <2>2. CASE p \in 1 .. n
    BY <1>0, <1>2, <1>3, <2>2 DEF Cursor
  <2> QED
    BY <2>1, <2>2
<1>9. Consecutive'
  <2>1. Cursor(1)' = [gen |-> 0, seq |-> 0, at |-> 0]
    BY <1>8 DEF WriterInv, Consecutive
  <2>2. Cursor(n + 2)' = After(r)
    BY <1>2 DEF Cursor, After
  <2>3. ASSUME NEW k \in 1 .. n PROVE Cursor(k + 1)' = After(log[k])
    <3>1. k + 1 \in 1 .. n + 1
      OBVIOUS
    <3>2. Cursor(k + 1)' = Cursor(k + 1)
      BY <1>8, <3>1
    <3> QED
      BY <1>1, <1>3, <3>2 DEF WriterInv, Consecutive
  <2>4. ASSUME NEW k \in DOMAIN log', log'[k].type # "alert"
        PROVE  Cursor(k + 1)' = After(log'[k])
    <3>1. CASE k = n + 1
      BY <1>2, <2>2, <3>1
    <3>2. CASE k \in 1 .. n
      BY <1>2, <2>3, <3>2
    <3> QED
      BY <1>1, <1>2, <2>4, <3>1, <3>2
  <2> QED
    BY <2>1, <2>4 DEF Consecutive, After
<1> QED
  BY <1>0, <1>5, <1>6, <1>7, <1>8, <1>9 DEF WriterInv, PlacesKept

(* The reader keeps its place while the writer seals.                       *)
LEMMA ReaderUndisturbed ==
    ASSUME Inv, tx.state = "connected", PlacesKept, rx' = rx, got' = got,
           Len(log') \in Nat, Len(log') >= Len(log)
    PROVE  ReaderInv'
<1>1. ReaderPlaced'
  <2> SUFFICES ASSUME rx.state = "connected" PROVE \E p \in 1 .. Len(log') + 1 : ReaderAt(p)'
    BY DEF ReaderPlaced
  <2>1. PICK p \in 1 .. Len(log) + 1 : ReaderAt(p)
    BY DEF Inv, ReaderInv, ReaderPlaced
  <2>2. Len(log) \in Nat
    BY DEF Inv, WriterOK
  <2>3. ReaderAt(p)'
    BY <2>1, <2>2 DEF ReaderAt, PlacesKept
  <2> QED
    BY <2>2, <2>3
<1> QED
  BY <1>1 DEF Inv, ReaderInv, InOrder, EndIsTheEnd


-----------------------------------------------------------------------------
(* The writer's actions.                                                    *)
LEMMA RecordType ==
    ASSUME Inv, NEW type \in {"data", "key_update", "close_notify", "alert"},
           NEW units \in Seq(Nat), type = "data" => Len(units) \in 1 .. MaxChunk,
           NEW ok \in BOOLEAN
    PROVE  LET r == [Record(type, units) EXCEPT !.ok = ok]
           IN  /\ Record(type, units) \in Records /\ r \in Records
               /\ r.type = type /\ r.gen = tx.gen /\ r.seq = tx.seq /\ r.units = units
               /\ r.len = (IF type = "data" THEN Len(units) ELSE 1)
               /\ Record(type, units).len = r.len
               /\ r.at = sent /\ r.ok = ok
<1>1. tx.gen \in Nat /\ tx.seq \in Nat /\ sent \in Nat
  BY DEF Inv, WriterOK, Writers
<1> DEFINE r == Record(type, units)
           len == IF type = "data" THEN Len(units) ELSE 1
<1>2. len \in 1 .. MaxChunk
  OBVIOUS
<1>3. r = [type |-> type, gen |-> tx.gen, seq |-> tx.seq, units |-> units,
           len |-> len, at |-> sent, ok |-> TRUE]
  BY DEF Record
<1> HIDE DEF r, len
<1>4. r \in Records
  BY <1>1, <1>2, <1>3 DEF Records
<1>5. /\ [r EXCEPT !.ok = ok] \in Records
      /\ [r EXCEPT !.ok = ok] = [type |-> type, gen |-> tx.gen, seq |-> tx.seq, units |-> units,
                                 len |-> len, at |-> sent, ok |-> ok]
  <2> DEFINE s == [type |-> type, gen |-> tx.gen, seq |-> tx.seq, units |-> units,
                   len |-> len, at |-> sent, ok |-> ok]
  <2>1. [r EXCEPT !.ok = ok] = s
    BY <1>3
  <2>2. s \in Records
    BY <1>1, <1>2 DEF Records
  <2> QED
    BY <2>1, <2>2
<1> QED
  BY <1>3, <1>4, <1>5 DEF r, len

LEMMA ControlType ==
    ASSUME Inv, NEW type \in {"key_update", "close_notify", "alert"}, NEW ok \in BOOLEAN
    PROVE  LET r == [Record(type, << >>) EXCEPT !.ok = ok]
           IN  /\ Record(type, << >>) \in Records /\ r \in Records
               /\ r.type = type /\ r.gen = tx.gen /\ r.seq = tx.seq
               /\ r.len = 1 /\ Record(type, << >>).len = 1
               /\ r.at = sent /\ r.ok = ok
<1> DEFINE none == << >>
<1>1. none \in Seq(Nat) /\ type # "data"
      /\ type \in {"data", "key_update", "close_notify", "alert"}
  OBVIOUS
<1> HIDE DEF none
<1>2. LET r == [Record(type, none) EXCEPT !.ok = ok]
      IN  /\ Record(type, none) \in Records /\ r \in Records
          /\ r.type = type /\ r.gen = tx.gen /\ r.seq = tx.seq
          /\ r.len = 1 /\ Record(type, none).len = 1
          /\ r.at = sent /\ r.ok = ok
  BY <1>1, RecordType
<1> QED
  BY <1>2 DEF none

LEMMA ControlRecord ==
    ASSUME Inv, NEW type \in {"key_update", "close_notify", "alert"}
    PROVE  Record(type, << >>) \in Records /\ Record(type, << >>).len = 1
<1> DEFINE P(b) == Record(type, << >>) \in Records /\ Record(type, << >>).len = 1
<1>1. ASSUME NEW b \in BOOLEAN PROVE P(b)
  BY ControlType
<1> QED
  BY <1>1

LEMMA AppendGrows ==
    ASSUME Inv, NEW r \in Records, log' = Append(log, r)
    PROVE  Grows(r) /\ Len(log') \in Nat /\ Len(log') >= Len(log)
<1>1. log \in Seq(Records) /\ Len(log) \in Nat
  BY DEF Inv, WriterOK
<1> QED
  BY <1>1 DEF Grows

(* One record is sealed and offered, and became of it what io says.         *)
LEMMA SealInv ==
    ASSUME Inv, tx.state = "connected", Len(log) < MaxSeals,
           NEW r \in Records, NEW io \in SendOutcomes(Io, Bytes(Len(log) + 1, r)),
           NEW s \in Records, log' = Append(log, s),
           s.len = r.len, s.type # "alert", s.ok = io.ok,
           s.gen = tx.gen, s.seq = tx.seq, s.at = sent,
           s.type = "data" => /\ Len(s.units) = s.len
                              /\ \A i \in 1 .. s.len : s.units[i] = s.at + i,
           [gen |-> tx'.gen, seq |-> tx'.seq, at |-> sent'] = After(s),
           s.type = "close_notify" => tx'.state = "closed",
           tx' \in Writers, tx'.pending = io.pending, tx'.limit = tx.limit,
           wire' = io.wire, sent' \in Nat, fault' \in BOOLEAN, rx' = rx, got' = got
    PROVE  Inv'
<1>1. Grows(s) /\ Len(log') \in Nat /\ Len(log') >= Len(log)
  BY AppendGrows
<1>2. WireOK' /\ Len(io.pending) <= tx.limit /\ PipeIsSealed' /\ RefusedIsTorn'
  BY <1>1, SealPipe
<1>3. WriterOK'
  <2>1. log' \in Seq(Records) /\ Len(log') <= MaxSeals
    BY <1>1 DEF Grows, Inv, WriterOK
  <2> QED
    BY <1>2, <2>1 DEF WriterOK
<1>4. WriterInv' /\ PlacesKept
  BY <1>1, SealNumbers DEF Inv
<1>5. ReaderOK' /\ ReaderInv'
  BY <1>1, <1>4, ReaderUndisturbed DEF Inv, ReaderOK
<1> QED
  BY <1>2, <1>3, <1>4, <1>5 DEF Inv

(* What the writer's state becomes.                                         *)
LEMMA AfterSealType ==
    ASSUME Inv, NEW io \in Ios
    PROVE  LET next == AfterSeal(io)
               keyed == [AfterSeal(io) EXCEPT !.gen = @ + 1, !.seq = 0]
               closed == [AfterSeal(io) EXCEPT !.pending = io.pending, !.state = "closed"]
           IN  /\ next \in Writers /\ next.pending = io.pending /\ next.limit = tx.limit
               /\ next.gen = tx.gen /\ next.seq = tx.seq + 1 /\ next.state = tx.state
               /\ keyed \in Writers /\ keyed.pending = io.pending /\ keyed.limit = tx.limit
               /\ keyed.gen = tx.gen + 1 /\ keyed.seq = 0 /\ keyed.state = tx.state
               /\ closed \in Writers /\ closed.pending = io.pending /\ closed.limit = tx.limit
               /\ closed.gen = tx.gen /\ closed.seq = tx.seq + 1 /\ closed.state = "closed"
<1>1. tx \in Writers /\ tx.seq + 1 \in Nat /\ tx.gen + 1 \in Nat /\ io.pending \in Seq(Byte)
  BY DEF Inv, WriterOK, Writers, Ios
<1>2. /\ AfterSeal(io) \in Writers
      /\ AfterSeal(io).pending = io.pending /\ AfterSeal(io).limit = tx.limit
      /\ AfterSeal(io).gen = tx.gen /\ AfterSeal(io).seq = tx.seq + 1
      /\ AfterSeal(io).state = tx.state
  BY <1>1 DEF AfterSeal, Writers
<1> QED
  BY <1>1, <1>2 DEF Writers

LEMMA SendDataInv ==
    ASSUME Inv, NEW n \in 1 .. MaxChunk, SendData(n)
    PROVE  Inv'
<1> DEFINE units == [i \in 1 .. n |-> sent + i]
           r == Record("data", units)
<1>1. PICK io \in SendOutcomes(Io, Bytes(Len(log) + 1, r)) :
         /\ SealAndSend(r, io)
         /\ tx' = AfterSeal(io)
         /\ sent' = IF io.ok THEN sent + n ELSE sent
         /\ fault' = (fault \/ ~io.ok)
  BY DEF SendData
<1>2. /\ tx.state = "connected" /\ rx' = rx /\ got' = got
      /\ sent \in Nat /\ fault \in BOOLEAN
  BY DEF SendData, Inv, WriterOK
<1>3. units \in Seq(Nat) /\ Len(units) = n /\ \A i \in 1 .. n : units[i] = sent + i
  BY <1>2
<1> HIDE DEF units
<1>4. r \in Records /\ r.len \in 1 .. MaxChunk
  <2>1. r \in Records
    BY <1>3, RecordType
  <2> QED
    BY <2>1 DEF Records
<1> DEFINE s == [r EXCEPT !.ok = io.ok]
<1>5. /\ Len(log) < MaxSeals /\ wire' = io.wire /\ log' = Append(log, s)
  BY <1>1 DEF SealAndSend
<1>6. io \in Ios /\ io.ok \in BOOLEAN
  <2> HIDE DEF r
  <2>1. io \in Ios
    BY <1>1, <1>4, <1>5, SealCarried
  <2> QED
    BY <2>1 DEF Ios
<1>7. /\ s \in Records /\ s.type = "data" /\ s.gen = tx.gen /\ s.seq = tx.seq /\ s.units = units
      /\ s.len = n /\ s.len = r.len /\ s.at = sent /\ s.ok = io.ok
  BY <1>3, <1>6, RecordType
<1>8. /\ tx' \in Writers /\ tx'.pending = io.pending /\ tx'.limit = tx.limit
      /\ tx'.gen = tx.gen /\ tx'.seq = tx.seq + 1
  BY <1>1, <1>6, AfterSealType
<1> HIDE DEF r, s
<1>9. [gen |-> tx'.gen, seq |-> tx'.seq, at |-> sent'] = After(s)
  BY <1>1, <1>7, <1>8 DEF After
<1>10. sent' \in Nat /\ fault' \in BOOLEAN
  BY <1>1, <1>2, <1>6
<1> QED
  BY <1>1, <1>2, <1>3, <1>4, <1>5, <1>7, <1>8, <1>9, <1>10, SealInv

LEMMA SendKeyUpdateInv ==
    ASSUME Inv, SendKeyUpdate
    PROVE  Inv'
<1> DEFINE r == Record("key_update", << >>)
<1>1. PICK io \in SendOutcomes(Io, Bytes(Len(log) + 1, r)) :
         /\ SealAndSend(r, io)
         /\ tx' = IF io.ok THEN [AfterSeal(io) EXCEPT !.gen = @ + 1, !.seq = 0]
                  ELSE AfterSeal(io)
         /\ fault' = (fault \/ ~io.ok)
  BY DEF SendKeyUpdate
<1>2. /\ tx.state = "connected" /\ rx' = rx /\ got' = got /\ sent' = sent
      /\ sent \in Nat /\ fault \in BOOLEAN
  BY DEF SendKeyUpdate, Inv, WriterOK
<1>4. r \in Records /\ r.len \in 1 .. MaxChunk
  BY ControlRecord
<1> DEFINE s == [r EXCEPT !.ok = io.ok]
<1>5. /\ Len(log) < MaxSeals /\ wire' = io.wire /\ log' = Append(log, s)
  BY <1>1 DEF SealAndSend
<1>6. io \in Ios /\ io.ok \in BOOLEAN
  <2> HIDE DEF r
  <2>1. io \in Ios
    BY <1>1, <1>4, <1>5, SealCarried
  <2> QED
    BY <2>1 DEF Ios
<1>7. /\ s \in Records /\ s.type = "key_update" /\ s.gen = tx.gen /\ s.seq = tx.seq
      /\ s.len = r.len /\ s.at = sent /\ s.ok = io.ok
  BY <1>6, ControlType
<1>8. /\ tx' \in Writers /\ tx'.pending = io.pending /\ tx'.limit = tx.limit
      /\ tx'.gen = (IF io.ok THEN tx.gen + 1 ELSE tx.gen)
      /\ tx'.seq = (IF io.ok THEN 0 ELSE tx.seq + 1)
  <2>1. CASE io.ok
    BY <1>1, <1>6, <2>1, AfterSealType
  <2>2. CASE ~io.ok
    BY <1>1, <1>6, <2>2, AfterSealType
  <2> QED
    BY <2>1, <2>2
<1> HIDE DEF r, s
<1>9. [gen |-> tx'.gen, seq |-> tx'.seq, at |-> sent'] = After(s)
  BY <1>2, <1>7, <1>8 DEF After
<1>10. sent' \in Nat /\ fault' \in BOOLEAN
  BY <1>1, <1>2, <1>6
<1> QED
  BY <1>1, <1>2, <1>4, <1>5, <1>7, <1>8, <1>9, <1>10, SealInv


(* noxtls_tls13_close, the close_notify sealed and offered.                 *)
LEMMA CloseSealed ==
    ASSUME Inv, tx.state = "connected", Len(log) + 2 <= MaxSeals,
           NEW io \in SendOutcomes(Io, Bytes(Len(log) + 1, Record("close_notify", << >>))),
           tx' = [AfterSeal(io) EXCEPT !.pending = io.pending, !.state = "closed"],
           wire' = io.wire,
           log' = log \o <<[Record("close_notify", << >>) EXCEPT !.ok = io.ok]>>,
           fault' \in BOOLEAN, rx' = rx, sent' = sent, got' = got
    PROVE  Inv'
<1> DEFINE r == Record("close_notify", << >>)
           s == [r EXCEPT !.ok = io.ok]
<1>1. r \in Records /\ r.len = 1
  BY ControlRecord
<1>2. log \in Seq(Records) /\ Len(log) \in Nat /\ Len(log) < MaxSeals /\ sent \in Nat
  BY DEF Inv, WriterOK
<1>3. io \in Ios /\ io.ok \in BOOLEAN
  <2> HIDE DEF r
  <2>1. io \in Ios
    BY <1>1, <1>2, SealCarried, SMTT(40) DEF r
  <2> QED
    BY <2>1 DEF Ios
<1>4. /\ s \in Records /\ s.type = "close_notify" /\ s.gen = tx.gen /\ s.seq = tx.seq
      /\ s.len = r.len /\ s.at = sent /\ s.ok = io.ok
  BY <1>3, ControlType
<1>5. /\ tx' \in Writers /\ tx'.pending = io.pending /\ tx'.limit = tx.limit
      /\ tx'.gen = tx.gen /\ tx'.seq = tx.seq + 1 /\ tx'.state = "closed"
  BY <1>3, AfterSealType
<1>6. io \in SendOutcomes(Io, Bytes(Len(log) + 1, r)) /\ log' = log \o <<s>>
  OBVIOUS
<1> HIDE DEF r, s
<1>7. log' = Append(log, s)
  BY <1>2, <1>4, <1>6, AppendIsConcat
<1>8. [gen |-> tx'.gen, seq |-> tx'.seq, at |-> sent'] = After(s)
  BY <1>4, <1>5 DEF After
<1> QED
  BY <1>1, <1>2, <1>4, <1>5, <1>6, <1>7, <1>8, SealInv

(* The close_notify never sealed, an alert in the clear instead.            *)
LEMMA CloseInClear ==
    ASSUME Inv, tx.state = "connected", Len(log) + 2 <= MaxSeals,
           NEW io \in SendOutcomes(Io, Bytes(Len(log) + 1, Record("alert", << >>))),
           tx' = [tx EXCEPT !.pending = io.pending, !.state = "closed"],
           wire' = io.wire, log' = log \o <<Record("alert", << >>)>>,
           fault' \in BOOLEAN, rx' = rx, sent' = sent, got' = got
    PROVE  Inv'
<1> DEFINE r == Record("alert", << >>)
<1>1. r \in Records /\ r.len = 1
  BY ControlRecord
<1>2. r.type = "alert" /\ r.ok /\ r.at = sent
  BY DEF Record
<1>3. /\ log \in Seq(Records) /\ Len(log) \in Nat /\ Len(log) < MaxSeals /\ sent \in Nat
      /\ tx \in Writers
  BY DEF Inv, WriterOK
<1>4. io \in SendOutcomes(Io, Bytes(Len(log) + 1, r)) /\ log' = log \o <<r>>
  OBVIOUS
<1> HIDE DEF r
<1>5. io \in Ios /\ io.pending \in Seq(Byte)
  <2>1. io \in Ios
    BY <1>1, <1>3, <1>4, SealCarried
  <2> QED
    BY <2>1 DEF Ios
<1>6. /\ tx' \in Writers /\ tx'.pending = io.pending /\ tx'.limit = tx.limit
      /\ tx'.gen = tx.gen /\ tx'.seq = tx.seq /\ tx'.state = "closed"
  BY <1>3, <1>5 DEF Writers
<1>7. Grows(r) /\ Len(log') \in Nat /\ Len(log') >= Len(log)
  <2>1. log' = Append(log, r)
    BY <1>1, <1>3, <1>4, AppendIsConcat
  <2> QED
    BY <1>1, <2>1, AppendGrows
<1>8. WireOK' /\ Len(io.pending) <= tx.limit /\ PipeIsSealed' /\ RefusedIsTorn'
  BY <1>1, <1>2, <1>3, <1>4, <1>6, <1>7, SealPipe
<1>9. WriterOK'
  <2>1. log' \in Seq(Records) /\ Len(log') <= MaxSeals
    BY <1>3, <1>7 DEF Grows
  <2> QED
    BY <1>3, <1>6, <1>8, <2>1 DEF WriterOK
<1>10. WriterInv' /\ PlacesKept
  BY <1>1, <1>2, <1>6, <1>7, AlertNumbers DEF Inv
<1>11. ReaderOK' /\ ReaderInv'
  BY <1>7, <1>10, ReaderUndisturbed DEF Inv, ReaderOK
<1> QED
  BY <1>8, <1>9, <1>10, <1>11 DEF Inv


LEMMA ConcatTwo ==
    ASSUME NEW S, NEW s \in Seq(S), NEW t \in Seq(S), Len(t) = 2
    PROVE  /\ s \o t \in Seq(S) /\ Len(s \o t) = Len(s) + 2
           /\ \A i \in 1 .. Len(s) : (s \o t)[i] = s[i]
           /\ (s \o t)[Len(s) + 1] = t[1] /\ (s \o t)[Len(s) + 2] = t[2]
<1> DEFINE u == s \o t
<1>1. /\ u \in Seq(S) /\ Len(u) = Len(s) + Len(t)
      /\ \A i \in 1 .. Len(s) + Len(t) : u[i] = IF i <= Len(s) THEN s[i] ELSE t[i - Len(s)]
  BY ConcatProperties
<1> HIDE DEF u
<1>2. /\ \A i \in 1 .. Len(s) : u[i] = s[i]
      /\ u[Len(s) + 1] = t[1] /\ u[Len(s) + 2] = t[2]
  <2>1. PICK n \in Nat : n = Len(s)
    OBVIOUS
  <2>2. \A i \in 1 .. n + 2 : u[i] = IF i <= n THEN s[i] ELSE t[i - n]
    BY <1>1, <2>1
  <2>3. n + 1 \in 1 .. n + 2 /\ n + 2 \in 1 .. n + 2 /\ ~ (n + 1 <= n) /\ ~ (n + 2 <= n)
        /\ n + 1 - n = 1 /\ n + 2 - n = 2
    OBVIOUS
  <2>4. u[n + 1] = t[1] /\ u[n + 2] = t[2]
    BY <2>2, <2>3
  <2>5. \A i \in 1 .. n : u[i] = s[i]
    BY <2>2
  <2> QED
    BY <2>1, <2>4, <2>5
<1> QED
  BY <1>1, <1>2 DEF u

(* What the two sends leave of a refused record and the one behind it.      *)
LEMMA TwoCarried ==
    ASSUME Inv, Len(log) + 2 <= MaxSeals,
           NEW r, r.len \in 1 .. MaxChunk, NEW c, c.len \in 1 .. MaxChunk,
           NEW io \in SendOutcomes(Io, Bytes(Len(log) + 1, r)), ~io.ok,
           NEW again \in Ios, again.ok, again.wire = io.wire, again.pending = io.pending,
           NEW last \in SendOutcomes(again, Bytes(Len(log) + 2, c))
    PROVE  /\ io \in Ios /\ last \in Ios
           /\ Len(last.wire) <= WireCapacity /\ Len(last.pending) <= tx.limit
           /\ \A b \in Elements(last.pending) \cup Elements(last.wire) :
                 \/ b \in Elements(tx.pending) \cup Elements(wire)
                 \/ b[1] = Len(log) + 1 /\ b # <<Len(log) + 1, HeaderLen + r.len>>
                 \/ b[1] = Len(log) + 2
<1> DEFINE k == Len(log) + 2
<1>1. Len(log) \in Nat /\ Len(log) < MaxSeals /\ k \in 1 .. MaxSeals /\ tx.limit \in Nat
  <2>1. Len(log) \in Nat /\ tx \in Writers
    BY DEF Inv, WriterOK
  <2>2. tx.limit \in Nat
    BY <2>1 DEF Writers
  <2> QED
    BY <2>1, <2>2
<1>2. /\ io \in Ios
      /\ Len(io.wire) <= WireCapacity /\ Len(io.pending) <= tx.limit
      /\ \A b \in Elements(io.pending) \cup Elements(io.wire) :
            \/ b \in Elements(tx.pending) \cup Elements(wire)
            \/ b[1] = Len(log) + 1
               /\ (~io.ok => b # <<Len(log) + 1, HeaderLen + r.len>>)
  BY <1>1, SealCarried
<1>3. last \in SendOutcomes(again, Bytes(k, c))
  OBVIOUS
<1>4. Len(again.wire) <= WireCapacity /\ Len(again.pending) <= tx.limit
  BY <1>2
<1> HIDE DEF k
<1>5. /\ last \in Ios
      /\ Len(last.wire) <= WireCapacity /\ Len(last.pending) <= tx.limit
      /\ \A b \in Elements(last.pending) \cup Elements(last.wire) :
            \/ b \in Elements(again.pending) \cup Elements(again.wire)
            \/ b[1] = k /\ (~last.ok => b # <<k, HeaderLen + c.len>>)
  BY <1>1, <1>3, <1>4, RecordCarried, SMTT(40)
<1> QED
  BY <1>2, <1>5 DEF k

(* The close_notify sealed and refused, an alert in the clear behind it.    *)
LEMMA CloseRefused ==
    ASSUME Inv, tx.state = "connected", Len(log) + 2 <= MaxSeals,
           NEW r \in Records,
           NEW io \in SendOutcomes(Io, Bytes(Len(log) + 1, r)), ~io.ok,
           NEW again \in Ios, again.ok, again.wire = io.wire, again.pending = io.pending,
           NEW c \in Records, c.type = "alert", c.at = sent, c.ok,
           NEW last \in SendOutcomes(again, Bytes(Len(log) + 2, c)),
           NEW s \in Records, s.len = r.len, s.type = "close_notify", ~ s.ok,
           s.gen = tx.gen, s.seq = tx.seq, s.at = sent,
           tx' = [AfterSeal(io) EXCEPT !.pending = last.pending, !.state = "closed"],
           wire' = last.wire,
           NEW two \in Seq(Records), Len(two) = 2, two[1] = s, two[2] = c, log' = log \o two,
           fault' \in BOOLEAN, rx' = rx, sent' = sent, got' = got
    PROVE  Inv'
<1>4. /\ log \in Seq(Records) /\ Len(log) \in Nat /\ Len(log) < MaxSeals /\ sent \in Nat
      /\ DOMAIN log = 1 .. Len(log) /\ tx \in Writers /\ tx.limit \in Nat
  BY SMTT(40) DEF Inv, WriterOK, Writers
<1>8. /\ io \in Ios /\ last \in Ios
      /\ Len(last.wire) <= WireCapacity /\ Len(last.pending) <= tx.limit
      /\ \A b \in Elements(last.pending) \cup Elements(last.wire) :
            \/ b \in Elements(tx.pending) \cup Elements(wire)
            \/ b[1] = Len(log) + 1 /\ b # <<Len(log) + 1, HeaderLen + r.len>>
            \/ b[1] = Len(log) + 2
  <2>1. r.len \in 1 .. MaxChunk /\ c.len \in 1 .. MaxChunk
    BY DEF Records
  <2> QED
    BY <2>1, TwoCarried
<1>9. /\ tx' \in Writers /\ tx'.pending = last.pending /\ tx'.limit = tx.limit
      /\ tx'.gen = tx.gen /\ tx'.seq = tx.seq + 1 /\ tx'.state = "closed"
  <2>1. /\ AfterSeal(io) \in Writers /\ AfterSeal(io).limit = tx.limit
        /\ AfterSeal(io).gen = tx.gen /\ AfterSeal(io).seq = tx.seq + 1
    BY <1>8, AfterSealType
  <2>2. last.pending \in Seq(Byte)
    BY <1>8 DEF Ios
  <2> QED
    BY <2>1, <2>2 DEF Writers
<1>10. GrowsByTwo(s, c) /\ Len(log') \in Nat /\ Len(log') >= Len(log)
  <2>1. /\ log \o two \in Seq(Records) /\ Len(log \o two) = Len(log) + 2
        /\ \A i \in 1 .. Len(log) : (log \o two)[i] = log[i]
        /\ (log \o two)[Len(log) + 1] = two[1] /\ (log \o two)[Len(log) + 2] = two[2]
    BY <1>4, ConcatTwo, SMTT(40)
  <2> QED
    BY <1>4, <2>1 DEF GrowsByTwo
<1>11. \A b \in Pipe' :
          \/ b \in Pipe
          \/ b[1] = Len(log) + 1 /\ b # <<Len(log) + 1, HeaderLen + r.len>>
          \/ b[1] = Len(log) + 2
  BY <1>8, <1>9 DEF Pipe
<1>12. PipeIsSealed'
  <2>1. \A b \in Pipe : b[1] \in 1 .. Len(log)
    BY DEF PipeIsSealed, Inv
  <2>2. ASSUME NEW b \in Pipe' PROVE b[1] \in 1 .. Len(log) + 2
    <3>1. b[1] \in 1 .. Len(log) \/ b[1] = Len(log) + 1 \/ b[1] = Len(log) + 2
      BY <1>11, <2>1
    <3> QED
      BY <1>4, <3>1
  <2> QED
    BY <1>10, <2>2 DEF PipeIsSealed, GrowsByTwo
<1>13. RefusedIsTorn'
  <2> SUFFICES ASSUME NEW j \in DOMAIN log', ~ log'[j].ok PROVE LastByte(j)' \notin Pipe'
    BY DEF RefusedIsTorn
  <2>1. j = Len(log) + 1 \/ j \in 1 .. Len(log)
    BY <1>4, <1>10, SMTT(40) DEF GrowsByTwo
  <2>2. CASE j = Len(log) + 1
    <3>1. LastByte(j)' = <<Len(log) + 1, HeaderLen + r.len>>
      BY <1>10, <2>2 DEF LastByte, GrowsByTwo
    <3>2. <<Len(log) + 1, HeaderLen + r.len>> \notin Pipe
      BY <1>4 DEF PipeIsSealed, Inv
    <3> QED
      BY <1>4, <1>11, <3>1, <3>2
  <2>3. CASE j \in 1 .. Len(log)
    <3>1. LastByte(j)' = LastByte(j) /\ ~ log[j].ok /\ LastByte(j)[1] = j
      BY <1>10, <2>3 DEF LastByte, GrowsByTwo
    <3>2. LastByte(j) \notin Pipe
      BY <1>4, <2>3, <3>1 DEF RefusedIsTorn, Inv
    <3>3. j # Len(log) + 1 /\ j # Len(log) + 2
      BY <1>4, <2>3
    <3> QED
      BY <1>11, <3>1, <3>2, <3>3
  <2> QED
    BY <2>1, <2>2, <2>3
<1>14. WriterOK' /\ WireOK'
  <2>1. log' \in Seq(Records) /\ Len(log') <= MaxSeals
    BY <1>4, <1>10 DEF GrowsByTwo
  <2>2. last.wire \in Seq(Byte)
    BY <1>8 DEF Ios
  <2> QED
    BY <1>4, <1>8, <1>9, <2>1, <2>2 DEF WriterOK, WireOK
<1>15. WriterInv' /\ PlacesKept
  BY <1>9, <1>10, RefusedNumbers DEF Inv
<1>16. ReaderOK' /\ ReaderInv'
  BY <1>10, <1>15, ReaderUndisturbed DEF Inv, ReaderOK
<1> QED
  BY <1>12, <1>13, <1>14, <1>15, <1>16 DEF Inv

LEMMA CloseInv ==
    ASSUME Inv, Close
    PROVE  Inv'
<1>a. Len(log) \in Nat /\ fault \in BOOLEAN
  BY DEF Inv, WriterOK
<1>1. /\ tx.state = "connected" /\ Len(log) + 2 <= MaxSeals
      /\ rx' = rx /\ sent' = sent /\ got' = got
      /\ Len(log) + 1 + 1 = Len(log) + 2
  <2>1. /\ tx.state = "connected" /\ Len(log) + 2 <= MaxSeals
        /\ UNCHANGED <<rx, sent, got>>
    BY Zenon DEF Close
  <2> QED
    BY <1>a, <2>1
<1>2. ASSUME NEW io \in SendOutcomes(Io, Bytes(Len(log) + 1, Record("close_notify", << >>))),
             tx' = [AfterSeal(io) EXCEPT !.pending = io.pending, !.state = "closed"],
             wire' = io.wire,
             log' = log \o <<[Record("close_notify", << >>) EXCEPT !.ok = io.ok]>>,
             fault' \in BOOLEAN
      PROVE  Inv'
  BY <1>1, <1>2, CloseSealed
<1>3. ASSUME NEW io \in SendOutcomes(Io, Bytes(Len(log) + 1, Record("close_notify", << >>))),
             ~io.ok,
             NEW last \in SendOutcomes([io EXCEPT !.ok = TRUE],
                                       Bytes(Len(log) + 1 + 1, Record("alert", << >>))),
             tx' = [AfterSeal(io) EXCEPT !.pending = last.pending, !.state = "closed"],
             wire' = last.wire,
             log' = log \o <<[Record("close_notify", << >>) EXCEPT !.ok = FALSE],
                             Record("alert", << >>)>>,
             fault' \in BOOLEAN
      PROVE  Inv'
  <2> DEFINE r == Record("close_notify", << >>)
             s == [r EXCEPT !.ok = FALSE]
             c == Record("alert", << >>)
             again == [io EXCEPT !.ok = TRUE]
             two == <<s, c>>
  <2>1. r \in Records /\ r.len = 1 /\ c \in Records /\ c.len = 1
    BY ControlRecord
  <2>2. c.type = "alert" /\ c.ok /\ c.at = sent
    BY DEF Record
  <2>3. /\ s \in Records /\ s.type = "close_notify" /\ s.gen = tx.gen /\ s.seq = tx.seq
        /\ s.len = 1 /\ s.at = sent /\ s.ok = FALSE
    BY ControlType
  <2>4. /\ io \in SendOutcomes(Io, Bytes(Len(log) + 1, r))
        /\ last \in SendOutcomes(again, Bytes(Len(log) + 2, c))
        /\ log' = log \o two
    BY <1>1, <1>3
  <2> HIDE DEF r, s, c
  <2>5. io \in Ios
    <3>1. r.len \in 1 .. MaxChunk /\ Len(log) < MaxSeals
      BY <1>a, <1>1, <2>1
    <3> QED
      BY <2>4, <3>1, SealCarried
  <2>6. /\ again \in Ios /\ again.ok /\ again.wire = io.wire /\ again.pending = io.pending
    BY <2>5 DEF Ios
  <2>7. two \in Seq(Records) /\ Len(two) = 2 /\ two[1] = s /\ two[2] = c
    BY <2>1, <2>3
  <2> HIDE DEF again, two
  <2> QED
    BY <1>1, <1>3, <2>1, <2>2, <2>3, <2>4, <2>6, <2>7, CloseRefused, ZenonT(40)
<1>4. ASSUME NEW io \in SendOutcomes(Io, Bytes(Len(log) + 1, Record("alert", << >>))),
             tx' = [tx EXCEPT !.pending = io.pending, !.state = "closed"],
             wire' = io.wire, log' = log \o <<Record("alert", << >>)>>,
             fault' \in BOOLEAN
      PROVE  Inv'
  BY <1>1, <1>4, CloseInClear
<1>5. fault' \in BOOLEAN
  BY <1>a DEF Close
<1> QED
  BY <1>2, <1>3, <1>4, <1>5 DEF Close

(* Steps that seal nothing leave every place as it is.                      *)
LEMMA WriterKept ==
    ASSUME WriterInv, log' = log, sent' = sent,
           tx'.gen = tx.gen, tx'.seq = tx.seq, tx'.state = tx.state
    PROVE  WriterInv' /\ \A p : Cursor(p)' = Cursor(p)
<1>1. \A p : Cursor(p)' = Cursor(p)
  BY DEF Cursor
<1>2. Consecutive'
  BY <1>1 DEF WriterInv, Consecutive, After
<1>3. NonceUnique' /\ UnitsFollow' /\ AcceptedBelow'
  BY DEF WriterInv, NonceUnique, UnitsFollow, AcceptedBelow
<1>4. ClosedIsLast' /\ NumbersBelow'
  BY DEF WriterInv, ClosedIsLast, NumbersBelow
<1> QED
  BY <1>1, <1>2, <1>3, <1>4 DEF WriterInv

LEMMA FlushInv ==
    ASSUME Inv, Flush
    PROVE  Inv'
<1>1. PICK n \in Takes(Io, tx.pending) :
         /\ tx' = [tx EXCEPT !.pending = FlushTaking(Io, n).pending]
         /\ wire' = FlushTaking(Io, n).wire
  BY DEF Flush
<1>2. UNCHANGED <<rx, log, sent, got, fault>>
  BY DEF Flush
<1>3. /\ Io \in Ios /\ Io.ok /\ Io.pending = tx.pending /\ Io.wire = wire
      /\ Len(Io.wire) <= WireCapacity
      /\ tx.limit \in Nat /\ Len(Io.pending) <= tx.limit
  BY IoOK
<1> DEFINE out == FlushTaking(Io, n)
<1>4. /\ out \in Ios /\ Len(out.wire) <= WireCapacity
      /\ Len(out.pending) <= Len(Io.pending)
      /\ Elements(out.pending) \subseteq Elements(Io.pending)
      /\ Elements(out.wire) \subseteq Elements(Io.pending) \cup Elements(Io.wire)
  BY <1>1, <1>3, FlushKeeps
<1> HIDE DEF out
<1>5. out.pending \in Seq(Byte) /\ out.wire \in Seq(Byte) /\ tx \in Writers
      /\ tx' = [tx EXCEPT !.pending = out.pending] /\ wire' = out.wire
  BY <1>1, <1>4 DEF Ios, out, Inv, WriterOK
<1>6. /\ tx' \in Writers /\ tx'.pending = out.pending /\ tx'.limit = tx.limit
      /\ tx'.gen = tx.gen /\ tx'.seq = tx.seq /\ tx'.state = tx.state
  BY <1>5 DEF Writers
<1>7. Len(out.pending) <= tx.limit
  BY <1>3, <1>4, <1>5
<1>8. WriterOK' /\ WireOK' /\ ReaderOK'
  BY <1>2, <1>4, <1>5, <1>6, <1>7 DEF Inv, WriterOK, WireOK, ReaderOK
<1>9. Pipe' \subseteq Pipe
  BY <1>2, <1>3, <1>4, <1>5, <1>6 DEF Pipe
<1>10. PipeIsSealed' /\ RefusedIsTorn'
  BY <1>2, <1>9 DEF Inv, PipeIsSealed, RefusedIsTorn, LastByte
<1>11. WriterInv' /\ \A p : Cursor(p)' = Cursor(p)
  BY <1>2, <1>6, WriterKept DEF Inv
<1>12. ReaderInv'
  BY <1>2, <1>6, <1>11 DEF Inv, ReaderInv, ReaderPlaced, ReaderAt, InOrder, EndIsTheEnd
<1> QED
  BY <1>8, <1>10, <1>11, <1>12 DEF Inv


LEMMA SetIoTxQueueLimitInv ==
    ASSUME Inv, NEW l \in Limits, SetIoTxQueueLimit(l)
    PROVE  Inv'
<1>1. /\ tx \in Writers /\ tx' = [tx EXCEPT !.limit = l] /\ Len(tx.pending) <= l
      /\ UNCHANGED <<wire, rx, log, sent, got, fault>>
  BY DEF SetIoTxQueueLimit, Inv, WriterOK, Writers
<1>2. /\ tx' \in Writers /\ tx'.pending = tx.pending /\ tx'.limit = l
      /\ tx'.gen = tx.gen /\ tx'.seq = tx.seq /\ tx'.state = tx.state
  BY <1>1 DEF Writers
<1>3. WriterOK' /\ WireOK' /\ ReaderOK'
  BY <1>1, <1>2 DEF Inv, WriterOK, WireOK, ReaderOK
<1>4. Pipe' = Pipe
  BY <1>1, <1>2 DEF Pipe
<1>5. PipeIsSealed' /\ RefusedIsTorn'
  BY <1>1, <1>4 DEF Inv, PipeIsSealed, RefusedIsTorn, LastByte
<1>6. WriterInv' /\ \A p : Cursor(p)' = Cursor(p)
  BY <1>1, <1>2, WriterKept DEF Inv
<1>7. ReaderInv'
  BY <1>1, <1>2, <1>6 DEF Inv, ReaderInv, ReaderPlaced, ReaderAt, InOrder, EndIsTheEnd
<1> QED
  BY <1>3, <1>5, <1>6, <1>7 DEF Inv

-----------------------------------------------------------------------------
(* The reader's actions.                                                    *)
Readers ==
    [state : {"connected", "closing", "closed"}, gen : Nat, seq : Nat,
     header : Seq(Byte), length : NoLength .. TooLong, payload : Seq(Byte),
     allocated : BOOLEAN, app : Seq(Nat), postHs : Nat]

(* Taking bytes off the transport and dropping them moves no place.         *)
LEMMA ReadKeeps ==
    ASSUME Inv, UNCHANGED <<tx, log, sent, got>>, fault' \in BOOLEAN, WireOK', ReaderOK',
           Pipe' \subseteq Pipe,
           rx'.gen = rx.gen, rx'.seq = rx.seq, rx'.app = rx.app,
           rx'.state = rx.state \/ rx'.state = "closed",
           rx.app # << >> => rx'.header = << >>
    PROVE  Inv'
<1>1. WriterOK'
  BY DEF Inv, WriterOK
<1>2. WriterInv' /\ \A p : Cursor(p)' = Cursor(p)
  BY WriterKept DEF Inv
<1>3. PipeIsSealed' /\ RefusedIsTorn'
  BY DEF Inv, PipeIsSealed, RefusedIsTorn, LastByte
<1>4. ReaderPlaced' /\ EndIsTheEnd'
  BY <1>2 DEF Inv, ReaderInv, ReaderPlaced, ReaderAt, EndIsTheEnd
<1>5. InOrder'
  BY DEF Inv, ReaderInv, InOrder
<1> QED
  BY <1>1, <1>2, <1>3, <1>4, <1>5 DEF Inv, ReaderInv

LEMMA ResetType ==
    ASSUME rx \in Readers
    PROVE  /\ ResetRx(rx) \in Readers
           /\ ResetRx(rx).header = << >> /\ ResetRx(rx).payload = << >>
           /\ ResetRx(rx).length = NoLength
           /\ ResetRx(rx).gen = rx.gen /\ ResetRx(rx).seq = rx.seq
           /\ ResetRx(rx).app = rx.app /\ ResetRx(rx).state = rx.state
           /\ ResetRx(rx).postHs = rx.postHs
<1>1. NoLength \in NoLength .. TooLong /\ << >> \in Seq(Byte)
  BY DEF NoLength, TooLong
<1>2. ResetRx(rx) \in Readers
  BY <1>1 DEF ResetRx, Readers
<1> QED
  BY <1>2 DEF ResetRx, Readers

(* RECORD_OVERFLOW, a payload that could not be allocated, and a record     *)
(* that does not open: what was read is dropped.                            *)
LEMMA DropInv ==
    ASSUME Inv, UNCHANGED <<tx, wire, log, sent, got>>, fault' \in BOOLEAN,
           rx' = ResetRx(rx) \/ rx' = [ResetRx(rx) EXCEPT !.state = "closed"]
    PROVE  Inv'
<1>1. rx \in Readers
  BY DEF Inv, ReaderOK, Readers
<1>2. /\ rx' \in Readers
      /\ rx'.header = << >> /\ rx'.payload = << >> /\ rx'.length = NoLength
      /\ rx'.gen = rx.gen /\ rx'.seq = rx.seq /\ rx'.app = rx.app
      /\ rx'.state = rx.state \/ rx'.state = "closed"
  <2> DEFINE r == ResetRx(rx)
  <2>1. /\ r \in Readers /\ r.header = << >> /\ r.payload = << >>
        /\ r.length = NoLength
        /\ r.gen = rx.gen /\ r.seq = rx.seq
        /\ r.app = rx.app /\ r.state = rx.state
    BY <1>1, ResetType
  <2> HIDE DEF r
  <2>2. rx' = r \/ rx' = [r EXCEPT !.state = "closed"]
    BY DEF r
  <2> QED
    BY <2>1, <2>2 DEF Readers
<1>3. Pipe' \subseteq Pipe
  BY <1>2 DEF Pipe, Elements
<1>4. WireOK' /\ ReaderOK'
  <2>1. Len(rx'.header) = 0 /\ Len(rx'.payload) = 0
    BY <1>2
  <2> QED
    BY <1>2, <2>1 DEF Inv, WireOK, ReaderOK, Readers
<1> QED
  BY <1>2, <1>3, <1>4, ReadKeeps


LEMMA ReadHeaderInv ==
    ASSUME Inv, ReadHeader
    PROVE  Inv'
<1> USE DEF NoLength, TooLong
<1>1. /\ rx.app = << >> /\ rx.length = NoLength
      /\ UNCHANGED <<tx, log, sent, got, fault>>
  BY DEF ReadHeader
<1>2. /\ rx \in Readers /\ rx.header \in Seq(Byte) /\ Len(rx.header) \in Nat
      /\ wire \in Seq(Byte) /\ Len(wire) \in Nat /\ Len(wire) <= WireCapacity
      /\ fault \in BOOLEAN
  BY SMTT(40) DEF Inv, ReaderOK, WireOK, WriterOK, Readers
<1>3. PICK n \in 1 .. Min({HeaderLen - Len(rx.header), Len(wire)}) :
         LET header == rx.header \o SubSeq(wire, 1, n)
         IN  /\ wire' = SubSeq(wire, n + 1, Len(wire))
             /\ IF Len(header) < HeaderLen
                THEN rx' = [rx EXCEPT !.header = header]
                ELSE \E l \in LengthsOf(header) :
                       rx' = [rx EXCEPT !.header = header, !.length = l]
  BY DEF ReadHeader
<1> DEFINE most == HeaderLen - Len(rx.header)
           head == SubSeq(wire, 1, n)
           rest == SubSeq(wire, n + 1, Len(wire))
           header == rx.header \o head
<1>4. n \in 1 .. Len(wire) /\ Len(rx.header) + n <= HeaderLen
  <2>1. most \in Int /\ Len(wire) \in Int
    BY <1>2
  <2>2. n \in 1 .. Min({most, Len(wire)})
    OBVIOUS
  <2> HIDE DEF most
  <2>3. Min({most, Len(wire)}) \in Int /\ Min({most, Len(wire)}) <= most
        /\ Min({most, Len(wire)}) <= Len(wire)
    BY <2>1, MinPair, Zenon
  <2>4. n \in Int /\ 1 <= n /\ n <= most /\ n <= Len(wire)
    BY <2>1, <2>2, <2>3
  <2> QED
    BY <1>2, <2>4 DEF most
<1>5. /\ head \in Seq(Byte) /\ Len(head) = n /\ Elements(head) \subseteq Elements(wire)
      /\ rest \in Seq(Byte) /\ Len(rest) \in Nat /\ Len(rest) <= Len(wire)
      /\ Elements(rest) \subseteq Elements(wire)
  BY <1>2, <1>4, ElementsSubSeq
<1>6. /\ wire' = rest
      /\ \/ Len(header) < HeaderLen /\ rx' = [rx EXCEPT !.header = header]
         \/ /\ ~ (Len(header) < HeaderLen)
            /\ \E l \in LengthsOf(header) : rx' = [rx EXCEPT !.header = header, !.length = l]
  BY <1>3
<1> HIDE DEF head, rest
<1>7. /\ header \in Seq(Byte) /\ Len(header) = Len(rx.header) + n
      /\ Elements(header) = Elements(rx.header) \cup Elements(head)
  <2>1. rx.header \in Seq(Byte) /\ head \in Seq(Byte)
    BY <1>2, <1>5
  <2>2. Elements(rx.header \o head) = Elements(rx.header) \cup Elements(head)
    <3>1. rx.header \in Seq(Byte) /\ head \in Seq(Byte)
      BY <2>1
    <3>2. Joins(rx.header, head)
      BY <3>1, BytesJoin
    <3> QED
      BY <3>2 DEF Joins
  <2> QED
    BY <1>5, <2>1, <2>2, SMTT(40)
<1> HIDE DEF header
<1>8. ASSUME NEW l \in LengthsOf(header) PROVE l \in 0 .. TooLong
  <2>1. \A k \in DOMAIN log : log[k].len \in 1 .. MaxChunk
    <3>1. \A k \in DOMAIN log : log[k] \in Records
      BY DEF Inv, WriterOK
    <3> QED
      BY <3>1 DEF Records
  <2>2. CASE \E k \in DOMAIN log : IsHeader(header, k)
    BY <2>1, <2>2 DEF LengthsOf
  <2>3. CASE ~ \E k \in DOMAIN log : IsHeader(header, k)
    BY <2>3 DEF LengthsOf
  <2> QED
    BY <2>2, <2>3
<1>9. /\ rx' \in Readers /\ rx'.header = header /\ rx'.payload = rx.payload
      /\ rx'.gen = rx.gen /\ rx'.seq = rx.seq /\ rx'.app = rx.app /\ rx'.state = rx.state
      /\ rx'.length = NoLength <=> Len(header) < HeaderLen
  <2>1. CASE Len(header) < HeaderLen /\ rx' = [rx EXCEPT !.header = header]
    BY <1>1, <1>2, <1>7, <2>1 DEF Readers
  <2>2. ASSUME NEW l \in LengthsOf(header), ~ (Len(header) < HeaderLen),
               rx' = [rx EXCEPT !.header = header, !.length = l]
        PROVE  /\ rx' \in Readers /\ rx'.header = header /\ rx'.payload = rx.payload
               /\ rx'.gen = rx.gen /\ rx'.seq = rx.seq /\ rx'.app = rx.app /\ rx'.state = rx.state
               /\ rx'.length = NoLength <=> Len(header) < HeaderLen
    <3>1. l \in NoLength .. TooLong /\ l # NoLength
      BY <1>8
    <3>2. rx' \in Readers
      BY <1>2, <1>7, <2>2, <3>1 DEF Readers
    <3> QED
      BY <1>2, <2>2, <3>1, <3>2 DEF Readers
  <2> QED
    BY <1>6, <2>1, <2>2
<1>10. WireOK' /\ ReaderOK'
  <2>1. WireOK'
    <3>1. rest \in Seq(Byte) /\ Len(rest) <= WireCapacity
      BY <1>2, <1>5
    <3>2. wire' = rest
      BY <1>6
    <3> QED
      BY <3>1, <3>2 DEF WireOK
  <2> QED
    BY <1>1, <1>4, <1>7, <1>9, <2>1 DEF Inv, ReaderOK, Readers
<1>11. Pipe' \subseteq Pipe
  BY <1>1, <1>5, <1>6, <1>7, <1>9 DEF Pipe
<1> QED
  BY <1>1, <1>2, <1>9, <1>10, <1>11, ReadKeeps


LEMMA ReadPayloadInv ==
    ASSUME Inv, ReadPayload
    PROVE  Inv'
<1> USE DEF NoLength, TooLong
<1>1. /\ rx.length \in 0 .. MaxChunk
      /\ UNCHANGED <<tx, log, sent, got, fault>>
  BY DEF ReadPayload
<1>2. /\ rx \in Readers /\ rx.payload \in Seq(Byte) /\ Len(rx.payload) \in Nat
      /\ wire \in Seq(Byte) /\ Len(wire) \in Nat /\ Len(wire) <= WireCapacity
      /\ fault \in BOOLEAN
  BY SMTT(40) DEF Inv, ReaderOK, WireOK, WriterOK, Readers
<1>3. PICK n \in 0 .. Min({rx.length - Len(rx.payload), Len(wire)}) :
         /\ rx' = [rx EXCEPT !.payload = @ \o SubSeq(wire, 1, n), !.allocated = TRUE]
         /\ wire' = SubSeq(wire, n + 1, Len(wire))
  BY DEF ReadPayload
<1> DEFINE most == rx.length - Len(rx.payload)
           head == SubSeq(wire, 1, n)
           rest == SubSeq(wire, n + 1, Len(wire))
           payload == rx.payload \o head
<1>4. n \in 0 .. Len(wire) /\ Len(rx.payload) + n <= MaxChunk
  <2>1. most \in Int /\ Len(wire) \in Int
    BY <1>1, <1>2
  <2>2. n \in 0 .. Min({most, Len(wire)})
    OBVIOUS
  <2> HIDE DEF most
  <2>3. Min({most, Len(wire)}) \in Int /\ Min({most, Len(wire)}) <= most
        /\ Min({most, Len(wire)}) <= Len(wire)
    BY <2>1, MinPair, Zenon
  <2>4. n \in Int /\ 0 <= n /\ n <= most /\ n <= Len(wire)
    BY <2>1, <2>2, <2>3
  <2> QED
    BY <1>1, <1>2, <2>4 DEF most
<1>5. /\ head \in Seq(Byte) /\ Len(head) = n /\ Elements(head) \subseteq Elements(wire)
      /\ rest \in Seq(Byte) /\ Len(rest) \in Nat /\ Len(rest) <= Len(wire)
      /\ Elements(rest) \subseteq Elements(wire)
  BY <1>2, <1>4, ElementsSubSeq
<1>6. wire' = rest /\ rx' = [rx EXCEPT !.payload = payload, !.allocated = TRUE]
  BY <1>3
<1> HIDE DEF head, rest
<1>7. /\ payload \in Seq(Byte) /\ Len(payload) = Len(rx.payload) + n
      /\ Elements(payload) = Elements(rx.payload) \cup Elements(head)
  <2>1. rx.payload \in Seq(Byte) /\ head \in Seq(Byte)
    BY <1>2, <1>5
  <2>2. Elements(rx.payload \o head) = Elements(rx.payload) \cup Elements(head)
    <3>1. rx.payload \in Seq(Byte) /\ head \in Seq(Byte)
      BY <2>1
    <3>2. Joins(rx.payload, head)
      BY <3>1, BytesJoin
    <3> QED
      BY <3>2 DEF Joins
  <2> QED
    BY <1>5, <2>1, <2>2, SMTT(40)
<1> HIDE DEF payload
<1>8. /\ rx' \in Readers /\ rx'.header = rx.header /\ rx'.payload = payload
      /\ rx'.gen = rx.gen /\ rx'.seq = rx.seq /\ rx'.app = rx.app /\ rx'.state = rx.state
      /\ rx'.length = rx.length
  BY <1>2, <1>6, <1>7 DEF Readers
<1>9. WireOK'
  <2>1. rest \in Seq(Byte) /\ Len(rest) <= WireCapacity
    BY <1>2, <1>5
  <2> QED
    BY <1>6, <2>1 DEF WireOK
<1>10. ReaderOK'
  BY <1>1, <1>4, <1>7, <1>8 DEF Inv, ReaderOK, Readers
<1>11. Pipe' \subseteq Pipe
  BY <1>1, <1>5, <1>6, <1>7, <1>8 DEF Pipe
<1>12. rx.app # << >> => rx'.header = << >>
  BY <1>8 DEF Inv, ReaderInv, InOrder
<1> QED
  BY <1>1, <1>2, <1>8, <1>9, <1>10, <1>11, <1>12, ReadKeeps

(* Units that follow what was handed out before: the first n go to the      *)
(* application, the rest is kept.                                           *)
Following(a, n) == [i \in 1 .. n |-> a + i]

Handed(g, u, n, h, rest) ==
    /\ h \in Seq(Nat) /\ Len(h) = Len(g) + n
    /\ \A i \in 1 .. Len(h) : h[i] = i
    /\ h = g \o Following(Len(g), n)
    /\ rest \in Seq(Nat) /\ Len(rest) = Len(u) - n
    /\ \A i \in 1 .. Len(rest) : rest[i] = Len(h) + i

LEMMA HandOut ==
    ASSUME NEW g \in Seq(Nat), \A i \in 1 .. Len(g) : g[i] = i,
           NEW u \in Seq(Nat), \A i \in 1 .. Len(u) : u[i] = Len(g) + i,
           NEW n \in 1 .. Len(u),
           NEW h, h = g \o SubSeq(u, 1, n),
           NEW rest, rest = SubSeq(u, n + 1, Len(u))
    PROVE  Handed(g, u, n, h, rest)
<1> DEFINE head == SubSeq(u, 1, n)
           fresh == Following(Len(g), n)
<1>0. Len(u) \in Nat /\ Len(g) \in Nat /\ n \in Nat /\ n <= Len(u)
  OBVIOUS
<1>1. /\ head \in Seq(Nat) /\ Len(head) = n /\ \A i \in 1 .. n : head[i] = Len(g) + i
  <2>1. /\ head \in Seq(Nat) /\ Len(head) = n
        /\ \A i \in 1 .. Len(head) : head[i] = u[1 + i - 1]
    BY <1>0, ElementsSubSeq
  <2> QED
    BY <1>0, <2>1
<1>2. /\ rest \in Seq(Nat) /\ Len(rest) = Len(u) - n
      /\ \A i \in 1 .. Len(rest) : rest[i] = Len(g) + n + i
  <2>1. /\ rest \in Seq(Nat) /\ Len(rest) = Len(u) - n
        /\ \A i \in 1 .. Len(rest) : rest[i] = u[n + 1 + i - 1]
    BY <1>0, ElementsSubSeq, SMTT(40)
  <2>2. ASSUME NEW i \in 1 .. Len(rest) PROVE rest[i] = Len(g) + n + i
    <3>1. n + 1 + i - 1 = n + i /\ n + i \in 1 .. Len(u)
      BY <1>0, <2>1
    <3>2. rest[i] = u[n + i]
      BY <2>1, <3>1
    <3>3. u[n + i] = Len(g) + (n + i)
      BY <3>1
    <3> QED
      BY <1>0, <3>2, <3>3
  <2> QED
    BY <2>1, <2>2
<1>3. head = fresh
  <2>1. fresh \in Seq(Nat) /\ Len(fresh) = n /\ \A i \in 1 .. n : fresh[i] = Len(g) + i
    BY <1>0 DEF Following
  <2> HIDE DEF head, fresh
  <2> QED
    BY <1>1, <2>1, SeqEqual
<1>h. h = g \o head
  OBVIOUS
<1> HIDE DEF head
<1>4. h \in Seq(Nat) /\ Len(h) = Len(g) + n /\ \A i \in 1 .. Len(h) : h[i] = i
  <2>1. /\ h \in Seq(Nat) /\ Len(h) = Len(g) + n
        /\ \A i \in 1 .. Len(g) + n : h[i] = IF i <= Len(g) THEN g[i] ELSE head[i - Len(g)]
    <3>1. head \in Seq(Nat)
      BY <1>1
    <3>a. /\ g \o head \in Seq(Nat) /\ Len(g \o head) = Len(g) + Len(head)
          /\ \A i \in 1 .. Len(g) + Len(head) :
                (g \o head)[i] = IF i <= Len(g) THEN g[i] ELSE head[i - Len(g)]
      BY <3>1, ConcatProperties, Zenon
    <3>2. /\ h \in Seq(Nat) /\ Len(h) = Len(g) + Len(head)
          /\ \A i \in 1 .. Len(g) + Len(head) :
                h[i] = IF i <= Len(g) THEN g[i] ELSE head[i - Len(g)]
      BY <1>h, <3>a
    <3> QED
      BY <1>1, <3>2, Zenon
  <2>2. ASSUME NEW i \in 1 .. Len(g) + n PROVE h[i] = i
    <3>1. CASE i <= Len(g)
      <4>1. i \in 1 .. Len(g)
        BY <1>0, <3>1
      <4>2. h[i] = g[i]
        BY <2>1, <3>1
      <4> QED
        BY <4>1, <4>2
    <3>2. CASE ~ (i <= Len(g))
      <4>1. i - Len(g) \in 1 .. n
        BY <1>0, <3>2
      <4> QED
        BY <1>0, <1>1, <2>1, <3>2, <4>1
    <3> QED
      BY <3>1, <3>2
  <2> QED
    BY <2>1, <2>2
<1> QED
  BY <1>0, <1>2, <1>3, <1>4, <1>h DEF Handed


LEMMA ReadMoves ==
    ASSUME Inv, UNCHANGED <<tx, log, sent>>, fault' \in BOOLEAN, WireOK', ReaderOK',
           Pipe' \subseteq Pipe, ReaderInv'
    PROVE  Inv'
<1>1. WriterOK'
  BY DEF Inv, WriterOK
<1>2. WriterInv'
  BY WriterKept DEF Inv
<1>3. PipeIsSealed' /\ RefusedIsTorn'
  BY DEF Inv, PipeIsSealed, RefusedIsTorn, LastByte
<1> QED
  BY <1>1, <1>2, <1>3 DEF Inv

LEMMA TakePendingAppDataInv ==
    ASSUME Inv, TakePendingAppData
    PROVE  Inv' /\ \E n \in 1 .. Len(rx.app) : got' = got \o Following(Len(got), n)
<1>1. PICK n \in 1 .. Len(rx.app) :
         /\ got' = got \o SubSeq(rx.app, 1, n)
         /\ rx' = [rx EXCEPT !.app = SubSeq(rx.app, n + 1, Len(rx.app))]
  BY DEF TakePendingAppData
<1>2. rx.state = "connected" /\ UNCHANGED <<tx, wire, log, sent, fault>>
  BY DEF TakePendingAppData
<1>3. /\ rx \in Readers /\ rx.app \in Seq(Nat) /\ got \in Seq(Nat) /\ fault \in BOOLEAN
      /\ Len(rx.app) <= MaxChunk /\ Len(rx.app) \in Nat /\ Len(got) \in Nat
  BY DEF Inv, ReaderOK, WriterOK, Readers
<1>4. /\ \A i \in 1 .. Len(got) : got[i] = i
      /\ \A i \in 1 .. Len(rx.app) : rx.app[i] = Len(got) + i
  BY DEF Inv, ReaderInv, InOrder
<1> DEFINE rest == SubSeq(rx.app, n + 1, Len(rx.app))
<1>5. /\ got' \in Seq(Nat) /\ Len(got') = Len(got) + n
      /\ \A i \in 1 .. Len(got') : got'[i] = i
      /\ got' = got \o Following(Len(got), n)
      /\ rest \in Seq(Nat) /\ Len(rest) = Len(rx.app) - n
      /\ \A i \in 1 .. Len(rest) : rest[i] = Len(got') + i
  <2>1. rest = SubSeq(rx.app, n + 1, Len(rx.app)) /\ got' = got \o SubSeq(rx.app, 1, n)
    BY <1>1
  <2> HIDE DEF rest
  <2>2. n \in 1 .. Len(rx.app) /\ rx.app \in Seq(Nat) /\ got \in Seq(Nat)
    BY <1>3
  <2>3. Handed(got, rx.app, n, got', rest)
    BY <1>4, <2>1, <2>2, HandOut
  <2> QED
    BY <2>3 DEF Handed
<1> HIDE DEF rest
<1>6. rx' = [rx EXCEPT !.app = rest]
  BY <1>1 DEF rest
<1>7. /\ rx' \in Readers /\ rx'.app = rest
      /\ rx'.gen = rx.gen /\ rx'.seq = rx.seq /\ rx'.state = rx.state
      /\ rx'.header = rx.header /\ rx'.payload = rx.payload /\ rx'.length = rx.length
  BY <1>3, <1>5, <1>6 DEF Readers
<1>8. WireOK' /\ Pipe' = Pipe
  BY <1>2, <1>7 DEF Inv, WireOK, Pipe
<1>9. ReaderOK'
  <2>1. Len(rx'.app) <= MaxChunk
    BY <1>3, <1>5, <1>7
  <2> QED
    BY <1>5, <1>7, <2>1 DEF Inv, ReaderOK, Readers
<1>10. ReaderPlaced'
  <2>1. PICK p \in 1 .. Len(log) + 1 : ReaderAt(p)
    BY <1>2 DEF Inv, ReaderInv, ReaderPlaced
  <2>2. Cursor(p)' = Cursor(p)
    BY <1>2 DEF Cursor
  <2>3. Len(got') + Len(rx'.app) = Len(got) + Len(rx.app)
    <3>1. Len(rx'.app) = Len(rx.app) - n /\ Len(got') = Len(got) + n
      BY <1>5, <1>7
    <3>2. \A a, b, c \in Nat : (b + c) + (a - c) = b + a
      OBVIOUS
    <3>3. n \in Nat /\ Len(rx.app) \in Nat /\ Len(got) \in Nat
      BY <1>3
    <3>4. (Len(got) + n) + (Len(rx.app) - n) = Len(got) + Len(rx.app)
      BY <3>2, <3>3
    <3> QED
      BY <3>1, <3>4
  <2>4. ReaderAt(p)'
    BY <1>2, <1>7, <2>1, <2>2, <2>3 DEF ReaderAt
  <2> QED
    BY <1>2, <2>4 DEF ReaderPlaced
<1>11. InOrder'
  <2>1. rx.app # << >> /\ rx.header = << >>
    BY <1>3 DEF Inv, ReaderInv, InOrder
  <2> QED
    BY <1>5, <1>7, <2>1 DEF InOrder
<1>12. EndIsTheEnd'
  BY <1>2, <1>7 DEF EndIsTheEnd
<1>13. Inv'
  BY <1>2, <1>3, <1>8, <1>9, <1>10, <1>11, <1>12, ReadMoves DEF ReaderInv
<1> QED
  BY <1>5, <1>13

(* A record that opens was never refused, and it is the one in the reader's *)
(* place: only that one has its number.                                     *)
LEMMA OpenedPlace ==
    ASSUME Inv, RecordRead, NEW k \in DOMAIN log, Opens(k)
    PROVE  /\ log[k].ok /\ log[k].type # "alert" /\ rx.app = << >>
           /\ log[k].at = Len(got) /\ log[k].gen = rx.gen /\ log[k].seq = rx.seq
           /\ k \in 1 .. Len(log) /\ Cursor(k + 1) = After(log[k])
<1>1. /\ rx.state = "connected" /\ rx.length \in 0 .. MaxChunk
      /\ rx.header \o rx.payload = Bytes(k, log[k])
      /\ log[k].type # "alert" /\ log[k].gen = rx.gen /\ log[k].seq = rx.seq
  BY DEF RecordRead, Opens, IsRecord
<1>2. /\ log[k] \in Records /\ k \in 1 .. Len(log) /\ Len(log) \in Nat /\ k \in 1 .. MaxSeals
  BY DEF Inv, WriterOK
<1>3. log[k].len \in 1 .. MaxChunk /\ log[k].gen \in Nat /\ log[k].seq \in Nat
  BY <1>2 DEF Records
<1>4. rx.header \in Seq(Byte) /\ rx.payload \in Seq(Byte) /\ Len(got) \in Nat
  BY DEF Inv, ReaderOK
<1>5. rx.app = << >>
  <2>1. ~ (Len(rx.header) < HeaderLen)
    BY <1>1 DEF Inv, ReaderOK, NoLength
  <2>2. rx.header # << >>
    BY <2>1
  <2> QED
    BY <2>2 DEF Inv, ReaderInv, InOrder
<1>6. log[k].ok
  <2> DEFINE bytes == Bytes(k, log[k])
             m == HeaderLen + log[k].len
  <2>1. Len(bytes) = m /\ bytes[m] = LastByte(k) /\ m \in 1 .. Len(bytes)
    <3>1. /\ Len(bytes) = m /\ \A i \in 1 .. m : bytes[i] = <<k, i>>
      BY <1>2, <1>3, BytesOK
    <3>2. m \in 1 .. m
      BY <1>3
    <3> QED
      BY <3>1, <3>2 DEF LastByte
  <2>2. LastByte(k) \in Elements(bytes)
    BY <2>1 DEF Elements
  <2>3. Elements(bytes) = Elements(rx.header) \cup Elements(rx.payload)
    <3>1. Elements(rx.header \o rx.payload) = Elements(rx.header) \cup Elements(rx.payload)
      <4>1. rx.header \in Seq(Byte) /\ rx.payload \in Seq(Byte)
        BY <1>4
      <4>2. Joins(rx.header, rx.payload)
        BY <4>1, BytesJoin
      <4> QED
        BY <4>2 DEF Joins
    <3> QED
      BY <1>1, <3>1
  <2>4. LastByte(k) \in Pipe
    BY <2>2, <2>3 DEF Pipe
  <2> QED
    BY <2>4 DEF Inv, RefusedIsTorn
<1>7. PICK p \in 1 .. Len(log) + 1 : ReaderAt(p)
  BY <1>1 DEF Inv, ReaderInv, ReaderPlaced
<1>8. /\ Cursor(p).gen = rx.gen /\ Cursor(p).seq = rx.seq
      /\ Cursor(p).at = Len(got) + Len(rx.app)
  BY <1>7 DEF ReaderAt
<1>9. p = k
  <2>1. CASE p <= Len(log) /\ log[p].type # "alert"
    <3>1. p \in DOMAIN log
      BY <1>2, <2>1 DEF Inv, WriterOK
    <3>2. log[p].gen = rx.gen /\ log[p].seq = rx.seq
      BY <1>8, <2>1 DEF Cursor
    <3> QED
      BY <1>1, <2>1, <3>1, <3>2 DEF Inv, WriterInv, NonceUnique
  <2>2. CASE ~ (p <= Len(log) /\ log[p].type # "alert")
    <3>1. tx.gen = rx.gen /\ tx.seq = rx.seq
      BY <1>8, <2>2 DEF Cursor
    <3>2. \/ log[k].gen < tx.gen
          \/ log[k].gen = tx.gen /\ log[k].seq < tx.seq
      BY <1>1 DEF Inv, WriterInv, NumbersBelow
    <3> QED
      BY <1>1, <1>3, <3>1, <3>2
  <2> QED
    BY <2>1, <2>2
<1>10. log[k].at = Len(got)
  <2>1. Cursor(k).at = log[k].at
    BY <1>1, <1>2 DEF Cursor
  <2>2. Len(rx.app) = 0
    BY <1>5
  <2> QED
    BY <1>4, <1>8, <1>9, <2>1, <2>2
<1>11. Cursor(k + 1) = After(log[k])
  BY <1>1 DEF Inv, WriterInv, Consecutive
<1> QED
  BY <1>1, <1>2, <1>5, <1>6, <1>10, <1>11


LEMMA OpenedType ==
    ASSUME Inv
    PROVE  /\ Opened \in Readers
           /\ Opened.header = << >> /\ Opened.payload = << >> /\ Opened.length = NoLength
           /\ Opened.gen = rx.gen /\ Opened.seq = rx.seq + 1
           /\ Opened.app = rx.app /\ Opened.state = rx.state /\ Opened.postHs = rx.postHs
<1> DEFINE r == ResetRx(rx)
<1>1. rx \in Readers
  BY DEF Inv, ReaderOK, Readers
<1>2. /\ r \in Readers /\ r.header = << >> /\ r.payload = << >>
      /\ r.length = NoLength /\ r.gen = rx.gen /\ r.seq = rx.seq
      /\ r.app = rx.app /\ r.state = rx.state /\ r.postHs = rx.postHs
  BY <1>1, ResetType
<1>3. Opened = [r EXCEPT !.seq = r.seq + 1]
  BY DEF Opened
<1> HIDE DEF r
<1>4. r.seq + 1 \in Nat
  BY <1>2 DEF Readers
<1> QED
  BY <1>2, <1>3, <1>4 DEF Readers

(* A record was opened: the next one starts from nothing read.              *)
LEMMA OpenedReader ==
    ASSUME Inv, UNCHANGED <<tx, wire, log, sent>>, fault' \in BOOLEAN,
           rx' \in Readers, rx'.header = << >>, rx'.payload = << >>, rx'.length = NoLength,
           Len(rx'.app) <= MaxChunk, got' \in Seq(Nat), ReaderInv'
    PROVE  Inv'
<1>1. Pipe' \subseteq Pipe
  BY DEF Pipe, Elements
<1>2. WireOK' /\ ReaderOK'
  <2>1. Len(rx'.header) = 0 /\ Len(rx'.payload) = 0
    OBVIOUS
  <2> QED
    BY <2>1 DEF Inv, WireOK, ReaderOK, Readers
<1> QED
  BY <1>1, <1>2, ReadMoves

LEMMA CursorKept ==
    ASSUME UNCHANGED <<tx, log, sent>>, NEW p
    PROVE  Cursor(p)' = Cursor(p)
  BY DEF Cursor

LEMMA ReceiveDataInv ==
    ASSUME Inv, RecordRead, NEW k \in DOMAIN log, ReceiveData(k),
           UNCHANGED <<tx, wire, log, sent>>
    PROVE  Inv' /\ \E n \in 1 .. log[k].len : got' = got \o Following(Len(got), n)
<1> DEFINE units == log[k].units
<1>1. /\ log[k].ok /\ rx.app = << >>
      /\ log[k].at = Len(got) /\ log[k].gen = rx.gen /\ log[k].seq = rx.seq
      /\ k \in 1 .. Len(log) /\ Cursor(k + 1) = After(log[k])
  BY OpenedPlace DEF ReceiveData
<1>2. /\ log[k].type = "data" /\ fault' = fault /\ fault \in BOOLEAN /\ rx.state = "connected"
  BY DEF ReceiveData, RecordRead, Inv, WriterOK
<1>3. /\ log[k] \in Records /\ Len(log) \in Nat /\ got \in Seq(Nat) /\ Len(got) \in Nat
  BY <1>1, SMTT(40) DEF Inv, WriterOK, ReaderOK
<1>4. units \in Seq(Nat) /\ log[k].len \in 1 .. MaxChunk
  BY <1>3 DEF Records
<1>5. /\ Len(units) = log[k].len /\ \A i \in 1 .. Len(units) : units[i] = Len(got) + i
  <2>1. /\ Len(units) = log[k].len
        /\ \A i \in 1 .. log[k].len : units[i] = log[k].at + i
    BY <1>2 DEF Inv, WriterInv, UnitsFollow
  <2> QED
    BY <1>1, <2>1
<1>6. PICK n \in 1 .. Len(units) :
         /\ got' = got \o SubSeq(units, 1, n)
         /\ rx' = [Opened EXCEPT !.app = SubSeq(units, n + 1, Len(units)), !.postHs = 0]
  BY DEF ReceiveData
<1> DEFINE rest == SubSeq(units, n + 1, Len(units))
<1>7. Handed(got, units, n, got', rest)
  <2>1. rest = SubSeq(units, n + 1, Len(units)) /\ n \in 1 .. Len(units)
    OBVIOUS
  <2>2. \A i \in 1 .. Len(got) : got[i] = i
    BY DEF Inv, ReaderInv, InOrder
  <2> HIDE DEF units, rest
  <2> QED
    BY <1>3, <1>4, <1>5, <1>6, <2>1, <2>2, HandOut
<1>8. rx' = [Opened EXCEPT !.app = rest, !.postHs = 0]
  BY <1>6
<1> HIDE DEF units, rest
<1>9. /\ got' \in Seq(Nat) /\ Len(got') = Len(got) + n
      /\ \A i \in 1 .. Len(got') : got'[i] = i
      /\ got' = got \o Following(Len(got), n)
      /\ rest \in Seq(Nat) /\ Len(rest) = Len(units) - n
      /\ \A i \in 1 .. Len(rest) : rest[i] = Len(got') + i
  BY <1>7 DEF Handed
<1>10. /\ rx' \in Readers /\ rx'.header = << >> /\ rx'.payload = << >> /\ rx'.length = NoLength
       /\ rx'.app = rest /\ rx'.gen = rx.gen /\ rx'.seq = rx.seq + 1 /\ rx'.state = "connected"
  BY <1>2, <1>8, <1>9, OpenedType DEF Readers
<1>11. n \in Nat /\ Len(units) \in Nat /\ Len(units) <= MaxChunk
  BY <1>4, <1>5
<1>12. Len(rx'.app) <= MaxChunk
  <2>1. Len(rest) <= MaxChunk
    BY <1>9, <1>11
  <2> QED
    BY <1>10, <2>1
<1>13. ReaderInv'
  <2>1. Cursor(k + 1)' = After(log[k])
    BY <1>1, CursorKept
  <2>2. Len(got') + Len(rx'.app) = log[k].at + log[k].len
    <3>1. \A a, b, c \in Nat : (b + c) + (a - c) = b + a
      OBVIOUS
    <3>2. (Len(got) + n) + (Len(units) - n) = Len(got) + Len(units)
      BY <1>3, <1>11, <3>1
    <3> QED
      BY <1>1, <1>5, <1>9, <1>10, <3>2
  <2>3. After(log[k]) = [gen |-> rx.gen, seq |-> rx.seq + 1, at |-> log[k].at + log[k].len]
    BY <1>1, <1>2 DEF After
  <2>4. ReaderAt(k + 1)' /\ k + 1 \in 1 .. Len(log') + 1
    BY <1>1, <1>3, <1>10, <2>1, <2>2, <2>3 DEF ReaderAt
  <2>5. ReaderPlaced'
    BY <2>4 DEF ReaderPlaced
  <2> QED
    BY <1>9, <1>10, <2>5 DEF ReaderInv, InOrder, EndIsTheEnd
<1> QED
  BY <1>2, <1>5, <1>9, <1>10, <1>12, <1>13, OpenedReader

LEMMA ReceiveKeyUpdateInv ==
    ASSUME Inv, RecordRead, NEW k \in DOMAIN log, ReceiveKeyUpdate(k),
           UNCHANGED <<tx, wire, log, sent>>
    PROVE  Inv'
<1>1. /\ log[k].ok /\ rx.app = << >>
      /\ log[k].at = Len(got) /\ log[k].gen = rx.gen /\ log[k].seq = rx.seq
      /\ k \in 1 .. Len(log) /\ Cursor(k + 1) = After(log[k])
  BY OpenedPlace DEF ReceiveKeyUpdate
<1>2. /\ log[k].type = "key_update" /\ got' = got /\ fault \in BOOLEAN /\ rx.state = "connected"
      /\ rx \in Readers /\ got \in Seq(Nat) /\ Len(got) \in Nat /\ Len(log) \in Nat
  BY SMTT(40) DEF ReceiveKeyUpdate, RecordRead, Inv, WriterOK, ReaderOK, Readers
<1>3. fault' \in BOOLEAN
  BY <1>2 DEF ReceiveKeyUpdate
<1>4. /\ rx' \in Readers /\ rx'.header = << >> /\ rx'.payload = << >> /\ rx'.length = NoLength
      /\ rx'.app = << >>
      /\ \/ rx'.gen = rx.gen + 1 /\ rx'.seq = 0 /\ rx'.state = "connected"
         \/ rx'.state = "closed"
  <2>1. \/ rx' = [Opened EXCEPT !.gen = @ + 1, !.seq = 0, !.postHs = @ + 1]
        \/ rx' = [Opened EXCEPT !.state = "closed"]
    BY DEF ReceiveKeyUpdate
  <2>2. rx.gen + 1 \in Nat /\ rx.postHs + 1 \in Nat
    BY <1>2 DEF Readers
  <2>3. CASE rx' = [Opened EXCEPT !.gen = @ + 1, !.seq = 0, !.postHs = @ + 1]
    BY <1>1, <1>2, <2>2, <2>3, OpenedType DEF Readers
  <2>4. CASE rx' = [Opened EXCEPT !.state = "closed"]
    BY <1>1, <2>4, OpenedType DEF Readers
  <2> QED
    BY <2>1, <2>3, <2>4
<1>5. Len(rx'.app) = 0
  BY <1>4
<1>6. ReaderPlaced'
  <2> SUFFICES ASSUME rx'.state = "connected" PROVE ReaderPlaced'
    BY DEF ReaderPlaced
  <2>1. Cursor(k + 1)' = After(log[k])
    BY <1>1, CursorKept
  <2>2. After(log[k]) = [gen |-> rx.gen + 1, seq |-> 0, at |-> Len(got)]
    BY <1>1, <1>2 DEF After
  <2>3. Len(got') + Len(rx'.app) = Len(got)
    BY <1>2, <1>5
  <2>4. ReaderAt(k + 1)' /\ k + 1 \in 1 .. Len(log') + 1
    BY <1>1, <1>2, <1>4, <2>1, <2>2, <2>3 DEF ReaderAt
  <2> QED
    BY <2>4 DEF ReaderPlaced
<1>7. ReaderInv'
  BY <1>2, <1>4, <1>5, <1>6 DEF Inv, ReaderInv, InOrder, EndIsTheEnd
<1> QED
  BY <1>2, <1>3, <1>4, <1>5, <1>7, OpenedReader

LEMMA ReceiveCloseNotifyInv ==
    ASSUME Inv, RecordRead, NEW k \in DOMAIN log, ReceiveCloseNotify(k),
           UNCHANGED <<tx, wire, log, sent>>
    PROVE  Inv' /\ rx'.state = "closing" /\ Len(got) = sent
<1>1. /\ log[k].ok /\ rx.app = << >>
      /\ log[k].at = Len(got) /\ log[k].gen = rx.gen /\ log[k].seq = rx.seq
      /\ k \in 1 .. Len(log) /\ Cursor(k + 1) = After(log[k])
  BY OpenedPlace DEF ReceiveCloseNotify
<1>2. /\ log[k].type = "close_notify" /\ got' = got /\ fault' = fault /\ fault \in BOOLEAN
      /\ got \in Seq(Nat) /\ Len(got) \in Nat /\ Len(log) \in Nat
  BY SMTT(40) DEF ReceiveCloseNotify, Inv, WriterOK, ReaderOK
<1>3. /\ rx' \in Readers /\ rx'.header = << >> /\ rx'.payload = << >> /\ rx'.length = NoLength
      /\ rx'.app = << >> /\ rx'.state = "closing"
  BY <1>1, OpenedType DEF ReceiveCloseNotify, Readers
<1>4. Len(rx'.app) = 0
  BY <1>3
<1>5. tx.state = "closed" /\ (k < Len(log) => log[k + 1].type = "alert")
  BY <1>2 DEF Inv, WriterInv, ClosedIsLast
<1>6. Cursor(k + 1).at = sent
  BY <1>1, <1>2, <1>5 DEF Cursor
<1>7. After(log[k]).at = Len(got)
  BY <1>1, <1>2 DEF After
<1>8. ReaderInv'
  BY <1>1, <1>2, <1>3, <1>4, <1>5, <1>6, <1>7
     DEF Inv, ReaderInv, ReaderPlaced, InOrder, EndIsTheEnd
<1> QED
  BY <1>1, <1>2, <1>3, <1>4, <1>6, <1>7, <1>8, OpenedReader


-----------------------------------------------------------------------------
LEMMA InitInv == Init => Inv
<1> SUFFICES ASSUME Init PROVE Inv
  OBVIOUS
<1>1. PICK l \in Limits : tx = [state |-> "connected", pending |-> << >>, limit |-> l,
                               gen |-> 0, seq |-> 0]
  BY DEF Init
<1>2. /\ wire = << >> /\ log = << >> /\ sent = 0 /\ got = << >> /\ fault = FALSE
      /\ rx = [state |-> "connected", gen |-> 0, seq |-> 0, header |-> << >>,
               length |-> NoLength, payload |-> << >>, allocated |-> FALSE,
               app |-> << >>, postHs |-> 0]
  BY DEF Init
<1>3. WriterOK /\ WireOK
  <2>1. tx \in Writers /\ Len(tx.pending) <= tx.limit
    BY <1>1 DEF Writers
  <2>2. /\ log \in Seq(Records) /\ Len(log) <= MaxSeals /\ sent \in Nat /\ fault \in BOOLEAN
        /\ wire \in Seq(Byte) /\ Len(wire) <= WireCapacity
    <3>1. log = << >> /\ wire = << >> /\ sent = 0 /\ fault = FALSE
      BY <1>2
    <3>2. Len(log) = 0 /\ Len(wire) = 0
      BY <3>1
    <3>3. log \in Seq(Records) /\ wire \in Seq(Byte)
      BY <3>1
    <3>4. fault \in BOOLEAN
      BY <3>1, Zenon
    <3>5. 0 <= MaxSeals /\ 0 <= WireCapacity
      OBVIOUS
    <3> QED
      BY <3>1, <3>2, <3>3, <3>4, <3>5
  <2> QED
    BY <2>1, <2>2 DEF WriterOK, WireOK
<1>4. ReaderOK
  <2>1. NoLength \in NoLength .. TooLong
    BY DEF NoLength, TooLong
  <2> QED
    BY <1>2, <2>1 DEF ReaderOK
<1>5. Cursor(1) = [gen |-> 0, seq |-> 0, at |-> 0] /\ Len(log) = 0
  BY <1>1, <1>2 DEF Cursor
<1>6. WriterInv
  BY <1>2, <1>5 DEF WriterInv, NonceUnique, UnitsFollow, ClosedIsLast, NumbersBelow,
                    AcceptedBelow, Consecutive
<1>7. PipeIsSealed /\ RefusedIsTorn
  <2>1. Pipe = {}
    BY <1>1, <1>2 DEF Pipe, Elements
  <2> QED
    BY <2>1 DEF PipeIsSealed, RefusedIsTorn
<1>8. ReaderInv
  <2>1. Len(got) + Len(rx.app) = 0
    BY <1>2
  <2>2. ReaderAt(1)
    BY <1>2, <1>5, <2>1 DEF ReaderAt
  <2> QED
    BY <1>2, <1>5, <2>2 DEF ReaderInv, ReaderPlaced, InOrder, EndIsTheEnd
<1> QED
  BY <1>3, <1>4, <1>6, <1>7, <1>8 DEF Inv

LEMMA NextInv == Inv /\ [Next]_vars => Inv'
<1> SUFFICES ASSUME Inv, [Next]_vars PROVE Inv'
  OBVIOUS
<1>1. CASE Flush
  BY <1>1, FlushInv
<1>2. ASSUME NEW l \in Limits, SetIoTxQueueLimit(l) PROVE Inv'
  BY <1>2, SetIoTxQueueLimitInv
<1>3. ASSUME NEW n \in 1 .. MaxChunk, SendData(n) PROVE Inv'
  BY <1>3, SendDataInv
<1>4. CASE SendKeyUpdate
  BY <1>4, SendKeyUpdateInv
<1>5. CASE Close
  BY <1>5, CloseInv
<1>6. CASE ReadHeader
  BY <1>6, ReadHeaderInv
<1>7. CASE ReadPayload
  BY <1>7, ReadPayloadInv
<1>8. CASE ReceiveRecord
  <2>1. RecordRead /\ UNCHANGED <<tx, wire, log, sent>>
    BY <1>8 DEF ReceiveRecord
  <2>2. ASSUME NEW k \in DOMAIN log, ReceiveData(k) PROVE Inv'
    BY <2>1, <2>2, ReceiveDataInv
  <2>3. ASSUME NEW k \in DOMAIN log, ReceiveKeyUpdate(k) PROVE Inv'
    BY <2>1, <2>3, ReceiveKeyUpdateInv
  <2>4. ASSUME NEW k \in DOMAIN log, ReceiveCloseNotify(k) PROVE Inv'
    BY <2>1, <2>4, ReceiveCloseNotifyInv
  <2>5. CASE ReceiveOther
    BY <2>1, <2>5, DropInv DEF ReceiveOther
  <2> QED
    BY <1>8, <2>2, <2>3, <2>4, <2>5 DEF ReceiveRecord
<1>9. CASE TakePendingAppData
  BY <1>9, TakePendingAppDataInv
<1>10. CASE RefuseLength
  BY <1>10, DropInv DEF RefuseLength
<1>11. CASE AllocationFails
  BY <1>11, DropInv DEF AllocationFails
<1>12. CASE UNCHANGED vars
  <2>1. UNCHANGED <<tx, wire, rx, log, sent, got, fault>>
    BY <1>12 DEF vars
  <2>2. WriterOK' /\ WireOK' /\ ReaderOK' /\ Pipe' = Pipe
    BY <2>1 DEF Inv, WriterOK, WireOK, ReaderOK, Pipe
  <2>3. fault' \in BOOLEAN /\ (rx.app # << >> => rx'.header = << >>)
    BY <2>1 DEF Inv, WriterOK, ReaderInv, InOrder
  <2> QED
    BY <2>1, <2>2, <2>3, ReadKeeps
<1> QED
  BY <1>1, <1>2, <1>3, <1>4, <1>5, <1>6, <1>7, <1>8, <1>9, <1>10, <1>11, <1>12 DEF Next, Read

(* However records are torn, refused, retried and delayed, the invariant    *)
(* that places the reader in the writer's log holds.                        *)
THEOREM InvHolds == Spec => []Inv
<1>1. Init => Inv
  BY InitInv
<1>2. Inv /\ [Next]_vars => Inv'
  BY NextInv
<1> QED
  BY <1>1, <1>2, PTL DEF Spec

(* tls_queue_pending_output keeps the queue within io_tx_queue_limit, also  *)
(* when a flush was partial or the limit was lowered, and what lies between *)
(* writer and reader is always bytes of sealed records.                     *)
THEOREM TypeCorrect == Spec => []TypeOK
<1>1. Inv => TypeOK
  BY DEF Inv, WriterOK, WireOK, ReaderOK, TypeOK, Writers
<1> QED
  BY <1>1, InvHolds, PTL

(* noxtls_tls13_encrypt_record never seals two records under one key and    *)
(* number, whatever the transport and the queue made of the earlier ones.   *)
THEOREM NoncesUnique == Spec => []NonceUnique
<1>1. Inv => NonceUnique
  BY DEF Inv, WriterInv
<1> QED
  BY <1>1, InvHolds, PTL


-----------------------------------------------------------------------------
(* The steps of ReliableStream.                                             *)
LEMMA CursorBelow ==
    ASSUME Inv, NEW p \in 1 .. Len(log) + 1
    PROVE  Cursor(p).at <= sent
<1>1. sent \in Nat /\ DOMAIN log = 1 .. Len(log) /\ Len(log) \in Nat
  BY DEF Inv, WriterOK
<1>2. CASE p <= Len(log) /\ log[p].type # "alert"
  BY <1>1, <1>2 DEF Inv, WriterInv, AcceptedBelow, Cursor
<1>3. CASE ~ (p <= Len(log) /\ log[p].type # "alert")
  BY <1>1, <1>3 DEF Cursor
<1> QED
  BY <1>2, <1>3

(* The applications see nothing, or a failure is reported.                  *)
LEMMA QuietOrBreak ==
    ASSUME UNCHANGED <<sent, got>>, (rx'.state = "closing") = (rx.state = "closing"),
           fault' = fault \/ fault' = TRUE
    PROVE  [Stream!Next]_(Stream!vars)
<1>1. CASE fault' = fault
  BY <1>1 DEF Stream!vars
<1>2. CASE fault' = TRUE
  BY <1>2 DEF Stream!Next, Stream!Break
<1> QED
  BY <1>1, <1>2

LEMMA Hands ==
    ASSUME Inv, UNCHANGED <<sent, fault>>, NEW n \in 1 .. MaxChunk,
           Len(got) + n <= sent, got' = got \o Following(Len(got), n),
           (rx'.state = "closing") = (rx.state = "closing")
    PROVE  [Stream!Next]_(Stream!vars)
  BY DEF Stream!Next, Stream!Receive, Following

LEMMA SendDataStream ==
    ASSUME Inv, NEW n \in 1 .. MaxChunk, SendData(n)
    PROVE  [Stream!Next]_(Stream!vars)
<1>1. PICK io : /\ sent' = IF io.ok THEN sent + n ELSE sent
                /\ fault' = (fault \/ ~io.ok)
  BY DEF SendData
<1>2. tx.state = "connected" /\ UNCHANGED <<rx, got>>
  BY DEF SendData
<1>3. rx.state # "closing" /\ fault \in BOOLEAN
  BY <1>2 DEF Inv, WriterOK, ReaderInv, EndIsTheEnd
<1>4. CASE io.ok
  <2>1. sent' = sent + n /\ fault' = fault
    BY <1>1, <1>3, <1>4
  <2> QED
    BY <1>2, <1>3, <2>1 DEF Stream!Next, Stream!Send
<1>5. CASE ~io.ok
  BY <1>1, <1>2, <1>5, QuietOrBreak
<1> QED
  BY <1>4, <1>5

LEMMA StepStream ==
    ASSUME Inv, [Next]_vars
    PROVE  [Stream!Next]_(Stream!vars)
<1>a. fault \in BOOLEAN /\ sent \in Nat /\ Len(got) \in Nat
  BY DEF Inv, WriterOK, ReaderOK
<1>1. CASE Flush \/ \E l \in Limits : SetIoTxQueueLimit(l)
  BY <1>1, QuietOrBreak DEF Flush, SetIoTxQueueLimit
<1>2. ASSUME NEW n \in 1 .. MaxChunk, SendData(n) PROVE [Stream!Next]_(Stream!vars)
  BY <1>2, SendDataStream
<1>3. CASE SendKeyUpdate
  <2>1. UNCHANGED <<rx, sent, got>> /\ \E b \in BOOLEAN : fault' = (fault \/ b)
    BY <1>3 DEF SendKeyUpdate
  <2> QED
    BY <1>a, <2>1, QuietOrBreak
<1>4. CASE Close
  <2>1. UNCHANGED <<rx, sent, got>> /\ \E b \in BOOLEAN : fault' = (fault \/ b)
    BY <1>4 DEF Close
  <2> QED
    BY <1>a, <2>1, QuietOrBreak
<1>5. CASE ReadHeader \/ ReadPayload
  <2>1. UNCHANGED <<sent, got, fault>>
    BY <1>5 DEF ReadHeader, ReadPayload
  <2>2. rx \in Readers
    BY DEF Inv, ReaderOK, Readers
  <2>3. rx'.state = rx.state
    <3>1. CASE ReadHeader
      BY <2>2, <3>1 DEF ReadHeader, Readers
    <3>2. CASE ReadPayload
      BY <2>2, <3>2 DEF ReadPayload, Readers
    <3> QED
      BY <1>5, <3>1, <3>2
  <2> QED
    BY <2>1, <2>3, QuietOrBreak
<1>6. CASE ReceiveRecord
  <2>1. RecordRead /\ UNCHANGED <<tx, wire, log, sent>> /\ rx.state = "connected"
    BY <1>6 DEF ReceiveRecord, RecordRead
  <2>2. ASSUME NEW k \in DOMAIN log, ReceiveData(k) PROVE [Stream!Next]_(Stream!vars)
    <3>1. PICK n \in 1 .. log[k].len : got' = got \o Following(Len(got), n)
      BY <2>1, <2>2, ReceiveDataInv
    <3>2. /\ log[k].ok /\ log[k].at = Len(got) /\ k \in 1 .. Len(log)
          /\ Cursor(k + 1) = After(log[k]) /\ log[k].type = "data"
      BY <2>1, <2>2, OpenedPlace DEF ReceiveData
    <3>3. log[k] \in Records /\ Len(log) \in Nat
      BY DEF Inv, WriterOK
    <3>4. log[k].len \in 1 .. MaxChunk
      BY <3>3 DEF Records
    <3>5. k + 1 \in 1 .. Len(log) + 1
      BY <3>2, <3>3
    <3>6. Len(got) + log[k].len <= sent
      BY <3>2, <3>5, CursorBelow DEF After
    <3>7. n \in 1 .. MaxChunk /\ Len(got) + n <= sent
      BY <1>a, <3>4, <3>6
    <3>8. rx'.state = "connected" /\ fault' = fault
      BY <2>1, <2>2, OpenedType DEF ReceiveData, Readers
    <3> QED
      BY <2>1, <3>1, <3>7, <3>8, Hands
  <2>3. ASSUME NEW k \in DOMAIN log, ReceiveKeyUpdate(k) PROVE [Stream!Next]_(Stream!vars)
    <3>1. rx'.state \in {"connected", "closed"}
      BY <2>1, <2>3, OpenedType DEF ReceiveKeyUpdate, Readers
    <3>2. got' = got /\ (fault' = fault \/ fault' = TRUE)
      BY <2>3 DEF ReceiveKeyUpdate
    <3> QED
      BY <2>1, <3>1, <3>2, QuietOrBreak
  <2>4. ASSUME NEW k \in DOMAIN log, ReceiveCloseNotify(k) PROVE [Stream!Next]_(Stream!vars)
    <3>1. rx'.state = "closing" /\ Len(got) = sent
      BY <2>1, <2>4, ReceiveCloseNotifyInv
    <3>2. UNCHANGED <<got, fault>>
      BY <2>4 DEF ReceiveCloseNotify
    <3> QED
      BY <2>1, <3>1, <3>2 DEF Stream!Next, Stream!End
  <2>5. CASE ReceiveOther
    <3>1. rx'.state \in {"connected", "closed"}
      <4>1. rx \in Readers
        BY DEF Inv, ReaderOK, Readers
      <4>2. ResetRx(rx) \in Readers /\ ResetRx(rx).state = "connected"
        BY <2>1, <4>1, ResetType
      <4> QED
        BY <2>5, <4>2 DEF ReceiveOther, Readers
    <3>2. got' = got /\ fault' = TRUE
      BY <2>5 DEF ReceiveOther
    <3> QED
      BY <2>1, <3>1, <3>2, QuietOrBreak
  <2> QED
    BY <1>6, <2>2, <2>3, <2>4, <2>5 DEF ReceiveRecord
<1>7. CASE TakePendingAppData
  <2>1. PICK n \in 1 .. Len(rx.app) : got' = got \o Following(Len(got), n)
    BY <1>7, TakePendingAppDataInv
  <2>2. rx.state = "connected" /\ UNCHANGED <<tx, wire, log, sent, fault>>
    BY <1>7 DEF TakePendingAppData
  <2>3. rx \in Readers /\ Len(rx.app) \in Nat /\ Len(rx.app) <= MaxChunk
    BY DEF Inv, ReaderOK, Readers
  <2>4. rx'.state = "connected"
    BY <1>7, <2>2, <2>3 DEF TakePendingAppData, Readers
  <2>5. PICK p \in 1 .. Len(log) + 1 : ReaderAt(p)
    BY <2>2 DEF Inv, ReaderInv, ReaderPlaced
  <2>6. Len(got) + Len(rx.app) <= sent
    BY <2>5, CursorBelow DEF ReaderAt
  <2>7. n \in 1 .. MaxChunk /\ Len(got) + n <= sent
    BY <1>a, <2>3, <2>6
  <2> QED
    BY <2>1, <2>2, <2>4, <2>7, Hands
<1>8. CASE RefuseLength \/ AllocationFails
  <2>1. rx.state = "connected" /\ UNCHANGED <<sent, got>> /\ fault' = TRUE
    BY <1>8 DEF RefuseLength, AllocationFails
  <2>2. rx'.state \in {"connected", "closed"}
    <3>1. rx \in Readers
      BY DEF Inv, ReaderOK, Readers
    <3>2. ResetRx(rx) \in Readers /\ ResetRx(rx).state = "connected"
      BY <2>1, <3>1, ResetType
    <3> QED
      BY <1>8, <3>2 DEF RefuseLength, AllocationFails, Readers
  <2> QED
    BY <2>1, <2>2, QuietOrBreak
<1>9. CASE UNCHANGED vars
  BY <1>9, QuietOrBreak DEF vars
<1> QED
  BY <1>1, <1>2, <1>3, <1>4, <1>5, <1>6, <1>7, <1>8, <1>9 DEF Next, Read

(* The direction takes only steps of ReliableStream, for every chunk size,  *)
(* transport and queue limit: across refused and torn records, dropped      *)
(* headers and key changes the reader is handed the accepted units in       *)
(* order, none twice and none left out, and believes a close_notify only    *)
(* when it has them all (noxtls_tls13_send, _recv, _close).  The fairness   *)
(* of ImplementsStream is left to the model checker.                        *)
THEOREM RefinesStream == Spec => Stream!Init /\ [][Stream!Next]_(Stream!vars)
<1>1. Init => Stream!Init
  BY DEF Init, Stream!Init
<1>2. Inv /\ [Next]_vars => [Stream!Next]_(Stream!vars)
  BY StepStream
<1> QED
  BY <1>1, <1>2, InvHolds, PTL DEF Spec

=============================================================================
