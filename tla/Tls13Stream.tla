----------------------------- MODULE Tls13Stream -----------------------------
(***************************************************************************)
(* One direction of a connected TLS 1.3 session over a non-blocking byte    *)
(* transport: noxtls_tls13_send, _send_key_update and _close on the writing *)
(* side, the queue of output the transport did not take, and the reader,    *)
(* which collects headers and payloads over any number of calls and opens   *)
(* each record with the next number of its current keys.                    *)
(*                                                                         *)
(* A record is sealed once, before the transport is asked to take it, so a  *)
(* record that is refused afterwards has used up its number.                *)
(***************************************************************************)
EXTENDS Integers, Sequences, SequencesExt, FiniteSetsExt

CONSTANTS
    HeaderLen,         \* bytes of a record header (5)
    MaxChunk,          \* largest payload, in units of data
    WireCapacity,      \* bytes the transport holds
    Limits,            \* values of io_tx_queue_limit
    MaxPostHs,         \* TLS13_MAX_POST_HS_MESSAGES
    MaxUnits,          \* bound: units of data the writer sends
    MaxSeals           \* bound: records the writer seals

ASSUME StreamAssumption ==
    /\ HeaderLen \in Nat \ {0} /\ MaxChunk \in Nat \ {0}
    /\ Limits \subseteq Nat /\ \A l \in Limits : l >= HeaderLen + MaxChunk
    /\ WireCapacity \in Nat /\ MaxPostHs \in Nat /\ MaxUnits \in Nat /\ MaxSeals \in Nat

VARIABLES
    tx,        \* writer: state, unsent bytes, queue limit, key generation, number
    wire,      \* bytes in the transport
    rx,        \* reader: state, keys, number, the record being read, kept data
    log,       \* every record sealed so far; byte <<k, i>> is byte i of log[k]
    sent,      \* units accepted from the writing application
    got,       \* units handed to the reading application
    fault      \* a failure was reported to one of the applications

vars == <<tx, wire, rx, log, sent, got, fault>>

NoLength == -1                \* the header of the next record is incomplete
TooLong == MaxChunk + 1       \* a length no record may have

(* A record and, as history, the units accepted before it and whether the   *)
(* send that sealed it succeeded.                                           *)
Record(type, units) ==
    [type |-> type, gen |-> tx.gen, seq |-> tx.seq, units |-> units,
     len |-> IF type = "data" THEN Len(units) ELSE 1,
     at |-> sent, ok |-> TRUE]

Bytes(k, r) == [i \in 1 .. HeaderLen + r.len |-> <<k, i>>]

Init ==
    /\ \E l \in Limits : tx = [state |-> "connected", pending |-> << >>, limit |-> l,
                               gen |-> 0, seq |-> 0]
    /\ wire = << >>
    /\ rx = [state |-> "connected", gen |-> 0, seq |-> 0, header |-> << >>,
             length |-> NoLength, payload |-> << >>, allocated |-> FALSE,
             app |-> << >>, postHs |-> 0]
    /\ log = << >> /\ sent = 0 /\ got = << >> /\ fault = FALSE

(***************************************************************************)
(* Output.  An io value is what a send changes: the queue, the wire and      *)
(* whether the call succeeded.  The transport takes any number of the bytes *)
(* it is offered; taking none is "would block".  A transport error leaves   *)
(* what a failed allocation leaves and is not told apart from it.           *)
(***************************************************************************)
Io == [pending |-> tx.pending, wire |-> wire, ok |-> TRUE]

Takes(io, bytes) == 0 .. Min({Len(bytes), WireCapacity - Len(io.wire)})

FlushTaking(io, n) ==
    [io EXCEPT !.pending = SubSeq(@, n + 1, Len(@)),
               !.wire = @ \o SubSeq(io.pending, 1, n)]

\* Mutant: what already waits is not counted against the limit
QueueIgnoringPending(io, bytes, allocates) ==
    IF bytes = << >> THEN io
    ELSE IF allocates /\ Len(bytes) <= tx.limit
         THEN [io EXCEPT !.pending = @ \o bytes]
         ELSE [io EXCEPT !.ok = FALSE]

QueuePendingOutput(io, bytes, allocates) ==
    IF bytes = << >> THEN io
    ELSE IF allocates /\ Len(io.pending) + Len(bytes) <= tx.limit
         THEN [io EXCEPT !.pending = @ \o bytes]
         ELSE [io EXCEPT !.ok = FALSE]

NonblockingSendRecord(io, bytes, n, m, allocates) ==
    LET flushed == FlushTaking(io, n)
        rest == SubSeq(bytes, m + 1, Len(bytes))
    IN  IF flushed.pending # << >>
        THEN QueuePendingOutput(flushed, bytes, allocates)
        ELSE QueuePendingOutput([flushed EXCEPT !.wire = @ \o SubSeq(bytes, 1, m)],
                                rest, allocates)

SendOutcomes(io, bytes) ==
    UNION {{NonblockingSendRecord(io, bytes, n, m, allocates) :
                m \in Takes(FlushTaking(io, n), bytes), allocates \in BOOLEAN} :
           n \in Takes(io, io.pending)}

(* noxtls_tls_flush, one call of the transport. *)
Flush ==
    /\ tx.pending # << >>
    /\ \E n \in Takes(Io, tx.pending) :
          /\ n > 0
          /\ tx' = [tx EXCEPT !.pending = FlushTaking(Io, n).pending]
          /\ wire' = FlushTaking(Io, n).wire
    /\ UNCHANGED <<rx, log, sent, got, fault>>

SetIoTxQueueLimit(l) ==
    /\ l # tx.limit /\ l >= Len(tx.pending)
    /\ tx' = [tx EXCEPT !.limit = l]
    /\ UNCHANGED <<wire, rx, log, sent, got, fault>>

(***************************************************************************)
(* The writer.                                                              *)
(***************************************************************************)
\* Mutant: the number advances only when the record was taken
AfterSealIfSent(io) ==
    [tx EXCEPT !.pending = io.pending, !.seq = IF io.ok THEN @ + 1 ELSE @]

AfterSeal(io) == [tx EXCEPT !.pending = io.pending, !.seq = @ + 1]

(* Seal r, then offer it to the transport; io is what became of it. *)
SealAndSend(r, io) ==
    /\ Len(log) < MaxSeals
    /\ wire' = io.wire
    /\ log' = Append(log, [r EXCEPT !.ok = io.ok])

(* One record of noxtls_tls13_send; a refused one is not accepted data. *)
SendData(n) ==
    LET r == Record("data", [i \in 1 .. n |-> sent + i])
    IN  /\ tx.state = "connected"
        /\ sent + n <= MaxUnits
        /\ \E io \in SendOutcomes(Io, Bytes(Len(log) + 1, r)) :
              /\ SealAndSend(r, io)
              /\ tx' = AfterSeal(io)
              /\ sent' = IF io.ok THEN sent + n ELSE sent
              /\ fault' = (fault \/ ~io.ok)
        /\ UNCHANGED <<rx, got>>

(* The keys change only when the KeyUpdate is on its way. *)
SendKeyUpdate ==
    LET r == Record("key_update", << >>)
    IN  /\ tx.state = "connected"
        /\ \E io \in SendOutcomes(Io, Bytes(Len(log) + 1, r)) :
              /\ SealAndSend(r, io)
              /\ tx' = IF io.ok THEN [AfterSeal(io) EXCEPT !.gen = @ + 1, !.seq = 0]
                       ELSE AfterSeal(io)
              /\ fault' = (fault \/ ~io.ok)
        /\ UNCHANGED <<rx, sent, got>>

(* noxtls_tls13_close: a sealed close_notify, or, when memory ran out       *)
(* before or after sealing it, one in the clear; closed whatever happens.   *)
Close ==
    LET sealed == Record("close_notify", << >>)
        clear == Record("alert", << >>)
        k == Len(log) + 1
        refused == [sealed EXCEPT !.ok = FALSE]
        Finish(io, records, next) ==
            /\ tx' = [next EXCEPT !.pending = io.pending, !.state = "closed"]
            /\ wire' = io.wire
            /\ log' = log \o records
            /\ fault' = (fault \/ records # <<sealed>>)
    IN  /\ tx.state = "connected"
        /\ Len(log) + 2 <= MaxSeals
        /\ \/ \E io \in SendOutcomes(Io, Bytes(k, sealed)) :
                 \/ Finish(io, <<[sealed EXCEPT !.ok = io.ok]>>, AfterSeal(io))
                 \/ /\ ~io.ok
                    /\ \E last \in SendOutcomes([io EXCEPT !.ok = TRUE], Bytes(k + 1, clear)) :
                          Finish(last, <<refused, clear>>, AfterSeal(io))
           \/ \E io \in SendOutcomes(Io, Bytes(k, clear)) : Finish(io, <<clear>>, tx)
        /\ UNCHANGED <<rx, sent, got>>

(***************************************************************************)
(* The reader.  Bytes that are not the header of one record (after a torn   *)
(* record, or after a header whose payload could not be allocated) are a     *)
(* header all the same: its length is any length.                           *)
(***************************************************************************)
IsHeader(bytes, k) == bytes = SubSeq(Bytes(k, log[k]), 1, HeaderLen)

LengthsOf(bytes) ==
    IF \E k \in DOMAIN log : IsHeader(bytes, k)
    THEN {log[k].len : k \in {j \in DOMAIN log : IsHeader(bytes, j)}}
    ELSE 0 .. TooLong

ResetRx(r) ==
    [r EXCEPT !.header = << >>, !.length = NoLength, !.payload = << >>,
              !.allocated = FALSE]

ReadHeader ==
    /\ rx.state = "connected" /\ rx.app = << >> /\ rx.length = NoLength
    /\ \E n \in 1 .. Min({HeaderLen - Len(rx.header), Len(wire)}) :
          LET header == rx.header \o SubSeq(wire, 1, n)
          IN  /\ wire' = SubSeq(wire, n + 1, Len(wire))
              /\ IF Len(header) < HeaderLen
                 THEN rx' = [rx EXCEPT !.header = header]
                 ELSE \E l \in LengthsOf(header) :
                        rx' = [rx EXCEPT !.header = header, !.length = l]
    /\ UNCHANGED <<tx, log, sent, got, fault>>

(* RECORD_OVERFLOW closes the session. *)
RefuseLength ==
    /\ rx.state = "connected" /\ rx.length = TooLong
    /\ rx' = [ResetRx(rx) EXCEPT !.state = "closed"]
    /\ fault' = TRUE
    /\ UNCHANGED <<tx, wire, log, sent, got>>

(* No memory for the payload: the header is dropped, the session stays up. *)
AllocationFails ==
    /\ rx.state = "connected" /\ rx.length \in 1 .. MaxChunk /\ ~rx.allocated
    /\ rx' = ResetRx(rx)
    /\ fault' = TRUE
    /\ UNCHANGED <<tx, wire, log, sent, got>>

ReadPayload ==
    /\ rx.state = "connected" /\ rx.length \in 0 .. MaxChunk
    /\ Len(rx.payload) < rx.length
    /\ \E n \in 0 .. Min({rx.length - Len(rx.payload), Len(wire)}) :
          /\ n > 0 \/ ~rx.allocated
          /\ rx' = [rx EXCEPT !.payload = @ \o SubSeq(wire, 1, n), !.allocated = TRUE]
          /\ wire' = SubSeq(wire, n + 1, Len(wire))
    /\ UNCHANGED <<tx, log, sent, got, fault>>

(* The record that was read, whole and unmixed. *)
IsRecord(k) == rx.header \o rx.payload = Bytes(k, log[k])

Opens(k) ==
    /\ IsRecord(k) /\ log[k].type # "alert"
    /\ log[k].gen = rx.gen /\ log[k].seq = rx.seq

Opened == [ResetRx(rx) EXCEPT !.seq = @ + 1]

RecordRead ==
    /\ rx.state = "connected" /\ rx.length \in 0 .. MaxChunk
    /\ Len(rx.payload) = rx.length

\* Mutant: what the caller's buffer does not hold is forgotten
ReceiveDataOnce(k) ==
    /\ Opens(k) /\ log[k].type = "data"
    /\ \E n \in 1 .. Len(log[k].units) : got' = got \o SubSeq(log[k].units, 1, n)
    /\ rx' = [Opened EXCEPT !.postHs = 0]
    /\ UNCHANGED fault

(* Application data: as much as the caller's buffer holds, the rest is kept. *)
ReceiveData(k) ==
    /\ Opens(k) /\ log[k].type = "data"
    /\ \E n \in 1 .. Len(log[k].units) :
          /\ got' = got \o SubSeq(log[k].units, 1, n)
          /\ rx' = [Opened EXCEPT !.app = SubSeq(log[k].units, n + 1, Len(log[k].units)),
                                  !.postHs = 0]
    /\ UNCHANGED fault

(* KeyUpdate, unless too many post-handshake messages came without data. *)
ReceiveKeyUpdate(k) ==
    /\ Opens(k) /\ log[k].type = "key_update"
    /\ IF rx.postHs < MaxPostHs
       THEN /\ rx' = [Opened EXCEPT !.gen = @ + 1, !.seq = 0, !.postHs = @ + 1]
            /\ UNCHANGED fault
       ELSE rx' = [Opened EXCEPT !.state = "closed"] /\ fault' = TRUE
    /\ UNCHANGED got

ReceiveCloseNotify(k) ==
    /\ Opens(k) /\ log[k].type = "close_notify"
    /\ rx' = [Opened EXCEPT !.state = "closing"]
    /\ UNCHANGED <<got, fault>>

(* Anything else ends the session: a record that does not open, an alert in *)
(* the clear, an unknown type.  An empty heartbeat is only reported.        *)
ReceiveOther ==
    /\ ~\E k \in DOMAIN log : Opens(k)
    /\ \/ rx' = [ResetRx(rx) EXCEPT !.state = "closed"]
       \/ rx.length = 0 /\ rx' = ResetRx(rx)
    /\ fault' = TRUE
    /\ UNCHANGED got

ReceiveRecord ==
    /\ RecordRead
    /\ \/ \E k \in DOMAIN log : ReceiveData(k) \/ ReceiveKeyUpdate(k) \/ ReceiveCloseNotify(k)
       \/ ReceiveOther
    /\ UNCHANGED <<tx, wire, log, sent>>

TakePendingAppData ==
    /\ rx.state = "connected" /\ rx.app # << >>
    /\ \E n \in 1 .. Len(rx.app) :
          /\ got' = got \o SubSeq(rx.app, 1, n)
          /\ rx' = [rx EXCEPT !.app = SubSeq(@, n + 1, Len(@))]
    /\ UNCHANGED <<tx, wire, log, sent, fault>>

Read == ReadHeader \/ ReadPayload \/ ReceiveRecord \/ TakePendingAppData

Next ==
    \/ Flush
    \/ \E l \in Limits : SetIoTxQueueLimit(l)
    \/ \E n \in 1 .. MaxChunk : SendData(n)
    \/ SendKeyUpdate
    \/ Close
    \/ Read
    \/ RefuseLength
    \/ AllocationFails

Spec == Init /\ [][Next]_vars

(* Both applications poll, and a transport with room takes something in the *)
(* end.                                                                     *)
FairSpec == Spec /\ WF_vars(Flush) /\ WF_vars(Read)

-----------------------------------------------------------------------------
Byte == (1 .. MaxSeals) \X (1 .. HeaderLen + MaxChunk)

(* The queue, the transport and the record being read hold bytes of sealed  *)
(* records only, the reader never more than a header and a payload; the     *)
(* queue fits its limit, whatever was refused, flushed in part or queued     *)
(* behind, and whenever the limit was lowered (tls_queue_pending_output).    *)
TypeOK ==
    /\ tx.pending \in Seq(Byte) /\ wire \in Seq(Byte)
    /\ tx.limit \in Limits /\ Len(tx.pending) <= tx.limit
    /\ tx.gen \in Nat /\ tx.seq \in Nat
    /\ rx.header \in Seq(Byte) /\ Len(rx.header) <= HeaderLen
    /\ rx.payload \in Seq(Byte) /\ Len(rx.payload) <= MaxChunk
    /\ (rx.length = NoLength) <=> (Len(rx.header) < HeaderLen)
    /\ Len(wire) <= WireCapacity

(* noxtls_tls13_encrypt_record: a record the queue refused, possibly after  *)
(* some of its bytes left, never shares its number with a later record.     *)
NonceUnique ==
    \A j, k \in DOMAIN log :
        /\ log[j].type # "alert" /\ log[k].type # "alert"
        /\ log[j].gen = log[k].gen /\ log[j].seq = log[k].seq
        => j = k

Stream ==
    INSTANCE ReliableStream
    WITH received <- got, ended <- rx.state = "closing", broken <- fault

(* The direction is a ReliableStream: across refused and torn records,      *)
(* retries of refused data, dropped headers and key changes the reader is   *)
(* handed the accepted units in order, none twice and none left out; it     *)
(* believes a close_notify only when it has them all; and unless a failure  *)
(* was reported, queued output leaves and all data arrives.                 *)
ImplementsStream == Stream!Spec

=============================================================================
