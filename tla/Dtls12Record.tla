---------------------------- MODULE Dtls12Record ----------------------------
(***************************************************************************)
(* The DTLS 1.2 record layer, one direction of one association: a writer   *)
(* that numbers, buffers and resends records, and a reader that filters    *)
(* them by epoch and replay window.  The network may lose, duplicate,      *)
(* reorder and delay records (`wire' only grows and the reader may take    *)
(* any element any number of times) and may deliver records that do not    *)
(* authenticate.                                                           *)
(*                                                                         *)
(* A record is [epoch, seq, body]; equal (epoch, seq) with different       *)
(* bodies is an AEAD nonce used for two plaintexts.                        *)
(***************************************************************************)
EXTENDS ReplayWindow, Sequences

CONSTANTS
    SeqNumMask,      \* DTLS_SEQ_NUM_MASK, 2^48 - 1 in the build
    FlightCapacity,  \* records the flight buffer holds (flight_buffer_limit)
    MaxEpoch,        \* bound: number of cipher changes explored
    Body             \* record payloads; ChangeCipherSpec is one of them

CONSTANT ChangeCipherSpec

ASSUME RecordAssumption ==
    /\ SeqNumMask \in Nat
    /\ FlightCapacity \in Nat
    /\ MaxEpoch \in Nat
    /\ ChangeCipherSpec \in Body

VARIABLES
    tx,       \* [epoch, write_seq_num, prev_write_seq_num] of the writer
    flight,   \* the flight buffer: a sequence of [epoch, seq, body, protect]
    peer_next,\* flight_peer_next: a message of the peer's next flight arrived
    resend,   \* dtls_flight_retransmit's cursor into the flight, 0 when idle
    rx,       \* [read_epoch, read_seq_num, replay_window] of the reader
    wire,     \* every record ever handed to send_callback
    opened    \* how often each record number was handed to the upper layer

vars == <<tx, flight, peer_next, resend, rx, wire, opened>>

Epochs == 0 .. MaxEpoch
SeqNums == 0 .. SeqNumMask
Records == [epoch : Epochs, seq : SeqNums, body : Body]
FlightEntries == [epoch : Epochs, seq : SeqNums, body : Body, protect : BOOLEAN]

TypeOK ==
    /\ tx \in [epoch : Epochs, write_seq_num : SeqNums, prev_write_seq_num : SeqNums]
    /\ flight \in Seq(FlightEntries)
    /\ peer_next \in BOOLEAN
    /\ resend \in 0 .. Len(flight)
    /\ rx \in [read_epoch : Epochs, read_seq_num : SeqNums, replay_window : ReplayWindows]
    /\ wire \subseteq Records
    /\ opened \in [Epochs \X SeqNums -> Nat]

Init ==
    /\ tx = [epoch |-> 0, write_seq_num |-> 0, prev_write_seq_num |-> 0]
    /\ flight = << >>
    /\ peer_next = FALSE
    /\ resend = 0
    /\ rx = [read_epoch |-> 0, read_seq_num |-> 0, replay_window |-> EmptyWindow]
    /\ wire = {}
    /\ opened = [n \in Epochs \X SeqNums |-> 0]

-----------------------------------------------------------------------------
(* The writer. *)

RecordOf(entry) == [epoch |-> entry.epoch, seq |-> entry.seq, body |-> entry.body]

Entry(body, protect) ==
    [epoch |-> tx.epoch, seq |-> tx.write_seq_num, body |-> body, protect |-> protect]

(* dtls_flight_begin_if_answered, then dtls_flight_append: the first record *)
(* sent after the peer answered starts a new flight.  dtls_flight_reserve   *)
(* fails when the storage is full, and the record is then not sent.         *)
BufferInFlight(entry) ==
    /\ peer_next \/ Len(flight) < FlightCapacity
    /\ flight' = Append(IF peer_next THEN << >> ELSE flight, entry)
    /\ peer_next' = FALSE

(* noxtls_dtls_send_record: the next sequence number is taken and used up,  *)
(* whether or not the transport reports success.  Handshake and             *)
(* ChangeCipherSpec records (buffered) join the flight first.  An           *)
(* application record is sealed by its caller under the same number.  A     *)
(* number at the mask, the anti-amplification limit or a full flight buffer *)
(* return before anything changes.  A ChangeCipherSpec sent by this action  *)
(* is one whose send failed: it used a number but not the epoch.            *)
SendRecord(body, buffered) ==
    /\ resend = 0
    /\ tx.write_seq_num < SeqNumMask
    /\ body = ChangeCipherSpec => buffered
    /\ IF buffered THEN BufferInFlight(Entry(body, FALSE))
                   ELSE UNCHANGED <<flight, peer_next>>
    /\ wire' = wire \cup {RecordOf(Entry(body, FALSE))}
    /\ tx' = [tx EXCEPT !.write_seq_num = @ + 1]
    /\ UNCHANGED <<resend, rx, opened>>

(* noxtls_dtls_send_protected_record: as above, but the flight keeps the    *)
(* plaintext, to be sealed again when it is resent.  Its only caller is     *)
(* tls12_dtls_send_finished, which runs in a protected epoch.               *)
SendProtectedRecord(body) ==
    /\ resend = 0
    /\ tx.epoch > 0
    /\ body # ChangeCipherSpec
    /\ tx.write_seq_num < SeqNumMask
    /\ BufferInFlight(Entry(body, TRUE))
    /\ wire' = wire \cup {RecordOf(Entry(body, TRUE))}
    /\ tx' = [tx EXCEPT !.write_seq_num = @ + 1]
    /\ UNCHANGED <<resend, rx, opened>>

(* Mutant of NextWriteEpoch: the old epoch's counter is not saved. *)
NextWriteEpochUnsaved(t) ==
    [epoch |-> t.epoch + 1, write_seq_num |-> 0, prev_write_seq_num |-> 0]

(* noxtls_dtls_next_write_epoch. *)
NextWriteEpoch(t) ==
    [epoch |-> t.epoch + 1, write_seq_num |-> 0, prev_write_seq_num |-> t.write_seq_num]

(* noxtls_tls12_send_change_cipher_spec: the ChangeCipherSpec goes out in   *)
(* the current epoch, then the write epoch advances.                        *)
SendChangeCipherSpec ==
    /\ resend = 0
    /\ tx.write_seq_num < SeqNumMask
    /\ tx.epoch < MaxEpoch
    /\ BufferInFlight(Entry(ChangeCipherSpec, FALSE))
    /\ wire' = wire \cup {RecordOf(Entry(ChangeCipherSpec, FALSE))}
    /\ tx' = NextWriteEpoch([tx EXCEPT !.write_seq_num = @ + 1])
    /\ UNCHANGED <<resend, rx, opened>>

(* noxtls_dtls_flight_peer_progress: the flight is kept for retransmission  *)
(* until the answer is complete.                                            *)
PeerProgress ==
    /\ resend = 0
    /\ flight # << >>
    /\ peer_next' = TRUE
    /\ UNCHANGED <<tx, flight, resend, rx, wire, opened>>

(* noxtls_dtls_flight_reset: the peer's Finished (or application data after *)
(* a final flight) shows the flight arrived; it is forgotten.               *)
FlightReset ==
    /\ resend = 0
    /\ flight # << >>
    /\ flight' = << >>
    /\ peer_next' = FALSE
    /\ UNCHANGED <<tx, resend, rx, wire, opened>>

(* dtls_flight_retransmit starts on a timeout or on a repeated peer flight. *)
StartRetransmit ==
    /\ resend = 0
    /\ flight # << >>
    /\ resend' = 1
    /\ UNCHANGED <<tx, flight, peer_next, rx, wire, opened>>

(* Mutant of NextCursor: the walk over the flight does not stop. *)
NextCursorPastEnd == resend + 1

NextCursor == IF resend = Len(flight) THEN 0 ELSE resend + 1

(* The counter dtls12_flight_resend_record draws from: the current epoch's, *)
(* or the saved counter of the epoch before it.                             *)
CurrentCounter(entry) == entry.epoch = tx.epoch
PreviousCounter(entry) == entry.epoch + 1 = tx.epoch

TakeSeq(entry) ==
    IF CurrentCounter(entry) THEN tx.write_seq_num ELSE tx.prev_write_seq_num

AdvanceSeq(entry) ==
    IF CurrentCounter(entry)
    THEN [tx EXCEPT !.write_seq_num = @ + 1]
    ELSE [tx EXCEPT !.prev_write_seq_num = @ + 1]

(* Sealed by the caller in a protected epoch: the tag binds the number, so  *)
(* the record is repeated byte for byte.                                    *)
ResendVerbatim(entry) ==
    /\ ~entry.protect /\ entry.epoch # 0
    /\ wire' = wire \cup {RecordOf(entry)}
    /\ resend' = NextCursor
    /\ UNCHANGED <<tx, flight>>

(* A plaintext record is renumbered in place; a protected one is sealed     *)
(* again, only in the epoch whose keys are installed.                       *)
ResendFresh(entry) ==
    /\ entry.protect \/ entry.epoch = 0
    /\ CurrentCounter(entry) \/ (PreviousCounter(entry) /\ ~entry.protect)
    /\ TakeSeq(entry) < SeqNumMask
    /\ wire' = wire \cup {[RecordOf(entry) EXCEPT !.seq = TakeSeq(entry)]}
    /\ flight' = IF entry.protect THEN flight
                 ELSE [flight EXCEPT ![resend].seq = TakeSeq(entry)]
    /\ tx' = AdvanceSeq(entry)
    /\ resend' = NextCursor

(* NOXTLS_RETURN_NOT_SUPPORTED: no counter (or no keys) of that epoch left. *)
SkipStale(entry) ==
    /\ entry.protect \/ entry.epoch = 0
    /\ ~CurrentCounter(entry)
    /\ PreviousCounter(entry) => entry.protect
    /\ resend' = NextCursor
    /\ UNCHANGED <<tx, flight, wire>>

(* NOXTLS_RETURN_FAILED ends the whole pass: the counter is exhausted or    *)
(* the transport failed.                                                    *)
AbortRetransmit ==
    /\ resend' = 0
    /\ UNCHANGED <<tx, flight, wire>>

(* dtls12_flight_resend_record on the entry under the cursor. *)
ResendRecord ==
    /\ resend # 0
    /\ \/ ResendVerbatim(flight[resend])
       \/ ResendFresh(flight[resend])
       \/ SkipStale(flight[resend])
       \/ AbortRetransmit
    /\ UNCHANGED <<peer_next, rx, opened>>

-----------------------------------------------------------------------------
(* The reader. *)

(* noxtls_dtls_recv_record lets a record through only in the read epoch and *)
(* past the replay window; everything else is discarded silently.           *)
Admitted(epoch, seq) ==
    /\ epoch = rx.read_epoch
    /\ CheckReplay(rx.replay_window, seq)

(* recv_record followed by the window update: immediately for epoch 0, in   *)
(* tls12_record_opened once the record authenticated otherwise.             *)
Accept(rec) ==
    /\ Admitted(rec.epoch, rec.seq)
    /\ opened' = [opened EXCEPT ![<<rec.epoch, rec.seq>>] = @ + 1]

(* What tls12_record_opened commits. *)
RecordOpened(seq) ==
    [rx EXCEPT !.read_seq_num = seq,
               !.replay_window = UpdateReplayWindow(@, seq)]

ReceiveRecord(rec) ==
    /\ Accept(rec)
    /\ rx' = RecordOpened(rec.seq)
    /\ UNCHANGED <<tx, flight, peer_next, resend, wire>>

(* noxtls_dtls_next_read_epoch: a new window for the new epoch. *)
NextReadEpoch(r) ==
    [read_epoch |-> r.read_epoch + 1, read_seq_num |-> 0, replay_window |-> EmptyWindow]

(* A ChangeCipherSpec the handshake was waiting for (tls12_dtls_on_recv_ccs). *)
ReceiveChangeCipherSpec(rec) ==
    /\ rec.body = ChangeCipherSpec
    /\ rx.read_epoch < MaxEpoch
    /\ Accept(rec)
    /\ rx' = NextReadEpoch(RecordOpened(rec.seq))
    /\ UNCHANGED <<tx, flight, peer_next, resend, wire>>

(* A record of a protected epoch that does not authenticate: recv_record    *)
(* notes its number, noxtls_tls12_open_record fails, it is discarded.       *)
ReceiveUnauthentic(seq) ==
    /\ rx.read_epoch > 0
    /\ Admitted(rx.read_epoch, seq)
    /\ rx' = [rx EXCEPT !.read_seq_num = seq]
    /\ UNCHANGED <<tx, flight, peer_next, resend, wire, opened>>

-----------------------------------------------------------------------------

Writer ==
    \/ \E body \in Body, buffered \in BOOLEAN : SendRecord(body, buffered)
    \/ \E body \in Body : SendProtectedRecord(body)
    \/ SendChangeCipherSpec
    \/ PeerProgress
    \/ FlightReset
    \/ StartRetransmit
    \/ ResendRecord

Reader ==
    \/ \E rec \in wire : ReceiveRecord(rec)
    \/ \E rec \in wire : ReceiveChangeCipherSpec(rec)
    \/ \E seq \in SeqNums : ReceiveUnauthentic(seq)

Next == Writer \/ Reader

Spec == Init /\ [][Next]_vars

-----------------------------------------------------------------------------
(* A record number (the AEAD nonce of its epoch) never goes out with two    *)
(* different payloads: not after a failed send, a retransmission, or a      *)
(* cipher change in the middle of a flight.                                 *)
NonceUnique ==
    \A a, b \in wire : (a.epoch = b.epoch /\ a.seq = b.seq) => a = b

(* However often the network repeats a record, and across epoch changes,    *)
(* the upper layer sees each record number at most once.                    *)
NoReplay == \A n \in DOMAIN opened : opened[n] <= 1

(* The window rejects only what was opened or fell out of the window: a     *)
(* genuine record that is late by less than the window still gets through,  *)
(* whatever unauthenticated records came before it.                         *)
NoFalseReject ==
    \A rec \in wire :
        /\ rec.epoch = rx.read_epoch
        /\ opened[<<rec.epoch, rec.seq>>] = 0
        /\ rx.replay_window.last_seq - rec.seq < ReplayWindowSize
        => CheckReplay(rx.replay_window, rec.seq)

-----------------------------------------------------------------------------
(* The parts of the inductive invariant that the three properties rest on.  *)

(* Every number on the wire is below the counter that numbers its epoch.    *)
WireBelowCounters ==
    \A rec \in wire :
        /\ rec.epoch <= tx.epoch
        /\ rec.epoch = tx.epoch => rec.seq < tx.write_seq_num
        /\ rec.epoch + 1 = tx.epoch => rec.seq < tx.prev_write_seq_num

(* What would be repeated verbatim is on the wire already, as it is.        *)
VerbatimIsSent ==
    \A i \in 1 .. Len(flight) :
        (~flight[i].protect /\ flight[i].epoch # 0) => RecordOf(flight[i]) \in wire

(* Everything opened in the read epoch is at or below last_seq and, within  *)
(* the window, has its bit; nothing of a later epoch was opened.            *)
OpenedIsRecorded ==
    \A n \in Epochs \X SeqNums : opened[n] > 0 =>
        /\ n[1] <= rx.read_epoch
        /\ n[1] = rx.read_epoch =>
              /\ n[2] <= rx.replay_window.last_seq
              /\ rx.replay_window.last_seq - n[2] < ReplayWindowSize
                    => rx.replay_window.last_seq - n[2] \in rx.replay_window.window_bitmap

(* Every bit of the window stands for a record that was opened.             *)
BitsAreOpened ==
    \A b \in rx.replay_window.window_bitmap :
        \E s \in SeqNums : /\ s = rx.replay_window.last_seq - b
                           /\ opened[<<rx.read_epoch, s>>] > 0

(* The inductive invariant. *)
Inv ==
    /\ TypeOK
    /\ NonceUnique
    /\ WireBelowCounters
    /\ VerbatimIsSent
    /\ NoReplay
    /\ OpenedIsRecorded
    /\ BitsAreOpened

=============================================================================
