---------------------------- MODULE Dtls13Record ----------------------------
(***************************************************************************)
(* The DTLS 1.3 record layer, one direction of one association, from the   *)
(* handshake keys on.  The header of a protected record carries the low    *)
(* bits of its epoch and the low bits of its number; the reader finds the  *)
(* key and the full number from its own state, and keeps one replay window *)
(* for each value of the low epoch bits.  The write epoch advances with    *)
(* the application keys and with each KeyUpdate, the read epoch when the   *)
(* peer's Finished or KeyUpdate is opened.                                 *)
(*                                                                         *)
(* The network may lose, duplicate, reorder and delay records (`wire' only *)
(* grows and the reader may take any element at any time).  A record opens *)
(* when the reader tries the key of the epoch it was sealed in with the    *)
(* number it was sealed under; a record number unmasked with another       *)
(* epoch's sn_key is arbitrary, and the AEAD rejects it.                   *)
(***************************************************************************)
EXTENDS ReplayWindow, Sequences

CONSTANTS
    ShortRange,      \* numbers an 8-bit field holds (2^8 in the build)
    LongRange,       \* numbers a 16-bit field holds (2^16 in the build)
    FlightCapacity,  \* records the flight buffer holds
    Burst,           \* DTLS_RETRANSMIT_RECORD_BURST
    MaxEpoch,        \* bound on the epochs explored
    MaxSeq           \* bound on the record numbers of an epoch

DTLS13_EPOCH_HANDSHAKE == 2
DTLS13_EPOCH_APPLICATION == 3

(* Epochs the header tells apart: DTLS13_UNIFIED_EPOCH_MASK + 1. *)
LowEpochs == 4

Body == {"data", "Finished", "KeyUpdate"}
Epochs == DTLS13_EPOCH_HANDSHAKE .. MaxEpoch
SeqNums == 0 .. MaxSeq
Lows == 0 .. LowEpochs - 1
Records == [epoch : Epochs, seq : SeqNums, body : Body]
FlightEntries == [epoch : Epochs, body : Body]

ASSUME Record13Assumption ==
    /\ ShortRange \in Nat /\ ShortRange > 0 /\ ShortRange % 2 = 0
    /\ LongRange \in Nat /\ LongRange > ShortRange /\ LongRange % 2 = 0
    /\ 2 * ReplayWindowSize < ShortRange
    /\ FlightCapacity \in Nat
    /\ Burst \in Nat \ {0}
    /\ MaxEpoch \in Nat /\ MaxEpoch >= DTLS13_EPOCH_APPLICATION
    /\ MaxSeq \in Nat

VARIABLES
    tx,       \* [epoch, write_seq_num, prev_write_seq_num]
    flight,   \* protected entries of the flight buffer, as [epoch, body]
    resend,   \* dtls_flight_retransmit's position in the flight, 0: no pass runs
    rx,       \* [read_connection_epoch, replay_windows, highest_recv_seq]
    wire,     \* every record handed to send_callback
    opened    \* history: the records opened

vars == <<tx, flight, resend, rx, wire, opened>>

NoneReceived == [valid |-> FALSE, seq |-> 0]

Init ==
    /\ tx = [epoch |-> DTLS13_EPOCH_HANDSHAKE, write_seq_num |-> 0, prev_write_seq_num |-> 0]
    /\ flight = << >>
    /\ resend = 0
    /\ rx = [read_connection_epoch |-> DTLS13_EPOCH_HANDSHAKE,
             replay_windows |-> [low \in Lows |-> EmptyWindow],
             highest_recv_seq |-> [low \in Lows |-> NoneReceived]]
    /\ wire = {}
    /\ opened = {}

-----------------------------------------------------------------------------
(* The writer. *)

Seal(epoch, seq, body) == [epoch |-> epoch, seq |-> seq, body |-> body]

(* noxtls_tls13_send_dtls13_encrypted_record of a record that is not       *)
(* retransmitted (application data, ACK, alert). The number is used up     *)
(* whether or not the transport reports success.                           *)
SendRecord ==
    /\ resend = 0
    /\ tx.write_seq_num < MaxSeq
    /\ wire' = wire \cup {Seal(tx.epoch, tx.write_seq_num, "data")}
    /\ tx' = [tx EXCEPT !.write_seq_num = @ + 1]
    /\ UNCHANGED <<flight, resend, rx, opened>>

(* The same of a handshake message: noxtls_dtls_buffer_handshake puts it   *)
(* into the flight first, and fails before the send when the buffer is     *)
(* full.                                                                   *)
BufferHandshake(body) ==
    /\ Len(flight) < FlightCapacity
    /\ flight' = Append(flight, [epoch |-> tx.epoch, body |-> body])

SendHandshake(body) ==
    /\ resend = 0
    /\ tx.write_seq_num < MaxSeq
    /\ BufferHandshake(body)
    /\ wire' = wire \cup {Seal(tx.epoch, tx.write_seq_num, body)}

(* The Finished is sent once, in the handshake epoch. *)
SendFinished ==
    /\ tx.epoch = DTLS13_EPOCH_HANDSHAKE
    /\ \A rec \in wire : rec.body # "Finished"
    /\ SendHandshake("Finished")
    /\ tx' = [tx EXCEPT !.write_seq_num = @ + 1]
    /\ UNCHANGED <<resend, rx, opened>>

\* Mutant: the counter of the handshake epoch is not kept
ApplicationWriteKeysUnsaved(t) ==
    [epoch |-> DTLS13_EPOCH_APPLICATION, write_seq_num |-> 0, prev_write_seq_num |-> 0]

(* tls13_install_application_keys (client) and                             *)
(* tls13_install_server_application_write_keys.                            *)
ApplicationWriteKeys(t) ==
    [epoch |-> DTLS13_EPOCH_APPLICATION,
     write_seq_num |-> 0,
     prev_write_seq_num |-> t.write_seq_num]

InstallApplicationWriteKeys ==
    /\ resend = 0
    /\ tx.epoch = DTLS13_EPOCH_HANDSHAKE
    /\ tx' = ApplicationWriteKeys(tx)
    /\ UNCHANGED <<flight, resend, rx, wire, opened>>

(* tls13_update_write_traffic_secret. *)
UpdateWriteTrafficSecret(t) == [t EXCEPT !.epoch = @ + 1, !.write_seq_num = 0]

(* noxtls_tls13_send_key_update: the KeyUpdate goes out in the old epoch   *)
(* and the new one is used at once. When the send fails the message is in  *)
(* the flight (and may have left), but the epoch stays.                    *)
SendKeyUpdate ==
    /\ tx.epoch >= DTLS13_EPOCH_APPLICATION
    /\ tx.epoch < MaxEpoch
    /\ SendHandshake("KeyUpdate")
    /\ \/ tx' = UpdateWriteTrafficSecret(tx)
       \/ tx' = [tx EXCEPT !.write_seq_num = @ + 1]
    /\ UNCHANGED <<resend, rx, opened>>

(* tls13_dtls_handle_ack released the flight. *)
ReleaseFlight ==
    /\ resend = 0
    /\ flight # << >>
    /\ flight' = << >>
    /\ UNCHANGED <<tx, resend, rx, wire, opened>>

StartRetransmission ==
    /\ resend = 0
    /\ flight # << >>
    /\ resend' = 1
    /\ UNCHANGED <<tx, flight, rx, wire, opened>>

\* Mutant: the pass runs past the end of the flight
NextEntryPastEnd == IF resend <= Len(flight) /\ resend < Burst THEN resend + 1 ELSE 0

NextEntry == IF resend < Len(flight) /\ resend < Burst THEN resend + 1 ELSE 0

(* tls13_retransmit_handshake: an entry of the current epoch takes the     *)
(* current counter; one of the handshake epoch is sealed again with its    *)
(* keys and the kept counter while the write epoch is the first            *)
(* application epoch.                                                      *)
ResendCurrent(entry) ==
    /\ entry.epoch = tx.epoch
    /\ tx.write_seq_num < MaxSeq
    /\ wire' = wire \cup {Seal(tx.epoch, tx.write_seq_num, entry.body)}
    /\ tx' = [tx EXCEPT !.write_seq_num = @ + 1]
    /\ resend' = NextEntry

ResendHandshakeEpoch(entry) ==
    /\ entry.epoch = DTLS13_EPOCH_HANDSHAKE
    /\ tx.epoch = DTLS13_EPOCH_APPLICATION
    /\ tx.prev_write_seq_num < MaxSeq
    /\ wire' = wire \cup {Seal(entry.epoch, tx.prev_write_seq_num, entry.body)}
    /\ tx' = [tx EXCEPT !.prev_write_seq_num = @ + 1]
    /\ resend' = NextEntry

(* Any other epoch is not supported and ends the pass, as a failed send    *)
(* does (the number it used is covered by a record that was lost).         *)
AbortRetransmission ==
    /\ resend' = 0
    /\ UNCHANGED <<tx, wire>>

ResendEntry ==
    /\ resend # 0
    /\ \/ ResendCurrent(flight[resend])
       \/ ResendHandshakeEpoch(flight[resend])
       \/ AbortRetransmission
    /\ UNCHANGED <<flight, rx, opened>>

-----------------------------------------------------------------------------
(* The reader. *)

Low(epoch) == epoch % LowEpochs

(* The sequence number field of the unified header: one byte as long as    *)
(* the number fits, two bytes of a larger one.                             *)
FieldRange(seq) == IF seq < ShortRange THEN ShortRange ELSE LongRange
Truncated(seq) == seq % FieldRange(seq)

\* Mutant: half a field ahead is taken for half a field behind
ReconstructEarly(highest, truncated, range) ==
    LET expected == highest.seq + 1
        candidate == expected - (expected % range) + truncated
    IN  CASE ~ highest.valid -> truncated
          [] highest.valid /\ candidate + range \div 2 <= expected -> candidate + range
          [] highest.valid /\ candidate > expected /\ candidate >= range -> candidate - range
          [] OTHER -> candidate

(* dtls13_reconstruct_record_number: the number with these low bits that   *)
(* is closest to the next one expected.                                    *)
Reconstruct(highest, truncated, range) ==
    LET expected == highest.seq + 1
        candidate == expected - (expected % range) + truncated
    IN  CASE ~ highest.valid -> truncated
          [] highest.valid /\ candidate + range \div 2 <= expected -> candidate + range
          [] highest.valid /\ candidate > expected + range \div 2 /\ candidate >= range ->
               candidate - range
          [] OTHER -> candidate

\* Mutant: the handshake keys answer to their low bits for one epoch too long
KeyEpochLate(low) ==
    IF /\ low = Low(DTLS13_EPOCH_HANDSHAKE)
       /\ rx.read_connection_epoch <= DTLS13_EPOCH_HANDSHAKE + LowEpochs
    THEN DTLS13_EPOCH_HANDSHAKE
    ELSE rx.read_connection_epoch

(* use_handshake: the epoch whose keys are tried. *)
KeyEpoch(low) ==
    IF /\ low = Low(DTLS13_EPOCH_HANDSHAKE)
       /\ rx.read_connection_epoch < DTLS13_EPOCH_HANDSHAKE + LowEpochs
    THEN DTLS13_EPOCH_HANDSHAKE
    ELSE rx.read_connection_epoch

FullSeq(rec) ==
    Reconstruct(rx.highest_recv_seq[Low(rec.epoch)], Truncated(rec.seq), FieldRange(rec.seq))

(* noxtls_tls13_decrypt_dtls13_record succeeds. *)
Opens(rec) ==
    /\ KeyEpoch(Low(rec.epoch)) = rec.epoch
    /\ FullSeq(rec) = rec.seq
    /\ CheckReplay(rx.replay_windows[Low(rec.epoch)], FullSeq(rec))

(* What it leaves in the reader's state. *)
RecordOpened(rec) ==
    LET low == Low(rec.epoch)
    IN  [rx EXCEPT
           !.replay_windows[low] = UpdateReplayWindow(@, rec.seq),
           !.highest_recv_seq[low] =
               IF ~ @.valid \/ rec.seq > @.seq THEN [valid |-> TRUE, seq |-> rec.seq] ELSE @]

\* Mutant: the window kept for the low bits is not cleared
NextReadEpochKeepsWindow(r) ==
    LET epoch == r.read_connection_epoch + 1
    IN  [r EXCEPT !.read_connection_epoch = epoch,
                  !.highest_recv_seq[Low(epoch)] = NoneReceived]

(* tls13_install_client_application_read_keys (server),                    *)
(* tls13_install_application_keys (client) and                             *)
(* tls13_update_read_traffic_secret: the state kept for the low bits of    *)
(* the new epoch belonged to an older one.                                 *)
NextReadEpoch(r) ==
    LET epoch == r.read_connection_epoch + 1
    IN  [r EXCEPT !.read_connection_epoch = epoch,
                  !.replay_windows[Low(epoch)] = EmptyWindow,
                  !.highest_recv_seq[Low(epoch)] = NoneReceived]

(* The message in the record changes the read epoch: the Finished in the   *)
(* handshake (the application read keys are installed before the next      *)
(* read), and a KeyUpdate of the current epoch. A repeated Finished is old *)
(* and changes nothing.                                                    *)
AdvancesReadEpoch(rec) ==
    /\ rec.epoch = rx.read_connection_epoch
    /\ rec.body = IF rec.epoch = DTLS13_EPOCH_HANDSHAKE THEN "Finished" ELSE "KeyUpdate"

Receive(rec) ==
    /\ Opens(rec)
    /\ rx' = IF AdvancesReadEpoch(rec) /\ rx.read_connection_epoch < MaxEpoch
             THEN NextReadEpoch(RecordOpened(rec))
             ELSE RecordOpened(rec)
    /\ opened' = opened \cup {rec}
    /\ UNCHANGED <<tx, flight, resend, wire>>

-----------------------------------------------------------------------------
Writer ==
    \/ SendRecord
    \/ SendFinished
    \/ InstallApplicationWriteKeys
    \/ SendKeyUpdate
    \/ ReleaseFlight
    \/ StartRetransmission
    \/ ResendEntry

Next == Writer \/ \E rec \in wire : Receive(rec)

Spec == Init /\ [][Next]_vars

-----------------------------------------------------------------------------
TypeOK ==
    /\ tx \in [epoch : Epochs, write_seq_num : SeqNums, prev_write_seq_num : SeqNums]
    /\ flight \in Seq(FlightEntries)
    /\ resend \in 0 .. Len(flight)
    /\ rx \in [read_connection_epoch : Epochs,
               replay_windows : [Lows -> ReplayWindows],
               highest_recv_seq : [Lows -> [valid : BOOLEAN, seq : SeqNums]]]
    /\ wire \subseteq Records
    /\ opened \subseteq Records

(* A record number is never used for two payloads of an epoch, although    *)
(* noxtls_tls13_send_dtls13_encrypted_record numbers records from          *)
(* write_seq_num and tls13_retransmit_handshake numbers those of the       *)
(* handshake epoch from prev_write_seq_num, across KeyUpdates.             *)
NonceUnique ==
    \A a, b \in wire : (a.epoch = b.epoch /\ a.seq = b.seq) => a = b

(* No record noxtls_tls13_decrypt_dtls13_record opened would be opened     *)
(* again: not when the low bits of its epoch come back with a later epoch  *)
(* and the window kept for them is reset, nor through a number             *)
(* reconstructed from a later state.                                       *)
NoReplay == \A rec \in opened : ~ Opens(rec)

(* Every number on the wire is below the counter that numbers its epoch    *)
(* next: write_seq_num for the current epoch and, while the handshake      *)
(* epoch can still be resent, prev_write_seq_num for that one.             *)
WireBelowCounters ==
    \A rec \in wire :
        /\ rec.epoch <= tx.epoch
        /\ rec.epoch = tx.epoch => rec.seq < tx.write_seq_num
        /\ (rec.epoch = DTLS13_EPOCH_HANDSHAKE /\ tx.epoch = DTLS13_EPOCH_APPLICATION)
              => rec.seq < tx.prev_write_seq_num

(* The window kept for some low bits remembers every record opened with    *)
(* the keys that answer to those bits now: none lies above last_seq, and   *)
(* those inside the window have their bit.                                 *)
OpenedIsRecorded ==
    \A rec \in opened :
        LET win == rx.replay_windows[Low(rec.epoch)]
        IN  /\ rec.epoch <= rx.read_connection_epoch
            /\ KeyEpoch(Low(rec.epoch)) = rec.epoch =>
                  /\ rec.seq <= win.last_seq
                  /\ win.last_seq - rec.seq < ReplayWindowSize
                       => win.last_seq - rec.seq \in win.window_bitmap

(* The inductive invariant of the record layer. *)
Inv == TypeOK /\ NonceUnique /\ WireBelowCounters /\ OpenedIsRecorded

(* How far ahead of everything received a number may be: half of what the  *)
(* field can tell apart.                                                   *)
InReach(highest, seq) ==
    IF highest.valid THEN seq <= highest.seq + 1 + LongRange \div 2 ELSE seq < LongRange

(* A record the reader has the keys for and has not opened still opens     *)
(* while it is within the window or not too far ahead: the truncated       *)
(* number is reconstructed right, across the change from one byte to two   *)
(* and after epochs that shared its low bits.                              *)
NoFalseReject ==
    \A rec \in wire \ opened :
        LET low == Low(rec.epoch)
        IN  /\ KeyEpoch(low) = rec.epoch
            /\ rx.replay_windows[low].last_seq - rec.seq < ReplayWindowSize
            /\ InReach(rx.highest_recv_seq[low], rec.seq)
            => Opens(rec)

=============================================================================
