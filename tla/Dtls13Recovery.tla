--------------------------- MODULE Dtls13Recovery ---------------------------
(***************************************************************************)
(* Recovery of the client's last DTLS 1.3 handshake flight over a network  *)
(* that loses, repeats and reorders datagrams.                             *)
(*                                                                         *)
(* The client protects one record per handshake message (Certificate,      *)
(* CertificateVerify and Finished with client authentication, Finished     *)
(* alone otherwise), keeps the messages in its flight buffer, is connected *)
(* at once, and resends the flight under fresh record numbers whenever a   *)
(* read times out, until one ACK covers the record numbers of the flight   *)
(* or the attempt budget is spent.  The server accepts the messages in     *)
(* order, notes the record numbers, sends one ACK when it verified the     *)
(* Finished, and afterwards acknowledges each record that repeats a        *)
(* message it has processed.                                               *)
(*                                                                         *)
(* Record numbers stand for numbers of the handshake epoch; the replay     *)
(* window is exact here (it is the subject of Dtls13Record), and so is     *)
(* memory (AckTracking has the failing allocations).                       *)
(***************************************************************************)
EXTENDS AckRanges, FiniteSets

CONSTANTS
    Settings,        \* the settings considered, see SettingAssumption
    Burst,           \* DTLS_RETRANSMIT_RECORD_BURST (10 in the build)
    AckRangeLimit    \* DTLS_MAX_ACK_RANGES (32 in the build)

ASSUME SettingAssumption ==
    \A s \in Settings :
        /\ s.messages \in Nat \ {0}   \* records (= messages) of the client's flight
        /\ s.attempts \in Nat         \* retransmit_max_attempts (4 by default)
        /\ s.loss \in Nat             \* bound on lost datagrams and failed sends
        /\ s.dup \in Nat              \* bound on datagrams the network repeats
        /\ s.patient \in BOOLEAN      \* the timer exceeds the round trip time

ASSUME LimitAssumption ==
    /\ Burst \in Nat \ {0}
    /\ AckRangeLimit \in Nat \ {0}
    /\ InitialCapacity \in Nat \ {0}

VARIABLES
    setting,    \* never changes
    client,     \* the client's flight and its retransmission state
    server,     \* the server's progress through the flight, and its ACK state
    to_server,  \* records in transit, as [seq, message]
    to_client,  \* ACKs in transit, as sequences of ranges
    losses, dups

vars == <<setting, client, server, to_server, to_client, losses, dups>>

NumMessages == setting.messages
MaxAttempts == setting.attempts
MaxLoss == setting.loss
MaxDup == setting.dup
PatientTimer == setting.patient

Messages == 1 .. NumMessages
DTLS13_EPOCH_HANDSHAKE == 2
MaxSeq == NumMessages * (MaxAttempts + 1)    \* numbers the budget can use

NoRange == [has |-> FALSE, min |-> 0, max |-> 0]

Init ==
    /\ setting \in Settings
    /\ client = [sent |-> 0,             \* messages sent so far
                 flight |-> 0,           \* messages in flight_buffer: 1 .. flight
                 write_seq |-> 0,        \* (prev_)write_seq_num of the epoch
                 range |-> NoRange,      \* flight_has_range, flight_min/max_seq
                 last_ack |-> NoRange,   \* last_ack_valid, last_ack_range_min/max
                 attempts |-> 0,         \* retransmit_count
                 resend |-> 0,           \* next entry of the running pass, 0: none
                 started |-> FALSE]      \* protected_range_started
    /\ server = [expected |-> 1,         \* expected_message_seq
                 state |-> "handshaking",
                 opened |-> {},          \* records opened (replay window)
                 ack |-> NoAck,
                 final_ack |-> << >>]    \* the retained ACK
    /\ to_server = {}
    /\ to_client = {}
    /\ losses = 0
    /\ dups = 0

Connected == client.sent = NumMessages

(* A datagram, or an answer the server is about to send, is on its way. *)
InFlight == to_server # {} \/ to_client # {} \/ server.state = "flush"

-----------------------------------------------------------------------------
(* The client. *)

(* dtls_flight_note_handshake_seq *)
NoteHandshakeSeq(range, seq) ==
    [has |-> TRUE,
     min |-> IF range.has /\ range.min <= seq THEN range.min ELSE seq,
     max |-> IF range.has /\ range.max >= seq THEN range.max ELSE seq]

(* noxtls_tls13_connect sends the next message of the flight; the record   *)
(* is buffered before it is sent. A send that fails ends connect with an   *)
(* error and is not followed further.                                      *)
SendMessage ==
    /\ ~ Connected
    /\ client' = [client EXCEPT
                    !.sent = @ + 1,
                    !.flight = @ + 1,
                    !.range = NoteHandshakeSeq(@, client.write_seq),
                    !.write_seq = @ + 1]
    /\ to_server' = to_server \cup {[seq |-> client.write_seq, message |-> client.sent + 1]}
    /\ UNCHANGED <<server, to_client, losses, dups>>

Covers(ack, range) == range.has /\ ack.has /\ ack.min <= range.min /\ ack.max >= range.max

\* Mutant: the pass starts behind the message that was sent first
StartRetransmissionLate ==
    /\ Connected
    /\ client.resend = 0
    /\ client.flight > 1
    /\ client.attempts < MaxAttempts
    /\ PatientTimer => ~ InFlight
    /\ client' = [client EXCEPT !.attempts = @ + 1, !.resend = 2, !.started = FALSE]
    /\ UNCHANGED <<server, to_server, to_client, losses, dups>>

(* A read timed out (dtls_read_datagram): one attempt is spent and a pass  *)
(* over the flight starts, unless the last ACK covers the flight.          *)
StartRetransmission ==
    /\ Connected
    /\ client.resend = 0
    /\ client.flight > 0
    /\ client.attempts < MaxAttempts
    /\ PatientTimer => ~ InFlight
    /\ client' = [client EXCEPT
                    !.attempts = @ + 1,
                    !.resend = IF Covers(client.last_ack, client.range) THEN 0 ELSE 1,
                    !.started = FALSE]
    /\ UNCHANGED <<server, to_server, to_client, losses, dups>>

\* Mutant: the pass runs one entry past the end of the flight buffer
NextEntryPastEnd(entry) ==
    IF entry <= client.flight /\ entry < Burst THEN entry + 1 ELSE 0

(* The pass continues while entries are left and the burst is not spent. *)
NextEntry(entry) == IF entry < client.flight /\ entry < Burst THEN entry + 1 ELSE 0

(* tls13_retransmit_handshake protects the entry under the next number;    *)
(* the first entry of a pass replaces the range of the flight.             *)
ResendEntry ==
    /\ client.resend > 0
    /\ client' = [client EXCEPT
                    !.resend = NextEntry(@),
                    !.started = TRUE,
                    !.range = NoteHandshakeSeq(IF client.started THEN @ ELSE NoRange,
                                               client.write_seq),
                    !.write_seq = @ + 1]
    /\ to_server' = to_server \cup {[seq |-> client.write_seq, message |-> client.resend]}
    /\ UNCHANGED <<server, to_client, losses, dups>>

(* The send failed: the number is used, the pass ends, the range stays. *)
ResendFails ==
    /\ client.resend > 0
    /\ losses < MaxLoss
    /\ client' = [client EXCEPT !.resend = 0, !.write_seq = @ + 1]
    /\ losses' = losses + 1
    /\ UNCHANGED <<server, to_server, to_client, dups>>

AckHull(ranges) ==
    LET ends(which) == { ranges[i][which] : i \in DOMAIN ranges }
    IN  [has |-> TRUE,
         min |-> CHOOSE n \in ends("min") : \A k \in ends("min") : n <= k,
         max |-> CHOOSE n \in ends("max") : \A k \in ends("max") : n >= k]

(* tls13_dtls_handle_ack: the flight is released when the span of the ACK  *)
(* (from its lowest to its highest number, gaps included) covers the       *)
(* flight's numbers.                                                       *)
HandleAck(ranges, remaining) ==
    /\ Connected
    /\ client.resend = 0
    /\ client' = [client EXCEPT
                    !.last_ack = AckHull(ranges),
                    !.flight = IF Covers(AckHull(ranges), client.range) THEN 0 ELSE @,
                    !.range.has = @ /\ ~ Covers(AckHull(ranges), client.range)]
    /\ to_client' = remaining
    /\ UNCHANGED <<server, to_server, losses>>

-----------------------------------------------------------------------------
(* The server. *)

NoteRecord(ack, seq) ==
    [AckRangeAdd(ack, AckRangeLimit, DTLS13_EPOCH_HANDSHAKE, seq, TRUE)
        EXCEPT !.pending = TRUE]

\* Mutant: the record of a message that is discarded is acknowledged too
AcceptRecordAcksAll(m) ==
    LET taken == m.message = server.expected
        done == taken /\ m.message = NumMessages
    IN  server' = [server EXCEPT
                     !.opened = @ \cup {m},
                     !.expected = IF taken THEN @ + 1 ELSE @,
                     !.ack = NoteRecord(@, m.seq),
                     !.state = IF done THEN "flush" ELSE @]

(* noxtls_tls13_accept, in tls13_recv_handshake_message: the expected      *)
(* message is taken and its record noted; a later message is discarded     *)
(* without an ACK, and so is an earlier one (both return TIMEOUT). The     *)
(* verified Finished is the last message.                                  *)
AcceptRecord(m) ==
    LET taken == m.message = server.expected
        done == taken /\ m.message = NumMessages
    IN  server' = [server EXCEPT
                     !.opened = @ \cup {m},
                     !.expected = IF taken THEN @ + 1 ELSE @,
                     !.ack = IF taken THEN NoteRecord(@, m.seq) ELSE @,
                     !.state = IF done THEN "flush" ELSE @]

\* Mutant: a connected server drops what it has processed
RepeatedRecordDropped(m, send_ok) ==
    /\ server' = [server EXCEPT !.opened = @ \cup {m}]
    /\ UNCHANGED <<to_client, losses>>

(* noxtls_tls13_recv of a connected server, in                             *)
(* tls13_dtls_recv_post_handshake: every message of the flight is          *)
(* processed, so its record is acknowledged again, at once.                *)
RepeatedRecord(m, send_ok) ==
    LET ack == NoteRecord(server.ack, m.seq)
    IN  /\ server' = [server EXCEPT !.opened = @ \cup {m},
                                    !.ack = IF send_ok THEN AckCleared(ack) ELSE ack]
        /\ to_client' = IF send_ok THEN to_client \cup {ack.ranges} ELSE to_client
        /\ losses' = IF send_ok THEN losses ELSE losses + 1

(* A record that repeats a number is discarded (both states). *)
ReceiveReplayed(m) ==
    /\ server.state \in {"handshaking", "connected"}
    /\ m \in server.opened
    /\ UNCHANGED <<server, to_client, losses>>

ReceiveFresh(m) ==
    /\ m \notin server.opened
    /\ \/ /\ server.state = "handshaking"
          /\ AcceptRecord(m)
          /\ UNCHANGED <<to_client, losses>>
       \/ /\ server.state = "connected"
          /\ \E send_ok \in BOOLEAN :
                /\ send_ok \/ losses < MaxLoss
                /\ RepeatedRecord(m, send_ok)

\* Mutant: an ACK is flushed for each message, before the flight is complete
FlushEachAck ==
    /\ AckDue(server.ack)
    /\ server.state \in {"handshaking", "flush"}
    /\ to_client' = to_client \cup {server.ack.ranges}
    /\ server' = [server EXCEPT !.state = IF @ = "flush" THEN "connected" ELSE @,
                                !.ack = AckCleared(@)]
    /\ UNCHANGED <<client, to_server, losses, dups>>

(* TLS13_SERVER_HS_STEP_FLUSH_ACK: tls13_dtls_flush_ack(ctx, 1) sends and  *)
(* retains the ACK; the server is connected.                               *)
FlushFinalAck ==
    /\ server.state = "flush"
    /\ to_client' = to_client \cup {server.ack.ranges}
    /\ server' = [server EXCEPT !.state = "connected",
                                !.final_ack = server.ack.ranges,
                                !.ack = AckCleared(@)]
    /\ UNCHANGED <<client, to_server, losses, dups>>

-----------------------------------------------------------------------------
(* The network (external): a datagram is delivered, delivered and kept for *)
(* another delivery, or lost.                                              *)

DeliverToServer ==
    \E m \in to_server :
        /\ ReceiveReplayed(m) \/ ReceiveFresh(m)
        /\ to_server' = to_server \ {m}
        /\ UNCHANGED <<client, dups>>

DeliverToClient ==
    \E a \in to_client : HandleAck(a, to_client \ {a}) /\ UNCHANGED dups

RepeatToServer ==
    \E m \in to_server :
        /\ dups < MaxDup
        /\ ReceiveReplayed(m) \/ ReceiveFresh(m)
        /\ dups' = dups + 1
        /\ UNCHANGED <<client, to_server>>

RepeatToClient ==
    \E a \in to_client :
        /\ dups < MaxDup
        /\ HandleAck(a, to_client)
        /\ dups' = dups + 1

Lose ==
    /\ losses < MaxLoss
    /\ losses' = losses + 1
    /\ \/ \E m \in to_server : to_server' = to_server \ {m} /\ UNCHANGED to_client
       \/ \E a \in to_client : to_client' = to_client \ {a} /\ UNCHANGED to_server
    /\ UNCHANGED <<client, server, dups>>

ClientNext == SendMessage \/ StartRetransmission \/ ResendEntry \/ ResendFails
NetworkNext == DeliverToServer \/ DeliverToClient \/ RepeatToServer \/ RepeatToClient \/ Lose

Next == (ClientNext \/ FlushFinalAck \/ NetworkNext) /\ UNCHANGED setting

Spec == Init /\ [][Next]_vars

(* The endpoints keep running: connect sends what is due, a read that      *)
(* timed out starts a pass and a pass ends, the server reads and flushes.  *)
(* What the network does not lose it delivers.                             *)
Fairness ==
    /\ WF_vars(SendMessage /\ UNCHANGED setting)
    /\ WF_vars(StartRetransmission /\ UNCHANGED setting)
    /\ WF_vars(ResendEntry /\ UNCHANGED setting)
    /\ WF_vars(FlushFinalAck /\ UNCHANGED setting)
    /\ WF_vars(DeliverToServer /\ UNCHANGED setting)
    /\ WF_vars(DeliverToClient /\ UNCHANGED setting)

FairSpec == Spec /\ Fairness

-----------------------------------------------------------------------------
(* Properties *)

Ranges == [min : 0 .. MaxSeq, max : 0 .. MaxSeq]

TypeOK ==
    /\ client.sent \in 0 .. NumMessages
    /\ client.flight \in 0 .. client.sent
    /\ client.write_seq \in 0 .. MaxSeq
    /\ client.range.min \in 0 .. MaxSeq /\ client.range.max \in 0 .. MaxSeq
    /\ client.attempts \in 0 .. MaxAttempts
    /\ client.resend \in 0 .. client.flight
    /\ server.expected \in 1 .. NumMessages + 1
    /\ server.state \in {"handshaking", "flush", "connected"}
    /\ server.opened \subseteq [seq : 0 .. MaxSeq, message : Messages]
    /\ to_server \subseteq [seq : 0 .. MaxSeq, message : Messages]
    /\ \A a \in to_client : a # << >> /\ \A i \in DOMAIN a : a[i] \in Ranges

(* The client forgets its flight only when the server has taken every      *)
(* message of it: tls13_dtls_handle_ack may compare the span of an ACK,    *)
(* and the range of a flight whose last pass was cut short, only because   *)
(* no ACK leaves the server before the flight is complete.                 *)
ReleasedMeansDelivered ==
    client.flight < client.sent => server.expected > NumMessages

(* A record is acknowledged only once its message is processed ("discarded *)
(* future messages must remain unacknowledged",                            *)
(* tls13_dtls_recv_post_handshake): no range of the server, merged as      *)
(* ranges are, holds the number of a record it opened and discarded.       *)
UnprocessedIsUnacked ==
    \A m \in server.opened :
        m.seq \in Covered(server.ack.ranges) => m.message < server.expected

(* Every message of the flight reaches a server that completes the         *)
(* handshake, although each loss and each reordering may cost a pass of    *)
(* the attempt budget: dtls_read_datagram, noxtls_tls13_accept. (A timer   *)
(* that fires early spends the budget without a loss.)                     *)
FlightDelivered == PatientTimer => <>(server.state = "connected")

(* A client whose flight is its Finished alone ends without it: the        *)
(* retransmission buffer and timer of tls13_dtls_handle_ack do not outlive *)
(* the handshake, whichever records and ACKs are lost.                     *)
FinishedReleased == PatientTimer /\ NumMessages = 1 => <>[](client.flight = 0)

(* The same of every flight a client may send.                             *)
FlightReleased == <>[](client.flight = 0)

=============================================================================
