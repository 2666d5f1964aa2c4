---------------------------- MODULE AckTracking ----------------------------
(***************************************************************************)
(* One endpoint noting received handshake records for acknowledgement and  *)
(* flushing ACKs: the callers of AckRanges.  Records arrive in any order   *)
(* and repeatedly, the peer's epoch may change between two of them, any    *)
(* allocation and any send may fail and the application may lower the      *)
(* range limit at any time.                                                *)
(***************************************************************************)
EXTENDS AckRanges, FiniteSets

CONSTANTS
    Epochs,          \* epochs handshake records arrive in
    LastSeq,         \* bound on record numbers
    Limits           \* limits the application sets (1 .. DTLS_MAX_ACK_RANGES)

Seqs == 0 .. LastSeq

ASSUME AckAssumption ==
    /\ InitialCapacity \in Nat \ {0}
    /\ LastSeq \in Nat
    /\ Limits \subseteq Nat \ {0}
    /\ Epochs \subseteq Nat
    /\ Epochs # {} /\ Limits # {}

VARIABLES
    ack_state,       \* ack_pending, ack_epoch, ack_ranges_min/max, ack_range_capacity
    ack_range_limit,
    owed,            \* history: numbers received in ack_epoch since the last ACK
    pressed          \* history: an allocation failed or the limit was reached since

ackVars == <<ack_state, ack_range_limit, owed, pressed>>

AckInit ==
    /\ ack_state = NoAck
    /\ ack_range_limit \in Limits
    /\ owed = {}
    /\ pressed = FALSE

(* How many ranges a set of numbers needs. *)
Runs(numbers) == Cardinality({ n \in numbers : n - 1 \notin numbers })

-----------------------------------------------------------------------------
(* A handshake record was read and kept: its number is noted and an ACK is *)
(* due.                                                                    *)
ReceiveHandshake(epoch, seq, alloc_ok) ==
    LET continues == ack_state.pending /\ ack_state.ranges # << >> /\ ack_state.epoch = epoch
        now_owed == IF continues THEN owed \cup {seq} ELSE {seq}
    IN  /\ ack_state' = [AckRangeAdd(ack_state, ack_range_limit, epoch, seq, alloc_ok)
                           EXCEPT !.pending = TRUE]
        /\ owed' = now_owed
        /\ pressed' = \/ ~ alloc_ok
                      \/ Runs(now_owed) > ack_range_limit
                      \/ continues /\ pressed
        /\ UNCHANGED ack_range_limit

(* tls13_dtls_flush_ack sends the ranges. When the send or the allocation  *)
(* of the message fails they stay, with the next record's number added.    *)
FlushAck ==
    /\ AckDue(ack_state)
    /\ ack_state' = AckCleared(ack_state)
    /\ owed' = {}
    /\ pressed' = FALSE
    /\ UNCHANGED ack_range_limit

(* An ACK handshake message arrived: nothing is owed any more. *)
ReceiveAckMessage ==
    /\ ack_state' = AckCleared(ack_state)
    /\ owed' = {}
    /\ pressed' = FALSE
    /\ UNCHANGED ack_range_limit

(* noxtls_dtls_set_ack_range_limit and dtls_shrink_ack_ranges: a smaller   *)
(* limit moves the ranges to a smaller array, where the last ones may not  *)
(* fit; without memory for it the larger array stays.                      *)
SetAckRangeLimit(max_ranges, alloc_ok) ==
    /\ ack_range_limit' = max_ranges
    /\ ack_state' = IF ack_state.capacity > max_ranges /\ alloc_ok
                    THEN [ack_state EXCEPT
                            !.capacity = max_ranges,
                            !.ranges = SubSeq(@, 1, Smaller(Len(@), max_ranges))]
                    ELSE ack_state
    /\ pressed' = (pressed \/ ack_state.capacity > max_ranges)
    /\ UNCHANGED owed

AckNext ==
    \/ \E epoch \in Epochs, seq \in Seqs, alloc_ok \in BOOLEAN :
          ReceiveHandshake(epoch, seq, alloc_ok)
    \/ FlushAck
    \/ ReceiveAckMessage
    \/ \E max_ranges \in Limits, alloc_ok \in BOOLEAN :
          SetAckRangeLimit(max_ranges, alloc_ok)

AckSpec == AckInit /\ [][AckNext]_ackVars

-----------------------------------------------------------------------------
(* The ranges always fit the array allocated for them.                     *)
AckTypeOK ==
    /\ ack_state.pending \in BOOLEAN
    /\ ack_state.epoch \in Epochs \cup {0}
    /\ \A i \in DOMAIN ack_state.ranges : ack_state.ranges[i] \in [min : Seqs, max : Seqs]
    /\ Len(ack_state.ranges) <= ack_state.capacity
    /\ ack_range_limit \in Limits

(* Only received records are acknowledged: merging ranges, evicting them,  *)
(* moving them between arrays and changing the epoch never makes a number  *)
(* up in the ranges dtls_ack_range_add keeps and tls13_dtls_flush_ack      *)
(* sends.                                                                  *)
AckedWereReceived == Covered(ack_state.ranges) \subseteq owed

(* The ranges are maximal: no two of them overlap or are adjacent, so none *)
(* of the few slots of dtls_ack_range_add is wasted.                       *)
RangesSeparate ==
    \A i, j \in DOMAIN ack_state.ranges :
        i # j => ~ Touches(ack_state.ranges[i], ack_state.ranges[j])

(* Unless memory ran out or more ranges than the limit were needed, every  *)
(* record received since the last ACK is in the ranges of                  *)
(* dtls_ack_range_add: eviction and merging lose nothing otherwise.        *)
NothingForgotten ==
    ~ pressed /\ ack_state.pending => Covered(ack_state.ranges) = owed

=============================================================================
