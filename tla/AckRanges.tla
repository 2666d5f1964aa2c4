----------------------------- MODULE AckRanges -----------------------------
(***************************************************************************)
(* The ranges of record numbers a DTLS 1.3 endpoint has still to           *)
(* acknowledge: dtls_ack_range_add of noxtls_dtls_common.c and its copy    *)
(* tls13_dtls_ack_range_add of noxtls_tls13.c.  The array is kept in       *)
(* order of arrival; ack_range_valid is modelled by "ranges is not empty"  *)
(* (the code sets and clears the flag together with the count).            *)
(***************************************************************************)
EXTENDS Integers, Sequences, SequencesExt

CONSTANT InitialCapacity     \* slots allocated first (4 in the build)

Span(min, max) == [min |-> min, max |-> max]

(* The record numbers of a sequence of ranges. *)
Covered(ranges) == UNION { ranges[i].min .. ranges[i].max : i \in DOMAIN ranges }

\* Mutant: a gap of one record number is closed as if it had been received
TouchesOverGap(r, s) == s.min <= r.max + 2 /\ s.max + 1 >= r.min

(* The ranges overlap or are adjacent. *)
Touches(r, s) == s.min <= r.max + 1 /\ s.max + 1 >= r.min

Hull(r, s) ==
    [min |-> IF s.min < r.min THEN s.min ELSE r.min,
     max |-> IF s.max > r.max THEN s.max ELSE r.max]

\* Mutant: the absorbed range is removed and its numbers are lost
AbsorbTurnWithoutHull(scan, i) ==
    IF Touches(scan.ranges[i], scan.ranges[scan.j])
    THEN [scan EXCEPT !.ranges = RemoveAt(@, scan.j)]
    ELSE [scan EXCEPT !.j = @ + 1]

(* One turn of the inner coalescing loop: range i absorbs range j, whose   *)
(* place the later ones move into, or the loop goes on to the next.        *)
AbsorbTurn(scan, i) ==
    LET r == scan.ranges[i]
        s == scan.ranges[scan.j]
    IN  IF Touches(r, s)
        THEN [scan EXCEPT !.ranges = RemoveAt([@ EXCEPT ![i] = Hull(r, s)], scan.j)]
        ELSE [scan EXCEPT !.j = @ + 1]

(* The inner loop: each turn leaves one range less to compare with.        *)
AbsorbTurns(ranges, i) ==
    LET scan[n \in 0 .. Len(ranges) - i] ==
            IF n = 0 THEN [ranges |-> ranges, j |-> i + 1] ELSE AbsorbTurn(scan[n - 1], i)
    IN  scan

Absorb(ranges, i) == AbsorbTurns(ranges, i)[Len(ranges) - i].ranges

(* The outer loop; it ends early when ranges were absorbed. *)
CoalesceTurn(ranges, i) == IF i > Len(ranges) THEN ranges ELSE Absorb(ranges, i)

CoalesceTurns(ranges) ==
    LET pass[i \in 0 .. Len(ranges)] ==
            IF i = 0 THEN ranges ELSE CoalesceTurn(pass[i - 1], i)
    IN  pass

\* Mutant: a number that closes a gap leaves two adjacent ranges
CoalesceNothing(ranges) == ranges

Coalesce(ranges) == CoalesceTurns(ranges)[Len(ranges)]

Smaller(a, b) == IF a < b THEN a ELSE b

\* Mutant: the array is not checked for a free slot
AppendRangeUnchecked(a, limit, range, alloc_ok) ==
    [a EXCEPT !.ranges = Append(@, range)]

(* A range for a number that touches none: a free slot, a slot of a larger *)
(* array, or, at the limit, the slot of the range that was noted first.    *)
(* When the array cannot grow the number is not noted.                     *)
AppendRange(a, limit, range, alloc_ok) ==
    LET full == Len(a.ranges) >= a.capacity
    IN  CASE ~ full ->
               [a EXCEPT !.ranges = Append(@, range)]
          [] full /\ a.capacity >= limit ->
               [a EXCEPT !.ranges = Append(Tail(@), range)]
          [] full /\ a.capacity < limit /\ alloc_ok ->
               [a EXCEPT !.ranges = Append(@, range),
                         !.capacity = Smaller(2 * @, limit)]
          [] OTHER -> a

(* tls13_dtls_ack_range_add(ctx, epoch, seq). a holds ack_pending,         *)
(* ack_epoch, the arrays and ack_range_capacity; alloc_ok is the outcome   *)
(* of the allocation the call makes, if it makes one.                      *)
AckRangeAdd(a, limit, epoch, seq, alloc_ok) ==
    LET allocated ==
            IF a.capacity = 0 THEN [a EXCEPT !.capacity = Smaller(limit, InitialCapacity)]
                              ELSE a
        restart == ~ a.pending \/ a.ranges = << >> \/ a.epoch # epoch
        touching == { i \in DOMAIN a.ranges : Touches(a.ranges[i], Span(seq, seq)) }
        first == CHOOSE i \in touching : \A j \in touching : i <= j
        noted ==
            IF touching # {}
            THEN [a EXCEPT !.ranges[first] = Hull(@, Span(seq, seq))]
            ELSE AppendRange(a, limit, Span(seq, seq), alloc_ok)
    IN  CASE a.capacity = 0 /\ ~ alloc_ok -> [a EXCEPT !.ranges = << >>]
          [] (a.capacity # 0 \/ alloc_ok) /\ restart ->
               [allocated EXCEPT !.epoch = epoch, !.ranges = <<Span(seq, seq)>>]
          [] OTHER -> [noted EXCEPT !.ranges = Coalesce(@)]

NoAck == [pending |-> FALSE, epoch |-> 0, ranges |-> << >>, capacity |-> 0]

(* tls13_dtls_flush_ack after a successful send, and the arrival of an ACK *)
(* handshake message, forget the ranges and keep the array.                *)
AckCleared(a) == [a EXCEPT !.pending = FALSE, !.ranges = << >>]

(* tls13_dtls_flush_ack has something to send. *)
AckDue(a) == a.pending /\ a.ranges # << >>

=============================================================================
