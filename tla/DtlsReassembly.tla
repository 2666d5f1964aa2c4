--------------------------- MODULE DtlsReassembly ---------------------------
(***************************************************************************)
(* Reassembly of DTLS handshake messages: the buffer of the message that   *)
(* is expected next, the queue of messages that arrived ahead of it, and   *)
(* the byte budget both share.  noxtls_tls_recv_record drives it for       *)
(* plaintext records (all of DTLS 1.2's handshake up to the Finished, and  *)
(* the Hellos of DTLS 1.3), tls13_dtls_append_inner_handshake_fragments    *)
(* for the protected records of DTLS 1.3.                                  *)
(*                                                                         *)
(* A message byte is abstracted to the message it comes from (its offset   *)
(* is where it is stored), so a message assembled from the bytes of two    *)
(* messages shows.  Fragments may be lost, repeated, reordered and cut     *)
(* anywhere; every allocation may fail, in reassembly (the message can     *)
(* still be completed later) and when a complete message is handed over    *)
(* (it is gone, and the caller gets an error).  The caller may read again  *)
(* after an error.  Bytes of Foreign come from plaintext datagrams that    *)
(* are not the peer's.                                                     *)
(***************************************************************************)
EXTENDS Integers, Sequences, FiniteSets, FiniteSetsExt, Functions

CONSTANTS
    NumMessages,     \* messages the peer sends: message_seq 0 .. NumMessages - 1
    Settings,        \* the settings considered, see ReassemblyAssumption
    MsgLen,          \* MsgLen[seq]: the body length of each
    MaxLen,          \* bound on body lengths (DTLS_MAX_HANDSHAKE_SIZE)
    QueueSize,       \* DTLS_REASSEMBLY_QUEUE_SIZE (4 in the build)
    MaxBytes,        \* NOXTLS_DTLS_REASSEMBLY_MAX_BYTES
    Foreign,         \* bytes and types that are not the peer's
    Zero             \* content of a byte that was not received

MessageSeqs == 0 .. NumMessages - 1
Offsets == 0 .. MaxLen - 1
Content == MessageSeqs \cup Foreign \cup {Zero}

ASSUME ReassemblyAssumption ==
    /\ NumMessages \in Nat
    /\ MaxLen \in Nat
    /\ MsgLen \in [MessageSeqs -> 0 .. MaxLen]
    /\ \A s \in Settings :
          /\ s.plain \in 0 .. NumMessages   \* messages before the read keys (all in DTLS 1.2)
          /\ s.exposed \in BOOLEAN          \* plaintext of others reaches the endpoint
    /\ QueueSize \in Nat \ {0}
    /\ MaxBytes \in Nat
    /\ Zero \notin MessageSeqs \cup Foreign

VARIABLES
    setting,      \* never changes
    delivered,    \* messages returned to the caller, as [message_seq, message, protected]
    lost,         \* complete messages for which the caller got an error instead
    expected_message_seq,
    hs,           \* the in-progress buffer: handshake_buffer and its companions
    queue,        \* the active slots of reassembly_queue, by message_seq
    protected,    \* DTLS 1.3: the read keys are installed
    failed        \* a fragment contradicted an earlier one: handshake aborted

vars == <<setting, delivered, lost, expected_message_seq, hs, queue, protected, failed>>

PlainMessages == setting.plain

(* Fragments the peer's message can be cut into, and foreign ones. *)
Fragments(lengths, source) ==
    { f \in [message_seq : MessageSeqs, msg_type : source, byte : source,
             length : 0 .. MaxLen, offset : 0 .. MaxLen, len : 0 .. MaxLen] :
        /\ f.offset + f.len <= f.length
        /\ f.msg_type = f.byte
        /\ f.length \in lengths[f.message_seq] }

PeerFragments ==
    { f \in Fragments([s \in MessageSeqs |-> {MsgLen[s]}], MessageSeqs) :
        f.byte = f.message_seq }

ForeignFragments == Fragments([s \in MessageSeqs |-> 0 .. MaxLen], Foreign)

Body(length, buffer) == [i \in 0 .. length - 1 |-> buffer[i]]

Message(seq) == [msg_type |-> seq, body |-> [i \in 0 .. MsgLen[seq] - 1 |-> seq]]

EmptyBuffer == [i \in Offsets |-> Zero]

Init ==
    /\ setting \in Settings
    /\ delivered = << >>
    /\ lost = {}
    /\ expected_message_seq = 0
    /\ hs = [buffer |-> EmptyBuffer, received |-> {}, received_count |-> 0,
             buffer_len |-> 0, capacity |-> 0, map_len |-> 0]
    /\ queue = << >>
    /\ protected = FALSE
    /\ failed = FALSE

-----------------------------------------------------------------------------
(* DTLS_RX_MAP_BYTES, and the allocation of a body. *)
AtLeastOne(len) == IF len = 0 THEN 1 ELSE len
RxMapBytes(len) == (AtLeastOne(len) + 7) \div 8

SlotBytes(slot) == slot.length + RxMapBytes(slot.length)

(* dtls_reassembly_bytes_held, the slot to be refilled left out of q: the   *)
(* active slots are added up one after the other.                           *)
BytesBelow(q) ==
    LET sum[n \in 0 .. NumMessages] ==
            IF n = 0 THEN 0
            ELSE sum[n - 1] + (IF n - 1 \in DOMAIN q THEN SlotBytes(q[n - 1]) ELSE 0)
    IN  sum

QueueBytes(q) == BytesBelow(q)[NumMessages]

BytesHeld(q) == hs.capacity + hs.map_len + QueueBytes(q)

Drop(q, seqs) == Restrict(q, DOMAIN q \ seqs)

(* dtls_reassembly_slot_apply_bytes, and the same loop over the in-progress *)
(* buffer: it stops at the first received byte that differs.                *)
FragmentRange(f) == f.offset .. f.offset + f.len - 1

Clash(b, f) == { i \in FragmentRange(f) \cap b.received : b.buffer[i] # f.byte }

(* Mutant of ApplyBytes: a repeated byte counts as received again. *)
ApplyBytesRecount(b, f) ==
    LET new == FragmentRange(f) \ b.received
    IN  [b EXCEPT !.buffer = [i \in Offsets |-> IF i \in new THEN f.byte ELSE @[i]],
                  !.received = @ \cup new,
                  !.received_count = @ + f.len]

ApplyBytes(b, f) ==
    LET new == { i \in FragmentRange(f) \ b.received : \A j \in Clash(b, f) : i < j }
    IN  [b EXCEPT !.buffer = [i \in Offsets |-> IF i \in new THEN f.byte ELSE @[i]],
                  !.received = @ \cup new,
                  !.received_count = @ + Cardinality(new)]

(* A complete message leaves reassembly: expected_message_seq has advanced  *)
(* when tls_dtls_deliver_handshake, or the DTLS 1.3 handshake buffer,       *)
(* allocates what the caller gets.  last_rx_message_seq is its number.      *)
HandOver(message) ==
    /\ delivered' = Append(delivered, [message_seq |-> expected_message_seq,
                                       message |-> message, protected |-> protected])
    /\ UNCHANGED lost

(* That allocation fails: the message is freed and the caller told. *)
LoseMessage ==
    /\ lost' = lost \cup {expected_message_seq}
    /\ UNCHANGED delivered

(* Mutant of Deliver: a message that cannot be handed over goes unreported. *)
DeliverOrForget(msg_type, body) ==
    /\ expected_message_seq' = expected_message_seq + 1
    /\ HandOver([msg_type |-> msg_type, body |-> body]) \/ UNCHANGED <<delivered, lost>>

Deliver(msg_type, body) ==
    /\ expected_message_seq' = expected_message_seq + 1
    /\ HandOver([msg_type |-> msg_type, body |-> body]) \/ LoseMessage

NothingDelivered == UNCHANGED <<delivered, lost, expected_message_seq>>

(* dtls_reassembly_slot_take_complete's condition. *)
QueuedReady ==
    /\ expected_message_seq \in DOMAIN queue
    /\ queue[expected_message_seq].received_count = queue[expected_message_seq].length

(* dtls_reassembly_slot_take_complete. *)
TakeComplete(msg_type) ==
    /\ Deliver(msg_type, Body(queue[expected_message_seq].length,
                              queue[expected_message_seq].buffer))
    /\ queue' = Drop(queue, {expected_message_seq})
    /\ UNCHANGED <<hs, protected, failed>>

(* The caller reads plaintext handshake messages until it was handed the    *)
(* last one before the read keys, and nothing between it and the keys.      *)
HandedUpTo == IF delivered = << >> THEN 0 ELSE delivered[Len(delivered)].message_seq + 1

ReadsPlaintext == ~failed /\ ~protected /\ HandedUpTo < PlainMessages

(* noxtls_dtls_take_queued_handshake, tried before every read of a          *)
(* plaintext record.                                                        *)
TakeQueued ==
    /\ ReadsPlaintext
    /\ QueuedReady
    /\ TakeComplete(queue[expected_message_seq].msg_type)

-----------------------------------------------------------------------------
(* A fragment of a later message: noxtls_dtls_reassemble_handshake with     *)
(* dtls_reassembly_slot_alloc and dtls_reassembly_slot_store.               *)

NewSlot(f) ==
    [msg_type |-> f.msg_type, length |-> f.length,
     buffer |-> EmptyBuffer, received |-> {}, received_count |-> 0]

(* dtls_reassembly_slot_alloc: a full queue gives up its lowest message. *)
AllocSlot(f) ==
    IF f.message_seq \in DOMAIN queue \/ Cardinality(DOMAIN queue) < QueueSize
    THEN queue
    ELSE Drop(queue, {Min(DOMAIN queue)})

SlotMatches(q, f) == f.message_seq \in DOMAIN q /\ q[f.message_seq].length = f.length

(* The slot is already this message's: type check, then the bytes. *)
StoreInSlot(f) ==
    /\ SlotMatches(queue, f)
    /\ LET slot == queue[f.message_seq]
           conflict == slot.msg_type # f.msg_type
       IN  /\ failed' = (conflict \/ Clash(slot, f) # {})
           /\ queue' = IF conflict THEN queue
                       ELSE [queue EXCEPT ![f.message_seq] = ApplyBytes(slot, f)]

(* A slot is (re)started.  Over the budget, or without memory, the message  *)
(* is dropped with whatever the slot held.                                  *)
StartSlot(f, alloc_ok) ==
    LET others == Drop(AllocSlot(f), {f.message_seq})
        fits == BytesHeld(others) + SlotBytes(NewSlot(f)) <= MaxBytes
    IN  /\ ~SlotMatches(queue, f)
        /\ queue' = IF fits /\ alloc_ok
                    THEN [s \in DOMAIN others \cup {f.message_seq} |->
                             IF s = f.message_seq THEN ApplyBytes(NewSlot(f), f)
                                                  ELSE others[s]]
                    ELSE others
        /\ UNCHANGED failed

StoreFuture(f, alloc_ok) ==
    /\ f.message_seq > expected_message_seq
    /\ StoreInSlot(f) \/ StartSlot(f, alloc_ok)
    /\ NothingDelivered
    /\ UNCHANGED <<hs, protected>>

-----------------------------------------------------------------------------
(* A fragment of the expected message. *)

Whole(f) == f.offset = 0 /\ f.len = f.length

(* Mutant of Retired: the length stays, so an equally long message goes on. *)
RetiredKeepsLen(h) == [h EXCEPT !.received_count = 0]

(* Retiring the in-progress message leaves its bitmap for the next start. *)
Retired(h) == [h EXCEPT !.buffer_len = 0, !.received_count = 0]

DeliverWhole(f) ==
    /\ f.message_seq = expected_message_seq
    /\ Whole(f)
    /\ Deliver(f.msg_type, [i \in 0 .. f.length - 1 |-> f.byte])
    /\ hs' = Retired(hs)
    /\ UNCHANGED <<queue, protected, failed>>

GrowBuffer(h, f) ==
    IF h.capacity < AtLeastOne(f.length) THEN [h EXCEPT !.capacity = AtLeastOne(f.length)] ELSE h

GrowMap(h, f) ==
    IF h.map_len < RxMapBytes(f.length) THEN [h EXCEPT !.map_len = RxMapBytes(f.length)] ELSE h

(* dtls_reassembly_make_room: queued messages are given up, highest first,  *)
(* until the in-progress message fits; `lowest(n)' is what remains of the   *)
(* queue when the messages above n are gone.                                *)
RoomFor(f) == LET grown == GrowMap(GrowBuffer(hs, f), f) IN grown.capacity + grown.map_len

Lowest(n) == Drop(queue, { s \in DOMAIN queue : s > n })

FitsWith(n, f) == RoomFor(f) + QueueBytes(Lowest(n)) <= MaxBytes

(* Mutant of MakeRoom: nothing is evicted. *)
MakeRoomWithoutEviction(f) == queue

MakeRoom(f) == Lowest(Max({-1} \cup { n \in DOMAIN queue : FitsWith(n, f) }))

MustStart(f) == hs.capacity = 0 \/ hs.map_len = 0 \/ hs.buffer_len # f.length

(* The message alone exceeds the budget: everything was given up for nothing. *)
NoRoom(f) ==
    /\ MustStart(f)
    /\ ~FitsWith(-1, f)
    /\ queue' = << >>
    /\ hs' = Retired(hs)
    /\ NothingDelivered
    /\ UNCHANGED failed

(* One of the two reallocations fails; the first may have succeeded. *)
StartFails(f) ==
    /\ MustStart(f)
    /\ FitsWith(-1, f)
    /\ queue' = MakeRoom(f)
    /\ \/ GrowBuffer(hs, f) # hs /\ hs' = Retired(hs)
       \/ GrowMap(hs, f) # hs /\ hs' = Retired(GrowBuffer(hs, f))
    /\ NothingDelivered
    /\ UNCHANGED failed

(* The in-progress message with f's bytes; complete, it is handed over and  *)
(* retired unless the copy cannot be allocated.                             *)
AddTo(h, f, alloc_ok) ==
    LET applied == ApplyBytes(h, f)
        complete == Clash(h, f) = {} /\ applied.received_count = f.length
    IN  /\ failed' = (Clash(h, f) # {})
        /\ IF complete /\ alloc_ok
           THEN /\ Deliver(f.msg_type, Body(f.length, applied.buffer))
                /\ hs' = Retired(applied)
           ELSE /\ NothingDelivered
                /\ hs' = applied

Started(f) ==
    [GrowMap(GrowBuffer(hs, f), f) EXCEPT
        !.buffer = EmptyBuffer, !.received = {}, !.received_count = 0, !.buffer_len = f.length]

StartMessage(f, alloc_ok) ==
    /\ MustStart(f)
    /\ FitsWith(-1, f)
    /\ queue' = MakeRoom(f)
    /\ AddTo(Started(f), f, alloc_ok)

ContinueMessage(f, alloc_ok) ==
    /\ ~MustStart(f)
    /\ AddTo(hs, f, alloc_ok)
    /\ UNCHANGED queue

AddFragment(f, alloc_ok) ==
    /\ f.message_seq = expected_message_seq
    /\ ~Whole(f)
    /\ \/ NoRoom(f)
       \/ ~alloc_ok /\ StartFails(f)
       \/ StartMessage(f, alloc_ok)
       \/ ContinueMessage(f, alloc_ok)
    /\ UNCHANGED protected

-----------------------------------------------------------------------------

(* No record is read while a message of the queue waits to be taken.        *)
(* Messages below expected_message_seq, and plaintext records once the keys *)
(* are there, change nothing.                                               *)
(* noxtls_dtls_reassemble_handshake itself looks into the queue first, and  *)
(* then returns the queued body under the type of the fragment in hand.     *)
(* tls13_dtls_append_inner_handshake_fragments discards later messages      *)
(* before it calls it.                                                      *)
Receiving == (~failed /\ protected) \/ (ReadsPlaintext /\ ~QueuedReady)

Sent(f) == (f.message_seq >= PlainMessages) = protected

ReceiveFragment(f, alloc_ok) ==
    /\ Receiving
    /\ protected => f.message_seq <= expected_message_seq
    /\ IF QueuedReady /\ alloc_ok
       THEN TakeComplete(f.msg_type)
       ELSE \/ StoreFuture(f, alloc_ok)
            \/ alloc_ok /\ DeliverWhole(f)
            \/ AddFragment(f, alloc_ok)

ReceiveFromPeer(f, alloc_ok) ==
    /\ Sent(f)
    /\ ReceiveFragment(f, alloc_ok)

ReceiveForeign(f, alloc_ok) ==
    /\ setting.exposed
    /\ ~protected
    /\ ReceiveFragment(f, alloc_ok)

(* Mutant of ReassemblyDiscard: the queue survives the keys. *)
DiscardKeepsQueue ==
    /\ ~failed /\ ~protected
    /\ PlainMessages < NumMessages
    /\ HandedUpTo >= PlainMessages
    /\ protected' = TRUE
    /\ hs' = [Retired(hs) EXCEPT !.buffer = EmptyBuffer]
    /\ UNCHANGED <<delivered, lost, expected_message_seq, queue, failed>>

(* noxtls_dtls_reassembly_discard when DTLS 1.3 installs its first read keys. *)
ReassemblyDiscard ==
    /\ ~failed /\ ~protected
    /\ PlainMessages < NumMessages
    /\ HandedUpTo >= PlainMessages
    /\ protected' = TRUE
    /\ queue' = << >>
    /\ hs' = [Retired(hs) EXCEPT !.buffer = EmptyBuffer]
    /\ UNCHANGED <<delivered, lost, expected_message_seq, failed>>

Next ==
    /\ \/ TakeQueued
       \/ \E f \in PeerFragments, alloc_ok \in BOOLEAN : ReceiveFromPeer(f, alloc_ok)
       \/ \E f \in ForeignFragments, alloc_ok \in BOOLEAN : ReceiveForeign(f, alloc_ok)
       \/ ReassemblyDiscard
    /\ UNCHANGED setting

Spec == Init /\ [][Next]_vars

(* The peer resends its flight until it is answered, so every fragment is   *)
(* received again and again, sometimes with memory to spare.                *)
Fairness ==
    /\ WF_vars(TakeQueued /\ UNCHANGED setting)
    /\ WF_vars(ReassemblyDiscard /\ UNCHANGED setting)
    /\ \A f \in PeerFragments : WF_vars(ReceiveFromPeer(f, TRUE) /\ UNCHANGED setting)

FairSpec == Spec /\ Fairness

-----------------------------------------------------------------------------

TypeOK ==
    /\ delivered \in Seq([message_seq : MessageSeqs, protected : BOOLEAN,
                          message : [msg_type : Content,
                                     body : UNION { [0 .. n - 1 -> Content] : n \in 0 .. MaxLen }]])
    /\ lost \subseteq MessageSeqs
    /\ expected_message_seq \in 0 .. NumMessages
    /\ hs \in [buffer : [Offsets -> Content], received : SUBSET Offsets,
               received_count : 0 .. MaxLen, buffer_len : 0 .. MaxLen,
               capacity : Nat, map_len : Nat]
    /\ DOMAIN queue \subseteq MessageSeqs
    /\ \A s \in DOMAIN queue :
          queue[s] \in [msg_type : Content, length : 0 .. MaxLen, buffer : [Offsets -> Content],
                        received : SUBSET Offsets, received_count : 0 .. MaxLen]
    /\ protected \in BOOLEAN
    /\ failed \in BOOLEAN

(* What was delivered under the read keys is the peer's message, byte for   *)
(* byte and in its place: nothing that arrived in plaintext before the keys *)
(* completes it or takes its place (the comment of                          *)
(* noxtls_dtls_reassembly_discard).                                         *)
ProtectedAreGenuine ==
    \A n \in 1 .. Len(delivered) :
        delivered[n].protected => delivered[n].message = Message(delivered[n].message_seq)

(* Reassembly never holds more than NOXTLS_DTLS_REASSEMBLY_MAX_BYTES,       *)
(* however many messages arrive ahead of order.                             *)
WithinBudget == BytesHeld(queue) <= MaxBytes

Delivery ==
    INSTANCE HandshakeDelivery
    WITH NumMessages <- NumMessages,
         Message <- Message,
         delivered <- delivered,
         next <- expected_message_seq,
         lost <- lost,
         exposed <- setting.exposed

(* Reassembly implements HandshakeDelivery: whole messages, in order, at    *)
(* most once, whatever cuts, repeats or reorders the fragments and          *)
(* whichever allocation fails; a message is passed over only with an error  *)
(* to the caller (its retransmission is then discarded as old).  Until that *)
(* happens, with the peer alone and under fairness, all are handed over.    *)
ImplementsDelivery == Delivery!FairSpec

=============================================================================
