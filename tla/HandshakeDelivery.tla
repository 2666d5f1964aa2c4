-------------------------- MODULE HandshakeDelivery --------------------------
(***************************************************************************)
(* What the DTLS handshake layer promises the handshake state machines:    *)
(* whatever the network does to the fragments, the peer's messages are     *)
(* handed over complete, in order, at most once each.  One is passed over  *)
(* only when the read that completed it reports an error instead; as long  *)
(* as none was, all of them are handed over in the end.  Messages that     *)
(* precede the read keys can be forged by whoever can send plaintext to    *)
(* the endpoint; of those only order and number are promised.              *)
(***************************************************************************)
EXTENDS Naturals, Sequences

CONSTANTS
    NumMessages,     \* how many handshake messages the peer sends
    Message(_)       \* Message(n): the n-th message, n \in 0 .. NumMessages - 1

VARIABLES
    delivered,       \* what was handed over, as [message_seq, message, protected]
    next,            \* the number of the message that is due
    lost,            \* the messages whose reading ended in an error
    exposed          \* somebody else can send plaintext to the endpoint

vars == <<delivered, next, lost, exposed>>

Init ==
    /\ delivered = << >>
    /\ next = 0
    /\ lost = {}
    /\ exposed \in BOOLEAN

(* The read keys are in use: from then on nobody but the peer is heard. *)
Keyed == \E n \in 1 .. Len(delivered) : delivered[n].protected

(* One message is settled. *)
Settle ==
    /\ next < NumMessages
    /\ next' = next + 1
    /\ UNCHANGED exposed

Handed(m, keyed) == [message_seq |-> next, message |-> m, protected |-> keyed]

DeliverGenuine ==
    /\ Settle
    /\ \E keyed \in BOOLEAN :
          /\ Keyed => keyed
          /\ delivered' = Append(delivered, Handed(Message(next), keyed))
    /\ UNCHANGED lost

(* Any content will do. *)
DeliverForged ==
    /\ exposed /\ ~Keyed
    /\ Settle
    /\ Len(delivered') = Len(delivered) + 1
    /\ delivered' = Append(delivered, Handed(delivered'[Len(delivered')].message, FALSE))
    /\ UNCHANGED lost

ReportLoss ==
    /\ Settle
    /\ lost' = lost \cup {next}
    /\ UNCHANGED delivered

Next == DeliverGenuine \/ DeliverForged \/ ReportLoss

Spec == Init /\ [][Next]_vars

FairSpec == Spec /\ WF_vars(~exposed /\ lost = {} /\ DeliverGenuine)

=============================================================================
