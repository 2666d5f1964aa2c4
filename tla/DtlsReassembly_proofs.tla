----------------------- MODULE DtlsReassembly_proofs -----------------------
(***************************************************************************)
(* Proofs about DtlsReassembly, for every number and length of messages,   *)
(* every queue and every budget: types, the budget, the messages delivered *)
(* under the read keys, and the safety part of the refinement of           *)
(* HandshakeDelivery.                                                      *)
(***************************************************************************)
EXTENDS DtlsReassembly, FiniteSetTheorems, WellFoundedInduction, TLAPS

-----------------------------------------------------------------------------
(* The inductive invariant.                                                *)

Bodies == UNION { [0 .. n - 1 -> Content] : n \in 0 .. MaxLen }
Messages == [msg_type : Content, body : Bodies]
Entries == [message_seq : MessageSeqs, protected : BOOLEAN, message : Messages]
Slots == [msg_type : Content, length : 0 .. MaxLen, buffer : [Offsets -> Content],
          received : SUBSET Offsets, received_count : 0 .. MaxLen]
InProgress == [buffer : [Offsets -> Content], received : SUBSET Offsets,
               received_count : 0 .. MaxLen, buffer_len : 0 .. MaxLen,
               capacity : Nat, map_len : Nat]

(* A buffer counts the bytes it has of a message of n bytes; the bytes of   *)
(* an honest one all come from message s.                                  *)
Counts(b, n) ==
    /\ b.buffer \in [Offsets -> Content]
    /\ b.received \subseteq 0 .. n - 1
    /\ b.received_count = Cardinality(b.received)

AllFrom(b, s) == \A i \in b.received : b.buffer[i] = s

SlotOK(slot, s, honest) ==
    /\ slot \in Slots
    /\ Counts(slot, slot.length)
    /\ honest => slot.msg_type = s /\ slot.length = MsgLen[s] /\ AllFrom(slot, s)

QueueOK(q, honest) ==
    /\ DOMAIN q \subseteq MessageSeqs
    /\ \A s \in DOMAIN q : SlotOK(q[s], s, honest)

(* A retired buffer keeps its bitmap; only one that holds a message counts. *)
HsOK(h, s, honest) ==
    /\ h \in InProgress
    /\ h.buffer_len # 0 =>
         /\ s \in MessageSeqs
         /\ Counts(h, h.buffer_len)
         /\ honest => h.buffer_len = MsgLen[s] /\ AllFrom(h, s)

Honest == ~ setting.exposed
Genuine == protected \/ Honest

DeliveredOK ==
    /\ delivered \in Seq(Entries)
    /\ lost \subseteq MessageSeqs
    /\ expected_message_seq \in 0 .. NumMessages
    /\ \A n \in 1 .. Len(delivered) : delivered[n].protected => protected
    /\ ProtectedAreGenuine

(* A queued message that is due was complete when it became due: the        *)
(* in-progress buffer is then empty, and stays so until it is taken.        *)
ReadyMeansIdle == QueuedReady => hs.buffer_len = 0

Inv ==
    /\ setting \in Settings /\ protected \in BOOLEAN /\ failed \in BOOLEAN
    /\ DeliveredOK
    /\ QueueOK(queue, Honest)
    /\ HsOK(hs, expected_message_seq, Genuine)
    /\ ReadyMeansIdle
    /\ protected => DOMAIN queue = {}
    /\ WithinBudget

-----------------------------------------------------------------------------
(* The bytes of the queue.                                                  *)

LEMMA Climb ==
    ASSUME NEW n \in Nat, NEW T, 0 \in T,
           \A k \in 0 .. n : k # n /\ k \in T => k + 1 \in T
    PROVE  0 .. n \subseteq T
<1> SUFFICES ASSUME ~ (0 .. n \subseteq T) PROVE FALSE
  OBVIOUS
<1> DEFINE U == { k \in Nat : k \in 0 .. n /\ k \notin T }
<1>1. U \subseteq Nat /\ U # {}
  OBVIOUS
<1>2. PICK k \in U : \A i \in U : ~ (<<i, k>> \in OpToRel(<, Nat))
  BY <1>1, NatLessThanWellFounded, WFMin, Zenon
<1>3. \A i \in U : ~ (i < k)
  BY <1>2, <1>1 DEF OpToRel
<1>4. k # 0 /\ k - 1 \in 0 .. n /\ k - 1 # n /\ k - 1 \notin U
  BY <1>3
<1> QED
  BY <1>4

Share(q, s) == IF s \in DOMAIN q THEN SlotBytes(q[s]) ELSE 0

(* The running sum exists and is the function its definition says.          *)
LEMMA BytesBelowDef ==
    ASSUME NEW q
    PROVE  BytesBelow(q) = [n \in 0 .. NumMessages |->
               IF n = 0 THEN 0 ELSE BytesBelow(q)[n - 1] + Share(q, n - 1)]
<1> DEFINE Follows(g, m) == g = [n \in 0 .. m |-> IF n = 0 THEN 0 ELSE g[n - 1] + Share(q, n - 1)]
           Has == { m \in Nat : \E g : Follows(g, m) }
<1>1. 0 \in Has
  <2> DEFINE g == [n \in 0 .. 0 |-> 0]
  <2>1. Follows(g, 0)
    OBVIOUS
  <2> QED
    BY <2>1
<1>2. ASSUME NEW m \in 0 .. NumMessages, m \in Has PROVE m + 1 \in Has
  <2>1. PICK g : Follows(g, m)
    BY <1>2
  <2> DEFINE h == [n \in 0 .. m + 1 |-> IF n = m + 1 THEN g[m] + Share(q, m) ELSE g[n]]
  <2>2. \A n \in 0 .. m : g[n] = IF n = 0 THEN 0 ELSE g[n - 1] + Share(q, n - 1)
    BY <2>1
  <2>3. Follows(h, m + 1)
    <3>1. ASSUME NEW n \in 0 .. m + 1
          PROVE  h[n] = IF n = 0 THEN 0 ELSE h[n - 1] + Share(q, n - 1)
      <4>1. CASE n = m + 1
        BY <4>1
      <4>2. CASE n \in 0 .. m
        <5>1. h[n] = g[n] /\ (n # 0 => h[n - 1] = g[n - 1])
          BY <4>2
        <5> QED
          BY <5>1, <4>2, <2>2
      <4> QED
        BY <4>1, <4>2
    <3> HIDE DEF h
    <3>2. h = [n \in 0 .. m + 1 |-> h[n]]
      BY DEF h
    <3> QED
      BY <3>1, <3>2
  <2> HIDE DEF Follows, h
  <2> QED
    BY <2>3
<1>3. NumMessages \in Has
  <2> HIDE DEF Has
  <2> QED BY <1>1, <1>2, Climb, ReassemblyAssumption
<1>4. PICK g : Follows(g, NumMessages)
  BY <1>3
<1> QED
  BY <1>4 DEF BytesBelow, Share

(* Where no slot but m's grew, and that by b, the sum grew by b at most.    *)
LEMMA BytesGrow ==
    ASSUME NEW q, NEW r, NEW m, NEW b \in Nat,
           \A s \in MessageSeqs : Share(q, s) \in Nat /\ Share(r, s) \in Nat,
           \A s \in MessageSeqs : Share(r, s) <= Share(q, s) + (IF s = m THEN b ELSE 0)
    PROVE  /\ QueueBytes(q) \in Nat /\ QueueBytes(r) \in Nat
           /\ QueueBytes(r) <= QueueBytes(q) + b
<1> DEFINE Q == BytesBelow(q)
           R == BytesBelow(r)
           T == { n \in Nat : /\ Q[n] \in Nat /\ R[n] \in Nat
                              /\ R[n] <= Q[n] + (IF m \in 0 .. n - 1 THEN b ELSE 0) }
<1>1. \A n \in 0 .. NumMessages :
         /\ Q[n] = IF n = 0 THEN 0 ELSE Q[n - 1] + Share(q, n - 1)
         /\ R[n] = IF n = 0 THEN 0 ELSE R[n - 1] + Share(r, n - 1)
  BY BytesBelowDef
<1> HIDE DEF Q, R
<1>2. 0 \in T
  BY <1>1, ReassemblyAssumption
<1>3. ASSUME NEW n \in 0 .. NumMessages, n # NumMessages, n \in T PROVE n + 1 \in T
  <2>1. n \in MessageSeqs /\ n + 1 \in 0 .. NumMessages /\ n + 1 - 1 = n
    BY <1>3, ReassemblyAssumption DEF MessageSeqs
  <2>2. /\ Q[n + 1] = Q[n] + Share(q, n) /\ R[n + 1] = R[n] + Share(r, n)
    BY <2>1, <1>1
  <2>3. /\ Share(q, n) \in Nat /\ Share(r, n) \in Nat
        /\ Share(r, n) <= Share(q, n) + (IF n = m THEN b ELSE 0)
    BY <2>1
  <2>4. CASE m \in 0 .. n - 1
    BY <2>2, <2>3, <2>4, <1>3
  <2>5. CASE m = n
    BY <2>2, <2>3, <2>5, <1>3
  <2>6. CASE m \notin 0 .. n - 1 /\ m # n
    BY <2>2, <2>3, <2>6, <1>3
  <2> QED
    BY <2>4, <2>5, <2>6
<1>4. NumMessages \in T
  <2> HIDE DEF T
  <2> QED BY <1>2, <1>3, Climb, ReassemblyAssumption
<1> QED
  BY <1>4 DEF QueueBytes, Q, R

(* Giving up queued messages. *)
Part(r, q) == DOMAIN r \subseteq DOMAIN q /\ \A s \in DOMAIN r : r[s] = q[s]

LEMMA DropIsPart ==
    ASSUME NEW q, NEW X
    PROVE  DOMAIN Drop(q, X) = DOMAIN q \ X /\ Part(Drop(q, X), q)
BY DEF Drop, Restrict, Part

LEMMA SlotBytesNat ==
    ASSUME NEW slot, slot.length \in 0 .. MaxLen
    PROVE  SlotBytes(slot) \in Nat /\ RxMapBytes(slot.length) \in Nat
BY ReassemblyAssumption DEF SlotBytes, RxMapBytes, AtLeastOne

LEMMA SharesNat ==
    ASSUME NEW q, NEW honest, QueueOK(q, honest)
    PROVE  \A s \in MessageSeqs : Share(q, s) \in Nat
<1>1. \A s \in DOMAIN q : q[s].length \in 0 .. MaxLen
  BY DEF QueueOK, SlotOK, Slots
<1> QED
  BY <1>1, SlotBytesNat DEF Share

LEMMA PartOK ==
    ASSUME NEW q, NEW r, NEW honest, QueueOK(q, honest), Part(r, q)
    PROVE  /\ QueueOK(r, honest)
           /\ QueueBytes(q) \in Nat /\ QueueBytes(r) \in Nat
           /\ QueueBytes(r) <= QueueBytes(q)
<1>1. QueueOK(r, honest)
  BY DEF QueueOK, Part
<1>2. \A s \in MessageSeqs : Share(q, s) \in Nat /\ Share(r, s) \in Nat
  BY <1>1, SharesNat
<1>3. \A s \in MessageSeqs : Share(r, s) <= Share(q, s) + (IF s = -1 THEN 0 ELSE 0)
  BY <1>2 DEF Share, Part
<1>4. /\ QueueBytes(q) \in Nat /\ QueueBytes(r) \in Nat
      /\ QueueBytes(r) <= QueueBytes(q) + 0
  BY <1>2, <1>3, BytesGrow
<1> QED
  BY <1>1, <1>4

LEMMA EmptyQueue ==
    ASSUME NEW honest
    PROVE  /\ DOMAIN << >> = {}
           /\ QueueOK(<< >>, honest)
           /\ \A q : Part(<< >>, q)
<1>1. DOMAIN << >> = {}
  OBVIOUS
<1> QED
  BY <1>1 DEF QueueOK, Part

LEMMA MaxOf ==
    ASSUME NEW S, S \subseteq Int, NEW x \in S, NEW top \in Int, \A y \in S : y <= top
    PROVE  Max(S) \in S
<1> DEFINE U == { n \in Nat : top - n \in S }
<1>1. top - x \in U /\ U \subseteq Nat
  OBVIOUS
<1>2. PICK k \in U : \A i \in U : ~ (<<i, k>> \in OpToRel(<, Nat))
  BY <1>1, NatLessThanWellFounded, WFMin, Zenon
<1>3. \A i \in U : ~ (i < k)
  BY <1>2, <1>1 DEF OpToRel
<1>4. ASSUME NEW y \in S PROVE top - k >= y
  <2>1. top - y \in U
    OBVIOUS
  <2> QED
    BY <2>1, <1>3
<1>5. top - k \in S
  OBVIOUS
<1>6. \E z \in S : \A y \in S : z >= y
  BY <1>4, <1>5
<1> QED
  BY <1>6 DEF Max

-----------------------------------------------------------------------------
(* Bytes of a fragment in a buffer.                                         *)

FragmentOK(f) ==
    /\ f.message_seq \in MessageSeqs /\ f.byte \in Content /\ f.msg_type = f.byte
    /\ f.length \in 0 .. MaxLen /\ f.offset \in 0 .. MaxLen /\ f.len \in 0 .. MaxLen
    /\ f.offset + f.len <= f.length

FromPeer(f) == f.byte = f.message_seq /\ f.length = MsgLen[f.message_seq]

LEMMA FragmentsOK ==
    /\ \A f \in PeerFragments : FragmentOK(f) /\ FromPeer(f)
    /\ \A f \in ForeignFragments : FragmentOK(f)
<1>1. ASSUME NEW f \in PeerFragments PROVE FragmentOK(f) /\ FromPeer(f)
  BY DEF PeerFragments, Fragments, FragmentOK, FromPeer, Content
<1>2. ASSUME NEW f \in ForeignFragments PROVE FragmentOK(f)
  BY DEF ForeignFragments, Fragments, FragmentOK, Content
<1> QED
  BY <1>1, <1>2

LEMMA CountUpTo ==
    ASSUME NEW n \in Nat
    PROVE  IsFiniteSet(0 .. n - 1) /\ Cardinality(0 .. n - 1) = n
<1>1. 0 \in Int /\ n - 1 \in Int
  OBVIOUS
<1>2. /\ IsFiniteSet(0 .. n - 1)
      /\ Cardinality(0 .. n - 1) = IF 0 > n - 1 THEN 0 ELSE n - 1 - 0 + 1
  BY <1>1, FS_Interval, Zenon
<1> QED
  BY <1>2

(* What ApplyBytes makes of a buffer: the bytes are counted exactly, and    *)
(* those of one message stay so.                                            *)
Applied(b, f, buffer, received, count) ==
    /\ buffer \in [Offsets -> Content]
    /\ received \subseteq 0 .. f.length - 1 /\ received \subseteq Offsets
    /\ count = Cardinality(received) /\ count \in 0 .. f.length
    /\ ApplyBytes(b, f) = [b EXCEPT !.buffer = buffer, !.received = received,
                                    !.received_count = count]
    /\ \A i \in received : \/ i \in b.received /\ buffer[i] = b.buffer[i]
                           \/ buffer[i] = f.byte

LEMMA ApplyBytesOK ==
    ASSUME NEW b, NEW f, FragmentOK(f), Counts(b, f.length)
    PROVE  \E buffer, received, count : Applied(b, f, buffer, received, count)
<1> DEFINE new == { i \in FragmentRange(f) \ b.received : \A j \in Clash(b, f) : i < j }
           B == [i \in Offsets |-> IF i \in new THEN f.byte ELSE b.buffer[i]]
           R == b.received \cup new
           N == b.received_count + Cardinality(new)
<1>1. ApplyBytes(b, f) = [b EXCEPT !.buffer = B, !.received = R, !.received_count = N]
  BY DEF ApplyBytes
<1>2. f.length \in Nat /\ f.length <= MaxLen /\ MaxLen \in Nat
  BY ReassemblyAssumption DEF FragmentOK
<1>3. new \subseteq 0 .. f.length - 1
  BY DEF FragmentRange, FragmentOK
<1>4. R \subseteq 0 .. f.length - 1 /\ R \subseteq Offsets
  BY <1>2, <1>3 DEF Counts, Offsets
<1>5. B \in [Offsets -> Content]
  BY DEF Counts, FragmentOK
<1>6. \A i \in R : \/ i \in b.received /\ B[i] = b.buffer[i]
                   \/ B[i] = f.byte
  BY <1>4
<1>7. N = Cardinality(R) /\ N \in 0 .. f.length
  <2>1. IsFiniteSet(0 .. f.length - 1) /\ Cardinality(0 .. f.length - 1) = f.length
    BY <1>2, CountUpTo
  <2>2. IsFiniteSet(b.received) /\ IsFiniteSet(new)
    <3>1. b.received \in SUBSET (0 .. f.length - 1) /\ new \in SUBSET (0 .. f.length - 1)
      BY <1>3 DEF Counts
    <3> HIDE DEF new
    <3> QED BY <3>1, <2>1, FS_Subset
  <2>3. b.received \cap new = {} /\ Cardinality({}) = 0
    BY FS_EmptySet
  <2>4. /\ Cardinality(b.received) \in Nat /\ Cardinality(new) \in Nat
    <3> HIDE DEF new
    <3> QED BY <2>2, FS_CardinalityType
  <2>5. Cardinality(R) = Cardinality(b.received) + Cardinality(new)
    <3>1. Cardinality(b.received \cup new)
             = Cardinality(b.received) + Cardinality(new) - Cardinality(b.received \cap new)
      <4> HIDE DEF new
      <4> QED BY <2>2, FS_Union
    <3>2. Cardinality(b.received \cap new) = 0
      BY <2>3, Zenon
    <3> HIDE DEF new
    <3>3. Cardinality(b.received) + Cardinality(new) - 0 = Cardinality(b.received) + Cardinality(new)
      BY <2>4
    <3> QED BY <3>1, <3>2, <3>3
  <2>6. Cardinality(R) <= f.length
    <3>1. R \in SUBSET (0 .. f.length - 1)
      BY <1>4
    <3> HIDE DEF R
    <3> QED BY <3>1, <2>1, FS_Subset
  <2> HIDE DEF new, R
  <2> QED
    BY <2>4, <2>5, <2>6, <1>2 DEF Counts
<1> HIDE DEF B, R, N
<1>8. Applied(b, f, B, R, N)
  BY <1>1, <1>4, <1>5, <1>6, <1>7 DEF Applied
<1> QED
  BY <1>8

(* Complete means every byte is there. *)
LEMMA FullMeansAll ==
    ASSUME NEW R, NEW n \in Nat, R \subseteq 0 .. n - 1, Cardinality(R) = n
    PROVE  R = 0 .. n - 1
<1>1. IsFiniteSet(0 .. n - 1) /\ Cardinality(0 .. n - 1) = n
  BY CountUpTo
<1>2. R \in SUBSET (0 .. n - 1)
  OBVIOUS
<1> QED
  BY <1>1, <1>2, FS_Subset

LEMMA BodyOfFull ==
    ASSUME NEW b, NEW n \in 0 .. MaxLen, Counts(b, n), b.received_count = n, NEW t \in Content
    PROVE  /\ [msg_type |-> t, body |-> Body(n, b.buffer)] \in Messages
           /\ \A s \in MessageSeqs :
                 AllFrom(b, s) /\ n = MsgLen[s] /\ t = s =>
                     [msg_type |-> t, body |-> Body(n, b.buffer)] = Message(s)
<1>1. n \in Nat /\ n <= MaxLen /\ MaxLen \in Nat
  BY ReassemblyAssumption
<1>2. b.received = 0 .. n - 1
  BY <1>1, FullMeansAll DEF Counts
<1>3. Body(n, b.buffer) \in [0 .. n - 1 -> Content]
  BY <1>1 DEF Body, Counts, Offsets
<1>4. Body(n, b.buffer) \in Bodies
  BY <1>3 DEF Bodies
<1>5. ASSUME NEW s \in MessageSeqs, AllFrom(b, s), n = MsgLen[s], t = s
      PROVE  [msg_type |-> t, body |-> Body(n, b.buffer)] = Message(s)
  <2>1. \A i \in 0 .. n - 1 : b.buffer[i] = s
    BY <1>2, <1>5 DEF AllFrom
  <2>2. Body(n, b.buffer) = [i \in 0 .. MsgLen[s] - 1 |-> s]
    BY <2>1, <1>5 DEF Body
  <2> QED
    BY <2>2, <1>5 DEF Message
<1>6. [msg_type |-> t, body |-> Body(n, b.buffer)] \in Messages
  BY <1>4 DEF Messages
<1> QED
  BY <1>5, <1>6

-----------------------------------------------------------------------------
(* What a step may do.                                                      *)

(* The message that is due leaves reassembly. *)
Leaves ==
    /\ expected_message_seq \in MessageSeqs
    /\ expected_message_seq' = expected_message_seq + 1

(* The message m is handed over: of those that nobody else can write, the   *)
(* peer's.                                                                  *)
Handed(m) ==
    /\ Leaves
    /\ m \in Messages
    /\ HandOver(m)
    /\ Genuine => m = Message(expected_message_seq)

DeliveredStep == NothingDelivered \/ (\E m : Handed(m)) \/ (Leaves /\ LoseMessage)

StepOK ==
    /\ DeliveredStep
    /\ QueueOK(queue', Honest)
    /\ HsOK(hs', expected_message_seq', Genuine)
    /\ ReadyMeansIdle'
    /\ protected' = protected /\ failed' \in BOOLEAN
    /\ protected => DOMAIN queue' = {}
    /\ WithinBudget'

(* A fragment in the place and time where the code reads it. *)
Arrives(f) ==
    /\ FragmentOK(f)
    /\ Genuine => FromPeer(f)
    /\ ~ QueuedReady
    /\ protected => f.message_seq <= expected_message_seq

LEMMA DeliverSteps ==
    ASSUME NEW t, NEW body, Deliver(t, body), expected_message_seq \in MessageSeqs,
           [msg_type |-> t, body |-> body] \in Messages,
           Genuine => [msg_type |-> t, body |-> body] = Message(expected_message_seq)
    PROVE  DeliveredStep
<1> DEFINE m == [msg_type |-> t, body |-> body]
<1>1. Leaves /\ (HandOver(m) \/ LoseMessage)
  BY DEF Deliver, Leaves
<1> HIDE DEF m
<1>2. HandOver(m) => Handed(m)
  BY <1>1 DEF Handed, m
<1> QED
  BY <1>1, <1>2 DEF DeliveredStep

LEMMA DeliveredKept ==
    ASSUME Inv, DeliveredStep, protected' = protected
    PROVE  DeliveredOK'
<1>1. DeliveredOK /\ protected \in BOOLEAN
  BY DEF Inv
<1>2. CASE NothingDelivered
  BY <1>1, <1>2 DEF DeliveredOK, ProtectedAreGenuine, NothingDelivered
<1>3. ASSUME Leaves PROVE expected_message_seq' \in 0 .. NumMessages
  BY <1>3, ReassemblyAssumption DEF Leaves, MessageSeqs
<1>4. CASE Leaves /\ LoseMessage
  BY <1>1, <1>3, <1>4 DEF DeliveredOK, ProtectedAreGenuine, LoseMessage, Leaves
<1>5. ASSUME NEW m, Handed(m) PROVE DeliveredOK'
  <2> DEFINE entry == [message_seq |-> expected_message_seq, message |-> m,
                       protected |-> protected]
  <2>1. entry \in Entries /\ delivered' = Append(delivered, entry) /\ lost' = lost
    BY <1>1, <1>5 DEF Entries, Handed, Leaves, HandOver
  <2>2. /\ entry.protected => protected
        /\ entry.protected => entry.message = Message(entry.message_seq)
    BY <1>5 DEF Handed, Genuine
  <2> HIDE DEF entry
  <2>3. /\ delivered' \in Seq(Entries) /\ Len(delivered') = Len(delivered) + 1
        /\ \A n \in 1 .. Len(delivered') :
              (n \in 1 .. Len(delivered) /\ delivered'[n] = delivered[n]) \/ delivered'[n] = entry
    BY <1>1, <2>1 DEF DeliveredOK
  <2>4. \A n \in 1 .. Len(delivered') : delivered'[n].protected => protected
    BY <1>1, <2>2, <2>3 DEF DeliveredOK
  <2>5. ProtectedAreGenuine'
    BY <1>1, <2>2, <2>3 DEF DeliveredOK, ProtectedAreGenuine
  <2> QED
    BY <1>1, <1>3, <1>5, <2>1, <2>3, <2>4, <2>5 DEF DeliveredOK, Handed
<1> QED
  BY <1>2, <1>4, <1>5 DEF DeliveredStep

LEMMA StepKeeps ==
    ASSUME Inv, StepOK, setting' = setting
    PROVE  Inv'
<1>1. DeliveredOK'
  BY DeliveredKept DEF StepOK
<1>2. Honest' = Honest /\ Genuine' = Genuine
  BY DEF StepOK, Honest, Genuine
<1> QED
  BY <1>1, <1>2 DEF Inv, StepOK

(* The queue loses messages, or nothing, while the due one was not ready.   *)
LEMMA NotReadyKept ==
    ASSUME Inv, ~ QueuedReady, Part(queue', queue),
           expected_message_seq' = expected_message_seq
    PROVE  ReadyMeansIdle'
BY DEF ReadyMeansIdle, QueuedReady, Part

LEMMA TakeQueuedOK ==
    ASSUME Inv, TakeQueued, setting' = setting
    PROVE  StepOK
<1> DEFINE e == expected_message_seq
           slot == queue[e]
           m == [msg_type |-> slot.msg_type, body |-> Body(slot.length, slot.buffer)]
<1>1. /\ e \in DOMAIN queue /\ slot.received_count = slot.length
      /\ Deliver(slot.msg_type, Body(slot.length, slot.buffer))
      /\ queue' = Drop(queue, {e}) /\ UNCHANGED <<hs, protected, failed>> /\ ~ protected
  BY DEF TakeQueued, ReadsPlaintext, QueuedReady, TakeComplete
<1>2. SlotOK(slot, e, Honest) /\ e \in MessageSeqs
  BY <1>1 DEF Inv, QueueOK
<1>3. m \in Messages /\ (Genuine => m = Message(e))
  <2>1. /\ slot.length \in 0 .. MaxLen /\ slot.msg_type \in Content /\ Counts(slot, slot.length)
        /\ Genuine => slot.msg_type = e /\ slot.length = MsgLen[e] /\ AllFrom(slot, e)
    BY <1>1, <1>2 DEF SlotOK, Slots, Genuine
  <2> HIDE DEF slot, e
  <2>2. /\ [msg_type |-> slot.msg_type, body |-> Body(slot.length, slot.buffer)] \in Messages
        /\ AllFrom(slot, e) /\ slot.length = MsgLen[e] /\ slot.msg_type = e =>
              [msg_type |-> slot.msg_type, body |-> Body(slot.length, slot.buffer)] = Message(e)
    BY <2>1, <1>1, <1>2, BodyOfFull
  <2> QED
    BY <2>1, <2>2
<1>4. DeliveredStep
  BY <1>1, <1>2, <1>3, DeliverSteps
<1>5. Part(queue', queue)
  BY <1>1, DropIsPart
<1>6. QueueOK(queue', Honest) /\ QueueBytes(queue') <= QueueBytes(queue)
      /\ QueueBytes(queue) \in Nat /\ QueueBytes(queue') \in Nat
  BY <1>5, PartOK DEF Inv
<1>7. hs.buffer_len = 0
  BY DEF Inv, ReadyMeansIdle, TakeQueued
<1>8. HsOK(hs', e', Genuine) /\ ReadyMeansIdle'
  BY <1>1, <1>7 DEF Inv, HsOK, ReadyMeansIdle
<1>9. WithinBudget'
  BY <1>1, <1>6, ReassemblyAssumption DEF Inv, WithinBudget, BytesHeld, HsOK, InProgress
<1> QED
  BY <1>1, <1>4, <1>6, <1>8, <1>9 DEF StepOK, Inv

-----------------------------------------------------------------------------
(* Fragments of later messages.                                             *)

(* A slot of f's message, with f's bytes. *)
LEMMA SlotFilled ==
    ASSUME NEW slot, NEW f, NEW honest, FragmentOK(f), honest => FromPeer(f),
           SlotOK(slot, f.message_seq, honest), slot.length = f.length
    PROVE  /\ SlotOK(ApplyBytes(slot, f), f.message_seq, honest)
           /\ ApplyBytes(slot, f).length = slot.length
<1>1. Counts(slot, f.length)
  BY DEF SlotOK
<1>2. PICK buffer, received, count : Applied(slot, f, buffer, received, count)
  BY <1>1, ApplyBytesOK
<1> DEFINE new == ApplyBytes(slot, f)
<1>3. count \in 0 .. MaxLen
  BY <1>2, ReassemblyAssumption DEF FragmentOK, Applied
<1>4. /\ new \in Slots /\ new.buffer = buffer /\ new.received = received
      /\ new.received_count = count /\ new.length = slot.length /\ new.msg_type = slot.msg_type
  BY <1>2, <1>3 DEF SlotOK, Slots, Applied
<1> HIDE DEF new
<1>5. Counts(new, new.length)
  BY <1>2, <1>4 DEF Counts, Applied, SlotOK
<1>6. honest => new.msg_type = f.message_seq /\ new.length = MsgLen[f.message_seq]
                /\ AllFrom(new, f.message_seq)
  BY <1>2, <1>4 DEF SlotOK, AllFrom, FromPeer, Applied
<1>7. SlotOK(new, f.message_seq, honest)
  BY <1>4, <1>5, <1>6 DEF SlotOK
<1> QED
  BY <1>4, <1>7 DEF new

LEMMA NewSlotOK ==
    ASSUME NEW f, NEW honest, FragmentOK(f), honest => FromPeer(f)
    PROVE  SlotOK(NewSlot(f), f.message_seq, honest) /\ NewSlot(f).length = f.length
<1>1. EmptyBuffer \in [Offsets -> Content]
  BY DEF EmptyBuffer, Content
<1>2. NewSlot(f) \in Slots
  BY <1>1, ReassemblyAssumption DEF NewSlot, Slots, FragmentOK
<1>3. /\ NewSlot(f).buffer = EmptyBuffer /\ NewSlot(f).received = {}
      /\ NewSlot(f).received_count = 0 /\ NewSlot(f).length = f.length
      /\ NewSlot(f).msg_type = f.msg_type
  BY DEF NewSlot
<1>4. Cardinality({}) = 0
  BY FS_EmptySet
<1>5. Counts(NewSlot(f), f.length)
  BY <1>1, <1>3, <1>4 DEF Counts
<1>6. honest => /\ NewSlot(f).msg_type = f.message_seq
                /\ NewSlot(f).length = MsgLen[f.message_seq]
                /\ AllFrom(NewSlot(f), f.message_seq)
  BY <1>3 DEF AllFrom, FromPeer, FragmentOK
<1> QED
  BY <1>2, <1>3, <1>5, <1>6 DEF SlotOK

(* Only a later message's slot changed, and the queue fits. *)
LEMMA FutureStep ==
    ASSUME Inv, NEW f, Arrives(f), f.message_seq > expected_message_seq,
           NothingDelivered, UNCHANGED <<hs, protected>>, failed' \in BOOLEAN,
           QueueOK(queue', Honest), WithinBudget',
           \A s \in DOMAIN queue' : s # f.message_seq => s \in DOMAIN queue /\ queue'[s] = queue[s]
    PROVE  StepOK
<1>1. expected_message_seq # f.message_seq
  BY DEF FragmentOK, Arrives, MessageSeqs, Inv, DeliveredOK
<1>2. ReadyMeansIdle'
  BY <1>1 DEF ReadyMeansIdle, QueuedReady, NothingDelivered, Arrives
<1>3. ~ protected
  BY DEF Arrives, FragmentOK, MessageSeqs, Inv, DeliveredOK
<1> QED
  BY <1>2, <1>3 DEF StepOK, DeliveredStep, NothingDelivered, Inv

LEMMA StoreInSlotOK ==
    ASSUME Inv, NEW f, Arrives(f), f.message_seq > expected_message_seq,
           StoreInSlot(f), NothingDelivered, UNCHANGED <<hs, protected>>
    PROVE  StepOK
<1> DEFINE s == f.message_seq
           slot == queue[s]
           new == ApplyBytes(slot, f)
<1>1. s \in DOMAIN queue /\ slot.length = f.length /\ failed' \in BOOLEAN
  BY DEF StoreInSlot, SlotMatches
<1>2. SlotOK(slot, s, Honest) /\ QueueOK(queue, Honest)
  BY <1>1 DEF Inv, QueueOK
<1>3. SlotOK(new, s, Honest) /\ new.length = slot.length
  BY <1>1, <1>2, SlotFilled DEF Arrives, Genuine
<1>4. queue' = queue \/ queue' = [queue EXCEPT ![s] = new]
  BY DEF StoreInSlot
<1>5. CASE queue' = queue
  BY <1>5, <1>1 , <1>2, FutureStep DEF Inv, WithinBudget, BytesHeld
<1>6. CASE queue' = [queue EXCEPT ![s] = new]
  <2> HIDE DEF new
  <2>1. /\ DOMAIN queue' = DOMAIN queue /\ queue'[s] = new
        /\ \A t \in DOMAIN queue : t # s => queue'[t] = queue[t]
    BY <1>1, <1>6
  <2>2. QueueOK(queue', Honest)
    BY <2>1, <1>2, <1>3 DEF QueueOK
  <2>3. SlotBytes(new) = SlotBytes(slot)
    BY <1>3 DEF SlotBytes
  <2>4. \A t \in MessageSeqs : Share(queue', t) = Share(queue, t)
    BY <2>1, <2>3 DEF Share
  <2>5. \A t \in MessageSeqs : Share(queue, t) \in Nat
    BY <1>2, SharesNat
  <2>6. \A t \in MessageSeqs : Share(queue', t) \in Nat
                               /\ Share(queue', t) <= Share(queue, t) + (IF t = -1 THEN 0 ELSE 0)
    BY <2>4, <2>5
  <2>7. QueueBytes(queue') <= QueueBytes(queue) + 0 /\ QueueBytes(queue) \in Nat
        /\ QueueBytes(queue') \in Nat
    BY <2>5, <2>6, BytesGrow
  <2>8. WithinBudget'
    BY <2>7, ReassemblyAssumption DEF Inv, WithinBudget, BytesHeld, HsOK, InProgress
  <2> QED
    BY <2>1, <2>2, <2>8, <1>1, FutureStep
<1> QED
  BY <1>4, <1>5, <1>6

LEMMA StartSlotOK ==
    ASSUME Inv, NEW f, Arrives(f), f.message_seq > expected_message_seq, NEW alloc_ok,
           StartSlot(f, alloc_ok), NothingDelivered, UNCHANGED <<hs, protected>>
    PROVE  StepOK
<1> DEFINE s == f.message_seq
           others == Drop(AllocSlot(f), {s})
           new == ApplyBytes(NewSlot(f), f)
           full == [t \in DOMAIN others \cup {s} |-> IF t = s THEN new ELSE others[t]]
           fits == BytesHeld(others) + SlotBytes(NewSlot(f)) <= MaxBytes
<1>1. Part(others, queue) /\ s \notin DOMAIN others
  <2>1. Part(AllocSlot(f), queue)
    <3>1. Part(queue, queue)
      BY DEF Part
    <3> QED
      BY <3>1, DropIsPart DEF AllocSlot
  <2>2. Part(others, AllocSlot(f)) /\ DOMAIN others = DOMAIN AllocSlot(f) \ {s}
    BY DropIsPart
  <2> HIDE DEF others
  <2> QED
    BY <2>1, <2>2 DEF Part
<1>2. QueueOK(queue, Honest) /\ failed \in BOOLEAN /\ s \in MessageSeqs
  BY DEF Inv, Arrives, FragmentOK
<1> HIDE DEF others
<1>3. /\ QueueOK(others, Honest) /\ QueueBytes(others) <= QueueBytes(queue)
      /\ QueueBytes(queue) \in Nat /\ QueueBytes(others) \in Nat
  BY <1>1, <1>2, PartOK
<1>4. /\ (queue' = full /\ fits) \/ queue' = others
      /\ failed' = failed
  BY DEF StartSlot, others
<1>5. CASE queue' = others
  <2>1. WithinBudget'
    BY <1>3, <1>5, ReassemblyAssumption DEF Inv, WithinBudget, BytesHeld, HsOK, InProgress
  <2> QED
    BY <2>1, <1>1, <1>2, <1>3, <1>4, <1>5, FutureStep DEF Part
<1>6. CASE queue' = full /\ fits
  <2>1. SlotOK(NewSlot(f), s, Honest) /\ NewSlot(f).length = f.length
    BY NewSlotOK DEF Arrives, Genuine
  <2>2. SlotOK(new, s, Honest) /\ new.length = NewSlot(f).length
    BY <2>1, SlotFilled DEF Arrives, Genuine
  <2> HIDE DEF new
  <2>3. /\ DOMAIN queue' = DOMAIN others \cup {s} /\ queue'[s] = new
        /\ \A t \in DOMAIN others : queue'[t] = others[t]
    BY <1>6, <1>1
  <2>4. QueueOK(queue', Honest)
    BY <2>2, <2>3, <1>1, <1>2, <1>3 DEF QueueOK
  <2>5. SlotBytes(new) = SlotBytes(NewSlot(f)) /\ SlotBytes(new) \in Nat
    <3>1. new.length \in 0 .. MaxLen
      BY <2>2 DEF SlotOK, Slots
    <3> QED
      BY <3>1, <2>2, SlotBytesNat DEF SlotBytes
  <2>6. \A t \in MessageSeqs : Share(others, t) \in Nat /\ Share(queue', t) \in Nat
    BY <2>4, <1>3, SharesNat
  <2>7. \A t \in MessageSeqs :
           Share(queue', t) <= Share(others, t) + (IF t = s THEN SlotBytes(new) ELSE 0)
    BY <2>3, <2>5, <2>6, <1>1 DEF Share
  <2>8. QueueBytes(queue') <= QueueBytes(others) + SlotBytes(new) /\ QueueBytes(queue') \in Nat
    BY <2>5, <2>6, <2>7, BytesGrow
  <2>9. WithinBudget'
    BY <2>5, <2>8, <1>3, <1>6, ReassemblyAssumption
       DEF Inv, WithinBudget, BytesHeld, HsOK, InProgress
  <2>10. \A t \in DOMAIN queue' : t # s => t \in DOMAIN queue /\ queue'[t] = queue[t]
    BY <2>3, <1>1 DEF Part
  <2> QED
    BY <2>4, <2>9, <2>10, <1>2, <1>4, FutureStep
<1> QED
  BY <1>4, <1>5, <1>6

-----------------------------------------------------------------------------
(* Fragments of the expected message.                                       *)

(* Held(h): the bytes the in-progress buffer costs. *)
Held(h) == h.capacity + h.map_len

LEMMA RetiredOK ==
    ASSUME NEW h \in InProgress
    PROVE  /\ Retired(h).buffer_len = 0 /\ Held(Retired(h)) = Held(h)
           /\ \A s, honest : HsOK(Retired(h), s, honest)
<1>0. 0 \in 0 .. MaxLen
  BY ReassemblyAssumption
<1>1. Retired(h) \in InProgress /\ Retired(h).buffer_len = 0
  BY <1>0 DEF Retired, InProgress
<1>2. Held(Retired(h)) = Held(h)
  BY DEF Retired, InProgress, Held
<1> QED
  BY <1>1, <1>2 DEF HsOK

(* The buffer is retired, and the queue is what it was or less. *)
LEMMA RetireStep ==
    ASSUME Inv, NEW f, Arrives(f), DeliveredStep, Part(queue', queue), NEW h \in InProgress,
           hs' = Retired(h), Held(h) + QueueBytes(queue') <= MaxBytes,
           protected' = protected, failed' \in BOOLEAN
    PROVE  StepOK
<1>1. /\ hs'.buffer_len = 0 /\ Held(hs') = Held(h)
      /\ HsOK(hs', expected_message_seq', Genuine)
  BY RetiredOK
<1>2. QueueOK(queue', Honest) /\ (protected => DOMAIN queue' = {})
  BY PartOK DEF Inv, Part
<1>3. ReadyMeansIdle'
  BY <1>1 DEF ReadyMeansIdle
<1>4. WithinBudget'
  BY <1>1 DEF WithinBudget, BytesHeld, Held
<1> QED
  BY <1>1, <1>2, <1>3, <1>4 DEF StepOK

LEMMA QueueFits ==
    ASSUME Inv
    PROVE  /\ hs \in InProgress /\ Held(hs) \in Nat /\ QueueBytes(queue) \in Nat
           /\ Held(hs) + QueueBytes(queue) <= MaxBytes
           /\ \A q : Part(q, queue) => /\ QueueBytes(q) \in Nat
                                       /\ QueueBytes(q) <= QueueBytes(queue)
<1>1. hs \in InProgress /\ Held(hs) \in Nat
  BY DEF Inv, HsOK, InProgress, Held
<1>2. Part(queue, queue)
  BY DEF Part
<1>3. \A q : Part(q, queue) => QueueBytes(q) \in Nat /\ QueueBytes(q) <= QueueBytes(queue)
  BY PartOK DEF Inv
<1>4. Held(hs) + QueueBytes(queue) <= MaxBytes
  BY DEF Inv, WithinBudget, BytesHeld, Held
<1> QED
  BY <1>1, <1>2, <1>3, <1>4

LEMMA DeliverWholeOK ==
    ASSUME Inv, NEW f, Arrives(f), DeliverWhole(f)
    PROVE  StepOK
<1> DEFINE m == [msg_type |-> f.msg_type, body |-> [i \in 0 .. f.length - 1 |-> f.byte]]
<1>1. /\ Deliver(f.msg_type, [i \in 0 .. f.length - 1 |-> f.byte]) /\ hs' = Retired(hs)
      /\ f.message_seq = expected_message_seq
      /\ UNCHANGED <<queue, protected, failed>>
  BY DEF DeliverWhole
<1>2. m \in Messages
  <2>1. [i \in 0 .. f.length - 1 |-> f.byte] \in [0 .. f.length - 1 -> Content]
    BY DEF Arrives, FragmentOK
  <2>2. [i \in 0 .. f.length - 1 |-> f.byte] \in Bodies
    BY <2>1 DEF Bodies, Arrives, FragmentOK
  <2> QED
    BY <2>2 DEF Messages, Arrives, FragmentOK
<1>3. Genuine => m = Message(expected_message_seq)
  BY <1>1 DEF Message, Arrives, FromPeer, FragmentOK
<1>4. expected_message_seq \in MessageSeqs
  BY <1>1 DEF Arrives, FragmentOK
<1>5. DeliveredStep
  BY <1>1, <1>2, <1>3, <1>4, DeliverSteps
<1>6. Part(queue', queue) /\ queue' = queue /\ failed' \in BOOLEAN
  BY <1>1 DEF Part, Inv
<1> QED
  BY <1>1, <1>5, <1>6, QueueFits, RetireStep

LEMMA NoRoomOK ==
    ASSUME Inv, NEW f, Arrives(f), NoRoom(f), UNCHANGED protected
    PROVE  StepOK
<1>1. Part(queue', queue) /\ hs' = Retired(hs) /\ failed' \in BOOLEAN /\ DeliveredStep
  BY EmptyQueue DEF NoRoom, NothingDelivered, DeliveredStep, Inv
<1>2. /\ hs \in InProgress /\ Held(hs) \in Nat /\ QueueBytes(queue) \in Nat
      /\ Held(hs) + QueueBytes(queue) <= MaxBytes
      /\ QueueBytes(queue') \in Nat /\ QueueBytes(queue') <= QueueBytes(queue)
  BY <1>1, QueueFits
<1>3. Held(hs) + QueueBytes(queue') <= MaxBytes
  BY <1>2, ReassemblyAssumption
<1> QED
  BY <1>1, <1>2, <1>3, RetireStep

(* The buffer grown for f. *)
LEMMA Grown ==
    ASSUME NEW h \in InProgress, NEW f, FragmentOK(f)
    PROVE  /\ GrowBuffer(h, f) \in InProgress /\ GrowMap(h, f) \in InProgress
           /\ Held(GrowBuffer(h, f)) \in Nat
           /\ Held(h) <= Held(GrowBuffer(h, f)) /\ Held(h) <= Held(GrowMap(h, f))
<1>1. AtLeastOne(f.length) \in Nat /\ RxMapBytes(f.length) \in Nat
  BY ReassemblyAssumption DEF FragmentOK, AtLeastOne, RxMapBytes
<1> QED
  BY <1>1 DEF InProgress, GrowBuffer, GrowMap, Held

LEMMA MakeRoomFits ==
    ASSUME Inv, NEW f, FragmentOK(f), FitsWith(-1, f)
    PROVE  /\ Part(MakeRoom(f), queue)
           /\ RoomFor(f) + QueueBytes(MakeRoom(f)) <= MaxBytes
<1> DEFINE S == {-1} \cup { n \in DOMAIN queue : FitsWith(n, f) }
<1>1. S \subseteq Int /\ -1 \in S /\ \A y \in S : y <= NumMessages
  BY ReassemblyAssumption DEF Inv, QueueOK, MessageSeqs
<1>2. Max(S) \in S
  <2>1. NumMessages \in Int
    BY ReassemblyAssumption
  <2>2. PICK x \in S : x = -1
    BY <1>1
  <2> HIDE DEF S
  <2> QED BY <1>1, <2>1, <2>2, MaxOf
<1>3. FitsWith(Max(S), f)
  BY <1>2
<1>4. MakeRoom(f) = Lowest(Max(S))
  BY DEF MakeRoom
<1>5. Part(Lowest(Max(S)), queue)
  BY DropIsPart DEF Lowest
<1> QED
  BY <1>3, <1>4, <1>5 DEF FitsWith

LEMMA StartFailsOK ==
    ASSUME Inv, NEW f, Arrives(f), StartFails(f), UNCHANGED protected
    PROVE  StepOK
<1>1. /\ Part(queue', queue) /\ RoomFor(f) + QueueBytes(queue') <= MaxBytes
      /\ QueueBytes(queue') \in Nat
  BY MakeRoomFits, QueueFits DEF StartFails, Arrives
<1>2. DeliveredStep /\ failed' \in BOOLEAN
  BY DEF StartFails, NothingDelivered, DeliveredStep, Inv
<1> DEFINE g == GrowBuffer(hs, f)
<1>3. hs \in InProgress /\ Held(hs) \in Nat
  BY QueueFits
<1>4. g \in InProgress /\ Held(g) \in Nat /\ Held(hs) <= Held(g)
  BY <1>3, Grown DEF Arrives
<1>5. Held(g) <= RoomFor(f) /\ RoomFor(f) \in Nat
  <2> HIDE DEF g
  <2>1. GrowMap(g, f) \in InProgress /\ Held(g) <= Held(GrowMap(g, f))
    BY <1>4, Grown DEF Arrives
  <2> QED
    BY <2>1 DEF RoomFor, Held, g, InProgress
<1>6. \E h \in {hs, g} : hs' = Retired(h)
  BY DEF StartFails
<1>7. PICK h \in {hs, g} : hs' = Retired(h)
  BY <1>6
<1>8. h \in InProgress /\ Held(h) + QueueBytes(queue') <= MaxBytes
  <2> HIDE DEF g
  <2>1. Held(hs) + QueueBytes(queue') <= MaxBytes /\ Held(g) + QueueBytes(queue') <= MaxBytes
    BY <1>1, <1>3, <1>4, <1>5, ReassemblyAssumption
  <2> QED BY <2>1, <1>3, <1>4, <1>7
<1> QED
  BY <1>1, <1>2, <1>7, <1>8, RetireStep

LEMMA AddToOK ==
    ASSUME Inv, NEW f, Arrives(f), f.message_seq = expected_message_seq, ~ Whole(f),
           NEW h, HsOK(h, expected_message_seq, Genuine), h.buffer_len = f.length,
           NEW alloc_ok \in BOOLEAN, AddTo(h, f, alloc_ok),
           Part(queue', queue), Held(h) + QueueBytes(queue') <= MaxBytes, UNCHANGED protected
    PROVE  StepOK
<1> DEFINE e == expected_message_seq
           new == ApplyBytes(h, f)
<1>1. f.length # 0 /\ e \in MessageSeqs /\ f.length \in 0 .. MaxLen
  BY ReassemblyAssumption DEF Whole, Arrives, FragmentOK
<1>2. Counts(h, f.length) /\ h \in InProgress /\ FragmentOK(f)
  BY <1>1 DEF HsOK, Arrives
<1>3. PICK buffer, received, count : Applied(h, f, buffer, received, count)
  BY <1>2, ApplyBytesOK
<1>4. count \in 0 .. MaxLen
  BY <1>1, <1>3, ReassemblyAssumption DEF Applied
<1>5. /\ new \in InProgress /\ new.buffer = buffer /\ new.received = received
      /\ new.received_count = count /\ new.buffer_len = f.length /\ Held(new) = Held(h)
  BY <1>2, <1>3, <1>4 DEF InProgress, Applied, Held
<1> HIDE DEF new
<1>6. Counts(new, f.length) /\ (Genuine => f.length = MsgLen[e] /\ AllFrom(new, e) /\ f.msg_type = e)
  <2>1. Counts(new, f.length)
    BY <1>3, <1>5 DEF Counts, Applied
  <2>2. Genuine => FromPeer(f) /\ AllFrom(h, e)
    BY <1>1 DEF Arrives, HsOK
  <2>3. Genuine => AllFrom(new, e)
    BY <2>2, <1>3, <1>5 DEF AllFrom, FromPeer, Applied
  <2> QED
    BY <2>1, <2>2, <2>3, <1>2 DEF FromPeer, FragmentOK
<1>7. failed' \in BOOLEAN
  BY DEF AddTo
<1>8. CASE /\ Clash(h, f) = {} /\ new.received_count = f.length /\ alloc_ok
           /\ Deliver(f.msg_type, Body(f.length, new.buffer)) /\ hs' = Retired(new)
  <2> DEFINE m == [msg_type |-> f.msg_type, body |-> Body(f.length, new.buffer)]
  <2>1. f.msg_type \in Content
    BY <1>2 DEF FragmentOK
  <2>2. /\ m \in Messages
        /\ AllFrom(new, e) /\ f.length = MsgLen[e] /\ f.msg_type = e => m = Message(e)
    BY <2>1, <1>1, <1>6, <1>8, BodyOfFull
  <2>4. DeliveredStep
    BY <2>2, <1>1, <1>6, <1>8, DeliverSteps
  <2>5. Held(new) + QueueBytes(queue') <= MaxBytes
    BY <1>5
  <2> QED
    BY <2>4, <2>5, <1>5, <1>7, <1>8, RetireStep
<1>9. CASE NothingDelivered /\ hs' = new
  <2>1. QueueOK(queue', Honest) /\ (protected => DOMAIN queue' = {})
    BY PartOK DEF Inv, Part
  <2>2. HsOK(hs', e', Genuine)
    BY <1>1, <1>5, <1>6, <1>9 DEF HsOK, NothingDelivered
  <2>3. ReadyMeansIdle'
    BY <1>9, NotReadyKept DEF NothingDelivered, Arrives
  <2>4. WithinBudget'
    BY <1>5, <1>9 DEF WithinBudget, BytesHeld, Held
  <2> QED
    BY <2>1, <2>2, <2>3, <2>4, <1>7, <1>9 DEF StepOK, DeliveredStep, NothingDelivered
<1> QED
  BY <1>8, <1>9 DEF AddTo, new

LEMMA StartMessageOK ==
    ASSUME Inv, NEW f, Arrives(f), f.message_seq = expected_message_seq, ~ Whole(f),
           NEW alloc_ok \in BOOLEAN, StartMessage(f, alloc_ok), UNCHANGED protected
    PROVE  StepOK
<1> DEFINE g == GrowMap(GrowBuffer(hs, f), f)
           h == Started(f)
<1>1. /\ Part(queue', queue) /\ RoomFor(f) + QueueBytes(queue') <= MaxBytes
      /\ AddTo(h, f, alloc_ok)
  BY MakeRoomFits DEF StartMessage, Arrives
<1>2. FragmentOK(f) /\ f.length \in 0 .. MaxLen /\ hs \in InProgress
      /\ expected_message_seq \in MessageSeqs
  BY QueueFits DEF Arrives, FragmentOK
<1>3. g \in InProgress
  BY <1>2, Grown
<1>4. EmptyBuffer \in [Offsets -> Content] /\ 0 \in 0 .. MaxLen /\ Cardinality({}) = 0
      /\ {} \in SUBSET Offsets
  BY ReassemblyAssumption, FS_EmptySet DEF EmptyBuffer, Content
<1>5. h = [g EXCEPT !.buffer = EmptyBuffer, !.received = {}, !.received_count = 0,
                    !.buffer_len = f.length]
  BY DEF Started
<1>6. RoomFor(f) = Held(g)
  BY DEF RoomFor, Held
<1> HIDE DEF g, h
<1>7. /\ h \in InProgress /\ h.buffer = EmptyBuffer /\ h.received = {} /\ h.received_count = 0
      /\ h.buffer_len = f.length /\ Held(h) = Held(g)
  BY <1>2, <1>3, <1>4, <1>5 DEF InProgress, Held
<1>8. Counts(h, h.buffer_len) /\ AllFrom(h, expected_message_seq)
  BY <1>4, <1>7 DEF Counts, AllFrom
<1>9. Genuine => h.buffer_len = MsgLen[expected_message_seq]
  BY <1>7 DEF Arrives, FromPeer
<1>10. HsOK(h, expected_message_seq, Genuine)
  BY <1>2, <1>7, <1>8, <1>9 DEF HsOK
<1>11. Held(h) + QueueBytes(queue') <= MaxBytes
  BY <1>1, <1>6, <1>7
<1> QED
  BY <1>1, <1>7, <1>10, <1>11, AddToOK

LEMMA ContinueMessageOK ==
    ASSUME Inv, NEW f, Arrives(f), f.message_seq = expected_message_seq, ~ Whole(f),
           NEW alloc_ok \in BOOLEAN, ContinueMessage(f, alloc_ok), UNCHANGED protected
    PROVE  StepOK
<1>1. hs.buffer_len = f.length /\ AddTo(hs, f, alloc_ok) /\ queue' = queue
  BY DEF ContinueMessage, MustStart
<1>2. Part(queue', queue) /\ HsOK(hs, expected_message_seq, Genuine)
  BY <1>1 DEF Part, Inv
<1>3. Held(hs) + QueueBytes(queue') <= MaxBytes
  BY <1>1, QueueFits
<1> QED
  BY <1>1, <1>2, <1>3, AddToOK

-----------------------------------------------------------------------------
(* The specification.                                                       *)

LEMMA ReceiveOK ==
    ASSUME Inv, NEW f, FragmentOK(f), Genuine => FromPeer(f),
           NEW alloc_ok \in BOOLEAN, ReceiveFragment(f, alloc_ok)
    PROVE  StepOK
<1>1. ~ QueuedReady
  BY DEF ReceiveFragment, Receiving, QueuedReady, Inv
<1>2. Arrives(f)
  BY <1>1 DEF Arrives, ReceiveFragment, Receiving
<1>3. CASE StoreFuture(f, alloc_ok)
  BY <1>2, <1>3, StoreInSlotOK, StartSlotOK DEF StoreFuture
<1>4. CASE DeliverWhole(f)
  BY <1>2, <1>4, DeliverWholeOK
<1>5. CASE AddFragment(f, alloc_ok)
  BY <1>2, <1>5, NoRoomOK, StartFailsOK, StartMessageOK, ContinueMessageOK DEF AddFragment
<1> QED
  BY <1>1, <1>3, <1>4, <1>5 DEF ReceiveFragment

(* The in-progress message and the queue are gone before the first message  *)
(* under the keys.                                                          *)
LEMMA DiscardOK ==
    ASSUME Inv, ReassemblyDiscard, setting' = setting
    PROVE  Inv'
<1>1. /\ protected' = TRUE /\ queue' = << >> /\ hs' = [Retired(hs) EXCEPT !.buffer = EmptyBuffer]
      /\ UNCHANGED <<delivered, lost, expected_message_seq, failed>>
  BY DEF ReassemblyDiscard
<1>2. DOMAIN queue' = {} /\ QueueOK(queue', Honest') /\ Part(queue', queue)
  BY <1>1, EmptyQueue
<1>3. hs' \in InProgress /\ hs'.buffer_len = 0 /\ Held(hs') = Held(hs)
  <2>1. hs \in InProgress /\ Retired(hs) \in InProgress /\ Retired(hs).buffer_len = 0
        /\ Held(Retired(hs)) = Held(hs)
    BY QueueFits, RetiredOK DEF HsOK
  <2>2. EmptyBuffer \in [Offsets -> Content]
    BY DEF EmptyBuffer, Content
  <2>3. PICK r \in InProgress : r = Retired(hs)
    BY <2>1
  <2>4. hs' = [r EXCEPT !.buffer = EmptyBuffer]
    BY <1>1, <2>3
  <2>5. hs' \in InProgress /\ hs'.buffer_len = r.buffer_len /\ Held(hs') = Held(r)
    BY <2>2, <2>4 DEF InProgress, Held
  <2> QED
    BY <2>1, <2>3, <2>5
<1>4. HsOK(hs', expected_message_seq', Genuine') /\ ReadyMeansIdle'
  BY <1>3 DEF HsOK, ReadyMeansIdle
<1>5. WithinBudget'
  <2>1. QueueBytes(queue') \in Nat /\ QueueBytes(queue') <= QueueBytes(queue)
        /\ Held(hs) \in Nat /\ QueueBytes(queue) \in Nat /\ Held(hs) + QueueBytes(queue) <= MaxBytes
    BY <1>2, QueueFits
  <2>2. Held(hs') + QueueBytes(queue') <= MaxBytes
    BY <2>1, <1>3, ReassemblyAssumption
  <2> QED
    BY <2>2 DEF WithinBudget, BytesHeld, Held
<1>6. DeliveredOK'
  BY <1>1 DEF Inv, DeliveredOK, ProtectedAreGenuine
<1> QED
  BY <1>1, <1>2, <1>4, <1>5, <1>6 DEF Inv

LEMMA InvInit == Init => Inv
<1> SUFFICES ASSUME Init PROVE Inv
  OBVIOUS
<1>1. /\ setting \in Settings /\ protected = FALSE /\ failed = FALSE /\ delivered = << >>
      /\ lost = {} /\ expected_message_seq = 0 /\ queue = << >>
  BY DEF Init
<1>2. NumMessages \in Nat
  BY ReassemblyAssumption
<1>3. delivered \in Seq(Entries) /\ Len(delivered) = 0
  BY <1>1
<1>4. DeliveredOK
  BY <1>1, <1>2, <1>3 DEF DeliveredOK, ProtectedAreGenuine
<1>5. /\ DOMAIN queue = {} /\ QueueOK(queue, Honest)
  BY <1>1, EmptyQueue
<1>6. EmptyBuffer \in [Offsets -> Content] /\ 0 \in 0 .. MaxLen
  BY ReassemblyAssumption DEF EmptyBuffer, Content
<1>7. hs \in InProgress /\ hs.buffer_len = 0 /\ hs.capacity = 0 /\ hs.map_len = 0
  BY <1>6 DEF Init, InProgress
<1>8. HsOK(hs, expected_message_seq, Genuine) /\ ReadyMeansIdle
  BY <1>7 DEF HsOK, ReadyMeansIdle
<1>9. QueueBytes(queue) = 0
  <2>1. \A s \in MessageSeqs : Share(queue, s) = 0
    BY <1>5 DEF Share
  <2> DEFINE B == BytesBelow(queue)
             T == { n \in Nat : B[n] = 0 }
  <2>2. \A n \in 0 .. NumMessages : B[n] = IF n = 0 THEN 0 ELSE B[n - 1] + Share(queue, n - 1)
    BY BytesBelowDef
  <2> HIDE DEF B
  <2>3. 0 \in T
    BY <2>2, <1>2
  <2>4. ASSUME NEW n \in 0 .. NumMessages, n # NumMessages, n \in T PROVE n + 1 \in T
    <3>1. n + 1 \in 0 .. NumMessages /\ n \in MessageSeqs /\ n + 1 - 1 = n /\ n + 1 # 0
      BY <2>4, <1>2 DEF MessageSeqs
    <3>2. B[n + 1] = B[n] + Share(queue, n)
      BY <2>2, <3>1
    <3> QED
      BY <3>1, <3>2, <2>1, <2>4
  <2>5. NumMessages \in T
    <3> HIDE DEF T
    <3> QED BY <2>3, <2>4, <1>2, Climb
  <2> QED
    BY <2>5 DEF QueueBytes, B
<1>10. WithinBudget
  BY <1>7, <1>9, ReassemblyAssumption DEF WithinBudget, BytesHeld
<1> QED
  BY <1>1, <1>4, <1>5, <1>8, <1>10 DEF Inv

LEMMA NextSteps ==
    ASSUME Inv, Next
    PROVE  setting' = setting /\ (StepOK \/ ReassemblyDiscard)
<1>1. setting' = setting
  BY DEF Next
<1>2. CASE TakeQueued
  BY <1>1, <1>2, TakeQueuedOK
<1>3. ASSUME NEW f \in PeerFragments, NEW alloc_ok \in BOOLEAN, ReceiveFromPeer(f, alloc_ok)
      PROVE  StepOK
  BY <1>3, FragmentsOK, ReceiveOK DEF ReceiveFromPeer
<1>4. ASSUME NEW f \in ForeignFragments, NEW alloc_ok \in BOOLEAN, ReceiveForeign(f, alloc_ok)
      PROVE  StepOK
  <2>1. ~ Genuine
    BY <1>4 DEF ReceiveForeign, Genuine, Honest
  <2> QED
    BY <2>1, <1>4, FragmentsOK, ReceiveOK DEF ReceiveForeign
<1> QED
  BY <1>1, <1>2, <1>3, <1>4 DEF Next

LEMMA InvStep == Inv /\ [Next]_vars => Inv'
<1>1. ASSUME Inv, Next PROVE Inv'
  BY <1>1, NextSteps, StepKeeps, DiscardOK
<1>2. ASSUME Inv, UNCHANGED vars PROVE Inv'
  BY <1>2 DEF vars, Inv, DeliveredOK, ProtectedAreGenuine, ReadyMeansIdle,
              QueuedReady, WithinBudget, BytesHeld, Honest, Genuine
<1> QED
  BY <1>1, <1>2

(* The inductive invariant: buffer and slots count exactly the bytes they   *)
(* hold, what only the peer can write is the peer's, a queued message that  *)
(* is due finds the in-progress buffer empty, and the queue is gone once    *)
(* the read keys are there.                                                 *)
THEOREM ReassemblyInvariant == Spec => []Inv
BY InvInit, InvStep, PTL DEF Spec

(* The buffer, the queue's slots and what is delivered keep their types.    *)
THEOREM ReassemblyTypeCorrect == Spec => []TypeOK
<1>1. Inv => TypeOK
  BY DEF Inv, TypeOK, DeliveredOK, HsOK, QueueOK, SlotOK, Slots, InProgress, Entries, Messages, Bodies
<1> QED
  BY <1>1, ReassemblyInvariant, PTL

(* NOXTLS_DTLS_REASSEMBLY_MAX_BYTES bounds the buffer and the queue         *)
(* together, whichever fragments arrive and whichever allocation fails.     *)
THEOREM BudgetHolds == Spec => []WithinBudget
<1>1. Inv => WithinBudget
  BY DEF Inv
<1> QED
  BY <1>1, ReassemblyInvariant, PTL

(* After noxtls_dtls_reassembly_discard, only the peer's messages are       *)
(* delivered, however much plaintext of others was buffered before.         *)
THEOREM KeyedAreGenuine == Spec => []ProtectedAreGenuine
<1>1. Inv => ProtectedAreGenuine
  BY DEF Inv, DeliveredOK
<1> QED
  BY <1>1, ReassemblyInvariant, PTL

-----------------------------------------------------------------------------
(* The refinement.                                                          *)

LEMMA DeliversOne ==
    ASSUME Inv, setting' = setting, DeliveredStep
    PROVE  [Delivery!Next]_(Delivery!vars)
<1> DEFINE e == expected_message_seq
<1>1. setting.exposed' = setting.exposed
  OBVIOUS
<1>2. CASE NothingDelivered
  BY <1>1, <1>2 DEF Delivery!vars, NothingDelivered
<1>3. ASSUME Leaves PROVE Delivery!Settle
  BY <1>1, <1>3, ReassemblyAssumption DEF Leaves, MessageSeqs, Delivery!Settle
<1>4. CASE Leaves /\ LoseMessage
  BY <1>3, <1>4 DEF LoseMessage, Delivery!ReportLoss, Delivery!Next
<1>5. ASSUME NEW m, Handed(m)
      PROVE  Delivery!DeliverGenuine \/ Delivery!DeliverForged
  <2> DEFINE entry == [message_seq |-> e, message |-> m, protected |-> protected]
  <2>1. /\ delivered \in Seq(Entries) /\ protected \in BOOLEAN
        /\ \A n \in 1 .. Len(delivered) : delivered[n].protected => protected
        /\ entry \in Entries /\ delivered' = Append(delivered, entry) /\ lost' = lost
    BY <1>5 DEF Inv, DeliveredOK, Handed, HandOver, Leaves, Entries
  <2>2. Delivery!Settle
    BY <1>3, <1>5 DEF Handed
  <2>3. Delivery!Keyed => protected
    BY <2>1 DEF Delivery!Keyed
  <2>4. entry = Delivery!Handed(m, protected)
    BY DEF Delivery!Handed
  <2>5. CASE Genuine
    <3>1. delivered' = Append(delivered, Delivery!Handed(Message(e), protected))
      BY <2>1, <2>4, <2>5, <1>5 DEF Handed
    <3> QED
      BY <2>1, <2>2, <2>3, <3>1 DEF Delivery!DeliverGenuine
  <2>6. CASE ~ Genuine
    <3>1. setting.exposed /\ ~ protected
      BY <2>6 DEF Genuine, Honest
    <3>2. entry.message = m
      OBVIOUS
    <3> HIDE DEF entry
    <3>3. Len(delivered') = Len(delivered) + 1 /\ delivered'[Len(delivered')] = entry
      BY <2>1
    <3>4. protected = FALSE
      BY <3>1, <2>1
    <3>5. delivered' = Append(delivered, Delivery!Handed(delivered'[Len(delivered')].message, FALSE))
      BY <2>1, <2>4, <3>2, <3>3, <3>4
    <3> QED
      BY <2>1, <2>2, <2>3, <3>1, <3>3, <3>5 DEF Delivery!DeliverForged
  <2> QED
    BY <2>5, <2>6
<1> QED
  BY <1>2, <1>4, <1>5 DEF DeliveredStep, Delivery!Next

(* Every step of reassembly hands over the next whole message of the peer,  *)
(* or one that somebody else could write, or reports the loss of one        *)
(* message, or settles none: the safety part of ImplementsDelivery, for     *)
(* every failure of an allocation before and after the message left         *)
(* reassembly.                                                              *)
THEOREM RefinesDelivery == Spec => Delivery!Spec
<1>1. Init => Delivery!Init
  BY ReassemblyAssumption DEF Init, Delivery!Init
<1>2. Inv /\ [Next]_vars => [Delivery!Next]_(Delivery!vars)
  <2>1. ASSUME Inv, Next
        PROVE  [Delivery!Next]_(Delivery!vars)
    <3>1. setting' = setting /\ DeliveredStep
      BY <2>1, NextSteps DEF StepOK, ReassemblyDiscard, DeliveredStep, NothingDelivered
    <3> QED
      BY <2>1, <3>1, DeliversOne
  <2>2. ASSUME UNCHANGED vars PROVE UNCHANGED Delivery!vars
    BY <2>2 DEF vars, Delivery!vars
  <2> QED
    BY <2>1, <2>2
<1> QED
  BY <1>1, <1>2, ReassemblyInvariant, PTL DEF Spec, Delivery!Spec
=============================================================================
