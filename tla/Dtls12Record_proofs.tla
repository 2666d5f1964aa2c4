------------------------ MODULE Dtls12Record_proofs ------------------------
(***************************************************************************)
(* Proofs that the DTLS 1.2 record layer never uses a record number for    *)
(* two payloads, never opens a record number twice and never rejects a     *)
(* fresh record inside the window, for every window size, counter range    *)
(* and number of epochs.                                                   *)
(***************************************************************************)
EXTENDS Dtls12Record, TLAPS

USE RecordAssumption, ReplayWindowSizeAssumption DEF RecordAssumption, ReplayWindowSizeAssumption

(* An update records the new number: it keeps last_seq a Nat and the bitmap *)
(* inside the window.                                                       *)
LEMMA UpdateType ==
    ASSUME NEW win \in ReplayWindows, NEW seq \in Nat
    PROVE  UpdateReplayWindow(win, seq) \in ReplayWindows
  BY DEF ReplayWindows, UpdateReplayWindow, ShiftBits, Bits

LEMMA InitInv == Init => Inv
<1> SUFFICES ASSUME Init PROVE Inv
  OBVIOUS
<1>1. TypeOK
  <2>1. EmptyWindow \in ReplayWindows
    BY DEF EmptyWindow, ReplayWindows
  <2>2. 0 \in Epochs /\ 0 \in SeqNums
    BY DEF Epochs, SeqNums
  <2>3. flight \in Seq(FlightEntries) /\ resend \in 0 .. Len(flight)
    BY DEF Init
  <2> QED
    BY <2>1, <2>2, <2>3 DEF Init, TypeOK
<1>2. NonceUnique /\ WireBelowCounters /\ VerbatimIsSent
  BY DEF Init, NonceUnique, WireBelowCounters, VerbatimIsSent
<1>3. NoReplay /\ OpenedIsRecorded /\ BitsAreOpened
  BY DEF Init, NoReplay, OpenedIsRecorded, BitsAreOpened, EmptyWindow
<1> QED
  BY <1>1, <1>2, <1>3 DEF Inv

(* A buffered or unbuffered send that uses the current counter keeps the    *)
(* writer's invariant: the number is fresh because every number on the wire *)
(* is below the counter.                                                    *)
LEMMA SendFresh ==
    ASSUME Inv, NEW body \in Body,
           tx.write_seq_num < SeqNumMask,
           wire' = wire \cup {[epoch |-> tx.epoch, seq |-> tx.write_seq_num, body |-> body]}
    PROVE  /\ wire' \subseteq Records
           /\ NonceUnique'
           /\ tx' = [tx EXCEPT !.write_seq_num = @ + 1]
                => WireBelowCounters' /\ tx'.write_seq_num \in SeqNums
           /\ tx' = NextWriteEpoch([tx EXCEPT !.write_seq_num = @ + 1]) /\ tx.epoch < MaxEpoch
                => WireBelowCounters' /\ tx'.prev_write_seq_num \in SeqNums
<1>1. /\ wire' \subseteq Records
      /\ NonceUnique'
  BY DEF Inv, TypeOK, NonceUnique, WireBelowCounters, Records, Epochs, SeqNums
<1>2. ASSUME tx' = [tx EXCEPT !.write_seq_num = @ + 1]
      PROVE  WireBelowCounters' /\ tx'.write_seq_num \in SeqNums
  BY <1>2 DEF Inv, TypeOK, WireBelowCounters, Records, Epochs, SeqNums
<1>3. ASSUME tx' = NextWriteEpoch([tx EXCEPT !.write_seq_num = @ + 1]), tx.epoch < MaxEpoch
      PROVE  WireBelowCounters' /\ tx'.prev_write_seq_num \in SeqNums
  BY <1>3, SMTT(40) DEF Inv, TypeOK, WireBelowCounters, Records, Epochs, SeqNums, NextWriteEpoch
<1> QED
  BY <1>1, <1>2, <1>3

(* Joining the flight keeps it well typed and keeps VerbatimIsSent when the *)
(* record goes out in the same step.                                        *)
LEMMA BufferKeeps ==
    ASSUME Inv, resend = 0, UNCHANGED resend, NEW entry \in FlightEntries,
           BufferInFlight(entry), wire \subseteq wire', RecordOf(entry) \in wire'
    PROVE  /\ flight' \in Seq(FlightEntries)
           /\ peer_next' \in BOOLEAN
           /\ resend' \in 0 .. Len(flight')
           /\ VerbatimIsSent'
<1> DEFINE old == IF peer_next THEN << >> ELSE flight
<1>1. old \in Seq(FlightEntries) /\ flight' = Append(old, entry)
  BY DEF Inv, TypeOK, BufferInFlight
<1>2. flight' \in Seq(FlightEntries) /\ Len(flight') = Len(old) + 1 /\ Len(old) \in Nat
  BY <1>1
<1>3. \A i \in 1 .. Len(flight') : flight'[i] = IF i <= Len(old) THEN old[i] ELSE entry
  BY <1>1, <1>2
<1>4. \A i \in 1 .. Len(old) :
        (~old[i].protect /\ old[i].epoch # 0) => RecordOf(old[i]) \in wire
  BY DEF Inv, VerbatimIsSent
<1>5. VerbatimIsSent'
  BY <1>2, <1>3, <1>4 DEF VerbatimIsSent, RecordOf
<1>6. peer_next' \in BOOLEAN
  BY DEF BufferInFlight
<1>7. resend' \in 0 .. Len(flight')
  BY <1>2
<1> QED
  BY <1>2, <1>5, <1>6, <1>7

(* Steps that leave the reader alone keep the reader's half.                *)
LEMMA ReaderUnchanged ==
    ASSUME Inv, UNCHANGED <<rx, opened>>
    PROVE  NoReplay' /\ OpenedIsRecorded' /\ BitsAreOpened'
  BY DEF Inv, NoReplay, OpenedIsRecorded, BitsAreOpened

(* Sending: noxtls_dtls_send_record, noxtls_dtls_send_protected_record and  *)
(* the ChangeCipherSpec that advances the write epoch.                      *)
LEMMA SendKeepsInv ==
    ASSUME Inv,
           \/ \E body \in Body, buffered \in BOOLEAN : SendRecord(body, buffered)
           \/ \E body \in Body : SendProtectedRecord(body)
           \/ SendChangeCipherSpec
    PROVE  Inv'
<1>1. ASSUME NEW body \in Body, NEW buffered \in BOOLEAN, SendRecord(body, buffered)
      PROVE  Inv'
  <2>1. wire' = wire \cup {[epoch |-> tx.epoch, seq |-> tx.write_seq_num, body |-> body]}
    BY <1>1 DEF SendRecord, RecordOf, Entry
  <2>2. /\ wire' \subseteq Records /\ NonceUnique' /\ WireBelowCounters'
        /\ tx' \in [epoch : Epochs, write_seq_num : SeqNums, prev_write_seq_num : SeqNums]
    BY <1>1, <2>1, SendFresh DEF SendRecord, Inv, TypeOK
  <2>3. /\ flight' \in Seq(FlightEntries) /\ peer_next' \in BOOLEAN
        /\ resend' \in 0 .. Len(flight') /\ VerbatimIsSent'
    <3>1. CASE buffered
      <4>1. Entry(body, FALSE) \in FlightEntries
        BY <1>1 DEF Entry, FlightEntries, Inv, TypeOK
      <4> QED
        BY <1>1, <3>1, <4>1, <2>1, BufferKeeps DEF SendRecord
    <3>2. CASE ~buffered
      BY <1>1, <3>2, <2>1 DEF SendRecord, Inv, TypeOK, VerbatimIsSent
    <3> QED
      BY <3>1, <3>2
  <2>4. NoReplay' /\ OpenedIsRecorded' /\ BitsAreOpened'
    BY <1>1, ReaderUnchanged DEF SendRecord
  <2> QED
    BY <1>1, <2>2, <2>3, <2>4 DEF SendRecord, Inv, TypeOK
<1>2. ASSUME NEW body \in Body, SendProtectedRecord(body)
      PROVE  Inv'
  <2>1. wire' = wire \cup {[epoch |-> tx.epoch, seq |-> tx.write_seq_num, body |-> body]}
    BY <1>2 DEF SendProtectedRecord, RecordOf, Entry
  <2>2. /\ wire' \subseteq Records /\ NonceUnique' /\ WireBelowCounters'
        /\ tx' \in [epoch : Epochs, write_seq_num : SeqNums, prev_write_seq_num : SeqNums]
    BY <1>2, <2>1, SendFresh DEF SendProtectedRecord, Inv, TypeOK
  <2>3. Entry(body, TRUE) \in FlightEntries
    BY <1>2 DEF Entry, FlightEntries, Inv, TypeOK
  <2>4. /\ flight' \in Seq(FlightEntries) /\ peer_next' \in BOOLEAN
        /\ resend' \in 0 .. Len(flight') /\ VerbatimIsSent'
    BY <1>2, <2>1, <2>3, BufferKeeps DEF SendProtectedRecord
  <2>5. NoReplay' /\ OpenedIsRecorded' /\ BitsAreOpened'
    BY <1>2, ReaderUnchanged DEF SendProtectedRecord
  <2> QED
    BY <1>2, <2>2, <2>4, <2>5 DEF SendProtectedRecord, Inv, TypeOK
<1>3. ASSUME SendChangeCipherSpec
      PROVE  Inv'
  <2>1. wire' = wire \cup {[epoch |-> tx.epoch, seq |-> tx.write_seq_num, body |-> ChangeCipherSpec]}
    BY <1>3 DEF SendChangeCipherSpec, RecordOf, Entry
  <2>2. /\ wire' \subseteq Records /\ NonceUnique' /\ WireBelowCounters'
        /\ tx'.prev_write_seq_num \in SeqNums
    BY <1>3, <2>1, SendFresh DEF SendChangeCipherSpec
  <2>3. tx' \in [epoch : Epochs, write_seq_num : SeqNums, prev_write_seq_num : SeqNums]
    BY <1>3, <2>2 DEF SendChangeCipherSpec, NextWriteEpoch, Inv, TypeOK, Epochs, SeqNums
  <2>4. Entry(ChangeCipherSpec, FALSE) \in FlightEntries
    BY <1>3 DEF Entry, FlightEntries, Inv, TypeOK
  <2>5. /\ flight' \in Seq(FlightEntries) /\ peer_next' \in BOOLEAN
        /\ resend' \in 0 .. Len(flight') /\ VerbatimIsSent'
    BY <1>3, <2>1, <2>4, BufferKeeps DEF SendChangeCipherSpec
  <2>6. NoReplay' /\ OpenedIsRecorded' /\ BitsAreOpened'
    BY <1>3, ReaderUnchanged DEF SendChangeCipherSpec
  <2> QED
    BY <1>3, <2>2, <2>3, <2>5, <2>6 DEF SendChangeCipherSpec, Inv, TypeOK
<1> QED
  BY <1>1, <1>2, <1>3

(* Bookkeeping steps on the flight put nothing on the wire.                 *)
LEMMA FlightKeepsInv ==
    ASSUME Inv, PeerProgress \/ FlightReset \/ StartRetransmit
    PROVE  Inv'
<1>1. NoReplay' /\ OpenedIsRecorded' /\ BitsAreOpened'
  BY ReaderUnchanged DEF PeerProgress, FlightReset, StartRetransmit
<1>2. NonceUnique' /\ WireBelowCounters' /\ VerbatimIsSent'
  BY DEF PeerProgress, FlightReset, StartRetransmit, Inv, NonceUnique, WireBelowCounters, VerbatimIsSent
<1>3. flight' \in Seq(FlightEntries) /\ resend' \in 0 .. Len(flight')
  <2>1. CASE PeerProgress
    BY <2>1 DEF PeerProgress, Inv, TypeOK
  <2>2. CASE FlightReset
    BY <2>2 DEF FlightReset, Inv, TypeOK
  <2>3. CASE StartRetransmit
    <3>1. flight \in Seq(FlightEntries) /\ flight # << >>
      BY <2>3 DEF StartRetransmit, Inv, TypeOK
    <3>2. Len(flight) \in Nat \ {0}
      BY <3>1
    <3> QED
      BY <2>3, <3>1, <3>2 DEF StartRetransmit
  <2> QED
    BY <2>1, <2>2, <2>3
<1>4. peer_next' \in BOOLEAN
  BY DEF PeerProgress, FlightReset, StartRetransmit, Inv, TypeOK
<1> QED
  BY <1>1, <1>2, <1>3, <1>4 DEF PeerProgress, FlightReset, StartRetransmit, Inv, TypeOK

(* A retransmission keeps the invariant: a renumbered record takes a fresh  *)
(* number of its own epoch, a verbatim one is already on the wire.          *)
LEMMA ResendKeepsInv ==
    ASSUME Inv, ResendRecord
    PROVE  Inv'
<1> DEFINE entry == flight[resend]
<1>1. resend \in 1 .. Len(flight) /\ entry \in FlightEntries
  BY DEF ResendRecord, Inv, TypeOK
<1>2. NoReplay' /\ OpenedIsRecorded' /\ BitsAreOpened'
  BY ReaderUnchanged DEF ResendRecord
<1>3. NextCursor \in 0 .. Len(flight)
  BY <1>1 DEF NextCursor, Inv, TypeOK
<1>4. CASE ResendVerbatim(entry)
  <2>1. wire' = wire
    BY <1>1, <1>4 DEF ResendVerbatim, Inv, VerbatimIsSent
  <2> QED
    BY <1>2, <1>3, <1>4, <2>1 DEF ResendVerbatim, ResendRecord, Inv, TypeOK,
       NonceUnique, WireBelowCounters, VerbatimIsSent
<1>5. CASE ResendFresh(entry)
  <2> DEFINE seq == TakeSeq(entry)
             rec == [RecordOf(entry) EXCEPT !.seq = seq]
  <2>1. /\ seq \in SeqNums /\ seq < SeqNumMask
        /\ rec = [epoch |-> entry.epoch, seq |-> seq, body |-> entry.body]
        /\ rec \in Records
    BY <1>1, <1>5 DEF ResendFresh, TakeSeq, RecordOf, Records, FlightEntries, Inv, TypeOK
  <2>2. wire' = wire \cup {rec}
    BY <1>5 DEF ResendFresh
  <2>3. tx' \in [epoch : Epochs, write_seq_num : SeqNums, prev_write_seq_num : SeqNums]
    <3>1. CASE CurrentCounter(entry)
      <4>1. tx' = [tx EXCEPT !.write_seq_num = @ + 1] /\ tx.write_seq_num = seq
        BY <1>5, <3>1 DEF ResendFresh, AdvanceSeq, TakeSeq
      <4> HIDE DEF seq
      <4>2. tx.write_seq_num + 1 \in SeqNums
        BY <2>1, <4>1 DEF SeqNums
      <4> QED
        BY <4>1, <4>2 DEF Inv, TypeOK
    <3>2. CASE ~CurrentCounter(entry)
      <4>1. tx' = [tx EXCEPT !.prev_write_seq_num = @ + 1] /\ tx.prev_write_seq_num = seq
        BY <1>5, <3>2 DEF ResendFresh, AdvanceSeq, TakeSeq
      <4> HIDE DEF seq
      <4>2. tx.prev_write_seq_num + 1 \in SeqNums
        BY <2>1, <4>1 DEF SeqNums
      <4> QED
        BY <4>1, <4>2 DEF Inv, TypeOK
    <3> QED
      BY <3>1, <3>2
  <2>4. NonceUnique'
    <3>1. \A a \in wire : a.epoch = entry.epoch => a.seq < seq
      BY <1>5 DEF ResendFresh, TakeSeq, CurrentCounter, PreviousCounter, Inv, WireBelowCounters
    <3> HIDE DEF entry, seq, rec
    <3>2. rec.epoch = entry.epoch /\ rec.seq = seq
      BY <2>1
    <3> QED
      BY <2>1, <2>2, <3>1, <3>2 DEF NonceUnique, Inv, SeqNums, TypeOK, Records
  <2>5. WireBelowCounters'
    <3>1. CASE CurrentCounter(entry)
      <4>1. tx' = [tx EXCEPT !.write_seq_num = @ + 1] /\ seq = tx.write_seq_num
        BY <1>5, <3>1 DEF ResendFresh, AdvanceSeq, TakeSeq
      <4> QED
        BY <2>1, <2>2, <3>1, <4>1, SMTT(40) DEF WireBelowCounters, CurrentCounter, Inv, TypeOK, Records, Epochs, SeqNums
    <3>2. CASE ~CurrentCounter(entry)
      <4>1. /\ tx' = [tx EXCEPT !.prev_write_seq_num = @ + 1] /\ seq = tx.prev_write_seq_num
            /\ entry.epoch + 1 = tx.epoch
        BY <1>5, <3>2 DEF ResendFresh, AdvanceSeq, TakeSeq, PreviousCounter
      <4> HIDE DEF entry, seq, rec
      <4>2. rec.epoch = entry.epoch /\ rec.seq = seq /\ entry.epoch \in Epochs
        BY <1>1, <2>1 DEF FlightEntries
      <4> QED
        BY <2>1, <2>2, <4>1, <4>2, SMTT(40) DEF WireBelowCounters, Inv, TypeOK, Records, Epochs, SeqNums
    <3> QED
      BY <3>1, <3>2
  <2>6. /\ flight' \in Seq(FlightEntries) /\ Len(flight') = Len(flight)
        /\ VerbatimIsSent'
    <3>1. CASE entry.protect
      BY <1>5, <2>2, <3>1 DEF ResendFresh, Inv, TypeOK, VerbatimIsSent
    <3>2. CASE ~entry.protect
      <4>1. /\ flight' = [flight EXCEPT ![resend].seq = seq] /\ entry.epoch = 0
        BY <1>5, <3>2 DEF ResendFresh
      <4>2. [entry EXCEPT !.seq = seq] \in FlightEntries
        BY <1>1, <2>1 DEF FlightEntries
      <4>3. flight \in Seq(FlightEntries)
        BY DEF Inv, TypeOK
      <4>4. /\ flight' \in Seq(FlightEntries) /\ Len(flight') = Len(flight)
            /\ \A i \in 1 .. Len(flight) :
                  flight'[i] = IF i = resend THEN [entry EXCEPT !.seq = seq] ELSE flight[i]
        BY <1>1, <4>1, <4>2, <4>3
      <4>5. VerbatimIsSent'
        BY <1>1, <2>2, <4>1, <4>4 DEF VerbatimIsSent, Inv, RecordOf, FlightEntries
      <4> QED
        BY <4>4, <4>5
    <3> QED
      BY <3>1, <3>2
  <2>7. resend' \in 0 .. Len(flight')
    BY <1>3, <1>5, <2>6 DEF ResendFresh
  <2>8. wire' \subseteq Records
    BY <2>1, <2>2 DEF Inv, TypeOK
  <2> QED
    BY <1>2, <2>3, <2>4, <2>5, <2>6, <2>7, <2>8 DEF ResendRecord, Inv, TypeOK
<1>6. CASE SkipStale(entry) \/ AbortRetransmit
  <2>1. resend' \in 0 .. Len(flight)
    BY <1>3, <1>6 DEF SkipStale, AbortRetransmit, Inv, TypeOK
  <2> QED
    BY <1>2, <1>6, <2>1 DEF SkipStale, AbortRetransmit, ResendRecord, Inv, TypeOK,
       NonceUnique, WireBelowCounters, VerbatimIsSent
<1> QED
  BY <1>4, <1>5, <1>6 DEF ResendRecord

(* Steps of the reader leave the writer's half alone.                       *)
LEMMA WriterUnchanged ==
    ASSUME Inv, UNCHANGED <<tx, flight, peer_next, resend, wire>>
    PROVE  NonceUnique' /\ WireBelowCounters' /\ VerbatimIsSent'
  BY DEF Inv, NonceUnique, WireBelowCounters, VerbatimIsSent

(* An admitted record was not opened before: CheckReplay refuses every      *)
(* number at or below last_seq that has its bit or is out of the window.    *)
LEMMA AdmittedIsNew ==
    ASSUME Inv, NEW rec \in wire, Admitted(rec.epoch, rec.seq)
    PROVE  opened[<<rec.epoch, rec.seq>>] = 0
<1>1. rec.epoch = rx.read_epoch /\ rec.epoch \in Epochs /\ rec.seq \in SeqNums
  BY DEF Admitted, Inv, TypeOK, Records
<1> DEFINE n == <<rec.epoch, rec.seq>>
<1>2. n \in Epochs \X SeqNums /\ n[1] = rx.read_epoch /\ n[2] = rec.seq
  BY <1>1
<1>3. opened[n] \in Nat
  BY <1>2 DEF Inv, TypeOK
<1>4. SUFFICES ASSUME opened[n] > 0 PROVE FALSE
  BY <1>3
<1>5. /\ rec.seq <= rx.replay_window.last_seq
      /\ rx.replay_window.last_seq - rec.seq < ReplayWindowSize
           => rx.replay_window.last_seq - rec.seq \in rx.replay_window.window_bitmap
  BY <1>2, <1>4 DEF Inv, OpenedIsRecorded
<1> QED
  BY <1>1, <1>5 DEF Admitted, CheckReplay, Inv, TypeOK, ReplayWindows, SeqNums

(* Opening a record moves the window so that it still records exactly what  *)
(* was opened.                                                              *)
LEMMA OpenKeepsWindow ==
    ASSUME Inv, NEW rec \in wire, Admitted(rec.epoch, rec.seq),
           opened' = [opened EXCEPT ![<<rec.epoch, rec.seq>>] = @ + 1]
    PROVE  /\ opened' \in [Epochs \X SeqNums -> Nat]
           /\ NoReplay'
           /\ rx' = RecordOpened(rec.seq) => OpenedIsRecorded' /\ BitsAreOpened'
           /\ \A n \in Epochs \X SeqNums : opened'[n] > 0 => n[1] <= rx.read_epoch
<1> DEFINE n0 == <<rec.epoch, rec.seq>>
           w == rx.replay_window
           w1 == UpdateReplayWindow(w, rec.seq)
<1>1. /\ rec.epoch = rx.read_epoch /\ rec.epoch \in Epochs /\ rec.seq \in SeqNums
      /\ rec.seq \in Nat /\ n0 \in Epochs \X SeqNums
  BY DEF Admitted, Inv, TypeOK, Records, SeqNums
<1>2. opened[n0] = 0
  BY AdmittedIsNew
<1>3. /\ opened' \in [Epochs \X SeqNums -> Nat]
      /\ \A n \in Epochs \X SeqNums : opened'[n] = IF n = n0 THEN 1 ELSE opened[n]
  BY <1>1, <1>2 DEF Inv, TypeOK
<1>4. NoReplay'
  <2>1. DOMAIN opened = Epochs \X SeqNums /\ DOMAIN opened' = Epochs \X SeqNums
    BY <1>3 DEF Inv, TypeOK
  <2>2. \A n \in Epochs \X SeqNums : opened[n] <= 1
    BY <2>1 DEF Inv, NoReplay
  <2>3. \A n \in Epochs \X SeqNums : opened'[n] <= 1
    BY <1>3, <2>2
  <2> QED
    BY <2>1, <2>3 DEF NoReplay
<1>5. \A n \in Epochs \X SeqNums : opened'[n] > 0 => n[1] <= rx.read_epoch
  BY <1>1, <1>3 DEF Inv, OpenedIsRecorded, TypeOK, Epochs
<1>6. w \in ReplayWindows /\ w1 \in ReplayWindows
  BY <1>1, UpdateType DEF Inv, TypeOK
<1>7. ASSUME rx' = RecordOpened(rec.seq) PROVE OpenedIsRecorded'
  <2>1. rx'.read_epoch = rx.read_epoch /\ rx'.replay_window = w1
    BY <1>7 DEF RecordOpened, Inv, TypeOK
  <2>2. SUFFICES ASSUME NEW n \in Epochs \X SeqNums, opened'[n] > 0, n[1] = rx.read_epoch
                 PROVE  /\ n[2] <= w1.last_seq
                        /\ w1.last_seq - n[2] < ReplayWindowSize
                              => w1.last_seq - n[2] \in w1.window_bitmap
    BY <1>5, <2>1 DEF OpenedIsRecorded
  <2>3. n[2] \in Nat /\ n = <<n[1], n[2]>>
    BY DEF SeqNums
  <2>4. CASE n = n0
    BY <1>1, <1>6, <2>3, <2>4 DEF UpdateReplayWindow, ReplayWindows, ShiftBits, Bits
  <2>5. CASE n # n0
    <3>1. /\ n[2] <= w.last_seq
          /\ w.last_seq - n[2] < ReplayWindowSize => w.last_seq - n[2] \in w.window_bitmap
      BY <1>3, <2>2, <2>5 DEF Inv, OpenedIsRecorded
    <3> HIDE DEF w
    <3> QED
      BY <1>1, <1>6, <2>3, <3>1 DEF UpdateReplayWindow, ReplayWindows, ShiftBits, Bits
  <2> QED
    BY <2>4, <2>5
<1>8. ASSUME rx' = RecordOpened(rec.seq) PROVE BitsAreOpened'
  <2>1. rx'.read_epoch = rx.read_epoch /\ rx'.replay_window = w1
    BY <1>8 DEF RecordOpened, Inv, TypeOK
  <2>2. SUFFICES ASSUME NEW b \in w1.window_bitmap
                 PROVE  \E s \in SeqNums : s = w1.last_seq - b /\ opened'[<<rx.read_epoch, s>>] > 0
    BY <2>1 DEF BitsAreOpened
  <2>3. \/ b = w1.last_seq - rec.seq
        \/ \E c \in w.window_bitmap : w.last_seq - c = w1.last_seq - b
    BY <1>1, <1>6 DEF UpdateReplayWindow, ReplayWindows, ShiftBits, Bits
  <2>4. CASE b = w1.last_seq - rec.seq
    BY <1>1, <1>3, <1>6, <2>4 DEF ReplayWindows
  <2>5. ASSUME NEW c \in w.window_bitmap, w.last_seq - c = w1.last_seq - b
        PROVE  \E s \in SeqNums : s = w1.last_seq - b /\ opened'[<<rx.read_epoch, s>>] > 0
    <3>1. PICK s \in SeqNums : s = w.last_seq - c /\ opened[<<rx.read_epoch, s>>] > 0
      BY <2>5 DEF Inv, BitsAreOpened
    <3>2. <<rx.read_epoch, s>> \in Epochs \X SeqNums
      BY DEF Inv, TypeOK
    <3>3. opened'[<<rx.read_epoch, s>>] > 0
      BY <1>3, <3>1, <3>2
    <3> QED
      BY <2>5, <3>1, <3>3
  <2> QED
    BY <2>3, <2>4, <2>5
<1> QED
  BY <1>3, <1>4, <1>5, <1>7, <1>8

(* Receiving keeps the invariant: a record, the ChangeCipherSpec that opens *)
(* the next epoch with an empty window, and a record that does not          *)
(* authenticate and must not move the window.                               *)
LEMMA ReceiveKeepsInv ==
    ASSUME Inv, Reader
    PROVE  Inv'
<1>1. ASSUME NEW rec \in wire, ReceiveRecord(rec)
      PROVE  Inv'
  <2>1. NonceUnique' /\ WireBelowCounters' /\ VerbatimIsSent'
    BY <1>1, WriterUnchanged DEF ReceiveRecord
  <2>2. /\ opened' \in [Epochs \X SeqNums -> Nat] /\ NoReplay'
        /\ OpenedIsRecorded' /\ BitsAreOpened'
    BY <1>1, OpenKeepsWindow DEF ReceiveRecord, Accept
  <2>3. rec.seq \in SeqNums /\ rec.seq \in Nat
    BY DEF Inv, TypeOK, Records, SeqNums
  <2>4. UpdateReplayWindow(rx.replay_window, rec.seq) \in ReplayWindows
    BY <2>3, UpdateType DEF Inv, TypeOK
  <2>5. rx' \in [read_epoch : Epochs, read_seq_num : SeqNums, replay_window : ReplayWindows]
    BY <1>1, <2>3, <2>4 DEF ReceiveRecord, RecordOpened, Inv, TypeOK
  <2> QED
    BY <1>1, <2>1, <2>2, <2>5 DEF ReceiveRecord, Inv, TypeOK
<1>2. ASSUME NEW rec \in wire, ReceiveChangeCipherSpec(rec)
      PROVE  Inv'
  <2>1. NonceUnique' /\ WireBelowCounters' /\ VerbatimIsSent'
    BY <1>2, WriterUnchanged DEF ReceiveChangeCipherSpec
  <2>2. /\ opened' \in [Epochs \X SeqNums -> Nat] /\ NoReplay'
        /\ \A n \in Epochs \X SeqNums : opened'[n] > 0 => n[1] <= rx.read_epoch
    BY <1>2, OpenKeepsWindow DEF ReceiveChangeCipherSpec, Accept
  <2>3. rx' = [read_epoch |-> rx.read_epoch + 1, read_seq_num |-> 0, replay_window |-> EmptyWindow]
    BY <1>2 DEF ReceiveChangeCipherSpec, NextReadEpoch, RecordOpened, Inv, TypeOK
  <2>4. EmptyWindow \in ReplayWindows
    BY DEF EmptyWindow, ReplayWindows
  <2>5. rx.read_epoch \in Epochs /\ rx.read_epoch + 1 \in Epochs /\ 0 \in SeqNums
    BY <1>2 DEF ReceiveChangeCipherSpec, Inv, TypeOK, Epochs, SeqNums
  <2>6. rx' \in [read_epoch : Epochs, read_seq_num : SeqNums, replay_window : ReplayWindows]
    BY <2>3, <2>4, <2>5
  <2>7. OpenedIsRecorded'
    <3>1. \A n \in Epochs \X SeqNums : opened'[n] > 0 => n[1] < rx'.read_epoch
      BY <2>2, <2>3, <2>5 DEF Epochs
    <3>2. \A n \in Epochs \X SeqNums : n[1] \in Int
      BY DEF Epochs
    <3>3. rx'.read_epoch \in Int
      BY <2>3, <2>5 DEF Epochs
    <3> QED
      BY <3>1, <3>2, <3>3 DEF OpenedIsRecorded
  <2>8. BitsAreOpened'
    BY <2>3 DEF BitsAreOpened, EmptyWindow
  <2> QED
    BY <1>2, <2>1, <2>2, <2>6, <2>7, <2>8 DEF ReceiveChangeCipherSpec, Inv, TypeOK
<1>3. ASSUME NEW seq \in SeqNums, ReceiveUnauthentic(seq)
      PROVE  Inv'
  <2>1. NonceUnique' /\ WireBelowCounters' /\ VerbatimIsSent'
    BY <1>3, WriterUnchanged DEF ReceiveUnauthentic
  <2>2. rx'.read_epoch = rx.read_epoch /\ rx'.replay_window = rx.replay_window
    BY <1>3 DEF ReceiveUnauthentic, Inv, TypeOK
  <2>3. NoReplay' /\ OpenedIsRecorded' /\ BitsAreOpened'
    BY <1>3, <2>2 DEF ReceiveUnauthentic, Inv, NoReplay, OpenedIsRecorded, BitsAreOpened
  <2> QED
    BY <1>3, <2>1, <2>3 DEF ReceiveUnauthentic, Inv, TypeOK
<1> QED
  BY <1>1, <1>2, <1>3 DEF Reader

(* The invariant holds in every reachable state of the record layer.        *)
THEOREM RecordLayerInvariant == Spec => []Inv
<1>1. Inv /\ [Next]_vars => Inv'
  <2> SUFFICES ASSUME Inv, [Next]_vars PROVE Inv'
    OBVIOUS
  <2>1. CASE Writer
    BY <2>1, SendKeepsInv, FlightKeepsInv, ResendKeepsInv DEF Writer
  <2>2. CASE Reader
    BY <2>2, ReceiveKeepsInv
  <2>3. CASE UNCHANGED vars
    BY <2>3 DEF vars, Inv, TypeOK, NonceUnique, WireBelowCounters, VerbatimIsSent,
       NoReplay, OpenedIsRecorded, BitsAreOpened
  <2> QED
    BY <2>1, <2>2, <2>3 DEF Next
<1> QED
  BY InitInv, <1>1, PTL DEF Spec

(* The record layer's variables keep their types: in particular both write  *)
(* counters stay within the 48-bit range (SeqNumMask) forever.              *)
THEOREM TypeCorrect == Spec => []TypeOK
<1>1. Inv => TypeOK
  BY DEF Inv
<1> QED
  BY RecordLayerInvariant, <1>1, PTL

(* No (epoch, sequence number) pair, hence no AEAD nonce, is ever used for  *)
(* two different payloads, whatever is resent and however often the write   *)
(* epoch changes (dtls12_flight_resend_record, noxtls_dtls_next_write_epoch). *)
THEOREM NoncesAreUnique == Spec => []NonceUnique
<1>1. Inv => NonceUnique
  BY DEF Inv
<1> QED
  BY RecordLayerInvariant, <1>1, PTL

(* No record number is handed to the upper layer twice, for every window    *)
(* size and every order of duplicates (noxtls_dtls_check_replay,            *)
(* noxtls_dtls_update_replay_window, noxtls_dtls_next_read_epoch).          *)
THEOREM RecordsOpenOnce == Spec => []NoReplay
<1>1. Inv => NoReplay
  BY DEF Inv
<1> QED
  BY RecordLayerInvariant, <1>1, PTL

(* A genuine record inside the window that was not opened yet is admitted,  *)
(* whatever unauthentic records were seen (tls12_record_opened commits the  *)
(* window only after authentication).                                       *)
THEOREM FreshRecordsPass == Spec => []NoFalseReject
<1>1. Inv => NoFalseReject
  <2> SUFFICES ASSUME Inv, NEW rec \in wire, rec.epoch = rx.read_epoch,
                      opened[<<rec.epoch, rec.seq>>] = 0,
                      rx.replay_window.last_seq - rec.seq < ReplayWindowSize,
                      rec.seq <= rx.replay_window.last_seq,
                      rx.replay_window.last_seq - rec.seq \in rx.replay_window.window_bitmap
               PROVE  FALSE
    BY DEF NoFalseReject, CheckReplay, Inv, TypeOK, Records, SeqNums, ReplayWindows
  <2>1. rec.seq \in Nat /\ rx.replay_window.last_seq \in Nat
    BY DEF Inv, TypeOK, Records, SeqNums, ReplayWindows
  <2>2. PICK s \in SeqNums :
            /\ s = rx.replay_window.last_seq - (rx.replay_window.last_seq - rec.seq)
            /\ opened[<<rx.read_epoch, s>>] > 0
    BY DEF Inv, BitsAreOpened
  <2>3. s = rec.seq
    BY <2>1, <2>2
  <2> QED
    BY <2>2, <2>3
<1> QED
  BY RecordLayerInvariant, <1>1, PTL

=============================================================================
