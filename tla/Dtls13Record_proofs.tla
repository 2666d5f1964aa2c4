------------------------ MODULE Dtls13Record_proofs ------------------------
(***************************************************************************)
(* Proofs that the DTLS 1.3 record layer never uses a record number for    *)
(* two payloads of an epoch and never opens a record twice, for every      *)
(* window size, field width, flight capacity and number of KeyUpdates.     *)
(***************************************************************************)
EXTENDS Dtls13Record, TLAPS

USE Record13Assumption, ReplayWindowSizeAssumption
    DEF Record13Assumption, ReplayWindowSizeAssumption,
        DTLS13_EPOCH_HANDSHAKE, DTLS13_EPOCH_APPLICATION, LowEpochs

(* The parts of TypeOK that only the writer, or only the reader, changes. *)
WriteStateOK ==
    tx \in [epoch : Epochs, write_seq_num : SeqNums, prev_write_seq_num : SeqNums]
FlightOK ==
    flight \in Seq(FlightEntries) /\ resend \in 0 .. Len(flight)
ReaderOK ==
    /\ rx \in [read_connection_epoch : Epochs,
               replay_windows : [Lows -> ReplayWindows],
               highest_recv_seq : [Lows -> [valid : BOOLEAN, seq : SeqNums]]]
    /\ opened \subseteq Records

(* The low bits of an epoch index the reader's windows, and the next three *)
(* epochs do not share those of the handshake epoch.                       *)
LEMMA LowFacts ==
    /\ \A epoch \in Epochs : Low(epoch) \in Lows
    /\ Low(2) = 2 /\ Low(3) = 3 /\ Low(4) = 0 /\ Low(5) = 1
  BY DEF Low, Lows, Epochs

(* An update records the new number: it keeps last_seq a Nat and the bitmap *)
(* inside the window.                                                       *)
LEMMA UpdateType ==
    ASSUME NEW win \in ReplayWindows, NEW seq \in Nat
    PROVE  UpdateReplayWindow(win, seq) \in ReplayWindows
  BY DEF ReplayWindows, UpdateReplayWindow, ShiftBits, Bits

(* After an update the window remembers the number and everything it       *)
(* remembered before.                                                      *)
LEMMA UpdateRemembers ==
    ASSUME NEW win \in ReplayWindows, NEW seq \in Nat, NEW old \in Nat,
           \/ old = seq
           \/ /\ old <= win.last_seq
              /\ win.last_seq - old < ReplayWindowSize => win.last_seq - old \in win.window_bitmap
    PROVE  LET new == UpdateReplayWindow(win, seq)
           IN  /\ old <= new.last_seq
               /\ new.last_seq - old < ReplayWindowSize => new.last_seq - old \in new.window_bitmap
<1>1. CASE old = seq
  BY <1>1 DEF UpdateReplayWindow, ReplayWindows, ShiftBits, Bits
<1>2. CASE old # seq
  BY <1>2 DEF UpdateReplayWindow, ReplayWindows, ShiftBits, Bits
<1> QED
  BY <1>1, <1>2

LEMMA InitInv == Init => Inv
<1> SUFFICES ASSUME Init PROVE Inv
  OBVIOUS
<1>1. EmptyWindow \in ReplayWindows
  BY DEF EmptyWindow, ReplayWindows
<1>2. 2 \in Epochs /\ 0 \in SeqNums /\ NoneReceived \in [valid : BOOLEAN, seq : SeqNums]
  BY DEF Epochs, SeqNums, NoneReceived
<1>3. flight \in Seq(FlightEntries) /\ resend \in 0 .. Len(flight)
  BY DEF Init
<1>4. TypeOK
  BY <1>1, <1>2, <1>3 DEF Init, TypeOK
<1>5. NonceUnique /\ WireBelowCounters /\ OpenedIsRecorded
  BY DEF Init, NonceUnique, WireBelowCounters, OpenedIsRecorded
<1> QED
  BY <1>4, <1>5 DEF Inv

(* Steps that leave the reader alone keep the reader's half. *)
LEMMA ReaderUnchanged ==
    ASSUME Inv, UNCHANGED <<rx, opened>>
    PROVE  OpenedIsRecorded' /\ ReaderOK'
  BY DEF Inv, TypeOK, ReaderOK, OpenedIsRecorded, KeyEpoch

(* A record sealed under the current counter has a fresh number, whether   *)
(* the counter moves on or the next epoch starts.                          *)
LEMMA SealCurrent ==
    ASSUME Inv, NEW body \in Body,
           tx.write_seq_num < MaxSeq,
           wire' = wire \cup {Seal(tx.epoch, tx.write_seq_num, body)}
    PROVE  /\ wire' \subseteq Records
           /\ NonceUnique'
           /\ tx' = [tx EXCEPT !.write_seq_num = @ + 1] => WireBelowCounters' /\ WriteStateOK'
           /\ tx' = UpdateWriteTrafficSecret(tx) /\ 3 <= tx.epoch /\ tx.epoch < MaxEpoch
                => WireBelowCounters' /\ WriteStateOK'
<1> DEFINE rec == Seal(tx.epoch, tx.write_seq_num, body)
<1>1. /\ tx.epoch \in Epochs /\ tx.write_seq_num \in SeqNums /\ tx.prev_write_seq_num \in SeqNums
      /\ tx.epoch \in Nat /\ tx.write_seq_num \in Nat /\ tx.prev_write_seq_num \in Nat
      /\ wire \subseteq Records
  BY DEF Inv, TypeOK, Epochs, SeqNums
<1>2. rec \in Records /\ rec.epoch = tx.epoch /\ rec.seq = tx.write_seq_num
  BY <1>1 DEF Seal, Records
<1>3. \A a \in wire : a.epoch \in Nat /\ a.seq \in Nat
  BY <1>1 DEF Records, Epochs, SeqNums
<1>4. wire' = wire \cup {rec}
  OBVIOUS
<1> HIDE DEF rec
<1>5. wire' \subseteq Records
  BY <1>1, <1>2, <1>4
<1>6. NonceUnique'
  BY <1>1, <1>2, <1>3, <1>4 DEF Inv, NonceUnique, WireBelowCounters
<1>7. ASSUME tx' = [tx EXCEPT !.write_seq_num = @ + 1]
      PROVE  WireBelowCounters' /\ WriteStateOK'
  <2>1. /\ tx'.epoch = tx.epoch /\ tx'.write_seq_num = tx.write_seq_num + 1
        /\ tx'.prev_write_seq_num = tx.prev_write_seq_num
        /\ WriteStateOK'
    <3>1. tx \in [epoch : Epochs, write_seq_num : SeqNums, prev_write_seq_num : SeqNums]
      BY DEF Inv, TypeOK
    <3>2. tx.write_seq_num + 1 \in SeqNums
      BY <1>1 DEF SeqNums
    <3> QED
      BY <1>7, <3>1, <3>2 DEF WriteStateOK
  <2>2. WireBelowCounters'
    BY <1>1, <1>2, <1>3, <1>4, <2>1 DEF Inv, WireBelowCounters
  <2> QED
    BY <2>1, <2>2
<1>8. ASSUME tx' = UpdateWriteTrafficSecret(tx), 3 <= tx.epoch, tx.epoch < MaxEpoch
      PROVE  WireBelowCounters' /\ WriteStateOK'
  <2>1. tx'.epoch = tx.epoch + 1 /\ WriteStateOK'
    <3>1. tx \in [epoch : Epochs, write_seq_num : SeqNums, prev_write_seq_num : SeqNums]
      BY DEF Inv, TypeOK
    <3>2. tx.epoch + 1 \in Epochs /\ 0 \in SeqNums
      BY <1>1, <1>8 DEF Epochs, SeqNums
    <3> QED
      BY <1>8, <3>1, <3>2 DEF WriteStateOK, UpdateWriteTrafficSecret
  <2>2. WireBelowCounters'
    BY <1>1, <1>2, <1>3, <1>4, <1>8, <2>1 DEF Inv, WireBelowCounters
  <2> QED
    BY <2>1, <2>2
<1> QED
  BY <1>5, <1>6, <1>7, <1>8

(* Joining the flight keeps it well typed. *)
LEMMA BufferKeeps ==
    ASSUME Inv, NEW body \in Body, BufferHandshake(body), resend = 0, UNCHANGED resend
    PROVE  FlightOK'
<1>1. [epoch |-> tx.epoch, body |-> body] \in FlightEntries
  BY DEF Inv, TypeOK, FlightEntries
<1>2. flight \in Seq(FlightEntries)
  BY DEF Inv, TypeOK
<1>3. flight' \in Seq(FlightEntries)
  BY <1>1, <1>2 DEF BufferHandshake
<1> QED
  BY <1>3 DEF FlightOK

(* Sending application data, the Finished and a KeyUpdate. *)
LEMMA SendKeepsInv ==
    ASSUME Inv, SendRecord \/ SendFinished \/ SendKeyUpdate
    PROVE  Inv'
<1>1. OpenedIsRecorded' /\ ReaderOK'
  BY ReaderUnchanged DEF SendRecord, SendFinished, SendKeyUpdate
<1>2. "data" \in Body /\ "Finished" \in Body /\ "KeyUpdate" \in Body
  BY DEF Body
<1>3. CASE SendRecord
  <2>1. wire' \subseteq Records /\ NonceUnique' /\ WireBelowCounters' /\ WriteStateOK'
    BY <1>2, <1>3, SealCurrent DEF SendRecord
  <2>2. FlightOK'
    BY <1>3 DEF SendRecord, Inv, TypeOK, FlightOK
  <2> QED
    BY <1>1, <2>1, <2>2 DEF Inv, TypeOK, WriteStateOK, FlightOK, ReaderOK
<1>4. CASE SendFinished
  <2>1. wire' \subseteq Records /\ NonceUnique' /\ WireBelowCounters' /\ WriteStateOK'
    BY <1>2, <1>4, SealCurrent DEF SendFinished, SendHandshake
  <2>2. FlightOK'
    BY <1>2, <1>4, BufferKeeps DEF SendFinished, SendHandshake
  <2> QED
    BY <1>1, <2>1, <2>2 DEF Inv, TypeOK, WriteStateOK, FlightOK, ReaderOK
<1>5. CASE SendKeyUpdate
  <2>1. 3 <= tx.epoch /\ tx.epoch < MaxEpoch
    BY <1>5 DEF SendKeyUpdate, Inv, TypeOK, Epochs
  <2>2. wire' \subseteq Records /\ NonceUnique' /\ WireBelowCounters' /\ WriteStateOK'
    <3>1. CASE tx' = UpdateWriteTrafficSecret(tx)
      BY <1>2, <1>5, <2>1, <3>1, SealCurrent DEF SendKeyUpdate, SendHandshake
    <3>2. CASE tx' = [tx EXCEPT !.write_seq_num = @ + 1]
      BY <1>2, <1>5, <3>2, SealCurrent DEF SendKeyUpdate, SendHandshake
    <3> QED
      BY <1>5, <3>1, <3>2 DEF SendKeyUpdate
  <2>3. FlightOK'
    BY <1>2, <1>5, BufferKeeps DEF SendKeyUpdate, SendHandshake
  <2> QED
    BY <1>1, <2>2, <2>3 DEF Inv, TypeOK, WriteStateOK, FlightOK, ReaderOK
<1> QED
  BY <1>3, <1>4, <1>5

(* The application write keys start a new counter and keep the old one for *)
(* the handshake epoch.                                                    *)
LEMMA InstallKeepsInv ==
    ASSUME Inv, InstallApplicationWriteKeys
    PROVE  Inv'
<1>1. OpenedIsRecorded' /\ ReaderOK'
  BY ReaderUnchanged DEF InstallApplicationWriteKeys
<1>2. /\ tx' = [epoch |-> 3, write_seq_num |-> 0, prev_write_seq_num |-> tx.write_seq_num]
      /\ tx.epoch = 2 /\ wire' = wire
  BY DEF InstallApplicationWriteKeys, ApplicationWriteKeys
<1>3. 3 \in Epochs /\ 0 \in SeqNums /\ tx.write_seq_num \in SeqNums
  BY DEF Epochs, SeqNums, Inv, TypeOK
<1>4. WriteStateOK'
  BY <1>2, <1>3 DEF WriteStateOK
<1>5. \A rec \in wire : rec.epoch \in Nat /\ rec.epoch <= 2 /\ (rec.epoch = 2 => rec.seq < tx.write_seq_num)
  BY <1>2 DEF Inv, TypeOK, WireBelowCounters, Records, Epochs
<1>6. tx'.epoch = 3 /\ tx'.prev_write_seq_num = tx.write_seq_num
  BY <1>2
<1>7. WireBelowCounters'
  BY <1>2, <1>5, <1>6 DEF WireBelowCounters
<1> QED
  BY <1>1, <1>2, <1>4, <1>7 DEF InstallApplicationWriteKeys, Inv, TypeOK, ReaderOK,
     WriteStateOK, NonceUnique

(* Releasing the flight and starting a pass put nothing on the wire. *)
LEMMA FlightKeepsInv ==
    ASSUME Inv, ReleaseFlight \/ StartRetransmission
    PROVE  Inv'
<1>1. OpenedIsRecorded' /\ ReaderOK'
  BY ReaderUnchanged DEF ReleaseFlight, StartRetransmission
<1>2. NonceUnique' /\ WireBelowCounters'
  BY DEF ReleaseFlight, StartRetransmission, Inv, NonceUnique, WireBelowCounters
<1>3. FlightOK'
  <2>1. CASE ReleaseFlight
    BY <2>1 DEF ReleaseFlight, FlightOK
  <2>2. CASE StartRetransmission
    <3>1. flight \in Seq(FlightEntries) /\ flight # << >>
      BY <2>2 DEF StartRetransmission, Inv, TypeOK
    <3>2. Len(flight) \in Nat \ {0}
      BY <3>1
    <3> QED
      BY <2>2, <3>1, <3>2 DEF StartRetransmission, FlightOK
  <2> QED
    BY <2>1, <2>2
<1> QED
  BY <1>1, <1>2, <1>3 DEF ReleaseFlight, StartRetransmission, Inv, TypeOK, ReaderOK, FlightOK

(* A retransmission takes a fresh number of the epoch it seals in: from    *)
(* write_seq_num or, for the handshake epoch, from the kept counter.       *)
LEMMA ResendKeepsInv ==
    ASSUME Inv, ResendEntry
    PROVE  Inv'
<1> DEFINE entry == flight[resend]
<1>1. resend \in 1 .. Len(flight) /\ entry \in FlightEntries
  BY DEF ResendEntry, Inv, TypeOK
<1>2. OpenedIsRecorded' /\ ReaderOK'
  BY ReaderUnchanged DEF ResendEntry
<1>3. NextEntry \in 0 .. Len(flight)
  BY <1>1 DEF NextEntry, Inv, TypeOK
<1>4. entry.epoch \in Epochs /\ entry.body \in Body
  BY <1>1 DEF FlightEntries
<1>5. CASE ResendCurrent(entry)
  <2>1. wire' \subseteq Records /\ NonceUnique' /\ WireBelowCounters' /\ WriteStateOK'
    BY <1>4, <1>5, SealCurrent DEF ResendCurrent
  <2>2. FlightOK'
    BY <1>3, <1>5 DEF ResendCurrent, ResendEntry, FlightOK, Inv, TypeOK
  <2> QED
    BY <1>2, <2>1, <2>2 DEF Inv, TypeOK, WriteStateOK, FlightOK, ReaderOK
<1>6. CASE ResendHandshakeEpoch(entry)
  <2> DEFINE rec == Seal(entry.epoch, tx.prev_write_seq_num, entry.body)
  <2>1. /\ entry.epoch = 2 /\ tx.epoch = 3 /\ tx.prev_write_seq_num < MaxSeq
        /\ wire' = wire \cup {rec}
    BY <1>6 DEF ResendHandshakeEpoch
  <2>2. /\ tx \in [epoch : Epochs, write_seq_num : SeqNums, prev_write_seq_num : SeqNums]
        /\ tx.prev_write_seq_num \in SeqNums /\ tx.prev_write_seq_num \in Nat
        /\ tx.write_seq_num \in Nat
    BY DEF Inv, TypeOK, SeqNums
  <2>3. tx.prev_write_seq_num + 1 \in SeqNums
    BY <2>1, <2>2 DEF SeqNums
  <2>4. /\ tx'.epoch = tx.epoch /\ tx'.write_seq_num = tx.write_seq_num
        /\ tx'.prev_write_seq_num = tx.prev_write_seq_num + 1
        /\ WriteStateOK'
    BY <1>6, <2>2, <2>3 DEF ResendHandshakeEpoch, WriteStateOK
  <2>5. rec \in Records /\ rec.epoch = 2 /\ rec.seq = tx.prev_write_seq_num
    BY <1>4, <2>1, <2>2 DEF Seal, Records
  <2>6. \A a \in wire : a.epoch \in Nat /\ a.seq \in Nat
    BY DEF Inv, TypeOK, Records, Epochs, SeqNums
  <2> HIDE DEF rec
  <2>7. wire' \subseteq Records
    BY <2>1, <2>5 DEF Inv, TypeOK
  <2>8. NonceUnique'
    BY <2>1, <2>2, <2>5, <2>6 DEF Inv, NonceUnique, WireBelowCounters
  <2>9. WireBelowCounters'
    BY <2>1, <2>2, <2>4, <2>5, <2>6 DEF Inv, WireBelowCounters
  <2>10. FlightOK'
    BY <1>3, <1>6 DEF ResendHandshakeEpoch, ResendEntry, FlightOK, Inv, TypeOK
  <2> QED
    BY <1>2, <2>4, <2>7, <2>8, <2>9, <2>10 DEF Inv, TypeOK, WriteStateOK, FlightOK, ReaderOK
<1>7. CASE AbortRetransmission
  <2>1. FlightOK'
    BY <1>7 DEF AbortRetransmission, ResendEntry, FlightOK, Inv, TypeOK
  <2> QED
    BY <1>2, <1>7, <2>1 DEF AbortRetransmission, Inv, TypeOK, FlightOK, ReaderOK,
       NonceUnique, WireBelowCounters
<1> QED
  BY <1>5, <1>6, <1>7 DEF ResendEntry

(* A record that opens is recorded in the window of its low bits, together *)
(* with what the window remembered; the other windows do not change.       *)
LEMMA OpenKeepsWindows ==
    ASSUME Inv, NEW rec \in wire, Opens(rec),
           NEW r, r = RecordOpened(rec)
    PROVE  /\ rec \in Records
           /\ r \in [read_connection_epoch : Epochs,
                     replay_windows : [Lows -> ReplayWindows],
                     highest_recv_seq : [Lows -> [valid : BOOLEAN, seq : SeqNums]]]
           /\ r.read_connection_epoch = rx.read_connection_epoch
           /\ \A old \in opened \cup {rec} :
                 /\ old.epoch <= rx.read_connection_epoch
                 /\ KeyEpoch(Low(old.epoch)) = old.epoch =>
                      LET win == r.replay_windows[Low(old.epoch)]
                      IN  /\ old.seq <= win.last_seq
                          /\ win.last_seq - old.seq < ReplayWindowSize
                               => win.last_seq - old.seq \in win.window_bitmap
<1> DEFINE low == Low(rec.epoch)
           win == rx.replay_windows[low]
           highest == rx.highest_recv_seq[low]
           newHighest == IF ~ highest.valid \/ rec.seq > highest.seq
                         THEN [valid |-> TRUE, seq |-> rec.seq] ELSE highest
<1>1. /\ rec \in Records /\ rec.epoch \in Epochs /\ rec.seq \in SeqNums /\ rec.seq \in Nat
      /\ low \in Lows
  BY LowFacts DEF Inv, TypeOK, Records, SeqNums
<1>2. /\ rx \in [read_connection_epoch : Epochs,
                replay_windows : [Lows -> ReplayWindows],
                highest_recv_seq : [Lows -> [valid : BOOLEAN, seq : SeqNums]]]
      /\ win \in ReplayWindows /\ highest \in [valid : BOOLEAN, seq : SeqNums]
  BY <1>1 DEF Inv, TypeOK
<1>3. UpdateReplayWindow(win, rec.seq) \in ReplayWindows
  BY <1>1, <1>2, UpdateType
<1>4. newHighest \in [valid : BOOLEAN, seq : SeqNums]
  BY <1>1, <1>2
<1>5. r = [rx EXCEPT !.replay_windows[low] = UpdateReplayWindow(win, rec.seq),
                     !.highest_recv_seq[low] = newHighest]
  BY DEF RecordOpened
<1> HIDE DEF low, win, highest, newHighest
<1>6. /\ r \in [read_connection_epoch : Epochs,
                replay_windows : [Lows -> ReplayWindows],
                highest_recv_seq : [Lows -> [valid : BOOLEAN, seq : SeqNums]]]
      /\ r.read_connection_epoch = rx.read_connection_epoch
      /\ r.replay_windows = [rx.replay_windows EXCEPT ![low] = UpdateReplayWindow(win, rec.seq)]
  <2> DEFINE windows == [rx.replay_windows EXCEPT ![low] = UpdateReplayWindow(win, rec.seq)]
             received == [rx.highest_recv_seq EXCEPT ![low] = newHighest]
  <2>1. windows \in [Lows -> ReplayWindows]
    BY <1>1, <1>2, <1>3
  <2>2. received \in [Lows -> [valid : BOOLEAN, seq : SeqNums]]
    BY <1>1, <1>2, <1>4
  <2>3. r = [[rx EXCEPT !.replay_windows = windows] EXCEPT !.highest_recv_seq = received]
    BY <1>2, <1>5
  <2> HIDE DEF windows, received
  <2>4. /\ r.read_connection_epoch = rx.read_connection_epoch /\ r.replay_windows = windows
        /\ r \in [read_connection_epoch : Epochs,
                  replay_windows : [Lows -> ReplayWindows],
                  highest_recv_seq : [Lows -> [valid : BOOLEAN, seq : SeqNums]]]
    BY <1>2, <2>1, <2>2, <2>3
  <2> QED
    BY <2>4 DEF windows
<1>7. ASSUME NEW old \in opened \cup {rec}
      PROVE  old.epoch <= rx.read_connection_epoch
  <2>1. CASE old \in opened
    BY <2>1 DEF Inv, OpenedIsRecorded
  <2>2. CASE old = rec
    <3>1. rec.epoch = 2 \/ rec.epoch = rx.read_connection_epoch
      BY DEF Opens, KeyEpoch
    <3>2. rx.read_connection_epoch \in Nat /\ rx.read_connection_epoch >= 2
      BY <1>2 DEF Epochs
    <3> QED
      BY <2>2, <3>1, <3>2
  <2> QED
    BY <2>1, <2>2
<1>8. ASSUME NEW old \in opened \cup {rec}, KeyEpoch(Low(old.epoch)) = old.epoch
      PROVE  LET w == r.replay_windows[Low(old.epoch)]
             IN  /\ old.seq <= w.last_seq
                 /\ w.last_seq - old.seq < ReplayWindowSize
                      => w.last_seq - old.seq \in w.window_bitmap
  <2>1. old.seq \in Nat /\ Low(old.epoch) \in Lows
    BY <1>1, LowFacts DEF Inv, TypeOK, Records, SeqNums
  <2>2. \/ old = rec
        \/ LET w == rx.replay_windows[Low(old.epoch)]
           IN  /\ old.seq <= w.last_seq
               /\ w.last_seq - old.seq < ReplayWindowSize
                    => w.last_seq - old.seq \in w.window_bitmap
    BY <1>8 DEF Inv, OpenedIsRecorded
  <2>3. CASE Low(old.epoch) = low
    <3>1. r.replay_windows[Low(old.epoch)] = UpdateReplayWindow(win, rec.seq)
      BY <1>1, <1>2, <1>6, <2>3
    <3>2. \/ old.seq = rec.seq
          \/ /\ old.seq <= win.last_seq
             /\ win.last_seq - old.seq < ReplayWindowSize
                  => win.last_seq - old.seq \in win.window_bitmap
      BY <2>2, <2>3 DEF win
    <3> QED
      BY <1>1, <1>2, <2>1, <3>1, <3>2, UpdateRemembers
  <2>4. CASE Low(old.epoch) # low
    <3>1. r.replay_windows[Low(old.epoch)] = rx.replay_windows[Low(old.epoch)]
      BY <1>2, <1>6, <2>1, <2>4
    <3>2. old # rec
      BY <2>4 DEF low
    <3> QED
      BY <2>2, <3>1, <3>2
  <2> QED
    BY <2>3, <2>4
<1> QED
  BY <1>1, <1>6, <1>7, <1>8

(* What opened without a change of epoch is recorded. *)
LEMMA ReceiveSameEpoch ==
    ASSUME Inv, NEW rec \in wire, Opens(rec),
           rx' = RecordOpened(rec), opened' = opened \cup {rec}
    PROVE  OpenedIsRecorded' /\ ReaderOK'
<1> DEFINE r == RecordOpened(rec)
<1>1. /\ rec \in Records
      /\ r \in [read_connection_epoch : Epochs,
                replay_windows : [Lows -> ReplayWindows],
                highest_recv_seq : [Lows -> [valid : BOOLEAN, seq : SeqNums]]]
      /\ r.read_connection_epoch = rx.read_connection_epoch
      /\ \A old \in opened \cup {rec} :
            /\ old.epoch <= rx.read_connection_epoch
            /\ KeyEpoch(Low(old.epoch)) = old.epoch =>
                 LET win == r.replay_windows[Low(old.epoch)]
                 IN  /\ old.seq <= win.last_seq
                     /\ win.last_seq - old.seq < ReplayWindowSize
                          => win.last_seq - old.seq \in win.window_bitmap
  BY OpenKeepsWindows
<1>2. rx' = r
  OBVIOUS
<1> HIDE DEF r
<1>3. ReaderOK'
  BY <1>1, <1>2 DEF ReaderOK, Inv, TypeOK
<1>4. \A low : KeyEpoch(low)' = KeyEpoch(low)
  BY <1>1, <1>2 DEF KeyEpoch
<1>5. OpenedIsRecorded'
  BY <1>1, <1>2, <1>4 DEF OpenedIsRecorded
<1> QED
  BY <1>3, <1>5

(* A new read epoch takes over the window of the epoch four before it. No  *)
(* opened record belongs to the new epoch, and as long as the handshake    *)
(* keys are in use their window is another one.                            *)
LEMMA ReceiveNextEpoch ==
    ASSUME Inv, NEW rec \in wire, Opens(rec),
           rx.read_connection_epoch < MaxEpoch,
           rx' = NextReadEpoch(RecordOpened(rec)), opened' = opened \cup {rec}
    PROVE  OpenedIsRecorded' /\ ReaderOK'
<1> DEFINE r == RecordOpened(rec)
           epoch == rx.read_connection_epoch + 1
           low == Low(epoch)
           windows == [r.replay_windows EXCEPT ![low] = EmptyWindow]
           received == [r.highest_recv_seq EXCEPT ![low] = NoneReceived]
<1>1. /\ rec \in Records
      /\ r \in [read_connection_epoch : Epochs,
                replay_windows : [Lows -> ReplayWindows],
                highest_recv_seq : [Lows -> [valid : BOOLEAN, seq : SeqNums]]]
      /\ r.read_connection_epoch = rx.read_connection_epoch
      /\ \A old \in opened \cup {rec} :
            /\ old.epoch <= rx.read_connection_epoch
            /\ KeyEpoch(Low(old.epoch)) = old.epoch =>
                 LET win == r.replay_windows[Low(old.epoch)]
                 IN  /\ old.seq <= win.last_seq
                     /\ win.last_seq - old.seq < ReplayWindowSize
                          => win.last_seq - old.seq \in win.window_bitmap
  BY OpenKeepsWindows
<1>2. /\ epoch \in Epochs /\ epoch \in Nat /\ epoch > 2
      /\ rx.read_connection_epoch \in Nat /\ rx.read_connection_epoch = epoch - 1
  BY DEF Inv, TypeOK, Epochs
<1>3. low \in Lows
  BY <1>2, LowFacts
<1>4. rx' = [[[r EXCEPT !.read_connection_epoch = epoch]
                EXCEPT !.replay_windows = windows] EXCEPT !.highest_recv_seq = received]
  BY <1>1 DEF NextReadEpoch
<1>5. EmptyWindow \in ReplayWindows /\ NoneReceived \in [valid : BOOLEAN, seq : SeqNums]
  BY DEF EmptyWindow, ReplayWindows, NoneReceived, SeqNums
<1> HIDE DEF r
<1>6. windows \in [Lows -> ReplayWindows]
  BY <1>1, <1>3, <1>5
<1>7. received \in [Lows -> [valid : BOOLEAN, seq : SeqNums]]
  BY <1>1, <1>3, <1>5
<1>8. \A l \in Lows : l # low => windows[l] = r.replay_windows[l]
  BY <1>1, <1>3
<1> HIDE DEF windows, received, epoch, low
<1>9. /\ rx' \in [read_connection_epoch : Epochs,
                  replay_windows : [Lows -> ReplayWindows],
                  highest_recv_seq : [Lows -> [valid : BOOLEAN, seq : SeqNums]]]
      /\ rx'.read_connection_epoch = epoch /\ rx'.replay_windows = windows
  BY <1>1, <1>2, <1>4, <1>6, <1>7
<1>10. ReaderOK'
  BY <1>1, <1>9 DEF ReaderOK, Inv, TypeOK
<1>11. ASSUME NEW old \in opened \cup {rec}
       PROVE  old \in Records /\ old.epoch \in Nat /\ old.epoch < epoch
  <2>1. old \in Records /\ old.epoch \in Nat
    BY <1>1 DEF Inv, TypeOK, Records, Epochs
  <2>2. old.epoch <= epoch - 1
    BY <1>1, <1>2
  <2> QED
    BY <1>2, <2>1, <2>2
<1>12. ASSUME NEW old \in opened \cup {rec}, KeyEpoch(Low(old.epoch))' = old.epoch
       PROVE  /\ KeyEpoch(Low(old.epoch)) = old.epoch
              /\ Low(old.epoch) = 2 /\ low # 2
  <2>1. KeyEpoch(Low(old.epoch))' =
           IF Low(old.epoch) = Low(2) /\ epoch < 6 THEN 2 ELSE epoch
    BY <1>9 DEF KeyEpoch
  <2>2. old.epoch # epoch
    BY <1>2, <1>11
  <2>3. Low(old.epoch) = Low(2) /\ epoch < 6 /\ old.epoch = 2
    BY <1>12, <2>1, <2>2
  <2>4. rx.read_connection_epoch < 6
    BY <1>2, <2>3
  <2>5. KeyEpoch(Low(old.epoch)) = old.epoch
    BY <2>3, <2>4 DEF KeyEpoch
  <2>6. epoch = 3 \/ epoch = 4 \/ epoch = 5
    BY <1>2, <2>3
  <2>7. low # 2
    BY <2>6, LowFacts DEF low
  <2> QED
    BY <2>3, <2>5, <2>7, LowFacts
<1>13. OpenedIsRecorded'
  <2> SUFFICES ASSUME NEW old \in opened \cup {rec}
               PROVE  LET win == windows[Low(old.epoch)]
                      IN  /\ old.epoch <= epoch
                          /\ KeyEpoch(Low(old.epoch))' = old.epoch =>
                                /\ old.seq <= win.last_seq
                                /\ win.last_seq - old.seq < ReplayWindowSize
                                     => win.last_seq - old.seq \in win.window_bitmap
    BY <1>9 DEF OpenedIsRecorded
  <2>1. old.epoch <= epoch
    BY <1>2, <1>11
  <2>2. ASSUME KeyEpoch(Low(old.epoch))' = old.epoch
        PROVE  LET win == windows[Low(old.epoch)]
               IN  /\ old.seq <= win.last_seq
                   /\ win.last_seq - old.seq < ReplayWindowSize
                        => win.last_seq - old.seq \in win.window_bitmap
    <3>1. windows[Low(old.epoch)] = r.replay_windows[Low(old.epoch)]
      <4>1. Low(old.epoch) \in Lows
        BY <1>11, LowFacts DEF Records
      <4> QED
        BY <1>8, <1>12, <2>2, <4>1
    <3> QED
      BY <1>1, <1>12, <2>2, <3>1
  <2> QED
    BY <2>1, <2>2
<1> QED
  BY <1>10, <1>13

(* Receiving keeps the invariant. *)
LEMMA ReceiveKeepsInv ==
    ASSUME Inv, NEW rec \in wire, Receive(rec)
    PROVE  Inv'
<1>1. OpenedIsRecorded' /\ ReaderOK'
  <2>1. CASE AdvancesReadEpoch(rec) /\ rx.read_connection_epoch < MaxEpoch
    BY <2>1, ReceiveNextEpoch DEF Receive
  <2>2. CASE ~ (AdvancesReadEpoch(rec) /\ rx.read_connection_epoch < MaxEpoch)
    BY <2>2, ReceiveSameEpoch DEF Receive
  <2> QED
    BY <2>1, <2>2
<1>2. NonceUnique' /\ WireBelowCounters'
  BY DEF Receive, Inv, NonceUnique, WireBelowCounters
<1> QED
  BY <1>1, <1>2 DEF Receive, Inv, TypeOK, ReaderOK

(* The invariant holds in every reachable state: every number on the wire  *)
(* is below the counter that numbers its epoch next, and the windows       *)
(* remember what was opened with the keys in use.                          *)
THEOREM Record13Invariant == Spec => []Inv
<1>1. Inv /\ [Next]_vars => Inv'
  <2> SUFFICES ASSUME Inv, [Next]_vars PROVE Inv'
    OBVIOUS
  <2>1. CASE Writer
    BY <2>1, SendKeepsInv, InstallKeepsInv, FlightKeepsInv, ResendKeepsInv DEF Writer
  <2>2. CASE \E rec \in wire : Receive(rec)
    BY <2>2, ReceiveKeepsInv
  <2>3. CASE UNCHANGED vars
    BY <2>3 DEF vars, Inv, TypeOK, NonceUnique, WireBelowCounters, OpenedIsRecorded, KeyEpoch
  <2> QED
    BY <2>1, <2>2, <2>3 DEF Next
<1> QED
  BY InitInv, <1>1, PTL DEF Spec

(* The counters, the flight, the cursor of a retransmission pass, the four *)
(* windows and the highest received numbers keep their types.              *)
THEOREM Record13TypeCorrect == Spec => []TypeOK
<1>1. Inv => TypeOK
  BY DEF Inv
<1> QED
  BY Record13Invariant, <1>1, PTL

(* noxtls_tls13_send_dtls13_encrypted_record and                           *)
(* tls13_retransmit_handshake never seal two payloads under one number of  *)
(* an epoch, across any number of KeyUpdates.                              *)
THEOREM Record13NoncesUnique == Spec => []NonceUnique
<1>1. Inv => NonceUnique
  BY DEF Inv
<1> QED
  BY Record13Invariant, <1>1, PTL

(* noxtls_tls13_decrypt_dtls13_record opens no record twice, although      *)
(* epochs that are equal modulo four share a window that is reset when the *)
(* later one starts.                                                       *)
THEOREM Record13OpenOnce == Spec => []NoReplay
<1>1. Inv => NoReplay
  <2> SUFFICES ASSUME Inv, NEW rec \in opened, Opens(rec) PROVE FALSE
    BY DEF NoReplay
  <2> DEFINE win == rx.replay_windows[Low(rec.epoch)]
  <2>1. rec.seq \in Nat /\ Low(rec.epoch) \in Lows
    BY LowFacts DEF Inv, TypeOK, Records, SeqNums
  <2>2. win \in ReplayWindows
    BY <2>1 DEF Inv, TypeOK
  <2>3. /\ rec.seq <= win.last_seq
        /\ win.last_seq - rec.seq < ReplayWindowSize
             => win.last_seq - rec.seq \in win.window_bitmap
    BY DEF Opens, Inv, OpenedIsRecorded
  <2>4. CheckReplay(win, rec.seq)
    BY DEF Opens
  <2> HIDE DEF win
  <2> QED
    BY <2>1, <2>2, <2>3, <2>4 DEF CheckReplay, ReplayWindows
<1> QED
  BY Record13Invariant, <1>1, PTL

-----------------------------------------------------------------------------
(* The other direction: the window holds nothing but what was opened, so   *)
(* that a fresh record passes.                                             *)

HighestIsLast ==
    \A low \in Lows :
        LET win == rx.replay_windows[low]
            highest == rx.highest_recv_seq[low]
        IN  IF highest.valid THEN win.last_seq = highest.seq ELSE win = EmptyWindow

(* Every bit of a window that is in use stands for a record opened in the  *)
(* epoch whose keys answer to its low bits.                                *)
BitsOpened(win, epoch, records) ==
    \A b \in win.window_bitmap :
        \E rec \in records : rec.epoch = epoch /\ rec.seq = win.last_seq - b

BitsWereOpened ==
    \A low \in Lows :
        Low(KeyEpoch(low)) = low => BitsOpened(rx.replay_windows[low], KeyEpoch(low), opened)

ExactInv == opened \subseteq wire /\ HighestIsLast /\ BitsWereOpened

LEMMA DivMod ==
    ASSUME NEW n \in Nat, NEW r \in Nat, r > 0
    PROVE  \E q \in Nat, m \in 0 .. r - 1 : m = n % r /\ n = r * q + m
<1>1. n \div r \in Nat /\ n % r \in 0 .. r - 1
  OBVIOUS
<1>2. PICK q \in Nat, m \in 0 .. r - 1 : q = n \div r /\ m = n % r
  BY <1>1
<1>3. n = r * q + m
  BY <1>2
<1> QED
  BY <1>2, <1>3

LEMMA TimesAtLeast ==
    ASSUME NEW d \in Int, NEW r \in Nat, d >= 2
    PROVE  r * d >= r + r
OBVIOUS

(* The candidate moved towards the expected number by one field, or not.   *)
Corrected(candidate, expected, half, r) ==
    IF candidate + half <= expected THEN candidate + r
    ELSE IF candidate > expected + half /\ candidate >= r THEN candidate - r
    ELSE candidate

(* Within half a field of the next number expected, the number is found:   *)
(* a and b count the fields below the number and below the expected one.   *)
LEMMA ClosestFound ==
    ASSUME NEW r \in Nat, NEW half \in Nat, half > 0, r = half + half,
           NEW seq \in Nat, NEW expected \in Nat,
           expected < seq + half, seq <= expected + half,
           NEW candidate, candidate = expected - (expected % r) + (seq % r)
    PROVE  candidate \in Int /\ Corrected(candidate, expected, half, r) = seq
<1>a. PICK a \in Nat, u \in 0 .. r - 1 : u = seq % r /\ seq = r * a + u
  BY DivMod
<1>b. PICK b \in Nat, v \in 0 .. r - 1 : v = expected % r /\ expected = r * b + v
  BY DivMod
<1>c. PICK ra \in Int, rb \in Int : ra = r * a /\ rb = r * b
  OBVIOUS
<1>1. /\ seq = ra + u /\ expected = rb + v /\ candidate = rb + u
      /\ u \in 0 .. r - 1 /\ v \in 0 .. r - 1 /\ a \in Int /\ b \in Int
  BY <1>a, <1>b, <1>c
<1>2. CASE a = b
  <2>1. ra = rb
    BY <1>2, <1>c
  <2> QED
    BY <2>1, <1>1 DEF Corrected
<1>3. CASE b = a + 1
  <2>1. rb = ra + r
    BY <1>c, <1>3
  <2> QED
    BY <2>1, <1>1 DEF Corrected
<1>4. CASE a = b + 1
  <2>1. ra = rb + r
    BY <1>c, <1>4
  <2> QED
    BY <2>1, <1>1 DEF Corrected
<1>5. CASE a - b >= 2
  <2>1. PICK d \in Int : d = a - b /\ d >= 2
    BY <1>5
  <2>2. r * d >= r + r
    BY <2>1, TimesAtLeast
  <2>3. ra - rb = r * d
    BY <2>1, <1>c
  <2> QED
    BY <2>2, <2>3, <1>1
<1>6. CASE b - a >= 2
  <2>1. PICK d \in Int : d = b - a /\ d >= 2
    BY <1>6
  <2>2. r * d >= r + r
    BY <2>1, TimesAtLeast
  <2>3. rb - ra = r * d
    BY <2>1, <1>c
  <2> QED
    BY <2>2, <2>3, <1>1
<1> QED
  BY <1>1, <1>2, <1>3, <1>4, <1>5, <1>6

LEMMA Halves ==
    ASSUME NEW r \in Nat, r > 0, r % 2 = 0
    PROVE  r \div 2 \in Nat /\ r \div 2 > 0 /\ r = r \div 2 + r \div 2
OBVIOUS

(* dtls13_reconstruct_record_number finds every number that is inside the  *)
(* window or not too far ahead.                                            *)
LEMMA ReconstructExact ==
    ASSUME NEW highest \in [valid : BOOLEAN, seq : SeqNums], NEW seq \in Nat,
           highest.valid => highest.seq - seq < ReplayWindowSize,
           InReach(highest, seq)
    PROVE  Reconstruct(highest, Truncated(seq), FieldRange(seq)) = seq
<1> DEFINE r == FieldRange(seq)
           half == r \div 2
<1>1. /\ r \in Nat /\ r > 0 /\ r % 2 = 0 /\ ShortRange <= r
      /\ seq < ShortRange => r = ShortRange
      /\ ~ (seq < ShortRange) => r = LongRange
  BY DEF FieldRange
<1> HIDE DEF r
<1>2. half \in Nat /\ half > 0 /\ r = half + half
  BY <1>1, Halves
<1>3. Truncated(seq) = seq % r
  BY DEF Truncated, r
<1>4. CASE ~ highest.valid
  <2>1. seq < r
    BY <1>1, <1>4 DEF InReach
  <2>2. seq % r = seq
    BY <1>1, <2>1
  <2> QED
    BY <1>3, <1>4, <2>2 DEF Reconstruct, r
<1>5. CASE highest.valid
  <2> DEFINE expected == highest.seq + 1
             candidate == expected - (expected % r) + (seq % r)
  <2>1. highest.seq \in Nat /\ expected \in Nat /\ ReplayWindowSize \in Nat
    BY DEF SeqNums
  <2>2. ReplayWindowSize < half
    BY <1>1, <1>2, <2>1
  <2>3. expected < seq + half
    BY <1>2, <1>5, <2>1, <2>2
  <2>4. CASE seq <= expected + half
    <3> HIDE DEF half, expected
    <3>1. candidate \in Int /\ Corrected(candidate, expected, half, r) = seq
      BY <1>1, <1>2, <2>1, <2>3, <2>4, ClosestFound
    <3> HIDE DEF candidate
    <3>2. ~ (candidate + half <= expected /\ candidate > expected + half)
      BY <3>1, <2>1, <1>2
    <3>3. Reconstruct(highest, seq % r, r) = Corrected(candidate, expected, half, r)
      BY <1>5, <3>2 DEF Reconstruct, Corrected, candidate, expected, half
    <3> QED
      BY <1>3, <3>1, <3>3 DEF r
  <2>5. CASE ~ (seq <= expected + half)
    <3>1. seq < ShortRange /\ r = ShortRange
      BY <1>1, <1>5, <2>1, <2>5 DEF InReach
    <3> QED
      \* the number is below the field and more than half a field ahead
      <4>1. expected % r = expected /\ seq % r = seq
        BY <3>1, <2>1, <2>5, <1>2
      <4>2. expected - (expected % r) + (seq % r) = seq
        BY <4>1, <2>1
      <4>3. ~ (seq + half <= expected) /\ ~ (seq >= r)
        BY <3>1, <2>1, <2>3, <1>2
      <4>4. Reconstruct(highest, seq % r, r) = seq
        BY <1>5, <4>2, <4>3 DEF Reconstruct
      <4> QED
        BY <1>3, <4>4 DEF r
  <2> QED
    BY <2>4, <2>5
<1> QED
  BY <1>4, <1>5

(* After an update every bit still stands for an opened record, and        *)
(* last_seq is the larger number.                                          *)
LEMMA UpdateExact ==
    ASSUME NEW win \in ReplayWindows, NEW rec, rec.seq \in Nat, NEW records,
           BitsOpened(win, rec.epoch, records)
    PROVE  BitsOpened(UpdateReplayWindow(win, rec.seq), rec.epoch, records \cup {rec})
<1> DEFINE new == UpdateReplayWindow(win, rec.seq)
<1> SUFFICES ASSUME NEW b \in new.window_bitmap
             PROVE  \E r \in records \cup {rec} : r.epoch = rec.epoch /\ r.seq = new.last_seq - b
  BY DEF BitsOpened
<1>1. win.last_seq \in Nat /\ win.window_bitmap \subseteq Bits
  BY DEF ReplayWindows
<1>2. CASE rec.seq > win.last_seq
  <2>1. /\ new.last_seq = rec.seq
        /\ b = 0 \/ (b \in Int /\ b - (rec.seq - win.last_seq) \in win.window_bitmap)
    BY <1>2 DEF UpdateReplayWindow, ShiftBits, Bits
  <2>2. CASE b = 0
    BY <2>1, <2>2
  <2>3. ASSUME b \in Int, b - (rec.seq - win.last_seq) \in win.window_bitmap
        PROVE  \E r \in records : r.epoch = rec.epoch /\ r.seq = new.last_seq - b
    <3>1. PICK r \in records : /\ r.epoch = rec.epoch
                               /\ r.seq = win.last_seq - (b - (rec.seq - win.last_seq))
      BY <2>3 DEF BitsOpened
    <3>2. r.seq = rec.seq - b
      BY <3>1, <2>3, <1>1
    <3> QED
      BY <3>1, <3>2, <2>1
  <2> QED
    BY <2>1, <2>2, <2>3
<1>3. CASE ~ (rec.seq > win.last_seq)
  <2>1. /\ new.last_seq = win.last_seq
        /\ b = win.last_seq - rec.seq \/ b \in win.window_bitmap
    BY <1>3 DEF UpdateReplayWindow
  <2>2. CASE b = win.last_seq - rec.seq
    BY <2>1, <2>2, <1>1
  <2>3. CASE b \in win.window_bitmap
    BY <2>1, <2>3 DEF BitsOpened
  <2> QED
    BY <2>1, <2>2, <2>3
<1> QED
  BY <1>2, <1>3

LEMMA MoreOpened ==
    ASSUME NEW win, NEW epoch, NEW records, NEW more, records \subseteq more,
           BitsOpened(win, epoch, records)
    PROVE  BitsOpened(win, epoch, more)
BY DEF BitsOpened

(* The windows and highest numbers after a record was opened. *)
LEMMA OpenedFields ==
    ASSUME Inv, NEW rec \in wire, NEW r, r = RecordOpened(rec)
    PROVE  LET low == Low(rec.epoch)
               highest == rx.highest_recv_seq[low]
           IN  /\ r.read_connection_epoch = rx.read_connection_epoch
               /\ r \in [read_connection_epoch : Epochs,
                         replay_windows : [Lows -> ReplayWindows],
                         highest_recv_seq : [Lows -> [valid : BOOLEAN, seq : SeqNums]]]
               /\ low \in Lows /\ rec.seq \in SeqNums
               /\ r.replay_windows[low] = UpdateReplayWindow(rx.replay_windows[low], rec.seq)
               /\ r.highest_recv_seq[low] = IF ~ highest.valid \/ rec.seq > highest.seq
                                            THEN [valid |-> TRUE, seq |-> rec.seq] ELSE highest
               /\ \A l \in Lows : l # low =>
                     /\ r.replay_windows[l] = rx.replay_windows[l]
                     /\ r.highest_recv_seq[l] = rx.highest_recv_seq[l]
<1> DEFINE low == Low(rec.epoch)
           win == rx.replay_windows[low]
           highest == rx.highest_recv_seq[low]
           newHighest == IF ~ highest.valid \/ rec.seq > highest.seq
                         THEN [valid |-> TRUE, seq |-> rec.seq] ELSE highest
<1>1. /\ rec \in Records /\ rec.epoch \in Epochs /\ rec.seq \in SeqNums /\ rec.seq \in Nat
      /\ low \in Lows
  BY LowFacts DEF Inv, TypeOK, Records, SeqNums
<1>2. /\ rx \in [read_connection_epoch : Epochs,
                replay_windows : [Lows -> ReplayWindows],
                highest_recv_seq : [Lows -> [valid : BOOLEAN, seq : SeqNums]]]
      /\ win \in ReplayWindows /\ highest \in [valid : BOOLEAN, seq : SeqNums]
  BY <1>1 DEF Inv, TypeOK
<1>3. PICK newWin \in ReplayWindows : newWin = UpdateReplayWindow(win, rec.seq)
  BY <1>1, <1>2, UpdateType
<1>4. PICK newH \in [valid : BOOLEAN, seq : SeqNums] : newH = newHighest
  BY <1>1, <1>2
<1>5. r = [rx EXCEPT !.replay_windows[low] = newWin, !.highest_recv_seq[low] = newH]
  BY <1>3, <1>4 DEF RecordOpened
<1> HIDE DEF low, win, highest, newHighest
<1> DEFINE windows == [rx.replay_windows EXCEPT ![low] = newWin]
           received == [rx.highest_recv_seq EXCEPT ![low] = newH]
<1>6. /\ windows \in [Lows -> ReplayWindows] /\ windows[low] = newWin
      /\ \A l \in Lows : l # low => windows[l] = rx.replay_windows[l]
  BY <1>1, <1>2
<1>7. /\ received \in [Lows -> [valid : BOOLEAN, seq : SeqNums]] /\ received[low] = newH
      /\ \A l \in Lows : l # low => received[l] = rx.highest_recv_seq[l]
  BY <1>1, <1>2
<1>8. r = [[rx EXCEPT !.replay_windows = windows] EXCEPT !.highest_recv_seq = received]
  BY <1>2, <1>5
<1> HIDE DEF windows, received
<1>9. /\ r.read_connection_epoch = rx.read_connection_epoch /\ r.replay_windows = windows
      /\ r.highest_recv_seq = received
      /\ r \in [read_connection_epoch : Epochs,
                replay_windows : [Lows -> ReplayWindows],
                highest_recv_seq : [Lows -> [valid : BOOLEAN, seq : SeqNums]]]
  BY <1>2, <1>6, <1>7, <1>8
<1> QED
  BY <1>1, <1>3, <1>4, <1>6, <1>7, <1>9 DEF low, win, highest, newHighest

(* HighestIsLast of a reader's state r. *)
Matches(r) ==
    \A low \in Lows :
        IF r.highest_recv_seq[low].valid
        THEN r.replay_windows[low].last_seq = r.highest_recv_seq[low].seq
        ELSE r.replay_windows[low] = EmptyWindow

LEMMA OpenKeepsMatch ==
    ASSUME Inv, HighestIsLast, NEW rec \in wire, NEW r, r = RecordOpened(rec)
    PROVE  Matches(r)
<1> DEFINE low == Low(rec.epoch)
           win == rx.replay_windows[low]
           highest == rx.highest_recv_seq[low]
<1>1. /\ low \in Lows /\ rec.seq \in SeqNums
      /\ r.replay_windows[low] = UpdateReplayWindow(win, rec.seq)
      /\ r.highest_recv_seq[low] = IF ~ highest.valid \/ rec.seq > highest.seq
                                   THEN [valid |-> TRUE, seq |-> rec.seq] ELSE highest
      /\ \A l \in Lows : l # low =>
            /\ r.replay_windows[l] = rx.replay_windows[l]
            /\ r.highest_recv_seq[l] = rx.highest_recv_seq[l]
  BY OpenedFields
<1>2. /\ win \in ReplayWindows /\ highest \in [valid : BOOLEAN, seq : SeqNums]
      /\ IF highest.valid THEN win.last_seq = highest.seq ELSE win = EmptyWindow
  BY <1>1 DEF Inv, TypeOK, HighestIsLast
<1> HIDE DEF low, win, highest
<1>3. /\ win.last_seq \in Nat /\ rec.seq \in Nat /\ highest.seq \in Nat
      /\ ~ highest.valid => win.last_seq = 0
  BY <1>1, <1>2 DEF ReplayWindows, SeqNums, EmptyWindow
<1>4. UpdateReplayWindow(win, rec.seq).last_seq =
         IF rec.seq > win.last_seq THEN rec.seq ELSE win.last_seq
  BY DEF UpdateReplayWindow
<1>5. r.highest_recv_seq[low].valid
      /\ r.replay_windows[low].last_seq = r.highest_recv_seq[low].seq
  <2>1. CASE ~ highest.valid
    BY <2>1, <1>1, <1>3, <1>4
  <2>2. CASE highest.valid
    BY <2>2, <1>1, <1>2, <1>3, <1>4
  <2> QED
    BY <2>1, <2>2
<1>6. \A l \in Lows : IF rx.highest_recv_seq[l].valid
                      THEN rx.replay_windows[l].last_seq = rx.highest_recv_seq[l].seq
                      ELSE rx.replay_windows[l] = EmptyWindow
  BY DEF HighestIsLast
<1>7. ASSUME NEW l \in Lows
      PROVE  IF r.highest_recv_seq[l].valid
             THEN r.replay_windows[l].last_seq = r.highest_recv_seq[l].seq
             ELSE r.replay_windows[l] = EmptyWindow
  <2>1. CASE l = low
    BY <2>1, <1>5
  <2>2. CASE l # low
    BY <2>2, <1>1, <1>6
  <2> QED
    BY <2>1, <2>2
<1> QED
  BY <1>7 DEF Matches

LEMMA OpenKeepsBits ==
    ASSUME Inv, BitsWereOpened, NEW rec \in wire, Opens(rec), NEW r, r = RecordOpened(rec),
           NEW low \in Lows, Low(KeyEpoch(low)) = low
    PROVE  BitsOpened(r.replay_windows[low], KeyEpoch(low), opened \cup {rec})
<1>1. BitsOpened(rx.replay_windows[low], KeyEpoch(low), opened)
  BY DEF BitsWereOpened
<1>2. CASE low = Low(rec.epoch)
  <2>1. KeyEpoch(low) = rec.epoch
    BY <1>2 DEF Opens
  <2>2. rec.seq \in Nat /\ rx.replay_windows[low] \in ReplayWindows
    BY DEF Inv, TypeOK, Records, SeqNums
  <2>3. r.replay_windows[low] = UpdateReplayWindow(rx.replay_windows[low], rec.seq)
    BY <1>2, OpenedFields
  <2> QED
    BY <2>1, <2>2, <2>3, <1>1, UpdateExact
<1>3. CASE low # Low(rec.epoch)
  <2> DEFINE its == Low(rec.epoch)
             win == rx.replay_windows[its]
             highest == rx.highest_recv_seq[its]
  <2>1. /\ its \in Lows /\ rec.seq \in SeqNums
        /\ r.replay_windows[its] = UpdateReplayWindow(win, rec.seq)
        /\ r.highest_recv_seq[its] = IF ~ highest.valid \/ rec.seq > highest.seq
                                     THEN [valid |-> TRUE, seq |-> rec.seq] ELSE highest
        /\ \A l \in Lows : l # its =>
              /\ r.replay_windows[l] = rx.replay_windows[l]
              /\ r.highest_recv_seq[l] = rx.highest_recv_seq[l]
    BY OpenedFields
  <2>2. r.replay_windows[low] = rx.replay_windows[low]
    BY <1>3, <2>1
  <2> QED
    BY <2>2, <1>1, MoreOpened
<1> QED
  BY <1>2, <1>3

LEMMA WriterExact ==
    ASSUME ExactInv, Writer
    PROVE  ExactInv'
<1>1. UNCHANGED <<rx, opened>> /\ wire \subseteq wire'
  BY DEF Writer, SendRecord, SendFinished, SendHandshake, InstallApplicationWriteKeys,
         SendKeyUpdate, ReleaseFlight, StartRetransmission, ResendEntry, ResendCurrent,
         ResendHandshakeEpoch, AbortRetransmission
<1> QED
  BY <1>1 DEF ExactInv, HighestIsLast, BitsWereOpened, KeyEpoch

LEMMA ReceiveExact ==
    ASSUME Inv, ExactInv, NEW rec \in wire, Receive(rec)
    PROVE  ExactInv'
<1> DEFINE r == RecordOpened(rec)
<1>1. opened' = opened \cup {rec} /\ wire' = wire /\ Opens(rec) /\ opened' \subseteq wire'
  BY DEF Receive, ExactInv
<1>2. Matches(r)
  BY OpenKeepsMatch DEF ExactInv
<1>3. \A low \in Lows : Low(KeyEpoch(low)) = low =>
         BitsOpened(r.replay_windows[low], KeyEpoch(low), opened')
  BY <1>1, OpenKeepsBits DEF ExactInv
<1>4. /\ r.read_connection_epoch = rx.read_connection_epoch
      /\ r \in [read_connection_epoch : Epochs,
                replay_windows : [Lows -> ReplayWindows],
                highest_recv_seq : [Lows -> [valid : BOOLEAN, seq : SeqNums]]]
  BY OpenedFields
<1>5. CASE rx' = r
  <2> HIDE DEF r
  <2>1. \A low : KeyEpoch(low)' = KeyEpoch(low)
    BY <1>4, <1>5 DEF KeyEpoch
  <2>2. HighestIsLast'
    BY <1>2, <1>5 DEF Matches, HighestIsLast
  <2>3. BitsWereOpened'
    BY <1>3, <1>5, <2>1 DEF BitsWereOpened
  <2> QED
    BY <1>1, <2>2, <2>3 DEF ExactInv
<1>6. CASE rx' = NextReadEpoch(r) /\ rx.read_connection_epoch < MaxEpoch
  <2> DEFINE epoch == rx.read_connection_epoch + 1
             new == Low(epoch)
             windows == [r.replay_windows EXCEPT ![new] = EmptyWindow]
             received == [r.highest_recv_seq EXCEPT ![new] = NoneReceived]
  <2>1. /\ epoch \in Epochs /\ epoch \in Nat /\ epoch > 2
        /\ rx.read_connection_epoch \in Nat /\ rx.read_connection_epoch = epoch - 1
    BY <1>6 DEF Inv, TypeOK, Epochs
  <2>2. new \in Lows
    BY <2>1, LowFacts
  <2> HIDE DEF r
  <2>3. rx' = [[[r EXCEPT !.read_connection_epoch = epoch]
                  EXCEPT !.replay_windows = windows] EXCEPT !.highest_recv_seq = received]
    BY <1>4, <1>6 DEF NextReadEpoch
  <2>4. /\ windows[new] = EmptyWindow /\ received[new] = NoneReceived
        /\ \A l \in Lows : l # new => /\ windows[l] = r.replay_windows[l]
                                      /\ received[l] = r.highest_recv_seq[l]
    BY <1>4, <2>2
  <2> HIDE DEF windows, received, epoch, new
  <2>5. /\ rx'.read_connection_epoch = epoch /\ rx'.replay_windows = windows
        /\ rx'.highest_recv_seq = received
    BY <1>4, <2>3
  <2>6. HighestIsLast'
    <3>1. ASSUME NEW l \in Lows
          PROVE  IF received[l].valid THEN windows[l].last_seq = received[l].seq
                 ELSE windows[l] = EmptyWindow
      <4>1. CASE l = new
        BY <4>1, <2>4 DEF NoneReceived
      <4>2. CASE l # new
        BY <4>2, <2>4, <1>2 DEF Matches
      <4> QED
        BY <4>1, <4>2
    <3> QED
      BY <3>1, <2>5 DEF HighestIsLast
  <2>7. ASSUME NEW l \in Lows, Low(KeyEpoch(l)') = l
        PROVE  BitsOpened(windows[l], KeyEpoch(l)', opened')
    <3>1. KeyEpoch(l)' = IF l = Low(2) /\ epoch < 6 THEN 2 ELSE epoch
      BY <2>5 DEF KeyEpoch
    <3>2. CASE l = new
      <4>1. windows[l].window_bitmap = {}
        BY <3>2, <2>4 DEF EmptyWindow
      <4> QED
        BY <4>1 DEF BitsOpened
    <3>3. CASE l # new
      <4>1. l = Low(2) /\ epoch < 6 /\ KeyEpoch(l)' = 2
        BY <3>1, <3>3, <2>7 DEF new
      <4>2. rx.read_connection_epoch < 6
        BY <2>1, <4>1
      <4>3. KeyEpoch(l) = 2
        BY <4>1, <4>2 DEF KeyEpoch
      <4>4. windows[l] = r.replay_windows[l]
        BY <2>4, <3>3
      <4> QED
        BY <4>1, <4>3, <4>4, <1>3
    <3> QED
      BY <3>2, <3>3
  <2>8. BitsWereOpened'
    BY <2>5, <2>7 DEF BitsWereOpened
  <2> QED
    BY <1>1, <2>6, <2>8 DEF ExactInv
<1> QED
  BY <1>5, <1>6 DEF Receive

LEMMA ExactHolds == Spec => []ExactInv
<1>1. Init => ExactInv
  <2> SUFFICES ASSUME Init PROVE ExactInv
    OBVIOUS
  <2>1. /\ opened = {} /\ wire = {}
        /\ \A low \in Lows : /\ rx.replay_windows[low] = EmptyWindow
                             /\ rx.highest_recv_seq[low] = NoneReceived
    BY DEF Init
  <2> QED
    BY <2>1 DEF ExactInv, HighestIsLast, BitsWereOpened, BitsOpened, EmptyWindow, NoneReceived
<1>2. Inv /\ ExactInv /\ [Next]_vars => ExactInv'
  <2> SUFFICES ASSUME Inv, ExactInv, [Next]_vars PROVE ExactInv'
    OBVIOUS
  <2>1. CASE Writer
    BY <2>1, WriterExact
  <2>2. CASE \E rec \in wire : Receive(rec)
    BY <2>2, ReceiveExact
  <2>3. CASE UNCHANGED vars
    BY <2>3 DEF vars, ExactInv, HighestIsLast, BitsWereOpened, KeyEpoch
  <2> QED
    BY <2>1, <2>2, <2>3 DEF Next
<1> QED
  BY <1>1, <1>2, Record13Invariant, PTL DEF Spec

(* noxtls_tls13_decrypt_dtls13_record opens every genuine record it has    *)
(* the keys for and has not opened, inside the window or up to half a      *)
(* field ahead: dtls13_reconstruct_record_number finds its number whatever *)
(* was received before it, and no bit of the window is left from an epoch  *)
(* that shared its low bits.                                               *)
THEOREM Record13FreshPass == Spec => []NoFalseReject
<1>1. Inv /\ ExactInv => NoFalseReject
  <2> SUFFICES ASSUME Inv, ExactInv, NEW rec \in wire, rec \notin opened,
                      KeyEpoch(Low(rec.epoch)) = rec.epoch,
                      rx.replay_windows[Low(rec.epoch)].last_seq - rec.seq < ReplayWindowSize,
                      InReach(rx.highest_recv_seq[Low(rec.epoch)], rec.seq)
               PROVE  Opens(rec)
    BY DEF NoFalseReject
  <2> DEFINE low == Low(rec.epoch)
             win == rx.replay_windows[low]
             highest == rx.highest_recv_seq[low]
  <2>1. rec.seq \in Nat /\ low \in Lows
    BY LowFacts DEF Inv, TypeOK, Records, SeqNums
  <2>2. win \in ReplayWindows /\ highest \in [valid : BOOLEAN, seq : SeqNums]
    BY <2>1 DEF Inv, TypeOK
  <2>3. highest.valid => highest.seq - rec.seq < ReplayWindowSize
    BY <2>1 DEF ExactInv, HighestIsLast
  <2>4. FullSeq(rec) = rec.seq
    BY <2>1, <2>2, <2>3, ReconstructExact DEF FullSeq
  <2>5. win.last_seq - rec.seq \notin win.window_bitmap
    <3> SUFFICES ASSUME win.last_seq - rec.seq \in win.window_bitmap PROVE FALSE
      OBVIOUS
    <3>1. BitsOpened(win, rec.epoch, opened)
      BY <2>1 DEF ExactInv, BitsWereOpened
    <3>2. win.last_seq \in Nat
      BY <2>2 DEF ReplayWindows
    <3> HIDE DEF win
    <3>3. PICK old \in opened : /\ old.epoch = rec.epoch
                                /\ old.seq = win.last_seq - (win.last_seq - rec.seq)
      BY <3>1 DEF BitsOpened
    <3>4. old.seq = rec.seq /\ old \in wire
      BY <3>2, <3>3, <2>1 DEF ExactInv
    <3> QED
      BY <3>3, <3>4 DEF Inv, NonceUnique
  <2>6. CheckReplay(win, rec.seq)
    BY <2>1, <2>2, <2>5 DEF CheckReplay, ReplayWindows
  <2> QED
    BY <2>4, <2>6 DEF Opens
<1> QED
  BY <1>1, Record13Invariant, ExactHolds, PTL

=============================================================================
