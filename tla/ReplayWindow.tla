---------------------------- MODULE ReplayWindow ----------------------------
(***************************************************************************)
(* The sliding anti-replay window of the DTLS record layers.  The same two *)
(* functions exist twice in the library: noxtls_dtls_check_replay and      *)
(* noxtls_dtls_update_replay_window for DTLS 1.2 and DTLSPlaintext, and    *)
(* dtls13_replay_check_window / dtls13_replay_update_window for the per-   *)
(* epoch windows of DTLSCiphertext.  The 64-bit window_bitmap is the set   *)
(* of its one bits; bit b stands for the sequence number last_seq - b.     *)
(***************************************************************************)
EXTENDS Integers

CONSTANT ReplayWindowSize       \* DTLS_REPLAY_WINDOW_SIZE (64 in the build)

ASSUME ReplayWindowSizeAssumption == ReplayWindowSize \in Nat \ {0}

Bits == 0 .. ReplayWindowSize - 1

ReplayWindows == [last_seq : Nat, window_bitmap : SUBSET Bits]

(* A window as noxtls_dtls_context_init and every epoch change leave it. *)
EmptyWindow == [last_seq |-> 0, window_bitmap |-> {}]

(* Mutants of CheckReplay: the newest number passes again; the oldest      *)
(* position of the window is lost.                                         *)
CheckReplayOrEqual(win, seq) ==
    \/ seq >= win.last_seq
    \/ /\ win.last_seq - seq < ReplayWindowSize
       /\ (win.last_seq - seq) \notin win.window_bitmap
CheckReplayShort(win, seq) ==
    \/ seq > win.last_seq
    \/ /\ win.last_seq - seq < ReplayWindowSize - 1
       /\ (win.last_seq - seq) \notin win.window_bitmap

CheckReplay(win, seq) ==
    \/ seq > win.last_seq
    \/ /\ win.last_seq - seq < ReplayWindowSize
       /\ (win.last_seq - seq) \notin win.window_bitmap

(* window_bitmap <<= diff: bits shifted past the top are lost. *)
ShiftBits(bitmap, diff) == { b \in Bits : b - diff \in bitmap }

UpdateReplayWindow(win, seq) ==
    IF seq > win.last_seq
    THEN [last_seq |-> seq,
          window_bitmap |-> {0} \cup ShiftBits(win.window_bitmap, seq - win.last_seq)]
    ELSE [last_seq |-> win.last_seq,
          window_bitmap |-> win.window_bitmap
                            \cup ({win.last_seq - seq} \cap Bits)]

=============================================================================
