-------------------------- MODULE MCDtlsReassembly --------------------------
(* An instance of DtlsReassembly for TLC. *)
EXTENDS DtlsReassembly

CONSTANT x        \* a foreign byte

(* Equal lengths in a row, and a message without a body. *)
MCMsgLen == [s \in 0 .. NumMessages - 1 |-> <<2, 2, 0, 3>>[s + 1]]

(* DTLS 1.2 with the peer alone, DTLS 1.3 with keys after the first        *)
(* message, alone and not.                                                 *)
MCSettings ==
    { [plain |-> 4, exposed |-> FALSE],
      [plain |-> 1, exposed |-> FALSE],
      [plain |-> 1, exposed |-> TRUE] }

=============================================================================
