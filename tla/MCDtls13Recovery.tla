-------------------------- MODULE MCDtls13Recovery --------------------------
(* The settings under which TLC explores Dtls13Recovery.                   *)
EXTENDS Dtls13Recovery

(* Client authentication, a timer that may fire at any moment: lost,       *)
(* repeated and overtaken datagrams around one retransmission.             *)
EagerTimer ==
    [messages |-> 3, attempts |-> 1, loss |-> 2, dup |-> 2, patient |-> FALSE]

(* The default budget of four attempts, a timer longer than the round      *)
(* trip: what is lost is made up for by later passes.                      *)
Authenticated ==
    [messages |-> 3, attempts |-> 4, loss |-> 2, dup |-> 0, patient |-> TRUE]

FinishedAlone ==
    [messages |-> 1, attempts |-> 4, loss |-> 4, dup |-> 2, patient |-> TRUE]

MCSettings == {EagerTimer, Authenticated, FinishedAlone}

(* One loss is enough for a flight of two messages to stay behind. *)
AuthSettings ==
    {[messages |-> 2, attempts |-> 4, loss |-> 1, dup |-> 0, patient |-> TRUE]}

=============================================================================
