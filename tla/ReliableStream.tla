---------------------------- MODULE ReliableStream ----------------------------
(***************************************************************************)
(* What one direction of a connected TLS session promises its two          *)
(* applications: the reader is handed the writer's units of data in order,  *)
(* each once, is told that the data is over only when it has all of it, and *)
(* gets all of it unless an error was reported.                             *)
(***************************************************************************)
EXTENDS Naturals, Sequences

CONSTANT MaxChunk      \* most units of data that one call moves

VARIABLES
    sent,              \* units the writer's calls accepted: 1 .. sent
    received,          \* the units handed to the reader
    ended,             \* the reader was told that there is no more
    broken             \* a call has reported a failure

vars == <<sent, received, ended, broken>>

Init == sent = 0 /\ received = << >> /\ ended = FALSE /\ broken = FALSE

Send ==
    /\ ~ended
    /\ \E n \in 1 .. MaxChunk : sent' = sent + n
    /\ UNCHANGED <<received, ended, broken>>

Receive ==
    /\ \E n \in 1 .. MaxChunk :
          /\ Len(received) + n <= sent
          /\ received' = received \o [i \in 1 .. n |-> Len(received) + i]
    /\ UNCHANGED <<sent, ended, broken>>

End ==
    /\ Len(received) = sent /\ ended' = TRUE
    /\ UNCHANGED <<sent, received, broken>>

Break == broken' = TRUE /\ UNCHANGED <<sent, received, ended>>

Next == Send \/ Receive \/ End \/ Break

Spec == Init /\ [][Next]_vars /\ WF_vars(~broken /\ Receive)

=============================================================================
