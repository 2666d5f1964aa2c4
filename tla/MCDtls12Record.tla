--------------------------- MODULE MCDtls12Record ---------------------------
(* Model values for checking Dtls12Record with TLC. *)
EXTENDS Dtls12Record, FiniteSets

CONSTANTS
    m,               \* a message other than ChangeCipherSpec
    MaxWire          \* bound on the records sent

FewRecords == Cardinality(wire) <= MaxWire

=============================================================================
