---------------------------- MODULE MCDtls13Record ----------------------------
(* Dtls13Record within bounds on its product of epochs and numbers.         *)
EXTENDS Dtls13Record

CONSTANTS ManyEpochsSeq     \* numbers of an epoch explored with many epochs

(* Data records of two epochs under all MaxSeq numbers: the numbers of the  *)
(* header wrap more than once.                                              *)
ManyNumbers ==
    /\ tx.epoch <= DTLS13_EPOCH_APPLICATION
    /\ \A rec \in wire : rec.body = "data"

(* All epochs up to MaxEpoch, with few numbers in each: the low bits of the *)
(* epoch wrap.                                                              *)
ManyEpochs ==
    /\ tx.write_seq_num <= ManyEpochsSeq
    /\ tx.prev_write_seq_num <= ManyEpochsSeq
    /\ \A rec \in wire : rec.seq < ManyEpochsSeq

Explored == ManyNumbers \/ ManyEpochs

=============================================================================
