----------------------------- MODULE MCConsumer -----------------------------
EXTENDS Consumer

CONSTANTS p1, p2, a, b

Two == {p1, p2}
MCPayloads == {a, b}
MCBatches == {<<a, b>>, <<b>>}
Patient == [RetryLimit |-> -1, RetryErrLimit |-> 2, batch |-> FALSE, acks |-> TRUE]
Hasty == [RetryLimit |-> 1, RetryErrLimit |-> 1, batch |-> TRUE, acks |-> FALSE]
OnlyPatient == {Patient}
OnlyHasty == {Hasty}
Both == {Patient, Hasty}
All == {"set", "setz", "batch", "batchz"}
Sets == {"set"}
RecordBatches == {"batch"}
=============================================================================
