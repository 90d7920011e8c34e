---------------------------- MODULE MCFileTransfer ----------------------------
\* Two jobs that share one input file of two chunks, which may be pushed twice,
\* or one job that leaves an output archive of two chunks.
EXTENDS FileTransfer

CONSTANT f1

OneInput == [j \in Jobs |-> f1]

SharedOrPulled ==
    {[drops |-> 0, faults |-> 1, purges |-> 1, submits |-> 2, pulls |-> 0],
     [drops |-> 1, faults |-> 1, purges |-> 1, submits |-> 1, pulls |-> 1]}

NoFault == {[drops |-> 0, faults |-> 0, purges |-> 0, submits |-> 1, pulls |-> 0]}
=============================================================================
