--------------------------- MODULE MCChangeStream ---------------------------
EXTENDS ChangeStream, TLC

\* A copy and then the changes; of a table without a key; with acks beside the
\* stream; and a stream that follows a slot from the start.
Copying == [script |-> <<1>>, copy |-> TRUE, keyless |-> FALSE, made |-> FALSE, acks |-> {}, faults |-> 2]
KeylessCopy == [Copying EXCEPT !.script = <<2, 1>>, !.keyless = TRUE, !.made = TRUE, !.faults = 1]
AckedCopy == [Copying EXCEPT !.script = <<2>>, !.acks = {"unary"}, !.faults = 1]
Following == [Copying EXCEPT !.script = <<0, 2>>, !.copy = FALSE, !.made = TRUE, !.acks = {"stream"}]
Workloads == {Copying, KeylessCopy, AckedCopy, Following}
=============================================================================
