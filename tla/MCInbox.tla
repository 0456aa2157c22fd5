------------------------------- MODULE MCInbox ------------------------------
\* An inbox for TLC: two messages of one stream that depend on a message of another, one of
\* the loops of run(num_processes = 2), and an iterator, which reads every message.
EXTENDS Inbox, TLC

CONSTANTS a1, a2, b1, w1, w2

Fork == [m \in Msgs |-> IF m = b1 THEN {} ELSE {b1}]

StreamHash == [m \in Msgs |-> IF m = b1 THEN 4 ELSE 7]

LoopAndIterator ==
  [w \in Workers |-> IF w = w1 THEN [worker |-> 1, workers |-> 2] ELSE [worker |-> 0, workers |-> 1]]
=============================================================================
