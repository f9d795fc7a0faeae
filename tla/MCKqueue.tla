------------------------------ MODULE MCKqueue ------------------------------
EXTENDS KqueueContext

CONSTANTS r1, r2, w1, pl, c1, t1, fd

MCDescriptorOf == [op \in IoOps |-> fd]
MCTaskOf == [op \in IoOps |-> IF op = w1 THEN "write" ELSE IF op = pl THEN "poll" ELSE "read"]
MCPollMask == [op \in IoOps |-> IF op = pl THEN {"in", "out"} ELSE {}]

\* The receiver of c1 starts both reads.
MCChain == [op \in Ops |-> [cpu |-> <<>>, io |-> IF op = c1 THEN <<r1, r2>> ELSE <<>>]]

\* A queued reader may be refused when its turn comes, and the second filter of the
\* poll when it is registered.
MCRefusable == {<<r2, "read">>, <<pl, "write">>}

\* The poll may be refused when its turn comes to read.
MCRefusedPoll == {<<pl, "read">>}
=============================================================================
