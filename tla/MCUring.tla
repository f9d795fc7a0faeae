------------------------------ MODULE MCUring ------------------------------
\* Three operations and the wake poll on a ring with two entries; the receiver of one starts
\* another.
EXTENDS UringSubmission

CONSTANTS a, b, c

MCIoOps == {a, b, c}
MCChain == [op \in MCIoOps |-> IF op = a THEN <<c>> ELSE <<>>]
=============================================================================
