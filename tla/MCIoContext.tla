---------------------------- MODULE MCIoContext ----------------------------
(***************************************************************************)
(* Instances of IoContext for TLC: a few worker threads, one or two threads *)
(* outside, and two or three operations.                                   *)
(***************************************************************************)
EXTENDS IoContext, TLC

\* No receiver starts another operation.
NoChain == [op \in Ops |-> {}]

\* The receiver of a CPU operation may start any I/O operation, and that of an
\* I/O operation any CPU operation.
CrossChain == [op \in Ops |-> IF op \in CpuOps THEN IoOps ELSE CpuOps]

\* Workers are interchangeable.
WorkerSymmetry == Permutations(Workers)
============================================================================
