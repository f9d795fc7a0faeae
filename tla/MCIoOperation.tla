----------------------------- MODULE MCIoOperation -----------------------------
(* IoOperation over every request of the library. *)
EXTENDS IoOperation

MCKinds == Requests

(* The last valid offset, which a second round leaves, and an invalid one. *)
MCOffsets == {3, 5}
===============================================================================
