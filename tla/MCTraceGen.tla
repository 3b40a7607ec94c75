------------------------------ MODULE MCTraceGen ------------------------------
(* Small instances of TraceGen for TLC. *)
EXTENDS TraceGen

(* Sizes that are a power of two, one that halves to an odd number, 0, 1. *)
SmallArgs ==
    [num_inserts : (0 .. 9) \cup {16}, num_deletes : {0, 1, 4, 8, 16}, num_searches : {0, 2, 5, 8},
     type : {"SEQUENTIAL", "LOW_CONTENTION", "MIXED"}]
=============================================================================
