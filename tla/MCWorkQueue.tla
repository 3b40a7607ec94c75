---------------------------- MODULE MCWorkQueue ----------------------------
(* A small instance of WorkQueue for TLC. *)
EXTENDS WorkQueue

(* No work, less work than threads, and more. *)
ShortTraces == {<<>>, <<"a", "b">>, <<"a", "b", "a", "b">>}
=============================================================================
