-------------------------- MODULE LockFreeHistory --------------------------
(***************************************************************************)
(* The lock-free tree with a history variable that remembers what the op   *)
(* of each node has been.  Every CAS of an op relies on its old value not  *)
(* having been there, gone and come back (the ABA problem).                *)
(***************************************************************************)
EXTENDS LockFreeTree

VARIABLE past \* history: by node, the earlier values of its op

hvars == <<vars, past>>

HistoryInit == Init /\ past = [n \in DOMAIN node |-> {}]

HistoryNext ==
    /\ Next
    /\ past' = [n \in DOMAIN node' |->
                  IF n \notin DOMAIN node THEN {}
                  ELSE IF node'[n].op = node[n].op THEN past[n]
                  ELSE past[n] \cup {node[n].op}]

HistorySpec == HistoryInit /\ [][HistoryNext]_hvars

(* No op that a node has had ever comes back, so that a CAS that succeeds  *)
(* has seen everything that happened to the node since its old value was   *)
(* read: the address of an operation that is over stays in the op.         *)
NeverRepeats == \A n \in DOMAIN node : node[n].op \notin past[n]

=============================================================================
