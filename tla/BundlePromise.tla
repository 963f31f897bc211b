---------------------------- MODULE BundlePromise ----------------------------
(***************************************************************************)
(* What the binary files of bundles promise to those who share them: a     *)
(* load yields a bundle that somebody began to save, as it was, or         *)
(* nothing.  It may fail at any time; it never yields a bundle made of the *)
(* parts of two, or of a part of one.                                      *)
(***************************************************************************)
CONSTANTS Procs, Programs, Nothing

VARIABLES
  offered,    \* the programs somebody began to save
  loaded      \* what each process holds from its last load

Init == /\ offered = {}
        /\ loaded = [p \in Procs |-> Nothing]

Offer(x) == /\ offered' = offered \union {x}
            /\ UNCHANGED loaded

Answer(p) == /\ \E x \in offered : loaded' = [loaded EXCEPT ![p] = x]
             /\ UNCHANGED offered

Drop(p) == /\ loaded' = [loaded EXCEPT ![p] = Nothing]
           /\ UNCHANGED offered

Next == \/ \E x \in Programs : Offer(x)
        \/ \E p \in Procs : Answer(p) \/ Drop(p)

Spec == Init /\ [][Next]_<<offered, loaded>>
=============================================================================
