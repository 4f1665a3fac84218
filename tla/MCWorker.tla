------------------------------ MODULE MCWorker ------------------------------
(***************************************************************************)
(* Small instances of Worker.                                              *)
(***************************************************************************)
EXTENDS WorkerProperties, TLC

CONSTANTS invoice, storno

\* The storno reverses the invoice.
MCOriginal == [e \in Events |-> IF e = storno /\ invoice \in Events THEN invoice ELSE NoEvent]

\* The invoice is the older row.
MCCreatedAt == [e \in Events |-> IF e = storno THEN 2 ELSE 1]

Symmetry == Permutations(Workers) \cup Permutations(Gens)
=============================================================================
