------------------------------ MODULE MCBridge ------------------------------
(***************************************************************************)
(* Small instances of Bridge.                                              *)
(***************************************************************************)
EXTENDS Bridge

CONSTANTS invoice, storno

\* The storno reverses the invoice.
MCOriginal == [e \in Events |-> IF e = storno THEN invoice ELSE NoEvent]

MCKinds == {[e \in Events |-> "forint"]}

\* No two rows of the model are of one age when the storno is delivered in order.
MCCreatedAt == [e \in Events |-> IF e = storno THEN 2 ELSE 1]
=============================================================================
