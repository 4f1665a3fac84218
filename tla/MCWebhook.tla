----------------------------- MODULE MCWebhook ------------------------------
(***************************************************************************)
(* Small instances of Webhook.                                             *)
(***************************************************************************)
EXTENDS Webhook, TLC

CONSTANTS invoice, storno

\* The storno reverses the invoice; every other event stands for itself.
MCOriginal == [e \in Events |-> IF e = storno THEN invoice ELSE NoEvent]

MCCreatedAt == [e \in Events |-> 1]

\* An invoice and its storno in one foreign currency, the provider gone between
\* the two, and events nothing comes of.
MCKinds ==
  {[e \in Events |-> IF e = storno THEN k[2] ELSE k[1]] :
     k \in {<<"foreign", "foreign">>, <<"foreign", "unpriced">>,
            <<"unmappable", "foreign">>, <<"ineligible", "undecodable">>}}

Symmetry == Permutations(Handlers)
=============================================================================
