------------------------------ MODULE MCRetry -------------------------------
(***************************************************************************)
(* Small instances of Retry.                                               *)
(***************************************************************************)
EXTENDS Retry

\* Nothing set, each set alone, a cap below the first delay, and one that six
\* failures do not reach.
MCConfigs ==
  {[base |-> 0, max |-> 0], [base |-> 10, max |-> 0], [base |-> 0, max |-> 95],
   [base |-> 30, max |-> 7], [base |-> 10, max |-> 1000]}
=============================================================================
