---------------------------- MODULE MCInvoiceMap ----------------------------
(***************************************************************************)
(* Small instances of InvoiceMap: invoices as Stripe computes them, with   *)
(* amounts chosen so that taxes, forint amounts and unit prices round.     *)
(***************************************************************************)
EXTENDS InvoiceMap

\* Stripe rounds the tax of a line to a minor unit.
Tax(amount, percent, inclusive) ==
  [amount    |-> Rounded(amount * percent, 100 + (IF inclusive THEN percent ELSE 0)),
   inclusive |-> inclusive]

TaxedLine(amount, percent, inclusive, quantity) ==
  [amount |-> amount, quantity |-> quantity, taxes |-> <<Tax(amount, percent, inclusive)>>]

\* Ordinary lines of each rate, a discount, an untaxed line, a line under two
\* taxes, and lines too small for their tax to show the rate.
MCLines ==
  {TaxedLine(1000, 27, FALSE, 1), TaxedLine(999, 27, TRUE, 3), TaxedLine(150, 5, TRUE, 0),
   TaxedLine(-341, 27, FALSE, 1), TaxedLine(50, 27, FALSE, 1), TaxedLine(100, 18, TRUE, 2),
   [amount |-> 701, quantity |-> 2, taxes |-> <<>>],
   [amount |-> 1250, quantity |-> 1, taxes |-> <<Tax(1250, 9, FALSE), Tax(1250, 18, FALSE)>>],
   [amount |-> 0, quantity |-> 1, taxes |-> <<>>]}

Plain ==
  [number |-> [base |-> "2026-1", suffix |-> ""], currency |-> "EUR", hasMore |-> FALSE,
   finalized |-> 47, effective |-> 0, created |-> 36, taxIds |-> <<>>, name |-> "person",
   lines |-> <<TaxedLine(1000, 27, FALSE, 1)>>]

\* Every line in every kind of currency, pairs of lines, and lists that are
\* longer than a page or empty.
ByLines ==
  {[Plain EXCEPT !.lines = <<a>>, !.currency = c] : a \in MCLines, c \in {"HUF", "EUR", "JPY"}}
  \cup {[Plain EXCEPT !.lines = ls] :
          ls \in {<<>>} \cup {<<a, b>> : a \in MCLines, b \in {l \in MCLines : l.amount >= 150}}
                \cup {<<a, a, Plain.lines[1]>> : a \in MCLines}}

\* Noon of the first day, and 23:00 UTC of it, when the second day has begun in
\* Hungary: every combination that Stripe may have set, and what it left out.
ByDates ==
  {[Plain EXCEPT !.finalized = f, !.effective = e, !.created = c] : f, e, c \in {0, 36, 47}}
  \cup {[Plain EXCEPT !.number = NoNumber], [Plain EXCEPT !.currency = ""]}

\* No id, one, and two in either order, also of one kind with different values.
ByCustomer ==
  LET Kinds == {"hungarian", "malformed", "community", "third"}
      Id(kind, value) == [kind |-> kind, value |-> value]
  IN  {[Plain EXCEPT !.taxIds = ids, !.name = n] :
         ids \in {<<>>} \cup {<<Id(a, "A")>> : a \in Kinds}
               \cup {<<Id(a, "A"), Id(b, "B")>> : a, b \in Kinds},
         n \in {"", "person"}}
      \cup {[Plain EXCEPT !.name = "company"]}

MCInvoices == ByLines \cup ByDates \cup ByCustomer

\* Rates that two decimals show exactly, and one that they do not.
MCQuote == [t \in Times |-> IF t = 36 THEN [num |-> 801, den |-> 2]
                            ELSE [num |-> 39500 + t, den |-> 100]]
FineQuote == [t \in Times |-> [num |-> 395102 + t, den |-> 1000]]

\* The invoices are taxed as the theorems assume, and MCQuote is exact.
ASSUME MCInvoiceMapAssumption ==
  /\ StripeTaxes
  /\ \A t \in Times : Exact(MCQuote[t]) /\ ~Exact(FineQuote[t])
=============================================================================
