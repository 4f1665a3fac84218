----------------------------- MODULE InvoiceMap -----------------------------
(***************************************************************************)
(* What NAV is told of one Stripe invoice: the mapping of the invoice, of  *)
(* its storno and of its credit notes to NAV documents, with their amounts *)
(* in the invoice's currency and in forint, their VAT rates, line          *)
(* positions, dates and customer (internal/invoicemap, credit_note.go, and *)
(* processInvoice and processCreditNote of stripenav.go).                  *)
(*                                                                         *)
(* The code computes in rationals.  Here an amount in the invoice's        *)
(* currency is an integer number of minor units, as Stripe has it and, for *)
(* two decimals or none, as NAV gets it; a percentage is in hundredths, as *)
(* NAV gets it; a rate is a fraction; forint amounts are rounded where the *)
(* code renders them and nowhere else.                                     *)
(***************************************************************************)
EXTENDS Integers, Sequences, FiniteSetsExt, SequencesExt

CONSTANTS Invoices,     \* what Stripe may finalize, with all lines
          PageSize,     \* how many lines an event embeds
          Times,        \* instants, in hours of UTC; 0 is an unset timestamp
          Quote,        \* the provider's rate at each instant, [num, den]
          RateScale,    \* 10^6: the rate is reported with six decimals
          ZeroDecimal,  \* currencies without minor units
          LegalRates,   \* the rates of the VAT law, in hundredths
          MaxDocuments  \* bound on the documents of one invoice

\* An invoice as Stripe has it: amounts in minor units, instants or 0, the
\* customer's tax ids in the order Stripe lists them, and the kind of its name.
TaxItems == [amount : Int, inclusive : BOOLEAN]
LineItems == [amount : Int, quantity : Int, taxes : Seq(TaxItems)]

\* A document number, with what the bridge or Stripe appends to an invoice's.
Numbers == [base : STRING, suffix : {"", "STORNO", "CN"}]
NoNumber == [base |-> "", suffix |-> ""]

\* A tax id is "hungarian" (eleven digits under hu_tin, or under eu_vat with HU),
\* "community" (any other eu_vat or eu_oss_vat), "third" (of any other type) or
\* "malformed" (another hu_tin, or blank).
TaxIds == [kind : {"hungarian", "malformed", "community", "third"}, value : STRING]

StripeInvoices ==
  [number : Numbers, currency : STRING, lines : Seq(LineItems), hasMore : BOOLEAN,
   finalized : Times \cup {0}, effective : Times \cup {0}, created : Times \cup {0},
   taxIds : Seq(TaxIds), name : {"", "person", "company"}]

ASSUME InvoiceMapAssumption ==
  /\ PageSize \in Nat \ {0} /\ RateScale \in Nat \ {0} /\ MaxDocuments \in Nat
  /\ Times \subseteq Nat \ {0}
  /\ Quote \in [Times -> [num : Nat, den : Nat \ {0}]]
  /\ Invoices \subseteq StripeInvoices

VARIABLES invoice,   \* the invoice as Stripe knows it
          reported   \* the documents stored for NAV, in the order of their storing

vars == <<invoice, reported>>
-----------------------------------------------------------------------------
(* Amounts.                                                                *)

Abs(n) == IF n < 0 THEN -n ELSE n

\* QuoRem of math/big truncates towards zero, whatever the signs.
Quo(n, d) == IF n >= 0 THEN n \div d ELSE -((-n) \div d)

\* MUTANT: rounds half up, as Floor(x + 1/2) does.
RoundedUp(n, d) == (2 * n + d) \div (2 * d)

\* roundToInt, and FloatString's rounding: half away from zero, for d > 0.
Rounded(n, d) ==
  LET q == Quo(n, d)
      rem == n - q * d
  IN  IF 2 * Abs(rem) < d THEN q ELSE IF rem < 0 THEN q - 1 ELSE q + 1

MinorScale(currency) == IF currency \in ZeroDecimal THEN 1 ELSE 100

\* MUTANT: gross is rendered on its own.
ReconciledApart(net, vat, den) ==
  [net |-> Rounded(net, den), vat |-> Rounded(vat, den), gross |-> Rounded(net + vat, den)]

\* Net and vat are rendered, and gross is what the two renderings add up to.
Reconciled(net, vat, den) ==
  LET n == Rounded(net, den)
      v == Rounded(vat, den)
  IN  [net |-> n, vat |-> v, gross |-> n + v]

\* A net and a tax amount as a line, a summary row or the total shows them.
Amounts(net, vat, currency, rate) ==
  [fc  |-> Reconciled(net, vat, 1),
   huf |-> Reconciled(net * rate.num, vat * rate.num, MinorScale(currency) * rate.den)]
-----------------------------------------------------------------------------
(* Lines: [amount, taxes, quantity] with taxes [amount, inclusive].        *)

Vat(l) == SumFunction([t \in DOMAIN l.taxes |-> l.taxes[t].amount])

Inclusive(l) == \E t \in DOMAIN l.taxes : l.taxes[t].inclusive

Net(l) == IF Inclusive(l) THEN l.amount - Vat(l) ELSE l.amount

Sign(n) == IF n < 0 THEN -1 ELSE 1

\* MUTANT: the base is the line's amount, tax included or not.
PercentageOfAmount(l) ==
  IF l.amount = 0 THEN 0 ELSE Rounded(100 * Sign(l.amount) * Vat(l), Abs(l.amount))

\* The effective rate, derived from the amounts; Quo makes the divisor positive.
Percentage(l) ==
  IF Net(l) = 0 THEN 0 ELSE Rounded(100 * Sign(Net(l)) * Vat(l), Abs(Net(l)))

\* The percentage as it is rendered: a ratio below zero keeps its minus sign when
\* its two decimals are 0.00.
VatPercentage(l) ==
  [hundredths |-> Percentage(l),
   minus      |-> (Net(l) < 0 /\ Vat(l) > 0) \/ (Net(l) > 0 /\ Vat(l) < 0)]

\* A line with its amount and taxes negated; the tax behaviour survives.
Negated(l) ==
  [amount   |-> -l.amount,
   quantity |-> l.quantity,
   taxes    |-> [t \in DOMAIN l.taxes |->
                   [amount |-> -l.taxes[t].amount, inclusive |-> l.taxes[t].inclusive]]]

\* MUTANT: the position is a back-reference to the line reversed.
BackReference(idx, count, opts) ==
  IF opts.operation \in {"MODIFY", "STORNO"} THEN idx ELSE 0

\* The line's position in NAV's chain of the invoice's documents; 0 is none.
Position(idx, count, opts) ==
  IF opts.operation \in {"MODIFY", "STORNO"}
  THEN (IF opts.originalLineCount > 0 THEN opts.originalLineCount ELSE count) + idx
  ELSE 0

ReportedLine(inv, idx, opts) ==
  LET l == inv.lines[idx]
      q == IF l.quantity > 1 THEN l.quantity ELSE 1
  IN  [number   |-> idx,
       amounts  |-> Amounts(Net(l), Vat(l), inv.currency, opts.rate),
       unit     |-> Rounded(Net(l), q),
       unitHUF  |-> Rounded(Net(l) * opts.rate.num, q * MinorScale(inv.currency) * opts.rate.den),
       rate     |-> VatPercentage(l),
       position |-> Position(idx, Len(inv.lines), opts)]

\* The amounts of some of an invoice's lines together (rateTotals, invoiceTotals).
Together(inv, indices, rate) ==
  Amounts(SumFunction([i \in indices |-> Net(inv.lines[i])]),
          SumFunction([i \in indices |-> Vat(inv.lines[i])]), inv.currency, rate)

\* One row for each percentage as the lines show it.
Summary(inv, rate) ==
  {[rate    |-> p,
    amounts |-> Together(inv, {i \in DOMAIN inv.lines : VatPercentage(inv.lines[i]) = p}, rate)]
     : p \in {VatPercentage(inv.lines[i]) : i \in DOMAIN inv.lines}}
-----------------------------------------------------------------------------
(* The customer.                                                           *)

NoVat == [kind |-> "none", value |-> ""]

\* MUTANT: the first id of the list decides, whatever its kind.
ClassifyByFirst(ids, businessName) ==
  LET known == SelectSeq(ids, LAMBDA id : id.kind # "malformed")
  IN  IF known # <<>>
      THEN [status |-> IF Head(known).kind = "hungarian" THEN "DOMESTIC" ELSE "OTHER",
            vat    |-> Head(known)]
      ELSE [status |-> IF businessName THEN "OTHER" ELSE "PRIVATE_PERSON", vat |-> NoVat]

\* The first id of the most specific kind, wherever it is in the list.
ClassifyCustomer(ids, businessName) ==
  LET Of(kind) == {i \in DOMAIN ids : ids[i].kind = kind}
  IN  IF Of("hungarian") # {} THEN [status |-> "DOMESTIC", vat |-> ids[Min(Of("hungarian"))]]
      ELSE IF Of("community") # {} THEN [status |-> "OTHER", vat |-> ids[Min(Of("community"))]]
      ELSE IF Of("third") # {} THEN [status |-> "OTHER", vat |-> ids[Min(Of("third"))]]
      ELSE [status |-> IF businessName THEN "OTHER" ELSE "PRIVATE_PERSON", vat |-> NoVat]

\* buildCustomer; a name is "", "person" or "company" (looksLikeBusiness).
Customer(inv) ==
  LET class == ClassifyCustomer(inv.taxIds,
                 inv.name # "" /\ (inv.taxIds # <<>> \/ inv.name = "company"))
  IN  [status |-> class.status, vat |-> class.vat,
       name |-> IF class.status = "PRIVATE_PERSON" THEN "" ELSE inv.name]
-----------------------------------------------------------------------------
(* Documents.                                                              *)

\* localDate: the day of an instant in the fixed zone UTC+2.
LocalDate(t) == (t + 2) \div 24

\* issueDate of the mapper: an instant, or 0 if Stripe has set none.
IssueDate(inv) ==
  IF inv.finalized > 0 THEN inv.finalized
  ELSE IF inv.effective > 0 THEN inv.effective
  ELSE inv.created

\* MUTANT: the two derivations of the issue time have drifted apart.
IssueTimeByCreation(inv, fallback) ==
  IF inv.created > 0 THEN inv.created
  ELSE IF inv.finalized > 0 THEN inv.finalized
  ELSE IF inv.effective > 0 THEN inv.effective
  ELSE fallback

\* stripeInvoiceIssueTime: the instant the exchange rate is asked for.
IssueTime(inv, fallback) ==
  IF inv.finalized > 0 THEN inv.finalized
  ELSE IF inv.effective > 0 THEN inv.effective
  ELSE IF inv.created > 0 THEN inv.created
  ELSE fallback

\* validateOptions and the checks of MapInvoice; the supplier is configured.
Mappable(inv, opts) ==
  /\ opts.operation \in {"MODIFY", "STORNO"} => opts.original # NoNumber
  /\ inv.number # NoNumber
  /\ IssueDate(inv) > 0
  /\ inv.lines # <<>>
  /\ ~inv.hasMore
  /\ inv.currency # ""

\* MUTANT: the caller's index is taken as it is.
GivenIndex(opts) == opts.index

ModificationIndex(opts) == IF opts.index > 0 THEN opts.index ELSE 1

Rendered(rate) == [num |-> Rounded(rate.num * RateScale, rate.den), den |-> RateScale]

\* The document, and the parent its row records: the place of the original among
\* the documents stored, or 0.
MapInvoice(inv, opts) ==
  [operation |-> opts.operation,
   number    |-> inv.number,
   parent    |-> opts.parent,
   issued    |-> LocalDate(IssueDate(inv)),
   currency  |-> inv.currency,
   rate      |-> Rendered(opts.rate),
   customer  |-> Customer(inv),
   lines     |-> [i \in DOMAIN inv.lines |-> ReportedLine(inv, i, opts)],
   summary   |-> Summary(inv, opts.rate),
   total     |-> Together(inv, DOMAIN inv.lines, opts.rate),
   original  |-> opts.original,
   index     |-> IF opts.operation = "CREATE" THEN 0 ELSE ModificationIndex(opts)]

One == [num |-> 1, den |-> 1]

\* rateFor, with a provider that answers.
RateFor(currency, at) == IF currency = "HUF" THEN One ELSE Quote[at]
-----------------------------------------------------------------------------
(* Events.                                                                 *)

\* The first page of a list of lines, as an event carries it.
Embedded(inv) ==
  [inv EXCEPT !.lines = SubSeq(@, 1, Min({PageSize, Len(@)})),
              !.hasMore = Len(inv.lines) > PageSize]

\* MUTANT: the clone's list is made without its ListMeta.
AsStornoUnpaged(inv, now) ==
  [inv EXCEPT !.number.suffix = "STORNO", !.finalized = now, !.hasMore = FALSE,
              !.lines = [i \in DOMAIN @ |-> Negated(@[i])]]

\* invoiceAsStorno: a new number and issue date, negated lines.
AsStorno(inv, now) ==
  [inv EXCEPT !.number.suffix = "STORNO", !.finalized = now,
              !.lines = [i \in DOMAIN @ |-> Negated(@[i])]]

\* creditNoteAsInvoice: the customer's tax ids are not carried over.
CreditNoteAsInvoice(cn) ==
  [number |-> cn.number, currency |-> cn.currency, created |-> cn.created,
   finalized |-> cn.effective, effective |-> 0, hasMore |-> cn.hasMore,
   lines |-> [i \in DOMAIN cn.lines |-> Negated(cn.lines[i])],
   taxIds |-> <<>>, name |-> cn.name]

\* persistMapped, for a document that can be mapped; the others are dropped.
Persist(inv, opts) ==
  /\ Len(reported) < MaxDocuments
  /\ Mappable(inv, opts)
  /\ reported' = Append(reported, MapInvoice(inv, opts))
  /\ UNCHANGED invoice

Stored(operation) == {i \in DOMAIN reported : reported[i].operation = operation}

\* findParentSubmission: the original's place, or 0 if it is not stored or the
\* store fails to answer.
Parents == Stored("CREATE") \cup {0}

\* The rate the parent's payload was reported with, if there is a parent; what
\* rateFor answers otherwise.
StornoRate(inv, parent, now) ==
  IF parent # 0 /\ inv.currency # "HUF"
  THEN reported[parent].rate
  ELSE RateFor(inv.currency, IssueTime(inv, now))

Init ==
  /\ invoice \in Invoices
  /\ reported = <<>>

\* invoice.finalized; a second delivery finds the row.
Finalized ==
  /\ Stored("CREATE") = {}
  /\ LET inv == Embedded(invoice)
     IN  \E now \in Times :
           Persist(inv, [operation |-> "CREATE", original |-> NoNumber, parent |-> 0,
                         index |-> 0, originalLineCount |-> 0,
                         rate |-> RateFor(inv.currency, IssueTime(inv, now))])

\* invoice.voided and invoice.marked_uncollectible, in any order with the rest.
Reversed ==
  /\ Cardinality(Stored("STORNO")) < 2
  /\ LET inv == Embedded(invoice)
     IN  \E now \in Times, parent \in Parents :
           Persist(AsStorno(inv, now),
                   [operation |-> "STORNO", original |-> inv.number, parent |-> parent,
                    index |-> 0, originalLineCount |-> Len(inv.lines),
                    rate |-> StornoRate(AsStorno(inv, now), parent, now)])

\* credit_note.created and credit_note.voided, of one line or of all, with or
\* without an effective date of its own; no parent is looked up.
Credited ==
  \E created \in Times, effective \in Times \cup {0}, i \in 0..Len(invoice.lines) :
    LET cn == Embedded([number |-> [invoice.number EXCEPT !.suffix = "CN"], currency |-> invoice.currency,
                        created |-> created, effective |-> effective, hasMore |-> FALSE,
                        name |-> invoice.name,
                        lines |-> IF i = 0 THEN invoice.lines ELSE <<invoice.lines[i]>>])
    IN  Persist(CreditNoteAsInvoice(cn),
                [operation |-> "MODIFY", original |-> invoice.number, parent |-> 0,
                 index |-> 1, originalLineCount |-> 0,
                 rate |-> RateFor(cn.currency, IF effective > 0 THEN effective ELSE created)])

Next == Finalized \/ Reversed \/ Credited

Spec == Init /\ [][Next]_vars
-----------------------------------------------------------------------------
(* What may be assumed of Stripe's taxes and of the provider's quotes.     *)

\* The taxes of a line are what the law asks of its base, to a minor unit.
TaxedByLaw(l) ==
  \E p \in LegalRates :
    LET whole == IF Inclusive(l) THEN 100 + p ELSE 100
    IN  2 * Abs(whole * Vat(l) - p * l.amount) <= whole

StripeTaxes ==
  /\ LegalRates \subseteq 0..27
  /\ \A inv \in Invoices : \A i \in DOMAIN inv.lines : TaxedByLaw(inv.lines[i])

\* The decimals that a rate is reported with show all of it.
Exact(rate) == Rendered(rate).num * rate.den = rate.num * RateScale

ExactQuotes == \A t \in Times : Exact(Quote[t])
-----------------------------------------------------------------------------
(* What the mapping promises.                                              *)

Money == [net : Int, vat : Int, gross : Int]
Both == [fc : Money, huf : Money]
Percentages == [hundredths : Int, minus : BOOLEAN]

Documents ==
  [operation : {"CREATE", "MODIFY", "STORNO"},
   number    : Numbers,
   parent    : Nat,
   issued    : Nat,
   currency  : STRING,
   rate      : [num : Nat, den : {RateScale}],
   customer  : [status : {"DOMESTIC", "OTHER", "PRIVATE_PERSON"},
                vat : TaxIds \cup {NoVat},
                name : {"", "person", "company"}],
   lines     : Seq([number : Nat \ {0}, amounts : Both, unit : Int, unitHUF : Int,
                    rate : Percentages, position : Nat]),
   summary   : SUBSET [rate : Percentages, amounts : Both],
   total     : Both,
   original  : Numbers \cup {NoNumber},
   index     : Nat]

\* Documents have the fields NAV's schema asks for: among them, for all but an
\* original, what they modify and an index of at least 1 (validateOptions).
TypeOK ==
  /\ invoice \in Invoices
  /\ reported \in Seq(Documents)
  /\ \A d \in Range(reported) :
       d.operation # "CREATE" => d.original # NoNumber /\ d.index >= 1

\* All amounts a document shows: of its lines, its rows and its total.
Shown(d) ==
  {d.lines[i].amounts : i \in DOMAIN d.lines} \cup {r.amounts : r \in d.summary} \cup {d.total}

\* A total and the sum of n parts, each rounded the given number of times.
WithinRounding(total, sum, n, roundings) == 2 * Abs(total - sum) <= roundings * (n + 1)

\* Parts make a total exactly in the invoice's currency, and up to the rounding
\* of each part in forint, where gross is rounded twice.
MakeUp(total, parts) ==
  \A f \in {"net", "vat", "gross"} :
    /\ total.fc[f] = SumFunction([x \in DOMAIN parts |-> parts[x].fc[f]])
    /\ WithinRounding(total.huf[f], SumFunction([x \in DOMAIN parts |-> parts[x].huf[f]]),
                      Cardinality(DOMAIN parts), IF f = "gross" THEN 2 ELSE 1)

\* A document in which net and vat make gross, the lines make the total and so do
\* the rows.
AddsUp(d) ==
  /\ \A a \in Shown(d) : a.fc.net + a.fc.vat = a.fc.gross /\ a.huf.net + a.huf.vat = a.huf.gross
  /\ MakeUp(d.total, [i \in DOMAIN d.lines |-> d.lines[i].amounts])
  /\ MakeUp(d.total, [r \in d.summary |-> r.amounts])

\* The sums NAV checks hold on every line, row and total, in both currencies
\* (reconciled, buildLines, buildSummary).
SumsHold == \A d \in Range(reported) : AddsUp(d)

\* Two amounts are opposite in each of the given currencies.
Opposite(a, b, currencies) ==
  \A c \in currencies, f \in {"net", "vat", "gross"} : a[c][f] = -b[c][f]

\* A storno is an original's opposite: line by line, row by row and in total.
Cancels(s, d, currencies) ==
  /\ Opposite(s.total, d.total, currencies)
  /\ Len(s.lines) = Len(d.lines)
  /\ \A k \in DOMAIN d.lines : /\ Opposite(s.lines[k].amounts, d.lines[k].amounts, currencies)
                              /\ s.lines[k].rate = d.lines[k].rate
  /\ \A r \in d.summary :
       \E q \in s.summary : q.rate = r.rate /\ Opposite(q.amounts, r.amounts, currencies)

\* A storno cancels the original it follows: to the last forint if its lookup of
\* the original was answered, whatever the rate is on the day of the storno, and
\* in the invoice's currency even if the store failed to answer (invoiceAsStorno,
\* processInvoice: "must reverse the original's HUF amounts exactly").
StornoCancels ==
  \A i, j \in DOMAIN reported :
    i < j /\ reported[i].operation = "CREATE" /\ reported[j].operation = "STORNO" =>
      Cancels(reported[j], reported[i],
              IF reported[j].parent = i \/ reported[j].currency = "HUF" THEN {"fc", "huf"} ELSE {"fc"})

\* The positions of a document's lines in NAV's chain of the invoice's documents.
\* An original's lines have their own numbers, from 1.
Positions(d) ==
  {IF d.operation = "CREATE" THEN d.lines[k].number ELSE d.lines[k].position : k \in DOMAIN d.lines}

\* If no other modification came before it, a storno goes on where the original
\* ends, whichever of the two was stored first: together they take each position
\* from the first on once (lineNumberReference in buildLines).
StornoFollowsOriginal ==
  \A i, j \in DOMAIN reported :
    /\ reported[i].operation = "CREATE" /\ reported[j].operation = "STORNO"
    /\ \A k \in 1..j-1 : reported[k].operation = "CREATE"
    => LET n == Len(reported[i].lines)
       IN  Positions(reported[i]) = 1..n /\ Positions(reported[j]) = n+1 .. 2 * n

\* After the original, a storno takes the next free positions of the chain: none
\* that an earlier document of the invoice has (buildLines: "each new submission
\* appends lines to the chain at the next free positions").
StornosTakeFreePositions ==
  \A i, j \in DOMAIN reported :
    i < j /\ reported[1].operation = "CREATE" /\ reported[j].operation = "STORNO" =>
      Positions(reported[i]) \cap Positions(reported[j]) = {}

\* From 128 minor units on, a line shows the rate of the law it was
\* taxed at, whether its amount includes the tax or not and whichever way it
\* goes; and no two rows show the same percentage with and without a minus, so
\* that lines of one rate share a row (buildLines: "NAV rejects duplicate
\* vatPercentage summary rows").
LegalRateShown ==
  \A d \in Range(reported) :
    /\ \A k \in DOMAIN d.lines :
         Abs(d.lines[k].amounts.fc.net) >= 128 => d.lines[k].rate.hundredths \in LegalRates
    /\ \A r, q \in d.summary : r.rate.hundredths = q.rate.hundredths => r = q

\* An original or a storno accounts for all of the invoice's lines, or is not
\* reported: an event's truncated list is never mistaken for the whole.
NothingUnderreported ==
  \A d \in Range(reported) :
    LET whole == SumFunction([i \in DOMAIN invoice.lines |-> Net(invoice.lines[i])])
    IN  /\ d.operation = "CREATE" => d.total.fc.net = whole
        /\ d.operation = "STORNO" => d.total.fc.net = -whole

\* The rate of a document in foreign currency is the provider's for an instant
\* of the Hungarian day the document shows, also where that day has begun and
\* UTC's has not; or, for a storno, that of its parent (stripeInvoiceIssueTime
\* of the handler, issueDate and localDate of the mapper).  What a provider makes
\* of the instant is its own: one that quotes for the UTC day of it gives the
\* day before the one shown, from 22:00 to 24:00 UTC.
RateOfIssueDate ==
  \A i \in DOMAIN reported :
    LET d == reported[i]
    IN  d.currency # "HUF" =>
          \/ \E t \in Times : d.issued = LocalDate(t) /\ d.rate = Rendered(Quote[t])
          \/ d.operation = "STORNO" /\ d.parent \in 1..i-1 /\ reported[d.parent].rate = d.rate

Specificity(kind) ==
  IF kind = "hungarian" THEN 3 ELSE IF kind = "community" THEN 2 ELSE IF kind = "third" THEN 1 ELSE 0

\* In whichever order Stripe lists the tax ids, none of them is more specific
\* than the one reported, which is the customer's own, and one with a Hungarian
\* id is domestic; an original and its stornos name the same customer; and
\* nothing personal is reported of a private person.  Of two ids of one kind the
\* first is reported: only the kind is the same in every order (classifyCustomer,
\* buildCustomer, invoiceAsStorno).
CustomerByBestId ==
  /\ \A d \in Range(reported) :
       LET c == d.customer
       IN  /\ d.operation # "MODIFY" =>
                /\ \A id \in Range(invoice.taxIds) : Specificity(id.kind) <= Specificity(c.vat.kind)
                /\ c.vat \in Range(invoice.taxIds) \cup {NoVat}
                /\ c.status = "DOMESTIC" <=> c.vat.kind = "hungarian"
           /\ c.status = "PRIVATE_PERSON" => c.vat = NoVat /\ c.name = ""
  /\ \A d, e \in Range(reported) :
       d.operation # "MODIFY" /\ e.operation # "MODIFY" => d.customer = e.customer
=============================================================================
