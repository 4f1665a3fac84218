-------------------------- MODULE InvoiceMapProofs --------------------------
(***************************************************************************)
(* Theorems about InvoiceMap for all amounts, rates, dates and customers.  *)
(* Every step stores one document, mapped from a checked input (StepAdds); *)
(* what the operators make of such an input is in InvoiceMapLemmas.        *)
(***************************************************************************)
EXTENDS InvoiceMapLemmas
-----------------------------------------------------------------------------
(* What a step adds to the documents.                                      *)

Mapped == {MapInvoice(inv, opts) : inv \in StripeInvoices, opts \in Options}

IInv ==
  /\ invoice \in StripeInvoices
  /\ reported \in Seq(Mapped)

LEMMA DocumentRate ==
  ASSUME NEW d \in Mapped
  PROVE  d.rate \in [num : Nat, den : {RateScale}]
<1>1. PICK inv \in StripeInvoices, opts \in Options : d = MapInvoice(inv, opts)
  BY DEF Mapped
<1>2. opts.rate \in Rate
  BY DEF Options
<1> QED
  BY <1>1, <1>2, RenderedRate DEF MapInvoice

LEMMA ParentsStored ==
  ASSUME IInv, NEW parent \in Parents
  PROVE  /\ parent \in Nat
         /\ parent # 0 => /\ parent \in 1..Len(reported) /\ reported[parent] \in Mapped
                          /\ reported[parent].operation = "CREATE"
<1>1. /\ reported \in Seq(Mapped) /\ Len(reported) \in Nat
      /\ DOMAIN reported = 1..Len(reported)
      /\ \A i \in DOMAIN reported : reported[i] \in Mapped
  BY DEF IInv
<1> QED
  BY <1>1 DEF Parents, Stored

LEMMA StornoRateType ==
  ASSUME IInv, NEW inv \in StripeInvoices, NEW parent \in Parents, NEW now \in Times,
         inv.finalized = now
  PROVE  StornoRate(inv, parent, now) \in Rate
<1>1. IssueTime(inv, now) = now
  BY InvoiceMapAssumption DEF IssueTime
<1>2. ASSUME parent # 0 PROVE reported[parent].rate \in Rate
  BY <1>2, ParentsStored, DocumentRate, RenderedAgain
<1> QED
  BY <1>1, <1>2, RateForType DEF StornoRate

\* Where a document comes from, and at which rate.
Source(inv, opts) ==
  \/ /\ opts.operation = "CREATE"
     /\ Stored("CREATE") = {}
     /\ inv = Embedded(invoice)
     /\ opts.rate = RateFor(inv.currency, IssueDate(inv))
  \/ /\ opts.operation = "STORNO"
     /\ opts.parent \in Parents
     /\ \E now \in Times :
          /\ inv = AsStorno(Embedded(invoice), now)
          /\ opts.rate = StornoRate(inv, opts.parent, now)
     /\ opts.originalLineCount = Len(inv.lines)
  \/ /\ opts.operation = "MODIFY"
     /\ opts.rate = RateFor(inv.currency, IssueDate(inv))
     /\ \A k \in DOMAIN inv.lines : \E m \in DOMAIN invoice.lines :
          inv.lines[k] = Negated(invoice.lines[m])

\* Every step stores one document, mapped from a checked input.
Adds(inv, opts) ==
  /\ Mappable(inv, opts)
  /\ Source(inv, opts)
  /\ reported' = Append(reported, MapInvoice(inv, opts))
  /\ invoice' = invoice

LEMMA FinalizedAdds ==
  ASSUME IInv, Finalized
  PROVE  \E inv \in StripeInvoices, opts \in Options : Adds(inv, opts)
<1> DEFINE inv == Embedded(invoice)
            opts(now) == [operation |-> "CREATE", original |-> NoNumber, parent |-> 0, index |-> 0,
                          originalLineCount |-> 0, rate |-> RateFor(inv.currency, IssueTime(inv, now))]
<1>1. PICK now \in Times : Persist(inv, opts(now))
  BY DEF Finalized
<1>2. inv \in StripeInvoices
  BY EmbeddedType DEF IInv
<1> HIDE DEF inv
<1>3. IssueDate(inv) > 0 /\ Mappable(inv, opts(now))
  BY <1>1 DEF Persist, Mappable
<1>4. IssueTime(inv, now) = IssueDate(inv) /\ IssueDate(inv) \in Times
  BY <1>2, <1>3, IssueDates
<1>5. opts(now) \in Options
  BY <1>4, RateForType DEF Options
<1>6. Source(inv, opts(now))
  BY <1>4 DEF Source, Finalized, inv
<1>7. Adds(inv, opts(now))
  BY <1>1, <1>3, <1>6 DEF Persist, Adds
<1> QED
  BY <1>2, <1>5, <1>7

LEMMA ReversedAdds ==
  ASSUME IInv, Reversed
  PROVE  \E inv \in StripeInvoices, opts \in Options : Adds(inv, opts)
<1> DEFINE emb == Embedded(invoice)
            inv(now) == AsStorno(emb, now)
            opts(now, parent) ==
              [operation |-> "STORNO", original |-> emb.number, parent |-> parent, index |-> 0,
               originalLineCount |-> Len(emb.lines), rate |-> StornoRate(inv(now), parent, now)]
<1>1. PICK now \in Times, parent \in Parents : Persist(inv(now), opts(now, parent))
  BY DEF Reversed
<1>2. emb \in StripeInvoices
  BY EmbeddedType DEF IInv
<1>3. inv(now) \in StripeInvoices
  BY <1>2, AsStornoType
<1>4. emb.lines \in Seq(LineItems) /\ emb.number \in Numbers
  BY <1>2 DEF StripeInvoices
<1>5. Len(inv(now).lines) = Len(emb.lines) /\ inv(now).finalized = now
  BY <1>2, <1>4, NegatedLines DEF AsStorno, StripeInvoices
<1>6. StornoRate(inv(now), parent, now) \in Rate /\ parent \in Nat
  BY <1>3, <1>5, StornoRateType, ParentsStored
<1>7. opts(now, parent) \in Options
  BY <1>4, <1>6 DEF Options
<1>8. Source(inv(now), opts(now, parent))
  BY <1>5 DEF Source
<1>9. Adds(inv(now), opts(now, parent))
  BY <1>1, <1>8 DEF Persist, Adds
<1> QED
  BY <1>3, <1>7, <1>9

LEMMA CreditedAdds ==
  ASSUME IInv, Credited
  PROVE  \E inv \in StripeInvoices, opts \in Options : Adds(inv, opts)
<1> DEFINE note(c, e, i) ==
              [number |-> [invoice.number EXCEPT !.suffix = "CN"], currency |-> invoice.currency,
               created |-> c, effective |-> e, hasMore |-> FALSE, name |-> invoice.name,
               lines |-> IF i = 0 THEN invoice.lines ELSE <<invoice.lines[i]>>]
            cn(c, e, i) == Embedded(note(c, e, i))
            inv(c, e, i) == CreditNoteAsInvoice(cn(c, e, i))
            opts(c, e, i) ==
              [operation |-> "MODIFY", original |-> invoice.number, parent |-> 0, index |-> 1,
               originalLineCount |-> 0,
               rate |-> RateFor(cn(c, e, i).currency, IF e > 0 THEN e ELSE c)]
<1>1. PICK c \in Times, e \in Times \cup {0}, i \in 0..Len(invoice.lines) :
        Persist(inv(c, e, i), opts(c, e, i))
  BY DEF Credited
<1>2. /\ invoice.lines \in Seq(LineItems) /\ invoice.number \in Numbers
      /\ invoice.currency \in STRING /\ invoice.name \in {"", "person", "company"}
  BY DEF IInv, StripeInvoices
<1>3. /\ note(c, e, i).lines \in Seq(LineItems)
      /\ \A k \in DOMAIN note(c, e, i).lines : \E m \in DOMAIN invoice.lines :
           note(c, e, i).lines[k] = invoice.lines[m]
  <2> DEFINE ls == invoice.lines
              chosen == note(c, e, i).lines
  <2>1. chosen = IF i = 0 THEN ls ELSE <<ls[i]>>
    OBVIOUS
  <2>2. ls \in Seq(LineItems) /\ i \in 0..Len(ls)
    BY <1>2
  <2> HIDE DEF ls, chosen
  <2>3. /\ chosen \in Seq(LineItems)
        /\ \A k \in DOMAIN chosen : \E m \in DOMAIN ls : chosen[k] = ls[m]
    BY <2>1, <2>2, ChosenLines
  <2> QED
    BY <2>3 DEF ls, chosen
<1> DEFINE n == Min({PageSize, Len(note(c, e, i).lines)})
            page == SubSeq(note(c, e, i).lines, 1, n)
            more == Len(note(c, e, i).lines) > PageSize
<1>4. /\ page \in Seq(LineItems) /\ more \in BOOLEAN
      /\ \A k \in DOMAIN page : \E m \in DOMAIN invoice.lines : page[k] = invoice.lines[m]
  <2> DEFINE ls == note(c, e, i).lines
  <2> HIDE DEF note
  <2>1. Len(ls) \in Nat /\ PageSize \in Nat
    BY <1>3, InvoiceMapAssumption
  <2>2. n \in Nat /\ n <= Len(ls)
    BY <2>1, MinOfTwo
  <2> HIDE DEF n
  <2>3. page \in Seq(LineItems) /\ more \in BOOLEAN
    BY <1>3, <2>1, <2>2
  <2>4. \A k \in DOMAIN page : k \in DOMAIN ls /\ page[k] = ls[k]
    BY <1>3, <2>1, <2>2
  <2> QED
    BY <1>3, <2>3, <2>4
<1>5. cn(c, e, i) = [note(c, e, i) EXCEPT !.lines = page, !.hasMore = more]
  BY DEF Embedded
<1> HIDE DEF n, page, more
<1>6. /\ inv(c, e, i) =
           [number |-> [invoice.number EXCEPT !.suffix = "CN"], currency |-> invoice.currency,
            created |-> c, finalized |-> e, effective |-> 0, hasMore |-> more,
            lines |-> [k \in DOMAIN page |-> Negated(page[k])],
            taxIds |-> <<>>, name |-> invoice.name]
      /\ cn(c, e, i).currency = invoice.currency
  BY <1>5 DEF CreditNoteAsInvoice
<1>7. /\ [invoice.number EXCEPT !.suffix = "CN"] \in Numbers
      /\ <<>> \in Seq(TaxIds)
  <2>1. [invoice.number EXCEPT !.suffix = "CN"] \in Numbers
    BY <1>2 DEF Numbers
  <2>2. <<>> \in Seq(TaxIds)
    OBVIOUS
  <2> QED
    BY <2>1, <2>2
<1>8. [k \in DOMAIN page |-> Negated(page[k])] \in Seq(LineItems)
  BY <1>4, NegatedLines
<1>9. inv(c, e, i) \in StripeInvoices
  <2> DEFINE num == [invoice.number EXCEPT !.suffix = "CN"]
              ls == [k \in DOMAIN page |-> Negated(page[k])]
              ids == <<>>
  <2>1. /\ num \in Numbers /\ ls \in Seq(LineItems) /\ more \in BOOLEAN
        /\ ids \in Seq(TaxIds)
        /\ c \in Times \cup {0} /\ e \in Times \cup {0} /\ 0 \in Times \cup {0}
    BY <1>4, <1>7, <1>8
  <2>2. inv(c, e, i) =
          [number |-> num, currency |-> invoice.currency, created |-> c, finalized |-> e,
           effective |-> 0, hasMore |-> more, lines |-> ls, taxIds |-> ids,
           name |-> invoice.name]
    BY <1>6
  <2> HIDE DEF inv, num, ls, ids
  <2>3. [number |-> num, currency |-> invoice.currency, created |-> c, finalized |-> e,
         effective |-> 0, hasMore |-> more, lines |-> ls, taxIds |-> ids,
         name |-> invoice.name] \in StripeInvoices
    BY <1>2, <2>1, CreditNoteType
  <2> QED
    BY <2>2, <2>3
<1>10. IssueDate(inv(c, e, i)) = (IF e > 0 THEN e ELSE c) /\ (IF e > 0 THEN e ELSE c) \in Times
  <2>1. c \in Nat /\ e \in Nat
    BY InvoiceMapAssumption
  <2> QED
    BY <1>6, <2>1 DEF IssueDate
<1>11. opts(c, e, i) \in Options
  BY <1>2, <1>6, <1>10, RateForType DEF Options
<1>12. Source(inv(c, e, i), opts(c, e, i))
  <2>1. \A k \in DOMAIN inv(c, e, i).lines : \E m \in DOMAIN invoice.lines :
          inv(c, e, i).lines[k] = Negated(invoice.lines[m])
    <3>1. inv(c, e, i).lines = [k \in DOMAIN page |-> Negated(page[k])]
      BY <1>6
    <3> HIDE DEF inv
    <3> QED
      BY <1>4, <3>1
  <2>2. /\ opts(c, e, i).operation = "MODIFY"
        /\ opts(c, e, i).rate = RateFor(inv(c, e, i).currency, IssueDate(inv(c, e, i)))
    BY <1>6, <1>10
  <2> HIDE DEF inv, opts
  <2> QED
    BY <2>1, <2>2 DEF Source
<1>13. Adds(inv(c, e, i), opts(c, e, i))
  BY <1>1, <1>12 DEF Persist, Adds
<1> QED
  BY <1>9, <1>11, <1>13

LEMMA StepAdds ==
  ASSUME IInv, Next
  PROVE  \E inv \in StripeInvoices, opts \in Options : Adds(inv, opts)
BY FinalizedAdds, ReversedAdds, CreditedAdds DEF Next

LEMMA Inductive == Spec => []IInv
<1>1. Init => IInv
  BY InvoiceMapAssumption DEF Init, IInv
<1>2. IInv /\ [Next]_vars => IInv'
  <2> SUFFICES ASSUME IInv, [Next]_vars PROVE IInv'
    OBVIOUS
  <2>1. CASE Next
    <3>1. PICK inv \in StripeInvoices, opts \in Options : Adds(inv, opts)
      BY <2>1, StepAdds
    <3>2. MapInvoice(inv, opts) \in Mapped
      BY DEF Mapped
    <3> QED
      BY <3>1, <3>2 DEF IInv, Adds
  <2>2. CASE UNCHANGED vars
    BY <2>2 DEF IInv, vars
  <2> QED
    BY <2>1, <2>2
<1> QED
  BY <1>1, <1>2, PTL DEF Spec

LEMMA RangeOfAppend ==
  ASSUME NEW S, NEW s \in Seq(S), NEW e \in S, NEW d \in Range(Append(s, e))
  PROVE  d \in Range(s) \/ d = e
<1>1. PICK i \in DOMAIN Append(s, e) : d = Append(s, e)[i]
  BY DEF Range
<1>2. i \in 1..Len(s) + 1
  BY <1>1
<1>3. CASE i = Len(s) + 1
  BY <1>1, <1>3
<1>4. CASE i \in 1..Len(s)
  BY <1>1, <1>4 DEF Range
<1> QED
  BY <1>2, <1>3, <1>4

LEMMA DocumentAdded ==
  ASSUME IInv, NEW inv \in StripeInvoices, NEW opts \in Options, Adds(inv, opts)
  PROVE  LET n == Len(reported)
             d == MapInvoice(inv, opts)
         IN  /\ n \in Nat /\ DOMAIN reported = 1..n /\ DOMAIN reported' = 1..n + 1
             /\ reported'[n + 1] = d /\ d.operation = opts.operation
             /\ \A i \in 1..n : reported'[i] = reported[i]
<1> DEFINE d == MapInvoice(inv, opts)
<1>1. reported \in Seq(Mapped) /\ d \in Mapped /\ reported' = Append(reported, d)
  BY DEF IInv, Mapped, Adds
<1>2. d.operation = opts.operation
  BY DEF MapInvoice
<1> HIDE DEF d
<1> QED
  BY <1>1, <1>2 DEF d
-----------------------------------------------------------------------------
(* The types and the sums of every document.                               *)

\* Whatever Stripe finalizes, every document has the fields and the types that
\* NAV's schema asks for (MapInvoice, validateOptions).
THEOREM TypeCorrect == Spec => []TypeOK
<1>1. Init => TypeOK
  BY DEF Init, TypeOK, Range
<1>2. IInv /\ TypeOK /\ [Next]_vars => TypeOK'
  <2> SUFFICES ASSUME IInv, TypeOK, [Next]_vars PROVE TypeOK'
    OBVIOUS
  <2>1. CASE Next
    <3>1. PICK inv \in StripeInvoices, opts \in Options : Adds(inv, opts)
      BY <2>1, StepAdds
    <3> DEFINE d == MapInvoice(inv, opts)
    <3>2. /\ d \in Documents
          /\ d.operation # "CREATE" => d.original # NoNumber /\ d.index >= 1
          /\ reported' = Append(reported, d) /\ invoice' = invoice
      BY <3>1, DocumentType DEF Adds
    <3> HIDE DEF d
    <3>3. invoice' \in Invoices /\ reported \in Seq(Documents) /\ reported' \in Seq(Documents)
      BY <3>2 DEF TypeOK
    <3>4. ASSUME NEW e \in Range(reported')
          PROVE  e.operation # "CREATE" => e.original # NoNumber /\ e.index >= 1
      <4>1. e \in Range(reported) \/ e = d
        BY <3>2, <3>3, RangeOfAppend
      <4> QED
        BY <3>2, <4>1 DEF TypeOK
    <3> QED
      BY <3>3, <3>4 DEF TypeOK
  <2>2. CASE UNCHANGED vars
    BY <2>2 DEF TypeOK, vars
  <2> QED
    BY <2>1, <2>2
<1> QED
  BY <1>1, <1>2, Inductive, PTL DEF Spec

\* However many lines of whatever amounts and rates an invoice has, and at
\* whatever exchange rate, the lines and the summary rows of each of its
\* documents add up to the document's total (reconciled, buildSummary).
THEOREM DocumentsAddUp == Spec => []SumsHold
<1>1. Init => SumsHold
  <2>1. Range(<<>>) = {}
    BY DEF Range
  <2> QED
    BY <2>1 DEF Init, SumsHold
<1>2. IInv /\ SumsHold /\ [Next]_vars => SumsHold'
  <2> SUFFICES ASSUME IInv, SumsHold, [Next]_vars PROVE SumsHold'
    OBVIOUS
  <2>1. CASE Next
    <3>1. PICK inv \in StripeInvoices, opts \in Options : Adds(inv, opts)
      BY <2>1, StepAdds
    <3> DEFINE d == MapInvoice(inv, opts)
    <3>2. AddsUp(d)
      BY DocumentAddsUp
    <3>3. reported \in Seq(Mapped) /\ d \in Mapped /\ reported' = Append(reported, d)
      BY <3>1 DEF IInv, Mapped, Adds
    <3> HIDE DEF d
    <3> SUFFICES ASSUME NEW e \in Range(reported') PROVE AddsUp(e)
      BY DEF SumsHold
    <3>4. e \in Range(reported) \/ e = d
      BY <3>3, RangeOfAppend
    <3> QED
      BY <3>2, <3>4 DEF SumsHold
  <2>2. CASE UNCHANGED vars
    BY <2>2 DEF SumsHold, vars
  <2> QED
    BY <2>1, <2>2
<1> QED
  BY <1>1, <1>2, Inductive, PTL DEF Spec
-----------------------------------------------------------------------------
(* The lines of every document.                                            *)

\* However many lines an invoice has and however few an event embeds, an
\* original and a storno report the net amount of all of them
\* (validateInvoice, invoiceAsStorno).
THEOREM WholeInvoiceReported == Spec => []NothingUnderreported
<1>1. Init => NothingUnderreported
  BY DEF Init, NothingUnderreported, Range
<1>2. IInv /\ NothingUnderreported /\ [Next]_vars => NothingUnderreported'
  <2> SUFFICES ASSUME IInv, NothingUnderreported, [Next]_vars PROVE NothingUnderreported'
    OBVIOUS
  <2> DEFINE whole == SumFunction([i \in DOMAIN invoice.lines |-> Net(invoice.lines[i])])
             D == DOMAIN invoice.lines
  <2>1. CASE Next
    <3>1. PICK inv \in StripeInvoices, opts \in Options : Adds(inv, opts)
      BY <2>1, StepAdds
    <3> DEFINE d == MapInvoice(inv, opts)
    <3>2. /\ reported \in Seq(Mapped) /\ d \in Mapped
          /\ reported' = Append(reported, d) /\ invoice' = invoice
      BY <3>1 DEF IInv, Mapped, Adds
    <3>3. whole = NetOf(invoice, D)
      <4> DEFINE f == LineNet(invoice)
      <4>1. whole = SumFunction(f) /\ DOMAIN f = D
        BY DEF LineNet
      <4> HIDE DEF f, D
      <4> QED
        BY <4>1, SumOverDomain DEF NetOf, f
    <3>4. d.total.fc.net = NetOf(inv, DOMAIN inv.lines) /\ d.operation = opts.operation
      <4>1. d.operation = opts.operation
        BY DEF MapInvoice
      <4> QED
        BY <4>1, MappedAmounts, AmountsAre
    <3>5. invoice \in StripeInvoices /\ ~inv.hasMore
      BY <3>1 DEF IInv, Adds, Mappable
    <3>6. d.operation = "CREATE" => d.total.fc.net = whole
      <4> SUFFICES ASSUME opts.operation = "CREATE" PROVE NetOf(inv, DOMAIN inv.lines) = NetOf(invoice, D)
        BY <3>3, <3>4
      <4>1. inv = Embedded(invoice)
        BY <3>1 DEF Adds, Source
      <4>2. inv.lines = invoice.lines
        BY <3>5, <4>1, EmbeddedLines
      <4> QED
        BY <4>2 DEF NetOf, LineNet
    <3>7. d.operation = "STORNO" => d.total.fc.net = -whole
      <4> SUFFICES ASSUME opts.operation = "STORNO" PROVE NetOf(inv, DOMAIN inv.lines) = -NetOf(invoice, D)
        BY <3>3, <3>4
      <4> DEFINE e == Embedded(invoice)
      <4>1. PICK now \in Times : inv = AsStorno(e, now)
        BY <3>1 DEF Adds, Source
      <4>2. e \in StripeInvoices
        BY <3>5, EmbeddedLines
      <4>3. /\ ~e.hasMore /\ DOMAIN inv.lines = DOMAIN e.lines
            /\ NetOf(inv, DOMAIN e.lines) = -NetOf(e, DOMAIN e.lines)
        BY <3>5, <4>1, <4>2, StornoLines
      <4>4. e.lines = invoice.lines
        BY <3>5, <4>3, EmbeddedLines
      <4>5. NetOf(e, DOMAIN e.lines) = NetOf(invoice, D)
        BY <4>4 DEF NetOf, LineNet
      <4> QED
        BY <4>3, <4>5
    <3> HIDE DEF d, whole
    <3>8. ASSUME NEW x \in Range(reported')
          PROVE  /\ x.operation = "CREATE" => x.total.fc.net = whole
                 /\ x.operation = "STORNO" => x.total.fc.net = -whole
      <4>1. x \in Range(reported) \/ x = d
        BY <3>2, RangeOfAppend
      <4> QED
        BY <3>6, <3>7, <4>1 DEF NothingUnderreported, whole
    <3> QED
      BY <3>2, <3>8 DEF NothingUnderreported, whole
  <2>2. CASE UNCHANGED vars
    BY <2>2 DEF NothingUnderreported, vars
  <2> QED
    BY <2>1, <2>2
<1> QED
  BY <1>1, <1>2, Inductive, PTL DEF Spec

\* The positions of originals and stornos, as they follow from the embedded lines.
Placed(d) ==
  LET n == Len(Embedded(invoice).lines)
  IN  /\ d.operation = "CREATE" => Len(d.lines) = n /\ Positions(d) = 1..n
      /\ d.operation = "STORNO" => Positions(d) = n+1 .. 2 * n

LEMMA DocumentPlaced ==
  ASSUME IInv, NEW inv \in StripeInvoices, NEW opts \in Options, Adds(inv, opts)
  PROVE  Placed(MapInvoice(inv, opts))
<1> DEFINE d == MapInvoice(inv, opts)
           n == Len(Embedded(invoice).lines)
<1>1. /\ d.operation = opts.operation /\ Len(d.lines) = Len(inv.lines)
      /\ DOMAIN d.lines = DOMAIN inv.lines
  BY MappedAmounts DEF MapInvoice
<1>2. /\ Len(inv.lines) \in Nat \ {0} /\ DOMAIN inv.lines = 1..Len(inv.lines)
      /\ \A k \in DOMAIN inv.lines :
           d.lines[k].number = k /\ d.lines[k].position = Position(k, Len(inv.lines), opts)
  <2>1. inv.lines \in Seq(LineItems) /\ inv.lines # <<>>
    BY DEF StripeInvoices, Adds, Mappable
  <2> QED
    BY <2>1 DEF MapInvoice, ReportedLine
<1> HIDE DEF d
<1>3. ASSUME opts.operation = "CREATE"
      PROVE  Len(d.lines) = n /\ Positions(d) = 1..n
  <2>1. Len(inv.lines) = n
    BY <1>3 DEF Adds, Source
  <2> HIDE DEF n
  <2> QED
    BY <1>1, <1>2, <1>3, <2>1 DEF Positions
<1>4. ASSUME opts.operation = "STORNO"
      PROVE  Positions(d) = n+1 .. 2 * n
  <2>1. PICK now \in Times : inv = AsStorno(Embedded(invoice), now)
    BY <1>4 DEF Adds, Source
  <2>2. Len(inv.lines) = n /\ opts.originalLineCount = n
    BY <1>4, <2>1, EmbeddedType, StornoLength DEF IInv, Adds, Source
  <2> HIDE DEF n
  <2>3. n \in Nat \ {0} /\ \A k \in 1..n : d.lines[k].position = n + k
    BY <1>2, <1>4, <2>2 DEF Position
  <2>4. Positions(d) = {n + k : k \in 1..n}
    <3>1. Positions(d) = {d.lines[k].position : k \in DOMAIN d.lines}
      BY <1>1, <1>4 DEF Positions
    <3>2. DOMAIN d.lines = 1..n
      BY <1>1, <1>2, <2>2
    <3> QED
      BY <2>3, <3>1, <3>2
  <2>5. \A p \in n+1 .. 2 * n : p - n \in 1..n /\ p = n + (p - n)
    BY <2>3
  <2> QED
    BY <2>3, <2>4, <2>5
<1> QED
  BY <1>1, <1>3, <1>4 DEF Placed, d

LEMMA AllPlaced == Spec => [](\A d \in Range(reported) : Placed(d))
<1> DEFINE I == \A d \in Range(reported) : Placed(d)
<1>1. Init => I
  BY DEF Init, Range
<1>2. IInv /\ I /\ [Next]_vars => I'
  <2> SUFFICES ASSUME IInv, I, [Next]_vars PROVE I'
    OBVIOUS
  <2>1. CASE Next
    <3>1. PICK inv \in StripeInvoices, opts \in Options : Adds(inv, opts)
      BY <2>1, StepAdds
    <3> DEFINE d == MapInvoice(inv, opts)
    <3>2. /\ reported \in Seq(Mapped) /\ d \in Mapped /\ Placed(d)
          /\ reported' = Append(reported, d) /\ invoice' = invoice
      BY <3>1, DocumentPlaced DEF IInv, Mapped, Adds
    <3> HIDE DEF d
    <3> SUFFICES ASSUME NEW e \in Range(reported') PROVE Placed(e)'
      OBVIOUS
    <3>3. e \in Range(reported) \/ e = d
      BY <3>2, RangeOfAppend
    <3> QED
      BY <3>2, <3>3 DEF Placed
  <2>2. CASE UNCHANGED vars
    BY <2>2 DEF Placed, vars
  <2> QED
    BY <2>1, <2>2
<1> QED
  BY <1>1, <1>2, Inductive, PTL DEF Spec

\* However many lines an invoice has and however many an event embeds, a storno
\* that no other modification precedes goes on where the original ends, whichever
\* of the two was stored first (buildLines, MapOptions).
THEOREM StornosNumberOn == Spec => []StornoFollowsOriginal
<1>1. IInv /\ (\A d \in Range(reported) : Placed(d)) => StornoFollowsOriginal
  <2> SUFFICES ASSUME IInv, \A d \in Range(reported) : Placed(d),
                      NEW i \in DOMAIN reported, NEW j \in DOMAIN reported,
                      reported[i].operation = "CREATE", reported[j].operation = "STORNO"
                PROVE  LET n == Len(reported[i].lines)
                       IN  Positions(reported[i]) = 1..n /\ Positions(reported[j]) = n+1 .. 2 * n
    BY DEF StornoFollowsOriginal
  <2>1. reported[i] \in Range(reported) /\ reported[j] \in Range(reported)
    BY DEF Range
  <2>2. Placed(reported[i]) /\ Placed(reported[j])
    BY <2>1
  <2> QED
    BY <2>2 DEF Placed
<1> QED
  BY <1>1, Inductive, AllPlaced, PTL

\* Every line of a document is a line of the invoice, or one negated.
LEMMA LineOrigins ==
  ASSUME IInv, NEW inv \in StripeInvoices, NEW opts \in Options, Adds(inv, opts),
         NEW k \in DOMAIN inv.lines
  PROVE  \E m \in DOMAIN invoice.lines :
           inv.lines[k] \in {invoice.lines[m], Negated(invoice.lines[m])}
<1>1. invoice \in StripeInvoices
  BY DEF IInv
<1>2. CASE inv = Embedded(invoice)
  BY <1>1, <1>2, EmbeddedLines
<1>3. CASE \E now \in Times : inv = AsStorno(Embedded(invoice), now)
  <2> DEFINE e == Embedded(invoice)
  <2>1. /\ e \in StripeInvoices
        /\ \A i \in DOMAIN e.lines : i \in DOMAIN invoice.lines /\ e.lines[i] = invoice.lines[i]
    BY <1>1, EmbeddedLines
  <2> HIDE DEF e
  <2>2. PICK now \in Times : inv = AsStorno(e, now)
    BY <1>3 DEF e
  <2>3. DOMAIN inv.lines = DOMAIN e.lines /\ \A i \in DOMAIN e.lines : inv.lines[i] = Negated(e.lines[i])
    BY <2>1, <2>2, StornoLines
  <2> QED
    BY <2>1, <2>3
<1>4. CASE \A i \in DOMAIN inv.lines : \E m \in DOMAIN invoice.lines :
             inv.lines[i] = Negated(invoice.lines[m])
  BY <1>4
<1> QED
  BY <1>2, <1>3, <1>4 DEF Adds, Source

\* The percentage a line shows, of an invoice taxed by the law.
LEMMA LawfulShare ==
  ASSUME StripeTaxes, IInv, TypeOK, NEW inv \in StripeInvoices, NEW opts \in Options,
         Adds(inv, opts), NEW k \in DOMAIN inv.lines
  PROVE  /\ Share(inv, k) \in Percentages /\ Share(inv, k).minus = FALSE
         /\ Abs(Net(inv.lines[k])) >= 128 => Share(inv, k).hundredths \in LegalRates
<1> DEFINE l == inv.lines[k]
<1>1. PICK m \in DOMAIN invoice.lines : l \in {invoice.lines[m], Negated(invoice.lines[m])}
  BY LineOrigins
<1> DEFINE o == invoice.lines[m]
<1>2. o \in LineItems /\ TaxedByLaw(o) /\ LegalRates \subseteq 0..27
  BY InvoiceLines DEF IInv, TypeOK, StripeTaxes
<1>3. l \in LineItems /\ VatPercentage(l) \in Percentages
  BY InvoiceLines, LineAmounts
<1> HIDE DEF l, o
<1>4. Abs(Net(l)) = Abs(Net(o)) /\ VatPercentage(l) = VatPercentage(o)
  <2>1. Net(o) \in Int
    BY <1>2, LineAmounts
  <2>2. l = o \/ l = Negated(o)
    BY <1>1 DEF l, o
  <2> QED
    BY <1>2, <2>1, <2>2, NegatedAmounts DEF Abs
<1>5. VatPercentage(l).minus = FALSE
  BY <1>2, <1>3, <1>4, NoMinus DEF Percentages
<1>6. Abs(Net(l)) >= 128 => VatPercentage(l).hundredths \in LegalRates
  <2>1. VatPercentage(o).hundredths = Percentage(o)
    BY DEF VatPercentage
  <2> QED
    BY <1>2, <1>4, <2>1, LawfulLine
<1> QED
  BY <1>3, <1>5, <1>6 DEF Share, l

Lawful(d) ==
  /\ \A k \in DOMAIN d.lines :
       Abs(d.lines[k].amounts.fc.net) >= 128 => d.lines[k].rate.hundredths \in LegalRates
  /\ \A r, q \in d.summary : r.rate.hundredths = q.rate.hundredths => r = q

LEMMA LawfulDocument ==
  ASSUME StripeTaxes, IInv, TypeOK, NEW inv \in StripeInvoices, NEW opts \in Options, Adds(inv, opts)
  PROVE  Lawful(MapInvoice(inv, opts))
<1> DEFINE d == MapInvoice(inv, opts)
<1>1. opts.rate \in Rate /\ d.summary = Summary(inv, opts.rate)
  BY MappedAmounts
<1>2. ASSUME NEW k \in DOMAIN d.lines, Abs(d.lines[k].amounts.fc.net) >= 128
      PROVE  d.lines[k].rate.hundredths \in LegalRates
  <2>1. /\ k \in DOMAIN inv.lines /\ d.lines[k].rate = Share(inv, k)
        /\ d.lines[k].amounts = Amounts(LineNet(inv)[k], LineVat(inv)[k], inv.currency, opts.rate)
    BY MappedAmounts
  <2>2. /\ Net(inv.lines[k]) \in Int /\ Vat(inv.lines[k]) \in Int
        /\ LineNet(inv)[k] = Net(inv.lines[k]) /\ LineVat(inv)[k] = Vat(inv.lines[k])
    BY <2>1, InvoiceLines, LineAmounts DEF LineNet, LineVat
  <2>3. d.lines[k].amounts.fc.net = Net(inv.lines[k])
    BY <1>1, <2>1, <2>2, AmountsAre
  <2> HIDE DEF d
  <2> QED
    BY <1>2, <2>1, <2>3, LawfulShare
<1>3. ASSUME NEW r \in d.summary, NEW q \in d.summary, r.rate.hundredths = q.rate.hundredths
      PROVE  r = q
  <2>1. PICK i \in DOMAIN inv.lines : r = Row(inv, Share(inv, i), opts.rate)
    BY <1>1, SummaryRows
  <2>2. PICK j \in DOMAIN inv.lines : q = Row(inv, Share(inv, j), opts.rate)
    BY <1>1, SummaryRows
  <2>3. r.rate = Share(inv, i) /\ q.rate = Share(inv, j)
    BY <2>1, <2>2 DEF Row
  <2>4. /\ Share(inv, i) \in Percentages /\ Share(inv, i).minus = FALSE
        /\ Share(inv, j) \in Percentages /\ Share(inv, j).minus = FALSE
    BY LawfulShare
  <2>5. Share(inv, i) = Share(inv, j)
    BY <1>3, <2>3, <2>4 DEF Percentages
  <2> QED
    BY <2>1, <2>2, <2>5
<1> HIDE DEF d
<1>4. Lawful(d)
  BY <1>2, <1>3 DEF Lawful
<1> QED
  BY <1>4 DEF d

\* If Stripe taxes lines by the law, to a minor unit, then every line of a net
\* amount of 128 minor units or more is reported at a rate of the law, and the
\* lines that show one percentage, of whatever amounts, share a summary row: in
\* an original, a storno and a credit note alike (buildLines).
THEOREM RatesOfTheLaw ==
  ASSUME StripeTaxes
  PROVE  Spec => []LegalRateShown
<1> DEFINE I == \A d \in Range(reported) : Lawful(d)
<1>1. Init => I
  BY DEF Init, Range
<1>2. IInv /\ TypeOK /\ I /\ [Next]_vars => I'
  <2> SUFFICES ASSUME IInv, TypeOK, I, [Next]_vars PROVE I'
    OBVIOUS
  <2>1. CASE Next
    <3>1. PICK inv \in StripeInvoices, opts \in Options : Adds(inv, opts)
      BY <2>1, StepAdds
    <3> DEFINE d == MapInvoice(inv, opts)
    <3>2. /\ reported \in Seq(Mapped) /\ d \in Mapped /\ Lawful(d)
          /\ reported' = Append(reported, d)
      BY <3>1, LawfulDocument DEF IInv, Mapped, Adds
    <3> HIDE DEF d
    <3> SUFFICES ASSUME NEW e \in Range(reported') PROVE Lawful(e)
      BY DEF Lawful
    <3>3. e \in Range(reported) \/ e = d
      BY <3>2, RangeOfAppend
    <3> QED
      BY <3>2, <3>3
  <2>2. CASE UNCHANGED vars
    BY <2>2 DEF Lawful, vars
  <2> QED
    BY <2>1, <2>2
<1>3. I => LegalRateShown
  BY DEF LegalRateShown, Lawful
<1> QED
  BY <1>1, <1>2, <1>3, Inductive, TypeCorrect, PTL DEF Spec
-----------------------------------------------------------------------------
(* The rate and the customer of every document.                            *)

\* The rate a step reports a document at.
LEMMA AddedRate ==
  ASSUME IInv, NEW inv \in StripeInvoices, NEW opts \in Options, Adds(inv, opts),
         inv.currency # "HUF"
  PROVE  LET d == MapInvoice(inv, opts)
         IN  \/ \E t \in Times : d.issued = LocalDate(t) /\ d.rate = Rendered(Quote[t])
             \/ /\ d.operation = "STORNO" /\ d.parent \in 1..Len(reported)
                /\ reported[d.parent].rate = d.rate
<1> DEFINE d == MapInvoice(inv, opts)
<1>1. /\ d.rate = Rendered(opts.rate) /\ d.issued = LocalDate(IssueDate(inv))
      /\ d.operation = opts.operation /\ d.parent = opts.parent
  BY DEF MapInvoice
<1>2. IssueDate(inv) > 0 /\ IssueDate(inv) \in Times
  BY IssueDates DEF Adds, Mappable
<1>3. RateFor(inv.currency, IssueDate(inv)) = Quote[IssueDate(inv)]
  BY DEF RateFor
<1> HIDE DEF d
<1>4. CASE opts.rate = RateFor(inv.currency, IssueDate(inv))
  BY <1>1, <1>2, <1>3, <1>4 DEF d
<1>5. CASE /\ opts.operation = "STORNO" /\ opts.parent \in Parents
           /\ \E now \in Times : opts.rate = StornoRate(inv, opts.parent, now)
  <2>1. PICK now \in Times : opts.rate = StornoRate(inv, opts.parent, now)
    BY <1>5
  <2>2. CASE opts.parent = 0
    <3>1. opts.rate = RateFor(inv.currency, IssueDate(inv))
      BY <1>2, <2>1, <2>2, IssueDates DEF StornoRate
    <3> QED
      BY <1>4, <3>1
  <2>3. CASE opts.parent # 0
    <3>1. opts.rate = reported[opts.parent].rate
      BY <2>1, <2>3 DEF StornoRate
    <3>2. opts.parent \in 1..Len(reported) /\ reported[opts.parent] \in Mapped
      BY <1>5, <2>3, ParentsStored
    <3>3. d.rate = reported[opts.parent].rate
      BY <1>1, <3>1, <3>2, DocumentRate, RenderedAgain
    <3> QED
      BY <1>1, <1>5, <3>2, <3>3 DEF d
  <2> QED
    BY <2>2, <2>3
<1> QED
  BY <1>4, <1>5 DEF Adds, Source

\* Whatever rates the provider quotes and whichever instants Stripe has set, a
\* document in foreign currency is reported at the provider's rate for an instant
\* of the Hungarian day it shows, or at its parent's (rateFor, processInvoice,
\* localDate).
THEOREM RatesOfIssueDates == Spec => []RateOfIssueDate
<1>1. Init => RateOfIssueDate
  BY DEF Init, RateOfIssueDate
<1>2. IInv /\ RateOfIssueDate /\ [Next]_vars => RateOfIssueDate'
  <2> SUFFICES ASSUME IInv, RateOfIssueDate, [Next]_vars
                PROVE  RateOfIssueDate'
    OBVIOUS
  <2>1. CASE Next
    <3>1. PICK inv \in StripeInvoices, opts \in Options : Adds(inv, opts)
      BY <2>1, StepAdds
    <3> DEFINE d == MapInvoice(inv, opts)
                n == Len(reported)
                OfItsDay(x) == \E t \in Times : x.issued = LocalDate(t) /\ x.rate = Rendered(Quote[t])
    <3>2. reported \in Seq(Mapped) /\ d \in Mapped /\ reported' = Append(reported, d)
      BY <3>1 DEF IInv, Mapped, Adds
    <3>3. d.currency = inv.currency
      BY DEF MapInvoice
    <3>4. d.currency # "HUF" =>
            OfItsDay(d) \/ (d.operation = "STORNO" /\ d.parent \in 1..n /\ reported[d.parent].rate = d.rate)
      BY <3>1, <3>3, AddedRate
    <3> HIDE DEF d
    <3>5. /\ n \in Nat /\ DOMAIN reported = 1..n /\ DOMAIN reported' = 1..n + 1
          /\ reported'[n + 1] = d
          /\ \A j \in 1..n : reported'[j] = reported[j]
      BY <3>2
    <3>6. \A j \in 1..n : reported[j].currency # "HUF" =>
            \/ OfItsDay(reported[j])
            \/ /\ reported[j].operation = "STORNO" /\ reported[j].parent \in 1..j-1
               /\ reported[reported[j].parent].rate = reported[j].rate
      BY <3>5 DEF RateOfIssueDate
    <3> HIDE DEF n, OfItsDay
    <3>7. ASSUME NEW i \in 1..n + 1, reported'[i].currency # "HUF"
          PROVE  \/ OfItsDay(reported'[i])
                 \/ /\ reported'[i].operation = "STORNO" /\ reported'[i].parent \in 1..i-1
                    /\ reported'[reported'[i].parent].rate = reported'[i].rate
      <4>1. CASE i = n + 1
        BY <3>4, <3>5, <3>7, <4>1
      <4>2. CASE i \in 1..n
        <5>1. \A j \in 1..i-1 : j \in 1..n
          BY <3>5, <4>2
        <5> QED
          BY <3>5, <3>6, <3>7, <4>2, <5>1
      <4> QED
        BY <3>5, <4>1, <4>2
    <3> QED
      BY <3>5, <3>7 DEF RateOfIssueDate, OfItsDay
  <2>2. CASE UNCHANGED vars
    BY <2>2 DEF RateOfIssueDate, vars
  <2> QED
    BY <2>1, <2>2
<1> QED
  BY <1>1, <1>2, Inductive, PTL DEF Spec

\* An original and a storno show the invoice's customer, a credit note that of
\* some invoice.
Named(d) ==
  /\ d.operation # "MODIFY" => d.customer = Customer(invoice)
  /\ d.customer.status = "PRIVATE_PERSON" => d.customer.vat = NoVat /\ d.customer.name = ""

LEMMA DocumentNamed ==
  ASSUME IInv, NEW inv \in StripeInvoices, NEW opts \in Options, Adds(inv, opts)
  PROVE  Named(MapInvoice(inv, opts))
<1> DEFINE d == MapInvoice(inv, opts)
<1>1. d.customer = Customer(inv) /\ d.operation = opts.operation
  BY DEF MapInvoice
<1>2. Customer(inv).status = "PRIVATE_PERSON" =>
        Customer(inv).vat = NoVat /\ Customer(inv).name = ""
  BY CustomerOfBestId
<1>3. ASSUME opts.operation # "MODIFY"
      PROVE  Customer(inv) = Customer(invoice)
  <2>1. invoice \in StripeInvoices
    BY DEF IInv
  <2>2. Embedded(invoice).taxIds = invoice.taxIds /\ Embedded(invoice).name = invoice.name
    BY <2>1 DEF Embedded, StripeInvoices
  <2>3. \A now \in Times : LET s == AsStorno(Embedded(invoice), now)
                          IN  /\ s.taxIds = Embedded(invoice).taxIds
                              /\ s.name = Embedded(invoice).name
    BY <2>1, EmbeddedType DEF AsStorno, StripeInvoices
  <2>4. inv.taxIds = invoice.taxIds /\ inv.name = invoice.name
    BY <1>3, <2>2, <2>3 DEF Adds, Source
  <2> QED
    BY <2>4, SameCustomer
<1> HIDE DEF d
<1>4. Named(d)
  BY <1>1, <1>2, <1>3 DEF Named
<1> QED
  BY <1>4 DEF d

\* However many tax ids of whichever kinds Stripe lists, in whichever order, none
\* is of a more specific kind than the one reported, which is one of them; an
\* original and its stornos name the same customer; a private person is reported
\* without a tax number or a name (classifyCustomer, buildCustomer).
THEOREM CustomersByBestId == Spec => []CustomerByBestId
<1> DEFINE I == \A d \in Range(reported) : Named(d)
<1>1. Init => I
  BY DEF Init, Range
<1>2. IInv /\ I /\ [Next]_vars => I'
  <2> SUFFICES ASSUME IInv, I, [Next]_vars PROVE I'
    OBVIOUS
  <2>1. CASE Next
    <3>1. PICK inv \in StripeInvoices, opts \in Options : Adds(inv, opts)
      BY <2>1, StepAdds
    <3> DEFINE d == MapInvoice(inv, opts)
    <3>2. /\ reported \in Seq(Mapped) /\ d \in Mapped /\ Named(d)
          /\ reported' = Append(reported, d) /\ invoice' = invoice
      BY <3>1, DocumentNamed DEF IInv, Mapped, Adds
    <3> HIDE DEF d
    <3> SUFFICES ASSUME NEW e \in Range(reported') PROVE Named(e)'
      OBVIOUS
    <3>3. e \in Range(reported) \/ e = d
      BY <3>2, RangeOfAppend
    <3> QED
      BY <3>2, <3>3 DEF Named
  <2>2. CASE UNCHANGED vars
    BY <2>2 DEF Named, vars
  <2> QED
    BY <2>1, <2>2
<1>3. IInv /\ I => CustomerByBestId
  <2> SUFFICES ASSUME IInv, I PROVE CustomerByBestId
    OBVIOUS
  <2> DEFINE c == Customer(invoice)
  <2>1. /\ \A id \in Range(invoice.taxIds) : Specificity(id.kind) <= Specificity(c.vat.kind)
        /\ c.vat \in Range(invoice.taxIds) \cup {NoVat}
        /\ c.status = "DOMESTIC" <=> c.vat.kind = "hungarian"
    BY CustomerOfBestId DEF IInv
  <2> HIDE DEF c
  <2>2. \A d \in Range(reported) :
          /\ d.operation # "MODIFY" => d.customer = c
          /\ d.customer.status = "PRIVATE_PERSON" => d.customer.vat = NoVat /\ d.customer.name = ""
    BY DEF Named, c
  <2> QED
    BY <2>1, <2>2 DEF CustomerByBestId
<1> QED
  BY <1>1, <1>2, <1>3, Inductive, PTL DEF Spec
-----------------------------------------------------------------------------
(* A storno and its original.                                              *)

\* The rate an original is reported at.
OriginalRate == RateFor(invoice.currency, IssueDate(Embedded(invoice)))

\* There is one original, of the invoice as the event embedded it.
Originals ==
  /\ \A i, j \in Stored("CREATE") : i = j
  /\ Stored("CREATE") # {} => IssueDate(Embedded(invoice)) \in Times
  /\ \A i \in Stored("CREATE") :
       \E opts \in Options : /\ opts.rate = OriginalRate
                             /\ reported[i] = MapInvoice(Embedded(invoice), opts)

LEMMA KeepsOriginals ==
  ASSUME IInv, Originals, NEW inv \in StripeInvoices, NEW opts \in Options, Adds(inv, opts)
  PROVE  Originals'
<1> DEFINE n == Len(reported)
           d == MapInvoice(inv, opts)
<1>1. /\ n \in Nat /\ DOMAIN reported = 1..n /\ DOMAIN reported' = 1..n + 1
      /\ reported'[n + 1] = d /\ d.operation = opts.operation
      /\ \A i \in 1..n : reported'[i] = reported[i]
  BY DocumentAdded
<1>2. invoice' = invoice
  BY DEF Adds
<1>3. CASE opts.operation = "CREATE"
  <2>1. Stored("CREATE") = {} /\ inv = Embedded(invoice) /\ opts.rate = RateFor(inv.currency, IssueDate(inv))
    BY <1>3 DEF Adds, Source
  <2>2. Stored("CREATE")' = {n + 1}
    <3> HIDE DEF d, n
    <3> QED
      BY <1>1, <1>3, <2>1 DEF Stored
  <2>3. inv.currency = invoice.currency
    BY <2>1, EmbeddedLines DEF IInv
  <2>4. IssueDate(inv) \in Times
    BY IssueDates DEF Adds, Mappable
  <2> HIDE DEF n
  <2> QED
    BY <1>1, <1>2, <2>1, <2>2, <2>3, <2>4 DEF Originals, OriginalRate
<1>4. CASE opts.operation # "CREATE"
  <2> HIDE DEF d, n
  <2>1. Stored("CREATE")' = Stored("CREATE") /\ Stored("CREATE") \subseteq 1..n
    BY <1>1, <1>4 DEF Stored
  <2>2. \A i \in Stored("CREATE") : reported'[i] = reported[i]
    BY <1>1, <2>1
  <2> QED
    BY <1>2, <2>1, <2>2 DEF Originals, OriginalRate
<1> QED
  BY <1>3, <1>4

LEMMA OriginalsKept == Spec => []Originals
<1>1. Init => Originals
  BY DEF Init, Originals, Stored
<1>2. IInv /\ Originals /\ [Next]_vars => Originals'
  <2> SUFFICES ASSUME IInv, Originals, [Next]_vars PROVE Originals'
    OBVIOUS
  <2>1. CASE Next
    BY <2>1, StepAdds, KeepsOriginals
  <2>2. CASE UNCHANGED vars
    BY <2>2 DEF Originals, OriginalRate, Stored, vars
  <2> QED
    BY <2>1, <2>2
<1> QED
  BY <1>1, <1>2, Inductive, PTL DEF Spec

\* If the provider's quotes have no more decimals than a rate is reported with,
\* then a storno that found its original cancels it to the last forint, however
\* many lines the invoice has and whatever the rates are; one whose lookup failed
\* cancels it in the invoice's currency (processInvoice, invoiceAsStorno).
THEOREM StornosCancel ==
  ASSUME ExactQuotes
  PROVE  Spec => []StornoCancels
<1>1. Init => StornoCancels
  BY DEF Init, StornoCancels
<1>2. IInv /\ Originals /\ StornoCancels /\ [Next]_vars => StornoCancels'
  <2> SUFFICES ASSUME IInv, Originals, StornoCancels, [Next]_vars PROVE StornoCancels'
    OBVIOUS
  <2>1. CASE Next
    <3>1. PICK inv \in StripeInvoices, opts \in Options : Adds(inv, opts)
      BY <2>1, StepAdds
    <3> DEFINE n == Len(reported)
               d == MapInvoice(inv, opts)
               e == Embedded(invoice)
    <3>2. /\ n \in Nat /\ DOMAIN reported = 1..n /\ DOMAIN reported' = 1..n + 1
          /\ reported'[n + 1] = d /\ d.operation = opts.operation
          /\ \A i \in 1..n : reported'[i] = reported[i]
      BY <3>1, DocumentAdded
    <3>3. ASSUME NEW i \in 1..n, reported[i].operation = "CREATE", opts.operation = "STORNO"
          PROVE  Cancels(d, reported[i],
                         IF d.parent = i \/ d.currency = "HUF" THEN {"fc", "huf"} ELSE {"fc"})
      <4>1. i \in Stored("CREATE")
        BY <3>2, <3>3 DEF Stored
      <4>2. PICK o \in Options : o.rate = OriginalRate /\ reported[i] = MapInvoice(e, o)
        BY <4>1 DEF Originals
      <4>3. e \in StripeInvoices /\ e.currency = invoice.currency
        BY EmbeddedLines DEF IInv
      <4>4. PICK now \in Times : inv = AsStorno(e, now) /\ opts.rate = StornoRate(inv, opts.parent, now)
        BY <3>1, <3>3 DEF Adds, Source
      <4> DEFINE currencies == IF d.parent = i \/ d.currency = "HUF" THEN {"fc", "huf"} ELSE {"fc"}
      <4>5. inv.currency = invoice.currency
        BY <4>3, <4>4, StornoLines
      <4>6. OriginalRate \in Rate /\ SameRate(OriginalRate, Rendered(OriginalRate))
        <5>1. IssueDate(e) \in Times
          BY <4>1 DEF Originals
        <5> QED
          BY <5>1, ExactRates DEF OriginalRate
      <4>7. d.parent = opts.parent /\ d.currency = inv.currency
        BY DEF MapInvoice
      <4>8. ASSUME d.parent = i \/ d.currency = "HUF"
            PROVE  SameRate(o.rate, opts.rate)
        <5>1. CASE invoice.currency = "HUF"
          <6>1. opts.rate = One /\ OriginalRate = One
            BY <4>4, <4>5, <5>1 DEF StornoRate, RateFor, OriginalRate
          <6> QED
            BY <4>2, <6>1 DEF SameRate
        <5>2. CASE invoice.currency # "HUF"
          <6>1. opts.parent = i /\ i # 0
            BY <3>2, <4>5, <4>7, <4>8, <5>2
          <6>2. opts.rate = reported[i].rate
            BY <4>4, <4>5, <5>2, <6>1 DEF StornoRate
          <6>3. reported[i].rate = Rendered(OriginalRate)
            BY <4>2 DEF MapInvoice
          <6> QED
            BY <4>2, <4>6, <6>2, <6>3
        <5> QED
          BY <5>1, <5>2
      <4>9. currencies = {"fc"} \/ (currencies = {"fc", "huf"} /\ SameRate(o.rate, opts.rate))
        BY <4>8
      <4> HIDE DEF e, currencies
      <4>10. Cancels(d, reported[i], currencies)
        BY <4>2, <4>3, <4>4, <4>9, StornoOfDocument
      <4> QED
        BY <4>10 DEF currencies
    <3> HIDE DEF d, n
    <3>4. ASSUME NEW i \in 1..n + 1, NEW j \in 1..n + 1, i < j,
                 reported'[i].operation = "CREATE", reported'[j].operation = "STORNO"
          PROVE  Cancels(reported'[j], reported'[i],
                         IF reported'[j].parent = i \/ reported'[j].currency = "HUF"
                         THEN {"fc", "huf"} ELSE {"fc"})
      <4>1. i \in 1..n
        BY <3>2, <3>4
      <4>2. CASE j = n + 1
        BY <3>2, <3>3, <3>4, <4>1, <4>2
      <4>3. CASE j \in 1..n
        BY <3>2, <3>4, <4>1, <4>3 DEF StornoCancels
      <4> QED
        BY <3>2, <4>2, <4>3
    <3> QED
      BY <3>2, <3>4 DEF StornoCancels
  <2>2. CASE UNCHANGED vars
    BY <2>2 DEF StornoCancels, vars
  <2> QED
    BY <2>1, <2>2
<1> QED
  BY <1>1, <1>2, Inductive, OriginalsKept, PTL DEF Spec
=============================================================================
