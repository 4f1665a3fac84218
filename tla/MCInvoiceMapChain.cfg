SPECIFICATION Spec
CONSTANTS
  Invoices <- MCInvoices
  PageSize = 2
  Times = {36, 47}
  Quote <- MCQuote
  RateScale = 100
  ZeroDecimal = {"JPY"}
  LegalRates = {0, 5, 18, 27}
  MaxDocuments = 3
INVARIANT StornosTakeFreePositions
CHECK_DEADLOCK FALSE
