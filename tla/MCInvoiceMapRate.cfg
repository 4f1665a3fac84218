SPECIFICATION Spec
CONSTANTS
  Invoices <- MCInvoices
  PageSize = 2
  Times = {36, 47}
  Quote <- FineQuote
  RateScale = 100
  ZeroDecimal = {"JPY"}
  LegalRates = {0, 5, 18, 27}
  MaxDocuments = 2
INVARIANT StornoCancels
CHECK_DEADLOCK FALSE
