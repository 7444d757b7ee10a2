SPECIFICATION Spec
CONSTANTS
  claims = claims
  witness = witness
  receiptSummary = receiptSummary
  legacyReceiptSummary = legacyReceiptSummary
  Names <- MCNames
  OnPage <- MCOnPage
  Target <- MCTarget
  NoFragment = NoFragment
  Bare = Bare
  None = None
INVARIANTS
  TypeOK
  MissingIsTold
  NoticeIsDue
