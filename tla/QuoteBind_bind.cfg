SPECIFICATION Spec
CONSTANTS
  r1 = r1
  r2 = r2
  e1 = e1
  Binder = {b1, b2}
  NoBinder = NoBinder
  Risk = {r1, r2}
  Billing = {monthly, yearly}
  Edition = {e1}
  Unrated = Unrated
  NoProposal = NoProposal
  Referred <- TheReferred
  BookLimit = 1
  MaxBook = 1
  MaxTransactions = 4
SYMMETRY Symmetries
INVARIANTS BoundOnce ReferredOnApproval NoDuplicateReferral
PROPERTIES BoundOnTheLastWord
