CONSTANTS
  PreImages = {}
  PostImages = {}
  StrayImages = {}
  Promises = {}
  Required = {}
  Decks = {d1}
  PolicyDeck = d1
  NoArg = NoArg
  NoDeck = NoDeck
  NoReceipt = NoReceipt
  AdapterObservations <- Reports
  MaxFaults = 2
  MaxIntents = 5
  MaxCeiling = 1
SPECIFICATION Spec
INVARIANTS EffectsAreIntended  JournalledSuccessHasEvidence
CHECK_DEADLOCK FALSE
