CONSTANTS
  PreImages = {a0, b0}
  PostImages = {a1, b0}
  StrayImages = {x}
  Promises = {p}
  Required = {p}
  Decks = {d1, d2}
  PolicyDeck = d1
  NoArg = NoArg
  NoDeck = NoDeck
  NoReceipt = NoReceipt
  Heads = {h0, h1}
  OpeningHead = h0
SPECIFICATION Spec
INVARIANTS SuccessIsJustified EffectsRequestedOnce
PROPERTY TerminalIsFinal
CHECK_DEADLOCK FALSE
