\* The files and the graph, texts, overlays and the background, each by itself.
CONSTANTS
  none = none
  None = none
  Templates <- MCTemplates
  Payloads <- MCPayloads
  TextPrefixed <- MCTextPrefixed
  CanvasWidth = 20
  Carousels <- MCCarousels
  Animated <- MCAnimated
  Motions <- MCMotions
  Counts = {1, 2, 3, 4, 5, 6, 7}
  Frames = {2, 3, 4, 7, 8, 12, 20}
SPECIFICATION MCSpec
INVARIANTS
  
  EveryLayerShowsItself
  TextsTakeTurns
  PagerKeepsUp
  EveryTextLegible
  Settles
  KeepsItsRanges
PROPERTIES
  NeverJumps
  TurnsBackOnlyFast
CHECK_DEADLOCK FALSE
