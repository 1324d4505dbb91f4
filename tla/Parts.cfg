\* A turn and a dispatch end, so the parts may stop.
SPECIFICATION PartsSpec
CONSTANTS
  Word <- MCWord
  Time <- MCTime
  Mention = {m1}
  Plain = {n1}
  Recent = 2
  MaxRounds = 2
  Together = 2
  MaxFaults = 1
  MaxCrashes = 1
  Asked <- MCAsked
  Ready <- MCReady
  Nothing <- MCNothing
  Delivery = {d1, d2}
  NoDelivery = none
  Handler = {h1, h2}
  Window = 1
  MaxReceipts = 4
  MaxFailures = 1
CHECK_DEADLOCK FALSE
INVARIANTS
  VerdictIgnoresOrder
  PriorIsTranscript
  OneTurnPerMention
  HandoffIsKept
  FiledOnce
PROPERTIES
  ImplementsVerdict
  DroppedOnlyWhileSaving
  EveryTurnEnds
  AcceptedIsCarriedOut
