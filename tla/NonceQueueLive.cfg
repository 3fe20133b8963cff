SPECIFICATION FairSpec
CONSTANTS
  c1 = c1
  c2 = c2
  c3 = c3
  s1 = s1
  s2 = s2
  Callers <- ThreeCallers
  Syncers <- OneSyncer
  Seed = 0
  ChainStart = 1
  MaxNonce = 2
  NoNonce = NoNonce
PROPERTIES
  RefinesLedger
  NoWedge
  ReconcileReturns
