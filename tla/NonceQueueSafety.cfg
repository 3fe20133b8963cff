SPECIFICATION StraySpec
CONSTANTS
  c1 = c1
  c2 = c2
  c3 = c3
  s1 = s1
  s2 = s2
  Callers <- TwoCallers
  Syncers <- TwoSyncers
  Seed = 0
  ChainStart = 1
  MaxNonce = 2
  NoNonce = NoNonce
INVARIANTS
  TypeOK
  OneOwner
  NoNonceLost
PROPERTIES
  NeverRegresses
SYMMETRY Symmetry
