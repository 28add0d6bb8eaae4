SPECIFICATION RecordedSpec
CONSTANTS
  f = f
  g = g
  a = a
  b = b
  c = c
  Paths = {f, g}
  Contents <- ThreeContents
  Holders = {h1, h2}
  Tickets = {}
  Reverts = {r1, r2}
  MaxSeq = 2
SYMMETRY Symmetry
INVARIANT PendingHeld
INVARIANT JournalsTellTruth
PROPERTY NeededStay
PROPERTY NoneForgottenHalfDone
