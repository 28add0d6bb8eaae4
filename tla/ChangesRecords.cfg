SPECIFICATION Spec
CONSTANTS
  f = f
  g = g
  a = a
  b = b
  c = c
  Paths = {f}
  Contents <- ThreeContents
  Holders = {h1, h2}
  Tickets = {t1, t2}
  Reverts = {}
  MaxSeq = 2
SYMMETRY ContentSymmetry
INVARIANT TypeOK
INVARIANT SeqsNeverReused
PROPERTY NeededStay
PROPERTY EvictionsMarked
PROPERTY ChangesToldOnce
