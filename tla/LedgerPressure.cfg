SPECIFICATION Spec
CONSTANTS
  Preps = {p1, p2, p3}
  Invs = {i1}
  NoInv = NoInv
  MaxPreparations = 2
  MaxOperations = 3
  MaxTombstones = 2
  MaxLedgerBytes = 14
  MaxProgressEvents = 2
  PreparationTTL = 1
  RetentionTTL = 1
  ReserveSizes = {3}
  OpSizes = {1, 3}
  OutcomeSizes = {1, 3}
  RecordBytes = 1
  TableSizes = {0, 1, 3}
  DequeSizes = {0, 2}
  TableSlotBytes = 1
  TombstoneSlotBytes = 2
  IdBytes = 1
  EventBytes = 1
  SlotBytes = 1
  TombstoneBytes = 1
  LeaseOverhead = 0
  ReservationOverhead = 0
  GrowthAllowance = 2
  MaxTime = 1
  MaxSequence = 3
SYMMETRY Symmetry
INVARIANT CountersMatchHolders
INVARIANT CeilingWithSlack
INVARIANT ProgressGapIsFlagged
PROPERTY OutcomesOnlyDegrade
