SPECIFICATION Spec
CONSTANTS
  Preps = {p1, p2, p3}
  Invs = {i1, i2}
  NoInv = NoInv
  MaxPreparations = 2
  MaxOperations = 2
  MaxTombstones = 1
  MaxLedgerBytes = 100
  MaxProgressEvents = 2
  PreparationTTL = 1
  RetentionTTL = 1
  ReserveSizes = {3}
  OpSizes = {1}
  OutcomeSizes = {1}
  RecordBytes = 1
  TableSizes = {0, 1, 3}
  DequeSizes = {0, 1, 2}
  TableSlotBytes = 1
  TombstoneSlotBytes = 1
  IdBytes = 1
  EventBytes = 1
  SlotBytes = 1
  TombstoneBytes = 1
  LeaseOverhead = 0
  ReservationOverhead = 0
  GrowthAllowance = 1
  MaxTime = 3
  MaxSequence = 0
SYMMETRY Symmetry
INVARIANT TypeOK
INVARIANT AtMostOnce
INVARIANT RunningIffExecuting
INVARIANT WithinQuotas
INVARIANT NeverSeenMeansNeverRan
PROPERTY OutcomesOnlyDegrade
PROPERTY OperationContract
