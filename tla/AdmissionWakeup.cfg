SPECIFICATION FairSpec
CONSTANTS
  large = large
  small = small
  other = other
  Tasks = {large, small, other}
  Size <- Sizes
  Room = 2
  MaxWaiters = 2
INVARIANT TypeOK
INVARIANT NoLostWakeup
PROPERTY ParkedWakes
PROPERTY EveryRequestAnswered
