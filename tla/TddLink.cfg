SPECIFICATION Spec
CONSTANTS
  MOD_TIME_TICKS = 16
  MinimumWindow = 1
  MaximumWindow = 2
  Gap = 1
  Tail = 2
  AdjustIncrement = 1
  AdjustPeriod = 1
  CarrierSense = 5
  End = {"gs", "sat"}
  Offset <- MCOffset
  Delay = 1
  MaxAge = 2
  MaxResets = 1
INVARIANTS TypeOK HoldsOff NoOverlap
PROPERTY  T0StaysBehind
