SPECIFICATION Spec
CONSTANTS
  IdentityLens = {3, 7}
  PayloadLens = {1, 150, 156, 181}
  HeaderErrors <- MCHeaderErrors
  BodyErrors = {0, 1, 15, 16, 17}
  NoiseLens = {0, 38, 39, 52, 53, 70, 229, 230}
  NoiseExtensions = {0, 1, 6, 20, 255}
  MaxCorrected = 16
INVARIANTS SkyTxFits ReceivedAsSent ParsedInside GolayCorrects
CHECK_DEADLOCK FALSE
