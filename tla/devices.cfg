CONSTANTS
  weightProtect = 8
  NumLayers = 2
  MaxTokens = 3
  Configs <- MCConfigs
SPECIFICATION Spec
INVARIANTS
  HeldOnDevice
  GraphsUseLiveWeights
  CacheAccounts
  OneHidden
  KernelsReadTheirInputs
CHECK_DEADLOCK FALSE
