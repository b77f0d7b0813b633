SPECIFICATION Spec
CONSTANTS
  NumLayers = 2
  NGLs <- AllNGL
  CtxLen = 4
  NBatch = 2
  MaxSeqs <- TooSmall
  FaultSets <- NoFaults
INVARIANT FusedSkippedWhileStale
