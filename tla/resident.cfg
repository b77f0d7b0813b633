SPECIFICATION Spec
CONSTANTS
  NumLayers = 2
  NGLs <- AnyNGL
  CtxLen = 4
  NBatch = 2
  MaxSeqs <- BothSizes
  FaultSets <- Faults
INVARIANTS
  TypeOK
  LayersTogether
  HollowAnnounced
  DeviceMirrors
  AnswerRight
