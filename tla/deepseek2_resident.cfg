CONSTANTS
  NumLayers = 2
  CtxLen = 4
  Configs <- ResidentMLA
SPECIFICATION Spec
INVARIANT AnswerRight
