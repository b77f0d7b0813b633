CONSTANTS
  NumLayers = 2
  CtxLen = 4
  Configs <- MCConfigs
SPECIFICATION Spec
INVARIANTS AnswerRight MirrorsKept NoFailureUnprovoked
