CONSTANT Jobs <- MCJobs
SPECIFICATION Spec
INVARIANTS
  SamplingIsExact
  TokensAreTheText
  RepliesAreReadRight
  PromptsAreWhole
  BuffersHoldTheWork
  TopKIsTheTop
  MatricesAreReadAlike
  FilesAreRead
  LayersHaveOneOwner
CHECK_DEADLOCK FALSE
