SPECIFICATION Spec
CONSTANTS
  h1 = h1  h2 = h2  s1 = s1  s2 = s2  c1 = c1  c2 = c2  a = a  b = b  c3 = c3
  Handlers = {h1, h2}
  SessionIDs = {s1, Anonymous}
  Anonymous = Anonymous
  Convs = {c1, c2, c3}
  NoConv = NoConv
  Free = Free
  NoLogits = NoLogits
  Tokens = {a, b}
  Prompts <- TwoPrompts
  CtxLen = 3
  MaxTokens = 2
  FaultPoints <- FirstForwardFaults
SYMMETRY Symmetry
INVARIANTS TypeOK KVCoherent DecodeOwnContext LastLogitsFresh
PROPERTIES ImplementsService
