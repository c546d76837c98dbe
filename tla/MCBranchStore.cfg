\* The commands of two processes, one of which may serve, on three branches.
SPECIFICATION Spec
CONSTANTS
  a = a  b = b  c = c
  plain = plain  ha = ha  hb = hb  hc = hc
  NoFile = NoFile
  NoProc = NoProc
  NoMeta = NoMeta
  Branch = {a, b, c}
  File = {tokensave, plain, ha, hb, hc}
  TokensaveDb = tokensave
  PlainFile <- MCPlainFile
  HashedFile <- MCHashedFile
  Proc = {p1, p2}
  Server = {p1}
  MaxOps = 3
SYMMETRY Symmetry
INVARIANTS TypeOK OwnFiles TrackedHasFile
PROPERTIES ImplementsBranchTable GcSparesOthers
CHECK_DEADLOCK FALSE
