CONSTANTS
  NumTx = 3
  NumContracts = 1
  Keys = {k1}
  MaxSeq = 2
  m_startContextID = 0
  TopType = "TXHASH"
  DAGResults = {"NONE"}
  Replies = {"CALL", "CREATE2"}
  Honest = TRUE
  NoKey = NoKey
SPECIFICATION Spec
INVARIANTS OneContextPerContract
