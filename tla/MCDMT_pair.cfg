CONSTANTS
  NumTx = 2
  NumContracts = 2
  Keys = {k1}
  MaxSeq = 1
  m_startContextID = 0
  TopType = "TXHASH"
  DAGResults = {"NONE", "SEND_BACK", "FINISHED"}
  Replies = {"CALL", "CREATE", "REVERT", "ERROR"}
  Honest = FALSE
  NoKey = NoKey
SPECIFICATION Spec
INVARIANTS TypeOK OneContextPerContract MessagePresent ReceiptsComplete
PROPERTIES WalkOnce
