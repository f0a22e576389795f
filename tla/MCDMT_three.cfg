CONSTANTS
  NumTx = 3
  NumContracts = 3
  Keys = {k1}
  MaxSeq = 1
  m_startContextID = 0
  TopType = "TXHASH"
  DAGResults = {"NONE"}
  Replies = {"CALL"}
  Honest = TRUE
  NoKey = NoKey
SPECIFICATION Spec
INVARIANTS RequestsCurrent StallFindsVictim
PROPERTIES StallsResolved
