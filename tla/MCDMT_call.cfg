CONSTANTS
  NumTx = 1
  NumContracts = 2
  Keys = {k1}
  MaxSeq = 2
  m_startContextID = 1
  TopType = "MESSAGE"
  DAGResults = {"NONE"}
  Replies = {"CALL"}
  Honest = TRUE
  NoKey = NoKey
SPECIFICATION FairSpec
PROPERTIES Termination
