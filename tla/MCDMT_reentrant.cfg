CONSTANTS
  NumTx = 2
  NumContracts = 2
  Keys = {k1}
  MaxSeq = 2
  m_startContextID = 0
  TopType = "TXHASH"
  DAGResults = {"NONE"}
  Replies = {"CALL", "REVERT"}
  Honest = TRUE
  NoKey = NoKey
SPECIFICATION FairSpec
INVARIANTS LocksFresh NoUnexpectedKeyLock CallStackAgrees HoldersLive
PROPERTIES Termination
