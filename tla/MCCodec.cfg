\* Every cut of two messages, requests to a server and responses to a client.
SPECIFICATION Spec
CONSTANTS
  kKEY_SIZE = 2
  master_key <- MasterKey
  Width = 1
  kMagic = 120
  Request <- Requests
  Response <- Responses
  RandomKey <- RandomKeys
  Excess <- Excesses
  MaxMessages = 2
INVARIANTS TypeOK InOrder
PROPERTIES AsFraming NothingMissing
\* The conversation ends.
CHECK_DEADLOCK FALSE
