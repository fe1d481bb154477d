\* A page, its RPCs and requests without a client, which contend for the locks of the
\* slot and for the mutex of the messages, with fairness; an action that runs after
\* COMMIT may fail, and COMMIT of the expunger meets conflicts or fails for good.
CONSTANTS
  Workers = {w1, w2}
  Pruner = Pruner
  NoOne = NoOne
  ClientsMax = 1
  MessagesMax = 8
  RefMod = 8
  Requests = {"page", "plain", "rpc"}
  ExpungeResults = {"serialization", "commit_error"}
  ExpungerDeletes = TRUE
  FinalErrors = TRUE
  Foreign = {}
  PassMax = 1
  TxMax = 3
  ChannelsMax = 1
  SendsMax = 1
SPECIFICATION FairSpec
PROPERTIES RequestsFinish GoneReclaimed
CHECK_DEADLOCK FALSE
