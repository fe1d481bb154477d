\* The expunger that the compiler generates, which deletes nothing.
CONSTANTS
  Workers = {w1, w2}
  Pruner = Pruner
  NoOne = NoOne
  ClientsMax = 1
  MessagesMax = 8
  RefMod = 8
  Requests = {"page", "rpc", "pull"}
  ExpungeResults = {"ok"}
  ExpungerDeletes = FALSE
  FinalErrors = FALSE
  Foreign = {}
  PassMax = 2
  TxMax = 3
  ChannelsMax = 1
  SendsMax = 1
SPECIFICATION Spec

INVARIANT NoMisdelivery
CHECK_DEADLOCK FALSE
