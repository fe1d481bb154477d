\* One slot, two page views: the slot must be expunged and reused.
CONSTANTS
  Workers = {w1, w2}
  Pruner = Pruner
  NoOne = NoOne
  ClientsMax = 1
  MessagesMax = 1
  RefMod = 8
  Requests = {"page", "plain", "rpc", "pull"}
  ExpungeResults = {"ok", "serialization", "fatal"}
  ExpungerDeletes = TRUE
  FinalErrors = TRUE
  Foreign <- OldHeaders
  PassMax = 2
  TxMax = 3
  ChannelsMax = 1
  SendsMax = 1
SPECIFICATION Spec
SYMMETRY Perms
INVARIANTS StreamExact NobodyWaitsInVain NoStaleChannels SessionStable
PROPERTIES ChannelsFresh ReferencesKept MailSpec
CHECK_DEADLOCK FALSE
