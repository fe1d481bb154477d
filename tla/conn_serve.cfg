\* Two workers, two connections, three requests of any kind, some sent ahead.
SPECIFICATION FairSpec
CONSTANTS
  c1 = c1
  c2 = c2
  Workers = {w1, w2}
  Conns = {c1, c2}
  NoConn = NoConn
  Keepalive = TRUE
  Kinds <- TwoClients
  BufMax = 3
  RequestsMax = 3
INVARIANTS TypeOK SingleOwner AnswersInOrder NoLostWakeup
PROPERTIES RequestsAnswered
