CONSTANTS
  Caller = {c1, c2, c3}
  MaxTxnThreadNum = 2
  ChanCap = 9
  Nil = Nil
SPECIFICATION FairSpec
INVARIANTS
  TypeOK
  RequestsAccounted
  NoLostWakeUp
  SendsNeverBlock
PROPERTY
  EveryRequestAnswered
\* Once stopped, the manager answers nobody.
CHECK_DEADLOCK FALSE
