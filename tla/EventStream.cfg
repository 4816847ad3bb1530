SPECIFICATION FairSpec
CONSTANTS
  u1 = u1
  u2 = u2
  answer = answer
  failure = failure
  NoMessage = NoMessage
  MaxPush = 3
  Update <- MC_Update
  Message <- MC_Message
  Failure <- MC_Failure
INVARIANTS
  TypeOK
  InOrder
  TerminalLast
  NoLostWakeup
  ResultSettled
PROPERTIES
  LatchedForGood
  IsChannel
  ProducerNeverStalls
  RangeTerminates
  CloseReleasesPump
