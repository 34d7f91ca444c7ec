\* Three commands: one that fails, one on the session it leaves, one after that.
CONSTANTS
  Commands = {c1, c2, c3}
  NoCommand = NoCommand
  MaxConnects = 2
SPECIFICATION FairSpec
INVARIANTS
  TypeOK
  CommandsNeedAuth
  ConnectedMeansAuthenticated
  AnswerIsOwn
PROPERTY
  CallsReturn
CHECK_DEADLOCK FALSE
