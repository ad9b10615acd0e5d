SPECIFICATION FairSpec
CONSTANT Count = 3
INVARIANTS
  FreeSendFindsThread
  SenderPresent
  AllThreadsJoined
  JoinedThreadsCanEnd
  PanicReportedOnce
PROPERTIES
  CallsReturn
\* the owner may drop the set, abort, or stop sending
CHECK_DEADLOCK FALSE
