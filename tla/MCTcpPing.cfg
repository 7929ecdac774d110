SPECIFICATION Spec
CONSTANTS
  Order <- PingOrder
  Polling = FALSE
  Together = FALSE
  MaxInterrupts = 2
  Greeting <- MCGreeting
  QUIT <- MCQUIT
INVARIANTS AnswerIsTheirs LeftBehind NeverBothWaiting SigpipeHasCause SuccessIsConversation
CHECK_DEADLOCK FALSE
