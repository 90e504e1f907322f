SPECIFICATION FairSpec
CONSTANTS
  MaxResponse = 2
  MaxSpeech = 1
  HangupTimeout = 1
  None = None
INVARIANTS TypeOK EndsOnce
PROPERTIES HangsUpAfterGoodbye HangupEnds
CHECK_DEADLOCK FALSE
