SPECIFICATION FairSpec
CONSTANTS
  QSize = 2
  Width = 4
  MaxSubmit = 4
  MaxRestart = 2
INVARIANTS
  Recoverable
  SubmissionOrder
PROPERTIES
  UsedOnce
  Served
