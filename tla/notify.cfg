SPECIFICATION FairSpec
CONSTANTS
  QSize = 2
  Width = 4
  MaxChange = 2
INVARIANTS
  NoLostKick
  NoLostCall
PROPERTY Answered
