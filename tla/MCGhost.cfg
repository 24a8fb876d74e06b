SPECIFICATION Spec
CONSTANTS
  X_Min = 180
  X_Max = 460
  Y_Min = 85
  Y_Max = 395
  Breed <- GameGhosts
  GhostKeys <- SpaceOrNone
INVARIANTS
  TypeOK
  InPlayfield
  ClearOfBars
  StaysHome
PROPERTIES
  OnePixel
