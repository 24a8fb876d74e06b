SPECIFICATION MCSpec
CONSTANTS
  X_Min = 180
  X_Max = 460
  Y_Min = 85
  Y_Max = 395
  X_Center = 320
  Y_Center = 320
  Keycodes <- Turns
  Breed <- GameGhosts
  KeyHold = 40
  Players = {"turning"}
  MaxFrames = 319
INVARIANTS
  GameTypeOK
  PlayTogether
  NoDeepOverlap
PROPERTIES
  OverHalts
  OverIsFinal
