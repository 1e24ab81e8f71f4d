SPECIFICATION LifeSpec
CONSTANTS
  p1 = p1
  p2 = p2
  p3 = p3
  s1 = s1
  s2 = s2
  MonitorArea = MonitorArea
  Geometries <- MCGeometries
  NumIcons = 4
  INVALID_ENUM = INVALID_ENUM
  INVALID_OPERATION = INVALID_OPERATION
  GlErrors <- MCGlErrors
INVARIANTS
  SavedIsWindowed
  BlamesTheCall
  IconsFreed
  DebugTellsErrors
PROPERTIES
  RestoresGeometry
  SetupEnds
\* A set-up that fails ends the program, and so does an error of set_fullscreen.
CHECK_DEADLOCK FALSE
