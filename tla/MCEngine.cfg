SPECIFICATION Spec
CONSTANTS
  Buttons <- MCButtons
  MaxEvents = 2
  MaxResizes = 2
  small = small
  large = large
  huge = huge
  monitor_pixels = monitor_pixels
  Geometries <- MCGeometries
  MonitorArea = MonitorArea
  Pixels <- MCPixels
INVARIANTS
  FrameShowsSettings
  SizesSettle
  CleanExit
PROPERTIES
  GlAfterLoad
  EscapeExits
  LoopIsClient
CHECK_DEADLOCK FALSE
