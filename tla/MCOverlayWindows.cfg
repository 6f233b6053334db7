CONSTANTS
  RenderConfigs = {plain, image, broken}
  NoRender = NoRender
  Default = plain
  Assetless = {plain}
  Undecodable = {broken}
  ToastsOff = {image}
  Monitors = {m1}
  NoMonitor = NoMonitor
  Keys = {k1, k2}
  Priorities = {0, 1}
  MaxToasts = 2
  MaxToastNumber = 2
  MaxVersions = 3
  MaxRebuilds = 3
  MaxLosses = 1
SPECIFICATION FairSpec
INVARIANTS SurfacesHaveWindows DeviceOutlivesSurfaces OverlayInv NewestIsKept
PROPERTIES RequestsReturn ShutdownEnds ToastGoes
