CONSTANTS
  RenderConfigs = {plain, image, broken}
  NoRender = NoRender
  Default = plain
  Assetless = {plain}
  Undecodable = {broken}
  ToastsOff = {image}
  Monitors = {m1}
  NoMonitor = NoMonitor
  Keys = {k1, k2}
  Priorities = {0, 1}
  MaxToasts = 0
  MaxToastNumber = 0
  MaxVersions = 1
  MaxRebuilds = 1
  MaxLosses = 1
SPECIFICATION FairSpec
PROPERTIES StartReturns
