SPECIFICATION MCSpec
CONSTANTS
  Clouds <- MCClouds
  LidarSteps <- MCLidarSteps
  ImuSteps <- MCImuSteps
  MAX_INI_COUNT = 1
  INIT_TIME = 1
  MinFeatures = 2
  Uninitialised = {3}
  MaxTime = 12
  MaxLoopBacks = 1
  MaxRepeated = 1
  MaxClouds = 2
  Axes = {x, y}
  CubeLen = 4
  DetRange = 1
  Steps <- MCSteps
  MaxPos = 30
  Lines <- MCLines
  group_size = 2
  point_filter_num = 2
  Revolution = 6
  Rings = {0, 1}
  N_SCANS = 1
  Starts <- MCStarts
  TurnSteps = {0, 1, 3}
INVARIANTS StampsAligned GroupComplete UndistortionRight CloudsPrepared MapAroundLidar
PROPERTIES OwnCloud ScansTaken
CHECK_DEADLOCK FALSE
