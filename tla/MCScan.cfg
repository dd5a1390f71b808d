SPECIFICATION Spec
CONSTANTS
  Devices = {dm1, disk}
  DmDevices = {dm1}
  Events <- MCEvents
  LostWrites = {"public", "free"}
  MaxScans = 3
INVARIANTS
  ScannedIsProcessed
  CookieReleased
  ClaimedHeldBack
PROPERTY
  ConfiguredByCookie
CHECK_DEADLOCK FALSE
