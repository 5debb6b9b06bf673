CONSTANT Modes = {full100, half10}

SPECIFICATION BootFairSpec

INVARIANTS
  BootTypeOK
  StaleModeIsNoticed
  ReadyBeforeUse

PROPERTIES
  LinkComesUp
  LinkGoesDown
  LedBlinks
  ServerListens
