CONSTANT Modes = {full100, half10}

SPECIFICATION BootFairSpec

PROPERTY
  ModeIsUpdated
