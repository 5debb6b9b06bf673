CONSTANTS
  Wrap = 31
  Tcp = 2
  Link = 5
  Arp = 12
  Delay = 8
  Slack = 2

SPECIFICATION Spec

INVARIANTS
  TypeOK
  NoneOverdue

PROPERTY NotEarly
