SPECIFICATION FairSpec
CONSTANTS
  Hosts <- MCHosts
  HostsMax = 2
  DropPings = 1
  MaxNet = 1
  MaxQueue = 2
  Requests <- MCRequests
  Answers <- MCAnswers
  BufSize = 9
  SizeSpace = 16
  Lowest = 1
  Highest = 5
  Pings = 2
  Retries = 2
  Ids = 4
  Memory = 2
  Second = 4
  Clock = {0}
CHECK_DEADLOCK FALSE
INVARIANTS
  ListIsRight
  RegistIsRight
  PathIsTested
PROPERTIES
  ProtocolsEnd
