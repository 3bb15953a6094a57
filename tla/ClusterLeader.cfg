SPECIFICATION ClusterSpec
CONSTANTS
  Nodes = {n1, n2}
  NoNode = NoNode
  Ttl = 3
  MaxPipe = 2
  Faulty = {n1}
  MaxFaults = 1
INVARIANT LeadersCorrected
PROPERTY LeaderAgain
