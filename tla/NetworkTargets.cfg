\* Two networks, and none; a late reply to an earlier ping.
CONSTANTS
  Resolvers = {d1, d2}
  Routers = {g1, g2}
  Stub = stub
  NoServer = noServer
  Target = target
  Seqs = {1, 2}
  Late = 2
SPECIFICATION FairTargetsSpec
INVARIANT ResultsAreTheServers
PROPERTIES FollowsTheLaptop LeftGatewayFails
