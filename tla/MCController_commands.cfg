SPECIFICATION SafetySpec

CONSTANTS
  c1 = c1
  c2 = c2
  r1 = r1
  t1 = t1
  t2 = t2
  p1 = p1
  m1 = m1
  id1 = id1
  id2 = id2
  id3 = id3
  dev1 = dev1
  dev2 = dev2
  fixed = fixed
  curve = curve
  cpu = cpu
  low = low
  high = high
  max = max
  Reloader = r1
  Main = m1
  Policies = {fixed, curve}
  Sources = {cpu}
  Required <- MCRequired
  Targets <- MCTargets
  Pairs = {low, high, max}
  MaxPair = max
  NoPair = NoPair
  Keep = Keep
  Clients = {c1, c2}
  Tickers = {}
  Pollers = {}
  Ids = {id1, id2, id3}
  Devices = {dev1}
  Configs <- TwoConfigs
  Changes <- OneChange
  ResultLimit = 2
  MaxCalls = 4

INVARIANT RememberedRunsOnce
INVARIANT AnswersAreHonest
SYMMETRY Symmetric
