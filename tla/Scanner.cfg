SPECIFICATION ScanFairSpec
CONSTANTS
  p = p  w1 = w1  w2 = w2
  NoWorker = NoWorker
  Cache = Cache
  Pair = {p}
  Worker = {w1, w2}
  Interval <- TwoRegimes
  First = "range"
  MaxFailures = 2
  Cooldown = 1
PROPERTIES NoMixing Refreshed
