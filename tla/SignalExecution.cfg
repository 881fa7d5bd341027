SPECIFICATION FairSpec
CONSTANTS
  s1 = s1
  s2 = s2
  Signal = {s1, s2}
  Direction <- BothSides
  Reviewed = {s1}
  Traced = {}
  MaxRestarts = 1
INVARIANTS FilledOnce ExecutedWasFilled OneTracked LockdownOverrun OpenQuestion RejectionHolds
PROPERTIES ImplementsLife PendingResolved ReviewAnswered
