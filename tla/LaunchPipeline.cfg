\* Two runs of two Guards; Desktop is replaced by a bare executable, runs are cancelled or crash, the clock moves and is set back.
SPECIFICATION Spec
CONSTANTS
  g1 = g1
  g2 = g2
  app = app
  updated = updated
  bare = bare
  Guards = {g1, g2}
  Targets = {app, bare}
  Registered = {app}
  NoTarget = NoTarget
  NoTime = NoTime
  Cooldown = 1
  MaxClock = 1
  MaxRuns = 2
  MaxUpdates = 1
  MaxSkews = 1
  MaxCrashes = 1
SYMMETRY GuardSymmetry
INVARIANTS FactsAreHonest EffectsInOrder
PROPERTIES CancelStopsEffects NoDoubleStart
