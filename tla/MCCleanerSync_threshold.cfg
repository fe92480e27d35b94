SPECIFICATION Spec
CONSTANTS
  a = a
  b = b
  p = p
  q = q
  m1 = m1
  m2 = m2
  sys = sys
  s1 = s1
  s2 = s2
  Cleaner = {a, b}
  Structure = {m1, m2, sys}
  Internal = {sys}
  Session = {s1, s2}
  NoSession = NoSession
  NoStructure = NoStructure
  SessionOf <- MCSessionOf
  Scope <- MCScope
  UseThreshold <- MCUseAll
  Threshold <- MCThreshold
  ErrorBehavior <- MCErrorBehavior
  StartTime = 1
  Horizon = 3
  NanosPerTick = 10
  TicksPerSecond = 10
PROPERTIES CleansOnceThresholdElapsed
