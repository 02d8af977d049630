SPECIFICATION ScenarioSpec
CONSTANTS
  r1 = r1
  r2 = r2
  f1 = f1
  f2 = f2
  Requests = {r1, r2}
  Asked <- MCAsked
  Flushers = {f1, f2}
  PoolSize = 2
  Workers = 2
  MaxFields = 2
  MaxSignals = 1
  MaxRestarts = 1
CHECK_DEADLOCK FALSE
INVARIANT TypeOK
INVARIANT StatusTellsEffect
INVARIANT EffectWasAllowed
INVARIANT NobodyIsCutOff
INVARIANT NobodyWaitsInVain
PROPERTY NothingBehindTheAnswer
PROPERTY ImplementsExchange
PROPERTY AnsweredInTheEnd
PROPERTY FlushEnds
PROPERTY SignalEndsProcess
