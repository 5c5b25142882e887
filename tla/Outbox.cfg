\* A window of five ticks that is passed twice, two sessions of one plugin, and
\* limits that each bite before the others do.
SPECIFICATION OutboxSpec
CONSTANTS
  Plugin = {p1}
  Session = {s1, s2}
  Window = 5
  MinInterval = 2
  MaxPerSession = 3
  MaxPerPlugin = 4
  MaxTime = 10
INVARIANTS
  LimitsAreExact
CHECK_DEADLOCK FALSE
