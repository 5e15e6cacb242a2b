CONSTANTS
  x1 = x1
  x2 = x2
  a1 = a1
  a2 = a2
  Timer = {x1, x2}
  Arg = {a1}
  FirstChoices = {1, 2}
  RoundChoices = {0, 1}
  MAX_TIMER_TICKS = 3
  TIMER_MSG_NUM = 1
  SYS_TIME_MOD = 1073741824
  MaxTime = 4
  TimerOps = {"DEL", "CHG", "ARG_CHG", "ARG_CHG_AUTO", "CREATE", "DYN"}
SPECIFICATION Spec
VIEW TimerView
SYMMETRY TimerSym
INVARIANTS TypeOK TimerActiveListed PendingTimersSorted
