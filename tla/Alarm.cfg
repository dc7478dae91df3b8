SPECIFICATION FairSpec
CONSTANTS
  Alarms = {a1, a2, a3}
  MaxPending = 2
  CLOCK_MAX = 3
  NoAlarm = NoAlarm
INVARIANT NextIsEarliest
PROPERTIES
  ImplementsAlarmQueue
  DueAlarmsServed
