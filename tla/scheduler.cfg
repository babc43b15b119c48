\* Every window of a day of four minutes, on six lists of weekdays, with the
\* API and the puller changing the state of the same recorder.
CONSTANTS
  Minutes = 4
  Weekdays <- SomeDays
  MaxStops = 2
SPECIFICATION FairSpec
INVARIANT FollowsSchedule
PROPERTY ScheduleWins
