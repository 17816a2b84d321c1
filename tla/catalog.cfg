\* Assistants, their versions and their crons, with the cron scheduler, restarts and truncation.
SPECIFICATION FairSpec
CONSTANTS
  User = {"u1"}
  System <- MCSystem
  Data = {1, 2}
  CronId = {"k1", "k2"}
  Thread = {"t1"}
  Period = {2}
  Zone = {0, 1}
  NoThread = "none"
  MaxTime = 3
  MaxRequest = 3
INVARIANTS TypeOK VersionsSound CronsBacked DateOnSchedule DatesGrow
PROPERTIES DueFires
CHECK_DEADLOCK FALSE
