\* A clock of whole hours: every interval of the schedule is a whole number
\* of them.
SPECIFICATION FairVacuumSpec
CONSTANT Hour = 1
INVARIANTS SuccessesADayApart AtMostFourADay
PROPERTY KeepsTrying
