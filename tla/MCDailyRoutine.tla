-------------------------- MODULE MCDailyRoutine --------------------------
EXTENDS DailyRoutine

\* A trading day, a second one, and a day on which the market is closed.
MCWeekdays == {1, 2}

\* The longest refresh, and the step that reads what others write.
MCSlowSteps == {"thresholds", "follower"}
=============================================================================
