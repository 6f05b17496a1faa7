---------------------------- MODULE PollBackoff ----------------------------
(***************************************************************************)
(* The adaptive polling interval of one host: consecutive_failures and     *)
(* current_interval of VServerCoordinator, _record_success,                *)
(* _record_failure and _set_poll_interval (coordinator.py).  The host      *)
(* coordinator (module Coordinator) runs these steps inside its poll.      *)
(***************************************************************************)
EXTENDS Naturals

CONSTANTS
  BaseInterval,  \* the configured interval, any positive number of seconds
  BackoffThreshold,   \* DEFAULT_BACKOFF_FAILURE_THRESHOLD (3 in util.py)
  BackoffMaxInterval, \* DEFAULT_BACKOFF_MAX_INTERVAL (300 in util.py)
  MaxFailures    \* bound of the model: failures in a row that are explored

ASSUME BackoffAssumption ==
  /\ BaseInterval \in Nat \ {0}
  /\ BackoffThreshold \in Nat \ {0}
  /\ BackoffMaxInterval \in Nat \ {0}
  /\ MaxFailures \in Nat

\* 2^n is a positive number and doubles with n, for every exponent that is
\* explored (the provers know nothing of exponentiation).
ASSUME PowerAssumption ==
  \A n \in 0..MaxFailures : 2 ^ n \in Nat \ {0} /\ 2 ^ (n + 1) = 2 * 2 ^ n

VARIABLES
  consecutive_failures,
  current_interval

backoffVars == <<consecutive_failures, current_interval>>

BackoffInit ==
  /\ consecutive_failures = 0
  /\ current_interval = BaseInterval

MinOf(a, b) == IF a <= b THEN a ELSE b

RecordSuccessKeepsInterval ==  \* faulty
  /\ consecutive_failures' = 0
  /\ UNCHANGED current_interval

RecordSuccessCountsDown ==  \* faulty
  /\ consecutive_failures' = consecutive_failures - 1
  /\ current_interval' = BaseInterval

RecordSuccess ==
  /\ consecutive_failures' = 0
  /\ current_interval' = BaseInterval

BackedOffFromOne(failures) ==  \* faulty
  MinOf(2 ^ (failures - BackoffThreshold + 1), BackoffMaxInterval)

BackedOff(failures) ==
  MinOf(BaseInterval * 2 ^ (failures - BackoffThreshold + 1), BackoffMaxInterval)

\* Below the threshold _record_failure returns before it touches the interval.
RecordFailure ==
  /\ consecutive_failures < MaxFailures
  /\ consecutive_failures' = consecutive_failures + 1
  /\ current_interval' = IF consecutive_failures' < BackoffThreshold
                         THEN current_interval ELSE BackedOff(consecutive_failures')

BackoffNext == RecordSuccess \/ RecordFailure

BackoffSpec == BackoffInit /\ [][BackoffNext]_backoffVars

-----------------------------------------------------------------------------

BackoffTypeOK ==
  /\ consecutive_failures \in 0..MaxFailures
  /\ current_interval \in Nat \ {0}

\* The interval in force is a function of the failures counted since the last
\* success: it never keeps a value of an earlier run of failures
\* (_record_failure leaves it alone below the threshold, so this rests on
\* _record_success having put it back).
IntervalFollowsFailures ==
  current_interval = IF consecutive_failures < BackoffThreshold
                     THEN BaseInterval ELSE BackedOff(consecutive_failures)

\* "Increase polling interval after repeated failures" (_record_failure): one
\* more failure never shortens the interval that is in force, if the configured
\* one is below the cap.
FailureNeverShortens ==
  [][consecutive_failures' > consecutive_failures
       => current_interval' >= current_interval]_backoffVars

=============================================================================
