------------------------- MODULE CoordinatorProofs -------------------------
(***************************************************************************)
(* What holds of the coordinator for every host, every number of polls,    *)
(* tasks, container actions and refresh calls, and every interval.         *)
(***************************************************************************)
EXTENDS Coordinator, TLAPS

USE DEF Owners, Collectors, hostVars, dataVars, taskVars, slowVars, timerVars,
        callVars, pollVars, backoffVars

\* The record of an idle container action is a record of the right type
\* (handle_docker_container_action has no call under way).
LEMMA IdleCallType ==
  /\ IdleCall \in CallType
  /\ \A c \in Containers, run \in BOOLEAN :
       [IdleCall EXCEPT !.st = "remote", !.c = c, !.run = run] \in CallType
  /\ \A h \in Tasks \cup {NoTask} :
       [IdleCall EXCEPT !.st = "waiting", !.on = h] \in CallType
BY CoordinatorAssumption DEF IdleCall, CallType

\* Updates of one field, or of two, of such a record.
LEMMA CallUpdate ==
  ASSUME NEW x \in CallType
  PROVE  /\ [x EXCEPT !.st = "replied"] \in CallType
         /\ [x EXCEPT !.st = "woken", !.on = NoTask] \in CallType
BY DEF CallType

\* The steps of a refresh call (handle_refresh) leave it a record of its type:
\* it polls, has polled, waits for a task, or is over.
LEMMA RefreshUpdate ==
  ASSUME NEW x \in RefreshType, NEW S \in SUBSET Tasks,
         NEW h \in Tasks \cup {NoTask}
  PROVE  /\ [x EXCEPT !.owed = S] \in RefreshType
         /\ [x EXCEPT !.owed = @ \ S] \in RefreshType
         /\ [x EXCEPT !.st = "polling"] \in RefreshType
         /\ [x EXCEPT !.st = "polled"] \in RefreshType
         /\ [x EXCEPT !.st = "polled", !.owed = S] \in RefreshType
         /\ [x EXCEPT !.st = "idle", !.on = h] \in RefreshType
         /\ [x EXCEPT !.st = "waiting", !.on = h] \in RefreshType
BY DEF RefreshType

\* The interval stays a positive number of seconds (_record_failure).
LEMMA BackoffType ==
  ASSUME BackoffTypeOK, RecordSuccess \/ RecordFailure
  PROVE  BackoffTypeOK'
<1>1. CASE RecordSuccess
  BY <1>1, BackoffAssumption DEF RecordSuccess, BackoffTypeOK
<1>2. CASE RecordFailure
  <2> DEFINE f == consecutive_failures'
             e == f - BackoffThreshold + 1
  <2>1. f \in 0..MaxFailures
    BY <1>2, BackoffAssumption DEF RecordFailure, BackoffTypeOK
  <2>2. CASE f < BackoffThreshold
    BY <1>2, <2>1, <2>2 DEF RecordFailure, BackoffTypeOK
  <2>3. CASE ~ (f < BackoffThreshold)
    <3>1. current_interval' = MinOf(BaseInterval * 2 ^ e, BackoffMaxInterval)
      BY <1>2, <2>3 DEF RecordFailure, BackedOff
    <3>2. e \in 0..MaxFailures
      <4> HIDE DEF f
      <4> QED BY <2>1, <2>3, BackoffAssumption
    <3>3. 2 ^ e \in Nat \ {0}
      BY <3>2, PowerAssumption
    <3> HIDE DEF e
    <3>4. BaseInterval * 2 ^ e \in Nat \ {0}
      BY <3>3, BackoffAssumption
    <3> QED BY <2>1, <3>1, <3>4, BackoffAssumption DEF MinOf, BackoffTypeOK
  <2> QED BY <2>2, <2>3
<1> QED BY <1>1, <1>2

\* A coordinator that was just made (VServerCoordinator.__init__, and the initial
\* refresh that was requested) has a state of the right type.
LEMMA TypeInit == Init => TypeOK
<1> SUFFICES ASSUME Init PROVE TypeOK
  OBVIOUS
<1>1. BackoffTypeOK
  BY BackoffAssumption DEF Init, BackoffInit, BackoffTypeOK
<1>2. calls \in [Calls -> CallType]
  BY IdleCallType DEF Init
<1>3. refreshes \in [Refreshes -> RefreshType]
  BY DEF Init, IdleRefresh, RefreshType
<1>4. since \in [Containers -> SUBSET BOOLEAN]
  BY DEF Init
<1> QED BY <1>1, <1>2, <1>3, <1>4, CoordinatorAssumption
        DEF Init, TypeOK, NothingRead, Knowledge

\* When a collector returns, the task goes on or ends: its state, the handle
\* and those who wait for it keep their types.
LEMMA AdvanceType ==
  ASSUME TypeOK, NEW t \in Tasks, Advance(t)
  PROVE  /\ todo' \in [Tasks -> SUBSET Collectors]
         /\ captured' \in [Tasks -> Nat]
         /\ read' \in [Tasks -> [Containers -> Knowledge]]
         /\ handle' \in Tasks \cup {NoTask}
         /\ calls' \in [Calls -> CallType]
         /\ refreshes' \in [Refreshes -> RefreshType]
<1>1. todo' \in [Tasks -> SUBSET Collectors]
  BY DEF TypeOK, Advance
<1>2. captured' \in [Tasks -> Nat]
  BY DEF TypeOK, Advance
<1>3. read' \in [Tasks -> [Containers -> Knowledge]]
  <2>1. NothingRead \in [Containers -> Knowledge]
    BY DEF NothingRead, Knowledge
  <2> QED BY <2>1 DEF TypeOK, Advance
<1>4. handle' \in Tasks \cup {NoTask}
  BY DEF TypeOK, Advance, ClearHandle
<1>5. calls' \in [Calls -> CallType]
  <2>1. \A a \in Calls : /\ calls[a] \in CallType
                         /\ [calls[a] EXCEPT !.st = "woken", !.on = NoTask] \in CallType
    BY CallUpdate DEF TypeOK
  <2> QED BY <2>1 DEF TypeOK, Advance, WakeActions
<1>6. refreshes' \in [Refreshes -> RefreshType]
  <2>1. ASSUME NEW r \in Refreshes
        PROVE  /\ refreshes[r] \in RefreshType
               /\ [st |-> "idle", on |-> NoTask, owed |-> refreshes[r].owed \ {t}]
                    \in RefreshType
               /\ [refreshes[r] EXCEPT !.owed = @ \ {t}] \in RefreshType
    <3>1. refreshes[r] \in RefreshType
      BY DEF TypeOK
    <3>2. [st |-> "idle", on |-> NoTask, owed |-> refreshes[r].owed \ {t}]
            \in RefreshType
      BY <3>1 DEF RefreshType
    <3>3. [refreshes[r] EXCEPT !.owed = @ \ {t}] \in RefreshType
      BY <3>1, RefreshUpdate
    <3> QED BY <3>1, <3>2, <3>3
  <2> QED BY <2>1 DEF TypeOK, Advance, WakeRefreshes
<1> QED BY <1>1, <1>2, <1>3, <1>4, <1>5, <1>6

\* Publishing data (async_set_updated_data) leaves the timer, the debouncer and
\* the last_seen stamp in their types.
LEMMA SetUpdatedDataType ==
  ASSUME TypeOK, NEW known \in {"contact", "failure"}, SetUpdatedData(known)
  PROVE  /\ success' \in BOOLEAN
         /\ debouncer' \in {"idle", "cooling", "pending"}
         /\ armed' \in BOOLEAN
         /\ last_seen' \in {"never", "contact", "failure"}
BY DEF TypeOK, SetUpdatedData, Stamp

\* A base poll that ends (_async_update_data) keeps the types of what it sets,
\* and leaves the host, the revision and the container actions alone.
LEMMA PollEndsType ==
  ASSUME TypeOK, NEW p \in Polls \cup {Debounced}, NEW S \in SUBSET Tasks,
         PollEnds(p, S)
  PROVE  /\ polling' \subseteq Polls \cup {Debounced}
         /\ armed' \in BOOLEAN
         /\ debouncer' \in {"idle", "cooling", "pending"}
         /\ refreshes' \in [Refreshes -> RefreshType]
         /\ remote' = remote /\ since' = since /\ settled' = settled
         /\ revision' = revision /\ calls' = calls
<1>1. refreshes' \in [Refreshes -> RefreshType]
  <2>1. \A r \in Refreshes :
          /\ refreshes[r] \in RefreshType
          /\ [refreshes[r] EXCEPT !.st = "polled", !.owed = S] \in RefreshType
    BY RefreshUpdate DEF TypeOK
  <2> QED BY <2>1 DEF TypeOK, PollEnds
<1> QED BY <1>1 DEF TypeOK, PollEnds, hostVars

\* No step of a poll, a slow task, a container action or a refresh call breaks a
\* type.
LEMMA TypeStep == TypeOK /\ [Next]_vars => TypeOK'
<1> SUFFICES ASSUME TypeOK, [Next]_vars PROVE TypeOK'
  OBVIOUS
<1>1. ASSUME NEW t \in Tasks, CollectorReturns(t) PROVE TypeOK'
  <2>1. CASE DiscardSample(t)
    BY <2>1, AdvanceType DEF DiscardSample, TypeOK, BackoffTypeOK
  <2>2. CASE PublishContainers(t)
    BY <2>2, AdvanceType, SetUpdatedDataType
       DEF PublishContainers, ReplaceContainers, TypeOK, BackoffTypeOK
  <2>3. ASSUME NEW known \in {"contact", "failure"}, PublishOther(t, known)
        PROVE  TypeOK'
    BY <2>3, AdvanceType, SetUpdatedDataType
       DEF PublishOther, First, TypeOK, BackoffTypeOK
  <2> QED BY <1>1, <2>1, <2>2, <2>3 DEF CollectorReturns
<1>2. ASSUME NEW t \in Tasks, NEW c \in Containers, ReadContainer(t, c)
      PROVE  TypeOK'
  <2>1. {remote[c]} \in Knowledge
    BY DEF TypeOK, Knowledge
  <2>2. read' \in [Tasks -> [Containers -> Knowledge]]
    <3>1. [read[t] EXCEPT ![c] = {remote[c]}] \in [Containers -> Knowledge]
      BY <2>1 DEF TypeOK
    <3>2. read' = [read EXCEPT ![t] = [read[t] EXCEPT ![c] = {remote[c]}]]
      BY <1>2 DEF ReadContainer
    <3> QED BY <3>1, <3>2 DEF TypeOK
  <2> QED BY <1>2, <2>2 DEF ReadContainer, TypeOK, BackoffTypeOK
<1>3. ASSUME NEW p \in Polls, PollStarts(p) PROVE TypeOK'
  BY <1>3 DEF PollStarts, TypeOK, BackoffTypeOK
<1>4. ASSUME NEW p \in Polls \cup {Debounced}, PollReturns(p) PROVE TypeOK'
  <2>1. BackoffTypeOK'
    BY <1>4, BackoffType
       DEF PollReturns, PollOk, PollFindsError, PollRaises, TypeOK
  <2>2. CASE PollOk(p)
    <3>1. CASE \E t \in Tasks : StartTask(t, due, revision) /\ due' = {} /\ PollEnds(p, {t})
      <4> PICK t \in Tasks : StartTask(t, due, revision) /\ due' = {} /\ PollEnds(p, {t})
        BY <3>1
      <4>1. /\ todo' \in [Tasks -> SUBSET Collectors]
            /\ captured' \in [Tasks -> Nat]
            /\ read' = read /\ handle' = t
        BY CoordinatorAssumption DEF StartTask, TypeOK
      <4> QED BY <2>1, <2>2, <4>1, PollEndsType DEF PollOk, MergeBaseData, Stamp, TypeOK
    <3>2. CASE PollEnds(p, {}) /\ UNCHANGED <<taskVars, handle, due>>
      BY <2>1, <2>2, <3>2, PollEndsType DEF PollOk, MergeBaseData, Stamp, TypeOK
    <3> QED BY <2>2, <3>1, <3>2 DEF PollOk
  <2>3. CASE PollFindsError(p)
    BY <2>1, <2>3, PollEndsType DEF PollFindsError, PreserveData, Stamp, TypeOK
  <2>4. CASE PollRaises(p)
    BY <2>1, <2>4, PollEndsType DEF PollRaises, TypeOK
  <2> QED BY <1>4, <2>2, <2>3, <2>4 DEF PollReturns
<1>5. ASSUME NEW k \in Enabled, BecomesDue(k) PROVE TypeOK'
  BY <1>5 DEF BecomesDue, TypeOK, BackoffTypeOK
<1>6. ASSUME NEW a \in Calls, NEW c \in Containers, NEW run \in BOOLEAN,
             ActionCalled(a, c, run)
      PROVE  TypeOK'
  <2>1. calls' \in [Calls -> CallType]
    BY <1>6, IdleCallType DEF ActionCalled, TypeOK
  <2> QED BY <1>6, <2>1 DEF ActionCalled, TypeOK, BackoffTypeOK
<1>7. ASSUME NEW a \in Calls, ActionTakesEffect(a) PROVE TypeOK'
  <2>1. calls' \in [Calls -> CallType]
    <3>1. [calls[a] EXCEPT !.st = "replied"] \in CallType
      BY CallUpdate DEF TypeOK
    <3>2. calls' = [calls EXCEPT ![a] = [calls[a] EXCEPT !.st = "replied"]]
      BY <1>7 DEF ActionTakesEffect
    <3> QED BY <3>1, <3>2 DEF TypeOK
  <2>2. calls[a].c \in Containers /\ calls[a].run \in BOOLEAN
    BY DEF TypeOK, CallType
  <2> QED BY <1>7, <2>1, <2>2 DEF ActionTakesEffect, TypeOK, BackoffTypeOK
<1>8. ASSUME NEW a \in Calls, ActionFails(a) PROVE TypeOK'
  BY <1>8, IdleCallType DEF ActionFails, TypeOK, BackoffTypeOK
<1>9. ASSUME NEW a \in Calls, ActionSucceeds(a) PROVE TypeOK'
  <2>1. calls[a].c \in Containers /\ calls[a].run \in BOOLEAN
    BY DEF TypeOK, CallType
  <2>2. /\ revision' \in Nat
        /\ shown' \in [Containers -> Knowledge]
        /\ success' \in BOOLEAN
        /\ debouncer' \in {"idle", "cooling", "pending"}
        /\ armed' \in BOOLEAN
        /\ last_seen' \in {"never", "contact", "failure"}
        /\ UNCHANGED <<fields, failed>>
    <3>1. {calls[a].run} \in Knowledge
      BY <2>1 DEF Knowledge
    <3>2. ApplyAction(calls[a].c, calls[a].run)
      BY <1>9 DEF ActionSucceeds
    <3>3. shown' \in [Containers -> Knowledge]
      BY <3>1, <3>2 DEF ApplyAction, NextRevision, TypeOK
    <3>4. CASE shown[calls[a].c] = {}
      BY <3>2, <3>3, <3>4 DEF ApplyAction, NextRevision, TypeOK
    <3>5. CASE SetUpdatedData("contact")
      BY <3>2, <3>3, <3>5, SetUpdatedDataType DEF ApplyAction, NextRevision, TypeOK
    <3> QED BY <3>2, <3>4, <3>5 DEF ApplyAction
  <2>3. calls' \in [Calls -> CallType]
    BY <1>9, IdleCallType DEF ActionSucceeds, TypeOK
  <2>4. /\ todo' \in [Tasks -> SUBSET Collectors]
        /\ captured' \in [Tasks -> Nat]
        /\ read' = read /\ handle' \in Tasks \cup {NoTask}
        /\ due' \subseteq Enabled
    <3>1. CASE handle = NoTask
      <4>1. RequestDockerTask
        BY <1>9, <3>1 DEF ActionSucceeds
      <4> QED BY <4>1, <2>2 DEF RequestDockerTask, StartTask, TypeOK
    <3>2. CASE handle # NoTask
      BY <1>9, <3>2 DEF ActionSucceeds, TypeOK
    <3> QED BY <3>1, <3>2
  <2> QED BY <1>9, <2>1, <2>2, <2>3, <2>4 DEF ActionSucceeds, TypeOK, BackoffTypeOK
<1>10. ASSUME NEW a \in Calls, ActionRefreshes(a) PROVE TypeOK'
  <2>1. calls' \in [Calls -> CallType]
    BY <1>10, IdleCallType DEF ActionRefreshes, TypeOK
  <2>2. /\ todo' \in [Tasks -> SUBSET Collectors]
        /\ captured' \in [Tasks -> Nat]
        /\ read' = read /\ handle' \in Tasks
        /\ due' \subseteq Enabled /\ revision' = revision
    BY <1>10 DEF ActionRefreshes, RequestDockerTask, StartTask, TypeOK
  <2> QED BY <1>10, <2>1, <2>2 DEF ActionRefreshes, TypeOK, BackoffTypeOK
<1>11. ASSUME NEW c \in Containers, ContainerChanges(c) PROVE TypeOK'
  BY <1>11 DEF ContainerChanges, TypeOK, BackoffTypeOK
<1>12. ASSUME NEW r \in Refreshes, RefreshCalled(r) PROVE TypeOK'
  <2>1. refreshes' \in [Refreshes -> RefreshType]
    <3>1. /\ [refreshes[r] EXCEPT !.st = "polling"] \in RefreshType
          /\ [refreshes[r] EXCEPT !.st = "polled"] \in RefreshType
      BY RefreshUpdate DEF TypeOK
    <3>2. \E st \in {"polling", "polled"} :
            refreshes' = [refreshes EXCEPT ![r] = [refreshes[r] EXCEPT !.st = st]]
      BY <1>12 DEF RefreshCalled
    <3> QED BY <3>1, <3>2 DEF TypeOK
  <2> QED BY <1>12, <2>1
          DEF RefreshCalled, StartDebouncedPoll, TypeOK, BackoffTypeOK
<1>13. ASSUME NEW r \in Refreshes, RefreshWaits(r) PROVE TypeOK'
  <2>1. refreshes' \in [Refreshes -> RefreshType]
    <3>1. /\ [refreshes[r] EXCEPT !.st = "idle", !.on = handle] \in RefreshType
          /\ [refreshes[r] EXCEPT !.st = "waiting", !.on = handle] \in RefreshType
      BY RefreshUpdate DEF TypeOK
    <3>2. \E st \in {"idle", "waiting"} :
            refreshes' = [refreshes EXCEPT
                            ![r] = [refreshes[r] EXCEPT !.st = st, !.on = handle]]
      BY <1>13 DEF RefreshWaits
    <3> QED BY <3>1, <3>2 DEF TypeOK
  <2> QED BY <1>13, <2>1 DEF RefreshWaits, TypeOK, BackoffTypeOK
<1>14. CASE CooldownEnds
  BY <1>14 DEF CooldownEnds, StartDebouncedPoll, TypeOK, BackoffTypeOK
<1>15. CASE UNCHANGED vars
  BY <1>15 DEF vars, TypeOK, BackoffTypeOK
<1> QED
  BY <1>1, <1>2, <1>3, <1>4, <1>5, <1>6, <1>7, <1>8, <1>9, <1>10, <1>11, <1>12,
     <1>13, <1>14, <1>15 DEF Next

\* Every variable keeps its type in every behaviour of the coordinator.
THEOREM TypeCorrect == Spec => []TypeOK
BY TypeInit, TypeStep, PTL DEF Spec

-----------------------------------------------------------------------------
(* Container states *)

\* No sample, no container action and no shown state exists before the first
\* poll, so the invariant of container states holds initially.
LEMMA ContainerInvInit == Init => ContainerInv
<1> SUFFICES ASSUME Init PROVE ContainerInv
  OBVIOUS
<1>1. \A a \in Calls : ~ OnTheHost(a)
  BY DEF Init, OnTheHost, IdleCall
<1>2. SamplesAreRecent
  BY DEF Init, SamplesAreRecent, NothingRead
<1>3. \A t \in Tasks : captured[t] <= revision /\ read[t] = NothingRead
  BY DEF Init
<1>4. settled = {} /\ \A c \in Containers : remote[c] \in since[c]
  BY DEF Init
<1> QED BY <1>1, <1>2, <1>3, <1>4 DEF ContainerInv

\* A task that goes on has dropped its docker sample; the others keep theirs,
\* and no call comes under way.
LEMMA AdvanceSamples ==
  ASSUME TypeOK, ContainerInv, NEW t \in Tasks, Advance(t),
         revision' = revision, since' = since
  PROVE  /\ \A u \in Tasks : captured'[u] <= revision'
         /\ \A u \in Tasks : "docker" \notin todo'[u] => read'[u] = NothingRead
         /\ SamplesAreRecent'
         /\ \A a \in Calls : OnTheHost(a)' => OnTheHost(a) /\ calls'[a].c = calls[a].c
<1>1. \A u \in Tasks \ {t} : /\ todo'[u] = todo[u]
                             /\ captured'[u] = captured[u]
                             /\ read'[u] = read[u]
  BY DEF Advance, TypeOK
<1>2. captured'[t] = 0 /\ read'[t] = NothingRead
  BY DEF Advance, TypeOK
<1>3. \A u \in Tasks : /\ captured'[u] <= revision'
                       /\ "docker" \notin todo'[u] => read'[u] = NothingRead
  BY <1>1, <1>2 DEF ContainerInv, TypeOK
<1>4. SamplesAreRecent'
  BY <1>1, <1>2 DEF ContainerInv, SamplesAreRecent, NothingRead
<1>5. ASSUME NEW a \in Calls, OnTheHost(a)'
      PROVE  OnTheHost(a) /\ calls'[a].c = calls[a].c
  <2>1. CASE calls'[a] = calls[a]
    BY <1>5, <2>1 DEF OnTheHost
  <2>2. CASE calls'[a] # calls[a]
    <3>1. calls'[a] = [calls[a] EXCEPT !.st = "woken", !.on = NoTask]
      BY <2>2 DEF Advance, WakeActions
    <3>2. calls[a] \in CallType
      BY DEF TypeOK
    <3> QED BY <1>5, <3>1, <3>2 DEF OnTheHost, CallType
  <2> QED BY <2>1, <2>2
<1> QED BY <1>3, <1>4, <1>5

\* A new task starts from the revision of its step, nothing read.
LEMMA NewTaskSamples ==
  ASSUME TypeOK, ContainerInv, NEW t \in Tasks, NEW S \in SUBSET Collectors,
         NEW n \in Nat, n <= revision', todo[t] = {},
         todo' = [todo EXCEPT ![t] = S], captured' = [captured EXCEPT ![t] = n],
         read' = read,
         \/ revision' = revision /\ since' = since
         \/ revision' = revision + 1
  PROVE  /\ \A u \in Tasks : captured'[u] <= revision'
         /\ \A u \in Tasks : "docker" \notin todo'[u] => read'[u] = NothingRead
         /\ SamplesAreRecent'
<1>1. \A u \in Tasks \ {t} : todo'[u] = todo[u] /\ captured'[u] = captured[u]
  BY DEF TypeOK
<1>2. captured'[t] = n /\ read[t] = NothingRead
  BY DEF TypeOK, ContainerInv
<1>3. \A u \in Tasks : captured[u] <= revision /\ captured[u] \in Nat /\ revision \in Nat
  BY DEF ContainerInv, TypeOK
<1>4. \A u \in Tasks : captured'[u] <= revision'
  BY <1>1, <1>2, <1>3
<1>5. \A u \in Tasks : "docker" \notin todo'[u] => read'[u] = NothingRead
  BY <1>1, <1>2 DEF ContainerInv
<1>6. ASSUME NEW u \in Tasks, "docker" \in todo'[u], captured'[u] = revision',
             NEW c \in Containers
      PROVE  read'[u][c] \subseteq since'[c]
  <2>1. CASE u = t
    BY <1>2, <2>1 DEF NothingRead
  <2>2. CASE u # t
    BY <1>1, <1>3, <1>6, <2>2 DEF ContainerInv, SamplesAreRecent
  <2> QED BY <2>1, <2>2
<1> QED BY <1>4, <1>5, <1>6 DEF SamplesAreRecent

\* The docker task of a container action (async_request_docker_refresh) starts
\* from the revision that the action just left: its sample is recent.
LEMMA DockerTaskSamples ==
  ASSUME TypeOK, ContainerInv, RequestDockerTask, revision' \in Nat,
         \/ revision' = revision /\ since' = since
         \/ revision' = revision + 1
  PROVE  /\ \A u \in Tasks : captured'[u] <= revision'
         /\ \A u \in Tasks : "docker" \notin todo'[u] => read'[u] = NothingRead
         /\ SamplesAreRecent'
<1> PICK t \in Tasks :
      /\ todo[t] = {} /\ read' = read
      /\ todo' = [todo EXCEPT ![t] = {"docker"}]
      /\ captured' = [captured EXCEPT ![t] = revision']
  BY DEF RequestDockerTask, StartTask
<1> DEFINE n == revision'
           S == {"docker"}
<1>1. n \in Nat /\ n <= revision' /\ S \in SUBSET Collectors
  OBVIOUS
<1>2. todo' = [todo EXCEPT ![t] = S] /\ captured' = [captured EXCEPT ![t] = n]
  OBVIOUS
<1> HIDE DEF n, S
<1> QED BY <1>1, <1>2, NewTaskSamples

\* Every step keeps the invariant of container states: a sample is published
\* only at its own revision (_async_update_slow_data), a successful action makes
\* all others stale and settles its container (apply_docker_action_state), and
\* whoever touches a container unsettles it.
LEMMA ContainerInvStep == TypeOK /\ ContainerInv /\ [Next]_vars => ContainerInv'
<1> SUFFICES ASSUME TypeOK, ContainerInv, [Next]_vars PROVE ContainerInv'
  OBVIOUS
<1>1. ASSUME NEW t \in Tasks, CollectorReturns(t) PROVE ContainerInv'
  <2>1. Advance(t) /\ UNCHANGED <<hostVars, revision>>
    BY <1>1 DEF CollectorReturns, DiscardSample, PublishContainers, PublishOther
  <2>2. ASSUME NEW c \in settled PROVE shown'[c] \subseteq since[c]
    <3>1. c \in Containers
      BY DEF TypeOK
    <3>2. CASE PublishContainers(t)
      BY <3>1, <3>2 DEF PublishContainers, ReplaceContainers, Current, ContainerInv,
                         SamplesAreRecent
    <3>3. CASE UNCHANGED shown
      BY <3>3 DEF ContainerInv
    <3> QED BY <1>1, <3>2, <3>3 DEF CollectorReturns, DiscardSample, PublishOther
  <2> QED BY <2>1, <2>2, AdvanceSamples DEF ContainerInv
<1>2. ASSUME NEW t \in Tasks, NEW c \in Containers, ReadContainer(t, c)
      PROVE  ContainerInv'
  <2>1. /\ \A u \in Tasks \ {t} : read'[u] = read[u]
        /\ \A d \in Containers \ {c} : read'[t][d] = read[t][d]
        /\ read'[t][c] = {remote[c]}
        /\ UNCHANGED <<hostVars, dataVars, todo, captured, revision, calls>>
    BY <1>2 DEF ReadContainer, TypeOK
  <2>2. SamplesAreRecent'
    BY <2>1 DEF ContainerInv, SamplesAreRecent
  <2>3. \A u \in Tasks : "docker" \notin todo'[u] => read'[u] = NothingRead
    BY <1>2, <2>1 DEF ReadContainer, ContainerInv
  <2> QED BY <2>1, <2>2, <2>3 DEF ContainerInv, OnTheHost
<1>3. ASSUME NEW p \in Polls \cup {Debounced}, PollReturns(p) PROVE ContainerInv'
  <2>1. UNCHANGED <<hostVars, revision, calls, shown>>
    BY <1>3 DEF PollReturns, PollOk, PollFindsError, PollRaises, PollEnds,
                MergeBaseData, PreserveData
  <2>2. /\ \A u \in Tasks : captured'[u] <= revision'
        /\ \A u \in Tasks : "docker" \notin todo'[u] => read'[u] = NothingRead
        /\ SamplesAreRecent'
    <3>1. CASE \E t \in Tasks : StartTask(t, due, revision)
      <4> PICK t \in Tasks : StartTask(t, due, revision)
        BY <3>1
      <4> DEFINE n == IF "docker" \in due THEN revision ELSE 0
      <4>1. n \in Nat /\ n <= revision' /\ due \in SUBSET Collectors
        BY <2>1, CoordinatorAssumption DEF TypeOK
      <4>2. /\ todo[t] = {} /\ read' = read
            /\ todo' = [todo EXCEPT ![t] = due]
            /\ captured' = [captured EXCEPT ![t] = n]
        BY DEF StartTask
      <4> HIDE DEF n
      <4> QED BY <2>1, <4>1, <4>2, NewTaskSamples
    <3>2. CASE UNCHANGED taskVars
      BY <2>1, <3>2 DEF ContainerInv, SamplesAreRecent
    <3> QED BY <1>3, <3>1, <3>2 DEF PollReturns, PollOk, PollFindsError, PollRaises
  <2> QED BY <2>1, <2>2 DEF ContainerInv, OnTheHost
<1>4. ASSUME NEW a \in Calls, NEW c \in Containers, NEW run \in BOOLEAN,
             ActionCalled(a, c, run)
      PROVE  ContainerInv'
  <2>1. /\ calls'[a].c = c
        /\ \A b \in Calls \ {a} : calls'[b] = calls[b]
        /\ settled' = settled \ {c}
    BY <1>4 DEF ActionCalled, TypeOK, IdleCall
  <2>2. \A b \in Calls : OnTheHost(b)' => calls'[b].c \notin settled'
    BY <2>1 DEF ContainerInv, OnTheHost
  <2> QED BY <1>4, <2>1, <2>2 DEF ActionCalled, ContainerInv, SamplesAreRecent
<1>5. ASSUME NEW a \in Calls, ActionTakesEffect(a) PROVE ContainerInv'
  <2> DEFINE c == calls[a].c
  <2>1. c \in Containers /\ c \notin settled
    BY <1>5 DEF ActionTakesEffect, ContainerInv, OnTheHost, TypeOK, CallType
  <2>2. /\ \A d \in Containers : since[d] \subseteq since'[d]
        /\ \A d \in Containers \ {c} : remote'[d] = remote[d] /\ since'[d] = since[d]
        /\ remote'[c] \in since'[c]
    BY <1>5, <2>1 DEF ActionTakesEffect, TypeOK
  <2>3. /\ \A b \in Calls : calls'[b].c = calls[b].c /\ (OnTheHost(b)' => OnTheHost(b))
        /\ UNCHANGED <<settled, shown, todo, captured, read, revision>>
    BY <1>5 DEF ActionTakesEffect, OnTheHost, TypeOK, CallType
  <2>4. SamplesAreRecent'
    BY <2>2, <2>3 DEF ContainerInv, SamplesAreRecent
  <2>5. \A d \in settled' : since'[d] = {remote'[d]} /\ shown'[d] \subseteq since'[d]
    BY <2>1, <2>2, <2>3 DEF ContainerInv, TypeOK
  <2> QED BY <2>2, <2>3, <2>4, <2>5 DEF ContainerInv
<1>6. ASSUME NEW a \in Calls, ActionFails(a) PROVE ContainerInv'
  <2>1. \A b \in Calls : OnTheHost(b)' => OnTheHost(b) /\ calls'[b] = calls[b]
    BY <1>6 DEF ActionFails, OnTheHost, IdleCall, TypeOK
  <2> QED BY <1>6, <2>1 DEF ActionFails, ContainerInv, SamplesAreRecent
<1>7. ASSUME NEW a \in Calls, ActionSucceeds(a) PROVE ContainerInv'
  <2> DEFINE c == calls[a].c
  <2>1. /\ c \in Containers /\ c \notin settled
        /\ calls[a].run \in BOOLEAN
        /\ revision' = revision + 1 /\ revision' \in Nat
        /\ since' = [d \in Containers |-> {remote[d]}]
        /\ remote' = remote
    BY <1>7 DEF ActionSucceeds, ApplyAction, NextRevision, ContainerInv, OnTheHost,
                TypeOK, CallType
  <2>2. \A b \in Calls : OnTheHost(b)' => OnTheHost(b) /\ b # a /\ calls'[b] = calls[b]
    <3>1. calls'[a].st \in {"idle", "waiting"}
      <4>1. \/ calls' = [calls EXCEPT ![a] = IdleCall]
            \/ calls' = [calls EXCEPT ![a] = [IdleCall EXCEPT !.st = "waiting",
                                                              !.on = handle]]
        BY <1>7 DEF ActionSucceeds
      <4>2. \/ calls'[a] = IdleCall
            \/ calls'[a] = [IdleCall EXCEPT !.st = "waiting", !.on = handle]
        BY <4>1 DEF TypeOK
      <4>3. /\ IdleCall.st = "idle"
            /\ [IdleCall EXCEPT !.st = "waiting", !.on = handle].st = "waiting"
        BY DEF IdleCall
      <4> QED BY <4>2, <4>3
    <3>2. \A b \in Calls \ {a} : calls'[b] = calls[b]
      BY <1>7 DEF ActionSucceeds, TypeOK
    <3> QED BY <3>1, <3>2 DEF OnTheHost
  <2>3. /\ \A u \in Tasks : captured'[u] <= revision'
        /\ \A u \in Tasks : "docker" \notin todo'[u] => read'[u] = NothingRead
        /\ SamplesAreRecent'
    <3>1. CASE handle = NoTask
      BY <1>7, <2>1, <3>1, DockerTaskSamples DEF ActionSucceeds
    <3>2. CASE UNCHANGED taskVars
      BY <2>1, <3>2 DEF ContainerInv, SamplesAreRecent, TypeOK
    <3> QED BY <1>7, <3>1, <3>2 DEF ActionSucceeds
  <2>4. \A d \in settled' : d \in settled \/ (d = c /\ remote[c] = calls[a].run)
    BY <1>7 DEF ActionSucceeds
  <2>5. \A d \in settled' : since'[d] = {remote'[d]} /\ shown'[d] \subseteq since'[d]
    <3>1. \A d \in Containers \ {c} : shown'[d] = shown[d]
      BY <1>7 DEF ActionSucceeds, ApplyAction, TypeOK
    <3>2. shown'[c] \subseteq {calls[a].run}
      BY <1>7, <2>1 DEF ActionSucceeds, ApplyAction, TypeOK
    <3>3. ASSUME NEW d \in settled' PROVE since'[d] = {remote'[d]}
      <4>1. d \in Containers
        BY <2>1, <2>4 DEF TypeOK
      <4> QED BY <2>1, <4>1
    <3>4. ASSUME NEW d \in settled' PROVE shown'[d] \subseteq since'[d]
      <4>1. CASE d = c
        BY <2>1, <2>4, <3>2, <3>3, <4>1
      <4>2. CASE d # c
        <5>1. d \in settled /\ d \in Containers
          BY <2>4, <4>2 DEF TypeOK
        <5>2. since[d] = {remote[d]} /\ shown[d] \subseteq since[d]
          BY <5>1 DEF ContainerInv
        <5> QED BY <2>1, <3>1, <3>3, <4>2, <5>1, <5>2
      <4> QED BY <4>1, <4>2
    <3> QED BY <3>3, <3>4
  <2>6. \A b \in Calls : OnTheHost(b)' => calls'[b].c \notin settled'
    BY <1>7, <2>2 DEF ActionSucceeds, ContainerInv
  <2> QED BY <2>1, <2>3, <2>5, <2>6 DEF ContainerInv
<1>8. ASSUME NEW a \in Calls, ActionRefreshes(a) PROVE ContainerInv'
  <2>1. \A b \in Calls : OnTheHost(b)' => OnTheHost(b) /\ calls'[b] = calls[b]
    BY <1>8 DEF ActionRefreshes, OnTheHost, IdleCall, TypeOK
  <2>2. /\ \A u \in Tasks : captured'[u] <= revision'
        /\ \A u \in Tasks : "docker" \notin todo'[u] => read'[u] = NothingRead
        /\ SamplesAreRecent'
    <3>1. revision' = revision /\ since' = since /\ revision' \in Nat
      BY <1>8 DEF ActionRefreshes, TypeOK
    <3> QED BY <1>8, <3>1, DockerTaskSamples DEF ActionRefreshes
  <2> QED BY <1>8, <2>1, <2>2 DEF ActionRefreshes, ContainerInv
<1>9. ASSUME NEW c \in Containers, ContainerChanges(c) PROVE ContainerInv'
  <2>1. /\ \A d \in Containers : since[d] \subseteq since'[d]
        /\ \A d \in Containers \ {c} : remote'[d] = remote[d] /\ since'[d] = since[d]
        /\ remote'[c] \in since'[c]
        /\ settled' = settled \ {c}
        /\ UNCHANGED <<shown, todo, captured, read, revision, calls>>
    BY <1>9 DEF ContainerChanges, TypeOK
  <2>2. SamplesAreRecent'
    BY <2>1 DEF ContainerInv, SamplesAreRecent
  <2>3. \A d \in settled' : since'[d] = {remote'[d]} /\ shown'[d] \subseteq since'[d]
    BY <2>1 DEF ContainerInv, TypeOK
  <2> QED BY <2>1, <2>2, <2>3 DEF ContainerInv, OnTheHost
<1>10. CASE UNCHANGED <<hostVars, shown, taskVars, revision, calls>>
  BY <1>10 DEF ContainerInv, SamplesAreRecent, OnTheHost
<1> QED
  <2>1. ASSUME NEW r \in Refreshes, RefreshCalled(r) \/ RefreshWaits(r)
        PROVE  UNCHANGED <<hostVars, shown, taskVars, revision, calls>>
    BY <2>1 DEF RefreshCalled, RefreshWaits
  <2>2. ASSUME NEW p \in Polls, PollStarts(p)
        PROVE  UNCHANGED <<hostVars, shown, taskVars, revision, calls>>
    BY <2>2 DEF PollStarts
  <2>3. ASSUME NEW k \in Enabled, BecomesDue(k)
        PROVE  UNCHANGED <<hostVars, shown, taskVars, revision, calls>>
    BY <2>3 DEF BecomesDue
  <2>4. CooldownEnds => UNCHANGED <<hostVars, shown, taskVars, revision, calls>>
    BY DEF CooldownEnds
  <2>5. UNCHANGED vars => UNCHANGED <<hostVars, shown, taskVars, revision, calls>>
    BY DEF vars
  <2> QED BY <1>1, <1>2, <1>3, <1>4, <1>5, <1>6, <1>7, <1>8, <1>9, <1>10,
             <2>1, <2>2, <2>3, <2>4, <2>5 DEF Next

\* The inductive invariant, and what it is for: nothing that was under way
\* brings an older state of a container back after a successful action.
THEOREM ContainerInvHolds == Spec => []ContainerInv
BY TypeInit, TypeStep, ContainerInvInit, ContainerInvStep, PTL DEF Spec

\* After a successful container action entities show the container as it really
\* is until somebody touches it (apply_docker_action_state against samples that
\* _async_update_slow_data had under way).
THEOREM SettledContainers == Spec => []SettledContainersAgree
<1>1. ContainerInv => SettledContainersAgree
  BY DEF ContainerInv, SettledContainersAgree
<1> QED BY <1>1, ContainerInvHolds, PTL

-----------------------------------------------------------------------------
(* The refinement of ContainerView *)

\* A coordinator without data shows nothing of any container, as ContainerView
\* starts.
LEMMA RefinementInit == Init => View!ViewInit
BY DEF Init, View!ViewInit, NothingRead

\* Publishing a sample is the only step of a slow task that entities see of
\* the containers; what the sample may still be published for is recent.
LEMMA CollectorRefines ==
  ASSUME TypeOK, ContainerInv, NEW t \in Tasks, CollectorReturns(t)
  PROVE  View!InventoryPublished \/ UNCHANGED View!viewVars
<1>1. CASE PublishContainers(t)
  <2> DEFINE s == [c \in Containers |-> read[t][c] = {TRUE}]
  <2>1. \A c \in Containers : read[t][c] = {TRUE} \/ read[t][c] = {FALSE}
    <3>1. ASSUME NEW c \in Containers PROVE read[t][c] \in Knowledge /\ read[t][c] # {}
      BY <1>1 DEF PublishContainers, TypeOK
    <3> QED BY <3>1 DEF Knowledge
  <2>2. s \in [Containers -> BOOLEAN]
    OBVIOUS
  <2>3. \A c \in Containers : read[t][c] = {s[c]}
    BY <2>1
  <2>4. \A c \in Containers : s[c] \in since[c]
    BY <1>1, <2>3 DEF PublishContainers, Current, ContainerInv, SamplesAreRecent
  <2>5. shown' = [c \in Containers |-> {s[c]}]
    BY <1>1, <2>3 DEF PublishContainers, ReplaceContainers, TypeOK
  <2>6. UNCHANGED <<remote, since>>
    BY <1>1 DEF PublishContainers, hostVars
  <2> HIDE DEF s
  <2> QED BY <2>2, <2>4, <2>5, <2>6 DEF View!InventoryPublished
<1>2. CASE UNCHANGED <<hostVars, shown>>
  BY <1>2 DEF hostVars, View!viewVars
<1> QED
  BY <1>1, <1>2 DEF CollectorReturns, DiscardSample, PublishOther, hostVars, dataVars

\* Every step of the coordinator is a step of ContainerView or leaves what
\* entities see of the containers alone.
LEMMA RefinementStep ==
  TypeOK /\ ContainerInv /\ [Next]_vars => [View!ViewNext]_View!viewVars
<1> SUFFICES ASSUME TypeOK, ContainerInv, [Next]_vars
             PROVE  [View!ViewNext]_View!viewVars
  OBVIOUS
<1>1. ASSUME NEW t \in Tasks, CollectorReturns(t)
      PROVE  [View!ViewNext]_View!viewVars
  BY <1>1, CollectorRefines DEF View!ViewNext
<1>2. ASSUME NEW a \in Calls, ActionTakesEffect(a)
      PROVE  [View!ViewNext]_View!viewVars
  <2>1. calls[a].c \in Containers /\ calls[a].run \in BOOLEAN
    BY DEF TypeOK, CallType
  <2>2. View!ContainerTurns(calls[a].c, calls[a].run)
    BY <1>2 DEF ActionTakesEffect, View!ContainerTurns, dataVars
  <2> QED BY <2>1, <2>2 DEF View!ViewNext
<1>3. ASSUME NEW a \in Calls, ActionSucceeds(a)
      PROVE  [View!ViewNext]_View!viewVars
  <2>1. calls[a].c \in Containers /\ calls[a].run \in BOOLEAN
    BY DEF TypeOK, CallType
  <2>2. View!ActionSucceeds(calls[a].c, calls[a].run)
    BY <1>3 DEF ActionSucceeds, ApplyAction, View!ActionSucceeds
  <2> QED BY <2>1, <2>2 DEF View!ViewNext
<1>4. ASSUME NEW c \in Containers, ContainerChanges(c)
      PROVE  [View!ViewNext]_View!viewVars
  <2>1. (~ remote[c]) \in BOOLEAN
    OBVIOUS
  <2>2. View!ContainerTurns(c, ~ remote[c])
    BY <1>4 DEF ContainerChanges, View!ContainerTurns, dataVars
  <2> QED BY <2>1, <2>2 DEF View!ViewNext
<1>5. CASE UNCHANGED <<remote, since, shown>>
  BY <1>5 DEF View!viewVars
<1> QED
  <2>1. ASSUME NEW t \in Tasks, NEW c \in Containers, ReadContainer(t, c)
        PROVE  UNCHANGED <<remote, since, shown>>
    BY <2>1 DEF ReadContainer, hostVars, dataVars
  <2>2. ASSUME NEW p \in Polls, PollStarts(p)
        PROVE  UNCHANGED <<remote, since, shown>>
    BY <2>2 DEF PollStarts, hostVars, dataVars
  <2>3. ASSUME NEW p \in Polls \cup {Debounced}, PollReturns(p)
        PROVE  UNCHANGED <<remote, since, shown>>
    BY <2>3 DEF PollReturns, PollOk, PollFindsError, PollRaises, PollEnds,
                MergeBaseData, PreserveData, hostVars
  <2>4. ASSUME NEW k \in Enabled, BecomesDue(k)
        PROVE  UNCHANGED <<remote, since, shown>>
    BY <2>4 DEF BecomesDue, hostVars, dataVars
  <2>5. ASSUME NEW a \in Calls, NEW c \in Containers, NEW run \in BOOLEAN,
               ActionCalled(a, c, run)
        PROVE  UNCHANGED <<remote, since, shown>>
    BY <2>5 DEF ActionCalled, dataVars
  <2>6. ASSUME NEW a \in Calls, ActionFails(a) \/ ActionRefreshes(a)
        PROVE  UNCHANGED <<remote, since, shown>>
    BY <2>6 DEF ActionFails, ActionRefreshes, hostVars, dataVars
  <2>7. ASSUME NEW r \in Refreshes, RefreshCalled(r) \/ RefreshWaits(r)
        PROVE  UNCHANGED <<remote, since, shown>>
    BY <2>7 DEF RefreshCalled, RefreshWaits, hostVars, dataVars
  <2>8. CooldownEnds \/ UNCHANGED vars => UNCHANGED <<remote, since, shown>>
    BY DEF CooldownEnds, vars, hostVars, dataVars
  <2> QED BY <1>1, <1>2, <1>3, <1>4, <1>5, <2>1, <2>2, <2>3, <2>4, <2>5, <2>6,
             <2>7, <2>8 DEF Next

\* The coordinator implements ContainerView: what it publishes of the
\* containers is never older than the last successful action, however
\* samples, polls and actions interleave.
THEOREM Refinement == Spec => RefinesContainerView
BY RefinementInit, RefinementStep, TypeCorrect, ContainerInvHolds, PTL
   DEF Spec, RefinesContainerView, View!ViewSpec

-----------------------------------------------------------------------------
(* Base polls: the backoff, the data and the availability *)

\* Only the three ends of a poll touch the backoff, each by one of its steps
\* (_record_success, _record_failure).
LEMMA BackoffStep == [Next]_vars => [BackoffNext]_backoffVars
<1> SUFFICES ASSUME [Next]_vars PROVE BackoffNext \/ UNCHANGED backoffVars
  OBVIOUS
<1>1. ASSUME NEW p \in Polls \cup {Debounced}, PollReturns(p)
      PROVE  BackoffNext
  BY <1>1 DEF PollReturns, PollOk, PollFindsError, PollRaises, BackoffNext
<1>2. ASSUME NEW t \in Tasks, CollectorReturns(t) \/ \E c \in Containers : ReadContainer(t, c)
      PROVE  UNCHANGED backoffVars
  BY <1>2 DEF CollectorReturns, DiscardSample, PublishContainers, PublishOther, ReadContainer
<1>3. ASSUME NEW a \in Calls,
             \/ \E c \in Containers, run \in BOOLEAN : ActionCalled(a, c, run)
             \/ ActionTakesEffect(a) \/ ActionFails(a) \/ ActionSucceeds(a)
             \/ ActionRefreshes(a)
      PROVE  UNCHANGED backoffVars
  BY <1>3 DEF ActionCalled, ActionTakesEffect, ActionFails, ActionSucceeds, ActionRefreshes
<1>4. ASSUME NEW r \in Refreshes, RefreshCalled(r) \/ RefreshWaits(r)
      PROVE  UNCHANGED backoffVars
  BY <1>4 DEF RefreshCalled, RefreshWaits
<1>5. ASSUME NEW p \in Polls, PollStarts(p) PROVE UNCHANGED backoffVars
  BY <1>5 DEF PollStarts
<1>6. ASSUME NEW k \in Enabled, BecomesDue(k) PROVE UNCHANGED backoffVars
  BY <1>6 DEF BecomesDue
<1>7. ASSUME NEW c \in Containers, ContainerChanges(c) PROVE UNCHANGED backoffVars
  BY <1>7 DEF ContainerChanges
<1>8. CooldownEnds \/ UNCHANGED vars => UNCHANGED backoffVars
  BY DEF CooldownEnds, vars
<1> QED BY <1>1, <1>2, <1>3, <1>4, <1>5, <1>6, <1>7, <1>8 DEF Next

\* The polls of a coordinator, whatever runs beside them, are a backoff as
\* PollBackoff has it.
THEOREM BacksOff == Spec => BackoffSpec
<1>1. Init => BackoffInit
  BY DEF Init
<1> QED BY <1>1, BackoffStep, PTL DEF Spec, BackoffSpec

\* A success puts back what failures did; a failure below the threshold finds
\* the configured interval.
LEMMA IntervalStep ==
  ASSUME BackoffTypeOK, IntervalFollowsFailures, [BackoffNext]_backoffVars
  PROVE  IntervalFollowsFailures'
<1>1. CASE RecordSuccess
  BY <1>1, BackoffAssumption DEF RecordSuccess, IntervalFollowsFailures
<1>2. CASE RecordFailure
  BY <1>2, BackoffAssumption DEF RecordFailure, IntervalFollowsFailures, BackoffTypeOK, BackedOff
<1>3. CASE UNCHANGED backoffVars
  BY <1>3 DEF IntervalFollowsFailures, BackedOff
<1> QED BY <1>1, <1>2, <1>3 DEF BackoffNext

\* The interval in force is a function of the failures since the last success
\* (_record_failure, _record_success).
THEOREM IntervalFollows == Spec => []IntervalFollowsFailures
<1>1. Init => IntervalFollowsFailures
  BY BackoffAssumption DEF Init, BackoffInit, IntervalFollowsFailures
<1>2. TypeOK /\ IntervalFollowsFailures /\ [Next]_vars => IntervalFollowsFailures'
  BY BackoffStep, IntervalStep DEF TypeOK
<1> QED BY <1>1, <1>2, TypeCorrect, PTL DEF Spec

\* The interval doubles with each failure from the threshold on, up to the cap.
LEMMA LongerStep ==
  ASSUME BaseInterval <= BackoffMaxInterval,
         BackoffTypeOK, IntervalFollowsFailures, RecordFailure
  PROVE  current_interval' >= current_interval
<1> DEFINE e == consecutive_failures' - BackoffThreshold + 1
           d == consecutive_failures - BackoffThreshold + 1
<1>1. /\ consecutive_failures' = consecutive_failures + 1
      /\ consecutive_failures \in 0..MaxFailures /\ consecutive_failures < MaxFailures
      /\ current_interval \in Nat
  BY DEF RecordFailure, BackoffTypeOK
<1>2. CASE consecutive_failures' < BackoffThreshold
  BY <1>1, <1>2 DEF RecordFailure
<1>3. CASE ~ (consecutive_failures' < BackoffThreshold)
  <2>1. e \in 0..MaxFailures /\ e = d + 1
    BY <1>1, <1>3, BackoffAssumption
  <2>2. current_interval' = MinOf(BaseInterval * 2 ^ e, BackoffMaxInterval)
    BY <1>3 DEF RecordFailure, BackedOff
  <2>3. 2 ^ e \in Nat \ {0}
    BY <2>1, PowerAssumption
  <2>4. CASE consecutive_failures < BackoffThreshold
    <3>1. current_interval = BaseInterval
      BY <2>4 DEF IntervalFollowsFailures
    <3>2. BaseInterval * 2 ^ e >= BaseInterval /\ BaseInterval * 2 ^ e \in Nat
      <4> HIDE DEF e
      <4> QED BY <2>3, BackoffAssumption
    <3> QED BY <2>2, <3>1, <3>2, BackoffAssumption DEF MinOf
  <2>5. CASE ~ (consecutive_failures < BackoffThreshold)
    <3>1. current_interval = MinOf(BaseInterval * 2 ^ d, BackoffMaxInterval)
      BY <2>5 DEF IntervalFollowsFailures, BackedOff
    <3>2. d \in 0..MaxFailures
      BY <1>1, <2>5, BackoffAssumption
    <3>3. 2 ^ d \in Nat /\ 2 ^ e = 2 * 2 ^ d
      <4> HIDE DEF e, d
      <4> QED BY <2>1, <3>2, PowerAssumption
    <3>4. BaseInterval * 2 ^ e >= BaseInterval * 2 ^ d
          /\ BaseInterval * 2 ^ e \in Nat /\ BaseInterval * 2 ^ d \in Nat
      <4> HIDE DEF e, d
      <4> QED BY <3>3, BackoffAssumption
    <3> QED BY <2>2, <3>1, <3>4, BackoffAssumption DEF MinOf
  <2> QED BY <2>4, <2>5
<1> QED BY <1>2, <1>3

\* "Increase polling interval after repeated failures" (_record_failure), when
\* the configured interval is not above the cap.
THEOREM FailuresSlowPolling ==
  ASSUME BaseInterval <= BackoffMaxInterval
  PROVE  Spec => FailureNeverShortens
<1>1. TypeOK /\ IntervalFollowsFailures /\ [Next]_vars
        => [consecutive_failures' > consecutive_failures
              => current_interval' >= current_interval]_backoffVars
  <2> SUFFICES ASSUME TypeOK, IntervalFollowsFailures, [Next]_vars,
                      consecutive_failures' > consecutive_failures
               PROVE  current_interval' >= current_interval
    OBVIOUS
  <2>1. consecutive_failures \in Nat
    BY BackoffAssumption DEF TypeOK, BackoffTypeOK
  <2>2. RecordFailure
    BY <2>1, BackoffStep DEF BackoffNext, RecordSuccess
  <2> QED BY <2>2, LongerStep DEF TypeOK
<1> QED BY <1>1, TypeCorrect, IntervalFollows, PTL DEF Spec, FailureNeverShortens

\* What each kind of step does to the data and to what is known of the last poll.
LEMMA DataStep ==
  ASSUME [Next]_vars
  PROVE  /\ fields \subseteq fields'
         /\ \/ lastPoll' = lastPoll /\ failed' = failed
            \/ lastPoll' = "error" /\ failed' = TRUE
            \/ lastPoll' \in {"ok", "raised"}
<1>1. ASSUME NEW p \in Polls \cup {Debounced}, PollReturns(p)
      PROVE  /\ fields \subseteq fields'
             /\ \/ lastPoll' = "error" /\ failed' = TRUE
                \/ lastPoll' \in {"ok", "raised"}
  BY <1>1 DEF PollReturns, PollOk, PollFindsError, PollRaises, MergeBaseData, PreserveData
<1>2. ASSUME NEW t \in Tasks, CollectorReturns(t) \/ \E c \in Containers : ReadContainer(t, c)
      PROVE  fields \subseteq fields' /\ UNCHANGED <<lastPoll, failed>>
  BY <1>2 DEF CollectorReturns, DiscardSample, PublishContainers, PublishOther, ReadContainer
<1>3. ASSUME NEW a \in Calls,
             \/ \E c \in Containers, run \in BOOLEAN : ActionCalled(a, c, run)
             \/ ActionTakesEffect(a) \/ ActionFails(a) \/ ActionSucceeds(a)
             \/ ActionRefreshes(a)
      PROVE  UNCHANGED <<fields, lastPoll, failed>>
  BY <1>3 DEF ActionCalled, ActionTakesEffect, ActionFails, ActionSucceeds, ApplyAction,
              ActionRefreshes
<1>4. ASSUME NEW r \in Refreshes, RefreshCalled(r) \/ RefreshWaits(r)
      PROVE  UNCHANGED <<fields, lastPoll, failed>>
  BY <1>4 DEF RefreshCalled, RefreshWaits
<1>5. ASSUME NEW p \in Polls, PollStarts(p) PROVE UNCHANGED <<fields, lastPoll, failed>>
  BY <1>5 DEF PollStarts
<1>6. ASSUME NEW k \in Enabled, BecomesDue(k) PROVE UNCHANGED <<fields, lastPoll, failed>>
  BY <1>6 DEF BecomesDue
<1>7. ASSUME NEW c \in Containers, ContainerChanges(c)
      PROVE  UNCHANGED <<fields, lastPoll, failed>>
  BY <1>7 DEF ContainerChanges
<1>8. CooldownEnds \/ UNCHANGED vars => UNCHANGED <<fields, lastPoll, failed>>
  BY DEF CooldownEnds, vars
<1> QED BY <1>1, <1>2, <1>3, <1>4, <1>5, <1>6, <1>7, <1>8 DEF Next

\* Nothing that was collected once disappears from the data (_merge_base_data,
\* _clear_docker_data, _clear_storage_data, _async_update_data).
THEOREM FieldsKept == Spec => FieldsAreKept
<1>1. [Next]_vars => [fields \subseteq fields']_vars
  BY DataStep
<1> QED BY <1>1, PTL DEF Spec, FieldsAreKept

\* After a poll that came back with a collection error the host is offline until
\* a base poll says otherwise, whatever is published in between
\* (_async_update_data).
THEOREM ErrorsShowOffline == Spec => []CollectionErrorShowsOffline
<1> DEFINE Marked == lastPoll = "error" => failed = TRUE
<1>1. Init => Marked
  BY DEF Init
<1>2. Marked /\ [Next]_vars => Marked'
  BY DataStep
<1>3. Marked => CollectionErrorShowsOffline
  BY DEF CollectionErrorShowsOffline, Online
<1> QED BY <1>1, <1>2, <1>3, PTL DEF Spec

=============================================================================
