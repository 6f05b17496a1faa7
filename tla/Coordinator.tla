---------------------------- MODULE Coordinator ----------------------------
(***************************************************************************)
(* VServerCoordinator of one Linux host (coordinator.py) with the refresh  *)
(* and container services that drive it (__init__.py).                     *)
(*                                                                         *)
(* Everything here runs on Home Assistant's event loop, so the text        *)
(* between two awaits is one step.  The interleavings are those of the     *)
(* base polls, the slow collector tasks, the container actions and the     *)
(* refresh calls in flight, each of which reads state before an await and  *)
(* uses it, or writes, after it.                                           *)
(*                                                                         *)
(* A definition marked faulty is a mistake this code could have made in    *)
(* place of the definition after it, kept to show which property tells     *)
(* them apart; no specification uses it.                                   *)
(*                                                                         *)
(* The parts of Home Assistant it calls, DataUpdateCoordinator (the poll   *)
(* timer, last_update_success, async_set_updated_data) and its Debouncer   *)
(* for requested refreshes, are modelled from how the code uses them.      *)
(***************************************************************************)
EXTENDS PollBackoff, FiniteSets

CONSTANTS
  Containers,   \* container names of the host
  Enabled,      \* slow collectors with a positive interval
  Polls,        \* bound of the model: timer polls in flight at a time
  Debounced,    \* the poll that the debouncer runs, at most one at a time
  Tasks,        \* bound of the model: slow collector tasks at a time
  NoTask,       \* None in _slow_refresh_task
  Calls,        \* bound of the model: container actions in flight at a time
  MaxRevision,  \* bound of the model: successful container actions
  Refreshes     \* bound of the model: refresh service calls at a time

Collectors == {"docker", "package", "storage"}

\* Only the storage interval can be 0: async_get_or_create_coordinators
\* replaces a 0 of the two others by its default.
ASSUME CoordinatorAssumption ==
  /\ Containers # {}
  /\ {"docker", "package"} \subseteq Enabled
  /\ Enabled \subseteq Collectors
  /\ NoTask \notin Tasks
  /\ Debounced \notin Polls
  /\ MaxRevision \in Nat

VARIABLES
  (* the host *)
  remote,        \* remote[c]: is container c running
  (* the coordinator *)
  fields,        \* whose fields self.data has ({} while it is None)
  failed,        \* data["last_collection_failed"]
  shown,         \* container_stats: {} unknown, {b} shown running or not
  success,       \* last_update_success
  due,           \* collectors whose last attempt is an interval ago, or 0
  handle,        \* _slow_refresh_task
  revision,      \* _docker_state_revision
  (* polls, tasks, calls in flight *)
  armed,         \* the poll timer is set
  polling,       \* the polls that wait for async_sample
  debouncer,     \* "idle", "cooling", or "pending": cooling, one more asked
  todo,          \* todo[t]: collectors task t has not finished ({}: no task)
  captured,      \* captured[t]: docker_revision of task t
  read,          \* read[t][c]: what t's docker sample read of c, {} not yet
  calls,         \* container actions
  refreshes,     \* refresh service calls
  (* seen by entities, or history that only the properties use *)
  last_seen,     \* what was known of the host at the last last_seen stamp
  lastPoll,      \* how the last poll ended
  since,         \* since[c]: states of c since the last successful action
  settled        \* containers nobody touched since a successful action

dataVars == <<fields, failed, shown, success, last_seen>>
taskVars == <<todo, captured, read>>
hostVars == <<remote, since, settled>>
pollVars == <<backoffVars, lastPoll>>
slowVars == <<taskVars, due, handle>>
timerVars == <<armed, polling, debouncer>>
callVars == <<calls, refreshes>>
vars == <<hostVars, dataVars, slowVars, revision, timerVars, callVars, pollVars>>

Owners == Collectors \cup {"base"}
NothingRead == [c \in Containers |-> {}]
IdleCall == [st |-> "idle", on |-> NoTask,
             c |-> CHOOSE c \in Containers : TRUE, run |-> TRUE]
IdleRefresh == [st |-> "idle", on |-> NoTask, owed |-> {}]

\* The order of due_collectors in _schedule_slow_data.
First(S) == IF "docker" \in S THEN "docker"
            ELSE IF "package" \in S THEN "package" ELSE "storage"

\* The model starts when Home Assistant has started and the initial refresh
\* was requested (_schedule_initial_refresh), before or after the first
\* entity listens and arms the timer.
Init ==
  /\ BackoffInit
  /\ remote \in [Containers -> BOOLEAN]
  /\ since = [c \in Containers |-> {remote[c]}]
  /\ settled = {}
  /\ fields = {} /\ failed = FALSE /\ shown = NothingRead
  /\ success = TRUE /\ last_seen = "never"
  /\ due = Enabled /\ handle = NoTask /\ revision = 0
  /\ armed \in BOOLEAN /\ polling = {Debounced} /\ debouncer = "idle"
  /\ todo = [t \in Tasks |-> {}]
  /\ captured = [t \in Tasks |-> 0]
  /\ read = [t \in Tasks |-> NothingRead]
  /\ calls = [a \in Calls |-> IdleCall]
  /\ refreshes = [r \in Refreshes |-> IdleRefresh]
  /\ lastPoll = "none"

-----------------------------------------------------------------------------
(* Slow collector tasks: _async_update_slow_data *)

\* async_create_task runs the coroutine at once, up to its first await: the
\* revision is captured in the step that creates the task.
StartTask(t, S, rev) ==
  /\ todo[t] = {}
  /\ todo' = [todo EXCEPT ![t] = S]
  /\ captured' = [captured EXCEPT ![t] = IF "docker" \in S THEN rev ELSE 0]
  /\ handle' = t
  /\ UNCHANGED read

\* A listener stamps last_seen when an update finds success and data.
Stamp(known) ==
  last_seen' = IF success' /\ fields' # {} THEN known ELSE last_seen

\* async_set_updated_data: marks the coordinator successful, drops a pending
\* requested refresh and sets the poll timer anew.
SetUpdatedData(known) ==
  /\ success' = TRUE
  /\ debouncer' = "idle"
  /\ armed' = TRUE
  /\ Stamp(known)

\* What a task does at its end.  finally clears the handle, whichever task it
\* holds by now, and those who await t are woken.
KeepHandle == UNCHANGED handle  \* faulty
ClearHandle == handle' = NoTask

WakeNoAction(t) == UNCHANGED calls  \* faulty

WakeActions(t) ==
  calls' = [a \in Calls |->
    IF calls[a].st = "waiting" /\ calls[a].on = t
    THEN [calls[a] EXCEPT !.st = "woken", !.on = NoTask] ELSE calls[a]]

WakeRefreshes(t) ==
  refreshes' = [r \in Refreshes |->
    IF refreshes[r].st = "waiting" /\ refreshes[r].on = t
    THEN [st |-> "idle", on |-> NoTask, owed |-> refreshes[r].owed \ {t}]
    ELSE [refreshes[r] EXCEPT !.owed = @ \ {t}]]

Advance(t) ==
  LET rest == todo[t] \ {First(todo[t])} IN
  /\ todo' = [todo EXCEPT ![t] = rest]
  /\ captured' = [captured EXCEPT ![t] = 0]
  /\ read' = [read EXCEPT ![t] = NothingRead]
  /\ IF rest # {} THEN UNCHANGED <<handle, callVars>>
     ELSE ClearHandle /\ WakeActions(t) /\ WakeRefreshes(t)

\* The collector script of t's docker sample looks at one container.
ReadContainer(t, c) ==
  /\ "docker" \in todo[t]
  /\ read[t][c] = {}
  /\ read' = [read EXCEPT ![t][c] = {remote[c]}]
  /\ UNCHANGED <<pollVars, hostVars, dataVars, todo, captured, due, handle,
                 revision, timerVars, callVars>>

\* No container action completed while the docker collector ran.
AnySample(t) == TRUE  \* faulty
Current(t) == captured[t] = revision

DiscardSample(t) ==
  /\ "docker" \in todo[t]
  /\ ~ Current(t)
  /\ Advance(t)
  /\ UNCHANGED <<pollVars, hostVars, dataVars, due, revision, timerVars>>

\* A complete docker sample replaces every field that docker owns
\* (_clear_docker_data).
FillContainers(t) ==  \* faulty
  shown' = [c \in Containers |-> IF shown[c] = {} THEN read[t][c] ELSE shown[c]]
ReplaceContainers(t) == shown' = read[t]

PublishContainers(t) ==
  /\ "docker" \in todo[t]
  /\ Current(t)
  /\ \A c \in Containers : read[t][c] # {}
  /\ ReplaceContainers(t)
  /\ fields' = fields \cup {"docker"}
  /\ SetUpdatedData("contact")
  /\ Advance(t)
  /\ UNCHANGED <<pollVars, hostVars, failed, due, revision, polling>>

\* A docker sample that failed, or that the host could not complete, publishes
\* docker_collection_error only; package and storage publish their metrics or
\* their error.
PublishOther(t, known) ==
  /\ todo[t] # {}
  /\ "docker" \in todo[t] => Current(t)
  /\ fields' = fields \cup {First(todo[t])}
  /\ SetUpdatedData(known)
  /\ Advance(t)
  /\ UNCHANGED <<pollVars, hostVars, failed, shown, due, revision, polling>>

CollectorReturns(t) ==
  \/ DiscardSample(t)
  \/ PublishContainers(t)
  \/ \E known \in {"contact", "failure"} : PublishOther(t, known)

-----------------------------------------------------------------------------
(* Base polls: _async_update_data *)

\* The timer fires.  Every refresh starts by cancelling the timer and what
\* the debouncer has pending.
PollStarts(p) ==
  /\ armed
  /\ p \notin polling
  /\ polling' = polling \cup {p}
  /\ armed' = FALSE
  /\ debouncer' = "idle"
  /\ UNCHANGED <<pollVars, hostVars, dataVars, slowVars, revision, callVars>>

\* What every poll does at its end.  The debounced one starts the cooldown
\* and returns to the refresh call that asked for it, if one did.
PollEnds(p, started) ==
  /\ p \in polling
  /\ polling' = polling \ {p}
  /\ armed' = TRUE
  /\ IF p = Debounced
     THEN /\ debouncer' = "cooling"
          /\ refreshes' = [r \in Refreshes |->
               IF refreshes[r].st = "polling"
               THEN [refreshes[r] EXCEPT !.st = "polled", !.owed = started]
               ELSE refreshes[r]]
     ELSE UNCHANGED <<debouncer, refreshes>>
  /\ UNCHANGED <<hostVars, revision, calls>>

\* _merge_base_data: the host's fields over the last data.
ReplaceData ==  \* faulty
  /\ fields' = {"base"}
  /\ failed' = FALSE
  /\ shown' = NothingRead

MergeBaseData ==
  /\ fields' = fields \cup {"base"}
  /\ failed' = FALSE
  /\ UNCHANGED shown

\* The last data, if there are any, marked as those of a failed collection.
PreserveNothing ==  \* faulty
  /\ fields' = {"base"}
  /\ failed' = TRUE
  /\ shown' = NothingRead

PreserveUnmarked ==  \* faulty
  /\ fields' = IF fields = {} THEN {"base"} ELSE fields
  /\ UNCHANGED <<failed, shown>>

PreserveData ==
  /\ fields' = IF fields = {} THEN {"base"} ELSE fields
  /\ failed' = TRUE
  /\ UNCHANGED shown

\* _schedule_slow_data starts nothing while it knows of an active task.
StartWheneverDue == due # {}  \* faulty
SlowTaskMayStart == handle = NoTask /\ due # {}

\* The host answered, and the due slow collectors start.
PollOk(p) ==
  /\ IF SlowTaskMayStart
     THEN \E t \in Tasks : /\ StartTask(t, due, revision)
                           /\ due' = {}
                           /\ PollEnds(p, {t})
     ELSE /\ PollEnds(p, {})
          /\ UNCHANGED slowVars
  /\ RecordSuccess
  /\ success' = TRUE
  /\ MergeBaseData
  /\ Stamp("contact")
  /\ lastPoll' = "ok"

\* async_sample gave up (collection_error): the update returns normally.
PollFindsError(p) ==
  /\ PollEnds(p, {})
  /\ RecordFailure
  /\ success' = TRUE
  /\ PreserveData
  /\ Stamp("failure")
  /\ lastPoll' = "error"
  /\ UNCHANGED slowVars

\* async_sample raised: UpdateFailed, the data stay as they are.
PollRaises(p) ==
  /\ PollEnds(p, {})
  /\ RecordFailure
  /\ success' = FALSE
  /\ lastPoll' = "raised"
  /\ UNCHANGED <<fields, failed, shown, last_seen, slowVars>>

PollReturns(p) == PollOk(p) \/ PollFindsError(p) \/ PollRaises(p)

\* The interval of slow collector k is over (_slow_data_due).
BecomesDue(k) ==
  /\ k \in Enabled \ due
  /\ due' = due \cup {k}
  /\ UNCHANGED <<pollVars, hostVars, dataVars, taskVars, handle, revision,
                 timerVars, callVars>>

-----------------------------------------------------------------------------
(* Container actions: handle_docker_container_action *)

OnTheHost(a) == calls[a].st \in {"remote", "replied"}

ActionCalled(a, c, run) ==
  /\ calls[a].st = "idle"
  /\ revision + Cardinality({b \in Calls : OnTheHost(b)}) < MaxRevision
  /\ calls' = [calls EXCEPT ![a] = [IdleCall EXCEPT !.st = "remote", !.c = c,
                                                    !.run = run]]
  /\ settled' = settled \ {c}
  /\ UNCHANGED <<pollVars, remote, since, dataVars, slowVars, revision,
                 timerVars, refreshes>>

\* docker stop, start or restart takes effect.
ActionTakesEffect(a) ==
  /\ calls[a].st = "remote"
  /\ calls' = [calls EXCEPT ![a].st = "replied"]
  /\ remote' = [remote EXCEPT ![calls[a].c] = calls[a].run]
  /\ since' = [since EXCEPT ![calls[a].c] = @ \cup {calls[a].run}]
  /\ UNCHANGED <<pollVars, settled, dataVars, slowVars, revision, timerVars,
                 refreshes>>

\* SSH fails before the command ran, or after it took effect.
ActionFails(a) ==
  /\ OnTheHost(a)
  /\ calls' = [calls EXCEPT ![a] = IdleCall]
  /\ UNCHANGED <<pollVars, hostVars, dataVars, slowVars, revision, timerVars,
                 refreshes>>

\* apply_docker_action_state: samples under way are made stale, and a
\* container that is listed is shown as the action left it.
SameRevision == revision  \* faulty
NextRevision == revision + 1

ApplyAction(c, run) ==
  /\ revision' = NextRevision
  /\ UNCHANGED <<fields, failed>>
  /\ IF shown[c] = {}
     THEN UNCHANGED <<shown, success, debouncer, armed, last_seen>>
     ELSE /\ shown' = [shown EXCEPT ![c] = {run}]
          /\ SetUpdatedData("contact")

\* A docker task of its own, whatever the handle holds by now.
RequestDockerTask ==
  /\ \E t \in Tasks : StartTask(t, {"docker"}, revision')
  /\ due' = due \ {"docker"}

\* The success is applied, then async_request_docker_refresh runs up to its
\* first await: it waits for the active task, or starts one.
ActionSucceeds(a) ==
  LET c == calls[a].c
      alone == \A b \in Calls \ {a} : ~ (OnTheHost(b) /\ calls[b].c = c)
  IN
  /\ calls[a].st = "replied"
  /\ ApplyAction(c, calls[a].run)
  /\ IF handle = NoTask
     THEN /\ RequestDockerTask
          /\ calls' = [calls EXCEPT ![a] = IdleCall]
     ELSE /\ calls' = [calls EXCEPT ![a] = [IdleCall EXCEPT !.st = "waiting",
                                                            !.on = handle]]
          /\ UNCHANGED slowVars
  /\ since' = [d \in Containers |-> {remote[d]}]
  /\ settled' = IF alone /\ remote[c] = calls[a].run THEN settled \cup {c} ELSE settled
  /\ UNCHANGED <<pollVars, remote, polling, refreshes>>

\* The task waited for is done.  The handle is not looked at again.
ActionRefreshes(a) ==
  /\ calls[a].st = "woken"
  /\ calls' = [calls EXCEPT ![a] = IdleCall]
  /\ revision' = revision
  /\ RequestDockerTask
  /\ UNCHANGED <<pollVars, hostVars, dataVars, timerVars, refreshes>>

\* Somebody else starts or stops a container.
ContainerChanges(c) ==
  /\ remote' = [remote EXCEPT ![c] = ~ @]
  /\ since' = [since EXCEPT ![c] = @ \cup {~ remote[c]}]
  /\ settled' = settled \ {c}
  /\ UNCHANGED <<pollVars, dataVars, slowVars, revision, timerVars, callVars>>

-----------------------------------------------------------------------------
(* The refresh service: handle_refresh *)

StartDebouncedPoll ==
  /\ polling' = polling \cup {Debounced}
  /\ armed' = FALSE
  /\ debouncer' = "idle"

\* force_slow_refresh, then async_request_refresh: a call that finds the
\* debouncer at work or cooling down returns without a poll of its own.
RefreshCalled(r) ==
  /\ refreshes[r].st = "idle"
  /\ due' = Enabled
  /\ IF Debounced \in polling
     THEN /\ refreshes' = [refreshes EXCEPT ![r].st = "polled"]
          /\ UNCHANGED timerVars
     ELSE IF debouncer = "idle"
     THEN /\ refreshes' = [refreshes EXCEPT ![r].st = "polling"]
          /\ StartDebouncedPoll
     ELSE /\ refreshes' = [refreshes EXCEPT ![r].st = "polled"]
          /\ debouncer' = "pending"
          /\ UNCHANGED <<polling, armed>>
  /\ UNCHANGED <<pollVars, hostVars, dataVars, taskVars, handle, revision,
                 calls>>

\* async_wait_for_slow_refresh, once the polls of all coordinators of the call
\* are over: nothing to wait for, or the task the handle holds then.
WaitsNever(h) == FALSE  \* faulty
WaitsAlways(h) == TRUE  \* faulty
Waits(h) == h # NoTask

RefreshWaits(r) ==
  /\ refreshes[r].st = "polled"
  /\ refreshes' = [refreshes EXCEPT ![r].st = IF Waits(handle) THEN "waiting"
                                                               ELSE "idle",
                                    ![r].on = handle]
  /\ UNCHANGED <<pollVars, hostVars, dataVars, slowVars, revision, timerVars,
                 calls>>

\* The cooldown is over; a refresh that was asked for meanwhile runs.
CooldownEnds ==
  /\ debouncer # "idle"
  /\ IF debouncer = "pending" THEN StartDebouncedPoll
     ELSE debouncer' = "idle" /\ UNCHANGED <<polling, armed>>
  /\ UNCHANGED <<pollVars, hostVars, dataVars, slowVars, revision, callVars>>

-----------------------------------------------------------------------------

Next ==
  \/ \E t \in Tasks : CollectorReturns(t) \/ \E c \in Containers : ReadContainer(t, c)
  \/ \E p \in Polls : PollStarts(p)
  \/ \E p \in Polls \cup {Debounced} : PollReturns(p)
  \/ \E k \in Enabled : BecomesDue(k)
  \/ \E a \in Calls :
       \/ \E c \in Containers, run \in BOOLEAN : ActionCalled(a, c, run)
       \/ ActionTakesEffect(a) \/ ActionFails(a) \/ ActionSucceeds(a)
       \/ ActionRefreshes(a)
  \/ \E c \in Containers : ContainerChanges(c)
  \/ \E r \in Refreshes : RefreshCalled(r) \/ RefreshWaits(r)
  \/ CooldownEnds

Spec == Init /\ [][Next]_vars

\* Collectors and polls are bounded by their timeouts, timers fire and woken
\* coroutines run.  Nothing is assumed of users, of the host, or of the
\* success of what runs on it.
Fairness ==
  /\ \A t \in Tasks : WF_vars(CollectorReturns(t))
  /\ \A p \in Polls : WF_vars(PollStarts(p))
  /\ \A p \in Polls \cup {Debounced} : WF_vars(PollReturns(p))
  /\ \A k \in Enabled : WF_vars(BecomesDue(k))
  /\ \A a \in Calls : /\ WF_vars(ActionFails(a) \/ ActionSucceeds(a))
                      /\ WF_vars(ActionRefreshes(a))
  /\ \A r \in Refreshes : WF_vars(RefreshWaits(r))
  /\ WF_vars(CooldownEnds)

FairSpec == Spec /\ Fairness

-----------------------------------------------------------------------------
(* Invariants *)

\* Of a container: nothing, that it runs, or that it does not.
Knowledge == {{}, {TRUE}, {FALSE}}

CallType == [st : {"idle", "remote", "replied", "waiting", "woken"},
             on : Tasks \cup {NoTask}, c : Containers, run : BOOLEAN]

RefreshType == [st : {"idle", "polling", "polled", "waiting"},
                on : Tasks \cup {NoTask}, owed : SUBSET Tasks]

TypeOK ==
  /\ BackoffTypeOK
  /\ remote \in [Containers -> BOOLEAN]
  /\ since \in [Containers -> SUBSET BOOLEAN]
  /\ settled \subseteq Containers
  /\ fields \subseteq Owners
  /\ failed \in BOOLEAN
  /\ shown \in [Containers -> Knowledge]
  /\ success \in BOOLEAN
  /\ last_seen \in {"never", "contact", "failure"}
  /\ due \subseteq Enabled
  /\ handle \in Tasks \cup {NoTask}
  /\ revision \in Nat
  /\ armed \in BOOLEAN
  /\ polling \subseteq Polls \cup {Debounced}
  /\ debouncer \in {"idle", "cooling", "pending"}
  /\ todo \in [Tasks -> SUBSET Collectors]
  /\ captured \in [Tasks -> Nat]
  /\ read \in [Tasks -> [Containers -> Knowledge]]
  /\ calls \in [Calls -> CallType]
  /\ refreshes \in [Refreshes -> RefreshType]
  /\ lastPoll \in {"none", "ok", "error", "raised"}

\* After a successful action a container is shown in its real state for as
\* long as nobody touches it: no docker sample, base poll or other action
\* that was under way brings an older state back
\* (apply_docker_action_state, _async_update_slow_data).
SettledContainersAgree ==
  \A c \in settled : shown[c] \subseteq {remote[c]}

\* What makes it so, step by step: a sample that may still be published only
\* holds states from after the last successful action (the revision captured
\* before the await is compared after it), and an action that is under way
\* has taken its container out of settled.
SamplesAreRecent ==
  \A t \in Tasks : "docker" \in todo[t] /\ captured[t] = revision
                     => \A c \in Containers : read[t][c] \subseteq since[c]

ContainerInv ==
  /\ \A c \in Containers : remote[c] \in since[c]
  /\ \A t \in Tasks : captured[t] <= revision
  /\ \A t \in Tasks : "docker" \notin todo[t] => read[t] = NothingRead
  /\ SamplesAreRecent
  /\ \A c \in settled : since[c] = {remote[c]} /\ shown[c] \subseteq since[c]
  /\ \A a \in Calls : OnTheHost(a) => calls[a].c \notin settled

Running == {t \in Tasks : todo[t] # {}}

\* Tasks that neither a poll nor a refresh call nor an action can find.
Hidden == Running \ {handle}

\* Actions that will start a task of their own without looking at the handle.
Behind == {a \in Calls : calls[a].st \in {"waiting", "woken"}}

\* Slow tasks do not pile up: beside the one in the handle run at most as many
\* as container actions have succeeded, those not counted that are yet to start
\* theirs.  Polls add none, though finally clears the handle whichever task it
\* holds (_schedule_slow_data, async_request_docker_refresh).
SlowTasksBounded ==
  Cardinality(Hidden) + Cardinality(Behind) <= revision

\* What awaits a slow task can rely on: an action or a refresh call waits only
\* for a task that still runs, whose end therefore wakes it; and a refresh call
\* that has returned has missed its task only if the handle had lost that task
\* (async_request_docker_refresh, async_wait_for_slow_refresh).
WaitsInv ==
  /\ handle # NoTask => handle \in Running
  /\ \A a \in Calls : calls[a].st = "waiting" => calls[a].on \in Running
  /\ \A r \in Refreshes :
       /\ refreshes[r].st = "waiting" => refreshes[r].on \in Running
       /\ refreshes[r].owed \subseteq Running
       /\ refreshes[r].st = "idle" => handle \notin refreshes[r].owed

\* What makes SlowTasksBounded so: the handle holds a task that runs, and those
\* who wait for one are woken by its end.
TasksInv ==
  /\ IsFiniteSet(Hidden) /\ IsFiniteSet(Behind)
  /\ SlowTasksBounded
  /\ WaitsInv

\* What SlowTasksBounded says without container actions: two slow tasks never
\* run at once (_schedule_slow_data).
OneSlowTask ==
  \A t \in Tasks : todo[t] # {} => t = handle

\* "The refresh service waits for the Docker task it schedules"
\* (tests/test_refresh_waits_for_docker.py): when the call has returned, the
\* task its poll started is over (handle_refresh,
\* async_wait_for_slow_refresh).
RefreshWaitsForItsTask ==
  \A r \in Refreshes : refreshes[r].st = "idle" => refreshes[r].owed = {}

\* VServerOnlineBinarySensor.is_on.
Online == success /\ ~ failed

\* After a poll that came back with a collection error the host is shown
\* offline until a base poll succeeds, whatever the slow collectors and the
\* container actions publish in between (_async_update_data marks the data
\* it keeps, and the merges keep the mark).
CollectionErrorShowsOffline == lastPoll = "error" => ~ Online

-----------------------------------------------------------------------------
(* Action properties *)

\* Nothing that was collected once disappears from the data: a base poll
\* keeps the slow collectors' fields, they keep its fields and each other's,
\* and a failure keeps them all (_merge_base_data, _clear_docker_data,
\* _clear_storage_data).
FieldsAreKept == [][fields \subseteq fields']_vars

\* The safety half of ActionsEnd and RefreshesReturn.  A task that runs gets no
\* more collectors and each return takes one away; who waits for it goes on at
\* its end, neither before nor later (_async_update_slow_data).
WaitsEndWithTheirTask ==
  [][/\ \A t \in Running : /\ todo'[t] \subseteq todo[t]
                           /\ CollectorReturns(t) => todo'[t] # todo[t]
     /\ \A a \in Calls : calls[a].st = "waiting" =>
          IF calls[a].on \in Running' THEN calls'[a] = calls[a]
          ELSE calls'[a].st = "woken"
     /\ \A r \in Refreshes : refreshes[r].st = "waiting" =>
          IF refreshes[r].on \in Running'
          THEN refreshes'[r].st = "waiting" /\ refreshes'[r].on = refreshes[r].on
          ELSE refreshes'[r].st = "idle"]_vars

-----------------------------------------------------------------------------
(* The abstract specification *)

View == INSTANCE ContainerView
  WITH Containers <- Containers, remote <- remote, since <- since, shown <- shown

\* What entities see of the containers is what ContainerView promises.
RefinesContainerView == View!ViewSpec

-----------------------------------------------------------------------------
(* Liveness, under Fairness *)

\* A collector that is due, or was forced, runs as long as base polls keep
\* succeeding: a slow task that is active at every poll, or one whose handle
\* was lost, cannot keep it away for ever (_schedule_slow_data).
DueCollectorsRun ==
  []<><<\E p \in Polls \cup {Debounced} : PollOk(p)>>_vars
    => \A k \in Enabled : (k \in due ~> k \notin due)

\* A container action leads to a docker task of its own and is then over: the
\* task it waits for ends (async_request_docker_refresh).
ActionsEnd == \A a \in Calls : (calls[a].st = "waiting" ~> calls[a].st = "idle")

\* The refresh service always returns (handle_refresh).
RefreshesReturn ==
  \A r \in Refreshes : (refreshes[r].st # "idle" ~> refreshes[r].st = "idle")

\* Once the host stops changing and docker samples keep succeeding, every
\* container ends up shown as it is, whatever raced before.
ShownConverges ==
  /\ <>[][remote' = remote]_vars
  /\ []<><<\E t \in Tasks : PublishContainers(t)>>_vars
  => <>[](\A c \in Containers : shown[c] = {remote[c]})

=============================================================================
