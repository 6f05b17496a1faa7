# TLA+ verification of vserver-ssh-stats

This directory holds TLA+ models of the Home Assistant integration
`custom_components/vserver_ssh_stats`, the TLC runs that check them on small
instances, and proofs, checked by TLAPS, of what holds for every instance. Paths
below are relative to `src/custom_components/vserver_ssh_stats/` unless they
start with `README`, `tests` or `scripts`. `PROJECT.json` maps every definition
to the lines it translates and lists runs, mutants, findings, hazards and
theorems.

## 1. Inventory

Everything in the integration runs on Home Assistant's single event loop, except
the SSH sessions, which run in worker threads and on the remote host. The text
between two awaits is therefore atomic; the hard part is what happens across an
await, while polls, slow collector tasks, container actions and service calls
are in flight together.

| Part | State it keeps | Operations | Talks to |
|---|---|---|---|
| Host coordinator (`coordinator.py`, one per server) | `data`, `last_update_success`, `consecutive_failures`, `current_interval`, last attempt per slow collector, `_slow_refresh_task`, `_docker_state_revision` | base poll, slow collector task, apply and refresh after a container action, forced refresh | SSH collection; entities (listeners); services |
| Services (`__init__.py`) | remembered restart policies, last action status per host | refresh, start / stop / restart container, other remote actions, run command, purge history | SSH; coordinators; event bus |
| SSH collection (`ssh_collector.py`) | process-wide caches | base, package, docker and storage samples; custom commands; command fallback | paramiko in threads; caches |
| Caches (`net_cache.py`) | last counter, time, offset, peak, window per host | `compute` at every base sample | SSH collection |
| Entities (`sensor.py`, `binary_sensor.py`, `switch.py`, `button.py`, `update.py`, `docker_entities.py`) | `last_seen`, known containers, disks, ports | update on coordinator data, dynamic creation, recovery from the entity registry | coordinator; services |
| Config and options flows (`config_flow.py`) | the entry's servers, custom sensors and options | add, edit, remove; discovery | the entry; SSH test connection |
| Entry lifecycle (`__init__.py`, `coordinator.py`) | `hass.data[DOMAIN][entry]`, coordinator lists and locks | setup, unload, reload, get-or-create | platforms; coordinators |
| Remote script (`remote_collector.sh`) | none | prints one JSON object per mode | the host |
| Host keys, discovery, diagnostics, helpers | none | pure functions, network I/O | |

How they interact, for one host:

    timer / debouncer ──poll──▶ coordinator ──base sample──▶ host
                                   │ starts, when due
                                   ▼
                              slow task ──docker, package, storage──▶ host
                                   │ async_set_updated_data
    refresh service ──force, poll, wait──▶ coordinator ──▶ entities
    container action ──docker stop/start/restart──▶ host
                     ──apply state, request docker task──▶ coordinator

Hard behaviours, and what makes each part correct:

* *Coordinator*: a docker sample that was read before an action must not undo
  what the action established; slow tasks must not pile up on the host; what was
  collected must not be lost in a merge; failures must show as offline and slow
  polling down; due collectors must eventually run.
* *Services*: the refresh call returns after the work it started; a container
  action always ends; the name of a restart policy that a stop turned off survives
  until it is restored.
* *Caches*: counters that wrap, reset, go missing, and a clock that steps back,
  must not turn into absurd rates or energy that runs backwards.
* *Entities*: what an entity shows, what it acts on and what the inventory lists must
  be one container, and what a drive's entities show one drive, however names, device
  names and serial numbers coincide or change; a failure must not turn into health.
* *Flows and lifecycle*: no host configured twice, no lost update of the entry, no
  collector that survives its coordinator.

`PROJECT.json` lists the hazards at the lines where they bite, with the property
that covers each or the reason why none does yet.

## 2. Modules

| Module | Models | Kind |
|---|---|---|
| `PollBackoff` | `_record_success`, `_record_failure`, `_set_poll_interval` | state machine, used inside `Coordinator` |
| `ContainerView` | what a coordinator promises about container states | abstract specification |
| `Coordinator` | `VServerCoordinator`, `handle_refresh`, `handle_docker_container_action`, the online sensor | detailed specification |
| `MCCoordinator` | symmetry for TLC | model checking |
| `CoordinatorProofs` | theorems about `Coordinator`: types, data, containers, backoff | TLAPS |
| `SlowTaskProofs` | theorems about the slow tasks of `Coordinator` and who waits for them | TLAPS |
| `RestartPolicy` | the policy store of `handle_docker_container_action`, `_build_docker_container_commands`, `_exec_ssh_with_fallback` | state machine |
| `RestartPolicyProofs` | theorems about `RestartPolicy` | TLAPS |
| `HostCounters` | `NetStatsCache`, `EnergyStatsCache`, `ProcessPeakCache` and the base samples that feed them | state machine |
| `MCHostCounters` | symmetry for TLC | model checking |
| `HostCountersProofs` | theorems about `HostCounters` | TLAPS |
| `ConfigEntries` | config and options flows, setup, unload, reload and removal of entries | state machine |
| `MCConfigEntries` | symmetry for TLC | model checking |
| `ConfigEntriesProofs` | theorems about `ConfigEntries` | TLAPS |
| `ContainerEntities` | from a docker sample to the container entities of the platforms | state machine |
| `StorageHealth` | from a storage sample to the SMART verdict and the drive entities | state machine |
| `Inventory` | `ContainerEntities` and `StorageHealth` on one host, reloaded together | composition |
| `MCInventory` | names and serial numbers that coincide | model checking |
| `InventoryProofs` | theorems about `Inventory` | TLAPS |
| `RemoteCommand` | one remote command, its channel and the thread that reads its answer | state machine |
| `RemoteCommandProofs` | theorems about `RemoteCommand` | TLAPS |

### Coordinator

One Linux host. State and code correspond as follows.

| Variable | Code |
|---|---|
| `remote[c]` | the container on the host; anybody may start or stop it (`ContainerChanges`) |
| `fields` | which collectors' fields `self.data` holds; `{}` is `None` |
| `failed` | `data["last_collection_failed"]` |
| `shown[c]` | the `running` of `c` in `container_stats` and the two fields derived from it |
| `success` | `last_update_success` |
| `due` | `_last_*_attempt` is 0 or an interval ago (the clock is abstracted to `BecomesDue`) |
| `handle`, `revision` | `_slow_refresh_task`, `_docker_state_revision` |
| `armed`, `polling`, `debouncer` | the poll timer, polls that await `async_sample`, the request debouncer |
| `todo[t]`, `captured[t]`, `read[t]` | a slow task: collectors left, `docker_revision`, what its docker sample read so far |
| `calls[a]`, `refreshes[r]` | a container action, a refresh call, each with the await it is at |
| `last_seen` | whether the last stamp of the online sensor followed a contact or a failure |
| `since`, `settled`, `lastPoll`, `owed` | history that only properties use |

An action is the code between two awaits. `PollOk`, `PollFindsError` and
`PollRaises` are the three ends of `_async_update_data`; a poll that succeeds
starts the slow task in the same step, because `async_create_task` runs it up to
its first await, where it captures the revision. `CollectorReturns` is the text
after a collector's await up to the next one: discard when the revision moved,
else merge and publish; the last collector also runs `finally`, which clears the
handle *whichever task it holds*, and wakes those who awaited the task.
`ReadContainer` is the remote script reading one container, so a sample is not
atomic: it may mix states from before and after a change. `ActionSucceeds` is
`apply_docker_action_state` and `async_request_docker_refresh` up to its first
await; `ActionRefreshes` is that function after the await, where the handle is
not looked at again. `RefreshCalled` and `RefreshWaits` are the two halves of
`handle_refresh`.

Home Assistant's `DataUpdateCoordinator` and `Debouncer` are external: a poll
cancels the timer and a pending request, and sets the timer at its end;
`async_set_updated_data` sets `last_update_success`, cancels a pending request,
sets the timer again and calls the listeners; a request that meets a running or
cooling debouncer returns at once.

Three sets say who may be out of step with the handle: `Running` tasks, those of them
that are `Hidden` because another task's `finally` cleared the handle or a later one
took it, and the actions that are `Behind`, that is woken or to be woken, and will
start a task without looking.

`RefinesContainerView` is `View!ViewSpec` of the instance `View` of `ContainerView`.

### ContainerView

Entities see `shown`; the promise is that a published inventory shows each
container in a state it had *since* the last action whose success is known, and
that a success shows the state it guarantees. It knows no tasks, samples,
revisions or polls. `RefinesContainerView` maps `remote`, `since` and `shown` to
themselves.

### RestartPolicy

One container of one host. A stop reads the restart policy, sets it to `no`,
stops the container and prints the policy's name; Home Assistant remembers what was
printed; a start sets the policy of that name again. Docker's policy is a record of a
name and, for `on-failure`, a retry limit (`AllPolicies`); the script reads only the
name, and `docker update --restart` with a name alone leaves no limit (`Named`).

| Variable | Code |
|---|---|
| `running`, `policy` | the container on the host; its policy is a name and a limit |
| `store` | `hass.data[DOMAIN]["docker_restart_policies"][policy_key]`, a name |
| `act[a].st` | the docker call the remote script is at, or the await of the service |
| `act[a].tool` | which of the two commands runs: `docker`, then `sudo docker` |
| `act[a].restore`, `.prev` | `restore_restart_policy`; the script's `$restart_policy` |
| `act[a].out`, `.ok` | the name in the last command's output; `success` |
| `left` | names that scripts whose session broke may still set |
| `own`, `turnedOff`, `mishap` | history that only properties use |

Each docker call of a script is an action, and each may fail
(`CommandFails`), which ends this script and begins the `sudo docker` one from
the start; `NotStopped` is the last test of the stop script, which fails after
printing. `ConnectFails` and `SessionBreaks` are exceptions in
`_run_remote_action`; a script whose session broke stays on the host and may go
on. Exits between two docker calls change nothing and are part of the failing
call. Anybody may start or stop the container at any time, which also stands for
what such a script does to `running`.

The code loses parts of a policy, or all of it, and the model has every case.

* The *retry limit* is lost by every stop and start, with nothing going wrong: an
  owner's `on-failure:5` comes back as `on-failure`, which retries without end
  (`__init__.py:307`, `361`). The properties say so through `Kept`, what there is to
  keep: the owner's policy until a stop has turned it off, and from then on the policy
  of its name. `StartRestores` compares the container with `Kept`.
* The *name* is lost after one of five mishaps: a stop overlaps another stop or a
  start; a second stop comes while the first one's `no` is on the container; the
  docker command of a stop fails, or its session breaks, after the policy was read and
  before it was printed; the owner changes the policy while it is remembered; Home
  Assistant restarts while it is remembered or an action is under way. `mishap` names
  the first of them, and the properties say what holds as long as there was none.

So the properties state exactly which sequences are safe and how much of the policy
they keep. The repository promises nothing for the limit or for the five mishaps, so
none of it is a finding.

### HostCounters

The caches of one host, from the kernel's counters to what `async_sample` makes of
them.

| Variable | Code |
|---|---|
| `host` | the counters on the host: since boot, and one that wraps at `Range` |
| `samples[s]` | what the collector read for a base sample that is still on its way back |
| `net` | `NetStatsCache._last_net` (and the disk cache, which is the same class) |
| `energy` | `EnergyStatsCache`: `_last_energy`, `_offset_kwh`, whether `_last_range` is known |
| `peak`, `uptime` | `ProcessPeakCache` |
| `seen`, `account`, `origin`, `bootPeak`, `spoiled` | history that only properties use |

The host counts *one* thing, which stands for bytes, for microjoules and for
seconds of uptime at once. That is enough because each cache looks at one counter
and no property relates two caches; it is what lets one run cover all three. A
rate stands for the bytes it is made of. `SampleReads` is the collector on the
host, `SampleApplied` the text of `async_sample` after its last await; samples may
overlap and come back in any order (a timer poll and a debounced poll do). How many
processes a sample found, and whether it could read the range, is arbitrary and
chosen when it is applied. A sample that lacks only its energy is `SampleApplied`
followed by `SampleFails`.

A cache cannot see everything, and `spoiled` names the caches that something
unseen has hit: a sample that was read before the one applied last; for energy also
a reboot, a second wrap between two samples or a range that was never read; for the
peak also a reboot whose first sample has no smaller uptime. The properties hold
for caches that are not spoiled, so they say that nothing else can go wrong; and
`spoiled` ends where the code makes up for it: a failed sample starts energy over, a
reboot that shows starts the peak over.

### ConfigEntries

Several entries and flow dialogs. A server stands for its host and a custom sensor
for its id, host and (case-folded) name.

| Variable | Code |
|---|---|
| `servers[e]`, `sensors[e]` | `servers_json` and `custom_sensors_json` of entry `e` |
| `unique_id[e]` | the set of hosts that the entry was created with, whose hash is its unique id |
| `flow[f].existing`, `.own` | `_existing_servers`, `_custom_sensors`, as read when the flow was opened |
| `flow[f].chosen` | `_servers` of the config flow, `_pending_servers` of the options flow |
| `flow[f].op`, `.at`, `.host` | the step, the server it edits, the host whose connection is tested |
| `phase[e]`, `reload[e]` | Home Assistant's state of the entry; a reload task that waits for it |
| `running[e]` | the coordinators that poll |
| `missed`, `stale`, `raced` | history that only properties use |

`SubmitServer` is the text of `_server_from_input` (and of `async_step_user`) up to
the connection test: `Refused` is the duplicate check of each step, against what the
flow *read*, what it collected, and what the other entries have *now*. The four
`...Passes` actions are the text after the test, which collects the server or saves:
`UpdateEntry` is `_update_entry` (it writes back all the flow holds, drops the
sensors of hosts that are gone and creates a reload task), `CreateEntry` the end of
the config flow. Steps without a test (`SaveCommon`, `RemoveServer`, `AddSensor`,
`EditSensor`, `RemoveSensor`) save at once. Dialogs, the list of entries, unique ids
and the lock that serialises setup and unload are Home Assistant's.

Two flows that are open together do race: each may save a host the other has just
checked, and a later save undoes an earlier one. The repository promises nothing for
it, so the model has both and marks them: `raced` are hosts that a flow had counted
on as free when another saved them, `stale` flows whose entry another flow has saved.
The properties say that there is no other way to a double host, and that no save,
not even a stale one, leaves an entry inconsistent. That a stale save undoes the other
one is not a violation of any of them.

### ContainerEntities, StorageHealth and Inventory

The names of containers and drives, which `Coordinator` does not look at.

| Variable | Code |
|---|---|
| `present` | containers on the host, in the order of `docker ps` |
| `stats` | `container_stats`, from which `container_lookup` is made |
| `up` | platforms whose `async_setup_entry` has run since the last reload |
| `entities[p]` | `entities_by_container` / `known_containers` of the registry of `p`, with the name each entity has |
| `registered[p]` | Home Assistant's entity registry, which survives reloads |
| `devices` | drives in the order of `/sys/block`; a device name is a place in it |
| `verdict`, `lookup` | `smart_failure_detected`, `storage_device_lookup` |
| `made` | `known_devices` of `ServerStorageRegistry`, and the drive each was made for |
| `answered`, `unclear`, `alarming` | history that only properties use |

`KeyOf` is the sanitiser, an arbitrary function of names. `DockerSample` goes from
`docker info` and `docker ps`, which may be cut off, over `docker_stats_complete` and
`async_sample_docker` to the fields the coordinator publishes and the listeners of
the registries; a sample that is rejected only sets an error. `FirstNamed` is
`container_names_from_stats` (the first container of a key wins), `Lookup` is
`container_lookup` (the last one wins). `SetUp` is `async_setup_entry` of a platform:
entities for what `Recovered` found in the registry, then for the data there are.
Switch and button retarget an entity they know (`Retargeted`), sensors keep it
(`Extended`). `ReloadContainers` may rename the server, after which recovered names
are garbled.

`StorageSample` lets any set of the drives answer that are asked at all (`Asked`), each
with one of the three verdicts that `read_storage_health` can find in an answer
(`Statuses`): passed, failed, or unknown, which is what a drive with SMART disabled
gives and what is left when `smartctl` is cut off after its header. `DriveKey` is the
sanitised serial number, else the device name, made longer when an earlier drive of
the sample uses it.

A drive that did not answer makes `verdict` unknown, but an answer without a verdict
does not (`Verdict`): it counts as one that is not a failure. `FailureIsRemembered`
says how far the verdict can be relied on. When it turns to healthy, every drive that
was asked has answered, none failed, and a drive whose last verdict was a failure
(`alarming`) is among those that answered without one (`unclear`); and the warning is
on only for a drive that failed in the last sample. That the warning stands until such
a drive has *passed* is `WarningStands`, which the code does not do (section 6).
`FailureIsRemembered` assumes that tools stay installed and speaks of the drives that
some tool can read: with `nvme-cli` alone the script passes over a SATA drive without
counting an error, and the verdict is "healthy".

Two things about keys are left out. Keys are pairs of a serial number and a device
name, so a serial number that reads like another drive's lengthened key
(`ssh_collector.py:659`) is not in the model; and a drive has the same serial number in
each of its answers, although that of a SATA drive is read from the answer
(`remote_collector.sh:815`) and could be missing from one that was cut off.

`Inventory` composes the two. They share the coordinator and its reload and nothing
else, so `explored` picks for each behaviour which platforms are set up, or that only
drives change; it bounds the state space and the theorems hold for any choice.

### RemoteCommand

One SSH session, from `ssh.connect` to the answer. What `Coordinator` and
`RestartPolicy` see as one await is this machine.

| Variable | Code |
|---|---|
| `reader` | which of the three readers: `_read_custom_command_channel`, `_run_ssh` under `_async_collect_raw`, or `_exec_ssh_with_fallback` |
| `attempt` | which command runs, of those that a collector or an action tries in order |
| `ch` | the channel: bytes written and waiting per stream, end of output, exit status, silence |
| `pc` | the call the reader is at |
| `got`, `truncated` | what it has kept; `output_truncated` |
| `late` | the custom command's `command_timeout` has passed |
| `answer` | output or an error |

A byte is a count, and both streams share the window of one channel, so that a
command that fills it with one stream is held up while the reader waits for the other.
The command, sshd and paramiko are external (`Write`, `EndOutput`, `Exit`, `Closed`,
`Lose`): output may end before or after the exit, the exit status may overtake output
that comes behind it, and a host may fall silent. `CustomStep` is the loop of the
custom reader, one test or `recv` at a time, so that bytes and the status may arrive
between any two of them; `ReadStep` are `stdout.read()`, `stderr.read()` and
`recv_exit_status()`. `Fails` is the fallback: a collector goes on to the next command
with a new connection after an error, a timeout or output that is not JSON, an action
in the same session and only after an exit status that is not 0.

What is *not* promised shows in `AnswerIsWhole`: it counts from `before`, what had been
written when the exit status arrived. The custom reader takes an exit and two empty
streams for the end, so output that comes behind its exit status is lost without
`output_truncated`; and that flag speaks of stdout only.

## 3. Runs

| Run | Instance | Shows |
|---|---|---|
| `Actions` | 2 containers, 2 actions at a time, 2 slow tasks, 2 successes, a poll that may fail | `TypeOK`, `ContainerInv`, `SettledContainersAgree`, `CollectionErrorShowsOffline`, `RefinesContainerView` |
| `Refresh` | 1 refresh call (repeated), timer and debounced polls, up to 4 failures in a row, 2 tasks | `RefreshWaitsForItsTask`, `IntervalFollowsFailures`, `FieldsAreKept`, `FailureNeverShortens`, `RefreshesReturn` |
| `Live` | 1 container, 1 action, timer polls, 2 tasks | `TasksInv`, `DueCollectorsRun`, `ActionsEnd`, `ShownConverges` |
| `RestartPolicy` | 1 container, 2 actions at a time, policies `no`, `on-failure` and `on-failure:5` | `TypeOK`, `PolicyInv`, `PolicyIsRemembered`, `StartRestores`, `StopHolds` |
| `HostCounters` | 2 overlapping samples, range 2, 5 counts, 1 reboot | `TypeOK`, `CountersInv`, `NoByteTwice`, `EnergyIsExact`, `PeakIsOfBoot` |
| `ConfigEntries` | 2 flows, up to 2 entries, 3 hosts, 2 sensor ids, 1 name | `TypeOK`, `HostOnceInEntry`, `EntriesDisjoint`, `SensorsFit`, `RunningIsConfigured`, `EditsKeepSensors` |
| `Inventory` | 3 containers under 2 keys, 3 drives with 2 serial numbers and 3 verdicts, switch with sensor or button with binary sensor | `TypeOK`, `TargetIsListed`, `EntitiesComplete`, `FailureIsRemembered`, `NoDriveHidden`, `EntityFollowsDrive`, `InventoryIsWhole` |
| `RemoteCommand` | each of the three readers, 2 commands to try, 5 bytes per stream; limit 3, chunk 2, window 4 | `TypeOK`, `AnswerIsWhole`, `EveryRunAnswers` |
| `FindDrive`, `FindRefreshWait`, `FindSwitch`, `FindEnergy` | as small as the disagreement needs | see section 6 |

Bounds, and why they are enough: a race over a sample needs one task with a
sample under way, one action that completes, and one more task or action that
hides the first, so two of each reach every pairing; the second container shows
that an action on one does not disturb the other; the theorems of section 5
remove these bounds for the properties they state. `Refresh` takes an interval of
100 seconds so that four failures reach the cap of 300. `MaxFailures` and
`MaxRevision` bound counters that the code leaves unbounded; a poll may always
succeed, so the bound stops nothing. `storage` is left out of `Enabled` in the
runs: it behaves like `package`, and only its interval may be 0.

In `RestartPolicy` two actions are every pairing of kinds, and three policies tell
"turned off" from "the owner's" and a policy from its name; the theorems need neither
bound.

In `HostCounters` five counts of a counter with range 2 wrap it twice and leave one
count over; two samples in flight are enough to be late; one reboot can come before,
between or after them. The theorems need none of these bounds.

In `ConfigEntries` a race needs two flows, and a double host two entries; three hosts
leave one to edit to while each entry has one; two sensors can clash on a name, and
`MaxServers` bounds only the start, so that adding servers is not bounded by it. Each
flow is opened once, which bounds the saves after the start to two; the start is any
state that flows opened one after another can have made.

In `Inventory` a key that two containers or drives share and one that is not shared
are every case of a clash between two; one drive is enough for a verdict to change,
and a second one for a sample that is partial; the theorems remove the bounds.

In `RemoteCommand` a chunk of two bytes can straddle the limit of three, five bytes
exceed both the limit and the window, and two streams of them hold each other up; a
second command shows what a first one leaves behind. `CHECK_DEADLOCK` is off because
the machine is one command: it ends when the reader has come back, and it stops in
`recv_exit_status()` when no status comes. The theorems need none of the bounds except
`Limit` itself, which makes the bytes of a command finite but may be any number.

Symmetry over tasks, actions, calls, polls, samples, flows, entries, hosts and sensor
ids is used only where no liveness property is checked.

Every property of a passing run has a mutant: a definition marked *faulty* in the
module, a mistake this code could have made, under which TLC finds the property
violated.

## 4. Fairness

`Fairness` says that collectors and base samples return (SSH connections and
commands carry timeouts), that timers fire (`PollStarts`, `BecomesDue`,
`CooldownEnds`), that a container action comes back from SSH, and that woken
coroutines run. It says nothing of users, of the host, or of success: that polls
or docker samples keep succeeding is a hypothesis of the properties that need it
(`DueCollectorsRun`, `ShownConverges`). `ActionsEnd` is about the whole of an action,
the docker refresh included, which `__init__.py:910` leaves to a background task when
the service call has its answer.

`RemoteCommand` assumes that the thread runs (`CustomStep`, `ReadStep`), that
`ssh.connect` and the opening of a channel have a timeout (`Connect`) and that time
passes (`Late` for the deadline of a custom command, `RecvTimesOut` for a `recv` that
waits). It assumes nothing of the command or the network, so `EveryRunAnswers` holds
against any that hang. The timeout of a `recv` starts over with every byte, so the
bound on how long a command may take is that of its bytes. Two limits of the property:
the custom reader's inner loops look at no deadline, so a command that writes for
ever, and faster than it is read, would hold them, which the finite `Limit` excludes;
and `recv_exit_status()` has no timeout, which the property names. In `Coordinator`
the fairness of `CollectorReturns` therefore rests on commands that exit when their
output has ended.

## 5. Proofs

`CoordinatorProofs` proves, for every set of containers, polls, tasks, actions and
refresh calls and every interval:

* `TypeCorrect`: `Spec => []TypeOK`.
* `ContainerInvHolds`: `Spec => []ContainerInv`, the inductive invariant.
* `SettledContainers`: `Spec => []SettledContainersAgree`.
* `Refinement`: `Spec => RefinesContainerView`.
* `BacksOff`: `Spec => BackoffSpec`. The coordinator implements `PollBackoff` too.
* `IntervalFollows`: `Spec => []IntervalFollowsFailures`.
* `FailuresSlowPolling`: `Spec => FailureNeverShortens`, if `BaseInterval` is not above
  `BackoffMaxInterval`. The code does not guarantee that; section 6 says what happens
  without it.
* `FieldsKept`: `Spec => FieldsAreKept`.
* `ErrorsShowOffline`: `Spec => []CollectionErrorShowsOffline`.

`SettledContainersAgree` is not inductive: a sample under way may hold a state
that is about to be published. `ContainerInv` adds what the code's revision check
is for: a sample whose captured revision is still current has read only states
from after the last successful action (`SamplesAreRecent`), and an action that is
on the host has unsettled its container. An action that succeeds raises the
revision above every captured one, which makes all samples under way stale
(`NewTaskSamples`, `AdvanceSamples`); a new task captures the revision of its own
step with nothing read. The refinement then needs one fact more: the inventory
that `PublishContainers` shows is one that `ContainerView` allows
(`CollectorRefines`).

Backoff needs nothing of the tasks: `BackoffStep` shows that each step of the
coordinator is a step of `PollBackoff` or leaves its two variables alone, and
`FailuresSlowPolling` follows because the interval is a function of the failures
(`IntervalFollows`) that grows with them up to the cap. `CollectionErrorShowsOffline`
is not inductive, because publishing sets `success` again; that the kept data stay
marked as long as the last poll found an error is.

`SlowTaskProofs` proves, for the same constants:

* `TasksInOrder`: `Spec => []TasksInv`, the inductive invariant.
* `OneTaskWithoutActions`: until an action has succeeded, no two slow tasks run at
  once (`OneSlowTask`).
* `RefreshSeesItsTask`: until then `RefreshWaitsForItsTask` holds;
  `RefreshWaitsWithoutActions`: it always does where there are no actions.
* `WaitsEnd`: `Spec => WaitsEndWithTheirTask`.

`OneSlowTask` is what one would like to prove and is neither true once an action has
succeeded nor inductive before: `finally` clears the handle whichever task it holds,
so it must be known that no second task is there to be hidden, and that no waiting
action is about to start one. `TasksInv` counts both: an action that
succeeds raises the revision by one and either starts a task, when the handle is
empty, or waits (`PileWaits`); one that waited goes on by starting its task without
looking, which hides at most the one in the handle (`PileStarts`); and a hidden
task that ends clears the handle, so that the task there is hidden in its place
(`PileSwaps`). So `Hidden` and `Behind` together never
number more than `revision`, and polls, however many, add none. `WaitsInv` adds that
whoever waits, waits for a task that runs: its end is a step that wakes them.
`WaitsEndWithTheirTask` turns this into an action property, the safety half of
`ActionsEnd` and `RefreshesReturn`: with it, what fairness has to give is only that a
task that runs ends. TLC has checked it on 1 action, 1 call, 1 poll and 3 tasks; no run
repeats that.

`RestartPolicyProofs` proves, for any number of actions, any names of policies and any
retry limits:

* `RestartTypeCorrect`: `Spec => []TypeOK`.
* `PoliciesInOrder`: `Spec => [](TypeOK /\ PolicyInv)`, the inductive invariant.
* `PolicyNeverLost`, `StartsRestore`, `StopsHold`: the three properties.

`PolicyIsRemembered` is not inductive: that the policy is somewhere now says
nothing of whether the next step still finds it. `PolicyInv` says who knows what
at each docker call: a stop has start and stop to itself (`StopsAlone`), it has
not yet touched the policy or knows the name of the owner's (`StopInv`), and a start
captured this name or had nothing to restore (`StartInv`). It also says when the name
is all there is to keep (`NameIsAll`): from the step that turns a policy off, so that
neither the store nor a start can bring back less than `Kept`; for a policy that is
"no" from the start, because only `on-failure` has a limit (`KeptNames`). `MovesOn` is
the common part of the steps that leave the policy alone; failures (`FailuresKeep`) are
safe because every one that is not a mishap comes when what there is to keep is still,
or again, on the container. There is one lemma per group of actions.

`HostCountersProofs` proves, for any number of samples, any counter range and any
process counts:

* `CountersTypeCorrect`: `Spec => []TypeOK`.
* `CountersInOrder`: `Spec => []CountersInv`, the inductive invariant.
* `BytesCountedOnce`, `EnergyExact`, `PeakOfBoot`: the three properties.
* `EnergyFallsOnlyByFailure`: `Spec => EnergyNeverFalls`, what is left of the
  "cumulative" total that `FindEnergy` refutes: no sample that succeeds lowers a total
  that is known and not spoiled. It follows from `EnergyExact` before and after the
  step; TLC has checked it on the instance of `HostCounters`.

What makes the properties inductive is that any two readings, and each reading and
the host, are ordered: one is a past of the other (`Follows`), which says how much
can have been counted between them and how often the counter wrapped
(`ReadingsInv`). A sample that is not late is then applied to caches that hold a
past of it (`InOrder`, `CachesInv`), and the difference of two counters tells what
came between (`Between`). `EnergyInv` is `EnergyIsExact` without the counter, which
both sides share.

`ConfigEntriesProofs` proves, for any entries, hosts, flows, names and ids and any
number of servers per entry:

* `EntriesTyped`, `HostsOnce`, `OnlyRacesShare`, `SensorsKeepTheirServer`,
  `ConfiguredIsRunning`, `EditsLoseNothing`: all properties of the `ConfigEntries` run.
* `EntriesInvariant`: the inductive invariant.

None of the properties is inductive, because a save writes what its dialog holds, not
what is stored. `DialogOK` says that what a dialog collected and the host it tests are
new to what its step will keep (each step keeps something else, so it goes by `op`);
this makes the lists a save concatenates, replaces in or cuts duplicate-free
(`AppendIs`, `ConcatIs`, `ReplaceIs`, `RemoveIs`) and lets renamed sensors stay apart
(`FollowIs`). `HeldOrMissed` says that a held host is in another entry only if it was
saved after the dialog looked, from which `Saves` derives `EntriesDisjoint`.
`FreshOK` says that a dialog that is not stale holds its entry as it is, from which
`EditsLoseNothing` follows. The lemmas before `EntriesStep` take one step each.

`InventoryProofs` proves, for any containers, drives, keys and serial numbers:

* `TypesHold`: `Spec => []TypeOK`.
* `ContainersInOrder`, `DrivesInOrder`: the two inductive invariants.
* `TargetsListed`, `EntitiesAreComplete`, `InventoriesAreWhole`,
  `FailuresAreRemembered`, `DrivesAreListed`, `EntitiesFollowDrives`: the properties.
* `TargetsShown`: whenever no two listed containers share a key, `TargetIsShown` holds,
  the property that `FindSwitch` refutes without this condition.

`TargetIsListed` is not inductive: it must be known which of the containers of a key
an entity has. `Aimed` says that it is the one `container_names_from_stats` names, for
every key of the data (and, if the keys of what is listed differ, the one
`container_lookup` shows, `FirstIsLast`); each sample and each setup establishes it again
(`PublishKeeps`, `SetUpKeeps`, from `CreatedIs` and `FirstNamedListed`). For drives the
key must be shown not to depend on the sample: `KeysDiffer` proves that lengthened
keys never meet another key, `OwnKeysInSample` that a drive with a serial number of
its own has a key that no other drive can get in any sample, and `OwnKeys` of what is
published and of what entities were made for then agree.

`RemoteCommandProofs` proves, for any limit, chunk, window and number of commands:

* `ReadersInOrder`: `Spec => []ReaderInv`, the inductive invariant.
* `ReadersTyped`, `AnswersAreWhole`: `TypeOK` and `AnswerIsWhole`.

`AnswerIsWhole` looks only at the end. `ChannelOK` accounts for every byte before it:
what was sent waits in the channel, was kept, or was dropped beyond the limit. `PlaceOK`
says what the reader knows where it is: that `output_truncated` is set exactly when
more than the limit was taken, that a status is there when the streams are looked at
again, that a stream which was read to its end stays empty. Whatever the channel does
on its own keeps the invariant for one reason (`RemoteKeeps`), and so does every `recv`
(`RecvKeeps`).

Assumptions are `BackoffAssumption`, `PowerAssumption` (powers of two are positive
and double with the exponent; the provers know no exponentiation), `CoordinatorAssumption`,
`RestartAssumption` (no policy is not the name of one, and retry limits are positive)
and `CountersAssumption` (the range is positive, and no value is not a number or a reading), `ContainerAssumption` (names
are finitely many and sanitised to keys, and a garbled name is none of them),
`StorageAssumption` (drives are finitely many), `InventoryAssumption` (only
platforms are explored) and `RemoteAssumption` (sizes are positive). TLC evaluates them in the runs.

Only model-checked: liveness (`DueCollectorsRun`, `ActionsEnd`, `ShownConverges`,
`RefreshesReturn`, `EveryRunAnswers`), which is out of the prover's reach. Every other
property of a passing run has its theorem, two of them under a condition:
`FailureNeverShortens` (the interval is not above the cap) and
`RefreshWaitsForItsTask` (no action has succeeded). Both conditions are needed, as section 6 says.

## 6. Where the code and its words part

* `FindDrive` — a drive that failed SMART answers the next sample without a verdict,
  because `smartctl` was cut off after its header or SMART was disabled, and
  `smart_failure_detected` turns to healthy (`ssh_collector.py:694`), where
  `README.md:484` says that partial reads are exposed "instead of being reported as
  healthy". A drive that does not answer at all, or whose answer has no header, is
  exposed as promised (`FailureIsRemembered`).
* `FindRefreshWait` — with one container action beside it, the refresh call
  returns while the task its poll started still runs: the action's own task
  starts beside it, and the first to end clears the handle of the other
  (`coordinator.py:247`, `coordinator.py:356`). Until an action has succeeded the
  property holds (`Refresh`, `RefreshSeesItsTask`). The wait that follows a poll is a
  step of its own because `handle_refresh` gathers the polls of all coordinators first.
* `FindSwitch` — two containers whose names differ in one sanitised character share a
  switch that shows the last of them and starts and stops the first
  (`docker_entities.py:26`, `ssh_collector.py:600`); `TargetsShown` proves that nothing
  else can part the two.
* `FindEnergy` — a failed sample drops the offset of the energy total, so after a
  wrap the "cumulative" total falls below what was consumed while Home Assistant
  ran (`net_cache.py:49`). Between failures it does not fall
  (`EnergyFallsOnlyByFailure`).

`PeakIsOfBoot` holds only up to a mishap that parts with a docstring too: "the
highest observed process count for the current boot" (`net_cache.py:82`) is that of
an earlier boot when the first sample after a reboot has no smaller uptime than the
last one before it, as after a long outage of Home Assistant's network.

More is visible in the models and has no run: a poll that finds a collection error
still counts as an update with success and data, so `last_seen` moves on while the host
is unreachable (`binary_sensor.py:94`, `README.md:48`; already the first such poll does
it, see `Stamp`); a stop and a start drop the retry limit of `on-failure`
(`__init__.py:307`), which no document mentions; with an interval above 300 seconds a
failure shortens it to the cap (`coordinator.py:371`), which is why
`FailuresSlowPolling` assumes an interval up to it; output that follows its exit
status is lost to a custom sensor, and a collection that gets no exit status after the
end of its output waits for ever (`ssh_collector.py:123`), though each `recv` before it
has a timeout; a collector that timed out is tried again with the next command while
the first may still run on the host; a slow result published after a base
poll that raised shows the host online again; publishing drops a refresh that waits
for the debouncer; a forced refresh that meets an active slow task runs no slow
collector (`coordinator.py:187` says it makes "the next refresh run all slow
collectors"; `DueCollectorsRun` shows that a later poll does); with `nvme-cli` alone a
SATA drive counts as healthy (`README.md:484`); an entry whose servers were replaced
keeps its unique id, so that its first hosts cannot be added as a new entry.

## 7. Not modelled

* Windows hosts (they have no slow collectors), packages, and the contents of metrics:
  values, `_build_health` and the port, disk and temperature sensors are functions of
  the data of one sample.
* `RollingAverageCache`, and the clock that rates and windows depend on.
* The classification of errors by wording, the choice of command by operating system,
  and how collector output is parsed; `CollectorStatus` leaves it open whether output
  is JSON.
* A server with an empty name, which `coordinator.py:482` skips. The forms ask for a
  character, but the options flow strips a blank one (`config_flow.py:1070`): such a
  server is stored and never polled. `ConfigEntries` takes every server to have a name.
* Flow forms, single-field errors, the host list of discovery, and Home Assistant's
  own duplicate detection of discovery flows; a platform that fails to unload; a slow
  task that outlives the unload of its entry.
* The other remote actions and `run_command` with its allowlist, which share
  `_run_remote_action` and change no state beyond the last action status; purging of
  history; the update entity.
* Host key parsing, network discovery, diagnostics, translations, examples and the
  scripts: they keep no state between calls.

## 8. Plan

1. `PollBackoff`, `ContainerView`, `Coordinator`, `CoordinatorProofs` — done.
2. `RestartPolicy`, `RestartPolicyProofs` — done.
3. `HostCounters`, `HostCountersProofs` — done. Left: `RollingAverageCache` and the
   clock that rates and windows depend on.
4. `ConfigEntries`, `ConfigEntriesProofs` — done. Left: slow tasks that outlive an
   unload, which needs unloading in `Coordinator`.
5. `ContainerEntities`, `StorageHealth`, `Inventory`, `InventoryProofs` — done. Left:
   disk sensors.
6. `RemoteCommand`, `RemoteCommandProofs` — done. Left: a command that outlives its
   reader beside the one that is tried next.
7. `SlowTaskProofs` and the backoff and availability theorems of `CoordinatorProofs` —
   done. Left: abstract specifications, with refinements, of the policy store (what a
   stop followed by a start promises) and of a remote command (one whole answer).
