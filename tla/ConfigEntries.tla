--------------------------- MODULE ConfigEntries ---------------------------
(***************************************************************************)
(* The config entries of the integration: the config flow that creates an  *)
(* entry and the options flow that changes one (config_flow.py), and the   *)
(* reload that puts a change into effect (__init__.py, coordinator.py).    *)
(*                                                                         *)
(* A flow works on what it read when it was opened and checks a host       *)
(* before it awaits the connection test, so flows that are open together   *)
(* work on old data.  A server is its host and a custom sensor is its id,  *)
(* host and name (up to case); their other settings are left out.          *)
(*                                                                         *)
(* Flow dialogs, the list of entries and the serialised setup and unload   *)
(* of an entry are Home Assistant's, modelled from how the code uses them. *)
(***************************************************************************)
EXTENDS Naturals, Sequences, FiniteSets

CONSTANTS
  Entries,  \* bound of the model: config entries at a time
  Hosts,    \* host addresses
  Flows,    \* bound of the model: flow dialogs, each opened once
  Names,    \* names of custom sensors
  Ids,      \* bound of the model: ids of custom sensors
  NoEntry,  \* the entry of a config flow
  MaxServers \* bound of the model: servers per entry at the start

ASSUME EntriesAssumption == NoEntry \notin Entries /\ MaxServers \in Nat

VARIABLES
  (* the config entries, which Home Assistant stores *)
  servers,   \* servers[e]: hosts in servers_json, <<>> while e does not exist
  sensors,   \* sensors[e]: custom_sensors_json
  unique_id, \* unique_id[e]: the hosts whose hash it is
  (* the dialogs *)
  flow,
  (* setup and unload *)
  phase,     \* phase[e]: what is being done with e
  reload,    \* reload[e]: a reload task waits for its turn
  running,   \* running[e]: hosts and custom sensors with a coordinator
  (* history that only the properties use *)
  missed,    \* missed[f]: hosts that f took to be free and others saved
  stale,     \* flows whose entry another flow has saved
  raced      \* hosts that were saved although missed

storeVars == <<servers, sensors, unique_id>>
lifeVars == <<phase, running>>
historyVars == <<missed, stale, raced>>
vars == <<storeVars, flow, lifeVars, reload, historyVars>>

Sensor == [id : Ids, host : Hosts, name : Names]
HostsOf(s) == {s[i] : i \in DOMAIN s}
Configured(e) == servers[e] # <<>>
Nothing == [servers |-> <<>>, sensors |-> {}]

\* existing, own: what an options flow read of its entry when it was opened.
\* chosen: the servers a flow has collected; op, at: the step of the flow and
\* the server it edits; host: the server whose connection is being tested.
New == [st |-> "new", e |-> NoEntry, existing |-> <<>>, own |-> {},
        chosen |-> <<>>, op |-> "none", at |-> 0, host |-> {}]
Done == [New EXCEPT !.st = "done"]

Injective(s) == \A i, j \in DOMAIN s : s[i] = s[j] => i = j

\* Custom sensors have a server of the entry, an id and, per server, a name of
\* their own.
Fit(own, s) ==
  /\ \A d \in own : d.host \in HostsOf(s)
  /\ \A c, d \in own :
       c.id = d.id \/ (c.host = d.host /\ c.name = d.name) => c = d

\* The model starts with any entries that flows can have made, one dialog at a
\* time, and that are set up.
Init ==
  /\ servers \in [Entries -> UNION {[1..n -> Hosts] : n \in 0..MaxServers}]
  /\ \A e \in Entries : Injective(servers[e])
  /\ \A e1, e2 \in Entries :
       e1 # e2 => HostsOf(servers[e1]) \cap HostsOf(servers[e2]) = {}
  /\ sensors \in [Entries -> SUBSET Sensor]
  /\ \A e \in Entries : Fit(sensors[e], servers[e])
  /\ unique_id = [e \in Entries |-> HostsOf(servers[e])]
  /\ flow = [f \in Flows |-> New]
  /\ phase = [e \in Entries |-> IF Configured(e) THEN "loaded" ELSE "absent"]
  /\ reload = [e \in Entries |-> FALSE]
  /\ running = [e \in Entries |-> [servers |-> servers[e], sensors |-> sensors[e]]]
  /\ missed = [f \in Flows |-> {}]
  /\ stale = {}
  /\ raced = {}

-----------------------------------------------------------------------------
(* Saving *)

\* The hosts a flow has read or checked, and still counts on when it saves.
Counted(f) == HostsOf(flow[f].existing) \cup HostsOf(flow[f].chosen)
                \cup flow[f].host

\* What a save of the servers s to entry e by flow f means to the history.
Saved(f, e, s) ==
  /\ missed' = [g \in Flows |->
                  IF g = f \/ flow[g].st \in {"new", "done"} THEN {}
                  ELSE missed[g] \cup (IF flow[g].e = e THEN {}
                                       ELSE HostsOf(s) \cap Counted(g))]
  /\ stale' = (stale \ {f}) \cup {g \in Flows \ {f} : flow[g].e = e}
  /\ raced' = raced \cup (HostsOf(s) \cap missed[f])

Close(f) == flow' = [flow EXCEPT ![f] = Done]

\* faulty: no reload task
UpdateEntryNoReload(f, s, own) ==
  LET e == flow[f].e IN
  /\ servers' = [servers EXCEPT ![e] = s]
  /\ sensors' = [sensors EXCEPT ![e] = {d \in own : d.host \in HostsOf(s)}]
  /\ Close(f) /\ Saved(f, e, s)
  /\ UNCHANGED <<unique_id, lifeVars, reload>>

\* _update_entry: what the flow holds replaces the whole entry, without the
\* custom sensors of hosts that are gone, and a reload task is created.
UpdateEntry(f, s, own) ==
  LET e == flow[f].e IN
  /\ servers' = [servers EXCEPT ![e] = s]
  /\ sensors' = [sensors EXCEPT ![e] = {d \in own : d.host \in HostsOf(s)}]
  /\ reload' = [reload EXCEPT ![e] = TRUE]
  /\ Close(f) /\ Saved(f, e, s)
  /\ UNCHANGED <<unique_id, lifeVars>>

\* async_create_entry, at the end of a config flow; Home Assistant sets the
\* new entry up.  A set of hosts that is the unique id of an entry aborts.
CreateEntry(f, s) ==
  IF \E e \in Entries : Configured(e) /\ unique_id[e] = HostsOf(s)
  THEN /\ Close(f)
       /\ missed' = [missed EXCEPT ![f] = {}]
       /\ UNCHANGED <<storeVars, lifeVars, reload, stale, raced>>
  ELSE \E e \in Entries :
       /\ phase[e] = "absent"
       /\ servers' = [servers EXCEPT ![e] = s]
       /\ unique_id' = [unique_id EXCEPT ![e] = HostsOf(s)]
       /\ phase' = [phase EXCEPT ![e] = "setup"]
       /\ Close(f) /\ Saved(f, e, s)
       /\ UNCHANGED <<sensors, running, reload>>

-----------------------------------------------------------------------------
(* Opening a flow *)

\* _host_already_configured, of the config flow (own = NoEntry) and of the
\* options flow of entry own.
HostAlreadyConfigured(h, own) == \E e \in Entries \ {own} : h \in HostsOf(servers[e])

Opened(f, r) ==
  /\ flow[f].st = "new"
  /\ flow' = [flow EXCEPT ![f] = r]
  /\ UNCHANGED <<storeVars, lifeVars, reload, historyVars>>

\* The user adds the integration.
OpenConfigFlow(f) == Opened(f, [New EXCEPT !.st = "form", !.op = "user"])

\* async_step_zeroconf: a host was discovered.  It becomes the proposed host of
\* the user step, and ends the flow if an entry has it.
OpenDiscoveredFlow(f) ==
  /\ \E h \in Hosts : ~HostAlreadyConfigured(h, NoEntry)
  /\ OpenConfigFlow(f)

\* OptionsFlowHandler.__init__ reads the entry.
OpenOptionsFlow(f, e) ==
  /\ Configured(e)
  /\ Opened(f, [New EXCEPT !.st = "form", !.e = e,
                              !.existing = servers[e], !.own = sensors[e]])

\* The user closes the dialog.
CloseFlow(f) ==
  /\ flow[f].st = "form"
  /\ Close(f)
  /\ missed' = [missed EXCEPT ![f] = {}]
  /\ stale' = stale \ {f}
  /\ UNCHANGED <<storeVars, lifeVars, reload, raced>>

-----------------------------------------------------------------------------
(* Submitting a server *)

\* The step that the action chosen in async_step_init leads to, or the one
\* that add_another repeats.
Step(f, op) == flow[f].st = "form" /\ (flow[f].op = op \/ flow[f].op = "none")

\* faulty: the servers collected with add_another are not looked at
RefusedNotPending(f, h, op, at) ==
  LET current == IF op = "replace" THEN {}
                 ELSE {flow[f].existing[i] : i \in DOMAIN flow[f].existing \ {at}}
  IN h \in current \/ HostAlreadyConfigured(h, flow[f].e)

\* faulty: the options flow does not look at the other entries
RefusedInEntry(f, h, op, at) ==
  LET current == IF op = "replace" THEN {}
                 ELSE {flow[f].existing[i] : i \in DOMAIN flow[f].existing \ {at}}
  IN h \in current \cup HostsOf(flow[f].chosen)

\* The duplicate checks of async_step_user and _server_from_input: against the
\* servers the flow holds, but the one being edited, and all other entries.
Refused(f, h, op, at) ==
  LET current == IF op = "replace" THEN {}
                 ELSE {flow[f].existing[i] : i \in DOMAIN flow[f].existing \ {at}}
  IN h \in current \cup HostsOf(flow[f].chosen)
       \/ HostAlreadyConfigured(h, flow[f].e)

\* A server form is submitted and passes the checks: its connection is tested.
SubmitServer(f, h, op, at) ==
  /\ Step(f, op)
  /\ ~Refused(f, h, op, at)
  /\ flow' = [flow EXCEPT ![f].st = "testing", ![f].op = op, ![f].at = at,
                          ![f].host = {h}]
  /\ UNCHANGED <<storeVars, lifeVars, reload, historyVars>>

\* async_step_user of the config flow
SubmitUser(f, h) == flow[f].e = NoEntry /\ SubmitServer(f, h, "user", 0)

\* async_step_add_server
SubmitAdded(f, h) == flow[f].e # NoEntry /\ SubmitServer(f, h, "add", 0)

\* async_step_servers: the servers entered replace those of the entry.
SubmitReplacement(f, h) == flow[f].e # NoEntry /\ SubmitServer(f, h, "replace", 0)

\* async_step_select_server, async_step_edit_server
SubmitEdit(f, h) ==
  \E i \in DOMAIN flow[f].existing :
    /\ flow[f].op = "edit" => i = flow[f].at
    /\ SubmitServer(f, h, "edit", i)

\* _async_test_ssh_connection reports an error and the form is shown again.
TestFails(f) ==
  /\ flow[f].st = "testing"
  /\ flow' = [flow EXCEPT ![f].st = "form", ![f].host = {}]
  /\ UNCHANGED <<storeVars, lifeVars, reload, historyVars>>

\* faulty: they do not
FollowNot(own, old, new) == own

\* The custom sensors of a server follow it to its new host.
Follow(own, old, new) == {IF d.host = old THEN [d EXCEPT !.host = new] ELSE d : d \in own}

\* The server whose connection test of the step op succeeds: the step goes on
\* after its await.
Tested(f, op) ==
  {h \in flow[f].host : flow[f].st = "testing" /\ flow[f].op = op}

\* The user asked for another server (add_another).
Collect(f, h) ==
  /\ flow' = [flow EXCEPT ![f].st = "form", ![f].host = {}, ![f].chosen = Append(@, h)]
  /\ UNCHANGED <<storeVars, lifeVars, reload, historyVars>>

UserPasses(f) ==
  \E h \in Tested(f, "user") :
    Collect(f, h) \/ CreateEntry(f, Append(flow[f].chosen, h))

AddedPasses(f) ==
  \E h \in Tested(f, "add") :
    \/ Collect(f, h)
    \/ UpdateEntry(f, flow[f].existing \o Append(flow[f].chosen, h), flow[f].own)

ReplacementPasses(f) ==
  \E h \in Tested(f, "replace") :
    Collect(f, h) \/ UpdateEntry(f, Append(flow[f].chosen, h), flow[f].own)

EditPasses(f) ==
  LET i == flow[f].at IN
  \E h \in Tested(f, "edit") :
    UpdateEntry(f, [flow[f].existing EXCEPT ![i] = h],
                Follow(flow[f].own, flow[f].existing[i], h))

-----------------------------------------------------------------------------
(* The steps of the options flow that save at once *)

At(f) == flow[f].st = "form" /\ flow[f].op = "none" /\ flow[f].e # NoEntry

\* async_step_init without an action: only the common options change.
SaveCommon(f) == At(f) /\ UpdateEntry(f, flow[f].existing, flow[f].own)

\* async_step_remove_server, confirmed
RemoveServer(f, i) ==
  LET s == flow[f].existing IN
  /\ At(f) /\ Len(s) > 1
  /\ UpdateEntry(f, SubSeq(s, 1, i - 1) \o SubSeq(s, i + 1, Len(s)), flow[f].own)

\* faulty: the name is not checked
SensorAllowedAnyName(f, h, n, others) == h \in HostsOf(flow[f].existing)

\* _custom_sensor_from_input: the host is one of the entry's, and the name is
\* new for it among the others, where others leaves out the edited sensor.
SensorAllowed(f, h, n, others) ==
  /\ h \in HostsOf(flow[f].existing)
  /\ ~\E d \in others : d.host = h /\ d.name = n

\* uuid4: an id that nothing has.
FreshId(i) ==
  /\ \A e \in Entries : \A d \in sensors[e] \cup running[e].sensors : d.id # i
  /\ \A f \in Flows : \A d \in flow[f].own : d.id # i

AddSensor(f, h, n) ==
  /\ At(f)
  /\ SensorAllowed(f, h, n, flow[f].own)
  /\ \E i \in Ids :
       /\ FreshId(i)
       /\ UpdateEntry(f, flow[f].existing,
                      flow[f].own \cup {[id |-> i, host |-> h, name |-> n]})

EditSensor(f, d, h, n) ==
  /\ At(f)
  /\ SensorAllowed(f, h, n, flow[f].own \ {d})
  /\ UpdateEntry(f, flow[f].existing,
                 (flow[f].own \ {d}) \cup {[id |-> d.id, host |-> h, name |-> n]})

RemoveSensor(f, d) ==
  /\ At(f)
  /\ UpdateEntry(f, flow[f].existing, flow[f].own \ {d})

-----------------------------------------------------------------------------
(* Setup, unload and removal of an entry *)

\* The coordinators of what hass.data has of e: a custom sensor whose host has
\* no server gets none.
Coordinators(e) ==
  [servers |-> servers[e], sensors |-> {d \in sensors[e] : d.host \in HostsOf(servers[e])}]

\* async_setup_entry reads the entry into hass.data, and the first platform
\* that asks creates the coordinators.  A reload waits until both are done.
SetupEntry(e) ==
  /\ phase[e] = "setup"
  /\ phase' = [phase EXCEPT ![e] = "loaded"]
  /\ running' = [running EXCEPT ![e] = Coordinators(e)]
  /\ UNCHANGED <<storeVars, flow, reload, historyVars>>

\* async_unload_entry: the platforms remove the entities and the listeners of
\* the coordinators, which ends their polls, and hass.data forgets the entry.
Unloaded(e) ==
  /\ phase[e] = "loaded"
  /\ running' = [running EXCEPT ![e] = Nothing]

\* faulty: the reload ends after the unload
UnloadEntryOnly(e) ==
  /\ reload[e] /\ Unloaded(e)
  /\ reload' = [reload EXCEPT ![e] = FALSE]
  /\ phase' = [phase EXCEPT ![e] = "unloaded"]
  /\ UNCHANGED <<storeVars, flow, historyVars>>

\* A reload task gets the setup lock: async_reload.
UnloadEntry(e) ==
  /\ reload[e] /\ Unloaded(e)
  /\ reload' = [reload EXCEPT ![e] = FALSE]
  /\ phase' = [phase EXCEPT ![e] = "setup"]
  /\ UNCHANGED <<storeVars, flow, historyVars>>

\* The user deletes e; dialogs about it can no longer save anything.
RemoveEntry(e) ==
  /\ Unloaded(e)
  /\ phase' = [phase EXCEPT ![e] = "absent"]
  /\ servers' = [servers EXCEPT ![e] = <<>>]
  /\ sensors' = [sensors EXCEPT ![e] = {}]
  /\ unique_id' = [unique_id EXCEPT ![e] = {}]
  /\ reload' = [reload EXCEPT ![e] = FALSE]
  /\ flow' = [f \in Flows |-> IF flow[f].e = e THEN Done ELSE flow[f]]
  /\ missed' = [f \in Flows |-> IF flow[f].e = e THEN {} ELSE missed[f]]
  /\ stale' = {f \in stale : flow[f].e # e}
  /\ UNCHANGED raced

\* Home Assistant restarts: dialogs and tasks are gone, entries are set up.
Restart ==
  /\ flow' = [f \in Flows |-> IF flow[f].st = "new" THEN New ELSE Done]
  /\ phase' = [e \in Entries |-> IF Configured(e) THEN "setup" ELSE "absent"]
  /\ reload' = [e \in Entries |-> FALSE]
  /\ running' = [e \in Entries |-> Nothing]
  /\ missed' = [f \in Flows |-> {}]
  /\ stale' = {}
  /\ UNCHANGED <<storeVars, raced>>

Next ==
  \/ \E f \in Flows :
       \/ OpenConfigFlow(f) \/ OpenDiscoveredFlow(f) \/ CloseFlow(f)
       \/ \E e \in Entries : OpenOptionsFlow(f, e)
       \/ \E h \in Hosts : \/ SubmitUser(f, h) \/ SubmitAdded(f, h)
                         \/ SubmitReplacement(f, h) \/ SubmitEdit(f, h)
       \/ TestFails(f) \/ SaveCommon(f)
       \/ UserPasses(f) \/ AddedPasses(f) \/ ReplacementPasses(f) \/ EditPasses(f)
       \/ \E i \in DOMAIN flow[f].existing : RemoveServer(f, i)
       \/ \E h \in Hosts, n \in Names : AddSensor(f, h, n)
       \/ \E d \in flow[f].own, h \in Hosts, n \in Names : EditSensor(f, d, h, n)
       \/ \E d \in flow[f].own : RemoveSensor(f, d)
  \/ \E e \in Entries :
       \/ SetupEntry(e) \/ UnloadEntry(e) \/ RemoveEntry(e)
  \/ Restart

Spec == Init /\ [][Next]_vars

-----------------------------------------------------------------------------
(* Properties *)

\* Every variable has its type.
TypeOK ==
  /\ servers \in [Entries -> Seq(Hosts)]
  /\ sensors \in [Entries -> SUBSET Sensor]
  /\ unique_id \in [Entries -> SUBSET Hosts]
  /\ flow \in [Flows -> [st : {"new", "form", "testing", "done"},
                         e : Entries \cup {NoEntry}, existing : Seq(Hosts),
                         own : SUBSET Sensor, chosen : Seq(Hosts),
                         op : {"none", "user", "add", "replace", "edit"},
                         at : Nat, host : SUBSET Hosts]]
  /\ phase \in [Entries -> {"absent", "setup", "loaded"}]
  /\ reload \in [Entries -> BOOLEAN]
  /\ running \in [Entries -> [servers : Seq(Hosts), sensors : SUBSET Sensor]]
  /\ missed \in [Flows -> SUBSET Hosts]
  /\ stale \subseteq Flows /\ raced \subseteq Hosts

\* "This host was already added" (strings.json): an entry has each host once,
\* whichever steps and flows put it there, so the unique ids of its entities
\* differ; and an entry that exists never ends up without a server.
HostOnceInEntry ==
  \A e \in Entries :
    /\ Injective(servers[e])
    /\ (phase[e] # "absent") <=> Configured(e)

\* "This host is already configured" (strings.json): two entries share a host
\* only if a flow saved it after another flow had, which the check before the
\* connection test, or the opening of the flow, could not see.
EntriesDisjoint ==
  \A e1, e2 \in Entries :
    e1 # e2 => HostsOf(servers[e1]) \cap HostsOf(servers[e2]) \subseteq raced

\* The custom sensors of an entry have a server of the entry each, an id of
\* their own, and "a custom sensor with this name already exists for the
\* selected server" (strings.json) is refused, through renamed, replaced and
\* removed servers.
SensorsFit == \A e \in Entries : Fit(sensors[e], servers[e])

\* Editing a server keeps all its custom sensors, and a flow that saw the
\* last save of its entry takes no sensor and no server away by adding some.
EditsKeepSensors ==
  [][\A f \in Flows \ stale :
       LET e == flow[f].e IN
       flow[f].op \in {"add", "edit"} /\ servers'[e] # <<>> /\ flow'[f].st = "done"
         /\ flow[f].st = "testing"
       => /\ {d.id : d \in sensors[e]} = {d.id : d \in sensors'[e]}
          /\ Len(servers'[e]) >= Len(servers[e])]_vars

\* An entry that is loaded and awaits no reload runs what is stored for it
\* (async_update_entry followed by async_reload).
RunningIsConfigured ==
  \A e \in Entries :
    phase[e] = "loaded" /\ ~reload[e]
      => running[e] = [servers |-> servers[e], sensors |-> sensors[e]]

=============================================================================
