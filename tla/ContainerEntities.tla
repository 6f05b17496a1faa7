------------------------- MODULE ContainerEntities -------------------------
(***************************************************************************)
(* From one docker sample of a host to the container entities of its       *)
(* coordinator: the remote script lists the containers, the collector      *)
(* keeps or rejects the sample, and the registries of the platforms create *)
(* entities from it and from Home Assistant's entity registry.             *)
(*                                                                         *)
(* Entities are keyed by the sanitised container name, actions take the    *)
(* raw one.  Names are made to matter here; the races of samples, actions  *)
(* and polls are in module Coordinator, so a sample is one step.           *)
(***************************************************************************)
EXTENDS Naturals, Sequences, FiniteSets

CONSTANTS
  Names,     \* container names
  Keys,      \* sanitised container names
  KeyOf,     \* sanitize_container_name
  Garbled,   \* a name that a renamed server left in the entity registry
  NoData     \* container_stats while there is none

\* The platforms with container entities; those of switch and button act on
\* the container.
Platforms == {"switch", "button", "sensor", "binary_sensor"}
Acting == {"switch", "button"}

ASSUME ContainerAssumption ==
  /\ IsFiniteSet(Names)
  /\ KeyOf \in [Names -> Keys]
  /\ Garbled \notin Names
  /\ NoData \notin Seq(Names)

VARIABLES
  present,     \* containers on the host, in the order of docker ps
  stats,       \* names in data["container_stats"]
  up,          \* platforms that are set up
  entities,    \* entities[p]: key -> container name of an entity of platform p
  registered   \* registered[p]: key -> name, in the entity registry

containerVars == <<present, stats, up, entities, registered>>

NamesOf(s) == {s[i] : i \in DOMAIN s}
NoEntities == [k \in {} |-> Garbled]
Listings == {s \in UNION {[1..n -> Names] : n \in 0..Cardinality(Names)} :
               \A i, j \in DOMAIN s : s[i] = s[j] => i = j}

ContainersInit ==
  /\ present \in Listings
  /\ stats = NoData
  /\ up = {}
  /\ entities = [p \in Platforms |-> NoEntities]
  /\ registered = [p \in Platforms |-> NoEntities]

-----------------------------------------------------------------------------
(* Lookups *)

KeysOf(s) == IF s = NoData THEN {} ELSE {KeyOf[s[i]] : i \in DOMAIN s}

\* faulty: names are not sanitised
RawNamed(s) == [n \in IF s = NoData THEN {} ELSE NamesOf(s) |-> n]

\* container_names_from_stats: the first container of a key names it.
FirstNamed(s) ==
  [k \in KeysOf(s) |-> LET I == {i \in DOMAIN s : KeyOf[s[i]] = k}
                       IN s[CHOOSE i \in I : \A j \in I : i <= j]]

\* container_lookup, which find_container reads: the last one of a key stays.
Lookup(s) ==
  [k \in KeysOf(s) |-> LET I == {i \in DOMAIN s : KeyOf[s[i]] = k}
                       IN s[CHOOSE i \in I : \A j \in I : i >= j]]

-----------------------------------------------------------------------------
(* One docker sample *)

\* read_docker_stats: whether docker info and docker ps worked and what docker
\* ps printed, which may be some of its lines if it failed or ran into its
\* limit.  The details that docker stats and docker inspect add are left out.
ScriptOutcomes == [info : BOOLEAN, ps : BOOLEAN, listed : Listings]

Possible(o) ==
  /\ \E n \in 0..Len(present) : o.listed = SubSeq(present, 1, n)
  /\ o.info /\ o.ps => o.listed = present
  /\ ~o.info => o.listed = <<>>

\* faulty: docker ps need not have succeeded
CompleteOnInfo(o) == o.info

\* docker_stats_complete; a host without docker has no containers and is complete.
Complete(o) == o.info /\ o.ps

\* Entities, found : key -> name, for the keys that are not known
\* (create_entities_from_stats of sensor and binary_sensor).
Extended(known, found) ==
  [k \in DOMAIN known \cup DOMAIN found |->
     IF k \in DOMAIN known THEN known[k] ELSE found[k]]

\* faulty: entities that act keep the name they were created with
RetargetedNot(known, found) == Extended(known, found)

\* create_entities of switch and button: the entities of known keys take over
\* the name (update_container_name).
Retargeted(known, found) == Extended(found, known)

Created(p, known, found) ==
  IF p \in Acting THEN Retargeted(known, found) ELSE Extended(known, found)

\* Home Assistant registers an entity under the name it is added with.
Registered(r, known, found) ==
  Extended([k \in DOMAIN found \ DOMAIN known |-> found[k]], r)

\* _clear_docker_data and update; the listeners of the registries run before
\* the entities write their states.
Publish(s) ==
  /\ stats' = s
  /\ entities' = [p \in Platforms |->
       IF p \in up THEN Created(p, entities[p], FirstNamed(s)) ELSE entities[p]]
  /\ registered' = [p \in Platforms |->
       IF p \in up THEN Registered(registered[p], entities[p], FirstNamed(s))
       ELSE registered[p]]
  /\ UNCHANGED <<present, up>>

\* async_sample_docker: any other sample only sets docker_collection_error,
\* which changes nothing here, and neither does one that brings no JSON
\* (_async_collect_raw) or no usable metric (_has_usable_docker_metrics).
DockerSample == \E o \in ScriptOutcomes : Possible(o) /\ Complete(o) /\ Publish(o.listed)

\* Containers are created, removed, renamed or listed in another order.
HostChanges ==
  /\ present' \in Listings \ {present}
  /\ UNCHANGED <<stats, up, entities, registered>>

-----------------------------------------------------------------------------
(* Setup and reload *)

\* async_setup_entry of platform p: entities for what is recovered, then for
\* the data the coordinator has by now, and a listener.
SetUp(p, recovered) ==
  /\ p \notin up
  /\ up' = up \cup {p}
  /\ entities' = [entities EXCEPT ![p] = Created(p, recovered, FirstNamed(stats))]
  /\ registered' = [registered EXCEPT ![p] =
       Registered(Extended(recovered, @), recovered, FirstNamed(stats))]
  /\ UNCHANGED <<present, stats>>

\* faulty: nothing is recovered
RecoveredNot(p) == NoEntities

\* container_names_from_registry
Recovered(p) == registered[p]

\* ServerContainerRegistry.create_entities_from_registry
RecoveredSensors == registered["sensor"]

SetupSwitch == SetUp("switch", Recovered("switch"))
SetupButton == SetUp("button", Recovered("button"))
SetupSensor == SetUp("sensor", RecoveredSensors)
SetupBinarySensor == SetUp("binary_sensor", NoEntities)

\* The entry is reloaded: the entities and the data are gone, the entity
\* registry stays.  If the server got another name, the recovered container
\* names keep the old one as a prefix.
ReloadContainers ==
  /\ \E renamed \in BOOLEAN :
       registered' = IF renamed
                     THEN [p \in Platforms |-> [k \in DOMAIN registered[p] |-> Garbled]]
                     ELSE registered
  /\ stats' = NoData
  /\ up' = {}
  /\ entities' = [p \in Platforms |-> NoEntities]
  /\ UNCHANGED present

SetupPlatform(p) ==
  \/ p = "switch" /\ SetupSwitch
  \/ p = "button" /\ SetupButton
  \/ p = "sensor" /\ SetupSensor
  \/ p = "binary_sensor" /\ SetupBinarySensor

-----------------------------------------------------------------------------
(* The entities *)

\* Those of key k show a container (find_container), and are available only if
\* there is one.
Shown(k) == {Lookup(stats)[j] : j \in {k} \cap KeysOf(stats)}
Available(k) == Shown(k) # {}

\* The container that a switch or a button acts on.
Target(p, k) == entities[p][k]

-----------------------------------------------------------------------------
(* Properties *)

Named(S) == UNION {[D -> Names \cup {Garbled}] : D \in SUBSET S}

\* Every variable has its type.
ContainersTypeOK ==
  /\ present \in Listings
  /\ stats \in Listings \cup {NoData}
  /\ up \subseteq Platforms
  /\ entities \in [Platforms -> Named(Keys)]
  /\ registered \in [Platforms -> Named(Keys)]

\* "Keep the action target aligned with fresh Docker inventory" (switch.py,
\* button.py): an entity that is available acts on a container that the
\* inventory lists under the entity's key, whatever name it was created or
\* recovered with and however containers were renamed since.
TargetIsListed ==
  \A p \in Acting \cap up : \A k \in DOMAIN entities[p] :
    Available(k) => \E n \in NamesOf(stats) : KeyOf[n] = k /\ Target(p, k) = n

\* The same, and it is the container whose state the entity shows.
TargetIsShown ==
  \A p \in Acting \cap up : \A k \in DOMAIN entities[p] :
    Available(k) => Shown(k) = {Target(p, k)}

\* Whichever comes first, the sample or the platform: every listed container
\* has its entity on every platform that is set up, and so has every container
\* that had one before a reload, except for the memory warnings (binary_sensor).
EntitiesComplete ==
  \A p \in up :
    /\ KeysOf(stats) \subseteq DOMAIN entities[p]
    /\ p # "binary_sensor" => DOMAIN registered[p] \subseteq DOMAIN entities[p]

\* A published inventory is all of docker ps: a sample that stopped half-way,
\* or could not ask docker, never replaces it.
InventoryIsWhole ==
  [][stats' # stats /\ stats' # NoData => stats' = present]_containerVars

=============================================================================
