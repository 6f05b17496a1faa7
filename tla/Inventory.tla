----------------------------- MODULE Inventory -----------------------------
(***************************************************************************)
(* The inventory of one host: its containers and its drives, which the     *)
(* same coordinator publishes and which the platforms make entities of.    *)
(***************************************************************************)
EXTENDS ContainerEntities, StorageHealth

CONSTANT Explored  \* bound of the model: sets of platforms

ASSUME InventoryAssumption == Explored \subseteq SUBSET Platforms

\* bound of the model: the platforms that are set up in a behaviour.  Drives
\* and containers share no state but the coordinator that publishes them, so
\* drives change only where there are no platforms with containers.
VARIABLE explored

vars == <<containerVars, storageVars, explored>>

Init ==
  /\ ContainersInit /\ StorageInit /\ explored \in Explored
  /\ explored = {} => present = <<>>
  /\ explored # {} => tools = {} /\ devices = CHOOSE s \in Orders : TRUE

\* async_unload_entry and async_setup_entry: the platforms, the coordinator
\* and its data are new.
Reload == ReloadContainers /\ ReloadStorage /\ UNCHANGED explored

ContainerStep ==
  /\ explored # {}
  /\ DockerSample \/ HostChanges \/ \E p \in explored : SetupPlatform(p)
  /\ UNCHANGED <<storageVars, explored>>

DriveStep ==
  /\ explored = {}
  /\ StorageSample \/ DrivesReordered
  /\ UNCHANGED <<containerVars, explored>>

Next == ContainerStep \/ DriveStep \/ Reload

Spec == Init /\ [][Next]_vars

-----------------------------------------------------------------------------

\* Every variable has its type.
TypeOK ==
  /\ ContainersTypeOK
  /\ devices \in Orders
  /\ verdict \in SUBSET BOOLEAN
  /\ lookup \in [DOMAIN lookup -> Drives] /\ made \in [DOMAIN made -> Drives]
  /\ tools \subseteq {"smartctl", "nvme"}
  /\ answered \subseteq Drives /\ unclear \subseteq answered /\ alarming \subseteq Drives

=============================================================================
