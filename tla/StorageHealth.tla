--------------------------- MODULE StorageHealth ---------------------------
(***************************************************************************)
(* From the storage samples of a host to its SMART verdict and its drive   *)
(* entities: the remote script reads each drive with the tools there are,  *)
(* the collector judges the sample and keys the drives, and the registry   *)
(* creates the entities of the keys it does not know.                      *)
(*                                                                         *)
(* A device name (sda, nvme0n1) is the place of a drive in the order of    *)
(* /sys/block, which a reboot can change; a serial number stays.           *)
(***************************************************************************)
EXTENDS Naturals, Sequences, FiniteSets

CONSTANTS
  Drives,    \* drives
  Nvme,      \* those that nvme-cli can read
  SerialOf,  \* SerialOf[d], NoSerial if the answers of d have none
  NoSerial

ASSUME StorageAssumption == Nvme \subseteq Drives /\ IsFiniteSet(Drives)

VARIABLES
  devices,  \* devices[i]: the drive with the i-th device name
  verdict,  \* smart_failure_detected: {TRUE}, {FALSE}, or {} while unknown
  lookup,   \* storage_device_lookup: key -> drive
  made,     \* drive entities: key -> drive they were created for
  tools,    \* "smartctl" and "nvme", if the host has them; they stay
  answered, \* history: the drives whose answer the last sample has
  unclear,  \* history: those of them whose answer has no verdict
  alarming  \* history: drives whose last verdict was a failure

history == <<answered, unclear, alarming>>
storageVars == <<devices, verdict, lookup, made, tools, history>>

NoDrives == [k \in {} |-> NoSerial]
Orders == {s \in [1..Cardinality(Drives) -> Drives] :
             \A d \in Drives : \E i \in DOMAIN s : \A j \in DOMAIN s : s[j] = d <=> j = i}

StorageInit ==
  /\ devices \in Orders
  /\ tools \in SUBSET {"smartctl", "nvme"}
  /\ verdict = {} /\ lookup = NoDrives /\ made = NoDrives
  /\ answered = {} /\ unclear = {} /\ alarming = {}

-----------------------------------------------------------------------------
(* One storage sample *)

\* read_storage_health asks smartctl, or nvme-cli for its drives if there is no
\* smartctl; it passes over any other drive without counting an error.
Asked == IF "smartctl" \in tools THEN Drives
         ELSE IF "nvme" \in tools THEN Nvme ELSE {}

\* smart_status of an answer.  It is unknown if no line of the answer has a
\* verdict: SMART is off, or smartctl was cut off after its header.
Statuses == {"passed", "failed", "unknown"}
Having(status, s) == {d \in DOMAIN status : status[d] = s}

\* faulty: a drive that did not answer does not make the sample incomplete
VerdictOfAnswers(answers, failed) ==
  IF failed # {} THEN {TRUE}
  ELSE IF Drives # {} /\ Asked = {} THEN {} ELSE {FALSE}

\* smart_failure_detected in _process_storage_data.  storage_stats_partial says
\* that a drive that was asked did not answer, storage_tools_available that
\* there is a tool for one drive at least.  An answer without a verdict is an
\* answer like any other.
Verdict(answers, failed) ==
  IF failed # {} THEN {TRUE}
  ELSE IF answers # Asked \/ (Drives # {} /\ Asked = {}) THEN {} ELSE {FALSE}

\* faulty: drives are keyed by their device names
NameKey(i) == [serial |-> NoSerial, name |-> i]

\* The sanitised serial number of the i-th drive, else its device name.
FirstKey(i) ==
  IF SerialOf[devices[i]] # NoSerial THEN [serial |-> SerialOf[devices[i]], name |-> 0]
  ELSE [serial |-> NoSerial, name |-> i]

\* faulty: a key that is used is not made longer
SharedKey(I, i) == FirstKey(i)

\* Its key among the drives I of a sample: one that an earlier drive uses is
\* made longer by the device name.
DriveKey(I, i) ==
  IF \E j \in I : j < i /\ FirstKey(j) = FirstKey(i)
  THEN [FirstKey(i) EXCEPT !.name = i] ELSE FirstKey(i)

\* storage_device_lookup: the last drive of a key stays.
KeyedDrives(I) ==
  [k \in {DriveKey(I, i) : i \in I} |->
     devices[CHOOSE i \in I : /\ DriveKey(I, i) = k
                             /\ \A j \in I : DriveKey(I, j) = k => j <= i]]

\* ServerStorageRegistry.create_entities_from_stats
MadeFor(known, found) ==
  [k \in DOMAIN known \cup DOMAIN found |->
     IF k \in DOMAIN known THEN known[k] ELSE found[k]]

\* async_sample_storage, _clear_storage_data, and the registry's listener.  A
\* collection without a result only sets storage_collection_error.
StorageSample ==
  \E answers \in SUBSET Asked :
    LET found == KeyedDrives({i \in DOMAIN devices : devices[i] \in answers}) IN
    /\ lookup' = found
    /\ made' = MadeFor(made, found)
    /\ answered' = answers
    /\ \E status \in [answers -> Statuses] :
         /\ verdict' = Verdict(answers, Having(status, "failed"))
         /\ unclear' = Having(status, "unknown")
         /\ alarming' = (alarming \ Having(status, "passed")) \cup Having(status, "failed")
    /\ UNCHANGED <<devices, tools>>

\* The host reboots and the kernel finds its drives in another order.
DrivesReordered ==
  /\ devices' \in Orders \ {devices}
  /\ UNCHANGED <<verdict, lookup, made, tools, history>>

\* The entry is reloaded: the coordinator and the registry are new.
ReloadStorage ==
  /\ verdict' = {} /\ lookup' = NoDrives /\ made' = NoDrives
  /\ answered' = {} /\ unclear' = {}
  /\ UNCHANGED <<devices, tools, alarming>>

-----------------------------------------------------------------------------
(* Properties *)

\* Drives that report a serial number of their own.
Identified == {d \in Drives :
  SerialOf[d] # NoSerial /\ \A c \in Drives \ {d} : SerialOf[c] # SerialOf[d]}

\* What a verdict is worth.  The warning is on only for a drive that failed in
\* the last sample.  It goes off only when every drive that was asked answered
\* and none failed: a drive whose last verdict was a failure has then answered
\* without a verdict.  This rests on tools that stay installed, and says nothing
\* of drives that no tool is there for.
FailureIsRemembered ==
  /\ verdict = {FALSE} => answered = Asked /\ alarming \subseteq unclear
  /\ verdict = {TRUE} => alarming \cap (answered \ unclear) # {}

\* "Missing tools, inaccessible devices, and partial reads are exposed separately
\* instead of being reported as healthy" (README.md): the warning is not off
\* while the last verdict of a drive is a failure (_process_storage_data).
WarningStands == verdict = {FALSE} => alarming = {}

\* No drive hides another: all that answered the last sample have a key, and
\* with it entities, shared serial numbers and device names notwithstanding.
NoDriveHidden ==
  /\ {lookup[k] : k \in DOMAIN lookup} = answered
  /\ DOMAIN lookup \subseteq DOMAIN made

\* The entities of a drive with a serial number of its own show this drive for
\* as long as they exist, whatever device name it has after a reboot and
\* whichever other drives did not answer.
EntityFollowsDrive ==
  \A k \in DOMAIN lookup \cap DOMAIN made :
    lookup[k] \in Identified \/ made[k] \in Identified => lookup[k] = made[k]

=============================================================================
