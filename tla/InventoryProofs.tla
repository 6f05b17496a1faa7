-------------------------- MODULE InventoryProofs --------------------------
(***************************************************************************)
(* The entities of a host's containers and drives, for any number of them  *)
(* and any way in which their names and serial numbers coincide.           *)
(***************************************************************************)
EXTENDS Inventory, FiniteSetTheorems, WellFoundedInduction, TLAPS

USE ContainerAssumption, StorageAssumption, InventoryAssumption

-----------------------------------------------------------------------------
(* Keys of containers *)

\* A non-empty set of natural numbers has a least element.
LEMMA LeastExists ==
  ASSUME NEW I \in SUBSET Nat, I # {} PROVE \E i \in I : \A j \in I : i <= j
<1>1. PICK i \in I : \A j \in I : <<j, i>> \notin OpToRel(<, Nat)
  <2> HIDE DEF OpToRel
  <2> QED BY NatLessThanWellFounded, WFMin
<1>2. \A j \in I : ~(j < i)
  BY <1>1 DEF OpToRel
<1> QED BY <1>2

LEMMA ListingType ==
  ASSUME NEW s \in Listings
  PROVE  /\ DOMAIN s \in SUBSET Nat
         /\ \A i \in DOMAIN s : s[i] \in Names
         /\ s # NoData
<1>1. PICK n \in 0..Cardinality(Names) : s \in [1..n -> Names]
  BY DEF Listings
<1>2. s \in Seq(Names)
  BY <1>1, FS_CardinalityType
<1> QED BY <1>1, <1>2

\* The name that a key stands for is listed, under this key.
LEMMA FirstNamedListed ==
  ASSUME NEW s \in Listings \cup {NoData}
  PROVE  /\ DOMAIN FirstNamed(s) = KeysOf(s)
         /\ KeysOf(s) \subseteq Keys
         /\ \A k \in KeysOf(s) : /\ FirstNamed(s)[k] \in NamesOf(s)
                                 /\ FirstNamed(s)[k] \in Names
                                 /\ KeyOf[FirstNamed(s)[k]] = k
<1>1. CASE s = NoData
  BY <1>1 DEF FirstNamed, KeysOf
<1>2. CASE s \in Listings
  <2>1. KeysOf(s) = {KeyOf[s[i]] : i \in DOMAIN s} /\ KeysOf(s) \subseteq Keys
    BY <1>2, ListingType DEF KeysOf
  <2>2. ASSUME NEW k \in KeysOf(s)
        PROVE  /\ FirstNamed(s)[k] \in NamesOf(s) /\ FirstNamed(s)[k] \in Names
               /\ KeyOf[FirstNamed(s)[k]] = k
    <3> DEFINE I == {i \in DOMAIN s : KeyOf[s[i]] = k}
               i0 == CHOOSE i \in I : \A j \in I : i <= j
    <3>1. I \in SUBSET Nat /\ I # {}
      BY <1>2, <2>1, <2>2, ListingType
    <3>2. \E i \in I : \A j \in I : i <= j
      <4> HIDE DEF I
      <4> QED BY <3>1, LeastExists
    <3>3. i0 \in I
      <4> HIDE DEF I
      <4> QED BY <3>2
    <3>4. FirstNamed(s)[k] = s[i0]
      BY <2>2 DEF FirstNamed
    <3> QED BY <1>2, <3>3, <3>4, ListingType DEF NamesOf
  <2> QED BY <2>1, <2>2 DEF FirstNamed
<1> QED BY <1>1, <1>2

-----------------------------------------------------------------------------
(* Entities of containers *)

\* Named(Keys) is the set of the functions from some keys to names.
LEMMA NamedIs ==
  \A f : f \in Named(Keys)
    <=> /\ DOMAIN f \subseteq Keys
        /\ f \in [DOMAIN f -> Names \cup {Garbled}]
BY DEF Named

LEMMA FirstNamedType ==
  ASSUME NEW s \in Listings \cup {NoData} PROVE FirstNamed(s) \in Named(Keys)
<1>1. FirstNamed(s) = [k \in KeysOf(s) |-> FirstNamed(s)[k]]
  BY DEF FirstNamed
<1> QED BY <1>1, FirstNamedListed, NamedIs

\* Extended keeps what is known, adds what is found, and nothing else.
LEMMA ExtendedIs ==
  ASSUME NEW known \in Named(Keys), NEW found \in Named(Keys)
  PROVE  /\ Extended(known, found) \in Named(Keys)
         /\ DOMAIN Extended(known, found) = DOMAIN known \cup DOMAIN found
         /\ \A k \in DOMAIN known : Extended(known, found)[k] = known[k]
<1> DEFINE e == Extended(known, found)
<1>1. DOMAIN e = DOMAIN known \cup DOMAIN found /\ DOMAIN e \subseteq Keys
  BY NamedIs DEF Extended
<1>2. \A k \in DOMAIN e : e[k] \in Names \cup {Garbled}
  <2>1. \A k \in DOMAIN known : known[k] \in Names \cup {Garbled}
    BY NamedIs
  <2>2. \A k \in DOMAIN found : found[k] \in Names \cup {Garbled}
    BY NamedIs
  <2> QED BY <2>1, <2>2, <1>1 DEF Extended
<1>3. e = [k \in DOMAIN e |-> e[k]]
  BY DEF Extended
<1>4. e \in Named(Keys)
  BY <1>1, <1>2, <1>3, NamedIs
<1> QED BY <1>1, <1>4 DEF Extended

\* The entities of a platform after a listing: typed, none lost, one for each
\* key, and those that act on a container have the name listed.
LEMMA CreatedIs ==
  ASSUME NEW p \in Platforms, NEW known \in Named(Keys), NEW found \in Named(Keys)
  PROVE  /\ Created(p, known, found) \in Named(Keys)
         /\ DOMAIN Created(p, known, found) = DOMAIN known \cup DOMAIN found
         /\ p \in Acting => \A k \in DOMAIN found : Created(p, known, found)[k] = found[k]
<1>1. CASE p \in Acting
  <2>1. Created(p, known, found) = Extended(found, known)
    BY <1>1 DEF Created, Retargeted
  <2>2. /\ Extended(found, known) \in Named(Keys)
        /\ DOMAIN Extended(found, known) = DOMAIN found \cup DOMAIN known
        /\ \A k \in DOMAIN found : Extended(found, known)[k] = found[k]
    BY ExtendedIs
  <2>3. DOMAIN found \cup DOMAIN known = DOMAIN known \cup DOMAIN found
    OBVIOUS
  <2> QED BY <2>1, <2>2, <2>3
<1>2. CASE p \notin Acting
  <2>1. Created(p, known, found) = Extended(known, found)
    BY <1>2 DEF Created
  <2> QED BY <1>2, <2>1, ExtendedIs
<1> QED BY <1>1, <1>2

\* What Home Assistant registers is typed and has a key for each entity.
LEMMA RegisteredIs ==
  ASSUME NEW r \in Named(Keys), NEW known \in Named(Keys), NEW found \in Named(Keys)
  PROVE  /\ Registered(r, known, found) \in Named(Keys)
         /\ DOMAIN Registered(r, known, found)
              = DOMAIN r \cup (DOMAIN found \ DOMAIN known)
<1> DEFINE new == [k \in DOMAIN found \ DOMAIN known |-> found[k]]
<1>1. new \in Named(Keys)
  <2>1. DOMAIN new \subseteq Keys /\ new \in [DOMAIN new -> Names \cup {Garbled}]
    BY NamedIs
  <2> QED BY <2>1, NamedIs
<1>2. Registered(r, known, found) = Extended(new, r)
  BY DEF Registered
<1>3. DOMAIN new = DOMAIN found \ DOMAIN known
  OBVIOUS
<1>4. /\ Extended(new, r) \in Named(Keys)
      /\ DOMAIN Extended(new, r) = DOMAIN new \cup DOMAIN r
  <2> HIDE DEF new
  <2> QED BY <1>1, ExtendedIs
<1> HIDE DEF new
<1> QED BY <1>2, <1>3, <1>4

LEMMA NoEntitiesIs == NoEntities \in Named(Keys) /\ DOMAIN NoEntities = {}
<1>1. DOMAIN NoEntities = {} /\ NoEntities \in [DOMAIN NoEntities -> Names \cup {Garbled}]
  BY DEF NoEntities
<1> QED BY <1>1, NamedIs

\* The inductive invariant of the containers: an entity that acts on a container
\* has the name that the inventory lists first for its key.
Aimed ==
  \A p \in Acting \cap up : \A k \in KeysOf(stats) :
    entities[p][k] = FirstNamed(stats)[k]

ContainersInv == ContainersTypeOK /\ EntitiesComplete /\ Aimed

LEMMA ContainersInitially == ContainersInit => ContainersInv
<1> SUFFICES ASSUME ContainersInit PROVE ContainersInv
  OBVIOUS
<1>1. NoEntities \in Named(Keys)
  BY NoEntitiesIs
<1>2. ContainersTypeOK
  BY <1>1 DEF ContainersInit, ContainersTypeOK
<1> QED BY <1>2 DEF ContainersInit, ContainersInv, EntitiesComplete, Aimed

\* A published listing retargets the entities of the platforms that are set up
\* and adds the missing ones.
LEMMA PublishKeeps ==
  ASSUME ContainersInv, NEW s \in Listings, Publish(s)
  PROVE  ContainersInv'
<1> DEFINE found == FirstNamed(s)
<1>1. /\ found \in Named(Keys) /\ DOMAIN found = KeysOf(s)
      /\ \A p \in Platforms : entities[p] \in Named(Keys) /\ registered[p] \in Named(Keys)
  BY FirstNamedType, FirstNamedListed DEF ContainersInv, ContainersTypeOK
<1>2. stats' = s /\ up' = up /\ present' = present
  BY DEF Publish
<1>3. ASSUME NEW p \in Platforms
      PROVE  /\ entities'[p] \in Named(Keys) /\ registered'[p] \in Named(Keys)
             /\ p \in up => /\ entities'[p] = Created(p, entities[p], found)
                            /\ registered'[p] = Registered(registered[p], entities[p], found)
  <2> HIDE DEF found
  <2>1. CASE p \in up
    <3>1. /\ entities'[p] = Created(p, entities[p], found)
          /\ registered'[p] = Registered(registered[p], entities[p], found)
      BY <2>1 DEF Publish, found
    <3>2. Created(p, entities[p], found) \in Named(Keys)
      BY <1>1, CreatedIs
    <3>3. Registered(registered[p], entities[p], found) \in Named(Keys)
      BY <1>1, RegisteredIs
    <3> QED BY <3>1, <3>2, <3>3
  <2>2. CASE p \notin up
    BY <1>1, <2>2 DEF Publish
  <2> QED BY <2>1, <2>2
<1>4. ContainersTypeOK'
  <2>1. /\ entities' = [p \in Platforms |-> entities'[p]]
        /\ registered' = [p \in Platforms |-> registered'[p]]
    BY DEF Publish
  <2>2. entities' \in [Platforms -> Named(Keys)] /\ registered' \in [Platforms -> Named(Keys)]
    <3> HIDE DEF found
    <3> QED BY <1>3, <2>1
  <2> QED BY <1>2, <2>2 DEF ContainersInv, ContainersTypeOK
<1>5. ASSUME NEW p \in up
      PROVE  /\ KeysOf(s) \subseteq DOMAIN entities'[p]
             /\ p # "binary_sensor" => DOMAIN registered'[p] \subseteq DOMAIN entities'[p]
             /\ p \in Acting => \A k \in KeysOf(s) : entities'[p][k] = found[k]
  <2> HIDE DEF found
  <2>1. /\ p \in Platforms
        /\ p # "binary_sensor" => DOMAIN registered[p] \subseteq DOMAIN entities[p]
    BY DEF ContainersInv, ContainersTypeOK, EntitiesComplete
  <2>2. /\ entities'[p] = Created(p, entities[p], found)
        /\ registered'[p] = Registered(registered[p], entities[p], found)
    BY <1>3, <2>1
  <2>3. /\ p \in Platforms
        /\ found \in Named(Keys)
        /\ entities[p] \in Named(Keys)
        /\ registered[p] \in Named(Keys)
    BY <1>1, <2>1
  <2>4. /\ DOMAIN Created(p, entities[p], found) = DOMAIN entities[p] \cup DOMAIN found
        /\ p \in Acting => \A k \in DOMAIN found : Created(p, entities[p], found)[k] = found[k]
    <3>1. ASSUME NEW q \in Platforms, NEW known \in Named(Keys), NEW new \in Named(Keys)
          PROVE  /\ DOMAIN Created(q, known, new) = DOMAIN known \cup DOMAIN new
                 /\ q \in Acting => \A k \in DOMAIN new : Created(q, known, new)[k] = new[k]
      BY CreatedIs
    <3> QED BY <2>3, <3>1, Zenon
  <2>5. DOMAIN Registered(registered[p], entities[p], found)
          = DOMAIN registered[p] \cup (DOMAIN found \ DOMAIN entities[p])
    <3>1. ASSUME NEW old \in Named(Keys), NEW known \in Named(Keys), NEW new \in Named(Keys)
          PROVE  DOMAIN Registered(old, known, new)
                   = DOMAIN old \cup (DOMAIN new \ DOMAIN known)
      BY RegisteredIs, Zenon
    <3> QED BY <2>3, <3>1, Zenon
  <2> QED BY <1>1, <2>1, <2>2, <2>4, <2>5
<1>6. EntitiesComplete' /\ Aimed'
  BY <1>2, <1>5 DEF EntitiesComplete, Aimed
<1> QED BY <1>4, <1>6 DEF ContainersInv

\* A platform that is set up recovers its entities, takes over the data there
\* are by then, and from then on listens.
LEMMA SetUpKeeps ==
  ASSUME ContainersInv, NEW p \in Platforms, NEW recovered \in Named(Keys),
         p # "binary_sensor" => recovered = registered[p],
         SetUp(p, recovered)
  PROVE  ContainersInv'
<1> DEFINE found == FirstNamed(stats)
           r == Extended(recovered, registered[p])
<1>1. /\ found \in Named(Keys) /\ DOMAIN found = KeysOf(stats)
      /\ registered[p] \in Named(Keys)
      /\ entities \in [Platforms -> Named(Keys)] /\ registered \in [Platforms -> Named(Keys)]
  BY FirstNamedType, FirstNamedListed DEF ContainersInv, ContainersTypeOK
<1>2. stats' = stats /\ up' = up \cup {p} /\ present' = present
  BY DEF SetUp
<1>3. /\ r \in Named(Keys) /\ DOMAIN r = DOMAIN recovered \cup DOMAIN registered[p]
  <2> HIDE DEF found
  <2> QED BY <1>1, ExtendedIs
<1>4. /\ entities' = [entities EXCEPT ![p] = Created(p, recovered, found)]
      /\ registered' = [registered EXCEPT ![p] = Registered(r, recovered, found)]
  BY DEF SetUp
<1> HIDE DEF found, r
<1>5. /\ Created(p, recovered, found) \in Named(Keys)
      /\ DOMAIN Created(p, recovered, found) = DOMAIN recovered \cup DOMAIN found
      /\ p \in Acting => \A k \in DOMAIN found : Created(p, recovered, found)[k] = found[k]
  <2>1. found \in Named(Keys)
    BY <1>1
  <2> QED BY <2>1, CreatedIs
<1>6. /\ Registered(r, recovered, found) \in Named(Keys)
      /\ DOMAIN Registered(r, recovered, found)
           = DOMAIN r \cup (DOMAIN found \ DOMAIN recovered)
  <2>1. found \in Named(Keys)
    BY <1>1
  <2>2. r \in Named(Keys)
    BY <1>3
  <2> QED BY <2>1, <2>2, RegisteredIs, Zenon
<1>7. ContainersTypeOK'
  BY <1>1, <1>2, <1>4, <1>5, <1>6 DEF ContainersInv, ContainersTypeOK
<1>8. ASSUME NEW q \in up'
      PROVE  /\ KeysOf(stats) \subseteq DOMAIN entities'[q]
             /\ q # "binary_sensor" => DOMAIN registered'[q] \subseteq DOMAIN entities'[q]
             /\ q \in Acting => \A k \in KeysOf(stats) : entities'[q][k] = found[k]
  <2>1. CASE q = p
    <3>1. entities'[p] = Created(p, recovered, found) /\ registered'[p] = Registered(r, recovered, found)
      BY <1>1, <1>4
    <3> QED BY <1>1, <1>3, <1>5, <1>6, <2>1, <3>1
  <2>2. CASE q # p
    <3>1. q \in up /\ q \in Platforms /\ entities'[q] = entities[q] /\ registered'[q] = registered[q]
      BY <1>1, <1>2, <1>4, <2>2 DEF ContainersInv, ContainersTypeOK
    <3> QED BY <3>1 DEF ContainersInv, EntitiesComplete, Aimed, found
  <2> QED BY <2>1, <2>2
<1>9. EntitiesComplete' /\ Aimed'
  BY <1>2, <1>8 DEF EntitiesComplete, Aimed, found
<1> QED BY <1>7, <1>9 DEF ContainersInv

LEMMA ReloadKeeps ==
  ASSUME ContainersInv, ReloadContainers PROVE ContainersInv'
<1>1. ASSUME NEW p \in Platforms
      PROVE  [k \in DOMAIN registered[p] |-> Garbled] \in Named(Keys)
  <2> DEFINE g == [k \in DOMAIN registered[p] |-> Garbled]
  <2>1. DOMAIN registered[p] \subseteq Keys
    BY NamedIs DEF ContainersInv, ContainersTypeOK
  <2>2. DOMAIN g \subseteq Keys /\ g \in [DOMAIN g -> Names \cup {Garbled}]
    BY <2>1
  <2> HIDE DEF g
  <2>3. g \in Named(Keys)
    BY <2>2, NamedIs
  <2> QED BY <2>3 DEF g
<1>2. registered' \in [Platforms -> Named(Keys)]
  BY <1>1 DEF ReloadContainers, ContainersInv, ContainersTypeOK
<1>3. entities' \in [Platforms -> Named(Keys)]
  BY NoEntitiesIs DEF ReloadContainers
<1>4. ContainersTypeOK'
  BY <1>2, <1>3 DEF ReloadContainers, ContainersInv, ContainersTypeOK
<1> QED BY <1>4 DEF ReloadContainers, ContainersInv, EntitiesComplete, Aimed

LEMMA ContainersStep ==
  ASSUME ContainersInv, [Next]_vars PROVE ContainersInv'
<1>1. CASE DockerSample
  <2>1. PICK o \in ScriptOutcomes : Publish(o.listed)
    BY <1>1 DEF DockerSample
  <2>2. o.listed \in Listings
    BY DEF ScriptOutcomes
  <2> QED BY <2>1, <2>2, PublishKeeps
<1>2. CASE HostChanges
  BY <1>2 DEF HostChanges, ContainersInv, ContainersTypeOK, EntitiesComplete, Aimed
<1>3. ASSUME NEW p \in explored, SetupPlatform(p) PROVE ContainersInv'
  <2>1. \A q \in Platforms : registered[q] \in Named(Keys)
    BY DEF ContainersInv, ContainersTypeOK
  <2>2. CASE SetupSwitch
    BY <2>1, <2>2, SetUpKeeps DEF SetupSwitch, Recovered, Platforms
  <2>3. CASE SetupButton
    BY <2>1, <2>3, SetUpKeeps DEF SetupButton, Recovered, Platforms
  <2>4. CASE SetupSensor
    BY <2>1, <2>4, SetUpKeeps DEF SetupSensor, RecoveredSensors, Platforms
  <2>5. CASE SetupBinarySensor
    BY <2>5, NoEntitiesIs, SetUpKeeps DEF SetupBinarySensor, Platforms
  <2> QED BY <1>3, <2>2, <2>3, <2>4, <2>5 DEF SetupPlatform
<1>4. CASE Reload
  BY <1>4, ReloadKeeps DEF Reload
<1>5. CASE UNCHANGED containerVars
  BY <1>5 DEF containerVars, ContainersInv, ContainersTypeOK, EntitiesComplete, Aimed
<1> QED BY <1>1, <1>2, <1>3, <1>4, <1>5 DEF Next, ContainerStep, DriveStep, vars

\* Under every interleaving of samples, platform setups, renamed containers and
\* reloads the entities of the containers are typed, complete and aimed.
THEOREM ContainersInOrder == Spec => []ContainersInv
<1>1. Init => ContainersInv
  BY ContainersInitially DEF Init
<1>2. ContainersInv /\ [Next]_vars => ContainersInv'
  BY ContainersStep
<1> QED BY <1>1, <1>2, PTL DEF Spec

\* An available switch or button acts on a container that is listed under its
\* key.
THEOREM TargetsListed == Spec => []TargetIsListed
<1>1. ContainersInv => TargetIsListed
  <2> SUFFICES ASSUME ContainersInv, NEW p \in Acting \cap up, NEW k \in DOMAIN entities[p],
                      Available(k)
               PROVE  \E n \in NamesOf(stats) : KeyOf[n] = k /\ Target(p, k) = n
    BY DEF TargetIsListed
  <2>1. k \in KeysOf(stats) /\ stats \in Listings \cup {NoData}
    BY DEF Available, Shown, ContainersInv, ContainersTypeOK
  <2>2. Target(p, k) = FirstNamed(stats)[k]
    BY <2>1 DEF ContainersInv, Aimed, Target
  <2> QED BY <2>1, <2>2, FirstNamedListed
<1> QED BY <1>1, ContainersInOrder, PTL

\* Where keys tell the listed containers apart, the first of a key is the last.
LEMMA FirstIsLast ==
  ASSUME NEW s \in Listings, NEW k \in KeysOf(s),
         \A m, n \in NamesOf(s) : KeyOf[m] = KeyOf[n] => m = n
  PROVE  Lookup(s)[k] = FirstNamed(s)[k]
<1> DEFINE I == {i \in DOMAIN s : KeyOf[s[i]] = k}
<1>1. PICK i \in DOMAIN s : KeyOf[s[i]] = k
  BY ListingType DEF KeysOf
<1>2. I = {i}
  <2>1. ASSUME NEW j \in I PROVE j = i
    <3>1. s[j] = s[i]
      BY <1>1 DEF NamesOf
    <3> QED BY <3>1, <1>1 DEF Listings
  <2> QED BY <1>1, <2>1
<1>3. i \in Nat
  BY <1>1, ListingType
<1>4. (CHOOSE j \in I : \A l \in I : j <= l) = i
  BY <1>2, <1>3
<1>5. (CHOOSE j \in I : \A l \in I : j >= l) = i
  BY <1>2, <1>3
<1>6. FirstNamed(s)[k] = s[CHOOSE j \in I : \A l \in I : j <= l]
  BY DEF FirstNamed
<1>7. Lookup(s)[k] = s[CHOOSE j \in I : \A l \in I : j >= l]
  BY DEF Lookup
<1> QED BY <1>4, <1>5, <1>6, <1>7

\* update_container_name keeps its word, that a switch or a button acts on the
\* container it shows, whenever no two listed containers share a sanitised
\* name, whatever was listed, renamed or reloaded before; the run FindSwitch
\* shows that the condition is needed.
THEOREM TargetsShown ==
  Spec => []((\A m, n \in NamesOf(stats) : KeyOf[m] = KeyOf[n] => m = n)
               => TargetIsShown)
<1>1. ContainersInv => ((\A m, n \in NamesOf(stats) : KeyOf[m] = KeyOf[n] => m = n)
                          => TargetIsShown)
  <2> SUFFICES ASSUME ContainersInv,
                      \A m, n \in NamesOf(stats) : KeyOf[m] = KeyOf[n] => m = n,
                      NEW p \in Acting \cap up, NEW k \in DOMAIN entities[p],
                      Available(k)
               PROVE  Shown(k) = {Target(p, k)}
    BY DEF TargetIsShown
  <2>1. k \in KeysOf(stats) /\ stats \in Listings
    BY DEF Available, Shown, KeysOf, ContainersInv, ContainersTypeOK
  <2>2. Target(p, k) = FirstNamed(stats)[k]
    BY <2>1 DEF ContainersInv, Aimed, Target
  <2>3. Lookup(stats)[k] = FirstNamed(stats)[k]
    BY <2>1, FirstIsLast
  <2>4. Shown(k) = {Lookup(stats)[k]}
    BY <2>1 DEF Shown
  <2> QED BY <2>2, <2>3, <2>4
<1> QED BY <1>1, ContainersInOrder, PTL

\* Every container that is listed, and every one that was registered, has its
\* entities on the platforms that are set up.
THEOREM EntitiesAreComplete == Spec => []EntitiesComplete
<1>1. ContainersInv => EntitiesComplete
  BY DEF ContainersInv
<1> QED BY <1>1, ContainersInOrder, PTL

\* Only a complete listing of docker ps is ever published.
THEOREM InventoriesAreWhole == Spec => InventoryIsWhole
<1>1. [Next]_vars => [stats' # stats /\ stats' # NoData => stats' = present]_containerVars
  <2>1. ASSUME DockerSample PROVE stats' = present
    BY <2>1 DEF DockerSample, Possible, Complete, Publish
  <2>2. ASSUME Reload PROVE stats' = NoData
    BY <2>2 DEF Reload, ReloadContainers
  <2>3. ASSUME HostChanges \/ (\E p \in explored : SetupPlatform(p)) PROVE stats' = stats
    BY <2>3 DEF HostChanges, SetupPlatform, SetupSwitch, SetupButton, SetupSensor,
                SetupBinarySensor, SetUp
  <2> QED BY <2>1, <2>2, <2>3 DEF Next, ContainerStep, DriveStep, vars, containerVars
<1> QED BY <1>1, PTL DEF Spec, InventoryIsWhole

-----------------------------------------------------------------------------
(* Keys of drives *)

\* Device names are positive numbers, and each drive has exactly one.
LEMMA OrderIs ==
  ASSUME NEW o \in Orders
  PROVE  /\ \A i \in DOMAIN o : i \in Nat \ {0} /\ o[i] \in Drives
         /\ \A i, j \in DOMAIN o : o[i] = o[j] => i = j
         /\ \A d \in Drives : \E i \in DOMAIN o : o[i] = d
<1>1. Cardinality(Drives) \in Nat
  BY FS_CardinalityType
<1>2. DOMAIN o = 1..Cardinality(Drives) /\ \A i \in DOMAIN o : o[i] \in Drives
  BY DEF Orders
<1>3. \A d \in Drives : \E i \in DOMAIN o : \A j \in DOMAIN o : o[j] = d <=> j = i
  BY DEF Orders
<1> QED BY <1>1, <1>2, <1>3

\* The first key of a drive and the one that is made longer.
LEMMA KeyParts ==
  ASSUME NEW I, NEW i \in I, I \subseteq Nat \ {0}
  PROVE  /\ FirstKey(i).serial = SerialOf[devices[i]]
         /\ FirstKey(i).name \in {0, i}
         /\ SerialOf[devices[i]] # NoSerial => FirstKey(i) = [serial |-> SerialOf[devices[i]], name |-> 0]
         /\ DriveKey(I, i).serial = SerialOf[devices[i]]
         /\ IF \E j \in I : j < i /\ FirstKey(j) = FirstKey(i)
            THEN DriveKey(I, i).name = i ELSE DriveKey(I, i) = FirstKey(i)
<1>1. /\ FirstKey(i).serial = SerialOf[devices[i]]
      /\ FirstKey(i).name \in {0, i}
      /\ SerialOf[devices[i]] # NoSerial => FirstKey(i) = [serial |-> SerialOf[devices[i]], name |-> 0]
      /\ \A n : /\ [FirstKey(i) EXCEPT !.name = n].serial = FirstKey(i).serial
                /\ [FirstKey(i) EXCEPT !.name = n].name = n
  BY DEF FirstKey
<1> QED BY <1>1 DEF DriveKey

\* Two drives of a sample never share a key.
LEMMA KeysDiffer ==
  ASSUME NEW I, I \subseteq Nat \ {0}, NEW i \in I, NEW j \in I, DriveKey(I, i) = DriveKey(I, j)
  PROVE  i = j
<1> DEFINE Later(n) == \E m \in I : m < n /\ FirstKey(m) = FirstKey(n)
<1>1. ASSUME NEW n \in I
      PROVE  /\ n \in Nat \ {0} /\ FirstKey(n).name \in {0, n}
             /\ IF Later(n) THEN DriveKey(I, n).name = n ELSE DriveKey(I, n) = FirstKey(n)
  BY KeyParts
<1>2. CASE ~Later(i) /\ ~Later(j)
  BY <1>1, <1>2
<1>3. CASE Later(i) \/ Later(j)
  <2> HIDE DEF Later
  <2> QED BY <1>1, <1>3
<1> QED BY <1>2, <1>3

\* Each drive of a sample is found under its key, and nothing else is.
LEMMA KeyedDrivesIs ==
  ASSUME NEW I, I \subseteq Nat \ {0}
  PROVE  /\ DOMAIN KeyedDrives(I) = {DriveKey(I, i) : i \in I}
         /\ \A i \in I : KeyedDrives(I)[DriveKey(I, i)] = devices[i]
<1>1. DOMAIN KeyedDrives(I) = {DriveKey(I, i) : i \in I}
  BY DEF KeyedDrives
<1>2. ASSUME NEW i \in I PROVE KeyedDrives(I)[DriveKey(I, i)] = devices[i]
  <2> DEFINE k == DriveKey(I, i)
             P(n) == DriveKey(I, n) = k /\ \A j \in I : DriveKey(I, j) = k => j <= n
  <2>1. \A n \in I : DriveKey(I, n) = k => n = i
    BY KeysDiffer
  <2>2. P(i) /\ \A n \in I : P(n) => n = i
    BY <2>1
  <2>3. (CHOOSE n \in I : P(n)) = i
    <3> HIDE DEF P
    <3> QED BY <2>2
  <2>4. KeyedDrives(I)[k] = devices[CHOOSE n \in I : P(n)]
    BY DEF KeyedDrives
  <2> QED BY <2>3, <2>4
<1> QED BY <1>1, <1>2

\* A drive with a serial number of its own has a key that depends on nothing
\* but this number, and no other drive ever has this key.
OwnKeys(f) ==
  \A d \in Identified : \A k \in DOMAIN f :
    f[k] = d <=> k = [serial |-> SerialOf[d], name |-> 0]

LEMMA OwnKeysInSample ==
  ASSUME devices \in Orders, NEW I, I \subseteq DOMAIN devices
  PROVE  OwnKeys(KeyedDrives(I))
<1>1. /\ I \subseteq Nat \ {0}
      /\ \A i \in I : devices[i] \in Drives
      /\ \A i, j \in I : devices[i] = devices[j] => i = j
  BY OrderIs
<1>2. SUFFICES ASSUME NEW d \in Identified, NEW i \in I
               PROVE  devices[i] = d <=> DriveKey(I, i) = [serial |-> SerialOf[d], name |-> 0]
  <2>1. /\ DOMAIN KeyedDrives(I) = {DriveKey(I, i) : i \in I}
        /\ \A i \in I : KeyedDrives(I)[DriveKey(I, i)] = devices[i]
    BY <1>1, KeyedDrivesIs
  <2> QED BY <2>1 DEF OwnKeys
<1>3. /\ SerialOf[d] # NoSerial
      /\ \A j \in I : SerialOf[devices[j]] = SerialOf[d] => devices[j] = d
  BY <1>1 DEF Identified
<1>4. ASSUME NEW j \in I
      PROVE  /\ FirstKey(j).serial = SerialOf[devices[j]]
             /\ DriveKey(I, j).serial = SerialOf[devices[j]]
             /\ SerialOf[devices[j]] # NoSerial => FirstKey(j) = [serial |-> SerialOf[devices[j]], name |-> 0]
  BY <1>1, KeyParts
<1>5. ASSUME devices[i] = d PROVE DriveKey(I, i) = [serial |-> SerialOf[d], name |-> 0]
  <2>1. ASSUME NEW j \in I, j < i, FirstKey(j) = FirstKey(i) PROVE FALSE
    BY <1>1, <1>3, <1>4, <1>5, <2>1
  <2>2. DriveKey(I, i) = FirstKey(i)
    BY <1>1, <2>1, KeyParts
  <2> QED BY <1>3, <1>4, <1>5, <2>2
<1>6. ASSUME DriveKey(I, i) = [serial |-> SerialOf[d], name |-> 0] PROVE devices[i] = d
  BY <1>3, <1>4, <1>6
<1> QED BY <1>5, <1>6

-----------------------------------------------------------------------------
(* Drives *)

\* The inductive invariant of the drives: the verdict fits the failures of the
\* drives that can be asked, no drive is hidden, and neither the sample nor the
\* entities give the key of a drive to another one.
StorageInv ==
  /\ devices \in Orders
  /\ alarming \subseteq Asked /\ answered \subseteq Asked /\ unclear \subseteq answered
  /\ FailureIsRemembered
  /\ NoDriveHidden
  /\ OwnKeys(lookup) /\ OwnKeys(made)

LEMMA StorageInitially == StorageInit => StorageInv
<1>1. DOMAIN NoDrives = {}
  BY DEF NoDrives
<1> QED BY <1>1 DEF StorageInit, StorageInv, FailureIsRemembered, NoDriveHidden, OwnKeys

LEMMA SampleKeeps ==
  ASSUME StorageInv, StorageSample PROVE StorageInv'
<1>1. PICK answers \in SUBSET Asked :
        LET found == KeyedDrives({i \in DOMAIN devices : devices[i] \in answers}) IN
        /\ lookup' = found
        /\ made' = MadeFor(made, found)
        /\ answered' = answers
        /\ \E status \in [answers -> Statuses] :
             /\ verdict' = Verdict(answers, Having(status, "failed"))
             /\ unclear' = Having(status, "unknown")
             /\ alarming' = (alarming \ Having(status, "passed"))
                              \cup Having(status, "failed")
        /\ UNCHANGED <<devices, tools>>
  BY DEF StorageSample
<1> DEFINE I == {i \in DOMAIN devices : devices[i] \in answers}
<1>2. /\ lookup' = KeyedDrives(I) /\ made' = MadeFor(made, KeyedDrives(I))
      /\ answered' = answers /\ devices' = devices /\ tools' = tools
  BY <1>1
<1>a. PICK status \in [answers -> Statuses] :
      /\ verdict' = Verdict(answers, Having(status, "failed"))
      /\ unclear' = Having(status, "unknown")
      /\ alarming' = (alarming \ Having(status, "passed")) \cup Having(status, "failed")
  BY <1>1
<1> DEFINE passed == Having(status, "passed")
           failed == Having(status, "failed")
           unknown == Having(status, "unknown")
<1>h. /\ answers = passed \cup failed \cup unknown
      /\ failed \cap unknown = {}
  BY DEF Having, Statuses
<1> HIDE DEF passed, failed, unknown
<1>s. /\ answered' = answers /\ unclear' = unknown
      /\ alarming' = (alarming \ passed) \cup failed
      /\ verdict' = Verdict(answers, failed)
  BY <1>2, <1>a DEF passed, failed, unknown
<1>3. devices \in Orders /\ Asked' = Asked /\ Asked \subseteq Drives
  BY <1>2 DEF StorageInv, Asked
<1>4. I \subseteq DOMAIN devices /\ I \subseteq Nat \ {0}
  BY <1>3, OrderIs
<1>5. FailureIsRemembered'
  <2>1. verdict' = {FALSE} => failed = {} /\ answers = Asked
    BY <1>s DEF Verdict
  <2>2. verdict' = {TRUE} => failed # {}
    BY <1>s DEF Verdict
  <2>3. alarming \subseteq Asked
    BY DEF StorageInv
  <2> QED BY <1>3, <1>h, <1>s, <2>1, <2>2, <2>3 DEF FailureIsRemembered
<1>6. NoDriveHidden'
  <2>1. \A d \in answers : \E i \in I : devices[i] = d
    BY <1>3, OrderIs
  <2>2. \A i \in I : devices[i] \in answers
    OBVIOUS
  <2>3. /\ DOMAIN KeyedDrives(I) = {DriveKey(I, i) : i \in I}
        /\ \A i \in I : KeyedDrives(I)[DriveKey(I, i)] = devices[i]
    <3> HIDE DEF I
    <3> QED BY <1>4, KeyedDrivesIs
  <2>4. DOMAIN lookup' \subseteq DOMAIN made'
    BY <1>2 DEF MadeFor
  <2>5. {lookup'[k] : k \in DOMAIN lookup'} = answers
    <3> HIDE DEF I
    <3> QED BY <1>2, <2>1, <2>2, <2>3
  <2> QED BY <1>2, <2>4, <2>5 DEF NoDriveHidden
<1>7. OwnKeys(KeyedDrives(I))
  <2> HIDE DEF I
  <2> QED BY <1>3, <1>4, OwnKeysInSample
<1>8. OwnKeys(lookup)' /\ OwnKeys(made)'
  <2> HIDE DEF I
  <2>1. OwnKeys(MadeFor(made, KeyedDrives(I)))
    BY <1>7 DEF StorageInv, OwnKeys, MadeFor
  <2> QED BY <1>2, <1>7, <2>1 DEF OwnKeys, Identified
<1> QED BY <1>2, <1>3, <1>h, <1>s, <1>5, <1>6, <1>8 DEF StorageInv

LEMMA SamplesUnchanged ==
  ASSUME StorageInv, devices' \in Orders,
         UNCHANGED <<verdict, lookup, made, tools, history>>
  PROVE  StorageInv'
<1>1. Asked' = Asked
  BY DEF Asked
<1>2. /\ FailureIsRemembered'
      /\ alarming' \subseteq Asked' /\ answered' \subseteq Asked' /\ unclear' \subseteq answered'
  BY <1>1 DEF StorageInv, FailureIsRemembered, history
<1>3. NoDriveHidden'
  BY DEF StorageInv, NoDriveHidden, history
<1>4. OwnKeys(lookup)' /\ OwnKeys(made)'
  <2>1. Identified' = Identified
    BY DEF Identified
  <2> QED BY <2>1 DEF StorageInv, OwnKeys
<1> QED BY <1>2, <1>3, <1>4 DEF StorageInv

LEMMA StorageStep ==
  ASSUME StorageInv, [Next]_vars PROVE StorageInv'
<1>1. CASE StorageSample
  BY <1>1, SampleKeeps
<1>2. CASE DrivesReordered
  <2>1. devices' \in Orders
    BY <1>2 DEF DrivesReordered
  <2>2. UNCHANGED <<verdict, lookup, made, tools, history>>
    BY <1>2 DEF DrivesReordered
  <2> QED BY <2>1, <2>2, SamplesUnchanged
<1>3. CASE Reload
  <2>1. DOMAIN NoDrives = {}
    BY DEF NoDrives
  <2> QED BY <1>3, <2>1 DEF Reload, ReloadStorage, StorageInv, Asked, FailureIsRemembered,
                            NoDriveHidden, OwnKeys
<1>4. CASE UNCHANGED storageVars
  <2>1. devices' \in Orders
    BY <1>4 DEF storageVars, StorageInv
  <2>2. UNCHANGED <<verdict, lookup, made, tools, history>>
    BY <1>4 DEF storageVars
  <2> QED BY <2>1, <2>2, SamplesUnchanged
<1> QED BY <1>1, <1>2, <1>3, <1>4 DEF Next, ContainerStep, DriveStep, vars

\* Whichever drives answer, however their names are reordered and however often
\* the entry is reloaded, the invariant of the drives holds.
THEOREM DrivesInOrder == Spec => []StorageInv
<1>1. Init => StorageInv
  BY StorageInitially DEF Init
<1>2. StorageInv /\ [Next]_vars => StorageInv'
  BY StorageStep
<1> QED BY <1>1, <1>2, PTL DEF Spec

\* The warning goes off only when every drive that was asked answered, none of
\* them failed, and each whose last verdict was a failure answered without a
\* verdict; it is on only for a drive that failed in the last sample
\* (_process_storage_data).
THEOREM FailuresAreRemembered == Spec => []FailureIsRemembered
<1>1. StorageInv => FailureIsRemembered
  BY DEF StorageInv
<1> QED BY <1>1, DrivesInOrder, PTL

\* However serial numbers and device names coincide, no drive hides another.
THEOREM DrivesAreListed == Spec => []NoDriveHidden
<1>1. StorageInv => NoDriveHidden
  BY DEF StorageInv
<1> QED BY <1>1, DrivesInOrder, PTL

\* The entities of a drive with its own serial number show this drive forever.
THEOREM EntitiesFollowDrives == Spec => []EntityFollowsDrive
<1>1. StorageInv => EntityFollowsDrive
  BY DEF StorageInv, OwnKeys, EntityFollowsDrive
<1> QED BY <1>1, DrivesInOrder, PTL

\* Types that the other invariants do not imply.
StorageTypes ==
  /\ verdict \in SUBSET BOOLEAN /\ tools \subseteq {"smartctl", "nvme"}
  /\ lookup \in [DOMAIN lookup -> Drives] /\ made \in [DOMAIN made -> Drives]

LEMMA SampleTypes ==
  ASSUME StorageTypes, StorageInv, StorageSample PROVE StorageTypes'
<1>1. PICK answers \in SUBSET Asked :
        LET found == KeyedDrives({i \in DOMAIN devices : devices[i] \in answers}) IN
        /\ lookup' = found /\ made' = MadeFor(made, found)
        /\ \E failed : verdict' = Verdict(answers, failed)
        /\ UNCHANGED <<devices, tools>>
  BY DEF StorageSample
<1> DEFINE I == {i \in DOMAIN devices : devices[i] \in answers}
           found == KeyedDrives(I)
<1>2. lookup' = found /\ made' = MadeFor(made, found) /\ tools' = tools
  BY <1>1
<1>3. verdict' \in SUBSET BOOLEAN
  BY <1>1 DEF Verdict
<1>4. found \in [DOMAIN found -> Drives]
  <2>1. I \subseteq DOMAIN devices /\ I \subseteq Nat \ {0} /\ \A i \in I : devices[i] \in Drives
    BY OrderIs DEF StorageInv
  <2>2. found = [k \in DOMAIN found |-> found[k]]
    BY DEF KeyedDrives
  <2>3. /\ DOMAIN found = {DriveKey(I, i) : i \in I}
        /\ \A i \in I : found[DriveKey(I, i)] = devices[i]
    <3> HIDE DEF I
    <3> QED BY <2>1, KeyedDrivesIs
  <2> HIDE DEF found, I
  <2> QED BY <2>1, <2>2, <2>3
<1>5. MadeFor(made, found) \in [DOMAIN MadeFor(made, found) -> Drives]
  <2> HIDE DEF found
  <2> QED BY <1>4 DEF StorageTypes, MadeFor
<1> HIDE DEF found
<1> QED BY <1>2, <1>3, <1>4, <1>5 DEF StorageTypes

\* Every variable has its type.
THEOREM TypesHold == Spec => []TypeOK
<1>1. Init => StorageTypes
  <2>1. NoDrives \in [DOMAIN NoDrives -> Drives]
    BY DEF NoDrives
  <2> QED BY <2>1 DEF Init, StorageInit, StorageTypes
<1>2. StorageTypes /\ StorageInv /\ [Next]_vars => StorageTypes'
  <2> SUFFICES ASSUME StorageTypes, StorageInv, [Next]_vars PROVE StorageTypes'
    OBVIOUS
  <2>1. CASE StorageSample
    BY <2>1, SampleTypes
  <2>2. CASE ReloadStorage
    <3>1. NoDrives \in [DOMAIN NoDrives -> Drives]
      BY DEF NoDrives
    <3> QED BY <2>2, <3>1 DEF ReloadStorage, StorageTypes
  <2>3. CASE UNCHANGED <<verdict, tools, lookup, made>>
    BY <2>3 DEF StorageTypes
  <2> QED BY <2>1, <2>2, <2>3 DEF Next, ContainerStep, DriveStep, DrivesReordered, Reload,
                                  vars, storageVars
<1>3. ContainersInv /\ StorageInv /\ StorageTypes => TypeOK
  <2>1. Asked \subseteq Drives
    BY DEF Asked
  <2> QED BY <2>1 DEF ContainersInv, StorageInv, StorageTypes, TypeOK
<1> QED BY <1>1, <1>2, <1>3, ContainersInOrder, DrivesInOrder, PTL DEF Spec

=============================================================================
