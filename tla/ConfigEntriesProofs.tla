------------------------ MODULE ConfigEntriesProofs ------------------------
(***************************************************************************)
(* Flows that are open together on any number of entries: what is stored   *)
(* stays consistent, and two entries share a host only after the race that *)
(* raced names.                                                            *)
(***************************************************************************)
EXTENDS ConfigEntries, Integers, TLAPS

USE EntriesAssumption

-----------------------------------------------------------------------------
(* Lists of servers *)

LEMMA EmptyIs == <<>> \in Seq(Hosts) /\ HostsOf(<<>>) = {} /\ Injective(<<>>)
BY DEF HostsOf, Injective

LEMMA AppendIs ==
  ASSUME NEW s \in Seq(Hosts), NEW h \in Hosts, Injective(s), h \notin HostsOf(s)
  PROVE  /\ Append(s, h) \in Seq(Hosts) /\ Append(s, h) # <<>>
         /\ Injective(Append(s, h))
         /\ HostsOf(Append(s, h)) = HostsOf(s) \cup {h}
<1> DEFINE t == Append(s, h)
<1>1. /\ t \in Seq(Hosts) /\ Len(t) = Len(s) + 1
      /\ DOMAIN s = 1..Len(s) /\ DOMAIN t = 1..(Len(s) + 1) /\ Len(s) \in Nat
      /\ \A i \in DOMAIN s : t[i] = s[i]
      /\ t[Len(s) + 1] = h
  OBVIOUS
<1> HIDE DEF t
<1>2. t # <<>>
  BY <1>1
<1>3. \A i \in DOMAIN t : i \in DOMAIN s \/ i = Len(s) + 1
  BY <1>1
<1>4. Injective(t)
  BY <1>1, <1>3 DEF Injective, HostsOf
<1>5. HostsOf(t) = HostsOf(s) \cup {h}
  BY <1>1, <1>3 DEF HostsOf
<1> QED BY <1>1, <1>2, <1>4, <1>5 DEF t

LEMMA ConcatIs ==
  ASSUME NEW s \in Seq(Hosts), NEW t \in Seq(Hosts), Injective(s), Injective(t),
         HostsOf(s) \cap HostsOf(t) = {}
  PROVE  /\ s \o t \in Seq(Hosts) /\ Injective(s \o t)
         /\ HostsOf(s \o t) = HostsOf(s) \cup HostsOf(t)
         /\ t # <<>> => s \o t # <<>>
         /\ Len(s \o t) >= Len(s)
<1> DEFINE u == s \o t
<1>1. /\ u \in Seq(Hosts) /\ Len(u) = Len(s) + Len(t)
      /\ DOMAIN s = 1..Len(s) /\ DOMAIN t = 1..Len(t) /\ DOMAIN u = 1..(Len(s) + Len(t))
      /\ Len(s) \in Nat /\ Len(t) \in Nat
      /\ \A i \in 1..Len(s) : u[i] = s[i]
      /\ \A i \in 1..Len(t) : u[Len(s) + i] = t[i]
      /\ t # <<>> => Len(t) # 0
  OBVIOUS
<1> HIDE DEF u
<1>2. \A i \in DOMAIN u : \/ i \in DOMAIN s /\ u[i] = s[i]
                          \/ i - Len(s) \in DOMAIN t /\ u[i] = t[i - Len(s)]
  <2> TAKE i \in DOMAIN u
  <2>1. CASE i <= Len(s)
    BY <1>1, <2>1
  <2>2. CASE i > Len(s)
    <3>1. i - Len(s) \in 1..Len(t) /\ Len(s) + (i - Len(s)) = i
      BY <1>1, <2>2
    <3> QED BY <1>1, <3>1
  <2> QED BY <1>1, <2>1, <2>2
<1>3. \A i \in DOMAIN t : Len(s) + i \in DOMAIN u
  BY <1>1
<1>4. HostsOf(u) = HostsOf(s) \cup HostsOf(t)
  <2>1. ASSUME NEW i \in DOMAIN u PROVE u[i] \in HostsOf(s) \cup HostsOf(t)
    BY <1>2, <2>1 DEF HostsOf
  <2>2. ASSUME NEW i \in DOMAIN s PROVE s[i] \in HostsOf(u)
    <3>1. i \in DOMAIN u /\ u[i] = s[i]
      BY <1>1
    <3> QED BY <3>1 DEF HostsOf
  <2>3. ASSUME NEW i \in DOMAIN t PROVE t[i] \in HostsOf(u)
    <3>1. Len(s) + i \in DOMAIN u /\ u[Len(s) + i] = t[i]
      BY <1>1, <1>3
    <3> QED BY <3>1 DEF HostsOf
  <2> QED BY <2>1, <2>2, <2>3 DEF HostsOf
<1>5. Injective(u)
  <2> SUFFICES ASSUME NEW i \in DOMAIN u, NEW j \in DOMAIN u, u[i] = u[j] PROVE i = j
    BY DEF Injective
  <2>1. i \in Int /\ j \in Int
    BY <1>1
  <2>2. \A k \in DOMAIN s, l \in DOMAIN t : s[k] # t[l]
    BY DEF HostsOf
  <2> QED BY <1>1, <1>2, <2>1, <2>2 DEF Injective
<1> QED BY <1>1, <1>4, <1>5 DEF u

LEMMA ReplaceIs ==
  ASSUME NEW s \in Seq(Hosts), NEW i \in DOMAIN s, NEW h \in Hosts, Injective(s),
         \A j \in DOMAIN s \ {i} : s[j] # h
  PROVE  LET t == [s EXCEPT ![i] = h] IN
         /\ t \in Seq(Hosts) /\ t # <<>> /\ Injective(t) /\ Len(t) = Len(s)
         /\ HostsOf(t) \subseteq HostsOf(s) \cup {h}
         /\ h \in HostsOf(t) /\ \A j \in DOMAIN s \ {i} : s[j] \in HostsOf(t)
<1> DEFINE t == [s EXCEPT ![i] = h]
<1>1. /\ t \in Seq(Hosts) /\ DOMAIN t = DOMAIN s /\ Len(t) = Len(s)
      /\ t[i] = h /\ \A j \in DOMAIN s \ {i} : t[j] = s[j]
  OBVIOUS
<1>2. t # <<>>
  BY <1>1
<1> HIDE DEF t
<1>3. Injective(t)
  BY <1>1 DEF Injective
<1> QED BY <1>1, <1>2, <1>3 DEF HostsOf, t

LEMMA RemoveIs ==
  ASSUME NEW s \in Seq(Hosts), NEW i \in DOMAIN s, Injective(s), Len(s) > 1
  PROVE  LET t == SubSeq(s, 1, i - 1) \o SubSeq(s, i + 1, Len(s)) IN
         /\ t \in Seq(Hosts) /\ t # <<>> /\ Injective(t)
         /\ HostsOf(t) \subseteq HostsOf(s)
<1> DEFINE a == SubSeq(s, 1, i - 1)
           b == SubSeq(s, i + 1, Len(s))
<1>1. /\ Len(s) \in Nat /\ i \in 1..Len(s) /\ DOMAIN s = 1..Len(s)
      /\ a \in Seq(Hosts) /\ Len(a) = i - 1 /\ DOMAIN a = 1..(i - 1)
      /\ b \in Seq(Hosts) /\ Len(b) = Len(s) - i /\ DOMAIN b = 1..(Len(s) - i)
  OBVIOUS
<1>2. \A j \in DOMAIN a : j \in DOMAIN s /\ j < i /\ a[j] = s[j]
  BY <1>1
<1>3. \A j \in DOMAIN b : i + j \in DOMAIN s /\ i + j > i /\ b[j] = s[i + j]
  BY <1>1
<1> HIDE DEF a, b
<1>4. Injective(a) /\ Injective(b)
  BY <1>1, <1>2, <1>3 DEF Injective
<1>5. HostsOf(a) \cap HostsOf(b) = {}
  BY <1>1, <1>2, <1>3 DEF Injective, HostsOf
<1>6. HostsOf(a) \subseteq HostsOf(s) /\ HostsOf(b) \subseteq HostsOf(s)
  BY <1>2, <1>3 DEF HostsOf
<1>7. a \o b # <<>>
  <2>0. ASSUME NEW u \in Seq(Hosts), NEW v \in Seq(Hosts) PROVE Len(u \o v) = Len(u) + Len(v)
    OBVIOUS
  <2>1. Len(a \o b) = Len(a) + Len(b)
    BY <1>1, <2>0
  <2>2. Len(a \o b) # 0
    BY <1>1, <2>1
  <2>3. Len(<<>>) = 0
    OBVIOUS
  <2> QED BY <2>2, <2>3
<1> QED BY <1>1, <1>4, <1>5, <1>6, <1>7, ConcatIs DEF a, b

-----------------------------------------------------------------------------
(* The inductive invariant *)

Dialog == [st : {"new", "form", "testing", "done"},
           e : Entries \cup {NoEntry}, existing : Seq(Hosts),
           own : SUBSET Sensor, chosen : Seq(Hosts),
           op : {"none", "user", "add", "replace", "edit"},
           at : Nat, host : SUBSET Hosts]

\* No two custom sensors with an id, or with a name on the same host.
Distinct(own) ==
  \A c, d \in own : c.id = d.id \/ (c.host = d.host /\ c.name = d.name) => c = d

\* The hosts of a dialog.
Holds(x) == HostsOf(x.existing) \cup HostsOf(x.chosen) \cup x.host

\* A dialog holds an entry as it once was; what it has collected, and the host
\* it tests, are new to what the save will keep.
DialogOK(x) ==
  /\ x \in Dialog
  /\ x.st \in {"new", "done"} => x.e = NoEntry /\ x.chosen = <<>> /\ x.host = {}
  /\ x.e = NoEntry => x.existing = <<>> /\ x.own = {}
  /\ x.e # NoEntry => x.existing # <<>>
  /\ Injective(x.existing) /\ Injective(x.chosen) /\ Fit(x.own, x.existing)
  /\ x.st # "testing" => x.host = {}
  /\ x.op = "user" => x.e = NoEntry
  /\ x.op \in {"add", "replace", "edit"} => x.e # NoEntry
  /\ x.op \in {"none", "edit"} => x.chosen = <<>>
  /\ x.op = "edit" => x.at \in DOMAIN x.existing
  /\ x.op \in {"user", "add"} => HostsOf(x.chosen) \cap HostsOf(x.existing) = {}
  /\ x.host \cap HostsOf(x.chosen) = {}
  /\ \A g, h \in x.host : g = h
  /\ x.op \in {"user", "add"} => x.host \cap HostsOf(x.existing) = {}
  /\ x.op = "edit" => \A i \in DOMAIN x.existing \ {x.at} : x.existing[i] \notin x.host

\* What is stored is consistent, and its phase says whether there is anything.
StoreOK ==
  /\ servers \in [Entries -> Seq(Hosts)] /\ sensors \in [Entries -> SUBSET Sensor]
  /\ HostOnceInEntry /\ SensorsFit

\* What is not about hosts and dialogs.
LifeOK ==
  /\ unique_id \in [Entries -> SUBSET Hosts]
  /\ phase \in [Entries -> {"absent", "setup", "loaded"}]
  /\ reload \in [Entries -> BOOLEAN]
  /\ running \in [Entries -> [servers : Seq(Hosts), sensors : SUBSET Sensor]]
  /\ missed \in [Flows -> SUBSET Hosts]
  /\ stale \subseteq Flows /\ raced \subseteq Hosts
  /\ RunningIsConfigured

\* Each dialog is in order and is about an entry that exists.
DialogsOK ==
  /\ flow \in [Flows -> Dialog]
  /\ \A f \in Flows : /\ DialogOK(flow[f])
                      /\ flow[f].e # NoEntry => Configured(flow[f].e)

\* A host that a dialog holds is not in another entry, unless it was saved
\* after the dialog looked.
HeldOrMissed ==
  \A f \in Flows : \A e \in Entries \ {flow[f].e} :
    HostsOf(servers[e]) \cap Holds(flow[f]) \subseteq missed[f] \cup raced

\* A dialog that no save made stale has its entry as it is.
FreshOK ==
  \A f \in Flows \ stale :
    flow[f].e # NoEntry => /\ flow[f].existing = servers[flow[f].e]
                           /\ flow[f].own = sensors[flow[f].e]

EntriesInv == StoreOK /\ LifeOK /\ DialogsOK /\ HeldOrMissed /\ FreshOK /\ EntriesDisjoint

LEMMA DoneIs == DialogOK(Done) /\ DialogOK(New) /\ Holds(Done) = {} /\ Holds(New) = {}
                /\ Done.e = NoEntry /\ New.e = NoEntry
<1>1. /\ New \in Dialog /\ New.st = "new" /\ New.op = "none" /\ New.e = NoEntry
      /\ New.existing = <<>> /\ New.chosen = <<>> /\ New.own = {} /\ New.host = {}
  <2>1. <<>> \in Seq(Hosts) /\ 0 \in Nat
    OBVIOUS
  <2> QED BY <2>1 DEF New, Dialog
<1>a. /\ Done \in Dialog /\ Done.st = "done" /\ Done.op = "none" /\ Done.e = NoEntry
      /\ Done.existing = <<>> /\ Done.chosen = <<>> /\ Done.own = {} /\ Done.host = {}
  BY <1>1 DEF Done, Dialog
<1>2. Fit({}, <<>>)
  BY DEF Fit
<1> QED BY <1>1, <1>a, <1>2, EmptyIs DEF DialogOK, Holds

LEMMA EntriesInitially == Init => EntriesInv
<1> SUFFICES ASSUME Init PROVE EntriesInv
  OBVIOUS
<1>1. /\ flow = [f \in Flows |-> New]
      /\ servers \in [Entries -> Seq(Hosts)] /\ sensors \in [Entries -> SUBSET Sensor]
  <2>1. \A n \in 0..MaxServers : \A s \in [1..n -> Hosts] : s \in Seq(Hosts)
    OBVIOUS
  <2>2. UNION {[1..n -> Hosts] : n \in 0..MaxServers} \subseteq Seq(Hosts)
    BY <2>1
  <2> HIDE DEF Init
  <2>3. /\ servers \in [Entries -> UNION {[1..n -> Hosts] : n \in 0..MaxServers}]
        /\ flow = [f \in Flows |-> New] /\ sensors \in [Entries -> SUBSET Sensor]
    BY DEF Init
  <2> QED BY <2>2, <2>3
<1>2. StoreOK
  BY <1>1 DEF Init, StoreOK, HostOnceInEntry, SensorsFit, Configured
<1>3. LifeOK
  <2>1. unique_id \in [Entries -> SUBSET Hosts]
    BY <1>1 DEF Init, HostsOf
  <2>2. running \in [Entries -> [servers : Seq(Hosts), sensors : SUBSET Sensor]]
    BY <1>1 DEF Init
  <2> QED BY <2>1, <2>2 DEF Init, LifeOK, RunningIsConfigured
<1>4. DialogsOK
  <2>1. New \in Dialog
    BY DoneIs DEF DialogOK
  <2> QED BY <1>1, <2>1, DoneIs DEF DialogsOK
<1>5. HeldOrMissed /\ FreshOK
  BY <1>1, DoneIs DEF HeldOrMissed, FreshOK
<1>6. EntriesDisjoint
  BY DEF Init, EntriesDisjoint
<1> QED BY <1>2, <1>3, <1>4, <1>5, <1>6 DEF EntriesInv

-----------------------------------------------------------------------------
(* Steps of a dialog that save nothing *)

LEMMA DialogKeeps ==
  ASSUME EntriesInv, NEW f \in Flows, NEW x, DialogOK(x),
         flow' = [flow EXCEPT ![f] = x],
         UNCHANGED <<storeVars, lifeVars, reload, historyVars>>,
         x.e # NoEntry => Configured(x.e),
         \A e \in Entries \ {x.e} :
           HostsOf(servers[e]) \cap Holds(x) \subseteq missed[f] \cup raced,
         f \notin stale /\ x.e # NoEntry =>
           x.existing = servers[x.e] /\ x.own = sensors[x.e]
  PROVE  EntriesInv'
<1>1. /\ servers' = servers /\ sensors' = sensors /\ unique_id' = unique_id
      /\ phase' = phase /\ running' = running /\ reload' = reload
      /\ missed' = missed /\ stale' = stale /\ raced' = raced
  BY DEF storeVars, lifeVars, historyVars
<1>2. flow \in [Flows -> Dialog] /\ x \in Dialog
  BY DEF EntriesInv, DialogsOK, DialogOK
<1>3. flow'[f] = x /\ \A g \in Flows \ {f} : flow'[g] = flow[g]
  BY <1>2
<1>4. StoreOK' /\ LifeOK' /\ EntriesDisjoint'
  BY <1>1 DEF EntriesInv, StoreOK, LifeOK, EntriesDisjoint, HostOnceInEntry, SensorsFit,
              RunningIsConfigured, Configured
<1>5. DialogsOK'
  <2>1. flow' \in [Flows -> Dialog]
    BY <1>2
  <2>2. ASSUME NEW g \in Flows
        PROVE  DialogOK(flow'[g]) /\ (flow'[g].e # NoEntry => servers[flow'[g].e] # <<>>)
    BY <1>3 DEF EntriesInv, DialogsOK, Configured
  <2> QED BY <1>1, <2>1, <2>2 DEF DialogsOK, Configured
<1>6. HeldOrMissed'
  BY <1>1, <1>3 DEF EntriesInv, HeldOrMissed
<1>7. FreshOK'
  BY <1>1, <1>3 DEF EntriesInv, FreshOK
<1> QED BY <1>4, <1>5, <1>6, <1>7 DEF EntriesInv

\* A dialog that ends without a save.
LEMMA Closes ==
  ASSUME EntriesInv, NEW f \in Flows, Close(f), missed' = [missed EXCEPT ![f] = {}],
         stale' \in {stale, stale \ {f}},
         UNCHANGED <<storeVars, lifeVars, reload, raced>>
  PROVE  EntriesInv'
<1>1. /\ servers' = servers /\ sensors' = sensors /\ unique_id' = unique_id
      /\ phase' = phase /\ running' = running /\ reload' = reload /\ raced' = raced
  BY DEF storeVars, lifeVars
<1>2. flow \in [Flows -> Dialog] /\ Done \in Dialog /\ missed \in [Flows -> SUBSET Hosts]
  BY DoneIs DEF EntriesInv, DialogsOK, DialogOK, LifeOK
<1>3. /\ flow'[f] = Done /\ \A g \in Flows \ {f} : flow'[g] = flow[g]
      /\ flow' \in [Flows -> Dialog] /\ missed' \in [Flows -> SUBSET Hosts]
      /\ \A g \in Flows \ {f} : missed'[g] = missed[g]
  BY <1>2 DEF Close
<1>4. StoreOK' /\ EntriesDisjoint'
  BY <1>1 DEF EntriesInv, StoreOK, EntriesDisjoint, HostOnceInEntry, SensorsFit, Configured
<1>5. LifeOK'
  BY <1>1, <1>3 DEF EntriesInv, LifeOK, RunningIsConfigured
<1>6. DialogsOK'
  <2>1. ASSUME NEW g \in Flows
        PROVE  DialogOK(flow'[g]) /\ (flow'[g].e # NoEntry => servers[flow'[g].e] # <<>>)
    BY <1>3, DoneIs DEF EntriesInv, DialogsOK, Configured
  <2> QED BY <1>1, <1>3, <2>1 DEF DialogsOK, Configured
<1>7. HeldOrMissed'
  BY <1>1, <1>3, DoneIs DEF EntriesInv, HeldOrMissed
<1>8. FreshOK'
  BY <1>1, <1>3, DoneIs DEF EntriesInv, FreshOK
<1> QED BY <1>4, <1>5, <1>6, <1>7, <1>8 DEF EntriesInv

-----------------------------------------------------------------------------
(* Saving *)

LEMMA NothingHeld ==
  ASSUME NEW x, DialogOK(x), x.st \in {"new", "done"}
  PROVE  Holds(x) = {}
BY EmptyIs DEF DialogOK, Holds

\* A dialog replaces what is stored for e, with hosts that it holds.
LEMMA Saves ==
  ASSUME EntriesInv, NEW f \in Flows, NEW e \in Entries, flow[f].e \in {e, NoEntry},
         NEW s \in Seq(Hosts), s # <<>>, Injective(s), HostsOf(s) \subseteq Holds(flow[f]),
         NEW own \in SUBSET Sensor, Fit(own, s),
         servers' = [servers EXCEPT ![e] = s], sensors' = [sensors EXCEPT ![e] = own],
         Close(f), Saved(f, e, s), running' = running,
         unique_id' \in [Entries -> SUBSET Hosts],
         phase' \in [Entries -> {"absent", "setup", "loaded"}],
         reload' \in [Entries -> BOOLEAN],
         phase'[e] # "absent", phase'[e] # "loaded" \/ reload'[e],
         \A x \in Entries \ {e} : phase'[x] = phase[x] /\ reload'[x] = reload[x]
  PROVE  EntriesInv'
<1>1. /\ flow \in [Flows -> Dialog] /\ Done \in Dialog /\ missed \in [Flows -> SUBSET Hosts]
      /\ servers \in [Entries -> Seq(Hosts)] /\ sensors \in [Entries -> SUBSET Sensor]
      /\ raced \subseteq Hosts /\ stale \subseteq Flows
  BY DoneIs DEF EntriesInv, DialogsOK, DialogOK, LifeOK, StoreOK
<1>2. /\ flow'[f] = Done /\ \A g \in Flows \ {f} : flow'[g] = flow[g]
      /\ flow' \in [Flows -> Dialog]
  BY <1>1 DEF Close
<1>3. /\ servers'[e] = s /\ \A x \in Entries \ {e} : servers'[x] = servers[x]
      /\ sensors'[e] = own /\ \A x \in Entries \ {e} : sensors'[x] = sensors[x]
      /\ servers' \in [Entries -> Seq(Hosts)] /\ sensors' \in [Entries -> SUBSET Sensor]
  BY <1>1
<1>4. ASSUME NEW g \in Flows \ {f}
      PROVE  /\ missed'[g] \in SUBSET Hosts
             /\ g \notin stale' => g \notin stale /\ flow[g].e # e
             /\ \A x \in Entries \ {flow[g].e} :
                  HostsOf(servers'[x]) \cap Holds(flow[g]) \subseteq missed'[g] \cup raced
  <2>1. DialogOK(flow[g])
    BY DEF EntriesInv, DialogsOK
  <2>2. HostsOf(s) \subseteq Hosts
    BY DEF HostsOf
  <2>3. missed'[g] = IF flow[g].st \in {"new", "done"} THEN {}
                     ELSE missed[g] \cup (IF flow[g].e = e THEN {}
                                          ELSE HostsOf(s) \cap Holds(flow[g]))
    BY DEF Saved, Counted, Holds
  <2>4. missed[g] \in SUBSET Hosts
    BY <1>1
  <2>5. g \notin stale' => g \notin stale /\ flow[g].e # e
    BY DEF Saved
  <2>6. ASSUME NEW x \in Entries \ {flow[g].e}
        PROVE  HostsOf(servers'[x]) \cap Holds(flow[g]) \subseteq missed'[g] \cup raced
    <3>1. CASE flow[g].st \in {"new", "done"}
      <4>1. Holds(flow[g]) = {}
        BY <2>1, <3>1, NothingHeld
      <4> QED BY <4>1
    <3>2. CASE flow[g].st \notin {"new", "done"} /\ x = e
      BY <1>3, <2>3, <3>2
    <3>3. CASE flow[g].st \notin {"new", "done"} /\ x # e
      <4>1. HostsOf(servers[x]) \cap Holds(flow[g]) \subseteq missed[g] \cup raced
        BY DEF EntriesInv, HeldOrMissed
      <4>2. servers'[x] = servers[x]
        BY <1>3, <3>3
      <4> QED BY <2>3, <3>3, <4>1, <4>2
    <3> QED BY <3>1, <3>2, <3>3
  <2> QED BY <2>2, <2>3, <2>4, <2>5, <2>6
<1>5. StoreOK'
  <2>1. ASSUME NEW x \in Entries
        PROVE  /\ Injective(servers'[x]) /\ ((phase'[x] # "absent") <=> servers'[x] # <<>>)
               /\ Fit(sensors'[x], servers'[x])
    BY <1>3 DEF EntriesInv, StoreOK, HostOnceInEntry, SensorsFit, Configured
  <2> QED BY <1>3, <2>1 DEF StoreOK, HostOnceInEntry, SensorsFit, Configured
<1>6. LifeOK'
  <2>1. ASSUME NEW x \in Entries, phase'[x] = "loaded", ~reload'[x]
        PROVE  running[x] = [servers |-> servers'[x], sensors |-> sensors'[x]]
    BY <1>3, <2>1 DEF EntriesInv, LifeOK, RunningIsConfigured
  <2>2. missed' \in [Flows -> SUBSET Hosts]
    <3>1. missed' = [g \in Flows |-> missed'[g]] /\ missed'[f] = {}
      BY DEF Saved
    <3>2. \A g \in Flows : missed'[g] \in SUBSET Hosts
      BY <1>4, <3>1
    <3> QED BY <3>1, <3>2
  <2>3. stale' \subseteq Flows /\ raced' \subseteq Hosts
    BY <1>1 DEF Saved, HostsOf
  <2>4. running \in [Entries -> [servers : Seq(Hosts), sensors : SUBSET Sensor]]
    BY DEF EntriesInv, LifeOK
  <2> QED BY <2>1, <2>2, <2>3, <2>4 DEF LifeOK, RunningIsConfigured
<1>7. DialogsOK'
  <2>1. ASSUME NEW g \in Flows
        PROVE  DialogOK(flow'[g]) /\ (flow'[g].e # NoEntry => servers'[flow'[g].e] # <<>>)
    <3>1. DialogOK(flow[g]) /\ (flow[g].e # NoEntry => servers[flow[g].e] # <<>>)
      BY DEF EntriesInv, DialogsOK, Configured
    <3>2. flow[g].e # NoEntry => flow[g].e \in Entries
      BY <1>1 DEF Dialog
    <3> QED BY <1>2, <1>3, <3>1, <3>2, DoneIs
  <2> QED BY <1>2, <2>1 DEF DialogsOK, Configured
<1>8. HeldOrMissed'
  <2>1. raced \subseteq raced'
    BY DEF Saved
  <2>2. ASSUME NEW g \in Flows, NEW x \in Entries \ {flow'[g].e}
        PROVE  HostsOf(servers'[x]) \cap Holds(flow'[g]) \subseteq missed'[g] \cup raced'
    <3>1. CASE g = f
      BY <1>2, <3>1, DoneIs
    <3>2. CASE g # f
      <4>1. flow'[g] = flow[g]
        BY <1>2, <3>2
      <4>2. HostsOf(servers'[x]) \cap Holds(flow[g]) \subseteq missed'[g] \cup raced
        BY <1>4, <3>2, <4>1
      <4> QED BY <2>1, <4>1, <4>2
    <3> QED BY <3>1, <3>2
  <2> QED BY <2>2 DEF HeldOrMissed
<1>9. FreshOK'
  <2>1. ASSUME NEW g \in Flows, g \notin stale', flow'[g].e # NoEntry
        PROVE  /\ flow'[g].existing = servers'[flow'[g].e]
               /\ flow'[g].own = sensors'[flow'[g].e]
    <3>1. g # f
      BY <1>2, <2>1, DoneIs
    <3>2. flow'[g] = flow[g] /\ g \notin stale /\ flow[g].e # e
      BY <1>2, <1>4, <2>1, <3>1
    <3>3. flow[g].e \in Entries \ {e}
      BY <1>1, <2>1, <3>2 DEF Dialog
    <3> QED BY <1>3, <2>1, <3>2, <3>3 DEF EntriesInv, FreshOK
  <2> QED BY <2>1 DEF FreshOK
<1>10. EntriesDisjoint'
  <2>1. raced' = raced \cup (HostsOf(s) \cap missed[f])
    BY DEF Saved
  <2>2. ASSUME NEW x \in Entries \ {e}
        PROVE  HostsOf(s) \cap HostsOf(servers'[x]) \subseteq raced'
    <3>1. x # flow[f].e
      OBVIOUS
    <3>2. HostsOf(servers[x]) \cap Holds(flow[f]) \subseteq missed[f] \cup raced
      BY <3>1 DEF EntriesInv, HeldOrMissed
    <3> QED BY <1>3, <2>1, <3>2
  <2>3. ASSUME NEW x \in Entries, NEW y \in Entries, x # y
        PROVE  HostsOf(servers'[x]) \cap HostsOf(servers'[y]) \subseteq raced'
    <3>1. CASE x = e
      BY <1>3, <2>2, <2>3, <3>1
    <3>2. CASE y = e
      BY <1>3, <2>2, <2>3, <3>2
    <3>3. CASE x # e /\ y # e
      <4>1. HostsOf(servers[x]) \cap HostsOf(servers[y]) \subseteq raced
        BY <2>3 DEF EntriesInv, EntriesDisjoint
      <4> QED BY <1>3, <2>1, <3>3, <4>1
    <3> QED BY <3>1, <3>2, <3>3
  <2> QED BY <2>3 DEF EntriesDisjoint
<1> QED BY <1>5, <1>6, <1>7, <1>8, <1>9, <1>10 DEF EntriesInv

\* The save of an options flow.
LEMMA UpdateSaves ==
  ASSUME EntriesInv, NEW f \in Flows, flow[f].e # NoEntry,
         NEW s \in Seq(Hosts), s # <<>>, Injective(s), HostsOf(s) \subseteq Holds(flow[f]),
         NEW own \in SUBSET Sensor, Distinct(own), UpdateEntry(f, s, own)
  PROVE  EntriesInv'
<1> DEFINE e == flow[f].e
           kept == {d \in own : d.host \in HostsOf(s)}
<1>1. e \in Entries /\ servers[e] # <<>>
  BY DEF EntriesInv, DialogsOK, Dialog, Configured
<1>2. /\ servers' = [servers EXCEPT ![e] = s] /\ sensors' = [sensors EXCEPT ![e] = kept]
      /\ reload' = [reload EXCEPT ![e] = TRUE]
      /\ Close(f) /\ Saved(f, e, s)
      /\ unique_id' = unique_id /\ phase' = phase /\ running' = running
  BY DEF UpdateEntry, lifeVars
<1>3. kept \in SUBSET Sensor /\ Fit(kept, s)
  BY DEF Distinct, Fit
<1>4. /\ unique_id' \in [Entries -> SUBSET Hosts]
      /\ phase' \in [Entries -> {"absent", "setup", "loaded"}]
      /\ reload' \in [Entries -> BOOLEAN] /\ reload'[e] = TRUE
      /\ \A x \in Entries \ {e} : phase'[x] = phase[x] /\ reload'[x] = reload[x]
  BY <1>1, <1>2 DEF EntriesInv, LifeOK
<1>5. phase'[e] # "absent"
  BY <1>1, <1>2 DEF EntriesInv, StoreOK, HostOnceInEntry, Configured
<1> HIDE DEF e, kept
<1>6. flow[f].e \in {e, NoEntry}
  BY DEF e
<1> QED BY <1>1, <1>2, <1>3, <1>4, <1>5, <1>6, Saves

\* The save of a config flow.
LEMMA CreateSaves ==
  ASSUME EntriesInv, NEW f \in Flows, flow[f].e = NoEntry,
         NEW s \in Seq(Hosts), s # <<>>, Injective(s), HostsOf(s) \subseteq Holds(flow[f]),
         CreateEntry(f, s)
  PROVE  EntriesInv'
<1>1. CASE \E e \in Entries : Configured(e) /\ unique_id[e] = HostsOf(s)
  <2>1. /\ Close(f) /\ missed' = [missed EXCEPT ![f] = {}] /\ stale' = stale
        /\ UNCHANGED <<storeVars, lifeVars, reload, raced>>
    BY <1>1 DEF CreateEntry
  <2>2. stale' \in {stale, stale \ {f}}
    BY <2>1
  <2> QED BY <2>1, <2>2, Closes
<1>2. CASE ~\E e \in Entries : Configured(e) /\ unique_id[e] = HostsOf(s)
  <2>1. PICK e \in Entries :
          /\ phase[e] = "absent"
          /\ servers' = [servers EXCEPT ![e] = s]
          /\ unique_id' = [unique_id EXCEPT ![e] = HostsOf(s)]
          /\ phase' = [phase EXCEPT ![e] = "setup"]
          /\ Close(f) /\ Saved(f, e, s)
          /\ sensors' = sensors /\ running' = running /\ reload' = reload
    BY <1>2 DEF CreateEntry
  <2>2. HostsOf(s) \subseteq Hosts
    BY DEF HostsOf
  <2>3. /\ unique_id' \in [Entries -> SUBSET Hosts]
        /\ phase' \in [Entries -> {"absent", "setup", "loaded"}] /\ phase'[e] = "setup"
        /\ reload' \in [Entries -> BOOLEAN]
        /\ \A x \in Entries \ {e} : phase'[x] = phase[x] /\ reload'[x] = reload[x]
    BY <2>1, <2>2 DEF EntriesInv, LifeOK
  <2>4. servers[e] = <<>>
    BY <2>1 DEF EntriesInv, StoreOK, HostOnceInEntry, Configured
  <2>5. sensors[e] = {}
    BY <2>4, EmptyIs DEF EntriesInv, StoreOK, SensorsFit, Fit
  <2>6. sensors' = [sensors EXCEPT ![e] = {}]
    BY <2>1, <2>5 DEF EntriesInv, StoreOK
  <2>7. {} \in SUBSET Sensor /\ Fit({}, s)
    BY DEF Fit
  <2>8. phase'[e] # "absent" /\ (phase'[e] # "loaded" \/ reload'[e])
    BY <2>3
  <2>9. flow[f].e \in {e, NoEntry}
    OBVIOUS
  <2> QED BY <2>1, <2>3, <2>6, <2>7, <2>8, <2>9, Saves
<1> QED BY <1>1, <1>2

-----------------------------------------------------------------------------
(* Steps of a dialog *)

LEMMA OpenKeeps ==
  ASSUME EntriesInv, NEW f \in Flows, OpenConfigFlow(f)
  PROVE  EntriesInv'
<1> DEFINE x == [New EXCEPT !.st = "form", !.op = "user"]
<1>1. /\ flow' = [flow EXCEPT ![f] = x]
      /\ UNCHANGED <<storeVars, lifeVars, reload, historyVars>>
  BY DEF OpenConfigFlow, Opened
<1>2. /\ x \in Dialog /\ x.st = "form" /\ x.op = "user" /\ x.e = NoEntry
      /\ x.existing = <<>> /\ x.chosen = <<>> /\ x.own = {} /\ x.host = {}
  BY DoneIs DEF New, Dialog, DialogOK
<1> HIDE DEF x
<1>3. Fit({}, <<>>)
  BY DEF Fit
<1>4. DialogOK(x) /\ Holds(x) = {}
  BY <1>2, <1>3, EmptyIs DEF DialogOK, Holds
<1>5. \A e \in Entries \ {x.e} :
        HostsOf(servers[e]) \cap Holds(x) \subseteq missed[f] \cup raced
  BY <1>4
<1> QED BY <1>1, <1>2, <1>4, <1>5, DialogKeeps

LEMMA OpenOptionsKeeps ==
  ASSUME EntriesInv, NEW f \in Flows, NEW e \in Entries, OpenOptionsFlow(f, e)
  PROVE  EntriesInv'
<1> DEFINE x == [New EXCEPT !.st = "form", !.e = e,
                            !.existing = servers[e], !.own = sensors[e]]
<1>1. /\ flow' = [flow EXCEPT ![f] = x] /\ servers[e] # <<>>
      /\ UNCHANGED <<storeVars, lifeVars, reload, historyVars>>
  BY DEF OpenOptionsFlow, Opened, Configured
<1>2. /\ servers[e] \in Seq(Hosts) /\ sensors[e] \in SUBSET Sensor
      /\ Injective(servers[e]) /\ Fit(sensors[e], servers[e])
  BY DEF EntriesInv, StoreOK, HostOnceInEntry, SensorsFit
<1>3. /\ x \in Dialog /\ x.st = "form" /\ x.op = "none" /\ x.e = e
      /\ x.existing = servers[e] /\ x.chosen = <<>> /\ x.own = sensors[e] /\ x.host = {}
  BY <1>2, DoneIs DEF New, Dialog, DialogOK
<1> HIDE DEF x
<1>4. DialogOK(x) /\ Holds(x) = HostsOf(servers[e])
  BY <1>1, <1>2, <1>3, EmptyIs DEF DialogOK, Holds
<1>5. \A d \in Entries \ {x.e} :
        HostsOf(servers[d]) \cap Holds(x) \subseteq missed[f] \cup raced
  BY <1>3, <1>4 DEF EntriesInv, EntriesDisjoint
<1> QED BY <1>1, <1>3, <1>4, <1>5, DialogKeeps DEF Configured

LEMMA SubmitKeeps ==
  ASSUME EntriesInv, NEW f \in Flows, NEW h \in Hosts, NEW at \in Nat,
         NEW op \in {"user", "add", "replace", "edit"}, SubmitServer(f, h, op, at),
         (op = "user") <=> (flow[f].e = NoEntry),
         IF op = "edit" THEN at \in DOMAIN flow[f].existing ELSE at = 0
  PROVE  EntriesInv'
<1> DEFINE y == flow[f]
           x == [y EXCEPT !.st = "testing", !.op = op, !.at = at, !.host = {h}]
<1>1. flow \in [Flows -> Dialog] /\ y \in Dialog /\ DialogOK(y)
  BY DEF EntriesInv, DialogsOK
<1>2. /\ flow' = [flow EXCEPT ![f] = x]
      /\ UNCHANGED <<storeVars, lifeVars, reload, historyVars>>
  BY <1>1 DEF SubmitServer, Dialog
<1>3. /\ x \in Dialog /\ x.st = "testing" /\ x.op = op /\ x.at = at /\ x.host = {h}
      /\ x.e = y.e /\ x.existing = y.existing /\ x.own = y.own /\ x.chosen = y.chosen
  BY <1>1 DEF Dialog
<1>4. /\ y.st = "form" /\ y.op \in {op, "none"}
      /\ op # "replace" => \A i \in DOMAIN y.existing \ {at} : y.existing[i] # h
      /\ h \notin HostsOf(y.chosen) /\ ~HostAlreadyConfigured(h, y.e)
  BY DEF SubmitServer, Step, Refused
<1>5. y.existing \in Seq(Hosts) /\ 0 \notin DOMAIN y.existing
  <2>1. y.existing \in Seq(Hosts)
    BY <1>1 DEF Dialog
  <2> QED BY <2>1
<1>a. (op = "user") <=> (y.e = NoEntry)
  OBVIOUS
<1>b. IF op = "edit" THEN at \in DOMAIN y.existing ELSE at = 0
  OBVIOUS
<1> HIDE DEF x
<1>6. DialogOK(x)
  <2>1. y.op = "none" => y.chosen = <<>>
    BY <1>1 DEF DialogOK
  <2>2. op \in {"user", "add"} => HostsOf(y.chosen) \cap HostsOf(y.existing) = {}
    BY <1>1, <1>4, <2>1, EmptyIs DEF DialogOK
  <2>3. op \in {"user", "add"} => h \notin HostsOf(y.existing)
    BY <1>4, <1>5, <1>b DEF HostsOf
  <2>4. op = "edit" => y.chosen = <<>>
    BY <1>1, <1>4 DEF DialogOK
  <2>5. op = "edit" => at \in DOMAIN y.existing
                       /\ \A i \in DOMAIN y.existing \ {at} : y.existing[i] # h
    BY <1>4, <1>b
  <2> HIDE DEF y
  <2> QED BY <1>1, <1>3, <1>4, <1>a, <2>2, <2>3, <2>4, <2>5 DEF DialogOK
<1>7. ASSUME NEW e \in Entries \ {x.e}
      PROVE  HostsOf(servers[e]) \cap Holds(x) \subseteq missed[f] \cup raced
  <2>1. HostsOf(servers[e]) \cap Holds(y) \subseteq missed[f] \cup raced
    BY <1>3 DEF EntriesInv, HeldOrMissed
  <2>2. h \notin HostsOf(servers[e])
    BY <1>3, <1>4 DEF HostAlreadyConfigured
  <2>3. Holds(x) \subseteq Holds(y) \cup {h}
    BY <1>3 DEF Holds
  <2> QED BY <2>1, <2>2, <2>3
<1>8. /\ x.e # NoEntry => Configured(x.e)
      /\ f \notin stale /\ x.e # NoEntry => x.existing = servers[x.e] /\ x.own = sensors[x.e]
  BY <1>3 DEF EntriesInv, DialogsOK, FreshOK
<1> QED BY <1>2, <1>6, <1>7, <1>8, DialogKeeps

LEMMA SubmitsKeep ==
  ASSUME EntriesInv, NEW f \in Flows, NEW h \in Hosts,
         SubmitUser(f, h) \/ SubmitAdded(f, h) \/ SubmitReplacement(f, h) \/ SubmitEdit(f, h)
  PROVE  EntriesInv'
<1>1. DialogOK(flow[f]) /\ flow[f].existing \in Seq(Hosts)
  BY DEF EntriesInv, DialogsOK, Dialog
<1>2. CASE SubmitUser(f, h)
  BY <1>2, SubmitKeeps DEF SubmitUser
<1>3. CASE SubmitAdded(f, h)
  BY <1>3, SubmitKeeps DEF SubmitAdded
<1>4. CASE SubmitReplacement(f, h)
  BY <1>4, SubmitKeeps DEF SubmitReplacement
<1>5. CASE SubmitEdit(f, h)
  <2>1. PICK i \in DOMAIN flow[f].existing : SubmitServer(f, h, "edit", i)
    BY <1>5 DEF SubmitEdit
  <2>2. flow[f].existing # <<>> /\ i \in Nat
    <3>1. DOMAIN flow[f].existing = 1..Len(flow[f].existing)
      BY <1>1
    <3> QED BY <1>1, <2>1, <3>1
  <2>3. flow[f].e # NoEntry
    BY <1>1, <2>2 DEF DialogOK
  <2> QED BY <2>1, <2>2, <2>3, SubmitKeeps
<1> QED BY <1>2, <1>3, <1>4, <1>5

LEMMA TestFailsKeeps ==
  ASSUME EntriesInv, NEW f \in Flows, TestFails(f)
  PROVE  EntriesInv'
<1> DEFINE y == flow[f]
           x == [y EXCEPT !.st = "form", !.host = {}]
<1>1. flow \in [Flows -> Dialog] /\ y \in Dialog /\ DialogOK(y)
  BY DEF EntriesInv, DialogsOK
<1>2. /\ flow' = [flow EXCEPT ![f] = x]
      /\ UNCHANGED <<storeVars, lifeVars, reload, historyVars>>
  BY <1>1 DEF TestFails, Dialog
<1>3. /\ x \in Dialog /\ x.st = "form" /\ x.op = y.op /\ x.at = y.at /\ x.host = {}
      /\ x.e = y.e /\ x.existing = y.existing /\ x.own = y.own /\ x.chosen = y.chosen
  BY <1>1 DEF Dialog
<1> HIDE DEF x
<1>6. DialogOK(x)
  BY <1>1, <1>3 DEF DialogOK
<1>7. ASSUME NEW e \in Entries \ {x.e}
      PROVE  HostsOf(servers[e]) \cap Holds(x) \subseteq missed[f] \cup raced
  <2>1. HostsOf(servers[e]) \cap Holds(y) \subseteq missed[f] \cup raced
    BY <1>3 DEF EntriesInv, HeldOrMissed
  <2>2. Holds(x) \subseteq Holds(y)
    BY <1>3 DEF Holds
  <2> QED BY <2>1, <2>2
<1>8. /\ x.e # NoEntry => Configured(x.e)
      /\ f \notin stale /\ x.e # NoEntry => x.existing = servers[x.e] /\ x.own = sensors[x.e]
  BY <1>3 DEF EntriesInv, DialogsOK, FreshOK
<1> QED BY <1>2, <1>6, <1>7, <1>8, DialogKeeps

LEMMA CollectKeeps ==
  ASSUME EntriesInv, NEW f \in Flows, NEW h \in flow[f].host, Collect(f, h),
         flow[f].op \in {"user", "add", "replace"}
  PROVE  EntriesInv'
<1> DEFINE y == flow[f]
           x == [y EXCEPT !.st = "form", !.host = {}, !.chosen = Append(y.chosen, h)]
<1>1. flow \in [Flows -> Dialog] /\ y \in Dialog /\ DialogOK(y)
  BY DEF EntriesInv, DialogsOK
<1>2. /\ flow' = [flow EXCEPT ![f] = x]
      /\ UNCHANGED <<storeVars, lifeVars, reload, historyVars>>
  BY <1>1 DEF Collect, Dialog
<1>a. y.chosen \in Seq(Hosts) /\ h \in Hosts /\ h \in y.host
  BY <1>1 DEF Dialog
<1>b. Injective(y.chosen) /\ h \notin HostsOf(y.chosen)
  BY <1>1, <1>a DEF DialogOK
<1>c. /\ Append(y.chosen, h) \in Seq(Hosts) /\ Injective(Append(y.chosen, h))
      /\ HostsOf(Append(y.chosen, h)) = HostsOf(y.chosen) \cup {h}
  BY <1>a, <1>b, AppendIs
<1>3. /\ x \in Dialog /\ x.st = "form" /\ x.op = y.op /\ x.at = y.at /\ x.host = {}
      /\ x.e = y.e /\ x.existing = y.existing /\ x.own = y.own
      /\ x.chosen = Append(y.chosen, h)
  BY <1>1, <1>c DEF Dialog
<1>d. y.op \in {"user", "add", "replace"}
  OBVIOUS
<1> HIDE DEF x
<1>6. DialogOK(x)
  <2>1. y.op \in {"user", "add"} => HostsOf(x.chosen) \cap HostsOf(x.existing) = {}
    BY <1>1, <1>3, <1>a, <1>c DEF DialogOK
  <2>2. Injective(x.chosen)
    BY <1>3, <1>c
  <2> HIDE DEF y
  <2> QED BY <1>1, <1>3, <1>d, <2>1, <2>2 DEF DialogOK
<1>7. ASSUME NEW e \in Entries \ {x.e}
      PROVE  HostsOf(servers[e]) \cap Holds(x) \subseteq missed[f] \cup raced
  <2>1. HostsOf(servers[e]) \cap Holds(y) \subseteq missed[f] \cup raced
    BY <1>3 DEF EntriesInv, HeldOrMissed
  <2>2. Holds(x) \subseteq Holds(y)
    BY <1>3, <1>a, <1>c DEF Holds
  <2> QED BY <2>1, <2>2
<1>8. /\ x.e # NoEntry => Configured(x.e)
      /\ f \notin stale /\ x.e # NoEntry => x.existing = servers[x.e] /\ x.own = sensors[x.e]
  BY <1>3 DEF EntriesInv, DialogsOK, FreshOK
<1> QED BY <1>2, <1>6, <1>7, <1>8, DialogKeeps

\* What a step that passed its connection test has to save.
LEMMA TestedIs ==
  ASSUME EntriesInv, NEW f \in Flows, NEW op, NEW h \in Tested(f, op)
  PROVE  /\ flow[f].op = op /\ h \in flow[f].host /\ h \in Hosts
         /\ Append(flow[f].chosen, h) \in Seq(Hosts) /\ Append(flow[f].chosen, h) # <<>>
         /\ Injective(Append(flow[f].chosen, h))
         /\ HostsOf(Append(flow[f].chosen, h)) = HostsOf(flow[f].chosen) \cup {h}
         /\ HostsOf(Append(flow[f].chosen, h)) \subseteq Holds(flow[f])
<1> DEFINE y == flow[f]
<1>1. y \in Dialog /\ DialogOK(y)
  BY DEF EntriesInv, DialogsOK
<1>2. y.op = op /\ h \in y.host
  BY DEF Tested
<1>3. y.chosen \in Seq(Hosts) /\ h \in Hosts
  BY <1>1, <1>2 DEF Dialog
<1>4. Injective(y.chosen) /\ h \notin HostsOf(y.chosen)
  BY <1>1, <1>2 DEF DialogOK
<1>5. /\ Append(y.chosen, h) \in Seq(Hosts) /\ Append(y.chosen, h) # <<>>
      /\ Injective(Append(y.chosen, h))
      /\ HostsOf(Append(y.chosen, h)) = HostsOf(y.chosen) \cup {h}
  BY <1>3, <1>4, AppendIs
<1>6. HostsOf(y.chosen) \cup {h} \subseteq Holds(y)
  BY <1>2 DEF Holds
<1> QED BY <1>2, <1>3, <1>5, <1>6

LEMMA UserPassesKeeps ==
  ASSUME EntriesInv, NEW f \in Flows, UserPasses(f)
  PROVE  EntriesInv'
<1>1. PICK h \in Tested(f, "user") : Collect(f, h) \/ CreateEntry(f, Append(flow[f].chosen, h))
  BY DEF UserPasses
<1>2. DialogOK(flow[f])
  BY DEF EntriesInv, DialogsOK
<1>3. flow[f].op = "user" /\ h \in flow[f].host /\ flow[f].e = NoEntry
  BY <1>2, TestedIs DEF DialogOK
<1>4. CASE Collect(f, h)
  BY <1>3, <1>4, CollectKeeps
<1>5. CASE CreateEntry(f, Append(flow[f].chosen, h))
  BY <1>3, <1>5, TestedIs, CreateSaves
<1> QED BY <1>1, <1>4, <1>5

\* What a dialog about an entry holds.
LEMMA DialogHolds ==
  ASSUME EntriesInv, NEW f \in Flows, flow[f].e # NoEntry
  PROVE  /\ DialogOK(flow[f]) /\ flow[f].existing \in Seq(Hosts) /\ flow[f].existing # <<>>
         /\ Injective(flow[f].existing) /\ HostsOf(flow[f].existing) \subseteq Holds(flow[f])
         /\ flow[f].own \in SUBSET Sensor /\ Distinct(flow[f].own)
         /\ \A d \in flow[f].own : d.host \in HostsOf(flow[f].existing)
<1>1. DialogOK(flow[f]) /\ flow[f] \in Dialog
  BY DEF EntriesInv, DialogsOK
<1>2. flow[f].existing \in Seq(Hosts) /\ flow[f].own \in SUBSET Sensor
  BY <1>1 DEF Dialog
<1> QED BY <1>1, <1>2 DEF DialogOK, Fit, Distinct, Holds

LEMMA AddedPassesKeeps ==
  ASSUME EntriesInv, NEW f \in Flows, AddedPasses(f)
  PROVE  EntriesInv'
<1>1. PICK h \in Tested(f, "add") :
        \/ Collect(f, h)
        \/ UpdateEntry(f, flow[f].existing \o Append(flow[f].chosen, h), flow[f].own)
  BY DEF AddedPasses
<1>2. DialogOK(flow[f])
  BY DEF EntriesInv, DialogsOK
<1>3. flow[f].op = "add" /\ h \in flow[f].host /\ flow[f].e # NoEntry
  BY <1>2, TestedIs DEF DialogOK
<1>4. CASE Collect(f, h)
  BY <1>3, <1>4, CollectKeeps
<1>5. CASE UpdateEntry(f, flow[f].existing \o Append(flow[f].chosen, h), flow[f].own)
  <2> DEFINE s == flow[f].existing
             t == Append(flow[f].chosen, h)
  <2>1. /\ t \in Seq(Hosts) /\ t # <<>> /\ Injective(t)
        /\ HostsOf(t) = HostsOf(flow[f].chosen) \cup {h} /\ HostsOf(t) \subseteq Holds(flow[f])
    BY TestedIs
  <2>2. /\ s \in Seq(Hosts) /\ Injective(s) /\ HostsOf(s) \subseteq Holds(flow[f])
        /\ flow[f].own \in SUBSET Sensor /\ Distinct(flow[f].own)
    BY <1>3, DialogHolds
  <2> HIDE DEF t
  <2>3. HostsOf(s) \cap HostsOf(t) = {}
    BY <1>2, <1>3, <2>1 DEF DialogOK
  <2>4. s \o t \in Seq(Hosts) /\ s \o t # <<>> /\ Injective(s \o t)
        /\ HostsOf(s \o t) = HostsOf(s) \cup HostsOf(t)
    BY <2>1, <2>2, <2>3, ConcatIs
  <2>5. HostsOf(s \o t) \subseteq Holds(flow[f])
    BY <2>1, <2>2, <2>4
  <2>6. UpdateEntry(f, s \o t, flow[f].own)
    BY <1>5 DEF t
  <2> QED BY <1>3, <2>2, <2>4, <2>5, <2>6, UpdateSaves
<1> QED BY <1>1, <1>4, <1>5

LEMMA ReplacementPassesKeeps ==
  ASSUME EntriesInv, NEW f \in Flows, ReplacementPasses(f)
  PROVE  EntriesInv'
<1>1. PICK h \in Tested(f, "replace") :
        Collect(f, h) \/ UpdateEntry(f, Append(flow[f].chosen, h), flow[f].own)
  BY DEF ReplacementPasses
<1>2. DialogOK(flow[f])
  BY DEF EntriesInv, DialogsOK
<1>3. flow[f].op = "replace" /\ h \in flow[f].host /\ flow[f].e # NoEntry
  BY <1>2, TestedIs DEF DialogOK
<1>4. CASE Collect(f, h)
  BY <1>3, <1>4, CollectKeeps
<1>5. CASE UpdateEntry(f, Append(flow[f].chosen, h), flow[f].own)
  BY <1>3, <1>5, TestedIs, DialogHolds, UpdateSaves
<1> QED BY <1>1, <1>4, <1>5

\* Custom sensors that follow a server keep apart.
LEMMA FollowIs ==
  ASSUME NEW own \in SUBSET Sensor, Distinct(own), NEW old, NEW new \in Hosts,
         \A d \in own : d.host = new => old = new
  PROVE  Follow(own, old, new) \in SUBSET Sensor /\ Distinct(Follow(own, old, new))
<1> DEFINE To(d) == IF d.host = old THEN [d EXCEPT !.host = new] ELSE d
<1>1. ASSUME NEW d \in own
      PROVE  /\ To(d) \in Sensor /\ To(d).id = d.id /\ To(d).name = d.name
             /\ To(d).host = IF d.host = old THEN new ELSE d.host
  BY DEF Sensor
<1>2. Follow(own, old, new) = {To(d) : d \in own}
  BY DEF Follow
<1> HIDE DEF To
<1>3. ASSUME NEW c \in own, NEW d \in own,
             To(c).id = To(d).id \/ (To(c).host = To(d).host /\ To(c).name = To(d).name)
      PROVE  c = d
  BY <1>1, <1>3 DEF Distinct
<1> QED BY <1>1, <1>2, <1>3 DEF Distinct

LEMMA EditPassesKeeps ==
  ASSUME EntriesInv, NEW f \in Flows, EditPasses(f)
  PROVE  EntriesInv'
<1> DEFINE i == flow[f].at
           s == flow[f].existing
<1>1. PICK h \in Tested(f, "edit") :
        UpdateEntry(f, [s EXCEPT ![i] = h], Follow(flow[f].own, s[i], h))
  BY DEF EditPasses
<1>2. flow[f].op = "edit" /\ h \in flow[f].host /\ h \in Hosts
  BY TestedIs
<1>3. DialogOK(flow[f])
  BY DEF EntriesInv, DialogsOK
<1>4. flow[f].e # NoEntry /\ i \in DOMAIN s /\ \A j \in DOMAIN s \ {i} : s[j] # h
  BY <1>2, <1>3 DEF DialogOK
<1>5. /\ s \in Seq(Hosts) /\ Injective(s) /\ HostsOf(s) \subseteq Holds(flow[f])
      /\ flow[f].own \in SUBSET Sensor /\ Distinct(flow[f].own)
      /\ \A d \in flow[f].own : d.host \in HostsOf(s)
  BY <1>4, DialogHolds
<1>6. h \in Holds(flow[f])
  BY <1>2 DEF Holds
<1> HIDE DEF i, s
<1>7. /\ [s EXCEPT ![i] = h] \in Seq(Hosts) /\ [s EXCEPT ![i] = h] # <<>>
      /\ Injective([s EXCEPT ![i] = h])
      /\ HostsOf([s EXCEPT ![i] = h]) \subseteq HostsOf(s) \cup {h}
  BY <1>2, <1>4, <1>5, ReplaceIs
<1>8. \A d \in flow[f].own : d.host = h => s[i] = h
  BY <1>4, <1>5 DEF HostsOf
<1>9. /\ Follow(flow[f].own, s[i], h) \in SUBSET Sensor
      /\ Distinct(Follow(flow[f].own, s[i], h))
  BY <1>2, <1>5, <1>8, FollowIs
<1>10. HostsOf([s EXCEPT ![i] = h]) \subseteq Holds(flow[f])
  BY <1>5, <1>6, <1>7
<1> QED BY <1>1, <1>4, <1>7, <1>9, <1>10, UpdateSaves

LEMMA SaveAtOnceKeeps ==
  ASSUME EntriesInv, NEW f \in Flows,
         \/ SaveCommon(f)
         \/ \E i \in DOMAIN flow[f].existing : RemoveServer(f, i)
         \/ \E h \in Hosts, n \in Names : AddSensor(f, h, n)
         \/ \E d \in flow[f].own, h \in Hosts, n \in Names : EditSensor(f, d, h, n)
         \/ \E d \in flow[f].own : RemoveSensor(f, d)
  PROVE  EntriesInv'
<1> DEFINE s == flow[f].existing
           own == flow[f].own
<1>1. flow[f].e # NoEntry
  BY DEF SaveCommon, RemoveServer, AddSensor, EditSensor, RemoveSensor, At
<1>2. /\ s \in Seq(Hosts) /\ s # <<>> /\ Injective(s) /\ HostsOf(s) \subseteq Holds(flow[f])
      /\ own \in SUBSET Sensor /\ Distinct(own)
  BY <1>1, DialogHolds
<1>3. ASSUME NEW kept \in SUBSET Sensor, Distinct(kept), UpdateEntry(f, s, kept)
      PROVE  EntriesInv'
  BY <1>1, <1>2, <1>3, UpdateSaves
<1>4. CASE SaveCommon(f)
  BY <1>2, <1>3, <1>4 DEF SaveCommon
<1>5. CASE \E i \in DOMAIN s : RemoveServer(f, i)
  <2>1. PICK i \in DOMAIN s : RemoveServer(f, i)
    BY <1>5
  <2> DEFINE t == SubSeq(s, 1, i - 1) \o SubSeq(s, i + 1, Len(s))
  <2>2. Len(s) > 1 /\ UpdateEntry(f, t, own)
    BY <2>1 DEF RemoveServer
  <2>3. t \in Seq(Hosts) /\ t # <<>> /\ Injective(t) /\ HostsOf(t) \subseteq HostsOf(s)
    BY <1>2, <2>2, RemoveIs
  <2> HIDE DEF t
  <2>4. HostsOf(t) \subseteq Holds(flow[f])
    BY <1>2, <2>3
  <2> QED BY <1>1, <1>2, <2>2, <2>3, <2>4, UpdateSaves
<1>6. CASE \E h \in Hosts, n \in Names : AddSensor(f, h, n)
  <2>1. PICK h \in Hosts, n \in Names, i \in Ids :
          /\ SensorAllowed(f, h, n, own) /\ FreshId(i)
          /\ UpdateEntry(f, s, own \cup {[id |-> i, host |-> h, name |-> n]})
    BY <1>6 DEF AddSensor
  <2> DEFINE new == [id |-> i, host |-> h, name |-> n]
  <2>2. new \in Sensor /\ new.id = i /\ new.host = h /\ new.name = n
    BY DEF Sensor
  <2>3. \A d \in own : d.id # i /\ ~(d.host = h /\ d.name = n)
    BY <2>1 DEF SensorAllowed, FreshId
  <2>4. UpdateEntry(f, s, own \cup {new})
    BY <2>1
  <2> HIDE DEF new
  <2>5. own \cup {new} \in SUBSET Sensor /\ Distinct(own \cup {new})
    BY <1>2, <2>2, <2>3 DEF Distinct
  <2> QED BY <1>3, <2>4, <2>5
<1>7. CASE \E d \in own, h \in Hosts, n \in Names : EditSensor(f, d, h, n)
  <2>1. PICK d \in own, h \in Hosts, n \in Names :
          /\ SensorAllowed(f, h, n, own \ {d})
          /\ UpdateEntry(f, s, (own \ {d}) \cup {[id |-> d.id, host |-> h, name |-> n]})
    BY <1>7 DEF EditSensor
  <2> DEFINE new == [id |-> d.id, host |-> h, name |-> n]
  <2>2. new \in Sensor /\ new.id = d.id /\ new.host = h /\ new.name = n
    BY <1>2 DEF Sensor
  <2>3. \A c \in own \ {d} : c.id # d.id /\ ~(c.host = h /\ c.name = n)
    BY <1>2, <2>1 DEF SensorAllowed, Distinct
  <2>4. UpdateEntry(f, s, (own \ {d}) \cup {new})
    BY <2>1
  <2> HIDE DEF new
  <2>5. (own \ {d}) \cup {new} \in SUBSET Sensor /\ Distinct((own \ {d}) \cup {new})
    BY <1>2, <2>2, <2>3 DEF Distinct
  <2> QED BY <1>3, <2>4, <2>5
<1>8. CASE \E d \in own : RemoveSensor(f, d)
  <2>1. PICK d \in own : UpdateEntry(f, s, own \ {d})
    BY <1>8 DEF RemoveSensor
  <2>2. own \ {d} \in SUBSET Sensor /\ Distinct(own \ {d})
    BY <1>2 DEF Distinct
  <2> QED BY <1>3, <2>1, <2>2
<1> QED BY <1>4, <1>5, <1>6, <1>7, <1>8

-----------------------------------------------------------------------------
(* Setup, unload, removal and restart *)

\* A step of setup or unload that leaves what is stored and the dialogs alone.
LEMMA LifeKeeps ==
  ASSUME EntriesInv, UNCHANGED <<storeVars, flow, historyVars>>, LifeOK',
         \A e \in Entries : (phase'[e] # "absent") <=> (phase[e] # "absent")
  PROVE  EntriesInv'
<1>1. /\ servers' = servers /\ sensors' = sensors /\ flow' = flow
      /\ missed' = missed /\ stale' = stale /\ raced' = raced
  BY DEF storeVars, historyVars
<1>2. StoreOK'
  BY <1>1 DEF EntriesInv, StoreOK, HostOnceInEntry, SensorsFit, Configured
<1>3. DialogsOK'
  BY <1>1 DEF EntriesInv, DialogsOK, Configured
<1>4. HeldOrMissed' /\ FreshOK' /\ EntriesDisjoint'
  BY <1>1 DEF EntriesInv, HeldOrMissed, FreshOK, EntriesDisjoint
<1> QED BY <1>2, <1>3, <1>4 DEF EntriesInv

LEMMA SetupKeeps ==
  ASSUME EntriesInv, NEW e \in Entries, SetupEntry(e)
  PROVE  EntriesInv'
<1>1. /\ servers' = servers /\ sensors' = sensors /\ unique_id' = unique_id
      /\ missed' = missed /\ stale' = stale /\ raced' = raced /\ reload' = reload
      /\ phase[e] = "setup" /\ phase' = [phase EXCEPT ![e] = "loaded"]
      /\ running' = [running EXCEPT ![e] = Coordinators(e)]
  BY DEF SetupEntry, storeVars, historyVars
<1>2. Coordinators(e) = [servers |-> servers[e], sensors |-> sensors[e]]
  <2>1. {d \in sensors[e] : d.host \in HostsOf(servers[e])} = sensors[e]
    BY DEF EntriesInv, StoreOK, SensorsFit, Fit
  <2> QED BY <2>1 DEF Coordinators
<1>3. servers[e] \in Seq(Hosts) /\ sensors[e] \in SUBSET Sensor
  BY DEF EntriesInv, StoreOK
<1>4. LifeOK
  BY DEF EntriesInv
<1>5. /\ phase' \in [Entries -> {"absent", "setup", "loaded"}]
      /\ running' \in [Entries -> [servers : Seq(Hosts), sensors : SUBSET Sensor]]
      /\ phase'[e] = "loaded" /\ running'[e] = [servers |-> servers[e], sensors |-> sensors[e]]
      /\ \A x \in Entries \ {e} : phase'[x] = phase[x] /\ running'[x] = running[x]
  BY <1>1, <1>2, <1>3, <1>4 DEF LifeOK
<1>6. LifeOK'
  <2>1. ASSUME NEW x \in Entries, phase'[x] = "loaded", ~reload[x]
        PROVE  running'[x] = [servers |-> servers[x], sensors |-> sensors[x]]
    <3>1. CASE x = e
      BY <1>5, <3>1
    <3>2. CASE x # e
      BY <1>4, <1>5, <2>1, <3>2 DEF LifeOK, RunningIsConfigured
    <3> QED BY <3>1, <3>2
  <2> QED BY <1>1, <1>4, <1>5, <2>1 DEF LifeOK, RunningIsConfigured
<1>7. \A x \in Entries : (phase'[x] # "absent") <=> (phase[x] # "absent")
  BY <1>1, <1>5
<1>8. UNCHANGED <<storeVars, flow, historyVars>>
  BY DEF SetupEntry
<1> QED BY <1>6, <1>7, <1>8, LifeKeeps

LEMMA NothingIs == Nothing \in [servers : Seq(Hosts), sensors : SUBSET Sensor]
<1>1. <<>> \in Seq(Hosts)
  OBVIOUS
<1> QED BY <1>1 DEF Nothing

LEMMA UnloadKeeps ==
  ASSUME EntriesInv, NEW e \in Entries, UnloadEntry(e)
  PROVE  EntriesInv'
<1>1. /\ servers' = servers /\ sensors' = sensors /\ unique_id' = unique_id
      /\ missed' = missed /\ stale' = stale /\ raced' = raced
      /\ reload' = [reload EXCEPT ![e] = FALSE]
      /\ phase[e] = "loaded" /\ phase' = [phase EXCEPT ![e] = "setup"]
      /\ running' = [running EXCEPT ![e] = Nothing]
  BY DEF UnloadEntry, Unloaded, storeVars, historyVars
<1>2. LifeOK
  BY DEF EntriesInv
<1>3. /\ phase' \in [Entries -> {"absent", "setup", "loaded"}]
      /\ reload' \in [Entries -> BOOLEAN]
      /\ running' \in [Entries -> [servers : Seq(Hosts), sensors : SUBSET Sensor]]
      /\ phase'[e] = "setup"
      /\ \A x \in Entries \ {e} :
           phase'[x] = phase[x] /\ running'[x] = running[x] /\ reload'[x] = reload[x]
  BY <1>1, <1>2, NothingIs DEF LifeOK
<1>4. LifeOK'
  <2>1. ASSUME NEW x \in Entries, phase'[x] = "loaded", ~reload'[x]
        PROVE  running'[x] = [servers |-> servers[x], sensors |-> sensors[x]]
    BY <1>2, <1>3, <2>1 DEF LifeOK, RunningIsConfigured
  <2> QED BY <1>1, <1>2, <1>3, <2>1 DEF LifeOK, RunningIsConfigured
<1>5. \A x \in Entries : (phase'[x] # "absent") <=> (phase[x] # "absent")
  BY <1>1, <1>3
<1>6. UNCHANGED <<storeVars, flow, historyVars>>
  BY DEF UnloadEntry
<1> QED BY <1>4, <1>5, <1>6, LifeKeeps

LEMMA RemoveKeeps ==
  ASSUME EntriesInv, NEW e \in Entries, RemoveEntry(e)
  PROVE  EntriesInv'
<1>1. /\ servers' = [servers EXCEPT ![e] = <<>>] /\ sensors' = [sensors EXCEPT ![e] = {}]
      /\ unique_id' = [unique_id EXCEPT ![e] = {}] /\ reload' = [reload EXCEPT ![e] = FALSE]
      /\ phase' = [phase EXCEPT ![e] = "absent"]
      /\ running' = [running EXCEPT ![e] = Nothing]
      /\ flow' = [f \in Flows |-> IF flow[f].e = e THEN Done ELSE flow[f]]
      /\ missed' = [f \in Flows |-> IF flow[f].e = e THEN {} ELSE missed[f]]
      /\ stale' = {f \in stale : flow[f].e # e} /\ raced' = raced
  BY DEF RemoveEntry, Unloaded
<1>2. StoreOK /\ LifeOK /\ DialogsOK
  BY DEF EntriesInv
<1>3. <<>> \in Seq(Hosts)
  OBVIOUS
<1>4. /\ servers' \in [Entries -> Seq(Hosts)] /\ sensors' \in [Entries -> SUBSET Sensor]
      /\ unique_id' \in [Entries -> SUBSET Hosts] /\ reload' \in [Entries -> BOOLEAN]
      /\ phase' \in [Entries -> {"absent", "setup", "loaded"}]
      /\ running' \in [Entries -> [servers : Seq(Hosts), sensors : SUBSET Sensor]]
      /\ missed' \in [Flows -> SUBSET Hosts] /\ stale' \subseteq Flows
      /\ servers'[e] = <<>> /\ sensors'[e] = {} /\ phase'[e] = "absent"
      /\ \A x \in Entries \ {e} :
           /\ servers'[x] = servers[x] /\ sensors'[x] = sensors[x]
           /\ phase'[x] = phase[x] /\ running'[x] = running[x] /\ reload'[x] = reload[x]
  BY <1>1, <1>2, <1>3, NothingIs DEF StoreOK, LifeOK
<1>5. ASSUME NEW f \in Flows
      PROVE  /\ flow'[f] \in Dialog /\ DialogOK(flow'[f])
             /\ flow'[f].e # e
             /\ flow'[f].e # NoEntry => /\ flow'[f] = flow[f] /\ flow[f].e \in Entries \ {e}
                                        /\ missed'[f] = missed[f]
             /\ Holds(flow'[f]) = {} \/ (flow'[f] = flow[f] /\ missed'[f] = missed[f])
             /\ f \in stale /\ flow'[f].e # NoEntry => f \in stale'
  <2>1. flow[f] \in Dialog /\ DialogOK(flow[f])
    BY <1>2 DEF DialogsOK
  <2>2. CASE flow[f].e = e
    <3>1. flow'[f] = Done
      BY <1>1, <2>2
    <3> QED BY <3>1, DoneIs DEF DialogOK
  <2>3. CASE flow[f].e # e
    <3>1. flow'[f] = flow[f] /\ missed'[f] = missed[f]
      BY <1>1, <2>3
    <3>2. flow[f].e # NoEntry => flow[f].e \in Entries \ {e}
      BY <2>1, <2>3 DEF Dialog
    <3>3. f \in stale => f \in stale'
      BY <1>1, <2>3
    <3> QED BY <2>1, <2>3, <3>1, <3>2, <3>3
  <2> QED BY <2>2, <2>3
<1>6. HostsOf(<<>>) = {} /\ Injective(<<>>) /\ Fit({}, <<>>)
  BY EmptyIs DEF Fit
<1>7. StoreOK'
  <2>1. ASSUME NEW x \in Entries
        PROVE  /\ Injective(servers'[x]) /\ ((phase'[x] # "absent") <=> servers'[x] # <<>>)
               /\ Fit(sensors'[x], servers'[x])
    <3>1. CASE x = e
      BY <1>4, <1>6, <3>1
    <3>2. CASE x # e
      BY <1>2, <1>4, <3>2 DEF StoreOK, HostOnceInEntry, SensorsFit, Configured
    <3> QED BY <3>1, <3>2
  <2> QED BY <1>4, <2>1 DEF StoreOK, HostOnceInEntry, SensorsFit, Configured
<1>8. LifeOK'
  <2>1. ASSUME NEW x \in Entries, phase'[x] = "loaded", ~reload'[x]
        PROVE  running'[x] = [servers |-> servers'[x], sensors |-> sensors'[x]]
    BY <1>2, <1>4, <2>1 DEF LifeOK, RunningIsConfigured
  <2> QED BY <1>1, <1>2, <1>4, <2>1 DEF LifeOK, RunningIsConfigured
<1>9. DialogsOK'
  <2>1. flow' \in [Flows -> Dialog]
    BY <1>1, <1>5
  <2>2. ASSUME NEW f \in Flows, flow'[f].e # NoEntry
        PROVE  servers'[flow'[f].e] # <<>>
    <3>1. flow'[f] = flow[f] /\ flow[f].e \in Entries \ {e}
      BY <1>5, <2>2
    <3>2. servers[flow[f].e] # <<>>
      BY <1>2, <2>2, <3>1 DEF DialogsOK, Configured
    <3> QED BY <1>4, <3>1, <3>2
  <2> QED BY <1>5, <2>1, <2>2 DEF DialogsOK, Configured
<1>10. HeldOrMissed'
  <2>1. ASSUME NEW f \in Flows, NEW x \in Entries \ {flow'[f].e}
        PROVE  HostsOf(servers'[x]) \cap Holds(flow'[f]) \subseteq missed'[f] \cup raced'
    <3>1. CASE Holds(flow'[f]) = {} \/ x = e
      BY <1>4, <1>6, <3>1
    <3>2. CASE Holds(flow'[f]) # {} /\ x # e
      <4>1. flow'[f] = flow[f] /\ missed'[f] = missed[f]
        BY <1>5, <3>2
      <4>2. HostsOf(servers[x]) \cap Holds(flow[f]) \subseteq missed[f] \cup raced
        BY <4>1 DEF EntriesInv, HeldOrMissed
      <4> QED BY <1>1, <1>4, <3>2, <4>1, <4>2
    <3> QED BY <3>1, <3>2
  <2> QED BY <2>1 DEF HeldOrMissed
<1>11. FreshOK'
  <2>1. ASSUME NEW f \in Flows, f \notin stale', flow'[f].e # NoEntry
        PROVE  /\ flow'[f].existing = servers'[flow'[f].e]
               /\ flow'[f].own = sensors'[flow'[f].e]
    <3>1. flow'[f] = flow[f] /\ flow[f].e \in Entries \ {e} /\ f \notin stale
      BY <1>5, <2>1
    <3>2. flow[f].existing = servers[flow[f].e] /\ flow[f].own = sensors[flow[f].e]
      BY <2>1, <3>1 DEF EntriesInv, FreshOK
    <3> QED BY <1>4, <3>1, <3>2
  <2> QED BY <2>1 DEF FreshOK
<1>12. EntriesDisjoint'
  <2>1. ASSUME NEW x \in Entries, NEW y \in Entries, x # y
        PROVE  HostsOf(servers'[x]) \cap HostsOf(servers'[y]) \subseteq raced'
    <3>1. CASE x = e \/ y = e
      BY <1>4, <1>6, <3>1
    <3>2. CASE x # e /\ y # e
      BY <1>1, <1>4, <2>1, <3>2 DEF EntriesInv, EntriesDisjoint
    <3> QED BY <3>1, <3>2
  <2> QED BY <2>1 DEF EntriesDisjoint
<1> QED BY <1>7, <1>8, <1>9, <1>10, <1>11, <1>12 DEF EntriesInv

LEMMA RestartKeeps ==
  ASSUME EntriesInv, Restart
  PROVE  EntriesInv'
<1>1. /\ servers' = servers /\ sensors' = sensors /\ unique_id' = unique_id /\ raced' = raced
      /\ flow' = [f \in Flows |-> IF flow[f].st = "new" THEN New ELSE Done]
      /\ phase' = [e \in Entries |-> IF Configured(e) THEN "setup" ELSE "absent"]
      /\ reload' = [e \in Entries |-> FALSE]
      /\ running' = [e \in Entries |-> Nothing]
      /\ missed' = [f \in Flows |-> {}] /\ stale' = {}
  BY DEF Restart, storeVars
<1>2. ASSUME NEW f \in Flows
      PROVE  /\ flow'[f] \in Dialog /\ DialogOK(flow'[f])
             /\ flow'[f].e = NoEntry /\ Holds(flow'[f]) = {}
  <2>1. flow'[f] = New \/ flow'[f] = Done
    BY <1>1
  <2> QED BY <2>1, DoneIs DEF DialogOK
<1>3. StoreOK'
  BY <1>1 DEF EntriesInv, StoreOK, HostOnceInEntry, SensorsFit, Configured
<1>4. LifeOK'
  BY <1>1, NothingIs DEF EntriesInv, LifeOK, RunningIsConfigured
<1>5. DialogsOK'
  <2>1. flow' \in [Flows -> Dialog]
    BY <1>1, <1>2
  <2> QED BY <1>2, <2>1 DEF DialogsOK
<1>6. HeldOrMissed' /\ FreshOK'
  BY <1>2 DEF HeldOrMissed, FreshOK
<1>7. EntriesDisjoint'
  BY <1>1 DEF EntriesInv, EntriesDisjoint
<1> QED BY <1>3, <1>4, <1>5, <1>6, <1>7 DEF EntriesInv

-----------------------------------------------------------------------------
(* The theorems *)

LEMMA EntriesStep == EntriesInv /\ [Next]_vars => EntriesInv'
<1> SUFFICES ASSUME EntriesInv, [Next]_vars PROVE EntriesInv'
  OBVIOUS
<1>1. CASE UNCHANGED vars
  <2>1. UNCHANGED <<storeVars, flow, historyVars>> /\ phase' = phase
        /\ running' = running /\ reload' = reload
    BY <1>1 DEF vars, lifeVars
  <2>2. LifeOK'
    BY <2>1 DEF EntriesInv, LifeOK, RunningIsConfigured, storeVars, historyVars
  <2> QED BY <2>1, <2>2, LifeKeeps
<1>2. ASSUME NEW f \in Flows,
             \/ OpenConfigFlow(f) \/ OpenDiscoveredFlow(f) \/ CloseFlow(f)
             \/ \E e \in Entries : OpenOptionsFlow(f, e)
      PROVE  EntriesInv'
  <2>1. CASE OpenConfigFlow(f) \/ OpenDiscoveredFlow(f)
    BY <2>1, OpenKeeps DEF OpenDiscoveredFlow
  <2>2. CASE CloseFlow(f)
    BY <2>2, Closes DEF CloseFlow
  <2>3. CASE \E e \in Entries : OpenOptionsFlow(f, e)
    BY <2>3, OpenOptionsKeeps
  <2> QED BY <1>2, <2>1, <2>2, <2>3
<1>3. ASSUME NEW f \in Flows, NEW h \in Hosts,
             \/ SubmitUser(f, h) \/ SubmitAdded(f, h)
             \/ SubmitReplacement(f, h) \/ SubmitEdit(f, h)
      PROVE  EntriesInv'
  BY <1>3, SubmitsKeep
<1>4. ASSUME NEW f \in Flows,
             \/ TestFails(f) \/ UserPasses(f) \/ AddedPasses(f)
             \/ ReplacementPasses(f) \/ EditPasses(f)
      PROVE  EntriesInv'
  BY <1>4, TestFailsKeeps, UserPassesKeeps, AddedPassesKeeps, ReplacementPassesKeeps,
     EditPassesKeeps
<1>5. ASSUME NEW f \in Flows,
             \/ SaveCommon(f)
             \/ \E i \in DOMAIN flow[f].existing : RemoveServer(f, i)
             \/ \E h \in Hosts, n \in Names : AddSensor(f, h, n)
             \/ \E d \in flow[f].own, h \in Hosts, n \in Names : EditSensor(f, d, h, n)
             \/ \E d \in flow[f].own : RemoveSensor(f, d)
      PROVE  EntriesInv'
  BY <1>5, SaveAtOnceKeeps
<1>6. ASSUME NEW e \in Entries, SetupEntry(e) \/ UnloadEntry(e) \/ RemoveEntry(e)
      PROVE  EntriesInv'
  BY <1>6, SetupKeeps, UnloadKeeps, RemoveKeeps
<1>7. CASE Restart
  BY <1>7, RestartKeeps
<1>8. CASE Next
  BY <1>2, <1>3, <1>4, <1>5, <1>6, <1>7, <1>8 DEF Next
<1> QED BY <1>1, <1>8

\* The inductive invariant holds in every behaviour.
THEOREM EntriesInvariant == Spec => []EntriesInv
<1>1. Init => EntriesInv
  BY EntriesInitially
<1>2. EntriesInv /\ [Next]_vars => EntriesInv'
  BY EntriesStep
<1> QED BY <1>1, <1>2, PTL DEF Spec

\* Every variable of the entries and dialogs has its type, however many there
\* are (the dataclasses and dicts of config_flow.py).
THEOREM EntriesTyped == Spec => []TypeOK
<1>1. EntriesInv => TypeOK
  BY DEF EntriesInv, StoreOK, LifeOK, DialogsOK, Dialog, TypeOK
<1> QED BY <1>1, EntriesInvariant, PTL

\* No flow, alone or with others, saves a host twice in an entry or leaves an
\* entry without a server (the duplicate checks of config_flow.py).
THEOREM HostsOnce == Spec => []HostOnceInEntry
<1>1. EntriesInv => HostOnceInEntry
  BY DEF EntriesInv, StoreOK
<1> QED BY <1>1, EntriesInvariant, PTL

\* Two entries share a host only through the race between the duplicate check
\* and the save (_host_already_configured, then the connection test).
THEOREM OnlyRacesShare == Spec => []EntriesDisjoint
<1>1. EntriesInv => EntriesDisjoint
  BY DEF EntriesInv
<1> QED BY <1>1, EntriesInvariant, PTL

\* Custom sensors keep a server of their entry, an id and a name of their own
\* through every edit (_custom_sensor_from_input, _update_entry).
THEOREM SensorsKeepTheirServer == Spec => []SensorsFit
<1>1. EntriesInv => SensorsFit
  BY DEF EntriesInv, StoreOK
<1> QED BY <1>1, EntriesInvariant, PTL

\* An entry that is loaded and awaits no reload runs what is stored for it
\* (_update_entry creates a reload task with every save).
THEOREM ConfiguredIsRunning == Spec => []RunningIsConfigured
<1>1. EntriesInv => RunningIsConfigured
  BY DEF EntriesInv, LifeOK
<1> QED BY <1>1, EntriesInvariant, PTL

-----------------------------------------------------------------------------
(* Adding and editing servers *)

\* Only the steps that save, a removal of the entry, or a restart end a dialog
\* that tests a connection.
LEMMA Finishes ==
  ASSUME EntriesInv, Next, NEW f \in Flows, flow[f].op \in {"add", "edit"},
         flow[f].st = "testing", flow'[f].st = "done"
  PROVE  \/ AddedPasses(f) \/ EditPasses(f) \/ Restart
         \/ \E e \in Entries : RemoveEntry(e) /\ flow[f].e = e
<1>1. flow \in [Flows -> Dialog]
  BY DEF EntriesInv, DialogsOK
<1>2. ASSUME NEW g \in Flows, NEW h, Collect(g, h)
      PROVE  flow'[f].st # "done"
  BY <1>1, <1>2 DEF Collect, Dialog
<1>3. ASSUME NEW g \in Flows, Close(g)
      PROVE  g = f
  BY <1>1, <1>3 DEF Close
<1>4. ASSUME NEW g \in Flows, NEW s, NEW own, UpdateEntry(g, s, own)
      PROVE  g = f
  BY <1>3, <1>4 DEF UpdateEntry
<1>5. ASSUME NEW g \in Flows, NEW s, CreateEntry(g, s)
      PROVE  g = f
  BY <1>3, <1>5 DEF CreateEntry
<1>6. ASSUME NEW g \in Flows,
             \/ OpenConfigFlow(g) \/ OpenDiscoveredFlow(g) \/ CloseFlow(g)
             \/ \E e \in Entries : OpenOptionsFlow(g, e)
      PROVE  FALSE
  <2>1. CASE CloseFlow(g)
    BY <1>3, <2>1 DEF CloseFlow
  <2>2. ASSUME NEW x, Opened(g, x) PROVE g # f /\ flow'[f] = flow[f]
    BY <1>1, <2>2 DEF Opened
  <2> QED BY <1>6, <2>1, <2>2 DEF OpenConfigFlow, OpenDiscoveredFlow, OpenOptionsFlow
<1>7. ASSUME NEW g \in Flows, NEW h, NEW op, NEW at, SubmitServer(g, h, op, at)
      PROVE  FALSE
  BY <1>1, <1>7 DEF SubmitServer, Step, Dialog
<1>8. ASSUME NEW g \in Flows, NEW h \in Hosts,
             \/ SubmitUser(g, h) \/ SubmitAdded(g, h)
             \/ SubmitReplacement(g, h) \/ SubmitEdit(g, h)
      PROVE  FALSE
  BY <1>7, <1>8 DEF SubmitUser, SubmitAdded, SubmitReplacement, SubmitEdit
<1>9. ASSUME NEW g \in Flows, TestFails(g)
      PROVE  FALSE
  BY <1>1, <1>9 DEF TestFails, Dialog
<1>10. ASSUME NEW g \in Flows, UserPasses(g) \/ ReplacementPasses(g)
       PROVE  FALSE
  BY <1>2, <1>4, <1>5, <1>10 DEF UserPasses, ReplacementPasses, Tested
<1>11. ASSUME NEW g \in Flows, AddedPasses(g) \/ EditPasses(g)
       PROVE  AddedPasses(f) \/ EditPasses(f)
  <2>1. g = f
    BY <1>2, <1>4, <1>11 DEF AddedPasses, EditPasses
  <2> QED BY <1>11, <2>1
<1>12. ASSUME NEW g \in Flows,
              \/ SaveCommon(g)
              \/ \E i \in DOMAIN flow[g].existing : RemoveServer(g, i)
              \/ \E h \in Hosts, n \in Names : AddSensor(g, h, n)
              \/ \E d \in flow[g].own, h \in Hosts, n \in Names : EditSensor(g, d, h, n)
              \/ \E d \in flow[g].own : RemoveSensor(g, d)
       PROVE  FALSE
  <2>1. At(g) /\ \E s, own : UpdateEntry(g, s, own)
    BY <1>12 DEF SaveCommon, RemoveServer, AddSensor, EditSensor, RemoveSensor
  <2> QED BY <1>4, <2>1 DEF At
<1>13. ASSUME NEW e \in Entries, SetupEntry(e) \/ UnloadEntry(e)
       PROVE  FALSE
  BY <1>13 DEF SetupEntry, UnloadEntry
<1>14. ASSUME NEW e \in Entries, RemoveEntry(e)
       PROVE  flow[f].e = e
  BY <1>14 DEF RemoveEntry
<1> QED BY <1>6, <1>8, <1>9, <1>10, <1>11, <1>12, <1>13, <1>14 DEF Next

\* What a save leaves of the sensors and the servers.
LEMMA UpdateIs ==
  ASSUME EntriesInv, NEW f \in Flows, flow[f].e # NoEntry, NEW s, NEW own,
         UpdateEntry(f, s, own)
  PROVE  /\ servers'[flow[f].e] = s
         /\ sensors'[flow[f].e] = {d \in own : d.host \in HostsOf(s)}
<1>1. /\ flow[f].e \in Entries /\ servers \in [Entries -> Seq(Hosts)]
      /\ sensors \in [Entries -> SUBSET Sensor]
  BY DEF EntriesInv, DialogsOK, Dialog, StoreOK
<1> QED BY <1>1 DEF UpdateEntry

LEMMA AddingKeeps ==
  ASSUME EntriesInv, NEW f \in Flows \ stale, AddedPasses(f), flow'[f].st = "done"
  PROVE  /\ {d.id : d \in sensors[flow[f].e]} = {d.id : d \in sensors'[flow[f].e]}
         /\ Len(servers'[flow[f].e]) >= Len(servers[flow[f].e])
<1> DEFINE e == flow[f].e
           s == flow[f].existing
<1>1. PICK h \in Tested(f, "add") :
        Collect(f, h) \/ UpdateEntry(f, s \o Append(flow[f].chosen, h), flow[f].own)
  BY DEF AddedPasses
<1> DEFINE t == Append(flow[f].chosen, h)
<1>2. flow \in [Flows -> Dialog] /\ DialogOK(flow[f])
  BY DEF EntriesInv, DialogsOK
<1>3. UpdateEntry(f, s \o t, flow[f].own)
  BY <1>1, <1>2 DEF Collect, Dialog
<1>4. flow[f].op = "add" /\ flow[f].e # NoEntry /\ h \in flow[f].host
  BY <1>2, TestedIs DEF DialogOK
<1>5. s = servers[e] /\ flow[f].own = sensors[e]
  BY <1>4 DEF EntriesInv, FreshOK
<1>6. /\ s \in Seq(Hosts) /\ Injective(s) /\ \A d \in flow[f].own : d.host \in HostsOf(s)
  BY <1>4, DialogHolds
<1>7. t \in Seq(Hosts) /\ Injective(t) /\ HostsOf(t) = HostsOf(flow[f].chosen) \cup {h}
  BY TestedIs
<1>8. HostsOf(s) \cap HostsOf(t) = {}
  BY <1>2, <1>4, <1>7 DEF DialogOK
<1> HIDE DEF t
<1>9. HostsOf(s \o t) = HostsOf(s) \cup HostsOf(t) /\ Len(s \o t) >= Len(s)
  BY <1>6, <1>7, <1>8, ConcatIs
<1>10. servers'[e] = s \o t /\ sensors'[e] = {d \in flow[f].own : d.host \in HostsOf(s \o t)}
  BY <1>3, <1>4, UpdateIs
<1>11. sensors'[e] = flow[f].own
  BY <1>6, <1>9, <1>10
<1> QED BY <1>5, <1>9, <1>10, <1>11

LEMMA EditingKeeps ==
  ASSUME EntriesInv, NEW f \in Flows \ stale, EditPasses(f)
  PROVE  /\ {d.id : d \in sensors[flow[f].e]} = {d.id : d \in sensors'[flow[f].e]}
         /\ Len(servers'[flow[f].e]) >= Len(servers[flow[f].e])
<1> DEFINE e == flow[f].e
           i == flow[f].at
           s == flow[f].existing
           own == flow[f].own
<1>1. PICK h \in Tested(f, "edit") : UpdateEntry(f, [s EXCEPT ![i] = h], Follow(own, s[i], h))
  BY DEF EditPasses
<1>2. flow[f].op = "edit" /\ h \in flow[f].host /\ h \in Hosts
  BY TestedIs
<1>3. DialogOK(flow[f])
  BY DEF EntriesInv, DialogsOK
<1>4. flow[f].e # NoEntry /\ i \in DOMAIN s /\ \A j \in DOMAIN s \ {i} : s[j] # h
  BY <1>2, <1>3 DEF DialogOK
<1>5. /\ s \in Seq(Hosts) /\ Injective(s) /\ own \in SUBSET Sensor
      /\ \A d \in own : d.host \in HostsOf(s)
  BY <1>4, DialogHolds
<1>6. s = servers[e] /\ own = sensors[e]
  BY <1>4 DEF EntriesInv, FreshOK
<1> DEFINE t == [s EXCEPT ![i] = h]
           kept == Follow(own, s[i], h)
<1>7. servers'[e] = t /\ sensors'[e] = {d \in kept : d.host \in HostsOf(t)}
  BY <1>1, <1>4, UpdateIs
<1> HIDE DEF e, i, s, own
<1>8. /\ Len(t) = Len(s) /\ h \in HostsOf(t) /\ \A j \in DOMAIN s \ {i} : s[j] \in HostsOf(t)
      /\ t \in Seq(Hosts)
  BY <1>2, <1>4, <1>5, ReplaceIs
<1> HIDE DEF t
<1> DEFINE To(d) == IF d.host = s[i] THEN [d EXCEPT !.host = h] ELSE d
<1>9. ASSUME NEW d \in own
      PROVE  To(d).id = d.id /\ To(d).host \in HostsOf(t)
  <2>1. d.host = s[i] => To(d).host = h /\ To(d).id = d.id
    BY <1>5 DEF Sensor
  <2>2. d.host # s[i] => d.host \in HostsOf(t)
    BY <1>5, <1>8 DEF HostsOf
  <2> QED BY <1>8, <2>1, <2>2
<1>10. kept = {To(d) : d \in own}
  BY DEF Follow
<1> HIDE DEF kept, To
<1>11. sensors'[e] = kept
  BY <1>7, <1>9, <1>10
<1>12. {d.id : d \in kept} = {d.id : d \in own}
  BY <1>9, <1>10
<1>13. Len(s) \in Nat
  BY <1>5
<1>14. {d.id : d \in sensors[e]} = {d.id : d \in sensors'[e]}
  BY <1>6, <1>11, <1>12, Zenon
<1>15. Len(servers'[e]) >= Len(servers[e])
  BY <1>6, <1>7, <1>8, <1>13
<1> QED BY <1>14, <1>15 DEF e

\* Editing a server keeps its custom sensors, and a flow that is not stale
\* takes no sensor and no server away by adding some (_update_entry with what
\* OptionsFlowHandler.__init__ read).
THEOREM EditsLoseNothing == Spec => EditsKeepSensors
<1>1. EntriesInv /\ [Next]_vars =>
        [\A f \in Flows \ stale :
           LET e == flow[f].e IN
           flow[f].op \in {"add", "edit"} /\ servers'[e] # <<>> /\ flow'[f].st = "done"
             /\ flow[f].st = "testing"
           => /\ {d.id : d \in sensors[e]} = {d.id : d \in sensors'[e]}
              /\ Len(servers'[e]) >= Len(servers[e])]_vars
  <2> SUFFICES ASSUME EntriesInv, Next, NEW f \in Flows \ stale,
                      flow[f].op \in {"add", "edit"}, servers'[flow[f].e] # <<>>,
                      flow'[f].st = "done", flow[f].st = "testing"
               PROVE  /\ {d.id : d \in sensors[flow[f].e]} = {d.id : d \in sensors'[flow[f].e]}
                      /\ Len(servers'[flow[f].e]) >= Len(servers[flow[f].e])
    OBVIOUS
  <2>1. CASE AddedPasses(f)
    BY <2>1, AddingKeeps
  <2>2. CASE EditPasses(f)
    BY <2>2, EditingKeeps
  <2>3. CASE Restart
    <3>1. flow[f].e \in Entries
      BY DEF EntriesInv, DialogsOK, DialogOK, Dialog
    <3>2. servers[flow[f].e] \in Seq(Hosts)
      BY <3>1 DEF EntriesInv, StoreOK
    <3>3. Len(servers[flow[f].e]) \in Nat
      BY <3>2
    <3> QED BY <2>3, <3>3 DEF Restart, storeVars
  <2>4. CASE \E e \in Entries : RemoveEntry(e) /\ flow[f].e = e
    <3>1. servers \in [Entries -> Seq(Hosts)]
      BY DEF EntriesInv, StoreOK
    <3> QED BY <2>4, <3>1 DEF RemoveEntry
  <2> QED BY <2>1, <2>2, <2>3, <2>4, Finishes
<1> QED BY <1>1, EntriesInvariant, PTL DEF Spec, EditsKeepSensors

=============================================================================
