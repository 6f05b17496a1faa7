---------------------------- MODULE HostCounters ----------------------------
(***************************************************************************)
(* What the caches of net_cache.py make of the counters of one host:       *)
(* transfer rates (NetStatsCache), accumulated energy (EnergyStatsCache)   *)
(* and the process peak of a boot (ProcessPeakCache), fed by base samples  *)
(* (async_sample in ssh_collector.py) that may overlap, fail, and be       *)
(* applied in another order than they were read on the host, while the     *)
(* host reboots and Home Assistant restarts.                               *)
(*                                                                         *)
(* The host counts one thing, which stands for bytes, for microjoules and  *)
(* for seconds of uptime: each cache looks at one of them, and no property *)
(* relates two caches.  The energy counter wraps, the others do not, and   *)
(* network interfaces do not come and go.  The time a rate is divided by   *)
(* is left out: a rate stands for its bytes.                               *)
(***************************************************************************)
EXTENDS Integers

CONSTANTS
  Samples,    \* bound of the model: base samples in flight at a time
  Counts,     \* process counts
  Range,      \* max_energy_range_uj
  None,       \* no value
  MaxTotal,   \* bound of the model: what the host counts in all
  MaxBoots    \* bound of the model: reboots

\* The host's counters since boot: one that wraps and one that does not; zero is
\* a history field, all that was counted when the wrapping one was last at 0.
Counters == [boot : Nat, since : Nat, counter : 0..(Range - 1), zero : Nat]

ASSUME CountersAssumption ==
  /\ Counts \subseteq Nat
  /\ Range \in Nat \ {0}
  /\ None \notin Int \cup Counters
  /\ MaxTotal \in Nat /\ MaxBoots \in Nat

VARIABLES
  host,     \* the counters of the host
  samples,  \* the counters a base sample in flight has read, or None
  net,      \* NetStatsCache: the last counter
  energy,   \* EnergyStatsCache: the last counter, the offset, the range
  peak,     \* ProcessPeakCache: the peak
  uptime,   \* ProcessPeakCache: the last uptime
  seen,     \* history: the last sample applied since Home Assistant started
  account,  \* history: the bytes that rates accounted for, and since when
  origin,   \* history: the consumption that the energy total counts from
  bootPeak, \* history: the highest count applied of the boot of seen
  spoiled   \* history: the caches that a known mishap has spoiled

hist == <<seen, account, origin, bootPeak, spoiled>>
vars == <<host, samples, net, energy, peak, uptime, hist>>

MaxOf(a, b) == IF a >= b THEN a ELSE b

\* All that a host has counted when its counters are r.
Total(r) == r.zero + r.counter

Init ==
  /\ host = [boot |-> 0, since |-> 0, counter |-> 0, zero |-> 0]
  /\ samples = [s \in Samples |-> None]
  /\ net = None /\ energy = None /\ peak = None /\ uptime = None
  /\ seen = None /\ account = [from |-> 0, bytes |-> 0]
  /\ origin = 0 /\ bootPeak = 0 /\ spoiled = {}

-----------------------------------------------------------------------------
(* The host *)

HostCounts ==
  /\ Total(host) < MaxTotal
  /\ host' = IF host.counter + 1 = Range
             THEN [host EXCEPT !.since = @ + 1, !.counter = 0, !.zero = @ + Range]
             ELSE [host EXCEPT !.since = @ + 1, !.counter = @ + 1]
  /\ UNCHANGED <<samples, net, energy, peak, uptime, hist>>

HostReboots ==
  /\ host.boot < MaxBoots
  /\ host' = [boot |-> host.boot + 1, since |-> 0, counter |-> 0, zero |-> Total(host)]
  /\ UNCHANGED <<samples, net, energy, peak, uptime, hist>>

\* The collector runs on the host.
SampleReads(s) ==
  /\ samples[s] = None
  /\ samples' = [samples EXCEPT ![s] = host]
  /\ UNCHANGED <<host, net, energy, peak, uptime, hist>>

-----------------------------------------------------------------------------
(* The caches *)

TransferredSinceBoot(rx) == IF net = None THEN rx ELSE MaxOf(0, rx - net)  \* faulty
TransferredSigned(rx) == IF net = None THEN 0 ELSE rx - net  \* faulty
Transferred(rx) == IF net = None THEN 0 ELSE MaxOf(0, rx - net)

RangeKnown(range) == range \/ (energy # None /\ energy.range)

OneWrapOnly(last, range) ==  \* faulty
  IF energy = None THEN 0
  ELSE IF last >= energy.last THEN energy.offset
  ELSE IF RangeKnown(range) THEN Range ELSE 0
OffsetAfter(last, range) ==
  IF energy = None THEN 0
  ELSE IF last >= energy.last THEN energy.offset
  ELSE IF RangeKnown(range) THEN energy.offset + Range ELSE 0

PeakForever(count, up) ==  \* faulty
  IF uptime = None THEN count ELSE MaxOf(count, peak)
PeakAfter(count, up) ==
  IF uptime = None \/ up < uptime THEN count ELSE MaxOf(count, peak)

NetComputes(rx) == net' = rx

EnergyComputes(last, range) ==
  energy' = [last |-> last, offset |-> OffsetAfter(last, range),
             range |-> RangeKnown(range)]

PeakComputes(count, up) ==
  /\ peak' = PeakAfter(count, up)
  /\ uptime' = up

\* A sample that was read before the last one applied.
Late(at) ==
  seen # None /\ \/ at.boot < seen.boot
                 \/ at.boot = seen.boot /\ Total(at) < Total(seen)

\* What may happen between two samples that the counters do not show.
EnergyUnseen(at, range) ==
  energy # None /\ \/ Late(at)
                   \/ at.boot # seen.boot
                   \/ Total(at) - Total(seen) >= Range
                   \/ ~ RangeKnown(range)

RebootUnseen(at) == seen # None /\ at.boot # seen.boot /\ at.since >= seen.since

Spoils(at, range) ==
  {c \in {"net", "energy", "peak"} :
     \/ c = "net" /\ (c \in spoiled \/ Late(at))
     \/ c = "energy" /\ energy # None /\ (c \in spoiled \/ EnergyUnseen(at, range))
     \/ c = "peak" /\ uptime # None
          /\ (Late(at) \/ RebootUnseen(at) \/ (c \in spoiled /\ at.since >= uptime))}

\* The sample comes back.  How many processes it found and whether it could
\* read the range is arbitrary, and chosen here.
SampleApplied(s, count, range) ==
  /\ samples[s] # None
  /\ LET at == samples[s]
     IN  /\ NetComputes(at.since)
         /\ EnergyComputes(at.counter, range)
         /\ PeakComputes(count, at.since)
         /\ seen' = at
         /\ account' = [from |-> IF seen = None THEN Total(at) ELSE account.from,
                        bytes |-> account.bytes + Transferred(at.since)]
         /\ origin' = IF energy = None THEN at.zero ELSE origin
         /\ bootPeak' = IF seen # None /\ seen.boot = at.boot
                        THEN MaxOf(bootPeak, count) ELSE count
         /\ spoiled' = Spoils(at, range)
  /\ samples' = [samples EXCEPT ![s] = None]
  /\ UNCHANGED host

\* The sample brings no data of the host, whether or not the collector ran.  One
\* that lacks only its energy is SampleApplied and then SampleFails.
SampleFails(s) ==
  /\ energy' = None
  /\ spoiled' = spoiled \ {"energy"}
  /\ samples' = [samples EXCEPT ![s] = None]
  /\ UNCHANGED <<host, net, peak, uptime, seen, account, origin, bootPeak>>

\* The caches live in the memory of Home Assistant.
HomeAssistantRestarts ==
  /\ samples' = [s \in Samples |-> None]
  /\ net' = None /\ energy' = None /\ peak' = None /\ uptime' = None
  /\ seen' = None /\ account' = [from |-> 0, bytes |-> 0]
  /\ origin' = 0 /\ bootPeak' = 0 /\ spoiled' = {}
  /\ UNCHANGED host

Next ==
  \/ HostCounts
  \/ HostReboots
  \/ \E s \in Samples : SampleReads(s)
  \/ \E s \in Samples, count \in Counts, range \in BOOLEAN : SampleApplied(s, count, range)
  \/ \E s \in Samples : SampleFails(s)
  \/ HomeAssistantRestarts

Spec == Init /\ [][Next]_vars

-----------------------------------------------------------------------------

TypeOK ==
  /\ host \in Counters
  /\ samples \in [Samples -> Counters \cup {None}]
  /\ net \in Nat \cup {None}
  /\ energy \in [last : 0..(Range - 1), offset : Nat, range : BOOLEAN] \cup {None}
  /\ peak \in Nat \cup {None} /\ uptime \in Nat \cup {None}
  /\ seen \in Counters \cup {None}
  /\ account \in [from : Nat, bytes : Nat]
  /\ origin \in Nat /\ bootPeak \in Nat
  /\ spoiled \subseteq {"net", "energy", "peak"}

\* No byte is counted twice, and none that was transferred before the first
\* sample: as long as samples are applied in the order they were read, the
\* rates account for at most what the host transferred between the first and
\* the last of them, across reboots and failed samples (NetStatsCache.compute).
NoByteTwice ==
  seen # None /\ "net" \notin spoiled
    => account.bytes <= Total(seen) - account.from

\* The energy total is what the host consumed since the counter was at 0 before
\* the first sample, across wraps of the counter, as long as no sample was
\* late, no reboot and no second wrap came between two samples, and the range
\* is known; a failed sample starts it over (EnergyStatsCache.compute).
EnergyIsExact ==
  energy # None /\ "energy" \notin spoiled
    => energy.offset + energy.last = Total(seen) - origin

\* The peak is the highest count applied of this boot, unless a sample was
\* late or a reboot left a longer uptime than the sample before it
\* (ProcessPeakCache.compute); the next reboot that shows makes up for both.
PeakIsOfBoot == peak # None /\ "peak" \notin spoiled => peak = bootPeak

\* "Return cumulative energy consumption" (EnergyStatsCache.compute): while
\* Home Assistant runs and no mishap spoils it, the total holds at least what
\* the host consumed since the first sample.
EnergyIsCumulative ==
  energy # None /\ "energy" \notin spoiled
    => energy.offset + energy.last >= Total(seen) - account.from

\* A total that is known and that no mishap spoils never falls from one sample
\* to the next, as its sensor says (total_increasing, sensor.py); a failed
\* sample and a restart of Home Assistant start it over.
EnergyNeverFalls ==
  [][energy # None /\ energy' # None /\ "energy" \notin spoiled'
       => energy'.offset + energy'.last >= energy.offset + energy.last]_vars

\* Why they hold, as an inductive invariant: what was read at r is a past of q.
Follows(r, q) ==
  /\ r.boot <= q.boot
  /\ Total(r) <= Total(q)
  /\ r.boot = q.boot =>
       /\ q.since - r.since = Total(q) - Total(r)
       /\ \/ q.zero \in {r.zero, r.zero + Range}
          \/ q.zero >= r.zero + 2 * Range
  /\ r.boot < q.boot => q.since <= Total(q) - Total(r)

Readings ==
  {samples[s] : s \in {t \in Samples : samples[t] # None}}
    \cup (IF seen = None THEN {} ELSE {seen})

ReadingsInv ==
  /\ \A r \in Readings : Follows(r, host)
  /\ \A r, q \in Readings : Follows(r, q) \/ Follows(q, r)

\* The caches hold the counters of the last sample applied.
CachesInv ==
  /\ seen = None => net = None /\ energy = None /\ uptime = None /\ account.bytes = 0
  /\ seen # None => net = seen.since /\ uptime = seen.since /\ peak # None
  /\ energy # None => energy.last = seen.counter

EnergyInv ==
  energy # None /\ "energy" \notin spoiled => energy.offset + origin = seen.zero

CountersInv ==
  ReadingsInv /\ CachesInv /\ NoByteTwice /\ EnergyInv /\ PeakIsOfBoot

=============================================================================
