------------------------- MODULE HostCountersProofs -------------------------
(***************************************************************************)
(* What the caches of a host's counters return, for any number of samples  *)
(* in flight, any counter range, and hosts that count and reboot without   *)
(* bound.                                                                  *)
(***************************************************************************)
EXTENDS HostCounters, TLAPS

USE CountersAssumption

-----------------------------------------------------------------------------
(* Types *)

\* The offset of EnergyStatsCache is a natural number whatever was read.
LEMMA EnergyType ==
  ASSUME TypeOK, NEW last \in 0..(Range - 1), NEW range \in BOOLEAN
  PROVE  /\ OffsetAfter(last, range) \in Nat
         /\ RangeKnown(range) \in BOOLEAN
         /\ energy # None => /\ energy.last \in 0..(Range - 1)
                             /\ energy.offset \in Nat /\ energy.range \in BOOLEAN
<1>1. energy # None => energy \in [last : 0..(Range - 1), offset : Nat, range : BOOLEAN]
  BY DEF TypeOK
<1>2. RangeKnown(range) \in BOOLEAN
  BY DEF RangeKnown
<1>3. OffsetAfter(last, range) \in Nat
  BY <1>1, <1>2 DEF OffsetAfter
<1> QED BY <1>1, <1>2, <1>3

\* A step of the host keeps its counters counters.
LEMMA HostType ==
  ASSUME TypeOK, HostCounts \/ HostReboots PROVE host' \in Counters
<1>1. host \in Counters
  BY DEF TypeOK
<1>2. CASE HostCounts
  <2>1. /\ 0 \in 0..(Range - 1) /\ host.since + 1 \in Nat /\ host.zero + Range \in Nat
        /\ host.counter + 1 # Range => host.counter + 1 \in 0..(Range - 1)
    BY <1>1 DEF Counters
  <2>2. CASE host.counter + 1 = Range
    BY <1>1, <1>2, <2>1, <2>2 DEF HostCounts, Counters
  <2>3. CASE host.counter + 1 # Range
    BY <1>1, <1>2, <2>1, <2>3 DEF HostCounts, Counters
  <2> QED BY <2>2, <2>3
<1>3. CASE HostReboots
  BY <1>1, <1>3 DEF HostReboots, Counters, Total
<1> QED BY <1>2, <1>3

\* What the caches and the history hold after a sample keeps its type.
LEMMA AppliedType ==
  ASSUME TypeOK, NEW s \in Samples, NEW count \in Counts, NEW range \in BOOLEAN,
         SampleApplied(s, count, range)
  PROVE  TypeOK'
<1> DEFINE at == samples[s]
<1>1. at \in Counters /\ count \in Nat /\ range \in BOOLEAN
  BY DEF SampleApplied, TypeOK
<1>2. at.since \in Nat /\ at.counter \in 0..(Range - 1) /\ at.zero \in Nat /\ Total(at) \in Nat
  BY <1>1 DEF Counters, Total
<1>3. net' \in Nat /\ uptime' \in Nat /\ seen' \in Counters
  BY <1>1, <1>2 DEF SampleApplied, NetComputes, PeakComputes
<1>4. Transferred(at.since) \in Nat
  BY <1>2 DEF Transferred, MaxOf, TypeOK
<1>5. account' \in [from : Nat, bytes : Nat]
  BY <1>2, <1>4 DEF SampleApplied, TypeOK
<1>6. energy' \in [last : 0..(Range - 1), offset : Nat, range : BOOLEAN]
  BY <1>1, <1>2, EnergyType DEF SampleApplied, EnergyComputes
<1>7. origin' \in Nat
  BY <1>2 DEF SampleApplied, TypeOK
<1>8. bootPeak' \in Nat
  BY <1>1 DEF SampleApplied, TypeOK, MaxOf
<1>9. peak' \in Nat \cup {None}
  BY <1>1 DEF SampleApplied, PeakComputes, PeakAfter, TypeOK, MaxOf
<1>10. spoiled' \subseteq {"net", "energy", "peak"}
  BY DEF SampleApplied, Spoils
<1>11. samples' \in [Samples -> Counters \cup {None}] /\ host' = host
  BY DEF SampleApplied, TypeOK
<1> QED BY <1>3, <1>5, <1>6, <1>7, <1>8, <1>9, <1>10, <1>11 DEF TypeOK

\* Every step keeps the types.
LEMMA TypeStep == TypeOK /\ [Next]_vars => TypeOK'
<1> SUFFICES ASSUME TypeOK, [Next]_vars PROVE TypeOK'
  OBVIOUS
<1>1. CASE HostCounts
  BY <1>1, HostType DEF HostCounts, TypeOK, hist
<1>2. CASE HostReboots
  BY <1>2, HostType DEF HostReboots, TypeOK, hist
<1>3. ASSUME NEW s \in Samples, SampleReads(s) PROVE TypeOK'
  BY <1>3 DEF SampleReads, TypeOK, hist
<1>4. ASSUME NEW s \in Samples, NEW count \in Counts, NEW range \in BOOLEAN,
             SampleApplied(s, count, range)
      PROVE  TypeOK'
  BY <1>4, AppliedType
<1>5. CASE \E s \in Samples : SampleFails(s)
  BY <1>5 DEF SampleFails, TypeOK
<1>6. CASE HomeAssistantRestarts
  BY <1>6 DEF HomeAssistantRestarts, TypeOK
<1>7. CASE UNCHANGED vars
  BY <1>7 DEF vars, hist, TypeOK
<1> QED BY <1>1, <1>2, <1>3, <1>4, <1>5, <1>6, <1>7 DEF Next

\* Nothing is counted, read or cached at first.
LEMMA TypeInit == Init => TypeOK
BY DEF Init, TypeOK, Counters

\* The counters, samples and caches of a host keep their types.
THEOREM CountersTypeCorrect == Spec => []TypeOK
BY TypeInit, TypeStep, PTL DEF Spec

-----------------------------------------------------------------------------
(* Readings *)

\* A reading is its own past.
LEMMA FollowsItself == ASSUME NEW r \in Counters PROVE Follows(r, r)
BY DEF Follows, Counters, Total

\* What was read is a past of the host after every step of the host.
LEMMA HostMovesOn ==
  ASSUME TypeOK, NEW r \in Counters, Follows(r, host), HostCounts \/ HostReboots
  PROVE  Follows(r, host')
<1>1. host \in Counters /\ host' \in Counters
  BY HostType DEF TypeOK
<1>2. CASE HostCounts /\ host.counter + 1 = Range
  <2>1. /\ host'.boot = host.boot /\ host'.since = host.since + 1
        /\ host'.counter = 0 /\ host'.zero = host.zero + Range
    BY <1>1, <1>2 DEF HostCounts, Counters
  <2> QED BY <1>1, <1>2, <2>1 DEF Follows, Counters, Total
<1>3. CASE HostCounts /\ host.counter + 1 # Range
  <2>1. /\ host'.boot = host.boot /\ host'.since = host.since + 1
        /\ host'.counter = host.counter + 1 /\ host'.zero = host.zero
    BY <1>1, <1>3 DEF HostCounts, Counters
  <2> QED BY <1>1, <2>1 DEF Follows, Counters, Total
<1>4. CASE HostReboots
  <2>1. /\ host'.boot = host.boot + 1 /\ host'.since = 0
        /\ host'.counter = 0 /\ host'.zero = Total(host)
    BY <1>1, <1>4 DEF HostReboots, Counters
  <2> QED BY <1>1, <2>1 DEF Follows, Counters, Total
<1> QED BY <1>2, <1>3, <1>4

\* A sample that is not late was read after the last one applied.
LEMMA InOrder ==
  ASSUME NEW r \in Counters, seen \in Counters, Follows(r, seen) \/ Follows(seen, r), ~ Late(r)
  PROVE  Follows(seen, r)
<1> SUFFICES ASSUME Follows(r, seen) PROVE Follows(seen, r)
  OBVIOUS
<1>1. seen # None
  OBVIOUS
<1>2. r.boot = seen.boot /\ Total(r) = Total(seen)
  BY <1>1 DEF Late, Follows, Counters, Total
<1>3. r.since = seen.since /\ r.zero = seen.zero
  BY <1>2 DEF Follows, Counters, Total
<1> QED BY <1>2, <1>3 DEF Follows, Counters, Total

-----------------------------------------------------------------------------
(* The caches *)

\* Readings are counters.
LEMMA ReadingsType == ASSUME TypeOK PROVE Readings \subseteq Counters
<1>1. \A s \in Samples : samples[s] # None => samples[s] \in Counters
  BY DEF TypeOK
<1> QED BY <1>1 DEF Readings, TypeOK

\* A step that reads nothing new and leaves the host alone keeps the readings
\* in order.
LEMMA ReadingsShrink ==
  ASSUME TypeOK, ReadingsInv, host' = host, Readings' \subseteq Readings
  PROVE  ReadingsInv'
<1>1. ASSUME NEW r \in Readings, NEW q \in Readings PROVE (Follows(r, q) <=> Follows(r, q)')
  BY DEF Follows, Total
<1> QED BY <1>1 DEF ReadingsInv, Follows, Total

\* The host moving on keeps them in order.
LEMMA HostKeepsReadings ==
  ASSUME TypeOK, ReadingsInv, HostCounts \/ HostReboots PROVE ReadingsInv'
<1>1. Readings' = Readings
  BY DEF HostCounts, HostReboots, hist, Readings
<1>2. \A r \in Readings : Follows(r, host')
  BY HostMovesOn, ReadingsType DEF ReadingsInv
<1> QED BY <1>1, <1>2 DEF ReadingsInv

\* So does a new sample: it is the host as it is.
LEMMA ReadKeepsReadings ==
  ASSUME TypeOK, ReadingsInv, NEW s \in Samples, SampleReads(s) PROVE ReadingsInv'
<1>1. Readings' \subseteq Readings \cup {host} /\ host' = host
  <2>1. seen' = seen /\ host' = host
    BY DEF SampleReads, hist
  <2>2. ASSUME NEW t \in Samples, samples'[t] # None, samples'[t] # host
        PROVE  samples'[t] \in Readings
    <3>1. samples'[t] = samples[t]
      BY <2>2 DEF SampleReads, TypeOK
    <3> QED BY <2>2, <3>1 DEF Readings
  <2>3. seen # None => seen \in Readings
    BY DEF Readings
  <2> QED BY <2>1, <2>2, <2>3 DEF Readings
<1>2. \A r \in Readings \cup {host} : Follows(r, host)
  BY FollowsItself DEF ReadingsInv, TypeOK
<1>3. \A r, q \in Readings \cup {host} : Follows(r, q) \/ Follows(q, r)
  BY <1>2 DEF ReadingsInv
<1> QED BY <1>1, <1>2, <1>3 DEF ReadingsInv

\* What a sample in order says to caches that hold the counters of seen: the
\* increase of a counter is no more than what was counted in between, and an
\* energy counter that fell has wrapped once.
LEMMA Between ==
  ASSUME NEW r \in Counters, NEW q \in Counters, Follows(r, q)
  PROVE  /\ MaxOf(0, q.since - r.since) <= Total(q) - Total(r)
         /\ r.boot = q.boot /\ Total(q) - Total(r) < Range =>
              q.zero = IF q.counter >= r.counter THEN r.zero ELSE r.zero + Range
BY DEF Follows, Counters, Total, MaxOf

\* A sample that is applied leaves the caches with its counters, and each of
\* them exact unless spoiled.
LEMMA AppliedKeeps ==
  ASSUME TypeOK, CountersInv, NEW s \in Samples, NEW count \in Counts, NEW range \in BOOLEAN,
         SampleApplied(s, count, range)
  PROVE  CountersInv'
<1> DEFINE at == samples[s]
<1>1. at \in Counters /\ count \in Nat /\ range \in BOOLEAN /\ at \in Readings
  BY DEF SampleApplied, TypeOK, Readings
<1>2. seen' = at /\ net' = at.since /\ uptime' = at.since /\ at # None /\ host' = host
  BY <1>1 DEF SampleApplied, NetComputes, PeakComputes
<1>3. seen # None =>
        /\ seen \in Counters /\ (Follows(at, seen) \/ Follows(seen, at))
        /\ net = seen.since /\ uptime = seen.since
  BY <1>1 DEF CountersInv, ReadingsInv, CachesInv, Readings, TypeOK
<1>4. seen # None /\ ~ Late(at) => Follows(seen, at)
  BY <1>1, <1>3, InOrder
<1>5. ReadingsInv'
  <2>1. Readings' \subseteq Readings
    <3>1. ASSUME NEW t \in Samples, samples'[t] # None PROVE samples'[t] \in Readings
      <4>1. t # s
        BY <3>1 DEF SampleApplied, TypeOK
      <4> QED BY <3>1, <4>1 DEF SampleApplied, TypeOK, Readings
    <3> QED BY <1>1, <1>2, <3>1 DEF Readings
  <2> QED BY <1>2, <2>1, ReadingsShrink DEF CountersInv
<1>6. energy' = [last |-> at.counter, offset |-> OffsetAfter(at.counter, range),
                 range |-> RangeKnown(range)]
  BY DEF SampleApplied, EnergyComputes
<1>7. CachesInv'
  <2>1. uptime # None => peak \in Nat
    BY DEF CountersInv, CachesInv, TypeOK
  <2>2. peak' \in Nat
    BY <1>1, <2>1 DEF SampleApplied, PeakComputes, PeakAfter, MaxOf
  <2> QED BY <1>2, <1>6, <2>2 DEF CachesInv
<1>8. spoiled' = Spoils(at, range)
  BY DEF SampleApplied
<1>9. NoByteTwice'
  <2> SUFFICES ASSUME "net" \notin spoiled' PROVE account'.bytes <= Total(at) - account'.from
    BY <1>2 DEF NoByteTwice, Total
  <2>1. "net" \notin spoiled /\ ~ Late(at)
    BY <1>8 DEF Spoils
  <2>2. account' = [from |-> IF seen = None THEN Total(at) ELSE account.from,
                    bytes |-> account.bytes + Transferred(at.since)]
    BY DEF SampleApplied
  <2>3. CASE seen = None
    <3>1. account.bytes = 0 /\ net = None
      BY <2>3 DEF CountersInv, CachesInv
    <3> QED BY <1>1, <2>2, <2>3, <3>1 DEF Transferred, Total, Counters
  <2>4. CASE seen # None
    <3>1. Transferred(at.since) = MaxOf(0, at.since - seen.since)
      BY <1>1, <1>3, <2>4 DEF Transferred, Counters
    <3>2. Transferred(at.since) <= Total(at) - Total(seen)
      BY <1>1, <1>3, <1>4, <2>1, <2>4, <3>1, Between
    <3>3. account.bytes <= Total(seen) - account.from
      BY <2>1, <2>4 DEF CountersInv, NoByteTwice
    <3>4. /\ Total(at) \in Int /\ Total(seen) \in Int /\ Transferred(at.since) \in Int
          /\ account.from \in Int /\ account.bytes \in Int
      BY <1>1, <1>3, <2>4, <3>1 DEF Total, Counters, MaxOf, TypeOK
    <3> QED BY <2>2, <2>4, <3>2, <3>3, <3>4
  <2> QED BY <2>3, <2>4
<1>10. EnergyInv'
  <2> SUFFICES ASSUME "energy" \notin spoiled' PROVE energy'.offset + origin' = at.zero
    BY <1>2 DEF EnergyInv
  <2>1. CASE energy = None
    BY <1>1, <1>6, <2>1 DEF SampleApplied, OffsetAfter, Counters
  <2>2. CASE energy # None
    <3>1. "energy" \notin spoiled /\ ~ EnergyUnseen(at, range)
      BY <1>8, <2>2 DEF Spoils
    <3>2. seen # None /\ energy.last = seen.counter /\ energy.offset + origin = seen.zero
      BY <2>2, <3>1 DEF CountersInv, CachesInv, EnergyInv
    <3>3. /\ at.boot = seen.boot /\ Total(at) - Total(seen) < Range
          /\ RangeKnown(range) /\ ~ Late(at)
      BY <1>1, <1>3, <2>2, <3>1, <3>2 DEF EnergyUnseen, Total, Counters
    <3>4. at.zero = IF at.counter >= seen.counter THEN seen.zero ELSE seen.zero + Range
      BY <1>1, <1>3, <1>4, <3>2, <3>3, Between
    <3>5. energy'.offset = IF at.counter >= seen.counter THEN energy.offset
                           ELSE energy.offset + Range
      BY <1>6, <2>2, <3>2, <3>3 DEF OffsetAfter
    <3>6. energy.offset \in Nat /\ origin \in Nat /\ seen.zero \in Nat /\ origin' = origin
      BY <1>3, <2>2, <3>2 DEF TypeOK, Counters, SampleApplied
    <3> QED BY <3>2, <3>4, <3>5, <3>6
  <2> QED BY <2>1, <2>2
<1>11. PeakIsOfBoot'
  <2> SUFFICES ASSUME "peak" \notin spoiled' PROVE peak' = bootPeak'
    BY DEF PeakIsOfBoot
  <2>1. /\ peak' = PeakAfter(count, at.since)
        /\ bootPeak' = IF seen # None /\ seen.boot = at.boot
                       THEN MaxOf(bootPeak, count) ELSE count
    BY DEF SampleApplied, PeakComputes
  <2>2. CASE seen = None
    BY <2>1, <2>2 DEF PeakAfter, CountersInv, CachesInv
  <2>3. CASE seen # None
    <3>1. uptime = seen.since /\ uptime # None
      BY <1>3, <2>3 DEF Counters
    <3>2. ~ Late(at) /\ ~ RebootUnseen(at) /\ (at.since >= seen.since => "peak" \notin spoiled)
      BY <1>8, <3>1 DEF Spoils
    <3>3. CASE at.since < seen.since
      <4>1. at.boot # seen.boot
        BY <1>1, <1>3, <1>4, <2>3, <3>2, <3>3 DEF Follows, Counters, Total
      <4> QED BY <2>1, <3>1, <3>3, <4>1 DEF PeakAfter
    <3>4. CASE at.since >= seen.since
      <4>1. at.boot = seen.boot
        BY <2>3, <3>2, <3>4 DEF RebootUnseen
      <4>2. peak # None => peak = bootPeak
        BY <3>2, <3>4 DEF CountersInv, PeakIsOfBoot
      <4>3. peak # None
        BY <2>3 DEF CountersInv, CachesInv
      <4> QED BY <1>1, <1>3, <2>1, <2>3, <3>1, <3>4, <4>1, <4>2, <4>3
              DEF PeakAfter, MaxOf, Counters, TypeOK
    <3> QED BY <1>1, <1>3, <2>3, <3>3, <3>4 DEF Counters
  <2> QED BY <2>2, <2>3
<1> QED BY <1>5, <1>7, <1>9, <1>10, <1>11 DEF CountersInv

\* Every step keeps the invariant.
LEMMA CountersStep == TypeOK /\ CountersInv /\ [Next]_vars => CountersInv'
<1> SUFFICES ASSUME TypeOK, CountersInv, [Next]_vars PROVE CountersInv'
  OBVIOUS
<1> USE DEF CountersInv
<1>1. CASE HostCounts \/ HostReboots
  BY <1>1, HostKeepsReadings
     DEF HostCounts, HostReboots, hist, CachesInv, NoByteTwice, EnergyInv, PeakIsOfBoot, Total
<1>2. ASSUME NEW s \in Samples, SampleReads(s) PROVE CountersInv'
  <2>1. ReadingsInv'
    BY <1>2, ReadKeepsReadings
  <2> QED BY <1>2, <2>1
          DEF SampleReads, hist, CachesInv, NoByteTwice, EnergyInv, PeakIsOfBoot, Total
<1>3. ASSUME NEW s \in Samples, NEW count \in Counts, NEW range \in BOOLEAN,
             SampleApplied(s, count, range)
      PROVE  CountersInv'
  BY <1>3, AppliedKeeps
<1>4. CASE \E s \in Samples : SampleFails(s)
  <2>1. Readings' \subseteq Readings /\ host' = host
    BY <1>4 DEF SampleFails, Readings, TypeOK
  <2>2. ReadingsInv'
    BY <2>1, ReadingsShrink
  <2> QED BY <1>4, <2>2 DEF SampleFails, CachesInv, NoByteTwice, EnergyInv, PeakIsOfBoot, Total
<1>5. CASE HomeAssistantRestarts
  <2>1. Readings' = {} /\ host' = host
    BY <1>5 DEF HomeAssistantRestarts, Readings
  <2>2. ReadingsInv'
    BY <2>1 DEF ReadingsInv
  <2> QED BY <1>5, <2>2
          DEF HomeAssistantRestarts, CachesInv, NoByteTwice, EnergyInv, PeakIsOfBoot
<1>6. CASE UNCHANGED vars
  <2>1. Readings' = Readings /\ host' = host
    BY <1>6 DEF vars, hist, Readings
  <2>2. ReadingsInv'
    BY <2>1, ReadingsShrink
  <2> QED BY <1>6, <2>2 DEF vars, hist, CachesInv, NoByteTwice, EnergyInv, PeakIsOfBoot, Total
<1> QED BY <1>1, <1>2, <1>3, <1>4, <1>5, <1>6 DEF Next

\* Nothing was read at first, and every cache is empty.
LEMMA CountersInit == Init => CountersInv
BY DEF Init, CountersInv, ReadingsInv, Readings, CachesInv, NoByteTwice, EnergyInv, PeakIsOfBoot

\* The inductive invariant: readings are ordered like the steps of the host, and
\* the caches hold the counters of the last one applied.
THEOREM CountersInOrder == Spec => []CountersInv
BY TypeInit, TypeStep, CountersInit, CountersStep, PTL DEF Spec

\* No byte is counted twice by the rates of NetStatsCache.
THEOREM BytesCountedOnce == Spec => []NoByteTwice
<1>1. CountersInv => NoByteTwice
  BY DEF CountersInv
<1> QED BY <1>1, CountersInOrder, PTL

\* The energy total of EnergyStatsCache is exact across wraps of the counter.
THEOREM EnergyExact == Spec => []EnergyIsExact
<1>1. TypeOK /\ CountersInv => EnergyIsExact
  <2> SUFFICES ASSUME TypeOK, CountersInv, energy # None, "energy" \notin spoiled
               PROVE  energy.offset + energy.last = Total(seen) - origin
    BY DEF EnergyIsExact
  <2>1. seen # None /\ energy.last = seen.counter /\ energy.offset + origin = seen.zero
    BY DEF CountersInv, CachesInv, EnergyInv
  <2>2. /\ seen.zero \in Nat /\ seen.counter \in Nat /\ origin \in Nat
        /\ energy.offset \in Nat
    BY <2>1 DEF TypeOK, Counters
  <2> QED BY <2>1, <2>2 DEF Total
<1> QED BY <1>1, CountersInOrder, CountersTypeCorrect, PTL

\* What EnergyIsCumulative asks for does hold between failures: no sample that
\* EnergyStatsCache.compute takes lowers the energy total.
THEOREM EnergyFallsOnlyByFailure == Spec => EnergyNeverFalls
<1> DEFINE Good == TypeOK /\ CountersInv /\ EnergyIsExact
<1>1. ASSUME Good, Good', [Next]_vars, energy # None, energy' # None,
             "energy" \notin spoiled'
      PROVE  energy'.offset + energy'.last >= energy.offset + energy.last
  <2>1. ASSUME energy' = energy PROVE energy'.offset + energy'.last >= energy.offset + energy.last
    <3>1. energy.offset \in Nat /\ energy.last \in Nat
      BY <1>1, CountersAssumption DEF TypeOK
    <3> QED BY <2>1, <3>1
  <2>2. ASSUME NEW s \in Samples, NEW count \in Counts, NEW range \in BOOLEAN,
               SampleApplied(s, count, range)
        PROVE  energy'.offset + energy'.last >= energy.offset + energy.last
    <3>1. seen # None
      BY <1>1 DEF CountersInv, CachesInv
    <3>2. spoiled' = Spoils(samples[s], range) /\ seen' = samples[s] /\ origin' = origin
      BY <1>1, <2>2 DEF SampleApplied
    <3>3. "energy" \notin spoiled /\ ~ EnergyUnseen(samples[s], range)
      BY <1>1, <3>2 DEF Spoils
    <3>4. samples[s].boot = seen.boot /\ ~ (Total(samples[s]) < Total(seen))
      BY <1>1, <3>1, <3>3 DEF EnergyUnseen, Late
    <3>5. seen \in Counters /\ seen' \in Counters
      BY <1>1, <2>2, <3>1, <3>2 DEF TypeOK, SampleApplied
    <3>6. /\ Total(seen) \in Nat /\ Total(samples[s]) \in Nat
          /\ Total(seen)' = Total(samples[s])
      BY <3>2, <3>5, CountersAssumption DEF Total, Counters
    <3>7. energy.offset + energy.last = Total(seen) - origin
      BY <1>1, <3>3 DEF EnergyIsExact
    <3>8. energy'.offset + energy'.last = Total(samples[s]) - origin
      BY <1>1, <3>2, <3>6 DEF EnergyIsExact
    <3>9. origin \in Nat
      BY <1>1 DEF TypeOK
    <3> QED BY <3>4, <3>6, <3>7, <3>8, <3>9
  <2>3. ASSUME NEW s \in Samples, SampleFails(s) PROVE FALSE
    BY <1>1, <2>3 DEF SampleFails
  <2>4. ASSUME HomeAssistantRestarts PROVE FALSE
    BY <1>1, <2>4 DEF HomeAssistantRestarts
  <2>5. ASSUME HostCounts \/ HostReboots \/ (\E s \in Samples : SampleReads(s)) \/ UNCHANGED vars
        PROVE  energy' = energy
    BY <2>5 DEF HostCounts, HostReboots, SampleReads, vars
  <2> QED BY <1>1, <2>1, <2>2, <2>3, <2>4, <2>5 DEF Next
<1>2. Good /\ Good' /\ [Next]_vars
        => [energy # None /\ energy' # None /\ "energy" \notin spoiled'
              => energy'.offset + energy'.last >= energy.offset + energy.last]_vars
  BY <1>1
<1> QED
  BY <1>2, EnergyExact, CountersInOrder, CountersTypeCorrect, PTL DEF Spec, EnergyNeverFalls

\* The peak of ProcessPeakCache is that of the boot it was read in.
THEOREM PeakOfBoot == Spec => []PeakIsOfBoot
<1>1. CountersInv => PeakIsOfBoot
  BY DEF CountersInv
<1> QED BY <1>1, CountersInOrder, PTL

=============================================================================
