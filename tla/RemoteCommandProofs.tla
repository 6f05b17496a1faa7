------------------------ MODULE RemoteCommandProofs ------------------------
(***************************************************************************)
(* What the readers of remote commands return, for any limit, chunk and    *)
(* window, however the status and the streams arrive.                      *)
(***************************************************************************)
EXTENDS RemoteCommand, Integers, TLAPS

USE RemoteAssumption

Channel == [sent : [Streams -> 0..Limit], buf : [Streams -> 0..Window],
            before : [Streams -> 0..Limit],
            eof : BOOLEAN, status : {"none", "ok", "failed"}, lost : BOOLEAN]

Types ==
  /\ reader \in {"custom", "collector", "action"}
  /\ attempt \in 1..Commands
  /\ ch \in Channel
  /\ pc \in {"connect", "out", "err", "exit", "recheck", "deadline", "status", "done"}
  /\ got \in [Streams -> Nat]
  /\ truncated \in BOOLEAN /\ late \in BOOLEAN
  /\ answer \in {"none", "output", "error"}

\* No byte is in two places or in none: what was sent waits, is kept, or was
\* dropped beyond the limit; the window is respected; and what had been written
\* when the status came is part of what was written.
ChannelOK ==
  /\ ch.buf["out"] + ch.buf["err"] <= Window
  /\ \A s \in Streams :
       /\ ch.buf[s] <= ch.sent[s] /\ ch.before[s] <= ch.sent[s]
       /\ got[s] = IF reader = "custom" THEN MinOf(ch.sent[s] - ch.buf[s], MaxOutput)
                   ELSE ch.sent[s] - ch.buf[s]

\* Where a reader is, and what it knows there.
PlaceOK ==
  /\ pc = "connect" => ch = Fresh /\ got = None
  /\ pc \in {"exit", "recheck", "deadline"} => reader = "custom"
  /\ pc = "recheck" => ch.status # "none"
  /\ reader = "custom" => (truncated <=> ch.sent["out"] - ch.buf["out"] > MaxOutput)
  /\ reader # "custom" => /\ pc \in {"err", "status"} => ch.eof /\ ch.buf["out"] = 0
                          /\ pc = "status" => ch.buf["err"] = 0
  /\ pc = "status" => reader # "custom"

ReaderInv == Types /\ ChannelOK /\ PlaceOK /\ AnswerIsWhole

-----------------------------------------------------------------------------

LEMMA StreamsAre == Streams = {"out", "err"}
BY DEF Streams

LEMMA FreshIs ==
  /\ Fresh \in Channel /\ None \in [Streams -> Nat]
  /\ \A s \in Streams : /\ Fresh.sent[s] = 0 /\ Fresh.buf[s] = 0 /\ Fresh.before[s] = 0
                        /\ None[s] = 0
BY DEF Fresh, None, Channel, Streams

LEMMA Initially == Init => ReaderInv
<1> SUFFICES ASSUME Init PROVE ReaderInv
  OBVIOUS
<1>1. /\ reader \in {"custom", "collector", "action"} /\ attempt = 1 /\ pc = "connect"
      /\ ch = Fresh /\ got = None /\ truncated = FALSE /\ late = FALSE /\ answer = "none"
  BY DEF Init
<1>2. 1 \in 1..Commands
  OBVIOUS
<1>3. Types
  BY <1>1, <1>2, FreshIs DEF Types
<1>4. \A s \in Streams : /\ ch.sent[s] = 0 /\ ch.buf[s] = 0 /\ ch.before[s] = 0
                          /\ got[s] = 0
  BY <1>1, FreshIs
<1>5. ChannelOK
  BY <1>4, StreamsAre DEF ChannelOK, MinOf
<1>6. ~(ch.sent["out"] - ch.buf["out"] > MaxOutput)
  BY <1>4, StreamsAre
<1>7. PlaceOK
  BY <1>1, <1>6 DEF PlaceOK
<1>8. AnswerIsWhole
  BY <1>1 DEF AnswerIsWhole
<1> QED BY <1>3, <1>5, <1>7, <1>8 DEF ReaderInv

\* The invariant says nothing of the rest of the channel.
LEMMA RemoteKeeps ==
  ASSUME ReaderInv, NEW c \in Channel, Remote(c),
         c.buf["out"] + c.buf["err"] <= Window,
         \A s \in Streams : /\ c.sent[s] - c.buf[s] = ch.sent[s] - ch.buf[s]
                            /\ c.buf[s] <= c.sent[s] /\ c.before[s] <= c.sent[s],
         ch.status # "none" => c.status # "none", ch.eof => c.eof,
         \A s \in Streams : ch.eof => c.buf[s] = ch.buf[s]
  PROVE  ReaderInv'
<1>1. /\ ch' = c /\ pc \notin {"connect", "done"}
      /\ UNCHANGED <<reader, attempt, pc, got, truncated, late, answer>>
  BY DEF Remote, Open
<1>2. Types'
  BY <1>1 DEF ReaderInv, Types
<1>3. ChannelOK'
  BY <1>1 DEF ReaderInv, ChannelOK
<1>4. PlaceOK'
  BY <1>1, StreamsAre DEF ReaderInv, PlaceOK, Types, Channel
<1>5. AnswerIsWhole'
  BY <1>1 DEF AnswerIsWhole
<1> QED BY <1>2, <1>3, <1>4, <1>5 DEF ReaderInv

LEMMA WriteKeeps ==
  ASSUME ReaderInv, NEW s \in Streams, Write(s)
  PROVE  ReaderInv'
<1> DEFINE c == [ch EXCEPT !.sent[s] = @ + 1, !.buf[s] = @ + 1]
<1>1. /\ Remote(c) /\ ~ch.eof /\ ch.sent[s] < Limit
      /\ ch.buf["out"] + ch.buf["err"] < Window
  BY DEF Write
<1>2. ch \in Channel
  BY DEF ReaderInv, Types
<1>3. /\ ch.sent \in [Streams -> 0..Limit] /\ ch.buf \in [Streams -> 0..Window]
      /\ ch.before \in [Streams -> 0..Limit]
  BY <1>2 DEF Channel
<1>4. ch.buf["out"] \in 0..Window /\ ch.buf["err"] \in 0..Window
  BY <1>3, StreamsAre
<1>5. ch.sent[s] + 1 \in 0..Limit /\ ch.buf[s] + 1 \in 0..Window
  BY <1>1, <1>3, <1>4, StreamsAre
<1>6. /\ c.sent = [ch.sent EXCEPT ![s] = @ + 1] /\ c.buf = [ch.buf EXCEPT ![s] = @ + 1]
      /\ c.before = ch.before /\ c.eof = ch.eof /\ c.status = ch.status /\ c.lost = ch.lost
  BY <1>2 DEF Channel
<1>7. c \in Channel
  BY <1>2, <1>3, <1>5 DEF Channel
<1>8. c.buf["out"] + c.buf["err"] <= Window
  BY <1>1, <1>3, <1>4, <1>6, StreamsAre
<1>9. \A t \in Streams : /\ c.sent[t] - c.buf[t] = ch.sent[t] - ch.buf[t]
                         /\ c.buf[t] <= c.sent[t] /\ c.before[t] <= c.sent[t]
  BY <1>3, <1>6 DEF ReaderInv, ChannelOK
<1> HIDE DEF c
<1> QED BY <1>1, <1>6, <1>7, <1>8, <1>9, RemoteKeeps

LEMMA EventKeeps ==
  ASSUME ReaderInv, EndOutput \/ Exit \/ Closed \/ Lose
  PROVE  ReaderInv'
<1>1. ch \in Channel
  BY DEF ReaderInv, Types
<1>2. ASSUME NEW c \in Channel, Remote(c), c.buf = ch.buf, c.sent = ch.sent,
             c.before \in {ch.before, ch.sent}, ch.status # "none" => c.status # "none",
             ch.eof => c.eof
      PROVE  ReaderInv'
  <2>1. ch.sent \in [Streams -> 0..Limit]
    BY <1>1 DEF Channel
  <2>2. \A t \in Streams : /\ c.sent[t] - c.buf[t] = ch.sent[t] - ch.buf[t]
                           /\ c.buf[t] <= c.sent[t] /\ c.before[t] <= c.sent[t]
    BY <1>2, <2>1 DEF ReaderInv, ChannelOK
  <2>3. c.buf["out"] + c.buf["err"] <= Window
    BY <1>2 DEF ReaderInv, ChannelOK
  <2> QED BY <1>2, <2>2, <2>3, RemoteKeeps
<1>3. CASE EndOutput
  BY <1>1, <1>2, <1>3 DEF EndOutput, Channel
<1>4. CASE Exit
  <2>1. PICK st \in {"ok", "failed"} : Remote([ch EXCEPT !.status = st, !.before = ch.sent])
    BY <1>4 DEF Exit
  <2> QED BY <1>1, <1>2, <2>1 DEF Channel
<1>5. CASE Closed
  BY <1>1, <1>2, <1>5 DEF Closed, Channel
<1>6. CASE Lose
  BY <1>1, <1>2, <1>6 DEF Lose, Channel
<1> QED BY <1>3, <1>4, <1>5, <1>6

\* A reader that moves on.
LEMMA GoToKeeps ==
  ASSUME ReaderInv, NEW p, GoTo(p), PlaceOK',
         p \in {"out", "err", "exit", "recheck", "deadline", "status"}
  PROVE  ReaderInv'
BY DEF GoTo, ReaderInv, Types, ChannelOK, AnswerIsWhole

LEMMA ReturnKeeps ==
  ASSUME ReaderInv, NEW a \in {"output", "error"}, Return(a), UNCHANGED got, AnswerIsWhole'
  PROVE  ReaderInv'
BY DEF Return, ReaderInv, Types, ChannelOK, PlaceOK

LEMMA FailsKeeps ==
  ASSUME ReaderInv, pc # "done", NEW b \in BOOLEAN, Fails(b)
  PROVE  ReaderInv'
<1>1. CASE b /\ reader # "custom" /\ attempt < Commands
  <2>1. /\ attempt' = attempt + 1 /\ ch' = Fresh /\ got' = None
        /\ pc' = IF reader = "collector" THEN "connect" ELSE "out"
        /\ UNCHANGED <<reader, truncated, late, answer>>
    BY <1>1 DEF Fails
  <2>2. Types'
    BY <1>1, <2>1, FreshIs DEF ReaderInv, Types
  <2>3. ChannelOK'
    BY <1>1, <2>1, FreshIs, StreamsAre DEF ChannelOK
  <2>4. PlaceOK' /\ AnswerIsWhole'
    BY <1>1, <2>1 DEF PlaceOK, AnswerIsWhole
  <2> QED BY <2>2, <2>3, <2>4 DEF ReaderInv
<1>2. CASE ~(b /\ reader # "custom" /\ attempt < Commands)
  <2>1. Return("error") /\ UNCHANGED got
    BY <1>2 DEF Fails
  <2>2. AnswerIsWhole'
    BY <2>1 DEF Return, AnswerIsWhole
  <2> QED BY <2>1, <2>2, ReturnKeeps
<1> QED BY <1>1, <1>2

\* One recv of n bytes of stream s.
LEMMA RecvKeeps ==
  ASSUME ReaderInv, NEW s \in Streams, NEW n \in Nat, n <= ch.buf[s], pc = s,
         ch' = [ch EXCEPT !.buf[s] = @ - n],
         IF reader = "custom" THEN Keep(s, n)
         ELSE got' = [got EXCEPT ![s] = @ + n] /\ truncated' = truncated,
         UNCHANGED <<reader, attempt, pc, late, answer>>
  PROVE  ReaderInv'
<1>1. ch \in Channel /\ got \in [Streams -> Nat] /\ truncated \in BOOLEAN
  BY DEF ReaderInv, Types
<1>2. /\ ch.sent \in [Streams -> 0..Limit] /\ ch.buf \in [Streams -> 0..Window]
      /\ ch.before \in [Streams -> 0..Limit]
  BY <1>1 DEF Channel
<1>3. /\ ch'.sent = ch.sent /\ ch'.buf = [ch.buf EXCEPT ![s] = @ - n]
      /\ ch'.before = ch.before /\ ch'.eof = ch.eof /\ ch'.status = ch.status
      /\ ch'.lost = ch.lost
  BY <1>1 DEF Channel
<1>4. ch.buf[s] - n \in 0..Window
  BY <1>2
<1>5. ch' \in Channel
  BY <1>1, <1>2, <1>4 DEF Channel
<1>6. got' \in [Streams -> Nat] /\ truncated' \in BOOLEAN
  <2>1. CASE reader = "custom"
    <3>1. got' = [got EXCEPT ![s] = MinOf(got[s] + n, MaxOutput)] /\ truncated' \in BOOLEAN
      BY <2>1 DEF Keep
    <3>2. MinOf(got[s] + n, MaxOutput) \in Nat
      BY <1>1 DEF MinOf
    <3> QED BY <1>1, <3>1, <3>2
  <2>2. CASE reader # "custom"
    BY <1>1, <2>2
  <2> QED BY <2>1, <2>2
<1>7. Types'
  BY <1>5, <1>6 DEF ReaderInv, Types
<1>8. ChannelOK'
  <2>1. ch'.buf["out"] + ch'.buf["err"] <= Window
    BY <1>2, <1>3, StreamsAre DEF ReaderInv, ChannelOK
  <2>2. ASSUME NEW t \in Streams
        PROVE  /\ ch'.buf[t] <= ch'.sent[t] /\ ch'.before[t] <= ch'.sent[t]
               /\ got'[t] = IF reader = "custom" THEN MinOf(ch'.sent[t] - ch'.buf[t], MaxOutput)
                            ELSE ch'.sent[t] - ch'.buf[t]
    <3>1. CASE t = s
      BY <1>1, <1>2, <1>3, <3>1 DEF ReaderInv, ChannelOK, Keep, MinOf
    <3>2. CASE t # s
      BY <1>1, <1>2, <1>3, <3>2 DEF ReaderInv, ChannelOK, Keep
    <3> QED BY <3>1, <3>2
  <2> QED BY <2>1, <2>2 DEF ChannelOK
<1>9. PlaceOK'
  <2>1. reader = "custom" => (truncated' <=> ch'.sent["out"] - ch'.buf["out"] > MaxOutput)
    <3> SUFFICES ASSUME reader = "custom"
                 PROVE  truncated' <=> ch'.sent["out"] - ch'.buf["out"] > MaxOutput
      OBVIOUS
    <3> DEFINE before == ch.sent["out"] - ch.buf["out"]
               after == ch'.sent["out"] - ch'.buf["out"]
    <3>1. got["out"] = MinOf(before, MaxOutput)
      BY StreamsAre DEF ReaderInv, ChannelOK
    <3>2. ch.sent["out"] \in Nat /\ ch.buf["out"] \in Nat /\ ch.buf["out"] <= ch.sent["out"]
      BY <1>2, StreamsAre DEF ReaderInv, ChannelOK
    <3>3. truncated <=> before > MaxOutput
      BY DEF ReaderInv, PlaceOK
    <3>4. truncated' <=> truncated \/ (s = "out" /\ n > MaxOutput - got["out"])
      BY DEF Keep
    <3>5. CASE s = "out"
      <4>1. ch'.buf["out"] = ch.buf["out"] - n
        BY <1>2, <1>3, <3>5
      <4>2. before \in Nat /\ after = before + n
        BY <1>3, <3>2, <4>1
      <4> HIDE DEF before, after
      <4>3. after > MaxOutput <=> before > MaxOutput \/ n > MaxOutput - got["out"]
        BY <3>1, <4>2 DEF MinOf
      <4> QED BY <3>3, <3>4, <3>5, <4>3, Zenon DEF after
    <3>6. CASE s = "err"
      <4>1. after = before
        BY <1>2, <1>3, <3>6
      <4> HIDE DEF before
      <4> QED BY <3>3, <3>4, <3>6, <4>1, Zenon DEF after
    <3> QED BY <3>5, <3>6, StreamsAre
  <2>2. reader # "custom" /\ pc \in {"err", "status"} => ch'.eof /\ ch'.buf["out"] = 0
    BY <1>2, <1>3, StreamsAre DEF ReaderInv, PlaceOK
  <2> QED BY <1>3, <2>1, <2>2, StreamsAre DEF ReaderInv, PlaceOK
<1>10. AnswerIsWhole'
  BY StreamsAre DEF AnswerIsWhole
<1> QED BY <1>7, <1>8, <1>9, <1>10 DEF ReaderInv

LEMMA ChunkIs ==
  ASSUME ReaderInv, NEW s \in Streams
  PROVE  MinOf(Chunk, ch.buf[s]) \in Nat /\ MinOf(Chunk, ch.buf[s]) <= ch.buf[s]
<1>1. ch.buf[s] \in Nat
  BY DEF ReaderInv, Types, Channel
<1> QED BY <1>1 DEF MinOf

LEMMA CustomKeeps ==
  ASSUME ReaderInv, CustomStep
  PROVE  ReaderInv'
<1>1. ASSUME NEW s \in Streams, pc = s, NEW p \in {"err", "exit"}, CustomRead(s, p), reader = "custom"
      PROVE  ReaderInv'
  <2>1. CASE ch.buf[s] = 0
    <3>1. GoTo(p)
      BY <1>1, <2>1 DEF CustomRead
    <3>2. PlaceOK'
      BY <1>1, <3>1 DEF GoTo, ReaderInv, PlaceOK
    <3> QED BY <1>1, <3>1, <3>2, GoToKeeps
  <2>2. CASE ch.buf[s] # 0
    BY <1>1, <2>2, ChunkIs, RecvKeeps DEF CustomRead
  <2> QED BY <2>1, <2>2
<1>2. CASE pc = "out" /\ CustomRead("out", "err")
  BY <1>1, <1>2, StreamsAre DEF CustomStep
<1>3. CASE pc = "err" /\ CustomRead("err", "exit")
  BY <1>1, <1>3, StreamsAre DEF CustomStep
<1>4. CASE pc = "exit" /\ CustomExit
  <2>1. PlaceOK'
    BY <1>4 DEF CustomStep, CustomExit, GoTo, ReaderInv, PlaceOK
  <2> QED BY <1>4, <2>1, GoToKeeps DEF CustomExit
<1>5. CASE pc = "recheck" /\ CustomRecheck
  <2>1. CASE ch.buf = None /\ ch.status = "ok"
    <3>1. Return("output") /\ UNCHANGED got
      BY <1>5, <2>1 DEF CustomRecheck, Answer
    <3>2. \A s \in Streams : ch.buf[s] = 0 /\ ch.sent[s] \in Nat /\ ch.before[s] \in Nat
      BY <2>1, FreshIs DEF ReaderInv, Types, Channel
    <3>3. /\ reader = "custom"
          /\ \A s \in Streams : /\ got[s] = MinOf(ch.sent[s], MaxOutput)
                                /\ ch.before[s] <= ch.sent[s]
          /\ truncated <=> ch.sent["out"] > MaxOutput
      BY <1>5, <3>2, StreamsAre DEF ReaderInv, ChannelOK, PlaceOK, CustomStep
    <3>4. AnswerIsWhole'
      BY <3>1, <3>2, <3>3, StreamsAre DEF Return, AnswerIsWhole, MinOf
    <3> QED BY <3>1, <3>4, ReturnKeeps
  <2>2. CASE ch.buf = None /\ ch.status # "ok"
    BY <1>5, <2>2, FailsKeeps DEF CustomRecheck, Answer
  <2>3. CASE ch.buf # None
    <3>1. GoTo("deadline")
      BY <1>5, <2>3 DEF CustomRecheck
    <3>2. PlaceOK'
      BY <1>5, <3>1 DEF CustomStep, GoTo, ReaderInv, PlaceOK
    <3> QED BY <3>1, <3>2, GoToKeeps
  <2> QED BY <2>1, <2>2, <2>3
<1>6. CASE pc = "deadline" /\ CustomDeadline
  <2>1. CASE late
    BY <1>6, <2>1, FailsKeeps DEF CustomDeadline
  <2>2. CASE ~late
    <3>1. GoTo("out")
      BY <1>6, <2>2 DEF CustomDeadline
    <3>2. PlaceOK'
      BY <1>6, <3>1 DEF CustomStep, GoTo, ReaderInv, PlaceOK
    <3> QED BY <3>1, <3>2, GoToKeeps
  <2> QED BY <2>1, <2>2
<1> QED BY <1>2, <1>3, <1>4, <1>5, <1>6 DEF CustomStep

LEMMA ReadKeeps ==
  ASSUME ReaderInv, ReadStep
  PROVE  ReaderInv'
<1>1. ASSUME NEW s \in Streams, pc = s, ch.buf[s] > 0, ReadToEnd(s, "none"), reader # "custom"
      PROVE  ReaderInv'
  <2>1. ch.buf[s] # 0
    BY <1>1
  <2> QED BY <1>1, <2>1, ChunkIs, RecvKeeps DEF ReadToEnd
<1>2. CASE pc = "out" /\ ReadToEnd("out", "err")
  <2>1. CASE ch.buf["out"] > 0
    BY <1>2, <2>1, ChunkIs, RecvKeeps, StreamsAre DEF ReadToEnd, ReadStep
  <2>2. CASE ~(ch.buf["out"] > 0)
    <3>1. ch.buf["out"] = 0 /\ ch.eof /\ GoTo("err")
      BY <1>2, <2>2 DEF ReadToEnd
    <3>2. PlaceOK'
      BY <1>2, <3>1 DEF GoTo, ReaderInv, PlaceOK, ReadStep
    <3> QED BY <3>1, <3>2, GoToKeeps
  <2> QED BY <2>1, <2>2
<1>3. CASE pc = "err" /\ ReadToEnd("err", "status")
  <2>1. CASE ch.buf["err"] > 0
    BY <1>3, <2>1, ChunkIs, RecvKeeps, StreamsAre DEF ReadToEnd, ReadStep
  <2>2. CASE ~(ch.buf["err"] > 0)
    <3>1. ch.buf["err"] = 0 /\ ch.eof /\ GoTo("status")
      BY <1>3, <2>2 DEF ReadToEnd
    <3>2. PlaceOK'
      BY <1>3, <3>1 DEF GoTo, ReaderInv, PlaceOK, ReadStep
    <3> QED BY <3>1, <3>2, GoToKeeps
  <2> QED BY <2>1, <2>2
<1>4. CASE pc = "status" /\ ReadStatus
  <2>1. ASSUME Return("output"), UNCHANGED got PROVE ReaderInv'
    <3>1. \A s \in Streams : got[s] = ch.sent[s]
      <4>1. \A s \in Streams : ch.buf[s] = 0 /\ ch.sent[s] \in Nat
        BY <1>4, StreamsAre DEF ReaderInv, PlaceOK, ReadStep, Types, Channel
      <4> QED BY <1>4, <4>1 DEF ReaderInv, ChannelOK, ReadStep
    <3>2. got \in [Streams -> Nat] /\ ch.sent \in [Streams -> 0..Limit]
      BY DEF ReaderInv, Types, Channel
    <3>3. got = ch.sent
      BY <3>1, <3>2
    <3>4. AnswerIsWhole'
      BY <1>4, <2>1, <3>3 DEF Return, AnswerIsWhole, ReadStep
    <3> QED BY <2>1, <3>4, ReturnKeeps
  <2>2. (Return("output") /\ UNCHANGED got) \/ Fails(TRUE)
    BY <1>4 DEF ReadStatus, CollectorStatus, ActionStatus
  <2> QED BY <1>4, <2>1, <2>2, FailsKeeps
<1> QED BY <1>2, <1>3, <1>4 DEF ReadStep

LEMMA ReaderStep == ReaderInv /\ [Next]_vars => ReaderInv'
<1> SUFFICES ASSUME ReaderInv, [Next]_vars PROVE ReaderInv'
  OBVIOUS
<1>1. CASE UNCHANGED vars
  BY <1>1 DEF vars, ReaderInv, Types, ChannelOK, PlaceOK, AnswerIsWhole
<1>2. CASE \E s \in Streams : Write(s)
  BY <1>2, WriteKeeps
<1>3. CASE EndOutput \/ Exit \/ Closed \/ Lose
  BY <1>3, EventKeeps
<1>4. CASE Connect
  <2>1. CASE Fails(reader = "collector")
    BY <1>4, <2>1, FailsKeeps DEF Connect
  <2>2. CASE /\ pc' = "out"
             /\ UNCHANGED <<reader, attempt, ch, got, truncated, late, answer>>
    <3>1. GoTo("out")
      BY <2>2 DEF GoTo
    <3>2. PlaceOK'
      BY <3>1 DEF GoTo, ReaderInv, PlaceOK
    <3> QED BY <3>1, <3>2, GoToKeeps
  <2> QED BY <1>4, <2>1, <2>2 DEF Connect
<1>5. CASE CustomStep
  BY <1>5, CustomKeeps
<1>6. CASE Late
  BY <1>6 DEF Late, ReaderInv, Types, ChannelOK, PlaceOK, AnswerIsWhole
<1>7. CASE ReadStep
  BY <1>7, ReadKeeps
<1>8. CASE RecvTimesOut
  <2>1. pc # "done" /\ Fails(reader = "collector")
    BY <1>8, StreamsAre DEF RecvTimesOut
  <2> QED BY <2>1, FailsKeeps
<1> QED BY <1>1, <1>2, <1>3, <1>4, <1>5, <1>6, <1>7, <1>8 DEF Next

\* The inductive invariant holds in every behaviour.
THEOREM ReadersInOrder == Spec => []ReaderInv
<1>1. Init => ReaderInv
  BY Initially
<1>2. ReaderInv /\ [Next]_vars => ReaderInv'
  BY ReaderStep
<1> QED BY <1>1, <1>2, PTL DEF Spec

\* What a reader keeps and a channel holds is bounded
\* (_read_custom_command_channel, "bounded retained output").
THEOREM ReadersTyped == Spec => []TypeOK
<1>1. ReaderInv => TypeOK
  <2> SUFFICES ASSUME ReaderInv PROVE TypeOK
    OBVIOUS
  <2>1. /\ ch.sent \in [Streams -> 0..Limit] /\ ch.buf \in [Streams -> 0..Window]
        /\ ch.before \in [Streams -> 0..Limit]
        /\ ch.eof \in BOOLEAN /\ ch.lost \in BOOLEAN /\ ch.status \in {"none", "ok", "failed"}
    BY DEF ReaderInv, Types, Channel
  <2>2. \A s \in Streams : got[s] \in 0..(IF reader = "custom" THEN MaxOutput ELSE Limit)
    BY <2>1 DEF ReaderInv, ChannelOK, MinOf
  <2>3. got \in [Streams -> 0..(IF reader = "custom" THEN MaxOutput ELSE Limit)]
    BY <2>2 DEF ReaderInv, Types
  <2> QED BY <2>1, <2>3 DEF ReaderInv, Types, ChannelOK, TypeOK
<1> QED BY <1>1, ReadersInOrder, PTL

\* An answer has all the command wrote before its status arrived, up to a limit
\* that is reported (_read_custom_command_channel, _run_ssh).
THEOREM AnswersAreWhole == Spec => []AnswerIsWhole
<1>1. ReaderInv => AnswerIsWhole
  BY DEF ReaderInv
<1> QED BY <1>1, ReadersInOrder, PTL

=============================================================================
