--------------------------- MODULE RemoteCommand ---------------------------
(***************************************************************************)
(* One remote command over SSH and the thread that reads its answer: a     *)
(* custom sensor (_read_custom_command_channel), a collector (_run_ssh,    *)
(* with the other commands that _async_collect_raw tries) or an action     *)
(* (_exec_ssh_with_fallback).                                              *)
(*                                                                         *)
(* The command writes to two streams that share the window of one channel, *)
(* may end its output, may exit, in any order, or hang; the connection may *)
(* fail, with or without notice.  A byte is a count.  The command, sshd    *)
(* and paramiko's channel are external, modelled from how the code uses    *)
(* them.                                                                   *)
(***************************************************************************)
EXTENDS Naturals

CONSTANTS
  MaxOutput, \* MAX_CUSTOM_COMMAND_OUTPUT (16384)
  Chunk,     \* bytes that one recv takes at most (4096)
  Window,    \* bytes that the channel holds before the command must wait
  Commands,  \* commands to try in order, for a collector or an action
  Limit      \* bound of the model: bytes that a command writes to a stream

ASSUME RemoteAssumption ==
  {MaxOutput, Chunk, Window, Commands, Limit} \subseteq Nat \ {0}

VARIABLES
  reader,    \* "custom", "collector" or "action"
  attempt,   \* number of the command that runs
  ch,        \* the channel of the command
  pc,        \* where the reader is
  got,       \* got[s]: bytes of stream s that the reader has kept
  truncated, \* output_truncated
  late,      \* the deadline of a custom command has passed
  answer     \* what the reader came back with

vars == <<reader, attempt, ch, pc, got, truncated, late, answer>>

Streams == {"out", "err"}
None == [s \in Streams |-> 0]

\* sent, buf: bytes of each stream that the command wrote, and that wait to be
\* read; before: what it had written when its exit status arrived; eof: its
\* output has ended; lost: nothing comes any more, and nobody notices.
Fresh == [sent |-> None, buf |-> None, before |-> None,
          eof |-> FALSE, status |-> "none", lost |-> FALSE]

Init ==
  /\ reader \in {"custom", "collector", "action"}
  /\ attempt = 1 /\ ch = Fresh /\ pc = "connect"
  /\ got = None /\ truncated = FALSE /\ late = FALSE /\ answer = "none"

-----------------------------------------------------------------------------
(* The command and its channel *)

Open == pc \notin {"connect", "done"} /\ ~ch.lost

Remote(c) == Open /\ ch' = c /\ UNCHANGED <<reader, attempt, pc, got, truncated, late, answer>>

\* A byte arrives, unless the window is full of bytes of either stream.
Write(s) ==
  /\ ~ch.eof /\ ch.sent[s] < Limit
  /\ ch.buf["out"] + ch.buf["err"] < Window
  /\ Remote([ch EXCEPT !.sent[s] = @ + 1, !.buf[s] = @ + 1])

\* Output ends before or after the exit: a child may hold it open, and the
\* command may close it.
EndOutput == ~ch.eof /\ Remote([ch EXCEPT !.eof = TRUE])

\* The exit status arrives, and may overtake the rest of the output.
Exit ==
  /\ ch.status = "none"
  /\ \E st \in {"ok", "failed"} : Remote([ch EXCEPT !.status = st, !.before = ch.sent])

\* The connection ends: the channel is closed, a status that had not come is -1.
Closed ==
  /\ ~ch.eof \/ ch.status = "none"
  /\ Remote([ch EXCEPT !.eof = TRUE,
                       !.status = IF @ = "none" THEN "failed" ELSE @])

\* The host or the network is gone without a packet.
Lose == Remote([ch EXCEPT !.lost = TRUE])

-----------------------------------------------------------------------------
(* Attempts *)

\* The reader comes back; ssh.close() closes the channel.
Return(a) ==
  /\ pc' = "done" /\ answer' = a
  /\ UNCHANGED <<reader, attempt, ch, truncated, late>>

\* A command did not do: the next one is tried, if there is one and the error
\* is of a kind that the reader goes on after.  A collector connects again.
Fails(goesOn) ==
  IF goesOn /\ reader # "custom" /\ attempt < Commands
  THEN /\ attempt' = attempt + 1 /\ ch' = Fresh /\ got' = None
       /\ pc' = IF reader = "collector" THEN "connect" ELSE "out"
       /\ UNCHANGED <<reader, truncated, late, answer>>
  ELSE Return("error") /\ UNCHANGED got

\* ssh.connect with its timeouts, then exec_command.
Connect ==
  /\ pc = "connect"
  /\ \/ /\ pc' = "out"
        /\ UNCHANGED <<reader, attempt, ch, got, truncated, late, answer>>
     \/ Fails(reader = "collector")

-----------------------------------------------------------------------------
(* _read_custom_command_channel *)

MinOf(a, b) == IF a <= b THEN a ELSE b

GoTo(p) == pc' = p /\ UNCHANGED <<reader, attempt, ch, got, truncated, late, answer>>

KeepChunk(s, n) == \* faulty: the last chunk is kept whole
  /\ got' = IF got[s] < MaxOutput THEN [got EXCEPT ![s] = @ + n] ELSE got
  /\ truncated' = (truncated \/ (s = "out" /\ got[s] >= MaxOutput))

\* Of a chunk of n bytes, what fits is kept; only stdout tells of the rest.
Keep(s, n) ==
  /\ got' = [got EXCEPT ![s] = MinOf(@ + n, MaxOutput)]
  /\ truncated' = (truncated \/ (s = "out" /\ n > MaxOutput - got[s]))

\* One turn of the loop over recv_ready (recv_stderr_ready), or its end.
CustomRead(s, next) ==
  IF ch.buf[s] = 0 THEN GoTo(next)
  ELSE LET n == MinOf(Chunk, ch.buf[s]) IN
       /\ Keep(s, n)
       /\ ch' = [ch EXCEPT !.buf[s] = @ - n]
       /\ UNCHANGED <<reader, attempt, pc, late, answer>>

\* exit_status_ready
CustomExit == GoTo(IF ch.status # "none" THEN "recheck" ELSE "deadline")

\* The output of a command whose status is 0.
Answer == IF ch.status = "ok" THEN Return("output") /\ UNCHANGED got ELSE Fails(FALSE)

RecheckNothing == Answer \* faulty: takes the exit for the end of the output

\* The status may have come after the streams were last looked at.
CustomRecheck ==
  IF ch.buf = None THEN Answer ELSE GoTo("deadline")

NoDeadline == GoTo("out") \* faulty

CustomDeadline == IF late THEN Fails(FALSE) ELSE GoTo("out")

CustomStep ==
  /\ reader = "custom"
  /\ \/ pc = "out" /\ CustomRead("out", "err")
     \/ pc = "err" /\ CustomRead("err", "exit")
     \/ pc = "exit" /\ CustomExit
     \/ pc = "recheck" /\ CustomRecheck
     \/ pc = "deadline" /\ CustomDeadline

\* command_timeout has passed.
Late ==
  /\ reader = "custom" /\ pc \notin {"connect", "done"} /\ ~late
  /\ late' = TRUE
  /\ UNCHANGED <<reader, attempt, ch, pc, got, truncated, answer>>

-----------------------------------------------------------------------------
(* stdout.read(), stderr.read() and recv_exit_status() *)

\* One recv of read(), which ends with the output.
ReadToEnd(s, next) ==
  \/ /\ ch.buf[s] > 0
     /\ LET n == MinOf(Chunk, ch.buf[s]) IN
        /\ got' = [got EXCEPT ![s] = @ + n]
        /\ ch' = [ch EXCEPT !.buf[s] = @ - n]
     /\ UNCHANGED <<reader, attempt, pc, truncated, late, answer>>
  \/ ch.buf[s] = 0 /\ ch.eof /\ GoTo(next)

\* A collector takes the output of a command that failed, if there is any, and
\* tries the next command if what it got is not JSON; no output is no data.
CollectorStatus ==
  \/ /\ ch.status = "ok" \/ got["out"] > 0
     /\ Return("output") /\ UNCHANGED got
  \/ /\ ch.status = "failed" \/ got["out"] > 0
     /\ Fails(TRUE)

\* An action wants status 0.
ActionStatus ==
  IF ch.status = "ok" THEN Return("output") /\ UNCHANGED got ELSE Fails(TRUE)

\* recv_exit_status() waits without a timeout.
ReadStatus ==
  /\ ch.status # "none"
  /\ IF reader = "collector" THEN CollectorStatus ELSE ActionStatus

ReadStep ==
  /\ reader # "custom"
  /\ \/ pc = "out" /\ ReadToEnd("out", "err")
     \/ pc = "err" /\ ReadToEnd("err", "status")
     \/ pc = "status" /\ ReadStatus

\* A recv has waited command_timeout for its stream.  A collector tries the
\* next command; an action gives up.
RecvTimesOut ==
  /\ reader # "custom"
  /\ \E s \in Streams : pc = s /\ ch.buf[s] = 0 /\ ~ch.eof
  /\ Fails(reader = "collector")

-----------------------------------------------------------------------------

Next ==
  \/ \E s \in Streams : Write(s)
  \/ EndOutput \/ Exit \/ Closed \/ Lose
  \/ Connect \/ CustomStep \/ Late \/ ReadStep \/ RecvTimesOut

\* The thread runs, connecting has a timeout, and time passes.  Nothing is
\* known of the command.
Spec ==
  /\ Init /\ [][Next]_vars
  /\ WF_vars(Connect) /\ WF_vars(CustomStep) /\ WF_vars(ReadStep)
  /\ WF_vars(Late) /\ WF_vars(RecvTimesOut)

-----------------------------------------------------------------------------
(* Properties *)

\* Every variable has its type; a custom sensor keeps 16 KiB of each stream
\* ("bounded retained output"), and the channel no more than its window.
TypeOK ==
  /\ reader \in {"custom", "collector", "action"}
  /\ attempt \in 1..Commands
  /\ ch.sent \in [Streams -> 0..Limit] /\ ch.before \in [Streams -> 0..Limit]
  /\ ch.buf \in [Streams -> 0..Window] /\ ch.buf["out"] + ch.buf["err"] <= Window
  /\ ch.eof \in BOOLEAN /\ ch.lost \in BOOLEAN /\ ch.status \in {"none", "ok", "failed"}
  /\ pc \in {"connect", "out", "err", "exit", "recheck", "deadline", "status", "done"}
  /\ got \in [Streams -> 0..(IF reader = "custom" THEN MaxOutput ELSE Limit)]
  /\ truncated \in BOOLEAN /\ late \in BOOLEAN
  /\ answer \in {"none", "output", "error"}

\* An answer has all the command wrote before its exit status, whenever the
\* status came: a custom sensor up to its limit, and it says so if stdout had
\* more; the others to the end of the output.
AnswerIsWhole ==
  pc = "done" /\ answer = "output" =>
    IF reader = "custom"
    THEN /\ \A s \in Streams : got[s] >= MinOf(ch.before[s], MaxOutput)
         /\ truncated => ch.sent["out"] > MaxOutput
         /\ ~truncated => ch.before["out"] <= MaxOutput
    ELSE got = ch.sent

\* Whatever the command and the connection do, the reader comes back, unless
\* the output has ended and no exit status comes: this wait has no timeout.
EveryRunAnswers == <>(pc = "done") \/ <>[](pc = "status" /\ ch.status = "none")

=============================================================================
