--------------------------- MODULE SlowTaskProofs ---------------------------
(***************************************************************************)
(* The slow collector tasks of a host and those who wait for them: no      *)
(* pile-up, no lost wakeup, and what a refresh call may miss, for any      *)
(* number of tasks, polls, container actions and refresh calls.            *)
(***************************************************************************)
EXTENDS CoordinatorProofs, FiniteSetTheorems

\* All that the invariant looks at.
waitVars == <<todo, handle, calls, refreshes, revision>>

-----------------------------------------------------------------------------
(* Tasks that start and end *)

\* A new task takes the handle; the task that was in it, if any, is hidden
\* (_schedule_slow_data, async_request_docker_refresh).
LEMMA StartIs ==
  ASSUME TypeOK, WaitsInv, NEW t \in Tasks, NEW S, S # {}, NEW n, StartTask(t, S, n)
  PROVE  /\ t \notin Running /\ handle' = t /\ handle' # NoTask
         /\ Running' = Running \cup {t}
         /\ Hidden' = Running
         /\ Hidden' = IF handle = NoTask THEN Hidden ELSE Hidden \cup {handle}
<1>1. /\ todo[t] = {} /\ todo' = [todo EXCEPT ![t] = S] /\ handle' = t
      /\ todo \in [Tasks -> SUBSET Collectors]
  BY DEF StartTask, TypeOK
<1>2. todo'[t] = S /\ \A u \in Tasks \ {t} : todo'[u] = todo[u]
  BY <1>1
<1>3. t \notin Running /\ Running' = Running \cup {t}
  BY <1>1, <1>2 DEF Running
<1>4. Hidden' = Running
  BY <1>1, <1>3 DEF Hidden
<1>5. Running = IF handle = NoTask THEN Hidden ELSE Hidden \cup {handle}
  <2>1. CASE handle = NoTask
    BY <2>1, CoordinatorAssumption DEF Hidden, Running
  <2>2. CASE handle # NoTask
    BY <2>2 DEF WaitsInv, Hidden
  <2> QED BY <2>1, <2>2
<1>6. handle' # NoTask
  BY <1>1, CoordinatorAssumption
<1> QED BY <1>1, <1>3, <1>4, <1>5, <1>6

\* A task that returns goes on, and nothing changes, or ends: then it no longer
\* runs and the handle is empty (_async_update_slow_data, finally).
LEMMA AdvanceIs ==
  ASSUME TypeOK, NEW t \in Tasks, todo[t] # {}, Advance(t)
  PROVE  \/ Running' = Running /\ UNCHANGED <<handle, callVars>>
         \/ /\ Running' = Running \ {t} /\ t \in Running
            /\ handle' = NoTask /\ WakeActions(t) /\ WakeRefreshes(t)
<1> DEFINE rest == todo[t] \ {First(todo[t])}
<1>1. todo \in [Tasks -> SUBSET Collectors] /\ todo' = [todo EXCEPT ![t] = rest]
  BY DEF Advance, TypeOK
<1>2. t \in Running /\ todo'[t] = rest /\ \A u \in Tasks \ {t} : todo'[u] = todo[u]
  BY <1>1 DEF Running
<1>3. CASE rest # {}
  BY <1>2, <1>3 DEF Advance, Running
<1>4. CASE rest = {}
  <2>1. handle' = NoTask /\ WakeActions(t) /\ WakeRefreshes(t)
    BY <1>4 DEF Advance, ClearHandle
  <2>2. Running' = Running \ {t}
    BY <1>2, <1>4 DEF Running
  <2> QED BY <1>2, <2>1, <2>2
<1> QED BY <1>3, <1>4

-----------------------------------------------------------------------------
(* How many tasks are hidden *)

\* The count of hidden tasks and of actions behind, in one place.
Pile(H, B) == IsFiniteSet(H) /\ IsFiniteSet(B) /\ Cardinality(H) + Cardinality(B) <= revision

\* An action that waits joins those behind with a revision of its own.
LEMMA PileWaits ==
  ASSUME NEW H, NEW B, NEW a, Pile(H, B), revision \in Nat
  PROVE  /\ IsFiniteSet(B \cup {a})
         /\ Cardinality(H) + Cardinality(B \cup {a}) <= revision + 1
<1>1. /\ IsFiniteSet(B \cup {a})
      /\ Cardinality(B \cup {a}) = IF a \in B THEN Cardinality(B) ELSE Cardinality(B) + 1
  BY FS_AddElement DEF Pile
<1>2. Cardinality(H) \in Nat /\ Cardinality(B) \in Nat
  BY FS_CardinalityType DEF Pile
<1> QED BY <1>1, <1>2 DEF Pile

\* An action that starts its task is behind no more, and may hide one task.
LEMMA PileStarts ==
  ASSUME NEW H, NEW B, NEW a \in B, NEW h, Pile(H, B), revision \in Nat
  PROVE  Pile(H, B \ {a}) /\ Pile(H \cup {h}, B \ {a})
<1>1. /\ IsFiniteSet(B \ {a}) /\ Cardinality(B \ {a}) = Cardinality(B) - 1
  BY FS_RemoveElement DEF Pile
<1>2. /\ IsFiniteSet(H \cup {h})
      /\ Cardinality(H \cup {h}) = IF h \in H THEN Cardinality(H) ELSE Cardinality(H) + 1
  BY FS_AddElement DEF Pile
<1>3. Cardinality(H) \in Nat /\ Cardinality(B) \in Nat
  BY FS_CardinalityType DEF Pile
<1> QED BY <1>1, <1>2, <1>3 DEF Pile

\* A hidden task that ends while another is in the handle hides that one.
LEMMA PileSwaps ==
  ASSUME NEW H, NEW B, NEW t \in H, NEW h, Pile(H, B), revision \in Nat
  PROVE  Pile(H \ {t}, B) /\ Pile((H \ {t}) \cup {h}, B)
<1>1. IsFiniteSet(H \ {t}) /\ Cardinality(H \ {t}) = Cardinality(H) - 1
  BY FS_RemoveElement DEF Pile
<1>2. /\ IsFiniteSet((H \ {t}) \cup {h})
      /\ Cardinality((H \ {t}) \cup {h})
           = IF h \in H \ {t} THEN Cardinality(H \ {t}) ELSE Cardinality(H \ {t}) + 1
  BY <1>1, FS_AddElement
<1>3. Cardinality(H) \in Nat /\ Cardinality(B) \in Nat
  BY FS_CardinalityType DEF Pile
<1> QED BY <1>1, <1>2, <1>3 DEF Pile

LEMMA TasksInvIs == TasksInv <=> Pile(Hidden, Behind) /\ WaitsInv
BY DEF TasksInv, SlowTasksBounded, Pile

-----------------------------------------------------------------------------
(* The steps *)

\* The invariant looks at nothing else.
LEMMA StutterKeeps ==
  ASSUME TasksInv, UNCHANGED waitVars
  PROVE  TasksInv'
BY DEF TasksInv, SlowTasksBounded, WaitsInv, Running, Hidden, Behind, waitVars

\* No call is under way and no task runs at the start.
LEMMA TasksInit == Init => TasksInv
<1> SUFFICES ASSUME Init PROVE TasksInv
  OBVIOUS
<1>1. Running = {}
  BY DEF Init, Running
<1>2. \A a \in Calls : calls[a].st = "idle"
  BY DEF Init, IdleCall
<1>3. \A r \in Refreshes : refreshes[r].st = "idle" /\ refreshes[r].owed = {}
  BY DEF Init, IdleRefresh
<1>4. Hidden = {} /\ Behind = {}
  BY <1>1, <1>2 DEF Hidden, Behind
<1>5. WaitsInv
  BY <1>1, <1>2, <1>3 DEF Init, WaitsInv
<1>6. SlowTasksBounded
  BY <1>4, FS_EmptySet DEF Init, SlowTasksBounded
<1> QED BY <1>4, <1>5, <1>6, FS_EmptySet DEF TasksInv

\* The end of a task wakes all who wait for it, and takes it from what they are
\* owed (_async_update_slow_data).
LEMMA CollectorKeeps ==
  ASSUME TypeOK, TasksInv, NEW t \in Tasks, CollectorReturns(t)
  PROVE  TasksInv'
<1>1. /\ todo[t] # {} /\ Advance(t) /\ revision' = revision
  BY DEF CollectorReturns, DiscardSample, PublishContainers, PublishOther
<1>2. CASE Running' = Running /\ UNCHANGED <<handle, callVars>>
  BY <1>1, <1>2 DEF TasksInv, SlowTasksBounded, WaitsInv, Hidden, Behind, callVars
<1>3. CASE /\ Running' = Running \ {t} /\ t \in Running
           /\ handle' = NoTask /\ WakeActions(t) /\ WakeRefreshes(t)
  <2>1. /\ \A a \in Calls : calls[a] \in CallType
        /\ \A r \in Refreshes : refreshes[r] \in RefreshType
        /\ revision \in Nat /\ Running \subseteq Tasks
    BY DEF TypeOK, Running
  <2>2. ASSUME NEW a \in Calls
        PROVE  /\ calls'[a].st = "waiting" => calls'[a] = calls[a] /\ calls[a].on # t
               /\ calls'[a].st \in {"waiting", "woken"} <=> calls[a].st \in {"waiting", "woken"}
    <3>1. CASE calls[a].st = "waiting" /\ calls[a].on = t
      <4>1. calls'[a] = [calls[a] EXCEPT !.st = "woken", !.on = NoTask]
        BY <1>3, <3>1 DEF WakeActions
      <4>2. calls'[a].st = "woken"
        BY <2>1, <4>1 DEF CallType
      <4> QED BY <3>1, <4>2
    <3>2. CASE ~ (calls[a].st = "waiting" /\ calls[a].on = t)
      <4>1. calls'[a] = calls[a]
        BY <1>3, <3>2 DEF WakeActions
      <4> QED BY <3>2, <4>1
    <3> QED BY <3>1, <3>2
  <2>3. Behind' = Behind
    BY <2>2 DEF Behind
  <2>4. ASSUME NEW r \in Refreshes
        PROVE  /\ refreshes'[r].st = "waiting" => refreshes[r].st = "waiting"
                                                  /\ refreshes'[r].on = refreshes[r].on
                                                  /\ refreshes[r].on # t
               /\ refreshes'[r].owed = refreshes[r].owed \ {t}
    <3>1. CASE refreshes[r].st = "waiting" /\ refreshes[r].on = t
      <4>1. refreshes'[r] = [st |-> "idle", on |-> NoTask, owed |-> refreshes[r].owed \ {t}]
        BY <1>3, <3>1 DEF WakeRefreshes
      <4> QED BY <4>1
    <3>2. CASE ~ (refreshes[r].st = "waiting" /\ refreshes[r].on = t)
      <4>1. refreshes'[r] = [refreshes[r] EXCEPT !.owed = @ \ {t}]
        BY <1>3, <3>2 DEF WakeRefreshes
      <4>2. /\ refreshes'[r].st = refreshes[r].st /\ refreshes'[r].on = refreshes[r].on
            /\ refreshes'[r].owed = refreshes[r].owed \ {t}
        BY <2>1, <4>1 DEF RefreshType
      <4> QED BY <3>2, <4>2
    <3> QED BY <3>1, <3>2
  <2>5. WaitsInv'
    <3>1. \A a \in Calls : calls'[a].st = "waiting" => calls'[a].on \in Running'
      BY <1>3, <2>2 DEF TasksInv, WaitsInv
    <3>2. \A r \in Refreshes : /\ refreshes'[r].st = "waiting" => refreshes'[r].on \in Running'
                               /\ refreshes'[r].owed \subseteq Running'
                               /\ handle' \notin refreshes'[r].owed
      BY <1>3, <2>1, <2>4, CoordinatorAssumption DEF TasksInv, WaitsInv
    <3> QED BY <1>3, <3>1, <3>2 DEF WaitsInv
  <2>6. Hidden' = Running \ {t}
    BY <1>3, <2>1, CoordinatorAssumption DEF Hidden
  <2>7. Pile(Hidden, Behind) /\ (handle # NoTask => handle \in Running)
    BY TasksInvIs DEF WaitsInv
  <2>8. Pile(Running \ {t}, Behind)
    <3>1. CASE handle = t
      BY <2>7, <3>1 DEF Hidden
    <3>2. CASE handle = NoTask
      <4>1. Hidden = Running
        BY <2>1, <3>2, CoordinatorAssumption DEF Hidden
      <4> QED BY <1>3, <2>1, <2>7, <4>1, PileSwaps
    <3>3. CASE handle # t /\ handle # NoTask
      <4>1. t \in Hidden /\ Running \ {t} = (Hidden \ {t}) \cup {handle}
        BY <1>3, <2>7, <3>3 DEF Hidden
      <4>2. Pile((Hidden \ {t}) \cup {handle}, Behind)
        BY <2>1, <2>7, <4>1, PileSwaps
      <4> QED BY <4>1, <4>2
    <3> QED BY <3>1, <3>2, <3>3
  <2>9. Pile(Hidden, Behind)'
    BY <1>1, <2>3, <2>6, <2>8 DEF Pile
  <2> QED BY <2>5, <2>9 DEF TasksInv, SlowTasksBounded, Pile
<1> QED BY <1>1, <1>2, <1>3, AdvanceIs

\* A poll that ends owes the refresh call that asked for it the task it started.
LEMMA PollKeeps ==
  ASSUME TypeOK, TasksInv, NEW p \in Polls \cup {Debounced}, PollReturns(p)
  PROVE  TasksInv'
<1>1. ASSUME NEW S \in SUBSET Tasks, PollEnds(p, S), NEW r \in Refreshes
      PROVE  \/ refreshes'[r] = refreshes[r]
             \/ refreshes'[r].st = "polled" /\ refreshes'[r].owed = S
  <2>1. refreshes[r] \in RefreshType
    BY DEF TypeOK
  <2>2. \/ refreshes'[r] = refreshes[r]
        \/ refreshes'[r] = [refreshes[r] EXCEPT !.st = "polled", !.owed = S]
    BY <1>1 DEF PollEnds
  <2> QED BY <2>1, <2>2 DEF RefreshType
<1>2. calls' = calls /\ revision' = revision
  BY DEF PollReturns, PollOk, PollFindsError, PollRaises, PollEnds
<1>3. CASE PollEnds(p, {}) /\ UNCHANGED slowVars
  <2>1. Running' = Running /\ handle' = handle
    BY <1>3 DEF slowVars, taskVars, Running
  <2>2. WaitsInv'
    BY <1>1, <1>2, <1>3, <2>1 DEF TasksInv, WaitsInv
  <2> QED BY <1>2, <2>1, <2>2 DEF TasksInv, SlowTasksBounded, Hidden, Behind
<1>4. CASE /\ SlowTaskMayStart
           /\ \E t \in Tasks : StartTask(t, due, revision) /\ PollEnds(p, {t})
  <2>1. PICK t \in Tasks : StartTask(t, due, revision) /\ PollEnds(p, {t})
    BY <1>4
  <2>2. handle = NoTask /\ due # {}
    BY <1>4 DEF SlowTaskMayStart
  <2>3. /\ t \notin Running /\ handle' = t /\ Running' = Running \cup {t} /\ Hidden' = Hidden
    BY <2>1, <2>2, StartIs DEF TasksInv
  <2>4. ASSUME NEW r \in Refreshes
        PROVE  \/ refreshes'[r] = refreshes[r]
               \/ refreshes'[r].st = "polled" /\ refreshes'[r].owed = {t}
    <3> DEFINE S == {t}
    <3>1. S \in SUBSET Tasks /\ PollEnds(p, S)
      BY <2>1
    <3> HIDE DEF S
    <3>2. \/ refreshes'[r] = refreshes[r]
          \/ refreshes'[r].st = "polled" /\ refreshes'[r].owed = S
      BY <1>1, <3>1
    <3> QED BY <3>2 DEF S
  <2>5. WaitsInv'
    BY <1>2, <2>3, <2>4 DEF TasksInv, WaitsInv
  <2> QED BY <1>2, <2>3, <2>5 DEF TasksInv, SlowTasksBounded, Behind
<1> QED BY <1>3, <1>4 DEF PollReturns, PollOk, PollFindsError, PollRaises

\* A container action on its way to the host and back awaits no task.
LEMMA ActionOnTheWayKeeps ==
  ASSUME TypeOK, TasksInv, NEW a \in Calls,
         \/ \E c \in Containers, run \in BOOLEAN : ActionCalled(a, c, run)
         \/ ActionTakesEffect(a) \/ ActionFails(a)
  PROVE  TasksInv'
<1>1. calls[a].st \in {"idle", "remote", "replied"} /\ calls \in [Calls -> CallType]
  BY DEF ActionCalled, ActionTakesEffect, ActionFails, OnTheHost, TypeOK
<1>2. UNCHANGED <<todo, handle, refreshes, revision>>
  BY DEF ActionCalled, ActionTakesEffect, ActionFails, slowVars, taskVars, dataVars
<1>3. /\ calls'[a].st \in {"idle", "remote", "replied"}
      /\ \A b \in Calls \ {a} : calls'[b] = calls[b]
  <2>1. CASE \E c \in Containers, run \in BOOLEAN : ActionCalled(a, c, run)
    <3>1. PICK c \in Containers, run \in BOOLEAN :
            calls' = [calls EXCEPT ![a] = [IdleCall EXCEPT !.st = "remote", !.c = c, !.run = run]]
      BY <2>1 DEF ActionCalled
    <3>2. [IdleCall EXCEPT !.st = "remote", !.c = c, !.run = run].st = "remote"
      BY DEF IdleCall
    <3> QED BY <1>1, <3>1, <3>2
  <2>2. CASE ActionTakesEffect(a)
    BY <1>1, <2>2 DEF ActionTakesEffect, CallType
  <2>3. CASE ActionFails(a)
    BY <1>1, <2>3 DEF ActionFails, IdleCall
  <2> QED BY <2>1, <2>2, <2>3
<1>4. Running' = Running /\ Hidden' = Hidden
  BY <1>2 DEF Running, Hidden
<1>5. Behind' = Behind
  BY <1>1, <1>3 DEF Behind
<1>6. WaitsInv'
  BY <1>2, <1>3, <1>4 DEF TasksInv, WaitsInv
<1> QED BY <1>2, <1>4, <1>5, <1>6 DEF TasksInv, SlowTasksBounded

\* The docker task of an action hides the task that is in the handle, if any.
LEMMA RequestIs ==
  ASSUME TypeOK, WaitsInv, RequestDockerTask
  PROVE  /\ handle' \notin Running /\ handle' # NoTask
         /\ Running' = Running \cup {handle'}
         /\ Hidden' = IF handle = NoTask THEN Hidden ELSE Hidden \cup {handle}
<1>1. PICK t \in Tasks : StartTask(t, {"docker"}, revision')
  BY DEF RequestDockerTask
<1> DEFINE S == {"docker"}
           n == revision'
<1>2. S # {} /\ StartTask(t, S, n)
  BY <1>1
<1> HIDE DEF S, n
<1> QED BY <1>2, StartIs

\* An action that succeeds raises the revision; it starts its task if it finds
\* none, else it waits for the one it finds.
LEMMA ActionSucceedsKeeps ==
  ASSUME TypeOK, TasksInv, NEW a \in Calls, ActionSucceeds(a)
  PROVE  TasksInv'
<1>1. /\ calls[a].st = "replied" /\ calls \in [Calls -> CallType]
      /\ revision \in Nat /\ revision' = revision + 1 /\ refreshes' = refreshes
  BY DEF ActionSucceeds, ApplyAction, NextRevision, TypeOK
<1>2. WaitsInv /\ Pile(Hidden, Behind)
  BY TasksInvIs
<1>3. CASE handle = NoTask
  <2>1. RequestDockerTask /\ calls' = [calls EXCEPT ![a] = IdleCall]
    BY <1>3 DEF ActionSucceeds
  <2>2. /\ handle' \notin Running /\ handle' # NoTask
        /\ Running' = Running \cup {handle'} /\ Hidden' = Hidden
    BY <1>2, <1>3, <2>1, RequestIs
  <2>3. calls'[a].st = "idle" /\ \A b \in Calls \ {a} : calls'[b] = calls[b]
    BY <1>1, <2>1 DEF IdleCall
  <2>4. Behind' = Behind
    BY <1>1, <2>3 DEF Behind
  <2>5. WaitsInv'
    BY <1>1, <1>2, <2>2, <2>3 DEF WaitsInv
  <2>6. Cardinality(Hidden) \in Nat /\ Cardinality(Behind) \in Nat
    BY <1>2, FS_CardinalityType DEF Pile
  <2> QED BY <1>1, <1>2, <2>2, <2>4, <2>5, <2>6 DEF Pile, TasksInv, SlowTasksBounded
<1>4. CASE handle # NoTask
  <2>1. /\ calls' = [calls EXCEPT ![a] = [IdleCall EXCEPT !.st = "waiting", !.on = handle]]
        /\ UNCHANGED slowVars
    BY <1>4 DEF ActionSucceeds
  <2>2. Running' = Running /\ handle' = handle /\ Hidden' = Hidden
    BY <2>1 DEF slowVars, taskVars, Running, Hidden
  <2>3. /\ calls'[a].st = "waiting" /\ calls'[a].on = handle
        /\ \A b \in Calls \ {a} : calls'[b] = calls[b]
    BY <1>1, <2>1 DEF IdleCall
  <2>4. Behind' = Behind \cup {a}
    BY <2>3 DEF Behind
  <2>5. WaitsInv'
    BY <1>1, <1>2, <1>4, <2>2, <2>3 DEF WaitsInv
  <2>6. /\ IsFiniteSet(Behind \cup {a})
        /\ Cardinality(Hidden) + Cardinality(Behind \cup {a}) <= revision + 1
    BY <1>1, <1>2, PileWaits
  <2> QED BY <1>1, <1>2, <2>2, <2>4, <2>5, <2>6 DEF Pile, TasksInv, SlowTasksBounded
<1> QED BY <1>3, <1>4

\* A woken action starts its task, whatever the handle holds by now.
LEMMA ActionRefreshesKeeps ==
  ASSUME TypeOK, TasksInv, NEW a \in Calls, ActionRefreshes(a)
  PROVE  TasksInv'
<1>1. /\ calls[a].st = "woken" /\ calls \in [Calls -> CallType]
      /\ revision \in Nat /\ revision' = revision /\ refreshes' = refreshes
      /\ RequestDockerTask /\ calls' = [calls EXCEPT ![a] = IdleCall]
  BY DEF ActionRefreshes, TypeOK
<1>2. WaitsInv /\ Pile(Hidden, Behind)
  BY TasksInvIs
<1>3. /\ handle' \notin Running /\ handle' # NoTask
      /\ Running' = Running \cup {handle'}
      /\ Hidden' = IF handle = NoTask THEN Hidden ELSE Hidden \cup {handle}
  BY <1>1, <1>2, RequestIs
<1>4. calls'[a].st = "idle" /\ \A b \in Calls \ {a} : calls'[b] = calls[b]
  BY <1>1 DEF IdleCall
<1>5. a \in Behind /\ Behind' = Behind \ {a}
  BY <1>1, <1>4 DEF Behind
<1>6. WaitsInv'
  BY <1>1, <1>2, <1>3, <1>4 DEF WaitsInv
<1>7. Pile(Hidden, Behind \ {a}) /\ Pile(Hidden \cup {handle}, Behind \ {a})
  BY <1>1, <1>2, <1>5, PileStarts
<1>8. Pile(Hidden', Behind')
  BY <1>3, <1>5, <1>7
<1> QED BY <1>1, <1>6, <1>8 DEF Pile, TasksInv, SlowTasksBounded

\* A refresh call waits for the task in the handle, or returns if it is empty.
LEMMA RefreshKeeps ==
  ASSUME TypeOK, TasksInv, NEW r \in Refreshes, RefreshCalled(r) \/ RefreshWaits(r)
  PROVE  TasksInv'
<1>1. UNCHANGED <<todo, handle, calls, revision>> /\ refreshes \in [Refreshes -> RefreshType]
  BY DEF RefreshCalled, RefreshWaits, slowVars, taskVars, TypeOK
<1>2. /\ \A q \in Refreshes \ {r} : refreshes'[q] = refreshes[q]
      /\ refreshes'[r].owed = refreshes[r].owed
      /\ \/ refreshes'[r].st \in {"polling", "polled"}
         \/ /\ refreshes'[r].on = handle
            /\ refreshes'[r].st = IF handle # NoTask THEN "waiting" ELSE "idle"
  <2>1. CASE RefreshCalled(r)
    <3>1. \E st \in {"polling", "polled"} : refreshes' = [refreshes EXCEPT ![r].st = st]
      BY <2>1 DEF RefreshCalled
    <3> QED BY <1>1, <3>1 DEF RefreshType
  <2>2. CASE RefreshWaits(r)
    BY <1>1, <2>2 DEF RefreshWaits, Waits, RefreshType
  <2> QED BY <2>1, <2>2
<1>3. Running' = Running /\ Hidden' = Hidden /\ Behind' = Behind /\ Running \subseteq Tasks
  BY <1>1 DEF Running, Hidden, Behind
<1>4. WaitsInv'
  BY <1>1, <1>2, <1>3, CoordinatorAssumption DEF TasksInv, WaitsInv
<1> QED BY <1>1, <1>3, <1>4 DEF TasksInv, SlowTasksBounded

LEMMA TasksStep == TypeOK /\ TasksInv /\ [Next]_vars => TasksInv'
<1> SUFFICES ASSUME TypeOK, TasksInv, [Next]_vars PROVE TasksInv'
  OBVIOUS
<1>1. ASSUME NEW t \in Tasks, CollectorReturns(t) PROVE TasksInv'
  BY <1>1, CollectorKeeps
<1>2. ASSUME NEW p \in Polls \cup {Debounced}, PollReturns(p) PROVE TasksInv'
  BY <1>2, PollKeeps
<1>3. ASSUME NEW a \in Calls,
             \/ \E c \in Containers, run \in BOOLEAN : ActionCalled(a, c, run)
             \/ ActionTakesEffect(a) \/ ActionFails(a)
      PROVE  TasksInv'
  BY <1>3, ActionOnTheWayKeeps
<1>4. ASSUME NEW a \in Calls, ActionSucceeds(a) PROVE TasksInv'
  BY <1>4, ActionSucceedsKeeps
<1>5. ASSUME NEW a \in Calls, ActionRefreshes(a) PROVE TasksInv'
  BY <1>5, ActionRefreshesKeeps
<1>6. ASSUME NEW r \in Refreshes, RefreshCalled(r) \/ RefreshWaits(r) PROVE TasksInv'
  BY <1>6, RefreshKeeps
<1>7. CASE UNCHANGED waitVars
  BY <1>7, StutterKeeps
<1> QED
  <2>1. ASSUME NEW t \in Tasks, NEW c \in Containers, ReadContainer(t, c)
        PROVE  UNCHANGED waitVars
    BY <2>1 DEF ReadContainer, waitVars, callVars
  <2>2. ASSUME NEW p \in Polls, PollStarts(p)
        PROVE  UNCHANGED waitVars
    BY <2>2 DEF PollStarts, waitVars, slowVars, taskVars, callVars
  <2>3. ASSUME NEW k \in Enabled, BecomesDue(k)
        PROVE  UNCHANGED waitVars
    BY <2>3 DEF BecomesDue, waitVars, taskVars, callVars
  <2>4. ASSUME NEW c \in Containers, ContainerChanges(c)
        PROVE  UNCHANGED waitVars
    BY <2>4 DEF ContainerChanges, waitVars, slowVars, taskVars, callVars
  <2>5. CooldownEnds \/ UNCHANGED vars => UNCHANGED waitVars
    BY DEF CooldownEnds, vars, waitVars, slowVars, taskVars, callVars
  <2> QED BY <1>1, <1>2, <1>3, <1>4, <1>5, <1>6, <1>7, <2>1, <2>2, <2>3, <2>4, <2>5
          DEF Next

\* The inductive invariant: at most one slow task more runs than container
\* actions have succeeded, and whoever waits, waits for a task that still runs
\* (_schedule_slow_data, async_request_docker_refresh, async_wait_for_slow_refresh).
THEOREM TasksInOrder == Spec => []TasksInv
BY TasksInit, TasksStep, TypeCorrect, PTL DEF Spec

\* Until the first container action succeeds, no two slow tasks of a host run at
\* once (_schedule_slow_data).
THEOREM OneTaskWithoutActions == Spec => [](revision = 0 => OneSlowTask)
<1>1. TypeOK /\ TasksInv /\ revision = 0 => OneSlowTask
  <2> SUFFICES ASSUME TypeOK, TasksInv, revision = 0 PROVE OneSlowTask
    OBVIOUS
  <2>1. Cardinality(Hidden) \in Nat /\ Cardinality(Behind) \in Nat
    BY FS_CardinalityType DEF TasksInv
  <2>2. Cardinality(Hidden) = 0
    BY <2>1 DEF TasksInv, SlowTasksBounded
  <2>3. Hidden = {}
    BY <2>2, FS_EmptySet DEF TasksInv
  <2> QED BY <2>3 DEF Hidden, Running, OneSlowTask
<1> QED BY <1>1, TasksInOrder, TypeCorrect, PTL

\* Until the first container action succeeds, a refresh call that has returned
\* has seen the end of the task that its poll started
\* (tests/test_refresh_waits_for_docker.py).
THEOREM RefreshSeesItsTask == Spec => [](revision = 0 => RefreshWaitsForItsTask)
<1>1. TasksInv /\ OneSlowTask => RefreshWaitsForItsTask
  <2> SUFFICES ASSUME TasksInv, OneSlowTask, NEW r \in Refreshes, refreshes[r].st = "idle"
               PROVE  refreshes[r].owed = {}
    BY DEF RefreshWaitsForItsTask
  <2>1. refreshes[r].owed \subseteq Running /\ handle \notin refreshes[r].owed
    BY DEF TasksInv, WaitsInv
  <2>2. Running \subseteq {handle}
    BY DEF OneSlowTask, Running
  <2> QED BY <2>1, <2>2
<1> QED BY <1>1, TasksInOrder, OneTaskWithoutActions, PTL

\* Only container actions raise the revision.
LEMMA RevisionStays ==
  ASSUME Calls = {}
  PROVE  Spec => [](revision = 0)
<1>1. Init => revision = 0
  BY DEF Init
<1>2. revision = 0 /\ [Next]_vars => (revision = 0)'
  <2> SUFFICES ASSUME [Next]_vars PROVE revision' = revision
    OBVIOUS
  <2>1. ASSUME NEW t \in Tasks, CollectorReturns(t) \/ \E c \in Containers : ReadContainer(t, c)
        PROVE  revision' = revision
    BY <2>1 DEF CollectorReturns, DiscardSample, PublishContainers, PublishOther, ReadContainer
  <2>2. ASSUME NEW p \in Polls \cup {Debounced}, PollReturns(p) PROVE revision' = revision
    BY <2>2 DEF PollReturns, PollOk, PollFindsError, PollRaises, PollEnds
  <2>3. ASSUME NEW r \in Refreshes, RefreshCalled(r) \/ RefreshWaits(r)
        PROVE  revision' = revision
    BY <2>3 DEF RefreshCalled, RefreshWaits
  <2>4. ASSUME NEW p \in Polls, PollStarts(p) PROVE revision' = revision
    BY <2>4 DEF PollStarts
  <2>5. ASSUME NEW k \in Enabled, BecomesDue(k) PROVE revision' = revision
    BY <2>5 DEF BecomesDue
  <2>6. ASSUME NEW c \in Containers, ContainerChanges(c) PROVE revision' = revision
    BY <2>6 DEF ContainerChanges
  <2>7. CooldownEnds \/ UNCHANGED vars => revision' = revision
    BY DEF CooldownEnds, vars
  <2> QED BY <2>1, <2>2, <2>3, <2>4, <2>5, <2>6, <2>7 DEF Next
<1> QED BY <1>1, <1>2, PTL DEF Spec

\* Without container actions the refresh service returns after the task its poll
\* started, always (async_wait_for_slow_refresh).
THEOREM RefreshWaitsWithoutActions ==
  ASSUME Calls = {}
  PROVE  Spec => []RefreshWaitsForItsTask
BY RevisionStays, RefreshSeesItsTask, PTL

-----------------------------------------------------------------------------
(* The safety half of liveness *)

\* What one step does to those who wait (WaitsEndWithTheirTask).
Awaits ==
  /\ \A a \in Calls : calls[a].st = "waiting" =>
       IF calls[a].on \in Running' THEN calls'[a] = calls[a]
       ELSE calls'[a].st = "woken"
  /\ \A r \in Refreshes : refreshes[r].st = "waiting" =>
       IF refreshes[r].on \in Running'
       THEN refreshes'[r].st = "waiting" /\ refreshes'[r].on = refreshes[r].on
       ELSE refreshes'[r].st = "idle"

\* A collector that returns is taken from what its task has left.
LEMMA ReturnTakes ==
  ASSUME TypeOK, NEW t \in Tasks, CollectorReturns(t)
  PROVE  /\ todo'[t] \subseteq todo[t] /\ todo'[t] # todo[t]
         /\ \A u \in Tasks \ {t} : todo'[u] = todo[u]
<1>1. /\ todo[t] # {} /\ Advance(t) /\ todo[t] \subseteq Collectors
      /\ todo \in [Tasks -> SUBSET Collectors]
  BY DEF CollectorReturns, DiscardSample, PublishContainers, PublishOther, TypeOK
<1>2. First(todo[t]) \in todo[t]
  BY <1>1 DEF First, Collectors
<1>3. todo' = [todo EXCEPT ![t] = todo[t] \ {First(todo[t])}]
  BY <1>1 DEF Advance
<1> QED BY <1>1, <1>2, <1>3

\* The end of a task wakes those who wait for it, and only them.
LEMMA ReturnWakes ==
  ASSUME TypeOK, TasksInv, NEW t \in Tasks, CollectorReturns(t)
  PROVE  Awaits
<1>1. todo[t] # {} /\ Advance(t)
  BY DEF CollectorReturns, DiscardSample, PublishContainers, PublishOther
<1>2. /\ \A a \in Calls : calls[a].st = "waiting" => calls[a].on \in Running
      /\ \A r \in Refreshes : refreshes[r].st = "waiting" => refreshes[r].on \in Running
  BY DEF TasksInv, WaitsInv
<1>3. CASE Running' = Running /\ UNCHANGED <<handle, callVars>>
  BY <1>2, <1>3 DEF Awaits, callVars
<1>4. CASE Running' = Running \ {t} /\ WakeActions(t) /\ WakeRefreshes(t)
  <2>1. ASSUME NEW a \in Calls, calls[a].st = "waiting"
        PROVE  IF calls[a].on \in Running' THEN calls'[a] = calls[a]
               ELSE calls'[a].st = "woken"
    <3>1. calls[a] \in CallType
      BY DEF TypeOK
    <3>2. CASE calls[a].on = t
      <4>1. calls'[a] = [calls[a] EXCEPT !.st = "woken", !.on = NoTask]
        BY <1>4, <2>1, <3>2 DEF WakeActions
      <4>2. calls'[a].st = "woken"
        BY <3>1, <4>1 DEF CallType
      <4> QED BY <1>4, <3>2, <4>2
    <3>3. CASE calls[a].on # t
      <4>1. calls'[a] = calls[a]
        BY <1>4, <3>3 DEF WakeActions
      <4> QED BY <1>2, <1>4, <2>1, <3>3, <4>1
    <3> QED BY <3>2, <3>3
  <2>2. ASSUME NEW r \in Refreshes, refreshes[r].st = "waiting"
        PROVE  IF refreshes[r].on \in Running'
               THEN refreshes'[r].st = "waiting" /\ refreshes'[r].on = refreshes[r].on
               ELSE refreshes'[r].st = "idle"
    <3>1. refreshes[r] \in RefreshType
      BY DEF TypeOK
    <3>2. CASE refreshes[r].on = t
      <4>1. refreshes'[r] = [st |-> "idle", on |-> NoTask, owed |-> refreshes[r].owed \ {t}]
        BY <1>4, <2>2, <3>2 DEF WakeRefreshes
      <4> QED BY <1>4, <3>2, <4>1
    <3>3. CASE refreshes[r].on # t
      <4>1. refreshes'[r] = [refreshes[r] EXCEPT !.owed = @ \ {t}]
        BY <1>4, <3>3 DEF WakeRefreshes
      <4>2. refreshes'[r].st = refreshes[r].st /\ refreshes'[r].on = refreshes[r].on
        BY <3>1, <4>1 DEF RefreshType
      <4> QED BY <1>2, <1>4, <2>2, <3>3, <4>2
    <3> QED BY <3>2, <3>3
  <2> QED BY <2>1, <2>2 DEF Awaits
<1> QED BY <1>1, <1>3, <1>4, AdvanceIs

\* All other steps leave those alone who wait, and the tasks that run.
LEMMA OthersWait ==
  ASSUME TypeOK, TasksInv, [Next]_vars, \A t \in Tasks : ~ CollectorReturns(t)
  PROVE  Awaits /\ \A t \in Running : todo'[t] = todo[t]
<1>1. /\ \A a \in Calls : calls[a].st = "waiting" => calls[a].on \in Running
      /\ \A r \in Refreshes : refreshes[r].st = "waiting" => refreshes[r].on \in Running
      /\ calls \in [Calls -> CallType] /\ refreshes \in [Refreshes -> RefreshType]
      /\ todo \in [Tasks -> SUBSET Collectors]
  BY DEF TasksInv, WaitsInv, TypeOK
<1>2. SUFFICES /\ \A t \in Running : todo'[t] = todo[t]
               /\ \A a \in Calls : calls[a].st = "waiting" => calls'[a] = calls[a]
               /\ \A r \in Refreshes : refreshes[r].st = "waiting" => refreshes'[r] = refreshes[r]
  <2>1. ASSUME \A t \in Running : todo'[t] = todo[t]
        PROVE  Running \subseteq Running'
    BY <2>1 DEF Running
  <2> QED BY <1>1, <2>1 DEF Awaits
<1>3. ASSUME NEW t \in Tasks, NEW S, NEW n, StartTask(t, S, n)
      PROVE  \A u \in Running : todo'[u] = todo[u]
  BY <1>1, <1>3 DEF StartTask, Running
<1>4. ASSUME NEW p \in Polls \cup {Debounced}, PollReturns(p)
      PROVE  /\ \A t \in Running : todo'[t] = todo[t]
             /\ \A r \in Refreshes : refreshes[r].st = "waiting" => refreshes'[r] = refreshes[r]
             /\ calls' = calls
  <2>1. \E S \in SUBSET Tasks : PollEnds(p, S)
    BY <1>4 DEF PollReturns, PollOk, PollFindsError, PollRaises
  <2>2. /\ calls' = calls
        /\ \A r \in Refreshes : refreshes[r].st = "waiting" => refreshes'[r] = refreshes[r]
    BY <2>1 DEF PollEnds
  <2>3. \/ UNCHANGED slowVars
        \/ \E t \in Tasks : StartTask(t, due, revision)
    BY <1>4 DEF PollReturns, PollOk, PollFindsError, PollRaises
  <2>4. UNCHANGED slowVars => todo' = todo
    BY DEF slowVars, taskVars
  <2> QED BY <1>3, <2>2, <2>3, <2>4
<1>5. ASSUME NEW a \in Calls,
             \/ \E c \in Containers, run \in BOOLEAN : ActionCalled(a, c, run)
             \/ ActionTakesEffect(a) \/ ActionFails(a) \/ ActionSucceeds(a)
             \/ ActionRefreshes(a)
      PROVE  /\ \A t \in Running : todo'[t] = todo[t]
             /\ refreshes' = refreshes
             /\ \A b \in Calls : calls[b].st = "waiting" => calls'[b] = calls[b]
  <2>1. calls[a].st # "waiting" /\ refreshes' = refreshes
    BY <1>5 DEF ActionCalled, ActionTakesEffect, ActionFails, ActionSucceeds,
                ActionRefreshes, OnTheHost
  <2>2. \A b \in Calls \ {a} : calls'[b] = calls[b]
    BY <1>1, <1>5 DEF ActionCalled, ActionTakesEffect, ActionFails, ActionSucceeds,
                      ActionRefreshes
  <2>3. RequestDockerTask \/ todo' = todo
    BY <1>5 DEF ActionCalled, ActionTakesEffect, ActionFails, ActionSucceeds,
                ActionRefreshes, slowVars, taskVars
  <2>4. RequestDockerTask => \A t \in Running : todo'[t] = todo[t]
    BY <1>3 DEF RequestDockerTask
  <2> QED BY <2>1, <2>2, <2>3, <2>4
<1>6. ASSUME NEW r \in Refreshes, RefreshCalled(r) \/ RefreshWaits(r)
      PROVE  /\ UNCHANGED <<todo, calls>>
             /\ \A q \in Refreshes : refreshes[q].st = "waiting" => refreshes'[q] = refreshes[q]
  BY <1>1, <1>6 DEF RefreshCalled, RefreshWaits, slowVars, taskVars
<1>7. ASSUME NEW t \in Tasks, NEW c \in Containers, ReadContainer(t, c)
      PROVE  UNCHANGED <<todo, calls, refreshes>>
  BY <1>7 DEF ReadContainer, callVars
<1>8. ASSUME NEW p \in Polls, PollStarts(p) PROVE UNCHANGED <<todo, calls, refreshes>>
  BY <1>8 DEF PollStarts, slowVars, taskVars, callVars
<1>9. ASSUME NEW k \in Enabled, BecomesDue(k) PROVE UNCHANGED <<todo, calls, refreshes>>
  BY <1>9 DEF BecomesDue, taskVars, callVars
<1>10. ASSUME NEW c \in Containers, ContainerChanges(c)
       PROVE  UNCHANGED <<todo, calls, refreshes>>
  BY <1>10 DEF ContainerChanges, slowVars, taskVars, callVars
<1>11. CooldownEnds \/ UNCHANGED vars => UNCHANGED <<todo, calls, refreshes>>
  BY DEF CooldownEnds, vars, slowVars, taskVars, callVars
<1> QED BY <1>4, <1>5, <1>6, <1>7, <1>8, <1>9, <1>10, <1>11 DEF Next

\* Who waits for a slow task goes on at its end, neither before nor later, and
\* every return of a collector brings that end nearer (_async_update_slow_data,
\* async_wait_for_slow_refresh).
THEOREM WaitsEnd == Spec => WaitsEndWithTheirTask
<1> DEFINE Shrinks == \A t \in Running : /\ todo'[t] \subseteq todo[t]
                                         /\ CollectorReturns(t) => todo'[t] # todo[t]
<1>1. ASSUME TypeOK, TasksInv, [Next]_vars PROVE Shrinks /\ Awaits
  <2>1. Running \subseteq Tasks
    BY DEF Running
  <2>2. CASE \E t \in Tasks : CollectorReturns(t)
    <3>1. PICK t \in Tasks : CollectorReturns(t)
      BY <2>2
    <3>2. Awaits
      BY <1>1, <3>1, ReturnWakes
    <3>3. /\ todo'[t] \subseteq todo[t] /\ \A u \in Tasks \ {t} : todo'[u] = todo[u]
          /\ \A u \in Tasks : CollectorReturns(u) => todo'[u] # todo[u]
      BY <1>1, <3>1, ReturnTakes
    <3> QED BY <2>1, <3>2, <3>3
  <2>3. CASE \A t \in Tasks : ~ CollectorReturns(t)
    BY <1>1, <2>1, <2>3, OthersWait
  <2> QED BY <2>2, <2>3
<1>2. TypeOK /\ TasksInv /\ [Next]_vars => [Shrinks /\ Awaits]_vars
  BY <1>1
<1> QED BY <1>2, TypeCorrect, TasksInOrder, PTL DEF Spec, WaitsEndWithTheirTask, Awaits

=============================================================================
