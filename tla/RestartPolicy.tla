--------------------------- MODULE RestartPolicy ---------------------------
(***************************************************************************)
(* The restart policy of one container under the container actions         *)
(* (handle_docker_container_action and _build_docker_container_commands in *)
(* __init__.py).  A stop turns the policy off on the host and remembers it *)
(* in Home Assistant, a start restores it and forgets it.  What is         *)
(* remembered is its name: a retry limit (on-failure:5) does not come back *)
(* from docker inspect --format and docker update --restart.  The remote   *)
(* command is a script of several docker calls, tried with docker and then *)
(* with sudo docker (_exec_ssh_with_fallback), and other actions, the      *)
(* owner of the container, and restarts of Home Assistant come in between. *)
(* What an action does to the coordinator is in module Coordinator.        *)
(*                                                                         *)
(* A session that breaks leaves its script on the host, where it may go on *)
(* unobserved.  Whether the container runs anybody may change at any time. *)
(* Definitions marked faulty are as in Coordinator.                        *)
(***************************************************************************)
EXTENDS Naturals

CONSTANTS
  Names,      \* names of docker's restart policies other than "no"
  Limits,     \* retry limits of "on-failure"; 0 is none
  NoPolicy,   \* no name remembered, captured or printed
  Actions     \* bound of the model: actions in flight at a time

AllNames == Names \cup {"no"}

\* RestartPolicy of docker's HostConfig: Name ("" counts as "no") and
\* MaximumRetryCount.
AllPolicies ==
  {p \in [name : AllNames, retries : Limits \cup {0}] :
     p.name # "on-failure" => p.retries = 0}

\* docker update --restart=name
Named(name) == [name |-> name, retries |-> 0]

ASSUME RestartAssumption == NoPolicy \notin AllNames /\ Limits \subseteq Nat \ {0}

VARIABLES
  running,    \* the container runs
  policy,     \* its restart policy on the host
  store,      \* docker_restart_policies[policy_key], a name
  act,        \* the actions
  left,       \* names that scripts left behind on the host may yet set
  own,        \* history: the policy the container's owner gave it
  turnedOff,  \* history: a stop has turned that policy off since
  mishap      \* history: the first event that may cost it its policy

hist == <<own, turnedOff>>
vars == <<running, policy, store, act, left, hist, mishap>>

Idle == [st |-> "idle", kind |-> "stop", tool |-> "docker", restore |-> NoPolicy,
         prev |-> NoPolicy, out |-> NoPolicy, ok |-> FALSE]

Init ==
  /\ running \in BOOLEAN
  /\ policy \in AllPolicies
  /\ own = policy /\ turnedOff = FALSE
  /\ store = NoPolicy
  /\ act = [a \in Actions |-> Idle]
  /\ left = {}
  /\ mishap = "none"

Busy(a) == act[a].st # "idle"
OnTheHost(a) == act[a].st \notin {"idle", "replied"}
InFlight == \E a \in Actions : Busy(a)
Mishap(condition, name) ==
  mishap' = IF condition /\ mishap = "none" THEN name ELSE mishap

GoesTo(a, st) == act' = [act EXCEPT ![a].st = st]

\* The command ends, and with it what its script knows: with status 0, or
\* otherwise, when the next one in the list is tried from the start.  Only the
\* last one's output is returned.
Replied(a, out) ==
  [act[a] EXCEPT !.st = "replied", !.prev = NoPolicy, !.out = out]

Succeeds(a, out) ==
  act' = [act EXCEPT ![a] = [Replied(a, out) EXCEPT !.ok = TRUE]]

Fails(a, out) ==
  IF act[a].tool = "docker"
  THEN act' = [act EXCEPT ![a].st = "begin", ![a].tool = "sudo", ![a].prev = NoPolicy]
  ELSE act' = [act EXCEPT ![a] = Replied(a, out)]

-----------------------------------------------------------------------------
(* handle_docker_container_action up to its await *)

ToRestore(kind) == IF kind = "start" THEN store ELSE NoPolicy

\* A stop overlaps a start or another stop.  Restarts, and starts among
\* themselves, do no harm.
Interferes(kind) ==
  \E b \in Actions : /\ Busy(b)
                    /\ "stop" \in {kind, act[b].kind}
                    /\ "restart" \notin {kind, act[b].kind}

ActionCalled(a, kind) ==
  /\ ~ Busy(a)
  /\ act' = [act EXCEPT ![a] = [Idle EXCEPT !.st = "begin", !.kind = kind,
                                            !.restore = ToRestore(kind)]]
  /\ Mishap(Interferes(kind) \/ (kind = "stop" /\ policy.name # own.name),
            IF Interferes(kind) THEN "overlap" ELSE "stopped twice")
  /\ UNCHANGED <<running, policy, store, left, hist>>

-----------------------------------------------------------------------------
(* The stop command *)

\* The name of the policy is read, and the compose service that owns the
\* container, if there is one, is stopped.
ReadPolicy(a) ==
  /\ act[a].st = "begin" /\ act[a].kind = "stop"
  /\ act' = [act EXCEPT ![a].st = "update", ![a].prev = policy.name]
  /\ running' \in {running, FALSE}
  /\ UNCHANGED <<policy, store, left, hist, mishap>>

KeepPolicy(a) == UNCHANGED policy  \* faulty
ClearPolicy(a) == policy' = IF act[a].prev = "no" THEN policy ELSE Named("no")

UpdatePolicy(a) ==
  /\ act[a].st = "update"
  /\ ClearPolicy(a)
  /\ turnedOff' = (turnedOff \/ act[a].prev # "no")
  /\ GoesTo(a, "halt")
  /\ UNCHANGED <<running, store, left, own, mishap>>

Halt(a) ==
  /\ act[a].st = "halt"
  /\ running' = FALSE
  /\ GoesTo(a, "confirm")
  /\ UNCHANGED <<policy, store, left, hist, mishap>>

\* Seen stopped often enough, the script prints the policy it read.
ConfirmStopped(a) ==
  /\ act[a].st = "confirm"
  /\ ~ running
  /\ Succeeds(a, act[a].prev)
  /\ UNCHANGED <<running, policy, store, left, hist, mishap>>

StopAgain(a) ==
  /\ act[a].st = "confirm"
  /\ running
  /\ running' = FALSE
  /\ UNCHANGED <<policy, store, act, left, hist, mishap>>

\* Ten checks did not find it stopped twice in a row: the policy is printed,
\* the status is not 0.
NotStopped(a) ==
  /\ act[a].st = "confirm"
  /\ Fails(a, act[a].prev)
  /\ Mishap(act[a].tool = "docker" /\ act[a].prev # "no", "failed stop")
  /\ UNCHANGED <<running, policy, store, left, hist>>

-----------------------------------------------------------------------------
(* The start and restart commands *)

StartContainer(a) ==
  /\ act[a].st = "begin" /\ act[a].kind # "stop"
  /\ running' = TRUE
  /\ GoesTo(a, "verify")
  /\ UNCHANGED <<policy, store, left, hist, mishap>>

HasPolicyAnyway(a) == act[a].kind = "start"  \* faulty
HasPolicy(a) == act[a].restore # NoPolicy

VerifyRunning(a) ==
  /\ act[a].st = "verify"
  /\ running
  /\ IF HasPolicy(a) THEN GoesTo(a, "restore") ELSE Succeeds(a, NoPolicy)
  /\ UNCHANGED <<running, policy, store, left, hist, mishap>>

RestorePolicy(a) ==
  /\ act[a].st = "restore"
  /\ policy' = Named(act[a].restore)
  /\ Succeeds(a, NoPolicy)
  /\ UNCHANGED <<running, store, left, hist, mishap>>

-----------------------------------------------------------------------------
(* Failures, and the end of an action *)

\* This command has turned the policy off and not yet printed what it was.
PolicyUnprinted(a) == act[a].st \in {"halt", "confirm"} /\ act[a].prev # "no"

\* One docker call of the script fails: nothing is printed.
CommandFails(a) ==
  /\ OnTheHost(a)
  /\ Fails(a, NoPolicy)
  /\ Mishap(PolicyUnprinted(a), "failed stop")
  /\ UNCHANGED <<running, policy, store, left, hist>>

\* No session, and no script.
ConnectFails(a) ==
  /\ act[a].st = "begin" /\ act[a].tool = "docker"
  /\ act' = [act EXCEPT ![a] = Replied(a, NoPolicy)]
  /\ UNCHANGED <<running, policy, store, left, hist, mishap>>

\* What the script of an action has still to do to the policy.
MayYetSet(a) ==
  IF act[a].kind = "stop"
  THEN IF act[a].st \in {"begin", "update"} THEN {"no"} ELSE {}
  ELSE IF OnTheHost(a) THEN {act[a].restore} \ {NoPolicy} ELSE {}

\* The session fails or its timeout expires: the exception is the output.
SessionBreaks(a) ==
  /\ OnTheHost(a)
  /\ act' = [act EXCEPT ![a] = Replied(a, NoPolicy)]
  /\ left' = left \cup MayYetSet(a)
  /\ Mishap(PolicyUnprinted(a) \/ MayYetSet(a) # {}, "broken session")
  /\ UNCHANGED <<running, policy, store, hist>>

\* The policy that a stop printed is remembered whether or not it succeeded;
\* a start that succeeded has restored what was remembered.
RemembersIfStopped(a) ==  \* faulty
  store' = IF act[a].kind = "stop" /\ act[a].ok THEN act[a].out
           ELSE IF act[a].kind = "start" /\ act[a].ok THEN NoPolicy ELSE store
ForgetsAlways(a) ==  \* faulty
  store' = IF act[a].kind = "stop" /\ act[a].out # NoPolicy THEN act[a].out
           ELSE IF act[a].kind = "start" THEN NoPolicy ELSE store
Remember(a) ==
  store' = IF act[a].kind = "stop" /\ act[a].out # NoPolicy THEN act[a].out
           ELSE IF act[a].kind = "start" /\ act[a].ok THEN NoPolicy ELSE store

ActionEnds(a) ==
  /\ act[a].st = "replied"
  /\ Remember(a)
  /\ act' = [act EXCEPT ![a] = Idle]
  /\ UNCHANGED <<running, policy, left, hist, mishap>>

-----------------------------------------------------------------------------
(* Everybody else *)

OwnerSetsPolicy(p) ==
  /\ policy' = p
  /\ own' = p /\ turnedOff' = FALSE
  /\ Mishap(InFlight \/ store # NoPolicy, "changed by owner")
  /\ UNCHANGED <<running, store, act, left>>

OwnerStartsOrStops ==
  /\ running' = ~ running
  /\ UNCHANGED <<policy, store, act, left, hist, mishap>>

\* A script that nobody waits for.
LeftScriptSets(name) ==
  /\ policy' = Named(name)
  /\ left' = left \ {name}
  /\ UNCHANGED <<running, store, act, hist, mishap>>

\* hass.data is gone, and with it the calls.
HomeAssistantRestarts ==
  /\ store' = NoPolicy
  /\ act' = [a \in Actions |-> Idle]
  /\ left' = left \cup UNION {MayYetSet(a) : a \in Actions}
  /\ Mishap(InFlight \/ store # NoPolicy, "restart")
  /\ UNCHANGED <<running, policy, hist>>

StopSteps(a) == \/ ReadPolicy(a) \/ UpdatePolicy(a) \/ Halt(a) \/ ConfirmStopped(a)
                \/ StopAgain(a) \/ NotStopped(a)
StartSteps(a) == StartContainer(a) \/ VerifyRunning(a) \/ RestorePolicy(a)

Next ==
  \/ \E a \in Actions :
       \/ \E kind \in {"start", "stop", "restart"} : ActionCalled(a, kind)
       \/ StopSteps(a) \/ StartSteps(a)
       \/ CommandFails(a) \/ ConnectFails(a) \/ SessionBreaks(a) \/ ActionEnds(a)
  \/ \E p \in AllPolicies : OwnerSetsPolicy(p)
  \/ OwnerStartsOrStops
  \/ \E name \in left : LeftScriptSets(name)
  \/ HomeAssistantRestarts

Spec == Init /\ [][Next]_vars

-----------------------------------------------------------------------------

ActionFields ==
  [st : {"idle", "begin", "update", "halt", "confirm", "verify", "restore", "replied"},
   kind : {"start", "stop", "restart"}, tool : {"docker", "sudo"},
   restore : AllNames \cup {NoPolicy}, prev : AllNames \cup {NoPolicy},
   out : AllNames \cup {NoPolicy}, ok : BOOLEAN]

\* There is no policy to restore unless one was remembered.
ActionType == {r \in ActionFields : r.st = "restore" => r.restore # NoPolicy}

TypeOK ==
  /\ running \in BOOLEAN
  /\ policy \in AllPolicies /\ own \in AllPolicies /\ turnedOff \in BOOLEAN
  /\ store \in AllNames \cup {NoPolicy}
  /\ act \in [Actions -> ActionType]
  /\ left \subseteq AllNames
  /\ mishap \in {"none", "overlap", "stopped twice", "failed stop", "broken session",
                 "changed by owner", "restart"}

\* What there is to keep of the owner's policy: all of it until a stop has
\* turned it off, and then its name.
Kept == IF turnedOff THEN Named(own.name) ELSE own

\* The action knows the name of the owner's policy: its script has read it and
\* not yet ended, or it has printed it.
Carries(a) ==
  /\ act[a].kind = "stop"
  /\ \/ act[a].st \in {"halt", "confirm"} /\ act[a].prev = own.name
     \/ act[a].st = "replied" /\ act[a].out = own.name

Known == policy = Kept \/ store = own.name \/ \E a \in Actions : Carries(a)

\* The owner's restart policy is never lost but for its retry limit, which a
\* stop costs it, or for a known mishap: it is on the container, or its name is
\* remembered or carried by a stop under way, also when commands fail, fall
\* back to sudo, or find no session (handle_docker_container_action,
\* _exec_ssh_with_fallback).
PolicyIsRemembered == mishap = "none" => Known

\* A start that is reported successful has given the container back the policy
\* its owner chose, however many starts failed before it: the very policy if
\* no stop has turned it off since, and otherwise the one of its name, which is
\* the same unless it had a retry limit.
StartRestores ==
  mishap = "none" => \A a \in Actions :
    act[a].st = "replied" /\ act[a].kind = "start" /\ act[a].ok => policy = Kept

\* A stop that is reported successful has left a container that docker does
\* not start again by itself.
StopHolds ==
  mishap = "none" => \A a \in Actions :
    act[a].st = "replied" /\ act[a].kind = "stop" /\ act[a].ok => policy = Named("no")

\* Why they hold, as an inductive invariant: while nothing went wrong a stop
\* has start and stop to itself; from its first docker call on it knows the
\* name of the owner's policy or has not touched it; what is remembered, or
\* captured by a start, is this name, and there is no more to keep than the
\* name then.
NameIsAll == Kept = Named(own.name)

StopInv(a) ==
  /\ act[a].st \in {"begin", "update"} => policy = Kept
  /\ act[a].st \in {"update", "halt", "confirm"} => act[a].prev = own.name
  /\ act[a].st \in {"halt", "confirm"} => policy = Named("no") /\ NameIsAll
  /\ act[a].st = "replied" /\ act[a].ok => act[a].out = own.name /\ policy = Named("no")
  /\ act[a].st = "replied" => \/ act[a].out = own.name /\ NameIsAll
                              \/ act[a].out = NoPolicy /\ policy = Kept
  /\ act[a].st \notin {"verify", "restore"}

StartInv(a) ==
  /\ act[a].restore \in {own.name, NoPolicy}
  /\ act[a].restore = NoPolicy => policy = Kept
  /\ act[a].restore # NoPolicy => NameIsAll
  /\ act[a].st = "restore" => act[a].restore = own.name
  /\ act[a].st = "replied" /\ act[a].ok => policy = Kept
  /\ act[a].st \notin {"update", "halt", "confirm"}

RestartInv(a) ==
  act[a].st \in {"begin", "verify", "replied"} /\ act[a].restore = NoPolicy

ActInv(a) ==
  Busy(a) => /\ act[a].ok => act[a].st = "replied"
             /\ act[a].kind = "stop" => StopInv(a)
             /\ act[a].kind = "start" => StartInv(a)
             /\ act[a].kind = "restart" => RestartInv(a)

StopsAlone ==
  \A a, b \in Actions :
    a # b /\ Busy(a) /\ Busy(b) /\ act[a].kind = "stop" => act[b].kind = "restart"

Undisturbed ==
  /\ Known
  /\ policy \in {Kept, Named("no")}
  /\ store \in {own.name, NoPolicy}
  /\ store # NoPolicy => NameIsAll
  /\ left = {}
  /\ StopsAlone
  /\ \A a \in Actions : ActInv(a)

PolicyInv == mishap = "none" => Undisturbed

=============================================================================
