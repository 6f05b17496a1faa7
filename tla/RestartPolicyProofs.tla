------------------------ MODULE RestartPolicyProofs ------------------------
(***************************************************************************)
(* What holds of the restart policy of a container for any number of       *)
(* actions in flight, any names of policies and any retry limits.          *)
(***************************************************************************)
EXTENDS RestartPolicy, TLAPS

USE DEF AllNames, hist

-----------------------------------------------------------------------------
(* Types *)

\* docker update --restart with a name leaves a policy on the container, and
\* one without a retry limit.
LEMMA NamedType ==
  /\ \A name \in AllNames : Named(name) \in AllPolicies
  /\ \A p \in AllPolicies : p.name \in AllNames /\ (p.name = "no" => p = Named("no"))
<1>1. \A name \in AllNames : Named(name) \in AllPolicies
  BY RestartAssumption DEF Named, AllPolicies
<1>2. ASSUME NEW p \in AllPolicies
      PROVE  p.name \in AllNames /\ (p.name = "no" => p = Named("no"))
  <2>1. p \in [name : AllNames, retries : Limits \cup {0}]
        /\ (p.name # "on-failure" => p.retries = 0)
    BY DEF AllPolicies
  <2> QED BY <2>1 DEF Named
<1> QED BY <1>1, <1>2

\* No action is under way in a Home Assistant that has just started.
LEMMA IdleType == Idle \in ActionType
BY DEF Idle, ActionType, ActionFields

\* The history of mishaps keeps its type.
LEMMA MishapType ==
  ASSUME mishap \in {"none", "overlap", "stopped twice", "failed stop",
                     "broken session", "changed by owner", "restart"},
         NEW condition,
         NEW name \in {"overlap", "stopped twice", "failed stop",
                       "broken session", "changed by owner", "restart"},
         Mishap(condition, name)
  PROVE  mishap' \in {"none", "overlap", "stopped twice", "failed stop",
                      "broken session", "changed by owner", "restart"}
BY DEF Mishap

\* An action that goes on to its next step stays well-formed.
LEMMA GoesToType ==
  ASSUME TypeOK, NEW a \in Actions,
         NEW st \in {"halt", "confirm", "verify", "restore", "replied"},
         st = "restore" => HasPolicy(a), GoesTo(a, st)
  PROVE  act' \in [Actions -> ActionType]
<1>1. act[a] \in ActionType /\ act \in [Actions -> ActionType]
  BY DEF TypeOK
<1>2. [act[a] EXCEPT !.st = st] \in ActionType
  BY <1>1 DEF ActionType, ActionFields, HasPolicy
<1> QED BY <1>1, <1>2 DEF GoesTo

\* A command that ends, in success or not, leaves a well-formed action.
LEMMA EndsType ==
  ASSUME TypeOK, NEW a \in Actions, NEW out \in AllNames \cup {NoPolicy},
         Succeeds(a, out) \/ Fails(a, out)
  PROVE  act' \in [Actions -> ActionType]
<1>1. act[a] \in ActionType /\ act \in [Actions -> ActionType]
  BY DEF TypeOK
<1>r. Replied(a, out) \in ActionType /\ [Replied(a, out) EXCEPT !.ok = TRUE] \in ActionType
  BY <1>1 DEF Replied, ActionType, ActionFields
<1>2. CASE Succeeds(a, out)
  BY <1>1, <1>r, <1>2 DEF Succeeds
<1>3. CASE Fails(a, out) /\ act[a].tool = "docker"
  <2>1. [act[a] EXCEPT !.st = "begin", !.tool = "sudo", !.prev = NoPolicy] \in ActionType
    BY <1>1 DEF ActionType, ActionFields
  <2>2. act' = [act EXCEPT ![a] = [act[a] EXCEPT !.st = "begin", !.tool = "sudo",
                                                 !.prev = NoPolicy]]
    BY <1>1, <1>3 DEF Fails
  <2> QED BY <1>1, <2>1, <2>2
<1>4. CASE Fails(a, out) /\ act[a].tool # "docker"
  BY <1>1, <1>r, <1>4 DEF Fails
<1> QED BY <1>2, <1>3, <1>4

\* A script can set the policy to nothing but one that has a name.
LEMMA MayYetSetType ==
  ASSUME TypeOK, NEW a \in Actions PROVE MayYetSet(a) \subseteq AllNames
<1>1. act[a].restore \in AllNames \cup {NoPolicy}
  BY DEF TypeOK, ActionType, ActionFields
<1> QED BY <1>1 DEF MayYetSet

\* The scripts, their fallback and the end of an action keep its type.
LEMMA TypeStep == TypeOK /\ [Next]_vars => TypeOK'
<1> SUFFICES ASSUME TypeOK, [Next]_vars PROVE TypeOK'
  OBVIOUS
<1>t. \A a \in Actions : act[a] \in ActionType
  BY DEF TypeOK
<1>1. ASSUME NEW a \in Actions, NEW kind \in {"start", "stop", "restart"},
             ActionCalled(a, kind)
      PROVE  TypeOK'
  <2>1. [Idle EXCEPT !.st = "begin", !.kind = kind, !.restore = ToRestore(kind)]
          \in ActionType
    BY DEF Idle, ActionType, ActionFields, ToRestore, TypeOK
  <2>2. mishap' \in {"none", "overlap", "stopped twice", "failed stop",
                     "broken session", "changed by owner", "restart"}
    BY <1>1, MishapType DEF ActionCalled, TypeOK
  <2> QED BY <1>1, <2>1, <2>2 DEF ActionCalled, TypeOK
<1>2. ASSUME NEW a \in Actions, StopSteps(a) PROVE TypeOK'
  <2>1. CASE ReadPolicy(a)
    <3>1. [act[a] EXCEPT !.st = "update", !.prev = policy.name] \in ActionType
      BY <1>t, NamedType DEF TypeOK, ActionType, ActionFields
    <3>2. act' \in [Actions -> ActionType]
      BY <2>1, <3>1 DEF ReadPolicy, TypeOK
    <3> QED BY <2>1, <3>2 DEF ReadPolicy, TypeOK
  <2>2. CASE UpdatePolicy(a)
    <3>1. policy' \in AllPolicies
      BY <2>2, NamedType DEF UpdatePolicy, ClearPolicy, TypeOK
    <3> QED BY <2>2, <3>1, GoesToType DEF UpdatePolicy, TypeOK
  <2>3. CASE Halt(a)
    BY <2>3, GoesToType DEF Halt, TypeOK
  <2>4. CASE ConfirmStopped(a)
    <3>1. act[a].prev \in AllNames \cup {NoPolicy}
      BY <1>t DEF ActionType, ActionFields
    <3>2. act' \in [Actions -> ActionType]
      BY <2>4, <3>1, EndsType DEF ConfirmStopped
    <3> QED BY <2>4, <3>2 DEF ConfirmStopped, TypeOK
  <2>5. CASE StopAgain(a)
    BY <2>5 DEF StopAgain, TypeOK
  <2>6. CASE NotStopped(a)
    <3>1. act[a].prev \in AllNames \cup {NoPolicy}
      BY <1>t DEF ActionType, ActionFields
    <3>2. act' \in [Actions -> ActionType]
      BY <2>6, <3>1, EndsType DEF NotStopped
    <3>3. mishap' \in {"none", "overlap", "stopped twice", "failed stop",
                       "broken session", "changed by owner", "restart"}
      BY <2>6, MishapType DEF NotStopped, TypeOK
    <3> QED BY <2>6, <3>2, <3>3 DEF NotStopped, TypeOK
  <2> QED BY <1>2, <2>1, <2>2, <2>3, <2>4, <2>5, <2>6 DEF StopSteps
<1>3. ASSUME NEW a \in Actions, StartSteps(a) PROVE TypeOK'
  <2>1. CASE StartContainer(a)
    BY <2>1, GoesToType DEF StartContainer, TypeOK
  <2>2. CASE VerifyRunning(a)
    <3>1. act' \in [Actions -> ActionType]
      <4>1. CASE HasPolicy(a)
        BY <2>2, <4>1, GoesToType DEF VerifyRunning
      <4>2. CASE ~ HasPolicy(a)
        BY <2>2, <4>2, EndsType DEF VerifyRunning
      <4> QED BY <4>1, <4>2
    <3> QED BY <2>2, <3>1 DEF VerifyRunning, TypeOK
  <2>3. CASE RestorePolicy(a)
    <3>1. act' \in [Actions -> ActionType]
      BY <2>3, EndsType DEF RestorePolicy
    <3>2. policy' \in AllPolicies
      BY <1>t, <2>3, NamedType DEF RestorePolicy, ActionType, ActionFields
    <3> QED BY <2>3, <3>1, <3>2 DEF RestorePolicy, TypeOK
  <2> QED BY <1>3, <2>1, <2>2, <2>3 DEF StartSteps
<1>4. ASSUME NEW a \in Actions, CommandFails(a) PROVE TypeOK'
  <2>1. act' \in [Actions -> ActionType]
    BY <1>4, EndsType DEF CommandFails
  <2>2. mishap' \in {"none", "overlap", "stopped twice", "failed stop",
                     "broken session", "changed by owner", "restart"}
    BY <1>4, MishapType DEF CommandFails, TypeOK
  <2> QED BY <1>4, <2>1, <2>2 DEF CommandFails, TypeOK
<1>5. ASSUME NEW a \in Actions, ConnectFails(a) PROVE TypeOK'
  <2>1. Replied(a, NoPolicy) \in ActionType
    BY <1>t DEF Replied, ActionType, ActionFields
  <2> QED BY <1>5, <2>1 DEF ConnectFails, TypeOK
<1>6. ASSUME NEW a \in Actions, SessionBreaks(a) PROVE TypeOK'
  <2>1. act' \in [Actions -> ActionType]
    <3>1. Replied(a, NoPolicy) \in ActionType
      BY <1>t DEF Replied, ActionType, ActionFields
    <3> QED BY <1>6, <3>1 DEF SessionBreaks, TypeOK
  <2>2. mishap' \in {"none", "overlap", "stopped twice", "failed stop",
                     "broken session", "changed by owner", "restart"}
    BY <1>6, MishapType DEF SessionBreaks, TypeOK
  <2> QED BY <1>6, <2>1, <2>2, MayYetSetType DEF SessionBreaks, TypeOK
<1>7. ASSUME NEW a \in Actions, ActionEnds(a) PROVE TypeOK'
  <2>1. store' \in AllNames \cup {NoPolicy}
    BY <1>t, <1>7 DEF ActionEnds, Remember, TypeOK, ActionType, ActionFields
  <2> QED BY <1>7, <2>1, IdleType DEF ActionEnds, TypeOK
<1>8. ASSUME NEW p \in AllPolicies, OwnerSetsPolicy(p) PROVE TypeOK'
  BY <1>8, MishapType DEF OwnerSetsPolicy, TypeOK
<1>9. CASE OwnerStartsOrStops
  BY <1>9 DEF OwnerStartsOrStops, TypeOK
<1>10. ASSUME NEW name \in left, LeftScriptSets(name) PROVE TypeOK'
  BY <1>10, NamedType DEF LeftScriptSets, TypeOK
<1>11. CASE HomeAssistantRestarts
  <2>1. left' \subseteq AllNames
    BY <1>11, MayYetSetType DEF HomeAssistantRestarts, TypeOK
  <2>2. mishap' \in {"none", "overlap", "stopped twice", "failed stop",
                     "broken session", "changed by owner", "restart"}
    BY <1>11, MishapType DEF HomeAssistantRestarts, TypeOK
  <2> QED BY <1>11, <2>1, <2>2, IdleType DEF HomeAssistantRestarts, TypeOK
<1>12. CASE UNCHANGED vars
  BY <1>12 DEF vars, TypeOK
<1> QED BY <1>1, <1>2, <1>3, <1>4, <1>5, <1>6, <1>7, <1>8, <1>9, <1>10, <1>11, <1>12
        DEF Next

\* The variables of handle_docker_container_action and of its script keep
\* their types whatever fails, restarts or runs side by side.
THEOREM RestartTypeCorrect == Spec => []TypeOK
<1>1. Init => TypeOK
  BY IdleType DEF Init, TypeOK
<1> QED BY <1>1, TypeStep, PTL DEF Spec

-----------------------------------------------------------------------------
(* The restart policy *)

\* A mishap is never forgotten, so that without one none of the conditions
\* that would be one has come true.
LEMMA NoMishap ==
  ASSUME NEW condition, NEW name, name # "none", Mishap(condition, name), mishap' = "none"
  PROVE  mishap = "none" /\ ~ condition
BY DEF Mishap

\* What there is to keep depends on nothing but the history.
LEMMA KeptStays ==
  ASSUME UNCHANGED <<own, turnedOff>>
  PROVE  Kept' = Kept /\ own'.name = own.name /\ (NameIsAll => NameIsAll')
BY DEF Kept, NameIsAll, Named

\* The name of what there is to keep is the owner's, and it is all there is
\* once a stop has turned the policy off, or if the policy is "no".
LEMMA KeptNames ==
  ASSUME TypeOK
  PROVE  /\ Kept.name = own.name
         /\ turnedOff \/ own.name = "no" => NameIsAll
<1>1. own.name = "no" => own = Named("no")
  BY NamedType DEF TypeOK
<1> QED BY <1>1 DEF Kept, NameIsAll, Named

\* Nothing is under way at first, and the policy is the owner's.
LEMMA PolicyInit == Init => PolicyInv
BY DEF Init, PolicyInv, Undisturbed, Known, Kept, StopsAlone, ActInv, Busy, Idle

\* An action that moves on without touching the policy does not disturb the
\* others, if it goes on in order itself and keeps the policy it carries.
LEMMA MovesOn ==
  ASSUME TypeOK, Undisturbed, NEW a \in Actions, NEW r,
         act' = [act EXCEPT ![a] = r], r.kind = act[a].kind, Busy(a),
         UNCHANGED <<policy, store, left, hist>>,
         ActInv(a)', Carries(a) => Carries(a)' \/ policy = Kept
  PROVE  Undisturbed'
<1>1. act'[a] = r /\ \A b \in Actions \ {a} : act'[b] = act[b]
  BY DEF TypeOK
<1>k. Kept' = Kept /\ own'.name = own.name /\ (NameIsAll => NameIsAll')
  BY KeptStays
<1>2. StopsAlone'
  BY <1>1 DEF StopsAlone, Busy, Undisturbed
<1>3. ASSUME NEW b \in Actions \ {a} PROVE ActInv(b)'
  <2>1. act'[b] = act[b] /\ ActInv(b)
    BY <1>1 DEF Undisturbed
  <2> QED BY <1>k, <2>1 DEF ActInv, Busy, StopInv, StartInv, RestartInv
<1>4. Known'
  <2>1. ASSUME NEW b \in Actions \ {a}, Carries(b) PROVE Carries(b)'
    BY <1>1, <2>1 DEF Carries
  <2> QED BY <1>k, <2>1 DEF Known, Undisturbed
<1> QED BY <1>k, <1>2, <1>3, <1>4 DEF Undisturbed

\* While nothing went wrong, a stop under way leaves the policies in order.
LEMMA StopStepsKeep ==
  ASSUME TypeOK, Undisturbed, NEW a \in Actions, StopSteps(a),
         mishap = "none", mishap' = "none"
  PROVE  Undisturbed'
<1>1. ActInv(a) /\ act[a] \in ActionType /\ act \in [Actions -> ActionType]
  BY DEF Undisturbed, TypeOK
<1>k. UNCHANGED hist => Kept' = Kept /\ own'.name = own.name /\ (NameIsAll => NameIsAll')
  BY KeptStays
<1>2. CASE ReadPolicy(a)
  <2> DEFINE r == [act[a] EXCEPT !.st = "update", !.prev = policy.name]
  <2>1. act' = [act EXCEPT ![a] = r] /\ act'[a] = r
    BY <1>1, <1>2 DEF ReadPolicy
  <2>2. ActInv(a)'
    BY <1>1, <1>2, <1>k, <2>1, KeptNames
       DEF ReadPolicy, ActInv, StopInv, Busy, ActionType, ActionFields
  <2>3. policy = Kept /\ Busy(a) /\ r.kind = act[a].kind
    BY <1>1, <1>2 DEF ReadPolicy, ActInv, StopInv, Busy, ActionType, ActionFields
  <2> QED BY <1>2, <2>1, <2>2, <2>3, MovesOn DEF ReadPolicy
<1>3. CASE UpdatePolicy(a)
  <2> DEFINE r == [act[a] EXCEPT !.st = "halt"]
  <2>1. act' = [act EXCEPT ![a] = r] /\ act'[a] = r
    BY <1>1, <1>3 DEF UpdatePolicy, GoesTo
  <2>2. act[a].kind = "stop" /\ Busy(a) /\ policy = Kept /\ act[a].prev = own.name
    BY <1>1, <1>3 DEF UpdatePolicy, ActInv, StopInv, StartInv, RestartInv, Busy,
                      ActionType, ActionFields
  <2>3. policy' = Named("no") /\ UNCHANGED <<store, own, left>>
    <3>1. own.name = "no" => policy = Named("no")
      BY <2>2, KeptNames DEF NameIsAll
    <3> QED BY <1>3, <2>2, <3>1 DEF UpdatePolicy, ClearPolicy
  <2>k. NameIsAll'
    <3>1. CASE own.name # "no"
      BY <1>3, <2>2, <3>1 DEF UpdatePolicy, NameIsAll, Kept
    <3>2. CASE own.name = "no"
      <4>1. turnedOff' = turnedOff
        BY <1>3, <2>2, <3>2 DEF UpdatePolicy, TypeOK
      <4> QED BY <2>3, <3>2, <4>1, KeptNames, KeptStays
    <3> QED BY <3>1, <3>2
  <2>4. Carries(a)' /\ ActInv(a)'
    BY <1>1, <1>3, <2>1, <2>2, <2>3, <2>k
       DEF UpdatePolicy, Carries, ActInv, StopInv, Busy, ActionType, ActionFields
  <2>5. ASSUME NEW b \in Actions \ {a}
        PROVE  act'[b] = act[b] /\ (Busy(b) => act[b].kind = "restart")
    BY <1>1, <2>1, <2>2 DEF Undisturbed, StopsAlone
  <2>6. ASSUME NEW b \in Actions \ {a} PROVE ActInv(b)'
    <3>1. act'[b] = act[b] /\ ActInv(b) /\ (Busy(b) => act[b].kind = "restart")
      BY <2>5 DEF Undisturbed
    <3> QED BY <3>1 DEF ActInv, Busy, RestartInv
  <2>7. StopsAlone'
    BY <2>1, <2>5 DEF StopsAlone, Busy, Undisturbed
  <2> QED BY <2>3, <2>k, <2>4, <2>6, <2>7 DEF Undisturbed, Known
<1>4. CASE Halt(a)
  <2> DEFINE r == [act[a] EXCEPT !.st = "confirm"]
  <2>1. act' = [act EXCEPT ![a] = r] /\ act'[a] = r
    BY <1>1, <1>4 DEF Halt, GoesTo
  <2>2. ActInv(a)'
    BY <1>1, <1>4, <1>k, <2>1
       DEF Halt, ActInv, StopInv, StartInv, RestartInv, Busy, ActionType, ActionFields
  <2>3. Busy(a) /\ r.kind = act[a].kind /\ (Carries(a) => Carries(a)')
    BY <1>1, <1>4, <2>1 DEF Halt, Carries, Busy, ActionType, ActionFields
  <2> QED BY <1>4, <2>1, <2>2, <2>3, MovesOn DEF Halt
<1>5. CASE ConfirmStopped(a)
  <2> DEFINE r == [Replied(a, act[a].prev) EXCEPT !.ok = TRUE]
  <2>1. act' = [act EXCEPT ![a] = r] /\ act'[a] = r
    BY <1>1, <1>5 DEF Replied, ConfirmStopped, Succeeds
  <2>2. ActInv(a)'
    BY <1>1, <1>5, <1>k, <2>1
       DEF Replied, ConfirmStopped, ActInv, StopInv, StartInv, RestartInv, Busy,
           ActionType, ActionFields
  <2>3. Busy(a) /\ r.kind = act[a].kind /\ (Carries(a) => Carries(a)')
    BY <1>1, <1>5, <2>1
       DEF Replied, ConfirmStopped, Carries, Busy, ActionType, ActionFields
  <2> QED BY <1>5, <2>1, <2>2, <2>3, MovesOn DEF ConfirmStopped
<1>6. CASE StopAgain(a)
  BY <1>6, <1>k DEF StopAgain, Undisturbed, Known, Carries, StopsAlone, Busy, ActInv,
              StopInv, StartInv, RestartInv
<1>7. CASE NotStopped(a)
  <2>1. /\ act[a].kind = "stop" /\ Busy(a) /\ ~ act[a].ok
        /\ act[a].prev = own.name /\ policy = Named("no") /\ NameIsAll
    BY <1>1, <1>7
       DEF Replied, NotStopped, ActInv, StopInv, StartInv, RestartInv, Busy, ActionType,
           ActionFields
  <2>2. CASE act[a].tool = "docker"
    <3> DEFINE r == [act[a] EXCEPT !.st = "begin", !.tool = "sudo", !.prev = NoPolicy]
    <3>1. act' = [act EXCEPT ![a] = r] /\ act'[a] = r
      BY <1>1, <1>7, <2>2 DEF Replied, NotStopped, Fails
    <3>2. policy = Kept
      BY <1>7, <2>1, <2>2 DEF NotStopped, Mishap, NameIsAll
    <3>3. ActInv(a)' /\ r.kind = act[a].kind
      BY <1>1, <1>7, <1>k, <2>1, <3>1, <3>2
         DEF Replied, NotStopped, ActInv, StopInv, Busy, ActionType, ActionFields
    <3> QED BY <1>7, <2>1, <3>1, <3>2, <3>3, MovesOn DEF NotStopped
  <2>3. CASE act[a].tool # "docker"
    <3> DEFINE r == Replied(a, act[a].prev)
    <3>1. act' = [act EXCEPT ![a] = r] /\ act'[a] = r
      BY <1>1, <1>7, <2>3 DEF Replied, NotStopped, Fails
    <3>2. ActInv(a)' /\ Carries(a)' /\ r.kind = act[a].kind
      BY <1>1, <1>7, <1>k, <2>1, <3>1
         DEF Replied, NotStopped, Carries, ActInv, StopInv, Busy, ActionType,
             ActionFields
    <3> QED BY <1>7, <2>1, <3>1, <3>2, MovesOn DEF NotStopped
  <2> QED BY <2>2, <2>3
<1> QED BY <1>2, <1>3, <1>4, <1>5, <1>6, <1>7 DEF StopSteps

\* So does a start or a restart.
LEMMA StartStepsKeep ==
  ASSUME TypeOK, Undisturbed, NEW a \in Actions, StartSteps(a)
  PROVE  Undisturbed'
<1>1. ActInv(a) /\ act[a] \in ActionType /\ act \in [Actions -> ActionType]
  BY DEF Undisturbed, TypeOK
<1>k. Kept' = Kept /\ own'.name = own.name /\ (NameIsAll => NameIsAll')
  BY KeptStays DEF StartSteps, StartContainer, VerifyRunning, RestorePolicy
<1>2. CASE StartContainer(a)
  <2> DEFINE r == [act[a] EXCEPT !.st = "verify"]
  <2>1. act' = [act EXCEPT ![a] = r] /\ act'[a] = r
    BY <1>1, <1>2 DEF StartContainer, GoesTo
  <2>2. ActInv(a)'
    BY <1>1, <1>2, <1>k, <2>1
       DEF StartContainer, ActInv, StopInv, StartInv, RestartInv, Busy, ActionType,
           ActionFields
  <2>3. Busy(a) /\ r.kind = act[a].kind /\ ~ Carries(a)
    BY <1>1, <1>2 DEF StartContainer, Carries, Busy, ActionType, ActionFields
  <2> QED BY <1>2, <2>1, <2>2, <2>3, MovesOn DEF StartContainer
<1>3. CASE VerifyRunning(a) /\ HasPolicy(a)
  <2> DEFINE r == [act[a] EXCEPT !.st = "restore"]
  <2>1. act' = [act EXCEPT ![a] = r] /\ act'[a] = r
    BY <1>1, <1>3 DEF VerifyRunning, GoesTo
  <2>2. ActInv(a)'
    BY <1>1, <1>3, <1>k, <2>1
       DEF Replied, VerifyRunning, HasPolicy, ActInv, StopInv, StartInv, RestartInv,
           Busy, ActionType, ActionFields
  <2>3. Busy(a) /\ r.kind = act[a].kind /\ ~ Carries(a)
    BY <1>1, <1>3 DEF Replied, VerifyRunning, Carries, Busy, ActionType, ActionFields
  <2> QED BY <1>3, <2>1, <2>2, <2>3, MovesOn DEF VerifyRunning
<1>4. CASE VerifyRunning(a) /\ ~ HasPolicy(a)
  <2> DEFINE r == [Replied(a, NoPolicy) EXCEPT !.ok = TRUE]
  <2>1. act' = [act EXCEPT ![a] = r] /\ act'[a] = r
    BY <1>1, <1>4 DEF Replied, VerifyRunning, Succeeds
  <2>2. ActInv(a)'
    BY <1>1, <1>4, <1>k, <2>1
       DEF Replied, VerifyRunning, HasPolicy, ActInv, StopInv, StartInv, RestartInv,
           Busy, ActionType, ActionFields
  <2>3. Busy(a) /\ r.kind = act[a].kind /\ ~ Carries(a)
    BY <1>1, <1>4 DEF Replied, VerifyRunning, Carries, Busy, ActionType, ActionFields
  <2> QED BY <1>4, <2>1, <2>2, <2>3, MovesOn DEF VerifyRunning
<1>5. CASE RestorePolicy(a)
  <2> DEFINE r == [Replied(a, NoPolicy) EXCEPT !.ok = TRUE]
  <2>1. act' = [act EXCEPT ![a] = r] /\ act'[a] = r
    BY <1>1, <1>5 DEF Replied, RestorePolicy, Succeeds
  <2>2. act[a].kind = "start" /\ Busy(a) /\ act[a].restore = own.name /\ NameIsAll
    BY <1>1, <1>5, RestartAssumption
       DEF TypeOK, AllPolicies, Replied, RestorePolicy, ActInv, StopInv, StartInv,
           RestartInv, Busy, ActionType, ActionFields
  <2>3. policy' = Kept' /\ UNCHANGED <<store, own, left>>
    BY <1>5, <1>k, <2>2 DEF RestorePolicy, NameIsAll
  <2>4. ActInv(a)'
    BY <1>1, <1>5, <1>k, <2>1, <2>2, <2>3
       DEF Replied, RestorePolicy, ActInv, StopInv, StartInv, RestartInv, Busy,
           ActionType, ActionFields
  <2>5. ASSUME NEW b \in Actions \ {a}
        PROVE  act'[b] = act[b] /\ (Busy(b) => act[b].kind # "stop")
    BY <1>1, <2>1, <2>2 DEF Undisturbed, StopsAlone
  <2>6. ASSUME NEW b \in Actions \ {a} PROVE ActInv(b)'
    <3>1. act'[b] = act[b] /\ ActInv(b) /\ (Busy(b) => act[b].kind # "stop")
      BY <2>5 DEF Undisturbed
    <3> QED BY <1>k, <2>3, <3>1 DEF ActInv, Busy, StartInv, RestartInv
  <2>7. StopsAlone'
    <3>1. act'[a].kind = "start"
      BY <2>1, <2>2 DEF Replied
    <3> QED BY <2>5, <3>1 DEF StopsAlone, Busy, Undisturbed
  <2> QED BY <1>k, <2>3, <2>4, <2>6, <2>7 DEF Undisturbed, Known
<1> QED BY <1>2, <1>3, <1>4, <1>5 DEF StartSteps

\* Nor does a failure that is no mishap disturb them: it comes when the policy
\* is the owner's, or is not the action's to keep.
LEMMA FailuresKeep ==
  ASSUME TypeOK, Undisturbed, NEW a \in Actions, mishap = "none", mishap' = "none",
         CommandFails(a) \/ ConnectFails(a) \/ SessionBreaks(a)
  PROVE  Undisturbed'
<1>1. ActInv(a) /\ act[a] \in ActionType /\ act \in [Actions -> ActionType]
  BY DEF Undisturbed, TypeOK
<1>k. Kept' = Kept /\ own'.name = own.name /\ (NameIsAll => NameIsAll')
  BY KeptStays DEF CommandFails, ConnectFails, SessionBreaks
<1>2. OnTheHost(a) /\ Busy(a) /\ act[a].st # "replied" /\ ~ act[a].ok
  BY <1>1 DEF CommandFails, ConnectFails, SessionBreaks, OnTheHost, ActInv, StopInv,
              StartInv, RestartInv, Busy,
               ActionType, ActionFields
<1>3. ~ PolicyUnprinted(a)
  <2>1. CASE CommandFails(a)
    BY <2>1 DEF CommandFails, Mishap
  <2>2. CASE ConnectFails(a)
    BY <2>2 DEF ConnectFails, PolicyUnprinted
  <2>3. CASE SessionBreaks(a)
    BY <2>3 DEF SessionBreaks, Mishap
  <2> QED BY <2>1, <2>2, <2>3
<1>4. act[a].kind = "stop" => policy = Kept
  BY <1>1, <1>2, <1>3 DEF PolicyUnprinted, ActInv, StopInv, StartInv, RestartInv, Busy,
                          NameIsAll, ActionType, ActionFields
<1>5. ~ Carries(a) \/ policy = Kept
  BY <1>4 DEF Carries
<1>6. CASE CommandFails(a) /\ act[a].tool = "docker"
  <2> DEFINE r == [act[a] EXCEPT !.st = "begin", !.tool = "sudo", !.prev = NoPolicy]
  <2>1. act' = [act EXCEPT ![a] = r] /\ act'[a] = r
    BY <1>1, <1>6 DEF CommandFails, Fails, Replied
  <2>2. ActInv(a)' /\ r.kind = act[a].kind
    BY <1>1, <1>2, <1>4, <1>6, <1>k, <2>1 DEF CommandFails, ActInv, StopInv, StartInv,
                                        RestartInv, Busy,
               ActionType, ActionFields
  <2> QED BY <1>2, <1>5, <1>6, <2>1, <2>2, MovesOn DEF CommandFails
<1>7. CASE \/ CommandFails(a) /\ act[a].tool # "docker"
           \/ ConnectFails(a)
           \/ SessionBreaks(a)
  <2> DEFINE r == Replied(a, NoPolicy)
  <2>1. act' = [act EXCEPT ![a] = r] /\ act'[a] = r /\ UNCHANGED <<policy, store, hist>>
    BY <1>1, <1>7 DEF CommandFails, ConnectFails, SessionBreaks, Fails, Replied
  <2>2. left' = left
    <3>1. CASE SessionBreaks(a)
      BY <3>1 DEF SessionBreaks, Mishap
    <3> QED BY <1>7, <3>1 DEF CommandFails, ConnectFails
  <2>3. ActInv(a)' /\ r.kind = act[a].kind
    BY <1>1, <1>2, <1>4, <1>k, <2>1
       DEF Replied, ActInv, StopInv, StartInv, RestartInv, Busy, ActionType,
           ActionFields
  <2> QED BY <1>2, <1>5, <2>1, <2>2, <2>3, MovesOn
<1> QED BY <1>6, <1>7

\* An action begins with what is remembered only if that is the owner's policy.
LEMMA CallKeeps ==
  ASSUME TypeOK, Undisturbed, NEW a \in Actions, NEW kind \in {"start", "stop", "restart"},
         ActionCalled(a, kind), mishap' = "none"
  PROVE  Undisturbed'
<1> DEFINE r == [Idle EXCEPT !.st = "begin", !.kind = kind, !.restore = ToRestore(kind)]
<1>1. /\ act' = [act EXCEPT ![a] = r] /\ act'[a] = r
      /\ UNCHANGED <<policy, store, left, hist>> /\ ~ Busy(a)
  BY DEF ActionCalled, TypeOK
<1>k. Kept' = Kept /\ own'.name = own.name /\ (NameIsAll => NameIsAll')
  BY <1>1, KeptStays
<1>2. r.kind = kind /\ r.st = "begin" /\ r.restore = ToRestore(kind) /\ ~ r.ok
  BY DEF Idle
<1>3. ~ Interferes(kind) /\ (kind = "stop" => policy.name = own.name)
  BY DEF ActionCalled, Mishap
<1>n. kind = "stop" => policy = Kept
  BY <1>3, KeptNames DEF Undisturbed, NameIsAll, Named
<1>4. \A b \in Actions \ {a} : act'[b] = act[b]
  BY <1>1 DEF TypeOK
<1>5. kind = "start" /\ store = NoPolicy => policy = Kept
  <2> SUFFICES ASSUME kind = "start", store = NoPolicy PROVE policy = Kept
    OBVIOUS
  <2>1. store # own.name
    BY RestartAssumption, NamedType DEF TypeOK
  <2>2. \A b \in Actions : ~ Carries(b)
    BY <1>3 DEF Carries, Interferes, Busy
  <2> QED BY <2>1, <2>2 DEF Undisturbed, Known
<1>6. ActInv(a)'
  <2>1. kind = "stop" => StopInv(a)'
    BY <1>1, <1>2, <1>k, <1>n DEF StopInv
  <2>2. kind = "start" => StartInv(a)'
    BY <1>1, <1>2, <1>5, <1>k DEF StartInv, ToRestore, Undisturbed
  <2>3. kind = "restart" => RestartInv(a)'
    BY <1>1, <1>2 DEF RestartInv, ToRestore
  <2> QED BY <1>1, <1>2, <2>1, <2>2, <2>3 DEF ActInv
<1>7. ASSUME NEW b \in Actions \ {a} PROVE ActInv(b)' /\ (Carries(b) => Carries(b)')
  <2>1. act'[b] = act[b] /\ ActInv(b)
    BY <1>4 DEF Undisturbed
  <2> QED BY <1>1, <1>k, <2>1 DEF ActInv, Busy, StopInv, StartInv, RestartInv, Carries
<1>8. StopsAlone'
  <2> SUFFICES ASSUME NEW b \in Actions, NEW c \in Actions, b # c, Busy(b)', Busy(c)',
                      act'[b].kind = "stop"
               PROVE  act'[c].kind = "restart"
    BY DEF StopsAlone
  <2>1. CASE b # a /\ c # a
    BY <1>4, <2>1 DEF StopsAlone, Busy, Undisturbed
  <2>2. CASE b = a
    BY <1>1, <1>2, <1>3, <1>4, <2>2 DEF Interferes, Busy
  <2>3. CASE c = a
    BY <1>1, <1>2, <1>3, <1>4, <2>3 DEF Interferes, Busy
  <2> QED BY <2>1, <2>2, <2>3
<1>9. Known'
  <2>1. ~ Carries(a)
    BY <1>1 DEF Carries, Busy
  <2> QED BY <1>1, <1>k, <1>7, <2>1 DEF Known, Undisturbed
<1> QED BY <1>1, <1>k, <1>6, <1>7, <1>8, <1>9 DEF Undisturbed

\* An action ends by remembering the owner's policy, or by forgetting it once it
\* is back on the container.
LEMMA EndKeeps ==
  ASSUME TypeOK, Undisturbed, NEW a \in Actions, ActionEnds(a)
  PROVE  Undisturbed'
<1>1. /\ act' = [act EXCEPT ![a] = Idle] /\ act'[a] = Idle
      /\ UNCHANGED <<policy, left, hist>> /\ act[a].st = "replied"
  BY DEF ActionEnds, TypeOK
<1>k. Kept' = Kept /\ own'.name = own.name /\ (NameIsAll => NameIsAll')
  BY <1>1, KeptStays
<1>2. ActInv(a) /\ act[a] \in ActionType
  BY DEF Undisturbed, TypeOK
<1>3. \A b \in Actions \ {a} : act'[b] = act[b]
  BY <1>1 DEF TypeOK
<1>4. ~ Busy(a)'
  BY <1>1 DEF Busy, Idle
<1>5. ASSUME NEW b \in Actions \ {a} PROVE ActInv(b)' /\ (Carries(b) => Carries(b)')
  <2>1. act'[b] = act[b] /\ ActInv(b)
    BY <1>3 DEF Undisturbed
  <2> QED BY <1>1, <1>k, <2>1 DEF ActInv, Busy, StopInv, StartInv, RestartInv, Carries
<1>6. StopsAlone'
  BY <1>3, <1>4 DEF StopsAlone, Busy, Undisturbed
<1>7. Known' /\ store' \in {own'.name, NoPolicy} /\ (store' # NoPolicy => NameIsAll')
  <2>1. CASE act[a].kind = "stop"
    BY <1>1, <1>2, <1>k, <2>1
       DEF ActionEnds, Remember, Known, Undisturbed, ActInv, StopInv, StartInv,
           RestartInv, Busy, ActionType, ActionFields
  <2>2. CASE act[a].kind = "start" /\ act[a].ok
    BY <1>1, <1>2, <1>k, <2>2
       DEF ActionEnds, Remember, Known, ActInv, StopInv, StartInv, RestartInv, Busy,
           ActionType, ActionFields
  <2>3. CASE act[a].kind # "stop" /\ ~ (act[a].kind = "start" /\ act[a].ok)
    <3>1. store' = store /\ ~ Carries(a)
      BY <2>3 DEF ActionEnds, Remember, Carries
    <3> QED BY <1>1, <1>k, <1>5, <3>1 DEF Known, Undisturbed
  <2> QED BY <2>1, <2>2, <2>3
<1>8. ActInv(a)'
  BY <1>4 DEF ActInv
<1> QED BY <1>1, <1>k, <1>5, <1>6, <1>7, <1>8 DEF Undisturbed

\* When nothing is under way and nothing is remembered, what there is to keep of
\* the owner's policy is on the container.
LEMMA QuietMeansKept ==
  ASSUME TypeOK, Undisturbed, ~ (InFlight \/ store # NoPolicy)
  PROVE  policy = Kept
<1>1. store # own.name
  BY RestartAssumption, NamedType DEF TypeOK
<1>2. \A a \in Actions : ~ Carries(a)
  BY DEF InFlight, Busy, Carries
<1> QED BY <1>1, <1>2 DEF Undisturbed, Known

\* Every step without a mishap leaves the policies in order.
LEMMA PolicyStep == TypeOK /\ PolicyInv /\ [Next]_vars => PolicyInv'
<1> SUFFICES ASSUME TypeOK, Undisturbed, [Next]_vars, mishap = "none", mishap' = "none"
             PROVE  Undisturbed'
  <2>1. mishap' = "none" /\ [Next]_vars => mishap = "none"
    BY DEF Next, vars, Mishap, StopSteps, StartSteps, ActionCalled, ReadPolicy,
           UpdatePolicy,
           Halt, ConfirmStopped, StopAgain, NotStopped, StartContainer, VerifyRunning,
           RestorePolicy, CommandFails, ConnectFails, SessionBreaks, ActionEnds,
           OwnerSetsPolicy, OwnerStartsOrStops, LeftScriptSets, HomeAssistantRestarts
  <2> QED BY <2>1 DEF PolicyInv
<1>1. ASSUME NEW a \in Actions, NEW kind \in {"start", "stop", "restart"},
             ActionCalled(a, kind)
      PROVE  Undisturbed'
  BY <1>1, CallKeeps
<1>2. ASSUME NEW a \in Actions, StopSteps(a) PROVE Undisturbed'
  BY <1>2, StopStepsKeep
<1>3. ASSUME NEW a \in Actions, StartSteps(a) PROVE Undisturbed'
  BY <1>3, StartStepsKeep
<1>4. ASSUME NEW a \in Actions, CommandFails(a) \/ ConnectFails(a) \/ SessionBreaks(a)
      PROVE  Undisturbed'
  BY <1>4, FailuresKeep
<1>5. ASSUME NEW a \in Actions, ActionEnds(a) PROVE Undisturbed'
  BY <1>5, EndKeeps
<1>6. ASSUME NEW p \in AllPolicies, OwnerSetsPolicy(p) PROVE Undisturbed'
  <2>1. ~ InFlight /\ store = NoPolicy /\ UNCHANGED <<store, act, left>> /\ policy' = Kept'
    BY <1>6 DEF OwnerSetsPolicy, Mishap, Kept
  <2>2. \A a \in Actions : ~ Busy(a)'
    BY <2>1 DEF InFlight, Busy
  <2> QED BY <2>1, <2>2 DEF Undisturbed, Known, StopsAlone, ActInv
<1>7. CASE OwnerStartsOrStops
  BY <1>7, KeptStays
     DEF OwnerStartsOrStops, Undisturbed, Known, Carries, StopsAlone, Busy, ActInv,
         StopInv, StartInv, RestartInv
<1>8. ASSUME NEW name \in left, LeftScriptSets(name) PROVE Undisturbed'
  BY <1>8 DEF Undisturbed
<1>9. CASE HomeAssistantRestarts
  <2>1. ~ (InFlight \/ store # NoPolicy)
    BY <1>9 DEF HomeAssistantRestarts, Mishap
  <2>2. policy = Kept
    BY <2>1, QuietMeansKept
  <2>3. \A a \in Actions : MayYetSet(a) = {}
    BY <2>1 DEF InFlight, Busy, MayYetSet, OnTheHost
  <2>4. left' = {} /\ store' = NoPolicy /\ UNCHANGED <<policy, hist>>
    BY <1>9, <2>3 DEF HomeAssistantRestarts, Undisturbed
  <2>5. \A a \in Actions : ~ Busy(a)'
    BY <1>9 DEF HomeAssistantRestarts, Busy, Idle
  <2> QED BY <2>2, <2>4, <2>5, KeptStays DEF Undisturbed, Known, StopsAlone, ActInv
<1>10. CASE UNCHANGED vars
  BY <1>10, KeptStays DEF vars, Undisturbed, Known, Carries, StopsAlone, Busy, ActInv,
               StopInv, StartInv, RestartInv
<1> QED BY <1>1, <1>2, <1>3, <1>4, <1>5, <1>6, <1>7, <1>8, <1>9, <1>10 DEF Next

\* While nothing went wrong, what the store, the host and the actions under way
\* know of the owner's policy fits together: the inductive invariant.
THEOREM PoliciesInOrder == Spec => [](TypeOK /\ PolicyInv)
<1>1. Init => TypeOK
  BY IdleType DEF Init, TypeOK
<1> QED BY <1>1, TypeStep, PolicyInit, PolicyStep, PTL DEF Spec

\* Without a mishap no behaviour loses more of the owner's restart policy than
\* the retry limit that a stop drops (handle_docker_container_action and its
\* script).
THEOREM PolicyNeverLost == Spec => []PolicyIsRemembered
<1>1. PolicyInv => PolicyIsRemembered
  BY DEF PolicyInv, Undisturbed, PolicyIsRemembered
<1> QED BY <1>1, PoliciesInOrder, PTL

\* A start reported successful has restored the owner's policy: all of it if no
\* stop has turned it off, and otherwise the policy of its name.
THEOREM StartsRestore == Spec => []StartRestores
<1>1. PolicyInv => StartRestores
  BY DEF PolicyInv, Undisturbed, ActInv, StartInv, Busy, StartRestores
<1> QED BY <1>1, PoliciesInOrder, PTL

\* A stop reported successful has turned restarting off.
THEOREM StopsHold == Spec => []StopHolds
<1>1. PolicyInv => StopHolds
  BY DEF PolicyInv, Undisturbed, ActInv, StopInv, Busy, StopHolds
<1> QED BY <1>1, PoliciesInOrder, PTL

=============================================================================
