--------------------------- MODULE ContainerView ---------------------------
(***************************************************************************)
(* What a host coordinator promises about container states, without its    *)
(* tasks, samples, revisions and polls: a published inventory shows every  *)
(* container in a state it had after the last container action whose       *)
(* success Home Assistant knows of.  Module Coordinator implements this.   *)
(***************************************************************************)

CONSTANT Containers

VARIABLES
  remote,  \* remote[c]: is the container running
  since,   \* since[c]: the states c had since the last successful action
  shown    \* shown[c]: {} while unknown, else the one state entities show

viewVars == <<remote, since, shown>>

ViewInit ==
  /\ remote \in [Containers -> BOOLEAN]
  /\ since = [c \in Containers |-> {remote[c]}]
  /\ shown = [c \in Containers |-> {}]

\* A container starts or stops on the host, whoever asked for it.
ContainerTurns(c, running) ==
  /\ remote' = [remote EXCEPT ![c] = running]
  /\ since' = [since EXCEPT ![c] = @ \cup {running}]
  /\ UNCHANGED shown

\* An action on c is reported successful: everything observed before it is
\* forgotten, and c is shown in the state the action guarantees.
ActionSucceeds(c, running) ==
  /\ since' = [d \in Containers |-> {remote[d]}]
  /\ shown' = IF shown[c] = {} THEN shown ELSE [shown EXCEPT ![c] = {running}]
  /\ UNCHANGED remote

\* A new inventory is published.
InventoryPublished ==
  /\ \E s \in [Containers -> BOOLEAN] :
       /\ \A c \in Containers : s[c] \in since[c]
       /\ shown' = [c \in Containers |-> {s[c]}]
  /\ UNCHANGED <<remote, since>>

ViewNext ==
  \/ \E c \in Containers, b \in BOOLEAN :
       ContainerTurns(c, b) \/ ActionSucceeds(c, b)
  \/ InventoryPublished

ViewSpec == ViewInit /\ [][ViewNext]_viewVars

=============================================================================
