--------------------------- MODULE ContainerHost ----------------------------
(***************************************************************************)
(* What the callers of a docker backend may rely on: the backend starts or *)
(* stops a container only because somebody asked for it, once per request  *)
(* at most, and it may turn a request down.  DockerMan is shown to         *)
(* implement this specification.                                           *)
(***************************************************************************)
EXTENDS Naturals

CONSTANTS Container, Name, NameOf

VARIABLES
  asked,         \* requests neither served nor turned down yet
  daemon         \* state of each container on the host

vars == << asked, daemon >>

Op        == {"start", "stop"}
Target(op) == IF op = "start" THEN "running" ELSE "stopped"

Init ==
  /\ asked = [c \in Container |-> [op \in Op |-> 0]]
  /\ daemon \in [Name -> {"absent", "stopped", "running"}]

Ask(c, op) ==
  /\ asked' = [asked EXCEPT ![c][op] = @ + 1]
  /\ UNCHANGED daemon

TurnDown(c, op) ==
  /\ asked[c][op] > 0
  /\ asked' = [asked EXCEPT ![c][op] = @ - 1]
  /\ UNCHANGED daemon

Serve(c, op) ==
  /\ asked[c][op] > 0
  /\ daemon[NameOf[c]] # "absent"
  /\ asked' = [asked EXCEPT ![c][op] = @ - 1]
  /\ daemon' = [daemon EXCEPT ![NameOf[c]] = Target(op)]

\* A new container is not running.
Create(n) ==
  /\ daemon[n] = "absent"
  /\ daemon' = [daemon EXCEPT ![n] = "stopped"]
  /\ UNCHANGED asked

Exit(n) ==
  /\ daemon[n] = "running"
  /\ daemon' = [daemon EXCEPT ![n] = "stopped"]
  /\ UNCHANGED asked

Next ==
  \/ \E c \in Container, op \in Op : Ask(c, op) \/ TurnDown(c, op) \/ Serve(c, op)
  \/ \E n \in Name : Create(n) \/ Exit(n)

Spec == Init /\ [][Next]_vars
=============================================================================
