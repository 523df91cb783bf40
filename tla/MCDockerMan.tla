---------------------------- MODULE MCDockerMan -----------------------------
(* Small instances of DockerMan for TLC. *)
EXTENDS DockerMan, TLC

\* Two requests for one container name, as after a restart of connman.
OneName == [c \in Container |-> CHOOSE n \in Name : TRUE]
OneImage == [c \in Container |-> CHOOSE i \in Image : TRUE]

\* No name contains another one; every other name contains the one chosen.
NoneWithin == [n \in Name |-> {}]
OneWithin == [n \in Name |-> IF n = CHOOSE m \in Name : TRUE THEN Name \ {n} ELSE {}]

\* Sound when all containers share one name and one image: nothing tells them apart.
Symmetry == Permutations(Container)
=============================================================================
