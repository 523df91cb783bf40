------------------------------ MODULE PortPool ------------------------------
(***************************************************************************)
(* What connman's callers expect of a range of TCP ports: a port is handed *)
(* to one holder at a time and comes back only from its holder, a request  *)
(* is refused only for a reason, and a call that fails changes nothing.    *)
(* PortRange is shown to implement this specification.                     *)
(***************************************************************************)
CONSTANTS
  Port,          \* the ports of the range
  Other,         \* further values a caller may name
  Failure,       \* the answers that hand out nothing
  Full,          \* the one among them that says that no port is left
  NoArg          \* the argument of a call without one

VARIABLES
  held,          \* the ports that are out with a holder
  ret            \* the last call and its answer

vars == << held, ret >>

Record(op, arg, res) == [op |-> op, arg |-> arg, res |-> res]

Init ==
  /\ held = {}
  /\ ret = Record("new", NoArg, Full)

(* Any free port, or one that the caller names. *)
Take(p) ==
  /\ p \notin held
  /\ held' = held \cup {p}
  /\ ret' \in {Record("aquire", NoArg, p), Record("acquire", p, p)}

Exhausted ==
  /\ held = Port
  /\ ret' = Record("aquire", NoArg, Full)
  /\ UNCHANGED held

Refuse(p) ==
  /\ p \in held \cup Other
  /\ \E f \in Failure : ret' = Record("acquire", p, f)
  /\ UNCHANGED held

Give(p) ==
  /\ p \in held
  /\ held' = held \ {p}
  /\ ret' = Record("release", p, p)

(* Giving back what was never in the range. *)
Reject(p) ==
  /\ p \in Other
  /\ \E f \in Failure : ret' = Record("release", p, f)
  /\ UNCHANGED held

Next ==
  \/ Exhausted
  \/ \E p \in Port : Take(p) \/ Give(p)
  \/ \E p \in Port \cup Other : Refuse(p) \/ Reject(p)

Spec == Init /\ [][Next]_vars
=============================================================================
