----------------------------- MODULE PortRange ------------------------------
(***************************************************************************)
(* PortRange of connman.rs: a vector of flags behind a mutex.  The server  *)
(* keeps one for the host (10_000 .. 30_000) and every docker backend one  *)
(* for its published ports (30_000 .. 60_000).  Each operation runs under  *)
(* the lock, so it is one action; an operation that indexes the vector out *)
(* of bounds, or underflows a u16, panics and leaves the flags alone (the  *)
(* tokio mutex is not poisoned).                                           *)
(***************************************************************************)
EXTENDS Integers, FiniteSets

CONSTANTS
  First,      \* start: the first port of the range
  Last,       \* _end: one past the last port of the range
  U16         \* 65536 in the code, small for TLC

ASSUME RangeAssumption ==
  /\ First \in Nat /\ Last \in Nat /\ U16 \in Nat
  /\ First < Last /\ Last < U16

VARIABLES
  used,       \* used: the vector of flags, indexed from 0
  grants,     \* history: how many callers hold each port right now
  ret         \* what the last call did: its operation, argument and result

vars == << used, grants, ret >>

Word  == 0 .. U16 - 1                     \* the values of a u16
Index == 0 .. Last - First - 1            \* the indices of the vector
Port  == First .. Last - 1                \* the ports the range can hand out

NoPort == U16                             \* None
Crash  == U16 + 1                         \* the call panicked
NoArg  == U16

Call == [op : {"new", "aquire", "acquire", "release"},
         arg : Word \cup {NoArg}, res : Word \cup {NoPort, Crash}]

Result(op, arg, res) == ret' = [op |-> op, arg |-> arg, res |-> res]

Init ==
  /\ used   = [i \in Index |-> FALSE]
  /\ grants = [p \in Word |-> 0]
  /\ ret    = [op |-> "new", arg |-> NoArg, res |-> NoPort]

-----------------------------------------------------------------------------
(* The caller that gets a port counts as a holder until it gives it back.  *)
Grant(p) == grants' = [grants EXCEPT ![p] = @ + 1]

(* Marks index i as used. *)
BugPush(i) ==                              \* mutant: a flag is added, none is set
  used' = [j \in 0 .. Cardinality(DOMAIN used) |-> j \in DOMAIN used => used[j]]
BugMarkNothing(i) == used' = used          \* mutant: the flag is never set
Mark(i)           == used' = [used EXCEPT ![i] = TRUE]

(* The index the scan of aquire_port stops at: the lowest clear flag. *)
FirstClear(i) == ~used[i] /\ \A j \in Index : j < i => used[j]

AquirePort ==
  \/ \E i \in Index :
       LET port == (First + i) % U16 IN
       /\ FirstClear(i)
       /\ Mark(i)
       /\ Grant(port)
       /\ Result("aquire", NoArg, port)
  \/ /\ \A i \in Index : used[i]
     /\ Result("aquire", NoArg, NoPort)
     /\ UNCHANGED << used, grants >>

(* The bounds test of acquire_port lets the end itself through. *)
OutOfRange(p) == p < First \/ p > Last

AcquirePort(p) ==
  LET i == p - First IN
  \/ /\ OutOfRange(p)
     /\ Result("acquire", p, NoPort)
     /\ UNCHANGED << used, grants >>
  \/ /\ ~OutOfRange(p) /\ i \notin Index
     /\ Result("acquire", p, Crash)
     /\ UNCHANGED << used, grants >>
  \/ /\ ~OutOfRange(p) /\ i \in Index /\ ~used[i]
     /\ Mark(i)
     /\ Grant(p)
     /\ Result("acquire", p, p)
  \/ /\ ~OutOfRange(p) /\ i \in Index /\ used[i]
     /\ Result("acquire", p, NoPort)
     /\ UNCHANGED << used, grants >>

(* port - inner.start: in a release build a u16 subtraction wraps; a debug *)
(* build panics at once.  Either way the index is then out of bounds.      *)
BugOffByOne(p)  == (p - First + 1 + U16) % U16          \* mutant
BugSaturate(p)  == IF p < First THEN 0 ELSE p - First   \* mutant: saturating_sub
ReleaseIndex(p) == (p - First + U16) % U16

(* No caller in src/ releases a port: the action stands for a caller that  *)
(* gives back a port it holds, or passes a port that was never its own.    *)
ReleasePort(p) ==
  LET i == ReleaseIndex(p) IN
  /\ grants[p] > 0 \/ p \notin Port
  /\ \/ /\ p > Last
        /\ Result("release", p, NoPort)
        /\ UNCHANGED << used, grants >>
     \/ /\ p <= Last /\ i \notin Index
        /\ Result("release", p, Crash)
        /\ UNCHANGED << used, grants >>
     \/ /\ p <= Last /\ i \in Index
        /\ used' = [used EXCEPT ![i] = FALSE]
        /\ grants' = [grants EXCEPT ![p] = IF @ > 0 THEN @ - 1 ELSE 0]
        /\ Result("release", p, p)

Next ==
  \/ AquirePort
  \/ \E p \in Word : AcquirePort(p)
  \/ \E p \in Word : ReleasePort(p)

Spec == Init /\ [][Next]_vars

-----------------------------------------------------------------------------
(* Types of the flags, of the holders' count and of the last answer. *)
TypeOK ==
  /\ used \in [Index -> BOOLEAN]
  /\ grants \in [Word -> Nat]
  /\ ret \in Call

(* connman hands a port to one proxy at a time: no call answers a port     *)
(* that somebody still holds, and only ports inside the vector are handed  *)
(* out (aquire_port and acquire_port of connman.rs).                       *)
Exclusive ==
  /\ \A p \in Word : grants[p] <= 1
  /\ \A p \in Word : grants[p] = 1 => p \in Port

(* The flags are exactly the held ports: none is lost, so aquire_port says *)
(* None ("No port left on docker host") only when all ports are out.       *)
NothingLost ==
  /\ \A p \in Port : used[p - First] <=> grants[p] = 1
  /\ ret.op = "aquire" /\ ret.res = NoPort => \A p \in Port : grants[p] = 1

(* A release below the range can not free another holder's port: the       *)
(* wrapped subtraction always lands outside the vector.  The only calls    *)
(* that panic are acquire_port and release_port at the end of the range    *)
(* and release_port below its start.                                       *)
CrashOnlyAtBoundary ==
  /\ ret.res = Crash => \/ ret.arg = Last
                        \/ ret.op = "release" /\ ret.arg < First
  /\ ret.op = "release" /\ ret.arg < First => ret.res = Crash

(* PortRange implements the abstract pool: the held ports are the ports    *)
(* whose flag is set.                                                      *)
Held == {p \in Port : used[p - First]}

Pool == INSTANCE PortPool WITH
          Other <- Word \ Port, Failure <- {NoPort, Crash}, Full <- NoPort, held <- Held

(* connman.rs: every aquire_port and acquire_port takes a port nobody      *)
(* holds or is refused for a reason, every release_port returns one that   *)
(* is held, and no call changes more than the port it answers.             *)
ImplementsPool == Pool!Spec
=============================================================================
