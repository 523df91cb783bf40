--------------------------- MODULE ProxyLifeProofs --------------------------
(* Proofs about ProxyLife, for any number of proxies and connections. *)
EXTENDS ProxyLife, DockerManProofs, FiniteSetTheorems, TLAPS

(* The connections the counter stands for. *)
Open(c) == {k \in Conn : link[c][k] = "active"}

Counted == \A c \in Container : active[c] = Cardinality(Open(c))

TypeInv == ProxyTypeOK /\ Counted

(* Nothing serves a proxy before it is registered. *)
NotYet ==
  \A c \in Container : stage[c] = "created" =>
    /\ c \notin proxies \cup cancelled
    /\ listener[c] = "none" /\ track[c] = "none"
    /\ \A w \in Cleaner : cleaner[c][w] = "none"

AliveInv == TypeInv /\ NotYet /\ RegisteredIsAlive

Links == << link, tries, active >>
Tasks == << stage, proxies, cancelled, listener, cleaner, track >>

-----------------------------------------------------------------------------
(* The counter is the number of open connections, so it never underflows.  *)

LEMMA OpenFinite ==
  ASSUME NEW c \in Container
  PROVE  IsFiniteSet(Open(c)) /\ Cardinality(Open(c)) \in Nat
<1>1. IsFiniteSet(Conn) /\ Open(c) \subseteq Conn
  BY ProxyAssumption DEF Open
<1> QED BY <1>1, FS_Subset, FS_CardinalityType

(* A connection gets through: one more is open. *)
LEMMA OpensOne ==
  ASSUME TypeInv, NEW c \in Container, NEW k \in Conn, link[c][k] # "active",
         link' = [link EXCEPT ![c][k] = "active"],
         active' = [active EXCEPT ![c] = @ + 1]
  PROVE  active' \in [Container -> Nat] /\ Counted'
<1> USE DEF TypeInv, ProxyTypeOK
<1>1. active' \in [Container -> Nat]
  OBVIOUS
<1>2. Open(c)' = Open(c) \cup {k} /\ k \notin Open(c)
  BY DEF Open
<1>3. active'[c] = Cardinality(Open(c)')
  <2>1. Cardinality(Open(c) \cup {k}) = Cardinality(Open(c)) + 1
    BY <1>2, OpenFinite, FS_AddElement
  <2> QED BY <1>2, <2>1 DEF Counted
<1>4. ASSUME NEW d \in Container, d # c PROVE active'[d] = Cardinality(Open(d)')
  BY <1>4 DEF Open, Counted
<1> QED BY <1>1, <1>3, <1>4 DEF Counted

(* An open connection ends: one less is open. *)
LEMMA ClosesOne ==
  ASSUME TypeInv, NEW c \in Container, NEW k \in Conn, link[c][k] = "active",
         link' = [link EXCEPT ![c][k] = "none"],
         active' = [active EXCEPT ![c] = @ - 1]
  PROVE  active' \in [Container -> Nat] /\ Counted'
<1> USE DEF TypeInv, ProxyTypeOK
<1>1. Open(c)' = Open(c) \ {k} /\ k \in Open(c)
  BY DEF Open
<1>2. /\ Cardinality(Open(c)') = Cardinality(Open(c)) - 1
      /\ Cardinality(Open(c)') \in Nat
  BY <1>1, OpenFinite, FS_RemoveElement, FS_CardinalityType
<1>3. active'[c] = Cardinality(Open(c)')
  BY <1>2 DEF Counted
<1>4. ASSUME NEW d \in Container, d # c PROVE active'[d] = Cardinality(Open(d)')
  BY <1>4 DEF Open, Counted
<1>5. active' \in [Container -> Nat]
  BY <1>2, <1>3
<1> QED BY <1>3, <1>4, <1>5 DEF Counted

(* A connection that is not open comes or goes without the counter. *)
LEMMA OpensNone ==
  ASSUME TypeInv, NEW c \in Container, NEW k \in Conn, link[c][k] # "active",
         NEW s \in {"none", "run", "dial"}, link' = [link EXCEPT ![c][k] = s],
         UNCHANGED active
  PROVE  active' \in [Container -> Nat] /\ Counted'
<1>1. ASSUME NEW d \in Container PROVE Open(d)' = Open(d)
  BY DEF Open, TypeInv, ProxyTypeOK
<1> QED BY <1>1 DEF Counted, TypeInv, ProxyTypeOK

LEMMA LinksSame ==
  ASSUME TypeInv, UNCHANGED Links
  PROVE  Counted'
BY DEF Counted, Open, Links, TypeInv

-----------------------------------------------------------------------------
(* One lemma per group of actions: AliveInv is preserved.                  *)

LEMMA InitAlive == ProxyInit => AliveInv
<1> SUFFICES ASSUME ProxyInit PROVE AliveInv
  OBVIOUS
<1>1. ProxyTypeOK
  BY ProxyAssumption DEF ProxyInit, ProxyTypeOK
<1>2. Counted
  <2>1. ASSUME NEW c \in Container PROVE Open(c) = {}
    BY DEF Open, ProxyInit
  <2> QED BY <2>1, FS_EmptySet DEF Counted, ProxyInit
<1> QED BY <1>1, <1>2 DEF AliveInv, TypeInv, NotYet, RegisteredIsAlive, ProxyInit

(* Whatever leaves the proxies and their tasks alone. *)
LEMMA TasksSame ==
  ASSUME AliveInv, UNCHANGED Tasks
  PROVE  NotYet' /\ RegisteredIsAlive'
BY DEF AliveInv, NotYet, RegisteredIsAlive, Tasks

(* handle_tcp_proxy registers the proxy before anything can end it, and    *)
(* spawns its listener after that.                                         *)
LEMMA HandlerAlive ==
  ASSUME AliveInv, NEW c \in Container, Register(c) \/ Listen(c)
  PROVE  AliveInv'
<1> USE DEF AliveInv, TypeInv, ProxyTypeOK
<1>1. Counted'
  BY LinksSame DEF Register, Listen, Links
<1>2. CASE Register(c)
  <2>1. ProxyTypeOK'
    BY <1>2 DEF Register
  <2>2. NotYet'
    BY <1>2 DEF Register, NotYet
  <2>3. RegisteredIsAlive'
    BY <1>2 DEF Register, NotYet, RegisteredIsAlive
  <2> QED BY <1>1, <2>1, <2>2, <2>3
<1>3. CASE Listen(c)
  <2>1. ProxyTypeOK'
    BY <1>3 DEF Listen
  <2>2. NotYet'
    BY <1>3 DEF Listen, NotYet
  <2>3. RegisteredIsAlive'
    BY <1>3 DEF Listen, RegisteredIsAlive
  <2> QED BY <1>1, <2>1, <2>2, <2>3
<1> QED BY <1>2, <1>3

(* The listener itself comes up, goes deaf or ends. *)
LEMMA ListenerAlive ==
  ASSUME AliveInv, NEW c \in Container, Bind(c) \/ AcceptError(c) \/ SeesCancel(c)
  PROVE  AliveInv'
<1> USE DEF AliveInv, TypeInv, ProxyTypeOK
<1>1. PICK s \in {"open", "deaf", "ended"} :
         listener[c] # "none" /\ listener' = [listener EXCEPT ![c] = s]
  BY DEF Bind, AcceptError, SeesCancel, ListenerGoes
<1>2. UNCHANGED << vars, stage, proxies, cancelled, cleaner, track, idle, link,
                   tries, active, tui >>
  BY DEF Bind, AcceptError, SeesCancel
<1>3. Counted'
  BY <1>2, LinksSame DEF Links
<1>4. ProxyTypeOK'
  BY <1>1, <1>2
<1>5. NotYet' /\ RegisteredIsAlive'
  BY <1>1, <1>2 DEF NotYet, RegisteredIsAlive
<1> QED BY <1>3, <1>4, <1>5

(* Whoever begins a cleanup has taken the proxy out of the registry in the *)
(* same step; the two cleanups may both be under way.                      *)
LEMMA RemoveAlive ==
  ASSUME AliveInv, NEW c \in Container, ListenerRemoves(c) \/ RemoveProxy(c)
  PROVE  AliveInv'
<1> USE DEF AliveInv, TypeInv, ProxyTypeOK
<1>1. PICK w \in Cleaner : cleaner' = [cleaner EXCEPT ![c][w] = "stop"]
  BY DEF ListenerRemoves, RemoveProxy, Cleaner
<1>2. /\ proxies' = proxies \ {c}
      /\ UNCHANGED << vars, stage, cancelled, listener, track, idle, link, tries,
                      active, tui >>
  BY DEF ListenerRemoves, RemoveProxy
<1>3. stage[c] # "created"
  BY DEF ListenerRemoves, RemoveProxy, NotYet
<1>4. Counted'
  BY <1>2, LinksSame DEF Links
<1>5. ProxyTypeOK'
  BY <1>1, <1>2
<1>6. NotYet' /\ RegisteredIsAlive'
  BY <1>1, <1>2, <1>3 DEF NotYet, RegisteredIsAlive
<1> QED BY <1>4, <1>5, <1>6

LEMMA CleanupAlive ==
  ASSUME AliveInv, NEW c \in Container, NEW w \in Cleaner,
         CleanupStop(c, w) \/ CleanupFinish(c, w)
  PROVE  AliveInv'
<1> USE DEF AliveInv, TypeInv, ProxyTypeOK
<1>1. /\ cleaner[c][w] # "none"
      /\ \E s \in {"finish", "done", "error"} : cleaner' = [cleaner EXCEPT ![c][w] = s]
      /\ cancelled' \in {cancelled, cancelled \cup {c}}
  BY DEF CleanupStop, CleanupFinish
<1>2. UNCHANGED << stage, proxies, listener, track, idle, link, tries, active, tui >>
  BY DEF CleanupStop, CleanupFinish
<1>3. stage[c] # "created" /\ c \notin proxies
  BY <1>1 DEF NotYet, RegisteredIsAlive
<1>4. Counted'
  BY <1>2, LinksSame DEF Links
<1>5. ProxyTypeOK'
  BY <1>1, <1>2
<1>6. NotYet' /\ RegisteredIsAlive'
  BY <1>1, <1>2, <1>3 DEF NotYet, RegisteredIsAlive
<1> QED BY <1>4, <1>5, <1>6

(* The tracker ends only once the token is cancelled. *)
LEMMA TrackerAlive ==
  ASSUME AliveInv, NEW c \in Container, Poll(c) \/ TrackerStops(c) \/ Wake(c)
  PROVE  AliveInv'
<1> USE DEF AliveInv, TypeInv, ProxyTypeOK
<1>1. /\ track[c] # "none"
      /\ \E s \in {"ended", "sleep", "stop", "poll"} :
           track' = [track EXCEPT ![c] = s] /\ (s = "ended" => c \in cancelled)
      /\ \E t \in 0 .. Timeout : idle' \in {idle, [idle EXCEPT ![c] = t]}
  BY ProxyAssumption DEF Poll, TrackerStops, Wake
<1>2. UNCHANGED << stage, proxies, cancelled, listener, cleaner, link, tries,
                   active, tui >>
  BY DEF Poll, TrackerStops, Wake
<1>3. Counted'
  BY <1>2, LinksSame DEF Links
<1>4. ProxyTypeOK'
  BY <1>1, <1>2
<1>5. NotYet' /\ RegisteredIsAlive'
  BY <1>1, <1>2 DEF NotYet, RegisteredIsAlive
<1> QED BY <1>3, <1>4, <1>5

(* Connections touch neither the registry nor the tasks of the proxy. *)
LEMMA LinkAlive ==
  ASSUME AliveInv, NEW c \in Container, NEW k \in Conn,
         Accept(c, k) \/ RequestStart(c, k) \/ Dial(c, k) \/ Close(c, k)
  PROVE  AliveInv'
<1> USE DEF AliveInv, TypeInv, ProxyTypeOK
<1>1. UNCHANGED << stage, proxies, cancelled, listener, cleaner, track, idle, tui >>
  BY DEF Accept, RequestStart, Dial, Close
<1>2. NotYet' /\ RegisteredIsAlive'
  BY <1>1, TasksSame DEF Tasks
<1>3. tries' \in [Container -> [Conn -> 0 .. MaxTries]]
  <2>1. MaxTries \in Nat \ {0} /\ tries[c][k] \in 0 .. MaxTries
    BY ProxyAssumption
  <2>2. CASE UNCHANGED tries
    BY <2>2
  <2>3. ASSUME NEW t \in 0 .. MaxTries, tries' = [tries EXCEPT ![c][k] = t]
        PROVE  tries' \in [Container -> [Conn -> 0 .. MaxTries]]
    BY <2>3
  <2>4. CASE tries[c][k] > 1 /\ tries' = [tries EXCEPT ![c][k] = @ - 1]
    <3>1. tries[c][k] - 1 \in 0 .. MaxTries
      BY <2>1, <2>4
    <3> QED BY <2>3, <2>4, <3>1
  <2>5. 0 \in 0 .. MaxTries /\ MaxTries \in 0 .. MaxTries
    BY <2>1
  <2> QED BY <2>2, <2>3, <2>4, <2>5 DEF Accept, RequestStart, Dial, Close
<1>4. link' \in [Container -> [Conn -> {"none", "run", "dial", "active"}]]
  <2>1. ASSUME NEW t \in {"none", "run", "dial", "active"},
               link' = [link EXCEPT ![c][k] = t]
        PROVE  link' \in [Container -> [Conn -> {"none", "run", "dial", "active"}]]
    BY <2>1
  <2> QED BY <2>1 DEF Accept, RequestStart, Dial, Close, Moves
<1>5. active' \in [Container -> Nat] /\ Counted'
  <2>1. CASE Accept(c, k)
    BY <2>1, OpensNone DEF Accept
  <2>2. CASE RequestStart(c, k)
    BY <2>2, OpensNone DEF RequestStart, Moves
  <2>3. CASE Dial(c, k)
    <3>1. CASE Moves(c, k, "dial", "active") /\ active' = [active EXCEPT ![c] = @ + 1]
      BY <3>1, OpensOne DEF Moves
    <3>2. CASE UNCHANGED << link, active >>
      BY <3>2 DEF Counted, Open
    <3>3. CASE Moves(c, k, "dial", "none") /\ UNCHANGED active
      BY <3>3, OpensNone DEF Moves
    <3> QED BY <2>3, <3>1, <3>2, <3>3 DEF Dial
  <2>4. CASE Close(c, k)
    BY <2>4, ClosesOne DEF Close, Moves
  <2> QED BY <2>1, <2>2, <2>3, <2>4
<1>6. ProxyTypeOK'
  BY <1>1, <1>3, <1>4, <1>5
<1> QED BY <1>2, <1>5, <1>6

(* DockerMan's own steps, the end of the TUI and stuttering. *)
LEMMA OtherAlive ==
  ASSUME AliveInv, DockerStep \/ TuiQuits \/ UNCHANGED allVars
  PROVE  AliveInv'
<1>1. /\ UNCHANGED << stage, proxies, cancelled, listener, cleaner, track, idle,
                      link, tries, active >>
      /\ tui' \in {tui, "gone"}
  BY DEF DockerStep, TuiQuits, proxyVars, allVars
<1>2. NotYet' /\ RegisteredIsAlive'
  BY <1>1, TasksSame DEF Tasks
<1>3. Counted' /\ ProxyTypeOK'
  BY <1>1, LinksSame DEF Links, AliveInv, TypeInv, ProxyTypeOK
<1> QED BY <1>2, <1>3 DEF AliveInv, TypeInv

LEMMA StepAlive == AliveInv /\ [ProxyNext]_allVars => AliveInv'
BY HandlerAlive, ListenerAlive, RemoveAlive, CleanupAlive, TrackerAlive, LinkAlive,
   OtherAlive DEF ProxyNext

-----------------------------------------------------------------------------
THEOREM ProxyInvariance == ProxySpec => []AliveInv
BY InitAlive, StepAlive, PTL DEF ProxySpec

(* The counter the tracker samples is the number of open connections at    *)
(* every moment: it never underflows, and zero means that none is open.    *)
THEOREM ProxyTypeCorrect == ProxySpec => []ProxyTypeOK /\ []Counted
<1>1. AliveInv => ProxyTypeOK /\ Counted
  BY DEF AliveInv, TypeInv
<1> QED BY <1>1, ProxyInvariance, PTL

(* A proxy in the registry is fully served, whatever removals and ends of  *)
(* listeners race each other, for any number of proxies and connections.   *)
THEOREM RegisteredIsAliveHolds == ProxySpec => []RegisteredIsAlive
<1>1. AliveInv => RegisteredIsAlive
  BY DEF AliveInv
<1> QED BY <1>1, ProxyInvariance, PTL

-----------------------------------------------------------------------------
(* The proxies use the docker backend as DockerMan's callers do, so what   *)
(* was proved of it holds under their requests.                            *)

LEMMA BackendInit == ProxyInit => TableInv
<1> SUFFICES ASSUME ProxyInit PROVE TableInv
  OBVIOUS
<1>1. daemon \in [Name -> {"absent", "stopped", "running"}]
  BY DockerAssumption DEF ProxyInit
<1>2. conn \in Seq(Message) /\ Len(conn) <= Cap
  BY DockerAssumption DEF ProxyInit
<1>3. TypeOK
  BY <1>1, <1>2 DEF ProxyInit, TypeOK, Status, Progress, Answer
<1>4. IInv
  BY <1>3, DockerAssumption
     DEF ProxyInit, IInv, ConnOK, Preceded, ProgressOK, Introduced, TasksOK, RunningOK, PullOK, Op
<1>5. ASSUME NEW c \in Container PROVE Tracked(c)
  <2>1. \A op \in Op : ~Under(c, op)
    BY DEF ProxyInit, Under, Coming, InConn
  <2>2. NameOf[c] \in Name
    BY DockerAssumption
  <2>3. NameOf[c] \notin disturbed => Agree(c)
    BY <2>2 DEF ProxyInit, Agree
  <2> QED BY <2>1, <2>3 DEF ProxyInit, Tracked, Settles, NewEntry, Listed, Under, Made, Op
<1>6. \A c \in Container : AskedOnce(c)
  BY DEF ProxyInit, AskedOnce
<1> QED BY <1>4, <1>5, <1>6 DEF TableInv, AllTracked

(* A step of the proxies leaves the backend alone, asks it for a Start or  *)
(* a Stop, or is a step of its own.                                        *)
LEMMA BackendStep == [ProxyNext]_allVars => [Step]_vars
<1> SUFFICES ASSUME ProxyNext PROVE Step \/ UNCHANGED vars
  BY DEF allVars
<1>1. CASE DockerStep
  BY <1>1 DEF DockerStep, Step, Next
<1>2. ASSUME NEW c \in Container, TrackerStops(c) \/ \E w \in Cleaner : CleanupStop(c, w)
      PROVE  Step
  BY <1>2 DEF TrackerStops, CleanupStop, Step, AskOf
<1>3. ASSUME NEW c \in Container, NEW k \in Conn, RequestStart(c, k)
      PROVE  Step
  BY <1>3 DEF RequestStart, Step, AskOf
<1>4. CASE TuiQuits
  BY <1>4 DEF TuiQuits
<1>5. ASSUME NEW c \in Container,
             \/ Register(c) \/ Listen(c) \/ Bind(c) \/ SeesCancel(c) \/ ListenerRemoves(c)
             \/ AcceptError(c) \/ RemoveProxy(c) \/ Poll(c) \/ Wake(c)
             \/ \E w \in Cleaner : CleanupFinish(c, w)
             \/ \E k \in Conn : Accept(c, k) \/ Dial(c, k) \/ Close(c, k)
      PROVE  UNCHANGED vars
  BY <1>5 DEF Register, Listen, Bind, SeesCancel, ListenerRemoves, AcceptError,
              RemoveProxy, Poll, Wake, CleanupFinish, Accept, Dial, Close
<1> QED BY <1>1, <1>2, <1>3, <1>4, <1>5 DEF ProxyNext

THEOREM BackendInvariance == ProxySpec => []TableInv
BY BackendInit, BackendStep, TableStep, PTL DEF ProxySpec

(* While any number of proxies, connections, trackers and cleanups use the *)
(* backend, however many requests they have in flight, it knows every      *)
(* container it is asked about, and its table is right about each one      *)
(* with nothing on its way, the events it can not see apart.               *)
THEOREM BackendKeepsTrack == ProxySpec => []KnownContainer /\ []TableTracksDaemon
<1>1. TableInv => KnownContainer
  BY AllKnown DEF TableInv
<1> QED BY <1>1, BackendInvariance, TableTrue, PTL

(* Docker does nothing to a container that no connection, no tracker and   *)
(* no cleanup asked for, and nothing twice.                                *)
THEOREM BackendRefinement == ProxySpec => ImplementsHost
<1>1. ProxyInit => Host!Init
  <2> SUFFICES ASSUME ProxyInit PROVE Host!Init
    OBVIOUS
  <2>1. daemon \in [Name -> {"absent", "stopped", "running"}]
    BY DockerAssumption DEF ProxyInit
  <2>2. conn = << >> /\ calls = [c \in Container |-> [op \in Op |-> 0]]
    BY DEF ProxyInit
  <2> QED BY <2>1, <2>2, NothingAsked DEF Host!Init, Op, Host!Op
<1>2. TableInv /\ [Step]_vars => [Host!Next]_(Host!vars)
  BY StepMaps DEF TableInv
<1> QED BY <1>1, <1>2, BackendStep, BackendInvariance, PTL DEF ProxySpec, ImplementsHost, Host!Spec
=============================================================================
