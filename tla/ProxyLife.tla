----------------------------- MODULE ProxyLife ------------------------------
(***************************************************************************)
(* The life of a TCP proxy (proxy.rs, with handle_tcp_proxy and stop_proxy *)
(* of connman.rs) together with the DockerMan it talks to: the listener,   *)
(* the connections it accepts, the tracker that stops an idle container,   *)
(* and the two ways a proxy is cleaned up, by a RemoveProxy request and by *)
(* the listener's own task once it ended.  They share the registry, the    *)
(* connection counter and the cancellation token, and run concurrently.    *)
(*                                                                         *)
(* There is one proxy per ContainerId and it is named by it.  The module   *)
(* starts when the Create of every container has just been answered: one   *)
(* left over by a previous run may be running, and is entered as Stopped.  *)
(***************************************************************************)
EXTENDS DockerMan

CONSTANTS
  Conn,          \* bound: connections of a proxy at the same time
  MaxTries,      \* dials before a connection is given up, 100 in the code
  Timeout,       \* idle time before a stop, in intervals of the tracker: 12
  TuiMayQuit,    \* whether the TUI thread may end while the server runs
  AcceptMayFail  \* whether accept may return an error

ASSUME ProxyAssumption ==
  /\ IsFiniteSet(Conn) /\ MaxTries \in Nat \ {0} /\ Timeout \in Nat \ {0}
  /\ TuiMayQuit \in BOOLEAN /\ AcceptMayFail \in BOOLEAN

VARIABLES
  stage,         \* how far handle_tcp_proxy got with the proxy
  proxies,       \* proxy_registry
  cancelled,     \* proxies whose cancellation token is cancelled
  listener,      \* the listener's task
  cleaner,       \* the cleanup of a proxy, per task that runs it
  track,         \* the ConnTrack task
  idle,          \* intervals since the tracker's last_activity
  link,          \* the connections of a proxy
  tries,         \* no_of_try of each connection
  active,        \* active_connection, the counter the tracker samples
  tui            \* whether the TUI still receives messages

proxyVars == << stage, proxies, cancelled, listener, cleaner, track, idle,
                link, tries, active, tui >>
allVars   == << vars, proxyVars >>

Cleaner == {"request", "listener"}

ProxyInit ==
  /\ conn = << >>
  /\ status = [c \in Container |-> "Stopped"]
  /\ registered = Container
  /\ images = Image
  /\ create = [c \in Container |-> "ok"]
  /\ pull = [i \in Image |-> "ok"]
  /\ calls = [c \in Container |-> [op \in Op |-> 0]]
  /\ reports = [c \in Container |-> [op \in Op |-> 0]]
  /\ daemon \in [Name -> Leftover \ {"absent"}]
  /\ disturbed = {n \in Name : daemon[n] = "running"}
  /\ stage = [c \in Container |-> "created"]
  /\ proxies = {}
  /\ cancelled = {}
  /\ listener = [c \in Container |-> "none"]
  /\ cleaner = [c \in Container |-> [w \in Cleaner |-> "none"]]
  /\ track = [c \in Container |-> "none"]
  /\ idle = [c \in Container |-> 0]
  /\ link = [c \in Container |-> [k \in Conn |-> "none"]]
  /\ tries = [c \in Container |-> [k \in Conn |-> 0]]
  /\ active = [c \in Container |-> 0]
  /\ tui = "on"

\* Bound: nothing new happens to a proxy with MaxLoad requests in flight.
Room(c) == Load(c) < MaxLoad

-----------------------------------------------------------------------------
(* handle_tcp_proxy after the container was created.                       *)

(* Proxy::new spawns the tracker; the proxy enters the registry, where a   *)
(* RemoveProxy may find it at once.                                        *)
Register(c) ==
  /\ stage[c] = "created"
  /\ stage' = [stage EXCEPT ![c] = "registered"]
  /\ proxies' = proxies \cup {c}
  /\ track' = [track EXCEPT ![c] = "poll"]
  /\ UNCHANGED << vars, cancelled, listener, cleaner, idle, link, tries, active, tui >>

(* The listener's task is spawned and the request is answered with success *)
(* whatever becomes of the listener.                                       *)
Listen(c) ==
  /\ stage[c] = "registered"
  /\ stage' = [stage EXCEPT ![c] = "answered"]
  /\ listener' = [listener EXCEPT ![c] = "bind"]
  /\ UNCHANGED << vars, proxies, cancelled, cleaner, track, idle, link, tries, active, tui >>

-----------------------------------------------------------------------------
(* TcpListener::run and the task around it.                                *)

ListenerGoes(c, from, to) ==
  /\ listener[c] = from
  /\ listener' = [listener EXCEPT ![c] = to]

(* prepare_socket may fail: the port is taken. *)
Bind(c) ==
  /\ ListenerGoes(c, "bind", "open") \/ ListenerGoes(c, "bind", "ended")
  /\ UNCHANGED << vars, stage, proxies, cancelled, cleaner, track, idle, link,
                  tries, active, tui >>

(* A connection is accepted, also when the token is cancelled already: the *)
(* select takes either branch.  Its own task runs it from then on.         *)
Accept(c, k) ==
  /\ listener[c] = "open"
  /\ link[c][k] = "none"
  /\ Room(c)
  /\ link' = [link EXCEPT ![c][k] = "run"]
  /\ UNCHANGED << vars, stage, proxies, cancelled, listener, cleaner, track,
                  idle, tries, active, tui >>

(* The pattern Ok(..) of the select does not match an error: the branch is *)
(* disabled until another one is taken, and the only other one is the end. *)
AcceptError(c) ==
  /\ AcceptMayFail
  /\ ListenerGoes(c, "open", "deaf")
  /\ UNCHANGED << vars, stage, proxies, cancelled, cleaner, track, idle, link,
                  tries, active, tui >>


SeesCancel(c) ==
  /\ c \in cancelled
  /\ ListenerGoes(c, "open", "ended") \/ ListenerGoes(c, "deaf", "ended")
  /\ UNCHANGED << vars, stage, proxies, cancelled, cleaner, track, idle, link,
                  tries, active, tui >>

\* Mutant: the task cleans up and leaves the proxy in the registry.
BugListenerRemoves(c) ==
  /\ listener[c] = "ended"
  /\ cleaner[c]["listener"] = "none"
  /\ cleaner' = [cleaner EXCEPT ![c]["listener"] = "stop"]
  /\ UNCHANGED << vars, stage, proxies, cancelled, listener, track, idle, link,
                  tries, active, tui >>

(* After the listener ended its task removes the proxy, if it still is     *)
(* there, and cleans up in any case.                                       *)
ListenerRemoves(c) ==
  /\ listener[c] = "ended"
  /\ cleaner[c]["listener"] = "none"
  /\ proxies' = proxies \ {c}
  /\ cleaner' = [cleaner EXCEPT ![c]["listener"] = "stop"]
  /\ UNCHANGED << vars, stage, cancelled, listener, track, idle, link, tries,
                  active, tui >>

-----------------------------------------------------------------------------
(* stop_proxy: of the requests that find the proxy in the registry one     *)
(* removes it and cleans up, the others are told it is not there.  Waiting *)
(* for the TlsListener to take its Remove message is part of "stop".       *)
RemoveProxy(c) ==
  /\ c \in proxies
  /\ proxies' = proxies \ {c}
  /\ cleaner' = [cleaner EXCEPT ![c]["request"] = "stop"]
  /\ UNCHANGED << vars, stage, cancelled, listener, track, idle, link, tries,
                  active, tui >>

(* Proxy::cleanup: stops the container, tells the TUI, cancels the token.  *)
(* An error of the TUI's channel leaves before the token is cancelled.     *)
CleanupStop(c, w) ==
  /\ cleaner[c][w] = "stop"
  /\ Ask(c, StopMsg(c))
  /\ cleaner' = [cleaner EXCEPT ![c][w] = "finish"]
  /\ UNCHANGED << stage, proxies, cancelled, listener, track, idle, link,
                  tries, active, tui >>

CleanupFinish(c, w) ==
  /\ cleaner[c][w] = "finish"
  /\ \/ /\ tui = "on"
        /\ cancelled' = cancelled \cup {c}
        /\ cleaner' = [cleaner EXCEPT ![c][w] = "done"]
     \/ /\ tui = "gone"
        /\ cleaner' = [cleaner EXCEPT ![c][w] = "error"]
        /\ UNCHANGED cancelled
  /\ UNCHANGED << vars, stage, proxies, listener, track, idle, link, tries,
                  active, tui >>

(* The user leaves the TUI, or it never came up for want of a terminal.    *)
TuiQuits ==
  /\ TuiMayQuit /\ tui = "on"
  /\ tui' = "gone"
  /\ UNCHANGED << vars, stage, proxies, cancelled, listener, cleaner, track,
                  idle, link, tries, active >>

-----------------------------------------------------------------------------
(* ConnTrack::run.                                                         *)

(* One look at the token, the counter and the clock. *)
Poll(c) ==
  /\ track[c] = "poll"
  /\ \/ /\ c \in cancelled
        /\ track' = [track EXCEPT ![c] = "ended"]
        /\ UNCHANGED idle
     \/ /\ c \notin cancelled /\ active[c] > 0
        /\ track' = [track EXCEPT ![c] = "sleep"]
        /\ idle' = [idle EXCEPT ![c] = 0]
     \/ /\ c \notin cancelled /\ active[c] = 0
        /\ track' = [track EXCEPT ![c] = IF idle[c] >= Timeout THEN "stop" ELSE "sleep"]
        /\ UNCHANGED idle
  /\ UNCHANGED << vars, stage, proxies, cancelled, listener, cleaner, link,
                  tries, active, tui >>

\* Mutant: the tracker ends with its first Stop.
BugTrackerStops(c) ==
  /\ track[c] = "stop"
  /\ Ask(c, StopMsg(c))
  /\ track' = [track EXCEPT ![c] = "ended"]
  /\ UNCHANGED << stage, proxies, cancelled, listener, cleaner, idle, link,
                  tries, active, tui >>

TrackerStops(c) ==
  /\ track[c] = "stop"
  /\ Ask(c, StopMsg(c))
  /\ track' = [track EXCEPT ![c] = "sleep"]
  /\ idle' = [idle EXCEPT ![c] = 0]
  /\ UNCHANGED << stage, proxies, cancelled, listener, cleaner, link, tries,
                  active, tui >>

(* A sleep lasts an interval at least; a busy runtime makes it longer. *)
Wake(c) ==
  /\ track[c] = "sleep"
  /\ Room(c)
  /\ track' = [track EXCEPT ![c] = "poll"]
  /\ \E t \in 0 .. Timeout :
       /\ t > idle[c] \/ t = Timeout
       /\ idle' = [idle EXCEPT ![c] = t]
  /\ UNCHANGED << vars, stage, proxies, cancelled, listener, cleaner, link,
                  tries, active, tui >>

-----------------------------------------------------------------------------
(* Proxy::run and Proxy::handle_connection.                                *)

Moves(c, k, from, to) ==
  /\ link[c][k] = from
  /\ link' = [link EXCEPT ![c][k] = to]

RequestStart(c, k) ==
  /\ Moves(c, k, "run", "dial")
  /\ Ask(c, StartMsg(c))
  /\ tries' = [tries EXCEPT ![c][k] = MaxTries]
  /\ UNCHANGED << stage, proxies, cancelled, listener, cleaner, track, idle,
                  active, tui >>

\* Mutant: the tries are not counted.
BugDialForever(c, k) ==
  /\ \/ /\ daemon[NameOf[c]] = "running"
        /\ Moves(c, k, "dial", "active")
        /\ active' = [active EXCEPT ![c] = @ + 1]
     \/ link[c][k] = "dial" /\ UNCHANGED << link, active >>
  /\ UNCHANGED << vars, stage, proxies, cancelled, listener, cleaner, track,
                  idle, tries, tui >>

\* Mutant: the connection is not counted, only its end is.
BugDialUncounted(c, k) ==
  /\ \/ daemon[NameOf[c]] = "running" /\ Moves(c, k, "dial", "active")
     \/ tries[c][k] = 1 /\ Moves(c, k, "dial", "none")
  /\ UNCHANGED << vars, stage, proxies, cancelled, listener, cleaner, track,
                  idle, tries, active, tui >>

(* The service of a running container may not accept connections yet. *)
Dial(c, k) ==
  /\ \/ /\ daemon[NameOf[c]] = "running"
        /\ Moves(c, k, "dial", "active")
        /\ active' = [active EXCEPT ![c] = @ + 1]
        /\ UNCHANGED tries
     \/ /\ link[c][k] = "dial" /\ tries[c][k] > 1
        /\ tries' = [tries EXCEPT ![c][k] = @ - 1]
        /\ UNCHANGED << link, active >>
     \/ /\ tries[c][k] = 1 /\ Moves(c, k, "dial", "none")
        /\ tries' = [tries EXCEPT ![c][k] = 0]
        /\ UNCHANGED active
  /\ UNCHANGED << vars, stage, proxies, cancelled, listener, cleaner, track,
                  idle, tui >>

(* Either side closes, the read timeout expires, or the container stops. *)
Close(c, k) ==
  /\ Moves(c, k, "active", "none")
  /\ active' = [active EXCEPT ![c] = @ - 1]
  /\ tries' = [tries EXCEPT ![c][k] = 0]
  /\ UNCHANGED << vars, stage, proxies, cancelled, listener, cleaner, track,
                  idle, tui >>

-----------------------------------------------------------------------------
(* The part of DockerMan at work once the containers are created. *)
DockerStep ==
  /\ \/ Dispatcher
     \/ \E c \in Container, op \in Op : Call(c, op) \/ Report(c, op)
     \/ \E n \in Name : Exit(n)
  /\ UNCHANGED proxyVars

ProxyNext ==
  \/ DockerStep
  \/ TuiQuits
  \/ \E c \in Container :
       \/ Register(c) \/ Listen(c) \/ Bind(c) \/ SeesCancel(c) \/ ListenerRemoves(c)
       \/ AcceptError(c) \/ RemoveProxy(c)
       \/ Poll(c) \/ TrackerStops(c) \/ Wake(c)
       \/ \E w \in Cleaner : CleanupStop(c, w) \/ CleanupFinish(c, w)
       \/ \E k \in Conn : Accept(c, k) \/ RequestStart(c, k) \/ Dial(c, k) \/ Close(c, k)

ProxySpec == ProxyInit /\ [][ProxyNext]_allVars

Listener(c) == Register(c) \/ Listen(c) \/ Bind(c) \/ SeesCancel(c) \/ ListenerRemoves(c)
Tracker(c)  == Poll(c) \/ TrackerStops(c) \/ Wake(c)
Cleanup(c, w) == CleanupStop(c, w) \/ CleanupFinish(c, w)
Connect(c, k) == RequestStart(c, k) \/ Dial(c, k)

(* As in DockerMan: tokio polls every task, docker calls end, the channel  *)
(* is fair to waiting senders; hence strong fairness for the tasks that    *)
(* send.  (The bound on requests in flight, which may hold the tracker up, *)
(* rests on the same fairness.)  Clients, the user of the TUI and faults   *)
(* owe nothing; nor does a connection, which may stay open for ever.       *)
ProxyFairness ==
  /\ WF_allVars(Dispatcher /\ UNCHANGED proxyVars)
  /\ \A c \in Container :
       /\ \A op \in Op :
            /\ WF_allVars(Call(c, op) /\ UNCHANGED proxyVars)
            /\ SF_allVars(Report(c, op) /\ UNCHANGED proxyVars)
       /\ WF_allVars(Listener(c))
       /\ SF_allVars(Tracker(c))
       /\ \A w \in Cleaner : SF_allVars(Cleanup(c, w))
       /\ \A k \in Conn : SF_allVars(Connect(c, k))

FairProxySpec == ProxySpec /\ ProxyFairness

-----------------------------------------------------------------------------
ProxyTypeOK ==
  /\ stage \in [Container -> {"created", "registered", "answered"}]
  /\ proxies \subseteq Container /\ cancelled \subseteq Container
  /\ listener \in [Container -> {"none", "bind", "open", "deaf", "ended"}]
  /\ cleaner \in [Container -> [Cleaner -> {"none", "stop", "finish", "done", "error"}]]
  /\ track \in [Container -> {"none", "poll", "sleep", "stop", "ended"}]
  /\ idle \in [Container -> 0 .. Timeout]
  /\ link \in [Container -> [Conn -> {"none", "run", "dial", "active"}]]
  /\ tries \in [Container -> [Conn -> 0 .. MaxTries]]
  /\ active \in [Container -> Nat]
  /\ tui \in {"on", "gone"}

Removed(c) == stage[c] # "created" /\ c \notin proxies

(* While a proxy is in the registry nothing that serves it was torn down:  *)
(* the token is not cancelled, the tracker runs and no cleanup has begun.  *)
RegisteredIsAlive ==
  \A c \in proxies :
    /\ c \notin cancelled
    /\ track[c] # "ended"
    /\ \A w \in Cleaner : cleaner[c][w] = "none"

Over == {"done", "error"}

(* Removing a proxy shuts down its listener, its tracker and every cleanup *)
(* that was begun, whatever docker refuses, loses or ends and whoever      *)
(* fills its channel, as long as the TUI lives.                            *)
RemovedShutsDown ==
  \A c \in Container : Removed(c) ~>
      /\ c \in cancelled
      /\ track[c] = "ended" /\ listener[c] = "ended"
      /\ cleaner[c]["listener"] \in Over
      /\ cleaner[c]["request"] \in Over \cup {"none"}

(* No connection is stuck: it gets through to the container or is given up *)
(* after its tries, although it must first find room in the channel.       *)
ConnectionsResolved ==
  \A c \in Container, k \in Conn : link[c][k] = "run" ~> link[c][k] \in {"active", "none"}

(* A container does not run for ever without a connection: it stops, or    *)
(* somebody connects, or the proxy's token is cancelled, or the table was  *)
(* disturbed.  A removal that failed to cancel the token does not count:   *)
(* the tracker is still there to stop the container.                       *)
InUse(c) == \/ \E k \in Conn : link[c][k] # "none"
            \/ c \in cancelled

IdleContainerStops ==
  \A c \in Container :
    []<>(daemon[NameOf[c]] # "running" \/ InUse(c) \/ NameOf[c] \in disturbed)

(* The same of every container, also one found running after a restart;    *)
(* see the run refuting it.                                                *)
UnusedContainerStops ==
  \A c \in Container : []<>(daemon[NameOf[c]] # "running" \/ InUse(c))

(* A removed proxy's container does not run for ever; see the run refuting *)
(* it.                                                                     *)
RemovedContainerStops ==
  \A c \in Container : []<>(Removed(c) => daemon[NameOf[c]] # "running")
=============================================================================
