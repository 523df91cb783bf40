# connman in TLA+

connman starts docker containers when somebody connects to the TCP or TLS
address published for them, and stops them after a minute without a connection.
A gRPC server takes three requests (RegisterImage, AddProxy, RemoveProxy), logs
them in SQLite and replays the log when it starts. This directory specifies that
program in TLA+: what each part does, what it promises, and where those promises
fail. Line numbers refer to `src/src/*.rs` of the repository.

    tlc -config PortRange.cfg PortRange.tla        # model-check one run
    tlapm PortRangeProofs.tla                      # check one module's proofs

`PROJECT.json` lists the runs with their properties, for every definition the lines it
models, for every property a mutation of the model that violates it, and the
hazards of the code that the properties were written for.

## 1. Inventory

| component | state it keeps | operations | talks to |
|---|---|---|---|
| `PortRange` (connman.rs:450-513) | a flag per port, behind a mutex | `aquire_port`, `acquire_port`, `release_port` | called by the server (host ports) and by the proxy handlers (docker ports) |
| `DockerMan` (docker.rs) | status table, container registry, a channel of ten messages | `Create`, `Pull`, `Start`, `Stop`, `UpdateStatus`; a task per docker call | docker over HTTP; its tasks report through its own channel |
| `Proxy` (proxy.rs:286-517) | connection counter, cancellation token | `new`, `run`, `handle_connection`, `cleanup` | DockerMan's channel, TUI's channel |
| `TcpListener` (proxy.rs:197-256) | a listening socket | accept until cancelled | Proxy |
| `ConnTrack` (proxy.rs:548-627) | last activity | samples the counter every 5 s, asks for a Stop after 60 s | DockerMan's channel |
| `TlsListener` (proxy.rs:55-195) | map from SNI to ProxyId | `Add`, `Remove`, accept and handshake | proxy registry, Proxy |
| `Connman` (connman.rs:168-448) | image and proxy registries, one backend or more | a task per request: RegisterImage, TcpProxy, TlsProxy, StopProxy | everything above |
| `ImplConnMan`, `Log` (server.rs) | host ports, the request log | the three gRPC handlers, `reply_log` | Connman's channel, SQLite |
| `Registry`, `TypedId` (id.rs) | values by the hash of their content | `register`, `get`, `is_valid`, `remove` | shared by the above |
| TUI (tui.rs) | rows and log lines, a cursor | `Proxy`, `Log`, `Remove` messages, keys | a thread of its own; quits on `q` |
| `FlagTransformer` (proxy.rs:630-710) | pending bytes | stream adapter | nobody: its use is commented out |
| `main.rs`, `ConnmanBuilder` | none after start-up | wiring | everything |

The hard behaviours:

* *Lag.* DockerMan decides from a status table that its tasks update through the
  channel, after docker did the work. Start and Stop are **dropped** when the
  table says they are not needed.
* *Uncoordinated cleanup.* A RemoveProxy request and the end of the listener's
  task clean up the same proxy; the listener, its connections and the tracker
  notice the cancellation at different moments, and `cleanup` may return halfway.
* *One bounded channel.* Proxies, trackers, handlers and the tasks' own reports
  wait for room in the channel of ten messages that the dispatcher drains.
* *The outside world.* Docker refuses calls, answers too late for the client's
  30 seconds, and its containers exit; accept and bind fail; the TUI ends.
* *Restart.* Docker's containers survive connman. The replay reconstructs the
  rest, in an order and with ports that need not be those of the first time.

What makes each component correct: a port has one holder, and none gets lost;
DockerMan answers every request, knows every container it is asked about, does
to docker only what it was asked to, and its table tells the truth whenever
nothing is on its way; a registered proxy is served, a removed one shuts down
completely, an idle container stops, a connection ends; the replayed server has
the proxies its clients were told of; a name in the SNI map leads to a live proxy,
and the terminal shows the proxies there are.
All hazards are listed, each at its line, in `PROJECT.json`.

## 2. Modules

| module | role |
|---|---|
| `PortPool` | abstract pool of ports: what callers expect |
| `PortRange` | the vector of flags; `ImplementsPool` |
| `PortRangeProofs` | its theorems |
| `ContainerHost` | abstract docker host: starts and stops only what was asked for, once |
| `DockerMan` | dispatcher, tasks, channel, docker; `ImplementsHost` |
| `MCDockerMan` | its instances |
| `DockerManProofs` | its theorems |
| `ProxyLife` | extends `DockerMan` with the proxies that use it |
| `MCProxyLife` | its instance |
| `ProxyLifeProofs` | its theorems, and those that `DockerManProofs` hands on to it |
| `Server` | gRPC handlers, request log, crash and replay, the handlers of Connman |
| `ServerProofs` | its tasks and its types |
| `ServerLogProofs` | what the log determines: docker ports, hence containers and ids |
| `ServerPromiseProofs` | what its clients may rely on |
| `Tui` | the terminal interface's queue, table and keys |
| `TlsListener` | extends `Tui` with the TlsListener and the handlers that keep it, the registry and the table in step |
| `TlsListenerProofs` | its theorems about the SNI map |
| `TuiProofs` | its theorems about the table |

### PortRange

`used` is the vector. Each operation holds the mutex throughout and is one
action; arguments range over the whole word, so that every bounds test is met
from both sides. `Crash` is a panic (index out of bounds, or the underflow of a
debug build); the flags are untouched by it and a tokio mutex is not poisoned.
`grants` counts the holders of each port and is a history variable: the code
does not record who holds a port. Nothing in the repository calls
`release_port`; the model's caller gives back what it holds, or a number that
was never a port of the range.

### DockerMan

| variable | code |
|---|---|
| `conn` | the mpsc channel |
| `status` | `status`, the table |
| `registered`, `images` | `container_registry`, `image_registry` |
| `create[c]`, `pull[i]` | where the task of a Create or Pull stands, and its answer |
| `calls[c][op]`, `reports[c][op]` | number of spawned `start_container`/`stop_container` tasks before the docker call, and between the call and their `UpdateStatus` |
| `daemon[n]` | docker's own state, by container name |
| `disturbed` | history: names about which the table can not know (below) |

A step is what happens between two await points: receiving a message and
spawning is one action (`Dispatch`), a docker call is one (`Call`), waiting for
room in the channel is the guard of `Send`. `ContainerId` is the hash of the
options, docker port included, so two Creates of the same name (as after a
restart) are two members of `Container` with one `NameOf`. `Within[n]` are the
other names that contain `n`: if docker has one of those, `check_container`'s
substring test takes `n` for existing. An image has one Pull at a time (bound). Faults: `"error"` (refused, no effect), `"lost"`
(effect, but the client gave up), `"exit"` (a container ends by itself).

`TableTracksDaemon` says that the table is right about a container when nothing
about it is on its way. Four things it can not see: a container found running
when its Create is handled, an exit, a lost answer, and a start and a stop under
way at the same time, whose reports may overtake each other. `disturbed` records
these, and a successful call with no opposite one under way clears the record,
because it leaves daemon and table in agreement. The property is about
everything else: failures, blocked reports, several tasks of one kind.

### ProxyLife

Starts where the Create was answered and follows `handle_tcp_proxy` from
`Proxy::new` on. `listener`, `track`, `cleaner[_]["request"]`,
`cleaner[_]["listener"]` and `link[_][k]` are the program counters of the
listener's task, the ConnTrack task, the two possible runs of `cleanup` and each
connection; `proxies` is the registry, `cancelled` the token, `active` the atomic
counter, `tui` whether its channel has a receiver. DockerMan's dispatcher and
tasks run alongside, unchanged. The tracker's look at the counter (`Poll`) and
its Stop (`TrackerStops`) are two steps, because the send waits for room.
Time: `idle` counts intervals of the tracker; `Wake` advances it by one at
least, up to the timeout. The containers are those docker had (`Leftover`): one
of a previous run may be running, and is entered as Stopped all the same.

### Server

What survives a crash is `log`, the SQLite table, and `published`, docker's
containers with the port each was created for. Everything else is a table of the
process and starts empty: `hosts` and `ports` (the two PortRanges), `images`,
`registry`, the listeners (`binding`, `listening`). `task[w]` is the request a
client, or the replay, is busy with; `at` says how far it got. An AddProxy takes
its host port, is logged, then goes through Connman: for TCP image check, docker
port, container; for TLS docker port, image check, container. Between any two of
these steps others may run, the client may leave (its handler is dropped; what
Connman has already goes on), or the server may crash.

Ids are hashes of contents, so they are the contents here: a container's name is
`[kind, image, host]`, which stands for the hash over image and host port, or
image and the SNI name derived from the host port; a ProxyId is the name with the
docker port. That is what makes a replay work at all, and what a wrong port
breaks: the same request must get the same docker port as the first time.

`PromisesSurvive` and `DialsItsContainer` are the two halves of that. They hold
except for causes that `spoilt` records at the step where they come about:
`"log"`, the database refused a write; `"order"`, a request took effect before a
conflicting one ahead of it in the log; `"port"`, a host port was handed out
that the log has already; `"docker"` and `"bind"`, docker or the socket failed a
replayed request, or the TlsListener was gone. Each is a weakness of the code and
none can be left out of its property. What remains is covered: any crash, failed
requests, removals of what is gone, exhausted docker ports. A request that was
logged and then lost with its client never takes effect before the next replay, so
every later request that conflicts with it counts as having overtaken it, which is
`"order"`; lost requests are covered only while nothing conflicts with them.

A request may *wait* in three of its steps: for docker's pull, whose stream has no
time limit (docker.rs:446-460), and for room in the TlsListener's channel
(connman.rs:249 and 415), whose loop awaits handshakes. A step that waits is one that
is enabled and not taken, so the model needs nothing but the absence of fairness
there: `Waits` names these steps and `FairSpec` assumes nothing of them.

### TlsListener and Tui

`conn`, `map` and `loop` are the listener: its channel, the SNI map and its
place in `run` (`"select"`; `"deaf"`, after an error of accept, until a
message ends the select; `"handshake"`, awaited in line; `"down"`, when
socket or certificate failed and the receiver was dropped). `adding[p]` and
`removing[p]` are the program counters of `handle_tls_proxy`, from the
registration on, and of `stop_proxy`. The TUI's queue is unbounded; senders get
an error once its thread is gone. `rows`, `selected` and `shown` are the table,
its highlighted index and the proxy whose log lines are shown: three things the
code updates at different moments. `Draw` includes ratatui 0.29's clamping of
the selection to the table, which it leaves out when the window has no room for the
table. The thread ends by `q` (`Leave`), by a panic (in `Scroll`) or by an error of
the terminal, which any call of the terminal may return (`Fail`). `LastRow` is `len() - 1` in a `usize`, with a panic
(debug build) or a wrap-around (release build) on the empty table.

The history variables: `latest`, the proxy added last for a host name; `moved`,
whether the highlight may rightly disagree with the log pane; `presses`, keys
pressed on an empty table since a drawing; `drawn`, whether that drawing had room for
the table; `panicked`, whether the thread ended by a panic. `PanicTakesTwoKeys` speaks of panics only and
only while the table is drawn: without room for it the selection survives the removal of
the last row, and a single key is enough.

A client removes only what it was answered (`Unregister`). Ids are deterministic, so a
client could name a proxy of an earlier run that is just being added again; see section 5.

## 3. Runs

| run | instance | shows |
|---|---|---|
| `PortRange` | 4 ports, word of 11 values; 337 states | at most one holder per port, no lost port, panics only at the ends of the range, refinement of `PortPool` |
| `DockerTable` | 2 ContainerIds of one name, leftover or not, all faults, channel of 2, 2 requests per container; 53 thousand states up to symmetry | `ImageFound`, `KnownContainer`, `AnsweredExists`, `TableTracksDaemon`, refinement of `ContainerHost` |
| `DockerAnswers` | 2 ContainerIds of one name, which is within another container's, channel of 2, fairness; 14 thousand states | `RequestsAnswered` |
| `DockerStartLost` | 1 container, no fault, fairness | **violates** `StartHonoured` |
| `ProxyLife` | 1 proxy, 1 connection, channel of 1, 2 requests in flight, every docker fault, bind and accept errors; 68 thousand states | `RegisteredIsAlive`, `RemovedShutsDown` |
| `ProxyNoTui` | the same with a TUI that may end, no accept error; 104 thousand states | `IdleContainerStops`, `ConnectionsResolved` |
| `ProxyTuiGone` | the same instance | **violates** `RemovedShutsDown` |
| `ProxyLeftRunning` | the same without any fault | **violates** `RemovedContainerStops` |
| `RestartRunning` | the same, the container left running by a previous process | **violates** `UnusedContainerStops` |
| `Server` | 2 clients, 1 image, TCP and TLS, 2 host and 2 docker ports, all faults, 3 log entries, crashes without bound, fairness; 1.3 million states | `PromisesSurvive`, `DialsItsContainer`, `ServesAgain` |
| `ServerPortReused` | 1 client, TCP only, no fault but the crash | **violates** `PortMapsService` |
| `TlsListener` | 2 proxies of one host name, channel of 1, keys up, down and q, fairness; 1.05 million states | `NoDeadEntry`, `LatestReachable`, `NoGhostRows`, `HighlightIsShown`, `PanicTakesTwoKeys`, `RequestsEnd` |

The violations are disagreements of the code with its comments; `findings` in
`PROJECT.json` quotes both.

* A Start that arrives between the dispatch of a Stop and its report is dropped
  (docker.rs:200): the container goes down under the waiting connection and no
  one starts it until the next connection.
* With the TUI gone, `cleanup` returns at its second statement (proxy.rs:357):
  the removed proxy's port stays open, its listener keeps accepting, its tracker
  keeps polling.
* A Stop of `cleanup` that meets a start not yet reported is dropped
  (proxy.rs:353), and the tracker that would have asked again is cancelled.
* A container found running when its Create is handled is entered as Stopped
  (docker.rs:322), so that every Stop of its tracker is dropped.
* The replay does not await `acquire_port` (server.rs:334). The next AddProxy gets
  the host port of a replayed one; with the same image the same container name,
  hence a container that publishes another port than the proxy dials.

*Bounds and why they are enough.* `Cap` is 1 or 2 instead of 10: all that matters of
the capacity is that senders block and that a message can be queued behind
another. `MaxLoad` bounds the Starts and Stops of a container that are queued or
carried out: two are needed for a start and a stop to overlap, which is where
the table goes wrong. Two ContainerIds of one name race in every pair of steps;
more of them add no new pair. `MaxTries` 2 for 100 and `Timeout` 1 for 12 keep
"first", "last" and "not yet". One connection suffices for the races of its Start
and its counter with tracker and cleanup. A single proxy does: proxies
share nothing but the channel, and the proofs of section 4 cover any number.
In `Server`, three log entries hold a registration and two proxies, or a proxy and
its removal; two docker ports are enough to be exchanged and to run out; one
failure of the log is considered. In `TlsListener` the two proxies share a host
name, which is where they can disturb each other; proxies of different names
meet in the channel and the table only, and section 4 covers any number of both.
A log line is sent while the TUI's queue is empty (`MaxLines`); rows and removals
queue up behind it without bound. `Word` is 3, so that a wrapped index lies past
two rows. `DockerTable` uses the symmetry of the two containers, which all its constants
respect and which is sound for its invariants and its safety refinement.

*Deadlock* is checked except in the ProxyLife runs, where a removed proxy
rightly comes to rest, and in `TlsListener`, where the listener may be down, the
TUI gone and every request over.

*Fairness.* Weak fairness of the dispatcher, of the docker calls and of tasks
that do not wait: tokio polls every ready task, and the HTTP client gives up after
30 seconds without an answer to a listing, a start or a stop. That limit does not
end the stream of a pull: `FinishPull` and `Make`, which may pull, have no fairness, and
`RequestsAnswered` states as its premise that pulls end (`PullsEnd`). Strong fairness of the actions that send: tokio's bounded
channel hands its permits out in order, so no sender waits for ever while others
go ahead. `SeesCancel` needs no more than weak fairness because the select's
cancellation branch stays ready. No fairness is assumed of clients, of the user
of the TUI, of a connection's end or of any fault. In `ProxyLife` the bound
`MaxLoad` can hold back the tracker's wake-up, and its strong fairness covers
that too. `ServesAgain` takes weak fairness of the replay, one task, in the steps that
do not wait, and has two premises: no more crashes from some time on, and no step of
the replay that waits for ever, which the code does not enforce. `RequestsEnd` takes strong fairness of the listener's
receive, because its select picks a ready branch at random, and states as its
premise what the code does not enforce: that no handshake lasts for ever.

## 4. Proofs

All theorems hold for every value of the constants that satisfies the module's
ASSUME: `RangeAssumption` (`First < Last < U16`, the `assert!` of `PortRange::new`
and the u16), `DockerAssumption` (types, a capacity of at least one),
`ProxyAssumption` (finitely many connections, at least one try), `ServerAssumption`
(finitely many clients at a time, ports that are numbers), `TuiAssumption`
(a word of at least one value, an id that is no proxy's) and `TlsAssumption` (a
capacity of at least one).

*PortRangeProofs.* `IInv` adds to the properties that a port's flag is set
exactly when its count of holders is one, that other numbers have no holder, and
that a refusal of `aquire_port` found all flags set. `Exclusive` alone is not
inductive: without the flags, nothing keeps a held port from being found free.
The arithmetic is in `PortIndex` and `ReleaseOutside`: a subtraction that
wraps lands outside the vector, because the vector is shorter than the distance
from its last port to the end of the word. `Refinement` maps every call to a
step of `PortPool`.

*DockerManProofs.* The argument for `KnownContainer` is an order in the channel:
the Create's task puts the entry into the channel *before* it answers, and only
the holder of the answer sends Starts and Stops, so in a FIFO channel the entry
is always ahead. `Preceded` says it of each message, `ProgressOK` of each
answered Create; three lemmas (`ConnUnchanged`, `ConnSent`, `ConnReceived`) say
how the order survives a step that leaves, extends or consumes the channel, and
each action is one application of them. `ConnOK` and `RunningOK` carry the
registries along. The same invariant gives `ImageFound`. `AnsweredExists` needs that
no step makes a container absent (`ContainersStay`) and that only `Check` and
`Make` bring a Create to success (`MadeHere`).

`TableTracksDaemon` says nothing while something is under way, so its invariant
has to. `Settles`, for a container that is alone in its name and not disturbed: a
start and a stop are never under way together; whatever is on its way to the table
is what the daemon has; and with nothing on its way the table agrees already. Two
more facts make it inductive. `NewEntry`: between its creation and its entry a
container has no task, so the entry cannot overwrite a report. `AskedOnce`: a
Create is in the channel only while its caller waits, and once, so that no
container is created again behind the table's back. The messages counted are those
about one container; `SentView` and `ReceivedView` say what each step does to them.

`HostRefinement` maps DockerMan to `ContainerHost`. The outstanding requests of the
abstract host are those in the channel plus the tasks before their docker call
(`Asked`). `CountSent` and `CountReceived` are the two facts about a queue it takes,
by the library's theorems on cardinalities: an append adds one place for the message
and none for another, and after a receive the places move up by one, which is a
bijection. Sending is then `Ask`, a call `Serve` or `TurnDown`, a dropped request
`TurnDown`; an accepted one leaves the count as it was, one message less, one
task more.

All of these lemmas are about `Step`, which is `Next` without the bound `MaxLoad`
on the requests in flight.

*ProxyLifeProofs.* `RegisteredIsAlive` needs `NotYet`, that nothing is torn down
before it was registered; together they are inductive because both ways to
begin a cleanup take the proxy out of the registry in the same step. The
type of the counter needs that it *is* the number of open connections
(`Counted`), by the library's facts on cardinalities. The rest is composition: each
step of the proxies is a `Step` of DockerMan or leaves it alone (`BackendStep`), and
they start from a state of its invariant (`BackendInit`); so `KnownContainer`,
`TableTracksDaemon` and `ImplementsHost` hold of the composed system with nothing
proved twice.

*ServerProofs* shows what each action does to the one task it moves (`Moves`), that
clients and the replay are never at work together (`Phases`), and the types; the
bound of the log counts the clients about to write, hence finitely many. Of the docker ports it needs that a set of numbers has a lowest one, which
`acquire_port` returns.

*ServerLogProofs* is the argument why a replay works at all. As long as no write to the
log failed and no request took effect out of turn (`Clean`), the docker port of each
AddProxy is a function of the log: `Plan` assigns to each entry the lowest
port that no entry before it got, to a TCP entry only if its image is registered by
then (a TLS proxy takes its port before the image is looked up).
`Follow` says that the clients' requests and any replay of them, however far it got,
keep to the plan: the ports taken are those of settled entries, tasks hold the port
planned for theirs, and every container and every proxy has it too. A crash empties
the tables and leaves the plan, which is why the invariant survives it; a new entry
extends the plan without changing what it said. `DialsItsContainer` follows
because the container of a name was created by the one entry that has the name.

*ServerPromiseProofs* adds the clients. `Promised`: what a client was told, or asked to
remove, is in the log, the removal behind the proxy. `Replayed`: what the replay is
through with has its effect again. `Kept`: a serving server's registry has what was
told and not what is gone. The ids are those of the plan and differ from entry to entry
(`SlotsDiffer`), so a logged removal takes the proxy that was meant. The
hypotheses are those of `PromisesSurvive`: the causes in `spoilt`.

*TlsListenerProofs.* The invariant is about order in the listener's channel.
`Followed`: the Add of a proxy that has left the registry is followed by its
Remove, or the Remove is still to be sent; with it `NoDeadEntry` is inductive,
because the Add that creates an entry leaves its Remove behind in the channel.
`Ahead`/`Arrived`: the last Add for a host name is either in the channel with no
other Add for that name behind it, or handled with none left; a Remove can not
touch its entry, since a registered proxy has no Remove under way (`Kept`).
`PanicTakesTwoKeys` has an invariant of its own: an empty table that was just drawn in a
window with room for it has no selection, so the first key only sets one.

*TuiProofs.* `Without` removes a proxy's rows from the table by a recursive function, so
first come the facts on it, by induction over the rows (`InductSet`, an induction
written as a set, since the library's cannot be instantiated): other rows stay, once
each (`OnlyRows`, `AllRows`, `OnceEach`), and those above the first removed one keep
their index (`TopRows`). `HighlightIsShown` is inductive with the types, one step per
action: an index that left the table is recorded in `moved` until a key brings it back. For `NoGhostRows`, `RowOf` follows the row of each
proxy: in the table or in the queue, never both, from the handler's message until its
removal has arrived. `RemovalOf`: a removal is behind the row it removes, or the
row is in the table already. That is the order of `handle_tls_proxy` and `stop_proxy`,
carried through a queue of any length.

*Only model-checked:* everything under fairness (`RequestsAnswered`,
`RemovedShutsDown`, `IdleContainerStops`, `ConnectionsResolved`, `ServesAgain`,
`RequestsEnd`), since the prover does not handle liveness. Every invariant of every
passing run and both refinements are theorems.

## 5. Not modelled, and what could follow

*Not modelled.* `main.rs` and the builder: sequential wiring, no state of its own.
The generated gRPC code. The TUI's rendering and its log lines. `FlagTransformer`:
its only use is commented out (proxy.rs:458). More than one docker backend: `main`
configures one; with several, the TLS handler may take its port from one backend
and create the container on another (connman.rs:361 and 371). Collisions of
the 64-bit hashes that serve as ids. Docker's pull progress and the bytes of
proxied streams. Ids that a client kept from an earlier run of the server and uses
while the same proxy is being added again: its Remove may then get ahead of the Add or of
the row, and map entry or row stay. Two RegisterImage requests for one image at a
time. The `ok` field of answers: `register_image` says `ok: false` on success as well
(server.rs:126), and no property depends on it.

*Could follow.* The rows of TCP proxies beside their listener, where a failed bind
may overtake the row (connman.rs:335). The tracker's Stop against a connection that
got through after its look at the counter (proxy.rs:601); `ProxyLife` has the
interleaving and no property of the code's own excludes it.
