------------------------------- MODULE Server -------------------------------
(***************************************************************************)
(* The gRPC server of server.rs with its request log, and the handlers of  *)
(* connman.rs that carry the requests out.  A restart finds two things:    *)
(* the log, which is replayed request by request before the server serves, *)
(* and the containers on the docker host, which keep the port they were    *)
(* created with.  Everything else starts empty.                            *)
(*                                                                         *)
(* Ids are hashes of contents: a container's name is the request that made *)
(* it, a ProxyId is the name with the docker port.  The docker backend is  *)
(* reduced to the answer of a Create; DockerMan has the rest.              *)
(***************************************************************************)
EXTENDS Naturals, Sequences, FiniteSets

CONSTANTS
  Client,        \* gRPC clients, one request at a time each
  Replay,        \* the task that runs reply_log
  Image,         \* ImageIds
  Kind,          \* connection types in use, among "tcp" and "tls"
  HostPort,      \* ports for proxies on the host, 10000 to 29999
  DockerPort,    \* ports for containers, 30000 to 59999 on the docker host
  TlsConfigured, \* whether connman was given a certificate
  Faults,        \* kinds of fault considered, see AllFaults
  MaxLog         \* bound: requests in the log

AllFaults == {"log",      \* a write to the log fails
              "docker",   \* a docker call fails, with or without effect
              "bind",     \* somebody else has the port of a listener
              "leave"}    \* a client goes away and its handler is dropped

ASSUME ServerAssumption ==
  /\ Replay \notin Client /\ IsFiniteSet(Client)
  /\ Kind \subseteq {"tcp", "tls"} /\ TlsConfigured \in BOOLEAN
  /\ HostPort \subseteq Nat /\ DockerPort \subseteq Nat \ {0}
  /\ Faults \subseteq AllFaults /\ MaxLog \in Nat

VARIABLES
  log,           \* the table log of the database
  published,     \* docker: port of each container, 0 if there is none
  phase,         \* "replay" or "serve"
  cursor,        \* requests of the log that were replayed
  task,          \* the request each client or the replay is busy with
  hosts,         \* host ports handed out
  ports,         \* docker ports handed out
  images,        \* image_registry
  registry,      \* proxy_registry
  binding,       \* TCP proxies whose listener has not bound its port yet
  listening,     \* TCP proxies whose listener has
  settled,       \* history: entries of the log whose effect is decided
  told,          \* history: proxies a client has and did not ask to remove
  gone,          \* history: proxies a client knows to be removed
  spoilt         \* history: why a replay may differ from the first time

durable == << log, published >>
server  == << phase, cursor >>
tables  == << ports, images >>
proxies == << registry, binding, listening >>
history == << told, gone >>
vars == << durable, server, task, hosts, tables, proxies, settled, history, spoilt >>

Worker == Client \cup {Replay}

Name  == [kind : Kind, image : Image, host : HostPort]
Proxy == [name : Name, port : DockerPort]
Request == [op : {"register"}, image : Image] \cup [op : {"add"}, name : Name]
           \cup [op : {"remove"}, id : Proxy]

RegisterReq(i) == [op |-> "register", image |-> i]
AddReq(k, i, h) == [op |-> "add", name |-> [kind |-> k, image |-> i, host |-> h]]
RemoveReq(p) == [op |-> "remove", id |-> p]

Idle == [at |-> "idle"]

(* What connman does first with a request.  A TCP proxy's image is looked  *)
(* up before its docker port is taken, a TLS proxy's after it.             *)
First(req) == IF req.op # "add" THEN req.op
              ELSE IF req.name.kind = "tcp" THEN "check" ELSE "port"

Init ==
  /\ log = << >> /\ published = [n \in Name |-> 0]
  /\ phase = "replay" /\ cursor = 0
  /\ task = [w \in Worker |-> Idle]
  /\ hosts = {} /\ ports = {} /\ images = {}
  /\ registry = {} /\ binding = {} /\ listening = {}
  /\ settled = {} /\ told = {} /\ gone = {} /\ spoilt = {}

-----------------------------------------------------------------------------
(* Progress of a request: a record [at, req, entry, port], where entry is  *)
(* its place in the log, 0 for a request that is not there.                *)
At(w, step) == task[w].at = step
Become(w, t) == task' = [task EXCEPT ![w] = t]
Goto(w, step) == Become(w, [task[w] EXCEPT !.at = step])
Finish(w, ok) == Become(w, [task[w] EXCEPT !.at = IF ok THEN "ok" ELSE "error"])

(* The proxy a request makes. *)
Made(w) == [name |-> task[w].req.name, port |-> task[w].port]

(* Two requests whose order makes a difference to what they do. *)
Conflict(r, s) ==
  \/ r.op = "add" /\ s.op = "add"
  \/ r.op = "register" /\ s.op = "add" /\ r.image = s.name.image
  \/ r.op = "add" /\ s.op = "register" /\ s.image = r.name.image

(* The request takes effect before another one ahead of it in the log. *)
Overtakes(w) == \E k \in 1 .. task[w].entry - 1 :
                  k \notin settled /\ Conflict(log[k], task[w].req)

Spoil(why) == spoilt' = spoilt \cup why
SpoilOrder(w) == Spoil(IF Overtakes(w) THEN {"order"} ELSE {})
Settle(w) == settled' = settled \cup {task[w].entry}

(* PortRange::aquire_port; nothing in the program gives a port back. *)
Lowest(S) == CHOOSE x \in S : \A y \in S : x <= y

-----------------------------------------------------------------------------
(* The handlers of ImplConnMan up to their call of connman.                *)

CanAsk(c) ==
  /\ phase = "serve" /\ At(c, "idle")
  /\ Len(log) + Cardinality({d \in Client : At(d, "log")}) < MaxLog    \* bound

Ask(c, req) == /\ Become(c, [at |-> "log", req |-> req, entry |-> 0, port |-> 0])
               /\ UNCHANGED << durable, server, tables, proxies, settled >>

AskRegister(c, i) ==
  /\ CanAsk(c) /\ Ask(c, RegisterReq(i))
  /\ UNCHANGED << hosts, history, spoilt >>

(* The host port is taken first.  With none left the unwrap panics, which  *)
(* ends the request and leaves no trace.  What a previous life handed out  *)
(* is not in hosts, see ReplayNext.                                        *)
AskAdd(c, k, i) ==
  LET h == Lowest(HostPort \ hosts) IN
  /\ CanAsk(c) /\ hosts # HostPort
  /\ Ask(c, AddReq(k, i, h))
  /\ hosts' = hosts \cup {h}
  /\ Spoil({"port" : e \in {e \in DOMAIN log : log[e].op = "add" /\ log[e].name.host = h}})
  /\ UNCHANGED history

AskRemove(c, p) ==
  /\ CanAsk(c) /\ Ask(c, RemoveReq(p))
  /\ p \in told \cup gone
  /\ told' = told \ {p}
  /\ UNCHANGED << hosts, gone, spoilt >>

\* Mutant: a removal is not logged.
BugLogAdditions(c) ==
  /\ At(c, "log")
  /\ IF task[c].req.op = "remove"
     THEN Goto(c, First(task[c].req)) /\ UNCHANGED log
     ELSE /\ log' = Append(log, task[c].req)
          /\ Become(c, [task[c] EXCEPT !.at = First(task[c].req), !.entry = Len(log')])
  /\ UNCHANGED << published, server, hosts, tables, proxies, settled, history, spoilt >>

\* Mutant: the entry is counted although the write failed.
BugCountEntry(c) ==
  /\ At(c, "log")
  /\ log' = Append(log, task[c].req) \/ ("log" \in Faults /\ UNCHANGED log)
  /\ Become(c, [task[c] EXCEPT !.at = First(task[c].req), !.entry = Len(log) + 1])
  /\ UNCHANGED << published, server, hosts, tables, proxies, settled, history, spoilt >>

(* An error of the log is reported and the request carried out all the same. *)
WriteLog(c) ==
  /\ At(c, "log")
  /\ \/ /\ log' = Append(log, task[c].req)
        /\ Become(c, [task[c] EXCEPT !.at = First(task[c].req), !.entry = Len(log')])
        /\ UNCHANGED spoilt
     \/ /\ "log" \in Faults \ spoilt                     \* bound: one failure
        /\ Goto(c, First(task[c].req))
        /\ Spoil({"log"})
        /\ UNCHANGED log
  /\ UNCHANGED << published, server, hosts, tables, proxies, settled, history >>

(* The handler's future is dropped with its client's connection: before    *)
(* the write to the log, before connman has the request, or later, when    *)
(* only the answer is lost.                                                *)
Leave(c) ==
  /\ "leave" \in Faults /\ ~At(c, "idle")
  /\ task[c].at \in {"log", "ok", "error"} \/ task[c].at = First(task[c].req)
  /\ Become(c, Idle)
  /\ UNCHANGED << durable, server, hosts, tables, proxies, settled, history, spoilt >>

Answer(c) ==
  /\ task[c].at \in {"ok", "error"}
  /\ Become(c, Idle)
  /\ told' = IF At(c, "ok") /\ task[c].req.op = "add"
             THEN told \cup {Made(c)} ELSE told
  /\ gone' = IF At(c, "ok") /\ task[c].req.op = "remove"
             THEN gone \cup {task[c].req.id} ELSE gone
  /\ UNCHANGED << durable, server, hosts, tables, proxies, settled, spoilt >>

-----------------------------------------------------------------------------
(* The handlers of Connman, for a client's request or for the replay.      *)

(* The image is registered whether or not a backend can pull it. *)
Register(w) ==
  /\ At(w, "register")
  /\ images' = images \cup {task[w].req.image}
  /\ Finish(w, TRUE) /\ Settle(w) /\ SpoilOrder(w)
  /\ UNCHANGED << durable, server, hosts, ports, proxies, history >>

CheckImage(w) ==
  LET name  == task[w].req.name
      valid == name.image \in images /\ (name.kind = "tls" => TlsConfigured)
  IN
  /\ At(w, "check")
  /\ IF valid THEN Goto(w, IF name.kind = "tcp" THEN "port" ELSE "deploy")
              ELSE Finish(w, FALSE)
  /\ IF valid /\ name.kind = "tcp" THEN UNCHANGED settled ELSE Settle(w)
  /\ SpoilOrder(w)
  /\ UNCHANGED << durable, server, hosts, tables, proxies, history >>

\* Mutant: a request waits for a docker port instead of failing.
BugTakePort(w) ==
  LET name == task[w].req.name IN
  /\ At(w, "port") /\ ports # DockerPort
  /\ ports' = ports \cup {Lowest(DockerPort \ ports)}
  /\ Become(w, [task[w] EXCEPT !.at = IF name.kind = "tcp" THEN "deploy" ELSE "check",
                               !.port = Lowest(DockerPort \ ports)])
  /\ Settle(w) /\ SpoilOrder(w)
  /\ UNCHANGED << durable, server, hosts, images, proxies, history >>

(* A docker port is never given back, nor taken out of turn. *)
TakePort(w) ==
  LET tcp == task[w].req.name.kind = "tcp" IN
  /\ At(w, "port")
  /\ IF ports = DockerPort
     THEN Finish(w, FALSE) /\ UNCHANGED ports
     ELSE /\ ports' = ports \cup {Lowest(DockerPort \ ports)}
          /\ Become(w, [task[w] EXCEPT !.at = IF tcp THEN "deploy" ELSE "check",
                                       !.port = Lowest(DockerPort \ ports)])
  /\ IF tcp \/ ports = DockerPort THEN Settle(w) ELSE UNCHANGED settled
  /\ SpoilOrder(w)
  /\ UNCHANGED << durable, server, hosts, images, proxies, history >>

(* A container of that name is taken as it is, with the port it has. *)
Publish(w) ==
  published' = [published EXCEPT ![task[w].req.name] = IF @ = 0 THEN task[w].port ELSE @]

(* With the TlsListener gone, as it is when it could not bind, its Add is  *)
(* an error: the request fails and the proxy stays registered.             *)
AddFails(w) ==
  /\ "bind" \in Faults /\ task[w].req.name.kind = "tls"
  /\ Publish(w)
  /\ registry' = registry \cup {Made(w)}
  /\ Finish(w, FALSE)
  /\ Spoil(IF w = Replay THEN {"bind"} ELSE {})
  /\ UNCHANGED << binding, listening >>

\* Mutant: a Create that failed gives its docker port back.
BugDeploy(w) ==
  /\ At(w, "deploy")
  /\ \/ /\ Publish(w)
        /\ registry' = registry \cup {Made(w)}
        /\ binding' = IF task[w].req.name.kind = "tcp" THEN binding \cup {Made(w)} ELSE binding
        /\ Finish(w, TRUE)
        /\ UNCHANGED << ports, listening, spoilt >>
     \/ AddFails(w) /\ UNCHANGED ports
     \/ /\ "docker" \in Faults
        /\ Publish(w) \/ UNCHANGED published
        /\ ports' = ports \ {task[w].port}
        /\ Finish(w, FALSE)
        /\ Spoil(IF w = Replay THEN {"docker"} ELSE {})
        /\ UNCHANGED proxies
  /\ UNCHANGED << log, server, hosts, images, settled, history >>

(* The container is created or found, the proxy registered, and a TCP      *)
(* proxy's listener spawned or a TLS proxy added to the one there is.      *)
(* Docker may fail with or without effect.  The step may also wait: for    *)
(* the pull of a missing image, and for room in the TlsListener's channel. *)
Deploy(w) ==
  /\ At(w, "deploy")
  /\ \/ /\ Publish(w)
        /\ registry' = registry \cup {Made(w)}
        /\ binding' = IF task[w].req.name.kind = "tcp" THEN binding \cup {Made(w)} ELSE binding
        /\ Finish(w, TRUE)
        /\ UNCHANGED << listening, spoilt >>
     \/ AddFails(w)
     \/ /\ "docker" \in Faults
        /\ Publish(w) \/ UNCHANGED published
        /\ Finish(w, FALSE)
        /\ Spoil(IF w = Replay THEN {"docker"} ELSE {})
        /\ UNCHANGED proxies
  /\ UNCHANGED << log, server, hosts, tables, settled, history >>

(* StopProxy: an id that is not in the registry is invalid.  The removal   *)
(* may wait for room in the TlsListener's channel as well.                 *)
Remove(w) ==
  /\ At(w, "remove")
  /\ registry' = registry \ {task[w].req.id}
  /\ Finish(w, task[w].req.id \in registry)
  /\ UNCHANGED << durable, server, hosts, tables, binding, listening, settled, history, spoilt >>

Work(w) == Register(w) \/ CheckImage(w) \/ TakePort(w) \/ Deploy(w) \/ Remove(w)

-----------------------------------------------------------------------------
(* The task of a TCP listener; one that can not bind takes its proxy along. *)

Bind(p) ==
  /\ p \in binding
  /\ binding' = binding \ {p}
  /\ LET free == \A q \in listening : q.name.host # p.name.host IN
     \/ free /\ listening' = listening \cup {p} /\ UNCHANGED << registry, spoilt >>
     \/ /\ ~free \/ "bind" \in Faults
        /\ registry' = registry \ {p}
        /\ Spoil({"bind"})
        /\ UNCHANGED listening
  /\ UNCHANGED << durable, server, task, hosts, tables, settled, history >>

Close(p) ==
  /\ p \in listening \ registry
  /\ listening' = listening \ {p}
  /\ UNCHANGED << durable, server, task, hosts, tables, registry, binding, settled, history, spoilt >>

-----------------------------------------------------------------------------
(* A crash, and reply_log of the process started next.                     *)

Crash ==
  /\ phase' = "replay" /\ cursor' = 0
  /\ task' = [w \in Worker |-> Idle]
  /\ hosts' = {} /\ ports' = {} /\ images' = {}
  /\ registry' = {} /\ binding' = {} /\ listening' = {}
  /\ settled' = {}
  /\ spoilt' = spoilt \ {"docker", "bind"}       \* the next replay tries again
  /\ UNCHANGED << durable, told, gone >>

(* The future of acquire_port is dropped without being awaited: a replayed *)
(* AddProxy does not take its host port out of hosts.                      *)
ReplayNext ==
  LET req == log[cursor + 1] IN
  /\ phase = "replay" /\ At(Replay, "idle") /\ cursor < Len(log)
  /\ Become(Replay, [at |-> First(req), req |-> req, entry |-> cursor + 1, port |-> 0])
  /\ UNCHANGED << durable, server, hosts, tables, proxies, settled, history, spoilt >>

(* Errors are reported and the replay goes on. *)
ReplayDone ==
  /\ task[Replay].at \in {"ok", "error"}
  /\ cursor' = cursor + 1
  /\ Become(Replay, Idle)
  /\ UNCHANGED << durable, phase, hosts, tables, proxies, settled, history, spoilt >>

Serve ==
  /\ phase = "replay" /\ At(Replay, "idle") /\ cursor = Len(log)
  /\ phase' = "serve"
  /\ UNCHANGED << durable, cursor, task, hosts, tables, proxies, settled, history, spoilt >>

Restart == ReplayNext \/ Work(Replay) \/ ReplayDone \/ Serve

Next ==
  \/ Restart \/ Crash
  \/ \E c \in Client :
       \/ \E i \in Image : AskRegister(c, i) \/ \E k \in Kind : AskAdd(c, k, i)
       \/ \E p \in told \cup gone : AskRemove(c, p)
       \/ WriteLog(c) \/ Leave(c) \/ Work(c) \/ Answer(c)
  \/ \E p \in binding : Bind(p)
  \/ \E p \in listening : Close(p)

Spec == Init /\ [][Next]_vars

(* The steps of a request that wait for others: Register for docker's      *)
(* pull, whose stream has no time limit; Deploy for that and, as Remove,   *)
(* for the TlsListener, which awaits handshakes in line.                   *)
Waits(w) == task[w].at \in {"register", "deploy", "remove"}

(* The replay is a task that tokio polls.  Where it does not wait it goes  *)
(* on; nothing is assumed here of the steps that do.                       *)
FairSpec == Spec /\ WF_vars(Restart /\ ~Waits(Replay))

-----------------------------------------------------------------------------
TypeOK ==
  /\ log \in Seq(Request) /\ Len(log) <= MaxLog
  /\ published \in [Name -> DockerPort \cup {0}]
  /\ phase \in {"replay", "serve"} /\ cursor \in 0 .. Len(log)
  /\ \A w \in Worker : task[w] = Idle \/ /\ task[w].req \in Request
                                         /\ task[w].entry \in 0 .. Len(log)
                                         /\ task[w].port \in DockerPort \cup {0}
  /\ hosts \subseteq HostPort /\ ports \subseteq DockerPort /\ images \subseteq Image
  /\ registry \cup binding \cup listening \cup told \cup gone \subseteq Proxy
  /\ settled \subseteq 0 .. Len(log)
  /\ spoilt \subseteq {"log", "order", "port", "docker", "bind"}

(* What the clients were told survives: once the server serves again, the  *)
(* proxies they have exist under the ids they have, and the proxies they   *)
(* removed are gone.  Excepted are four causes, each a weakness of the     *)
(* code that the history variable spoilt names: a request the log did not  *)
(* take, requests that took effect in another order than that of the log,  *)
(* docker failing a replayed Create, and a listener that can not bind.     *)
PromisesSurvive ==
  phase = "serve" /\ spoilt \subseteq {"port"} =>
    told \subseteq registry /\ gone \cap registry = {}

(* A proxy dials the port that its container publishes, although docker    *)
(* ports are handed out anew after a restart while containers keep theirs. *)
DialsItsContainer ==
  spoilt \cap {"log", "order", "port"} = {} =>
    \A p \in registry : published[p.name] = p.port

(* "Port on which the container maps the service port", of every proxy.    *)
PortMapsService == \A p \in registry : published[p.name] = p.port

(* Nothing that was logged can keep the server from serving again once it  *)
(* stops crashing, as long as no step of the replay waits for ever.  That  *)
(* premise is none that the code enforces.                                 *)
ServesAgain ==
  <>[][~Crash]_vars /\ []<>~Waits(Replay) => []<>(phase = "serve")
=============================================================================
