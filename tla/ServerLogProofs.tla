-------------------------- MODULE ServerLogProofs ---------------------------
(* What the log of Server determines.  As long as no write to it failed    *)
(* and no request took effect out of turn, the docker port of a request    *)
(* depends on the log alone, in its first life and in every replay (Plan). *)
(* So a proxy finds the container that an earlier life left behind, and    *)
(* has the id that its client was told.                                    *)
EXTENDS ServerProofs

(* No write to the log failed, no request took effect out of turn. *)
Clean == spoilt \cap {"log", "order"} = {}

IsAdd(e) == log[e].op = "add"

(* Host ports of logged and of coming proxies differ. *)
HostsDiffer ==
  /\ \A d, e \in DOMAIN log :
       IsAdd(d) /\ IsAdd(e) /\ d # e => log[d].name.host # log[e].name.host
  /\ \A c \in Client : At(c, "log") /\ task[c].req.op = "add" =>
       /\ task[c].req.name.host \in hosts
       /\ \A e \in DOMAIN log : IsAdd(e) => log[e].name.host # task[c].req.name.host
       /\ \A d \in Client \ {c} : At(d, "log") /\ task[d].req.op = "add" =>
            task[d].req.name.host # task[c].req.name.host

(* A crash forgets what the next replay does again, nothing else is lost.  *)
LEMMA SpoiltStays ==
  ASSUME TypeInv, [Next]_vars
  PROVE  /\ spoilt \ {"docker", "bind"} \subseteq spoilt'
         /\ ~Crash => spoilt \subseteq spoilt'
<1>1. CASE UNCHANGED vars
  BY <1>1 DEF vars
<1>2. ASSUME NEW w \in Worker, Work(w) PROVE spoilt \subseteq spoilt'
  BY <1>2, DeployEffect
     DEF Work, Register, CheckImage, TakePort, Remove, SpoilOrder, Spoil
<1>3. ASSUME NEW c \in Client, Asks(c) \/ WriteLog(c) PROVE spoilt \subseteq spoilt'
  BY <1>3, AskEffect, WriteEffect
<1>4. CASE ReplayNext \/ ReplayDone \/ Serve
  BY <1>4 DEF ReplayNext, ReplayDone, Serve
<1>5. CASE Crash
  BY <1>5 DEF Crash
<1>6. ASSUME NEW c \in Client, Leave(c) \/ Answer(c) PROVE spoilt \subseteq spoilt'
  BY <1>6 DEF Leave, Answer
<1>7. ASSUME NEW p, Bind(p) \/ Close(p) PROVE spoilt \subseteq spoilt'
  BY <1>7 DEF Bind, Close, Spoil
<1> QED BY <1>1, <1>2, <1>3, <1>4, <1>5, <1>6, <1>7, Workers DEF Next, Restart, Asks

LEMMA HostsStep ==
  ASSUME TypeInv, Phases, "port" \notin spoilt', HostsDiffer, [Next]_vars
  PROVE  HostsDiffer'
<1>1. CASE Quietly
  BY <1>1 DEF Quietly, HostsDiffer, IsAdd, At
<1>2. ASSUME NEW c \in Client, Asks(c) PROVE HostsDiffer'
  <2>1. /\ \A d \in Client \ {c} : task'[d] = task[d]
        /\ UNCHANGED log /\ hosts \subseteq hosts'
    BY <1>2, AskEffect, Workers
  <2>2. ASSUME task'[c].req.op = "add"
        PROVE  /\ task'[c].req.name.host \in hosts' \ hosts
               /\ \A e \in DOMAIN log : IsAdd(e) => log[e].name.host # task'[c].req.name.host
    BY <1>2, <2>2, AskEffect DEF IsAdd
  <2> QED BY <2>1, <2>2 DEF HostsDiffer, IsAdd, At
<1>3. ASSUME NEW c \in Client, WriteLog(c) PROVE HostsDiffer'
  <2>1. /\ \A d \in Client \ {c} : task'[d] = task[d]
        /\ task'[c].at # "log" /\ At(c, "log") /\ UNCHANGED hosts
    BY <1>3, WriteEffect, Workers DEF Moves, At
  <2>2. CASE UNCHANGED log
    BY <2>1, <2>2 DEF HostsDiffer, IsAdd, At
  <2>3. CASE /\ log' = Append(log, task[c].req) /\ Len(log) \in Nat
    <3>1. /\ DOMAIN log = 1 .. Len(log) /\ DOMAIN log' = 1 .. Len(log) + 1
          /\ \A e \in DOMAIN log : log'[e] = log[e]
          /\ log'[Len(log) + 1] = task[c].req
      BY <2>3 DEF TypeInv
    <3>2. \A d, e \in DOMAIN log' :
            IsAdd(d)' /\ IsAdd(e)' /\ d # e => log'[d].name.host # log'[e].name.host
      BY <2>1, <3>1 DEF HostsDiffer, IsAdd
    <3>3. ASSUME NEW d \in Client, At(d, "log")', task'[d].req.op = "add"
          PROVE  /\ task'[d].req.name.host \in hosts'
                 /\ \A e \in DOMAIN log' : IsAdd(e)' => log'[e].name.host # task'[d].req.name.host
                 /\ \A b \in Client \ {d} : At(b, "log")' /\ task'[b].req.op = "add" =>
                      task'[b].req.name.host # task'[d].req.name.host
      <4>1. d # c /\ task'[d] = task[d] /\ At(d, "log")
        BY <2>1, <3>3 DEF At
      <4>2. \A b \in Client \ {d} : At(b, "log")' => b # c /\ task'[b] = task[b] /\ At(b, "log")
        BY <2>1 DEF At
      <4> QED BY <2>1, <3>1, <3>3, <4>1, <4>2 DEF HostsDiffer, IsAdd
    <3> QED BY <3>2, <3>3 DEF HostsDiffer
  <2> QED BY <1>3, <2>2, <2>3, WriteEffect
<1> QED BY <1>1, <1>2, <1>3, QuietSteps

-----------------------------------------------------------------------------
(* What the log says, whatever the clients or a replay made of it: whether *)
(* the image of an AddProxy is registered before, and the docker port that *)
(* it gets, 0 if it gets none.                                             *)
Known(e) == \E k \in 1 .. e - 1 : log[k].op = "register" /\ log[k].image = log[e].name.image
Before(a, e) == {a[k] : k \in 1 .. e - 1}
WantsPort(e) == IsAdd(e) /\ (log[e].name.kind = "tcp" => Known(e))

Slots(n) == [1 .. n -> DockerPort \cup {0}]
Plan(a) ==
  \A e \in DOMAIN log :
    a[e] = IF WantsPort(e) /\ ~(DockerPort \subseteq Before(a, e))
           THEN Lowest(DockerPort \ Before(a, e)) ELSE 0

(* The AddProxy comes to the Create of its container. *)
Works(a, e) == a[e] # 0 /\ Known(e) /\ (log[e].name.kind = "tls" => TlsConfigured)
Id(a, e) == [name |-> log[e].name, port |-> a[e]]

(* Tasks have entries of their own, and a replay takes them in turn. *)
Logged(w) == Busy(w) /\ ~At(w, "log")
Entries ==
  /\ \A w \in Worker : Logged(w) =>
       task[w].entry \in DOMAIN log /\ task[w].req = log[task[w].entry]
  /\ \A v, w \in Worker : Logged(v) /\ Logged(w) /\ v # w => task[v].entry # task[w].entry

Order ==
  /\ settled \subseteq DOMAIN log
  /\ \A e \in settled : \A k \in 1 .. e - 1 : Conflict(log[k], log[e]) => k \in settled
  /\ \A i \in Image : i \in images <=>
       \E e \in settled : log[e].op = "register" /\ log[e].image = i
  /\ phase = "replay" => \A e \in settled : e <= cursor \/ (Busy(Replay) /\ e = cursor + 1)

(* A TLS proxy has its docker port before its image is looked up. *)
Granted(e) == e \in settled \/ \E w \in Worker : /\ At(w, "check") /\ task[w].entry = e
                                                /\ log[e].name.kind = "tls"

PortsFollow(a) ==
  /\ \A x \in DockerPort : x \in ports <=> \E e \in DOMAIN log : Granted(e) /\ a[e] = x
  /\ \A e \in DOMAIN log : Granted(e) =>
       \A k \in 1 .. e - 1 : IsAdd(k) /\ IsAdd(e) => k \in settled

TasksFollow(a) ==
  \A w \in Worker : Logged(w) =>
    LET e == task[w].entry IN
    /\ task[w].at \in {"register", "check", "port"} => e \notin settled
    /\ At(w, "port") => WantsPort(e)
    /\ At(w, "check") /\ log[e].name.kind = "tls" => task[w].port = a[e] /\ a[e] # 0
    /\ At(w, "deploy") \/ (At(w, "ok") /\ IsAdd(e)) => task[w].port = a[e] /\ Works(a, e)

(* Containers have the port of their request, and so have the proxies. *)
Found(a) ==
  /\ \A n \in Name : published[n] # 0 =>
       \E e \in DOMAIN log : IsAdd(e) /\ log[e].name = n /\ published[n] = a[e]
  /\ \A p \in registry :
       published[p.name] # 0 /\ \E e \in DOMAIN log : IsAdd(e) /\ p = Id(a, e)

Follow(a) ==
  Plan(a) /\ Entries /\ Order /\ PortsFollow(a) /\ TasksFollow(a) /\ Found(a)

(* A move of a task leaves the others and their entries alone. *)
LEMMA MoveKeeps ==
  ASSUME TypeInv, Entries, NEW w \in Worker, NEW s, NEW r, NEW p,
         Moves(w, s, r, task[w].entry, p), s # "log", r # "log", UNCHANGED log
  PROVE  /\ Entries'
         /\ task[w] \in Task /\ OfStep(task[w]) /\ Logged(w) /\ Logged(w)'
         /\ task[w].entry \in DOMAIN log /\ log[task[w].entry] = task[w].req
         /\ DOMAIN log = 1 .. Len(log) /\ Len(log) \in Nat
         /\ \A e \in DOMAIN log : log[e] \in Request
         /\ \A v \in Worker \ {w} :
              /\ task'[v] = task[v] /\ Logged(v)' = Logged(v)
              /\ Logged(v) => task[v].entry # task[w].entry
<1>1. Logged(w) /\ Logged(w)'
  BY TaskFields DEF Logged, Busy, At, Moves
<1>2. \A v \in Worker \ {w} : task'[v] = task[v] /\ Logged(v)' = Logged(v)
  BY DEF Logged, Busy, At, Moves
<1>3. task[w] \in Task /\ OfStep(task[w]) /\ task'[w].req = task[w].req
      /\ task'[w].entry = task[w].entry
  BY DEF Moves
<1>4. Entries'
  BY <1>1, <1>2, <1>3 DEF Entries
<1>5. DOMAIN log = 1 .. Len(log) /\ Len(log) \in Nat /\ \A e \in DOMAIN log : log[e] \in Request
  BY DEF TypeInv
<1> QED BY <1>1, <1>2, <1>3, <1>4, <1>5 DEF Entries

(* In turn: what conflicts with the request and is ahead of it is settled. *)
LEMMA InTurn ==
  ASSUME TypeInv, NEW w \in Worker, SpoilOrder(w), Clean'
  PROVE  \A k \in 1 .. task[w].entry - 1 : Conflict(log[k], task[w].req) => k \in settled
<1>1. ~Overtakes(w)
  BY DEF SpoilOrder, Spoil, Clean
<1> QED BY <1>1 DEF Overtakes

LEMMA RegisterFields ==
  \A r \in Request, i \in Image : r = RegisterReq(i) <=> r.op = "register" /\ r.image = i
BY DEF Request, RegisterReq

(* A request that is settled in turn. *)
LEMMA SettleOrder ==
  ASSUME TypeInv, Phases, Order, Entries,
         NEW w \in Worker, NEW s, NEW r, NEW p, Moves(w, s, r, task[w].entry, p),
         s # "log", r # "log", UNCHANGED << log, phase, cursor >>,
         \A k \in 1 .. task[w].entry - 1 : Conflict(log[k], task[w].req) => k \in settled,
         \/ settled' = settled /\ images' = images
         \/ /\ Settle(w)
            /\ images' = images \cup {i \in Image : task[w].req = RegisterReq(i)}
  PROVE  Order'
<1> DEFINE e == task[w].entry
<1>1. /\ e \in DOMAIN log /\ log[e] = task[w].req
      /\ DOMAIN log = 1 .. Len(log) /\ \A f \in DOMAIN log : log[f] \in Request
  BY MoveKeeps
<1>2. phase = "replay" => e = cursor + 1 /\ Busy(Replay)'
  <2>1. Busy(w) /\ Busy(w)'
    BY TaskFields DEF Busy, Moves
  <2>2. phase = "replay" => w = Replay
    BY <2>1, Workers DEF Phases, Worker
  <2> QED BY <2>1, <2>2 DEF Phases
<1>3. Busy(Replay) => Busy(Replay)'
  BY TaskFields, Workers DEF Busy, Moves
<1> HIDE DEF e
<1>4. CASE settled' = settled /\ images' = images
  BY <1>3, <1>4 DEF Order
<1>5. CASE /\ settled' = settled \cup {e}
           /\ images' = images \cup {i \in Image : task[w].req = RegisterReq(i)}
  <2>1. settled' \subseteq DOMAIN log
        /\ \A f \in settled' : \A k \in 1 .. f - 1 : Conflict(log[k], log[f]) => k \in settled'
    BY <1>1, <1>5 DEF Order, e
  <2>2. \A i \in Image : log[e] = RegisterReq(i) <=> log[e].op = "register" /\ log[e].image = i
    BY <1>1, RegisterFields
  <2>3. \A i \in Image : i \in images' <=>
          \E f \in settled' : log[f].op = "register" /\ log[f].image = i
    BY <1>1, <1>5, <2>2 DEF Order
  <2>4. phase = "replay" => \A f \in settled' : f <= cursor \/ (Busy(Replay)' /\ f = cursor + 1)
    BY <1>2, <1>3, <1>5 DEF Order
  <2> QED BY <2>1, <2>3, <2>4 DEF Order
<1> QED BY <1>4, <1>5 DEF Settle, e

(* The grant of a docker port. *)
LEMMA GrantFollows ==
  ASSUME TypeInv, Entries, NEW a \in Slots(Len(log)), PortsFollow(a), Order,
         NEW w \in Worker, NEW s, NEW r, NEW e, NEW p,
         task[w].entry = e, Moves(w, s, r, e, p),
         s # "log", r # "log", UNCHANGED log,
         settled' = settled \/ Settle(w),
         \/ (Granted(e)' <=> Granted(e)) /\ ports' = ports
         \/ /\ Granted(e)' /\ ports' = ports \cup ({a[e]} \ {0})
            /\ IsAdd(e) =>
                 \A k \in 1 .. e - 1 : IsAdd(k) => k \in settled
  PROVE  PortsFollow(a)'
<1>1. e \in DOMAIN log /\ DOMAIN log = 1 .. Len(log) /\ Len(log) \in Nat
  BY MoveKeeps
<1>2. ASSUME NEW f \in DOMAIN log, f # e PROVE Granted(f)' <=> Granted(f)
  <2>1. f \in settled' <=> f \in settled
    BY <1>2 DEF Settle
  <2>2. task'[w].entry # f /\ task[w].entry # f
    BY <1>2 DEF Moves
  <2>3. \A v \in Worker \ {w} : task'[v] = task[v]
    BY DEF Moves
  <2> QED BY <2>1, <2>2, <2>3 DEF Granted, At
<1>3. settled \subseteq settled' /\ \A f \in DOMAIN log : a[f] \in DockerPort \cup {0}
  BY <1>1 DEF Settle, Slots
<1>4. 0 \notin DockerPort /\ UNCHANGED log /\ \A k : IsAdd(k)' <=> IsAdd(k)
  BY ServerAssumption DEF IsAdd
<1>5. CASE (Granted(e)' <=> Granted(e)) /\ ports' = ports
  <2>1. \A f \in DOMAIN log : Granted(f)' <=> Granted(f)
    BY <1>2, <1>5
  <2> QED BY <1>3, <1>4, <1>5, <2>1 DEF PortsFollow
<1>6. CASE /\ Granted(e)' /\ ports' = ports \cup ({a[e]} \ {0})
           /\ IsAdd(e) => \A k \in 1 .. e - 1 : IsAdd(k) => k \in settled
  <2>1. ASSUME NEW x \in DockerPort
        PROVE  x \in ports' <=> \E f \in DOMAIN log : Granted(f)' /\ a[f] = x
    BY <1>1, <1>2, <1>4, <1>6 DEF PortsFollow
  <2>2. \A f \in DOMAIN log : Granted(f)' =>
          \A k \in 1 .. f - 1 : IsAdd(k) /\ IsAdd(f) => k \in settled'
    BY <1>2, <1>3, <1>6 DEF PortsFollow
  <2> QED BY <1>4, <2>1, <2>2 DEF PortsFollow
<1> QED BY <1>5, <1>6

(* The task that moved, and the others. *)
LEMMA TaskFollows ==
  ASSUME TypeInv, Entries, NEW a, TasksFollow(a),
         NEW w \in Worker, NEW s, NEW r, NEW e, NEW p,
         task[w].entry = e, Moves(w, s, r, e, p), s # "log", r # "log", UNCHANGED log,
         settled' = settled \/ Settle(w),
         r \in {"register", "check", "port"} => e \notin settled',
         r = "port" => WantsPort(e),
         r = "check" /\ log[e].name.kind = "tls" => p = a[e] /\ a[e] # 0,
         r = "deploy" \/ (r = "ok" /\ IsAdd(e)) => p = a[e] /\ Works(a, e)
  PROVE  TasksFollow(a)'
<1>1. /\ \A v \in Worker \ {w} : /\ task'[v] = task[v] /\ Logged(v)' = Logged(v)
                                 /\ Logged(v) => task[v].entry # e
      /\ task'[w].at = r /\ task'[w].entry = e /\ task'[w].port = p
  BY MoveKeeps DEF Moves
<1>2. \A f : (WantsPort(f)' <=> WantsPort(f)) /\ (Works(a, f)' <=> Works(a, f))
  BY DEF WantsPort, Works, Known, IsAdd
<1>3. \A f : f # e => (f \in settled' <=> f \in settled)
  BY DEF Settle
<1> SUFFICES ASSUME NEW v \in Worker, Logged(v)'
             PROVE  LET f == task'[v].entry IN
                    /\ task'[v].at \in {"register", "check", "port"} => f \notin settled'
                    /\ At(v, "port")' => WantsPort(f)
                    /\ At(v, "check")' /\ log[f].name.kind = "tls" =>
                         task'[v].port = a[f] /\ a[f] # 0
                    /\ At(v, "deploy")' \/ (At(v, "ok")' /\ IsAdd(f)) =>
                         task'[v].port = a[f] /\ Works(a, f)
  BY <1>2 DEF TasksFollow, IsAdd
<1>4. CASE v = w
  BY <1>1, <1>4 DEF At
<1>5. CASE v # w
  BY <1>1, <1>3, <1>5 DEF TasksFollow, At
<1> QED BY <1>4, <1>5

LEMMA FoundKept ==
  ASSUME NEW a, Found(a), UNCHANGED << log, published >>, registry' \subseteq registry
  PROVE  Found(a)'
BY DEF Found, Id, IsAdd

LEMMA PlanKept ==
  ASSUME NEW a, Plan(a), UNCHANGED log
  PROVE  Plan(a)'
BY DEF Plan, WantsPort, IsAdd, Known, Before

(* The image is registered: no docker port is due. *)
LEMMA RegisterFollows ==
  ASSUME TypeInv, Phases, NEW a \in Slots(Len(log)), Follow(a), Clean',
         NEW w \in Worker, Register(w)
  PROVE  Follow(a)'
<1>1. PICK e, p : task[w].entry = e /\ Moves(w, "register", "ok", e, p)
  BY RegisterEffect DEF Stays
<1>2. /\ e \in DOMAIN log /\ log[e] = task[w].req /\ log[e].op = "register" /\ Entries'
      /\ log[e] \in Request
  <2>1. UNCHANGED log
    BY RegisterEffect
  <2> QED BY <1>1, <2>1, MoveKeeps DEF Moves, OfStep, Follow
<1>3. /\ images' = images \cup {log[e].image} /\ Settle(w) /\ SpoilOrder(w)
      /\ UNCHANGED << log, published, phase, cursor, ports, registry >>
  BY <1>2, RegisterEffect
<1>4. \A k \in 1 .. e - 1 : Conflict(log[k], log[e]) => k \in settled
  BY <1>1, <1>2, <1>3, InTurn
<1>5. Order'
  <2>1. {i \in Image : log[e] = RegisterReq(i)} = {log[e].image}
    BY <1>2, RegisterFields, RequestFields
  <2> QED BY <1>1, <1>2, <1>3, <1>4, <2>1, SettleOrder DEF Follow
<1>6. ~IsAdd(e) /\ a[e] = 0
  BY <1>2 DEF IsAdd, Follow, Plan, WantsPort
<1>7. PortsFollow(a)'
  <2>1. Granted(e)'
    BY <1>1, <1>3 DEF Settle, Granted
  <2>2. ports' = ports \cup ({a[e]} \ {0})
    BY <1>3, <1>6
  <2> QED BY <1>1, <1>3, <1>6, <2>1, <2>2, GrantFollows DEF Follow
<1>8. TasksFollow(a)'
  <2>1. /\ "ok" \notin {"register", "check", "port"} /\ "ok" # "port" /\ "ok" # "check"
        /\ "register" # "log" /\ "ok" # "log" /\ ~("ok" = "deploy" \/ ("ok" = "ok" /\ IsAdd(e)))
    BY <1>6
  <2>2. TypeInv /\ Entries /\ TasksFollow(a) /\ UNCHANGED log
    BY <1>3 DEF Follow
  <2> QED BY <1>1, <1>3, <2>1, <2>2, TaskFollows
<1> QED BY <1>2, <1>3, <1>5, <1>7, <1>8, FoundKept, PlanKept DEF Follow

(* An image is in the registry if the log registers it before. *)
LEMMA ImageKnown ==
  ASSUME TypeInv, NEW a, Follow(a), NEW e \in DOMAIN log, IsAdd(e), e \notin settled,
         \A k \in 1 .. e - 1 : Conflict(log[k], log[e]) => k \in settled
  PROVE  log[e].name.image \in images <=> Known(e)
<1>1. log[e].name.image \in Image /\ DOMAIN log = 1 .. Len(log) /\ Len(log) \in Nat
      /\ \A f \in DOMAIN log : log[f].op \in {"register", "add", "remove"}
  <2>1. \A f \in DOMAIN log : log[f] \in Request
    BY DEF TypeInv
  <2> QED BY <2>1, RequestFields, NameFields DEF IsAdd, TypeInv
<1>2. ASSUME log[e].name.image \in images PROVE Known(e)
  <2>1. PICK f \in settled : log[f].op = "register" /\ log[f].image = log[e].name.image
    BY <1>1, <1>2 DEF Follow, Order
  <2>2. f \in DOMAIN log
    BY DEF Follow, Order
  <2>3. Conflict(log[e], log[f])
    BY <2>1 DEF Conflict, IsAdd
  <2>4. ~(e \in 1 .. f - 1)
    BY <2>3 DEF Follow, Order
  <2>5. f \in 1 .. e - 1
    BY <1>1, <2>1, <2>2, <2>4 DEF IsAdd
  <2> QED BY <2>1, <2>5 DEF Known
<1>3. ASSUME Known(e) PROVE log[e].name.image \in images
  <2>1. PICK k \in 1 .. e - 1 : log[k].op = "register" /\ log[k].image = log[e].name.image
    BY <1>3 DEF Known
  <2>2. k \in settled
    BY <2>1 DEF Conflict, IsAdd
  <2> QED BY <1>1, <2>1, <2>2 DEF Follow, Order
<1> QED BY <1>2, <1>3

(* The image of an AddProxy is looked up: before its docker port is taken  *)
(* if it is a TCP proxy, after it otherwise.                               *)
LEMMA CheckFollows ==
  ASSUME TypeInv, Phases, NEW a \in Slots(Len(log)), Follow(a), Clean',
         NEW w \in Worker, CheckImage(w)
  PROVE  Follow(a)'
<1> PICK e, p : task[w].entry = e /\ task[w].port = p
  OBVIOUS
<1>1. PICK r \in {"port", "deploy", "error"} :
        /\ task[w].entry = e /\ task[w].port = p /\ Moves(w, "check", r, e, p)
        /\ IF r = "port" THEN Valid(w) /\ task[w].req.name.kind = "tcp" /\ settled' = settled
           ELSE Settle(w) /\ (r = "deploy" <=> Valid(w)) /\
                (r = "deploy" => task[w].req.name.kind # "tcp")
  BY CheckEffect DEF Stays
<1>2. SpoilOrder(w) /\ UNCHANGED << log, published, phase, cursor, ports, images, registry >>
  BY CheckEffect
<1>3. /\ e \in DOMAIN log /\ log[e] = task[w].req /\ IsAdd(e) /\ Logged(w) /\ Entries'
      /\ log[e] \in Request /\ Entries
      /\ \A v \in Worker \ {w} : Logged(v) => task[v].entry # e
  BY <1>1, <1>2, MoveKeeps DEF Moves, OfStep, IsAdd, Follow
<1>4. log[e].name.kind \in {"tcp", "tls"}
  BY <1>3, RequestFields, NameFields DEF IsAdd
<1>5. /\ e \notin settled
      /\ log[e].name.kind = "tls" => p = a[e] /\ a[e] # 0
  BY <1>1, <1>3 DEF Follow, TasksFollow, At, Moves
<1>6. \A k \in 1 .. e - 1 : Conflict(log[k], log[e]) => k \in settled
  BY <1>1, <1>2, <1>3, InTurn
<1>7. log[e].name.image \in images <=> Known(e)
  BY <1>3, <1>5, <1>6, ImageKnown
<1>8. Valid(w) <=> Known(e) /\ (log[e].name.kind = "tls" => TlsConfigured)
  BY <1>3, <1>7 DEF Valid
<1>9. Order'
  <2>1. {i \in Image : log[e] = RegisterReq(i)} = {}
    BY <1>3, RegisterFields DEF IsAdd
  <2>2. \/ settled' = settled /\ images' = images
        \/ Settle(w) /\ images' = images \cup {i \in Image : log[e] = RegisterReq(i)}
    BY <1>1, <1>2, <2>1
  <2> QED BY <1>1, <1>2, <1>3, <1>6, <2>2, SettleOrder DEF Follow
<1>10. PortsFollow(a)'
  <2>1. PortsFollow(a) /\ Order /\ (settled' = settled \/ Settle(w))
    BY <1>1 DEF Follow
  <2>2. \A k \in 1 .. e - 1 : IsAdd(k) => k \in settled
    BY <1>3, <1>6 DEF IsAdd, Conflict
  <2>3. CASE r = "port"
    <3>1. log[e].name.kind = "tcp" /\ settled' = settled
      BY <1>1, <1>3, <2>3
    <3>2. ~Granted(e)' /\ ~Granted(e)
      BY <1>2, <1>5, <3>1 DEF Granted
    <3> QED BY <1>1, <1>2, <1>3, <2>1, <3>2, GrantFollows
  <2>4. CASE r # "port"
    <3>1. Settle(w)
      BY <1>1, <2>4
    <3>2. Granted(e)'
      BY <1>1, <3>1 DEF Granted, Settle
    <3>3. CASE log[e].name.kind = "tls"
      <4>1. Granted(e)
        BY <1>1, <3>3 DEF Granted, At, Moves
      <4> QED BY <1>1, <1>2, <1>3, <2>1, <3>2, <4>1, GrantFollows
    <3>4. CASE log[e].name.kind = "tcp"
      <4>1. a[e] = 0
        BY <1>1, <1>3, <1>8, <2>4, <3>4 DEF Follow, Plan, WantsPort
      <4>2. ports' = ports \cup ({a[e]} \ {0})
        BY <1>2, <4>1
      <4> QED BY <1>1, <1>2, <1>3, <2>1, <2>2, <3>2, <4>2, GrantFollows
    <3> QED BY <1>4, <3>3, <3>4
  <2> QED BY <2>3, <2>4
<1>11. TasksFollow(a)'
  <2>1. TasksFollow(a) /\ (settled' = settled \/ Settle(w)) /\ UNCHANGED log
    BY <1>1, <1>2 DEF Follow
  <2>2. r \in {"register", "check", "port"} => e \notin settled'
    BY <1>1, <1>5
  <2>3. r = "port" => WantsPort(e)
    BY <1>1, <1>3, <1>8 DEF WantsPort
  <2>4. r = "deploy" => p = a[e] /\ Works(a, e)
    BY <1>1, <1>3, <1>4, <1>5, <1>8 DEF Works
  <2>5. r # "check" /\ r # "ok" /\ "check" # "log" /\ r # "log"
    BY <1>1
  <2> QED BY <1>1, <1>3, <2>1, <2>2, <2>3, <2>4, <2>5, TaskFollows
<1> QED BY <1>2, <1>3, <1>9, <1>10, <1>11, FoundKept, PlanKept DEF Follow

(* The docker port is the one that the log says. *)
LEMMA PortPlanned ==
  ASSUME TypeInv, NEW a \in Slots(Len(log)), Follow(a),
         NEW w \in Worker, NEW e \in DOMAIN log, Logged(w), task[w].entry = e, At(w, "port"),
         \A k \in 1 .. e - 1 : Conflict(log[k], log[e]) => k \in settled
  PROVE  /\ WantsPort(e) /\ e \notin settled /\ ~Granted(e)
         /\ \A k \in 1 .. e - 1 : IsAdd(k) => k \in settled
         /\ a[e] = IF ports = DockerPort THEN 0 ELSE Port
<1>1. DOMAIN log = 1 .. Len(log) /\ Len(log) \in Nat
  BY DEF TypeInv
<1>2. WantsPort(e) /\ IsAdd(e) /\ e \notin settled
  BY DEF Follow, TasksFollow, At, WantsPort
<1>3. ~Granted(e)
  BY <1>2, TaskFields DEF Granted, Follow, Entries, Logged, At, Busy, Step
<1>4. \A k \in 1 .. e - 1 : IsAdd(k) => k \in settled
  BY <1>2 DEF IsAdd, Conflict
<1>5. 0 \notin DockerPort /\ \A f \in DOMAIN log : a[f] # 0 => IsAdd(f)
  BY ServerAssumption DEF Follow, Plan, WantsPort
<1>6. ASSUME NEW x \in DockerPort PROVE x \in ports <=> x \in Before(a, e)
  <2>1. ASSUME x \in Before(a, e) PROVE x \in ports
    <3>1. PICK k \in 1 .. e - 1 : x = a[k]
      BY <2>1 DEF Before
    <3>2. k \in DOMAIN log /\ Granted(k)
      BY <1>1, <1>4, <1>5, <3>1 DEF Granted
    <3> QED BY <3>1, <3>2 DEF Follow, PortsFollow
  <2>2. ASSUME x \in ports PROVE x \in Before(a, e)
    <3>1. PICK f \in DOMAIN log : Granted(f) /\ a[f] = x
      BY <2>2 DEF Follow, PortsFollow
    <3>2. IsAdd(f) /\ f # e
      BY <1>3, <1>5, <3>1
    <3>3. ~(e \in 1 .. f - 1)
      BY <1>2, <3>1, <3>2 DEF Follow, PortsFollow
    <3>4. f \in 1 .. e - 1
      BY <1>1, <3>2, <3>3
    <3> QED BY <3>1, <3>4 DEF Before
  <2> QED BY <2>1, <2>2
<1>7. DockerPort \ ports = DockerPort \ Before(a, e)
  BY <1>6
<1>8. ports = DockerPort <=> DockerPort \subseteq Before(a, e)
  BY <1>6 DEF TypeInv
<1> QED BY <1>2, <1>3, <1>4, <1>7, <1>8 DEF Follow, Plan, Port

LEMMA TakeFollows ==
  ASSUME TypeInv, Phases, NEW a \in Slots(Len(log)), Follow(a), Clean',
         NEW w \in Worker, TakePort(w)
  PROVE  Follow(a)'
<1> PICK e : task[w].entry = e
  OBVIOUS
<1>1. PICK r \in {"check", "deploy", "error"}, p \in DockerPort \cup {0} :
        /\ Moves(w, "port", r, e, p)
        /\ IF r = "error" THEN ports = DockerPort /\ UNCHANGED ports /\ Settle(w)
           ELSE /\ ports # DockerPort /\ p = Port /\ ports' = ports \cup {p}
                /\ IF r = "deploy" THEN task[w].req.name.kind = "tcp" /\ Settle(w)
                   ELSE task[w].req.name.kind # "tcp" /\ UNCHANGED settled
  <2>1. ASSUME Stays(w, "port", "error") PROVE task[w].port \in DockerPort \cup {0}
    BY <2>1, TaskFields DEF Stays, Moves
  <2> HIDE DEF Port
  <2> QED BY <2>1, TakeEffect DEF Stays
<1>2. SpoilOrder(w) /\ UNCHANGED << log, published, phase, cursor, images, registry >>
  BY TakeEffect
<1>3. /\ e \in DOMAIN log /\ log[e] = task[w].req /\ IsAdd(e) /\ Logged(w) /\ Entries'
      /\ log[e] \in Request /\ Entries /\ At(w, "port")
      /\ \A v \in Worker \ {w} : Logged(v) => task[v].entry # e
  BY <1>1, <1>2, MoveKeeps DEF Moves, OfStep, IsAdd, Follow, At
<1>4. log[e].name.kind \in {"tcp", "tls"}
  BY <1>3, RequestFields, NameFields DEF IsAdd
<1>5. \A k \in 1 .. e - 1 : Conflict(log[k], log[e]) => k \in settled
  BY <1>1, <1>2, <1>3, InTurn
<1>6. /\ WantsPort(e) /\ e \notin settled
      /\ \A k \in 1 .. e - 1 : IsAdd(k) => k \in settled
      /\ a[e] = IF ports = DockerPort THEN 0 ELSE Port
  BY <1>3, <1>5, PortPlanned
<1>7. settled' = settled \/ Settle(w)
  BY <1>1
<1>8. Order'
  <2>1. {i \in Image : log[e] = RegisterReq(i)} = {}
    BY <1>3, RegisterFields DEF IsAdd
  <2>2. \/ settled' = settled /\ images' = images
        \/ Settle(w) /\ images' = images \cup {i \in Image : log[e] = RegisterReq(i)}
    BY <1>2, <1>7, <2>1
  <2> QED BY <1>1, <1>2, <1>3, <1>5, <2>2, SettleOrder DEF Follow
<1>9. r # "error" => p = a[e] /\ a[e] # 0
  <2>1. r # "error" => p \in DockerPort
    BY <1>1, TakeEffect, LowestIn, ServerAssumption DEF Port, TypeInv
  <2> QED BY <1>1, <1>6, <2>1, ServerAssumption
<1>10. PortsFollow(a)'
  <2>1. Granted(e)'
    <3>1. CASE Settle(w)
      BY <3>1 DEF Granted, Settle
    <3>2. CASE r = "check"
      BY <1>1, <1>2, <1>3, <1>4, <3>2 DEF Granted, At, Moves
    <3> QED BY <1>1, <3>1, <3>2
  <2>2. ports' = ports \cup ({a[e]} \ {0})
    BY <1>1, <1>6, <1>9
  <2> QED BY <1>1, <1>2, <1>3, <1>6, <1>7, <2>1, <2>2, GrantFollows DEF Follow
<1>11. TasksFollow(a)'
  <2>1. TasksFollow(a) /\ UNCHANGED log
    BY <1>2 DEF Follow
  <2>2. r \in {"register", "check", "port"} => e \notin settled'
    BY <1>1, <1>6
  <2>3. r = "check" => p = a[e] /\ a[e] # 0
    BY <1>9
  <2>4. r = "deploy" => p = a[e] /\ Works(a, e)
    BY <1>1, <1>3, <1>6, <1>9 DEF Works, WantsPort
  <2>5. r # "port" /\ r # "ok" /\ "port" # "log" /\ r # "log"
    BY <1>1
  <2> QED BY <1>1, <1>3, <1>7, <2>1, <2>2, <2>3, <2>4, <2>5, TaskFollows
<1> QED BY <1>2, <1>3, <1>8, <1>10, <1>11, FoundKept, PlanKept DEF Follow

(* A step that leaves the tables alone. *)
LEMMA TablesKept ==
  ASSUME TypeInv, Phases, NEW a \in Slots(Len(log)), Follow(a),
         NEW w \in Worker, NEW s \in Step \ {"log", "check"}, NEW r \in {"ok", "error"},
         NEW e, NEW p, task[w].entry = e, Moves(w, s, r, e, p),
         UNCHANGED << log, phase, cursor, ports, images, settled >>,
         r = "ok" /\ IsAdd(e) => p = a[e] /\ Works(a, e)
  PROVE  Plan(a)' /\ Entries' /\ Order' /\ PortsFollow(a)' /\ TasksFollow(a)'
<1>1. /\ Entries' /\ Entries /\ s # "log" /\ r # "log" /\ settled' = settled
  BY MoveKeeps DEF Follow
<1>2. Busy(Replay) => Busy(Replay)'
  BY TaskFields, Workers DEF Busy, Moves
<1>3. Order'
  BY <1>2 DEF Order, Follow
<1>4. Granted(e)' <=> Granted(e)
  <2>1. ~At(w, "check") /\ ~At(w, "check")' /\ \A v \in Worker \ {w} : task'[v] = task[v]
    BY DEF At, Moves
  <2> QED BY <2>1 DEF Granted, At
<1>5. PortsFollow(a)'
  BY <1>1, <1>4, GrantFollows DEF Follow
<1>6. TasksFollow(a)'
  <2>1. /\ r \notin {"register", "check", "port"} /\ r # "port" /\ r # "check" /\ r # "deploy"
        /\ TasksFollow(a)
    BY DEF Follow
  <2> QED BY <1>1, <2>1, TaskFollows
<1> QED BY <1>1, <1>3, <1>5, <1>6, PlanKept DEF Follow

LEMMA DeployFollows ==
  ASSUME TypeInv, Phases, NEW a \in Slots(Len(log)), Follow(a),
         NEW w \in Worker, Deploy(w)
  PROVE  Follow(a)'
<1> PICK e, p : task[w].entry = e /\ task[w].port = p
  OBVIOUS
<1>1. PICK r \in {"ok", "error"} : Moves(w, "deploy", r, e, p)
  BY DeployEffect DEF Stays
<1>2. /\ UNCHANGED << log, phase, cursor, ports, images, settled >>
      /\ \/ Publish(w) /\ registry' = registry \cup {Made(w)}
         \/ (Publish(w) \/ UNCHANGED published) /\ UNCHANGED registry
  BY DeployEffect
<1>3. /\ e \in DOMAIN log /\ log[e] = task[w].req /\ IsAdd(e) /\ Logged(w)
      /\ log[e] \in Request /\ At(w, "deploy")
  BY <1>1, <1>2, MoveKeeps DEF Moves, OfStep, IsAdd, Follow, At
<1>4. p = a[e] /\ Works(a, e)
  BY <1>3 DEF Follow, TasksFollow
<1>5. Plan(a)' /\ Entries' /\ Order' /\ PortsFollow(a)' /\ TasksFollow(a)'
  BY <1>1, <1>2, <1>4, TablesKept DEF Step
<1> DEFINE n == log[e].name
<1>6. n \in Name /\ a[e] # 0 /\ Made(w) = Id(a, e)
  BY <1>3, <1>4, RequestFields DEF IsAdd, Works, Made, Id
<1>7. \/ UNCHANGED published
      \/ /\ published' = [published EXCEPT ![n] = IF @ = 0 THEN a[e] ELSE @]
         /\ published \in [Name -> DockerPort \cup {0}]
  BY <1>2, <1>3, <1>4 DEF Publish, TypeInv
<1> HIDE DEF n
<1>8. \A m \in Name : /\ published'[m] \in {published[m], a[e]}
                      /\ published[m] # 0 => published'[m] = published[m]
                      /\ published'[m] # published[m] => m = n
  BY <1>6, <1>7
<1>9. ASSUME NEW m \in Name, published'[m] # 0
      PROVE  \E f \in DOMAIN log : IsAdd(f) /\ log[f].name = m /\ published'[m] = a[f]
  <2>1. CASE published'[m] = published[m]
    BY <1>9, <2>1 DEF Follow, Found
  <2>2. CASE published'[m] # published[m]
    BY <1>3, <1>8, <2>2 DEF n
  <2> QED BY <2>1, <2>2
<1>10. ASSUME NEW q \in registry'
       PROVE  published'[q.name] # 0 /\ \E f \in DOMAIN log : IsAdd(f) /\ q = Id(a, f)
  <2>1. CASE q \in registry
    <3>1. q.name \in Name
      BY <2>1 DEF TypeInv, Proxy
    <3> QED BY <1>8, <2>1, <3>1 DEF Follow, Found
  <2>2. CASE q = Made(w) /\ Publish(w)
    <3>1. q.name = n /\ published'[n] # 0
      BY <1>3, <1>4, <1>6, <2>2 DEF Made, n, Publish, TypeInv
    <3> QED BY <1>3, <1>6, <2>2, <3>1
  <2> QED BY <1>2, <1>10, <2>1, <2>2
<1>11. Found(a)'
  BY <1>2, <1>9, <1>10 DEF Found, IsAdd, Id
<1> QED BY <1>5, <1>11 DEF Follow

LEMMA RemoveFollows ==
  ASSUME TypeInv, Phases, NEW a \in Slots(Len(log)), Follow(a),
         NEW w \in Worker, Remove(w)
  PROVE  Follow(a)'
<1> PICK e, p : task[w].entry = e /\ task[w].port = p
  OBVIOUS
<1>1. PICK r \in {"ok", "error"} : Moves(w, "remove", r, e, p)
  BY RemoveEffect DEF Stays
<1>2. UNCHANGED << log, published, phase, cursor, ports, images, settled >>
      /\ registry' \subseteq registry
  BY RemoveEffect
<1>3. ~IsAdd(e)
  BY <1>1, <1>2, MoveKeeps DEF Moves, OfStep, IsAdd, Follow
<1>4. Plan(a)' /\ Entries' /\ Order' /\ PortsFollow(a)' /\ TasksFollow(a)'
  BY <1>1, <1>2, <1>3, TablesKept DEF Step
<1> QED BY <1>2, <1>4, FoundKept DEF Follow

(* A step that takes no request further. *)
LEMMA AsideFollows ==
  ASSUME TypeInv, NEW a, Follow(a),
         UNCHANGED << log, published, ports, images, settled >>, registry' \subseteq registry,
         \A v \in Worker : /\ Logged(v)' => Logged(v) /\ task'[v] = task[v]
                           /\ At(v, "check")' => task'[v] = task[v]
                           /\ At(v, "check") /\ log[task[v].entry].name.kind = "tls" =>
                                task'[v] = task[v],
         phase' = "replay" =>
           \A e \in settled : e <= cursor' \/ (Busy(Replay)' /\ e = cursor' + 1)
  PROVE  Follow(a)'
<1>1. Entries'
  BY DEF Follow, Entries
<1>2. Order'
  BY DEF Follow, Order
<1>3. \A e \in DOMAIN log : Granted(e)' <=> Granted(e)
  BY DEF Granted, At
<1>4. PortsFollow(a)'
  BY <1>3 DEF Follow, PortsFollow, IsAdd
<1>5. TasksFollow(a)'
  BY DEF Follow, TasksFollow, At, WantsPort, Works, IsAdd, Known
<1> QED BY <1>1, <1>2, <1>4, <1>5, FoundKept, PlanKept DEF Follow

LEMMA AskFollows ==
  ASSUME TypeInv, Phases, NEW a, Follow(a), NEW c \in Client, Asks(c)
  PROVE  Follow(a)'
<1>1. /\ phase = "serve" /\ UNCHANGED << log, published, ports, images, settled, registry, phase >>
      /\ ~Busy(c) /\ task'[c].at = "log" /\ \A v \in Worker \ {c} : task'[v] = task[v]
  BY AskEffect DEF CanAsk
<1>2. \A v \in Worker : /\ Logged(v)' => Logged(v) /\ task'[v] = task[v]
                        /\ At(v, "check") \/ At(v, "check")' => task'[v] = task[v]
  BY <1>1, TaskFields DEF Logged, Busy, At
<1> QED BY <1>1, <1>2, AsideFollows

LEMMA EndFollows ==
  ASSUME TypeInv, Phases, NEW a, Follow(a),
         \/ ReplayDone
         \/ \E c \in Client : Leave(c) \/ Answer(c)
  PROVE  Follow(a)'
<1>1. PICK w \in Worker :
        /\ Become(w, Idle)
        /\ UNCHANGED << log, published, ports, images, settled, registry, phase >>
        /\ At(w, "check") => task[w].req.op = "add" /\ task[w].req.name.kind = "tcp"
        /\ w = Replay => phase = "replay" /\ cursor' = cursor + 1 /\ Busy(w)
        /\ w # Replay => phase = "serve"
  <2>1. CASE ReplayDone
    <3>1. Busy(Replay) /\ ~At(Replay, "check")
      BY <2>1, TaskFields DEF ReplayDone, Busy, At
    <3>2. phase = "replay"
      BY <3>1 DEF Phases, TypeInv
    <3> QED
      BY <2>1, <3>1, <3>2, Workers DEF ReplayDone, durable, tables, proxies
  <2>2. ASSUME NEW c \in Client, Leave(c) \/ Answer(c)
        PROVE  /\ Become(c, Idle)
               /\ UNCHANGED << log, published, ports, images, settled, registry, phase >>
               /\ At(c, "check") => task[c].req.op = "add" /\ task[c].req.name.kind = "tcp"
               /\ phase = "serve" /\ c \in Worker /\ c # Replay
    <3>1. Busy(c) /\ c \in Worker /\ c # Replay
      BY <2>2, TaskFields, Workers DEF Leave, Answer, Busy, At, Step
    <3>2. phase = "serve"
      BY <3>1 DEF Phases, TypeInv
    <3>3. At(c, "check") => First(task[c].req) = "check" /\ task[c] \in Task
      BY <2>2, <3>1 DEF Leave, Answer, At, TypeInv, TaskOK, Busy
    <3>4. At(c, "check") => task[c].req.op = "add" /\ task[c].req.name.kind = "tcp"
      BY <3>1, <3>3 DEF First, TypeInv, TaskOK, OfStep, At, Busy
    <3> QED BY <2>2, <3>1, <3>2, <3>4 DEF Leave, Answer, durable, tables, proxies, server
  <2> QED BY <2>1, <2>2
<1>2. /\ task'[w] = Idle /\ \A v \in Worker \ {w} : task'[v] = task[v]
  BY <1>1, BecomeEffect
<1>3. At(w, "check") => log[task[w].entry].name.kind = "tcp"
  BY <1>1, TaskFields DEF Follow, Entries, Logged, Busy, At
<1>4. \A v \in Worker : /\ Logged(v)' => Logged(v) /\ task'[v] = task[v]
                        /\ At(v, "check")' => task'[v] = task[v]
                        /\ At(v, "check") /\ log[task[v].entry].name.kind = "tls" =>
                             task'[v] = task[v]
  BY <1>2, <1>3, TaskFields DEF Logged, Busy, At, Step
<1>5. phase' = "replay" =>
        \A e \in settled : e <= cursor' \/ (Busy(Replay)' /\ e = cursor' + 1)
  <2> SUFFICES ASSUME phase = "replay", NEW e \in settled PROVE e <= cursor'
    BY <1>1
  <2>1. w = Replay
    BY <1>1
  <2>2. cursor \in Nat /\ e \in Nat
    BY DEF TypeInv
  <2> QED BY <1>1, <2>1, <2>2 DEF Follow, Order
<1> QED BY <1>1, <1>4, <1>5, AsideFollows

LEMMA ListenersFollow ==
  ASSUME TypeInv, NEW a, Follow(a), NEW p, Bind(p) \/ Close(p)
  PROVE  Follow(a)'
<1>1. UNCHANGED << log, published, ports, images, settled, task, phase, cursor >>
      /\ registry' \subseteq registry
  BY DEF Bind, Close, durable, server, tables
<1>2. phase' = "replay" =>
        \A e \in settled : e <= cursor' \/ (Busy(Replay)' /\ e = cursor' + 1)
  BY <1>1 DEF Follow, Order, Busy
<1> QED BY <1>1, <1>2, AsideFollows DEF Logged, Busy, At

LEMMA ServeFollows ==
  ASSUME TypeInv, NEW a, Follow(a), Serve
  PROVE  Follow(a)'
<1>1. UNCHANGED << log, published, ports, images, settled, task, registry >> /\ phase' = "serve"
  BY DEF Serve, durable, tables, proxies
<1> QED BY <1>1, AsideFollows DEF Logged, Busy, At

(* After a crash the log and the containers are left. *)
LEMMA CrashFollows ==
  ASSUME TypeInv, NEW a \in Slots(Len(log)), Follow(a), Crash
  PROVE  Follow(a)'
<1>1. /\ UNCHANGED << log, published >> /\ settled' = {} /\ images' = {} /\ ports' = {}
      /\ registry' = {} /\ \A w \in Worker : task'[w] = Idle
  BY DEF Crash, durable
<1>2. \A w \in Worker : ~Logged(w)' /\ ~At(w, "check")'
  BY <1>1, TaskFields DEF Logged, Busy, At, Step
<1>3. \A e : ~Granted(e)'
  BY <1>1, <1>2 DEF Granted
<1>4. Entries' /\ Order' /\ PortsFollow(a)' /\ TasksFollow(a)'
  BY <1>1, <1>2, <1>3 DEF Entries, Order, PortsFollow, TasksFollow
<1> QED BY <1>1, <1>4, FoundKept, PlanKept DEF Follow

(* The replay takes the next request, which nothing has settled yet. *)
LEMMA NextFollows ==
  ASSUME TypeInv, Phases, NEW a, Follow(a), ReplayNext
  PROVE  Follow(a)'
<1> PICK e : e = cursor + 1
  OBVIOUS
<1> DEFINE req == log[e]
<1>1. /\ phase = "replay" /\ ~Busy(Replay) /\ cursor < Len(log) /\ cursor \in Nat
      /\ e \in DOMAIN log /\ DOMAIN log = 1 .. Len(log) /\ req \in Request
      /\ UNCHANGED << log, published, ports, images, settled, registry, phase, cursor >>
      /\ Become(Replay, [at |-> First(req), req |-> req, entry |-> e, port |-> 0])
  <2>1. phase = "replay" /\ At(Replay, "idle") /\ cursor < Len(log)
    BY DEF ReplayNext
  <2>2. cursor \in Nat /\ Len(log) \in Nat /\ DOMAIN log = 1 .. Len(log)
    BY DEF TypeInv
  <2>3. e \in DOMAIN log
    BY <2>1, <2>2
  <2>4. ~Busy(Replay)
    BY <2>1, Workers, TaskFields DEF TypeInv, At, Busy, TaskOK
  <2>5. /\ UNCHANGED << log, published, ports, images, settled, registry, phase, cursor >>
        /\ Become(Replay, [at |-> First(req), req |-> req, entry |-> e, port |-> 0])
    BY DEF ReplayNext, durable, server, tables, proxies
  <2>6. log[e] \in Request
    BY <2>3 DEF TypeInv
  <2> QED BY <2>1, <2>2, <2>3, <2>4, <2>5, <2>6
<1>2. /\ First(req) \in {"register", "remove", "check", "port"}
      /\ First(req) = "port" => req.op = "add" /\ req.name.kind # "tcp"
      /\ First(req) = "check" => req.op = "add" /\ req.name.kind = "tcp"
  BY <1>1, RequestFields DEF First
<1> HIDE DEF req
<1> DEFINE s == First(req)
<1> HIDE DEF s
<1>3. s \in Step /\ e \in Nat
  BY <1>1, <1>2 DEF s, Step
<1>4. /\ task'[Replay] \in Task /\ task'[Replay].at = s /\ task'[Replay].req = req
      /\ task'[Replay].entry = e /\ \A v \in Worker \ {Replay} : task'[v] = task[v]
  BY <1>1, <1>3, BeginEffect, Workers DEF s
<1>5. /\ \A v \in Worker : ~Busy(v)
      /\ \A v \in Worker \ {Replay} : ~Busy(v)'
      /\ Busy(Replay)' /\ Logged(Replay)'
  BY <1>1, <1>2, <1>4, TaskFields DEF Phases, Busy, Worker, Logged, At, s
<1>6. e \notin settled /\ \A f \in settled : f <= cursor
  BY <1>1, <1>5, Workers DEF Follow, Order, TypeInv
<1>7. Entries'
  BY <1>1, <1>4, <1>5 DEF Entries, Logged, req
<1>8. Order'
  BY <1>1, <1>5, <1>6 DEF Follow, Order
<1>9. ASSUME NEW f \in DOMAIN log PROVE Granted(f)' <=> Granted(f)
  <2>1. \A v \in Worker : ~At(v, "check")
    BY <1>5, TaskFields DEF At, Busy
  <2>2. \A v \in Worker : At(v, "check")' => v = Replay
    BY <1>5, TaskFields DEF At, Busy
  <2>3. At(Replay, "check")' => log[e].name.kind = "tcp"
    BY <1>2, <1>4 DEF At, s, req
  <2> QED BY <1>1, <1>4, <2>1, <2>2, <2>3 DEF Granted
<1>10. PortsFollow(a)'
  BY <1>1, <1>9 DEF Follow, PortsFollow, IsAdd
<1>11. TasksFollow(a)'
  <2>1. \A v \in Worker : Logged(v)' => v = Replay
    BY <1>5 DEF Logged
  <2>2. s = "port" => WantsPort(e)'
    BY <1>1, <1>2 DEF WantsPort, IsAdd, s, req, Known
  <2>3. s = "check" => log[e].name.kind # "tls"
    BY <1>2 DEF s, req
  <2>4. s # "deploy" /\ s # "ok"
    BY <1>2 DEF s
  <2> QED BY <1>1, <1>4, <1>6, <2>1, <2>2, <2>3, <2>4 DEF TasksFollow, At
<1> QED BY <1>1, <1>7, <1>8, <1>10, <1>11, FoundKept, PlanKept DEF Follow

(* One more request in the log: the plan goes on, what it said so far it   *)
(* still says.                                                             *)
LEMMA PlanGrows ==
  ASSUME NEW n \in Nat, Len(log) = n, log \in Seq(Request), NEW r, log' = Append(log, r),
         NEW a \in Slots(n), Plan(a)
  PROVE  \E b \in Slots(n + 1) : Plan(b)' /\ \A e \in 1 .. n : b[e] = a[e]
<1> DEFINE Wants == r.op = "add" /\ (r.name.kind = "tcp" =>
                      \E k \in 1 .. n : log[k].op = "register" /\ log[k].image = r.name.image)
           Free == DockerPort \ {a[k] : k \in 1 .. n}
           slot == IF Wants /\ Free # {} THEN Lowest(Free) ELSE 0
<1>1. slot \in DockerPort \cup {0}
  BY LowestIn, ServerAssumption
<1> HIDE DEF slot
<1> DEFINE b == [e \in 1 .. n + 1 |-> IF e = n + 1 THEN slot ELSE a[e]]
<1>2. b \in Slots(n + 1) /\ b[n + 1] = slot /\ \A e \in 1 .. n : b[e] = a[e]
  BY <1>1 DEF Slots
<1> HIDE DEF b
<1>3. /\ DOMAIN log = 1 .. n /\ DOMAIN log' = 1 .. n + 1 /\ log'[n + 1] = r
      /\ \A e \in 1 .. n : log'[e] = log[e]
  OBVIOUS
<1> PICK c : c = b
  OBVIOUS
<1>4. ASSUME NEW e \in 1 .. n
      PROVE  c[e] = IF WantsPort(e)' /\ ~(DockerPort \subseteq Before(c, e))
                    THEN Lowest(DockerPort \ Before(c, e)) ELSE 0
  <2>1. Before(c, e) = Before(a, e)
    BY <1>2 DEF Before
  <2>2. WantsPort(e)' <=> WantsPort(e)
    BY <1>3 DEF WantsPort, IsAdd, Known
  <2> QED BY <1>2, <1>3, <2>1, <2>2 DEF Plan
<1>5. c[n + 1] = IF WantsPort(n + 1)' /\ ~(DockerPort \subseteq Before(c, n + 1))
                 THEN Lowest(DockerPort \ Before(c, n + 1)) ELSE 0
  <2>1. Before(c, n + 1) = {a[k] : k \in 1 .. n}
    BY <1>2 DEF Before
  <2>2. WantsPort(n + 1)' <=> Wants
    BY <1>3 DEF WantsPort, IsAdd, Known
  <2>3. Free = DockerPort \ Before(c, n + 1) /\ (Free # {} <=> ~(DockerPort \subseteq Before(c, n + 1)))
    BY <2>1
  <2> QED BY <1>2, <2>2, <2>3 DEF slot
<1>6. Plan(c)'
  <2>1. \A e \in DOMAIN log' : e \in 1 .. n \/ e = n + 1
    BY <1>3
  <2>2. \A e : Before(c, e)' = Before(c, e)
    BY DEF Before
  <2> QED BY <1>4, <1>5, <2>1, <2>2 DEF Plan
<1> QED BY <1>2, <1>6

LEMMA WriteFollows ==
  ASSUME TypeInv, Phases, NEW a \in Slots(Len(log)), Follow(a), Clean',
         NEW c \in Client, WriteLog(c)
  PROVE  /\ log' = Append(log, task[c].req)
         /\ \E b \in Slots(Len(log')) : Follow(b)' /\ \A e \in DOMAIN log : b[e] = a[e]
<1> PICK n : n = Len(log)
  OBVIOUS
<1> PICK e : e = n + 1
  OBVIOUS
<1> PICK s : s = First(task[c].req)
  OBVIOUS
<1>1. /\ log' = Append(log, task[c].req) /\ Len(log') = e /\ n \in Nat
      /\ log \in Seq(Request) /\ log' \in Seq(Request)
      /\ Moves(c, "log", s, e, task[c].port)
      /\ UNCHANGED << published, phase, cursor, ports, images, registry, settled >>
  <2>1. "log" \notin spoilt'
    BY DEF Clean
  <2> QED BY <2>1, WriteEffect DEF TypeInv
<1>2. PICK b \in Slots(e) : Plan(b)' /\ \A f \in 1 .. n : b[f] = a[f]
  BY <1>1, PlanGrows DEF Follow
<1>3. /\ DOMAIN log = 1 .. n /\ DOMAIN log' = 1 .. e
      /\ \A f \in 1 .. n : log'[f] = log[f]
      /\ log'[e] = task[c].req
  BY <1>1
<1>4. /\ task[c].req \in Request
      /\ s \in {"register", "remove", "check", "port"}
      /\ s = "port" => task[c].req.op = "add" /\ task[c].req.name.kind # "tcp"
      /\ s = "check" => task[c].req.op = "add" /\ task[c].req.name.kind = "tcp"
  BY <1>1, TaskFields, RequestFields DEF Moves, First
<1>5. /\ task'[c].req = task[c].req /\ task'[c].at = s /\ task'[c].entry = e
      /\ ~Logged(c) /\ Logged(c)'
      /\ \A v \in Worker \ {c} : task'[v] = task[v] /\ Logged(v)' = Logged(v)
  BY <1>1, <1>4, TaskFields DEF Moves, Logged, Busy, At
<1>6. settled \subseteq 1 .. n /\ e \notin settled /\ e \notin 1 .. n
  BY <1>1, <1>3 DEF Follow, Order
<1>7. phase = "serve" /\ c \in Worker
  BY <1>1, TaskFields, Workers DEF Moves, Phases, Busy, TypeInv
<1>8. \A f \in 1 .. n : \A k \in 1 .. f - 1 : k \in 1 .. n
  BY <1>1
<1>9. Entries'
  <2>1. \A v \in Worker \ {c} : Logged(v) =>
          task[v].entry \in 1 .. n /\ task[v].req = log[task[v].entry]
    BY <1>3 DEF Follow, Entries
  <2> QED BY <1>1, <1>3, <1>5, <1>6, <2>1 DEF Follow, Entries
<1>10. Order'
  <2>1. \A f \in settled : \A k \in 1 .. f - 1 : log'[k] = log[k] /\ log'[f] = log[f]
    BY <1>3, <1>6, <1>8
  <2>2. settled' \subseteq DOMAIN log'
    BY <1>1, <1>3, <1>6
  <2> QED BY <1>1, <1>3, <1>6, <1>7, <2>1, <2>2 DEF Follow, Order, Conflict
<1>11. ASSUME NEW f \in 1 .. n PROVE Granted(f)' <=> Granted(f)
  <2>1. ~At(c, "check")
    BY <1>1 DEF Moves, At
  <2>2. task'[c].entry # f
    BY <1>5, <1>6
  <2> QED BY <1>1, <1>3, <1>5, <2>1, <2>2 DEF Granted, At
<1>12. ~Granted(e)'
  <2>1. \A v \in Worker \ {c} : At(v, "check")' => task'[v].entry # e
    BY <1>3, <1>5, <1>6, TaskFields DEF Follow, Entries, Logged, Busy, At
  <2>2. At(c, "check")' => log'[e].name.kind # "tls"
    BY <1>3, <1>4, <1>5 DEF At
  <2> QED BY <1>1, <1>6, <2>1, <2>2 DEF Granted
<1>13. PortsFollow(b)'
  <2>1. \A f \in DOMAIN log' : Granted(f)' => f \in 1 .. n /\ Granted(f)
    BY <1>1, <1>3, <1>11, <1>12
  <2>2. ASSUME NEW x \in DockerPort
        PROVE  x \in ports' <=> \E f \in DOMAIN log' : Granted(f)' /\ b[f] = x
    BY <1>1, <1>2, <1>3, <1>11, <2>1 DEF Follow, PortsFollow
  <2>3. ASSUME NEW f \in DOMAIN log', Granted(f)', NEW k \in 1 .. f - 1, IsAdd(k)', IsAdd(f)'
        PROVE  k \in settled'
    <3>1. f \in 1 .. n /\ k \in 1 .. n /\ Granted(f)
      BY <1>8, <2>1, <2>3
    <3>2. IsAdd(k) /\ IsAdd(f)
      BY <1>3, <2>3, <3>1 DEF IsAdd
    <3> QED BY <1>1, <1>3, <3>1, <3>2 DEF Follow, PortsFollow
  <2> QED BY <2>2, <2>3 DEF PortsFollow
<1>14. ASSUME NEW f \in 1 .. n
       PROVE  /\ (WantsPort(f)' <=> WantsPort(f)) /\ (IsAdd(f)' <=> IsAdd(f))
              /\ (Works(b, f)' <=> Works(a, f))
              /\ Id(b, f)' = Id(a, f)
  BY <1>2, <1>3, <1>8 DEF WantsPort, IsAdd, Works, Known, Id
<1>15. TasksFollow(b)'
  <2> SUFFICES ASSUME NEW v \in Worker, Logged(v)', NEW f, f = task'[v].entry
               PROVE  /\ task'[v].at \in {"register", "check", "port"} => f \notin settled'
                      /\ At(v, "port")' => WantsPort(f)'
                      /\ At(v, "check")' /\ log'[f].name.kind = "tls" =>
                           task'[v].port = b[f] /\ b[f] # 0
                      /\ At(v, "deploy")' \/ (At(v, "ok")' /\ IsAdd(f)') =>
                           task'[v].port = b[f] /\ Works(b, f)'
    BY DEF TasksFollow
  <2>1. CASE v = c
    BY <1>1, <1>3, <1>4, <1>5, <1>6, <2>1 DEF At, WantsPort, IsAdd
  <2>2. CASE v # c
    <3>1. Logged(v) /\ task'[v] = task[v] /\ f = task[v].entry /\ f \in 1 .. n
      BY <1>3, <1>5, <2>2 DEF Follow, Entries
    <3> QED BY <1>1, <1>2, <1>3, <1>14, <3>1 DEF Follow, TasksFollow, At
  <2> QED BY <2>1, <2>2
<1>16. Found(b)'
  <2>1. ASSUME NEW m \in Name, published'[m] # 0
        PROVE  \E f \in DOMAIN log' : IsAdd(f)' /\ log'[f].name = m /\ published'[m] = b[f]
    <3>1. PICK f \in 1 .. n : IsAdd(f) /\ log[f].name = m /\ published[m] = a[f]
      BY <1>1, <1>3, <2>1 DEF Follow, Found
    <3> QED BY <1>1, <1>2, <1>3, <3>1 DEF IsAdd
  <2>2. ASSUME NEW p \in registry'
        PROVE  /\ published'[p.name] # 0
               /\ \E f \in DOMAIN log' : IsAdd(f)' /\ p = Id(b, f)'
    <3>1. PICK f \in 1 .. n : IsAdd(f) /\ p = Id(a, f)
      BY <1>1, <1>3, <2>2 DEF Follow, Found
    <3>2. f \in DOMAIN log' /\ IsAdd(f)'
      BY <1>1, <1>3, <3>1 DEF IsAdd
    <3> QED BY <1>1, <1>14, <3>1, <3>2 DEF Follow, Found
  <2> QED BY <2>1, <2>2 DEF Found
<1> QED BY <1>1, <1>2, <1>3, <1>9, <1>10, <1>13, <1>15, <1>16 DEF Follow

(* Every step follows the plan. *)
LEMMA FollowStep ==
  ASSUME TypeInv, Phases, NEW a \in Slots(Len(log)), Follow(a), Clean', [Next]_vars
  PROVE  \E b \in Slots(Len(log')) : Follow(b)' /\ \A e \in DOMAIN log : b[e] = a[e]
<1>1. \/ Follow(a)' /\ UNCHANGED log
      \/ \E c \in Client : WriteLog(c)
  <2>1. CASE UNCHANGED vars
    <3>1. /\ UNCHANGED << log, published, ports, images, settled, registry, task, phase, cursor >>
      BY <2>1 DEF vars, durable, server, tables, proxies
    <3>2. Follow(a)'
      BY <3>1, AsideFollows DEF Logged, Busy, At, Follow, Order
    <3> QED BY <3>1, <3>2
  <2>2. ASSUME NEW w \in Worker, Work(w) PROVE Follow(a)' /\ UNCHANGED log
    <3>1. UNCHANGED log
      BY <2>2, RegisterEffect, CheckEffect, TakeEffect, DeployEffect, RemoveEffect DEF Work
    <3> QED
      BY <2>2, <3>1, RegisterFollows, CheckFollows, TakeFollows, DeployFollows, RemoveFollows
         DEF Work
  <2>3. CASE ReplayNext \/ ReplayDone \/ Serve \/ Crash
    <3>1. UNCHANGED log
      BY <2>3 DEF ReplayNext, ReplayDone, Serve, Crash, durable
    <3> QED BY <2>3, <3>1, NextFollows, EndFollows, ServeFollows, CrashFollows
  <2>4. ASSUME NEW c \in Client, Asks(c) PROVE Follow(a)' /\ UNCHANGED log
    BY <2>4, AskEffect, AskFollows
  <2>5. ASSUME NEW c \in Client, Leave(c) \/ Answer(c) PROVE Follow(a)' /\ UNCHANGED log
    <3>1. UNCHANGED log
      BY <2>5 DEF Leave, Answer, durable
    <3> QED BY <2>5, <3>1, EndFollows
  <2>6. ASSUME NEW p, Bind(p) \/ Close(p) PROVE Follow(a)' /\ UNCHANGED log
    <3>1. UNCHANGED log
      BY <2>6 DEF Bind, Close, durable
    <3> QED BY <2>6, <3>1, ListenersFollow
  <2> QED BY <2>1, <2>2, <2>3, <2>4, <2>5, <2>6, Workers DEF Next, Restart, Asks
<1>2. ASSUME Follow(a)', UNCHANGED log
      PROVE  \E b \in Slots(Len(log')) : Follow(b)' /\ \A e \in DOMAIN log : b[e] = a[e]
  BY <1>2
<1> QED BY <1>1, <1>2, WriteFollows

Planned == Clean => \E a \in Slots(Len(log)) : Follow(a)

LEMMA PlannedInit == Init => Planned
<1> SUFFICES ASSUME Init PROVE \E a \in Slots(Len(log)) : Follow(a)
  BY DEF Planned
<1>1. /\ log = << >> /\ Len(log) = 0 /\ DOMAIN log = {} /\ settled = {} /\ images = {}
      /\ ports = {} /\ registry = {} /\ published = [m \in Name |-> 0]
  BY DEF Init
<1>2. \A w \in Worker : ~Logged(w) /\ ~At(w, "check")
  BY TaskFields DEF Init, Logged, Busy, At, Step
<1> PICK a : a = [e \in 1 .. 0 |-> 0]
  OBVIOUS
<1>3. a \in Slots(Len(log))
  BY <1>1 DEF Slots
<1>4. Plan(a) /\ Entries /\ Order /\ PortsFollow(a) /\ TasksFollow(a) /\ Found(a)
  BY <1>1, <1>2 DEF Plan, Entries, Order, PortsFollow, TasksFollow, Found
<1> QED BY <1>3, <1>4 DEF Follow

LEMMA PlannedStep ==
  ASSUME TypeInv, Phases, Planned, [Next]_vars
  PROVE  Planned'
<1> SUFFICES ASSUME Clean' PROVE Planned'
  BY DEF Planned
<1>1. Clean
  BY SpoiltStays DEF Clean
<1>2. PICK a \in Slots(Len(log)) : Follow(a)
  BY <1>1 DEF Planned
<1>3. PICK b \in Slots(Len(log')) : Follow(b)'
  BY <1>2, FollowStep
<1> QED BY <1>3 DEF Planned

(* A proxy dials the port that its container publishes, after any restart, *)
(* unless the log misses a request, requests took effect out of turn, or   *)
(* a host port was handed out twice: two logged requests with one name     *)
(* would share a container.                                                *)
THEOREM DialsItsContainerHolds == Spec => []DialsItsContainer
<1> DEFINE IInv == TypeInv /\ Phases /\ Planned /\ ("port" \notin spoilt => HostsDiffer)
<1>1. Init => IInv
  <2>1. Init => HostsDiffer
    BY Workers, TaskFields DEF Init, HostsDiffer, At, Step
  <2> QED BY <2>1, TypesInit, PlannedInit
<1>2. IInv /\ [Next]_vars => IInv'
  <2> SUFFICES ASSUME IInv, [Next]_vars PROVE IInv'
    OBVIOUS
  <2>1. "port" \notin spoilt' => "port" \notin spoilt /\ HostsDiffer'
    BY SpoiltStays, HostsStep
  <2> QED BY <2>1, TypesStep, PlannedStep
<1>3. IInv => DialsItsContainer
  <2> SUFFICES ASSUME IInv, Clean, HostsDiffer, NEW p \in registry
               PROVE  published[p.name] = p.port
    BY DEF DialsItsContainer, Clean
  <2>1. PICK a \in Slots(Len(log)) : Found(a)
    BY DEF Planned, Follow
  <2>2. PICK e \in DOMAIN log : IsAdd(e) /\ p = Id(a, e)
    BY <2>1 DEF Found
  <2>3. p \in Proxy /\ p.name \in Name /\ published[p.name] # 0
    BY <2>1 DEF Found, TypeInv, Proxy
  <2>4. PICK f \in DOMAIN log : IsAdd(f) /\ log[f].name = p.name /\ published[p.name] = a[f]
    BY <2>1, <2>3 DEF Found
  <2>5. log[e].name = p.name /\ p.port = a[e]
    BY <2>2 DEF Id
  <2>6. e = f
    BY <2>2, <2>4, <2>5 DEF HostsDiffer
  <2> QED BY <2>4, <2>5, <2>6
<1> QED BY <1>1, <1>2, <1>3, PTL DEF Spec
=============================================================================
