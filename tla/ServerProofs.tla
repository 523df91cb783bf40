---------------------------- MODULE ServerProofs -----------------------------
(* Proofs about Server, for any clients, images, ports and bound of the    *)
(* log: what each action does to the task it moves, and the types.         *)
EXTENDS Server, FiniteSetTheorems, WellFoundedInduction, TLAPS

Step == {"log", "check", "port", "deploy", "register", "remove", "ok", "error"}
Task == [at : Step, req : Request, entry : Nat, port : DockerPort \cup {0}]
Busy(w) == task[w] # Idle

OfStep(t) ==
  /\ t.at = "register" => t.req.op = "register"
  /\ t.at \in {"check", "port", "deploy"} => t.req.op = "add"
  /\ t.at = "remove" => t.req.op = "remove"
  /\ t.port = 0 => /\ t.at # "deploy"
                   /\ t.at = "check" => t.req.name.kind # "tls"
                   /\ t.at = "ok" => t.req.op # "add"

TaskOK(t, n) == t = Idle \/ (t \in Task /\ t.entry <= n /\ OfStep(t))

TypeInv ==
  /\ log \in Seq(Request)
  /\ published \in [Name -> DockerPort \cup {0}]
  /\ phase \in {"replay", "serve"} /\ cursor \in 0 .. Len(log)
  /\ DOMAIN task = Worker /\ task = [w \in Worker |-> task[w]]
  /\ \A w \in Worker : TaskOK(task[w], Len(log))
  /\ hosts \subseteq HostPort /\ ports \subseteq DockerPort /\ images \subseteq Image
  /\ registry \cup binding \cup listening \cup told \cup gone \subseteq Proxy
  /\ settled \subseteq 0 .. Len(log)
  /\ spoilt \subseteq {"log", "order", "port", "docker", "bind"}

(* Clients and the replay are never at work at the same time. *)
Phases ==
  /\ phase = "replay" => \A c \in Client : ~Busy(c)
  /\ phase = "serve" => ~Busy(Replay)
  /\ Busy(Replay) => /\ task[Replay].entry = cursor + 1 /\ cursor < Len(log)
                     /\ task[Replay].at # "log"

-----------------------------------------------------------------------------
(* A set of ports has a lowest one. *)
LEMMA LowestIn ==
  ASSUME NEW S, S \subseteq Nat, S # {}
  PROVE  Lowest(S) \in S
<1> DEFINE R == OpToRel(<, Nat)
<1>1. IsWellFoundedOn(R, Nat)
  BY NatLessThanWellFounded
<1>2. \A x, y \in Nat : y < x => << y, x >> \in R
  BY DEF OpToRel
<1> HIDE DEF R
<1>3. PICK x \in S : \A y \in S : ~ (<< y, x >> \in R)
  BY <1>1, WFMin
<1>4. ASSUME NEW y \in S PROVE x <= y
  <2>1. ~ (<< y, x >> \in R)
    BY <1>3
  <2>2. x \in Nat /\ y \in Nat
    OBVIOUS
  <2>3. ~ (y < x)
    BY <1>2, <2>1, <2>2, Zenon
  <2> QED BY <2>2, <2>3
<1>5. \E z \in S : \A y \in S : z <= y
  BY <1>4
<1> QED BY <1>5 DEF Lowest

LEMMA Workers == Replay \in Worker /\ \A c \in Client : c \in Worker /\ c # Replay
BY ServerAssumption DEF Worker

(* The fields of requests and tasks. *)
LEMMA RequestFields ==
  /\ \A r \in Request :
       /\ r.op \in {"register", "add", "remove"}
       /\ r.op = "register" => r.image \in Image
       /\ r.op = "add" => r.name \in Name
       /\ r.op = "remove" => r.id \in Proxy /\ r = RemoveReq(r.id)
  /\ \A i \in Image : RegisterReq(i) \in Request /\ RegisterReq(i).op = "register"
  /\ \A k \in Kind, i \in Image, h \in HostPort :
       LET r == AddReq(k, i, h) IN
       r \in Request /\ r.op = "add" /\ r.name.host = h
  /\ \A p \in Proxy :
       RemoveReq(p) \in Request /\ RemoveReq(p).op = "remove" /\ RemoveReq(p).id = p
BY DEF Request, RegisterReq, AddReq, RemoveReq, Name

LEMMA NameFields ==
  ASSUME NEW n \in Name
  PROVE  n.kind \in {"tcp", "tls"} /\ n.image \in Image /\ n.host \in HostPort
BY ServerAssumption DEF Name

LEMMA TaskFields ==
  /\ \A t \in Task : /\ t.at \in Step /\ t.req \in Request /\ t.entry \in Nat
                     /\ t.port \in DockerPort \cup {0} /\ t # Idle
  /\ Idle.at = "idle" /\ "idle" \notin Step
BY DEF Task, Idle, Step

LEMMA TaskMoved ==
  ASSUME NEW t \in Task, NEW s \in Step
  PROVE  LET u == [t EXCEPT !.at = s] IN
         u \in Task /\ u.at = s /\ u.req = t.req /\ u.entry = t.entry /\ u.port = t.port
BY DEF Task

(* The task of w, and only that, goes from the step s to the step r. *)
Moves(w, s, r, e, p) ==
  /\ task[w] \in Task /\ task[w].at = s /\ OfStep(task[w]) /\ task[w].entry <= Len(log)
  /\ task'[w] \in Task /\ task'[w].at = r /\ task'[w].req = task[w].req
  /\ task'[w].entry = e /\ task'[w].port = p
  /\ DOMAIN task' = Worker /\ task' = [v \in Worker |-> task'[v]]
  /\ \A v \in Worker \ {w} : task'[v] = task[v]

LEMMA BecomeEffect ==
  ASSUME TypeInv, NEW w \in Worker, NEW t, Become(w, t)
  PROVE  /\ task'[w] = t /\ \A v \in Worker \ {w} : task'[v] = task[v]
         /\ DOMAIN task' = Worker /\ task' = [v \in Worker |-> task'[v]]
BY DEF TypeInv, Become

LEMMA GotoEffect ==
  ASSUME TypeInv, NEW w \in Worker, NEW s \in Step, At(w, s), NEW r \in Step, Goto(w, r)
  PROVE  Moves(w, s, r, task[w].entry, task[w].port)
<1>1. task[w] \in Task /\ OfStep(task[w]) /\ task[w].entry <= Len(log)
  BY TaskFields DEF TypeInv, TaskOK, At
<1>2. Become(w, [task[w] EXCEPT !.at = r])
  BY DEF Goto
<1> DEFINE t == [task[w] EXCEPT !.at = r]
<1>3. /\ t \in Task /\ t.at = r /\ t.req = task[w].req /\ t.entry = task[w].entry
      /\ t.port = task[w].port
  BY <1>1, TaskMoved
<1> HIDE DEF t
<1> QED BY <1>1, <1>2, <1>3, BecomeEffect DEF Moves, At, t

LEMMA FinishEffect ==
  ASSUME TypeInv, NEW w \in Worker, NEW s \in Step, At(w, s), NEW ok, Finish(w, ok)
  PROVE  Moves(w, s, IF ok THEN "ok" ELSE "error", task[w].entry, task[w].port)
<1> DEFINE r == IF ok THEN "ok" ELSE "error"
<1>1. r \in Step /\ Goto(w, r)
  BY DEF Finish, Goto, Step
<1> HIDE DEF r
<1>2. Moves(w, s, r, task[w].entry, task[w].port)
  BY <1>1, GotoEffect
<1> QED BY <1>2 DEF r

(* The steps that also change the entry or the port. *)
LEMMA GrantEffect ==
  ASSUME TypeInv, NEW w \in Worker, At(w, "port"), NEW r \in Step, NEW p \in DockerPort,
         Become(w, [task[w] EXCEPT !.at = r, !.port = p])
  PROVE  Moves(w, "port", r, task[w].entry, p)
<1>1. task[w] \in Task /\ OfStep(task[w]) /\ task[w].entry <= Len(log)
  BY TaskFields DEF TypeInv, TaskOK, At, Step
<1> DEFINE t == [task[w] EXCEPT !.at = r, !.port = p]
<1>2. t \in Task /\ t.at = r /\ t.req = task[w].req /\ t.entry = task[w].entry /\ t.port = p
  BY <1>1 DEF Task
<1> HIDE DEF t
<1> QED BY <1>1, <1>2, BecomeEffect DEF Moves, At, t

LEMMA EntryEffect ==
  ASSUME TypeInv, NEW w \in Worker, At(w, "log"), NEW r \in Step, NEW e \in Nat,
         Become(w, [task[w] EXCEPT !.at = r, !.entry = e])
  PROVE  Moves(w, "log", r, e, task[w].port)
<1>1. task[w] \in Task /\ OfStep(task[w]) /\ task[w].entry <= Len(log)
  BY TaskFields DEF TypeInv, TaskOK, At, Step
<1> DEFINE t == [task[w] EXCEPT !.at = r, !.entry = e]
<1>2. t \in Task /\ t.at = r /\ t.req = task[w].req /\ t.entry = e /\ t.port = task[w].port
  BY <1>1 DEF Task
<1> HIDE DEF t
<1> QED BY <1>1, <1>2, BecomeEffect DEF Moves, At, t

(* A request is asked or, if it is in the log, replayed. *)
LEMMA BeginEffect ==
  ASSUME TypeInv, NEW w \in Worker, NEW s \in Step, NEW r \in Request, NEW e \in Nat,
         Become(w, [at |-> s, req |-> r, entry |-> e, port |-> 0])
  PROVE  /\ task'[w] \in Task /\ task'[w].at = s /\ task'[w].req = r /\ task'[w].entry = e
         /\ task'[w].port = 0
         /\ DOMAIN task' = Worker /\ task' = [v \in Worker |-> task'[v]]
         /\ \A v \in Worker \ {w} : task'[v] = task[v]
<1> DEFINE t == [at |-> s, req |-> r, entry |-> e, port |-> 0]
<1>1. t \in Task /\ t.at = s /\ t.req = r /\ t.entry = e /\ t.port = 0
  BY DEF Task
<1> HIDE DEF t
<1> QED BY <1>1, BecomeEffect DEF t

LEMMA FirstStep ==
  ASSUME NEW t \in Task
  PROVE  /\ First(t.req) \in {"register", "remove", "check", "port"}
         /\ \A u \in Task : u.req = t.req /\ u.at = First(t.req) => OfStep(u)
BY RequestFields, TaskFields DEF First, OfStep

(* What keeps the types of the tasks. *)
LEMMA TasksKept ==
  ASSUME TypeInv, Len(log') >= Len(log), Len(log) \in Nat, Len(log') \in Nat, NEW w \in Worker,
         TaskOK(task'[w], Len(log')), \A v \in Worker \ {w} : task'[v] = task[v]
  PROVE  \A v \in Worker : TaskOK(task'[v], Len(log'))
<1> SUFFICES ASSUME NEW v \in Worker, v # w PROVE TaskOK(task'[v], Len(log'))
  OBVIOUS
<1>1. TaskOK(task[v], Len(log)) /\ task'[v] = task[v]
  BY DEF TypeInv
<1> QED BY <1>1, TaskFields DEF TaskOK

LEMMA MovesOK ==
  ASSUME TypeInv, NEW w \in Worker, NEW s, NEW r, NEW e, NEW p, Moves(w, s, r, e, p),
         log' \in Seq(Request), Len(log') >= Len(log), e <= Len(log'), OfStep(task'[w])
  PROVE  /\ DOMAIN task' = Worker /\ task' = [v \in Worker |-> task'[v]]
         /\ \A v \in Worker : TaskOK(task'[v], Len(log'))
<1>1. TaskOK(task'[w], Len(log'))
  BY DEF TaskOK, Moves
<1>2. Len(log) \in Nat /\ Len(log') \in Nat
  BY DEF TypeInv
<1> QED BY <1>1, <1>2, TasksKept DEF Moves

-----------------------------------------------------------------------------
(* Type correctness. *)
(* A new request; no proxy asked for has the host port of another one.     *)
Asks(c) == \/ \E i \in Image : AskRegister(c, i) \/ \E k \in Kind : AskAdd(c, k, i)
           \/ \E p \in told \cup gone : AskRemove(c, p)

LEMMA AskEffect ==
  ASSUME TypeInv, NEW c \in Client, Asks(c)
  PROVE  /\ CanAsk(c) /\ ~Busy(c)
         /\ task'[c] \in Task /\ task'[c].at = "log" /\ task'[c].entry = 0
         /\ DOMAIN task' = Worker /\ task' = [v \in Worker |-> task'[v]]
         /\ \A v \in Worker \ {c} : task'[v] = task[v]
         /\ task'[c].req.op = "add" =>
              LET h == task'[c].req.name.host IN
              /\ h \in HostPort \ hosts /\ hosts' = hosts \cup {h}
              /\ (\E e \in DOMAIN log : log[e].op = "add" /\ log[e].name.host = h) =>
                   "port" \in spoilt'
         /\ task'[c].req.op # "add" => UNCHANGED hosts
         /\ IF task'[c].req.op = "remove"
            THEN task'[c].req.id \in told \cup gone /\ told' = told \ {task'[c].req.id}
            ELSE UNCHANGED told
         /\ spoilt \subseteq spoilt' /\ spoilt' \subseteq spoilt \cup {"port"}
         /\ UNCHANGED << log, published, phase, cursor, ports, images, registry, binding,
                         listening, settled, gone >>
<1>1. CanAsk(c) /\ ~Busy(c) /\ c \in Worker
  BY Workers, TaskFields DEF Asks, AskRegister, AskAdd, AskRemove, CanAsk, TypeInv, TaskOK, At, Busy
<1>2. ASSUME NEW r \in Request, Ask(c, r)
      PROVE  /\ task'[c] \in Task /\ task'[c].at = "log" /\ task'[c].entry = 0 /\ task'[c].req = r
             /\ DOMAIN task' = Worker /\ task' = [v \in Worker |-> task'[v]]
             /\ \A v \in Worker \ {c} : task'[v] = task[v]
             /\ UNCHANGED << log, published, phase, cursor, ports, images, registry, binding,
                             listening, settled >>
  <2>1. "log" \in Step /\ 0 \in Nat
    BY DEF Step
  <2>2. Become(c, [at |-> "log", req |-> r, entry |-> 0, port |-> 0])
    BY <1>2 DEF Ask
  <2> QED BY <1>1, <1>2, <2>1, <2>2, BeginEffect DEF Ask, durable, server, tables, proxies
<1>3. ASSUME NEW i \in Image, AskRegister(c, i)
      PROVE  /\ RegisterReq(i) \in Request /\ RegisterReq(i).op = "register"
             /\ Ask(c, RegisterReq(i)) /\ UNCHANGED << hosts, told, gone, spoilt >>
  BY <1>3, RequestFields DEF AskRegister, history
<1>4. ASSUME NEW i \in Image, NEW k \in Kind, AskAdd(c, k, i)
      PROVE  \E h \in HostPort \ hosts :
               /\ AddReq(k, i, h) \in Request /\ AddReq(k, i, h).op = "add"
               /\ AddReq(k, i, h).name.host = h
               /\ Ask(c, AddReq(k, i, h)) /\ hosts' = hosts \cup {h}
               /\ (\E e \in DOMAIN log : log[e].op = "add" /\ log[e].name.host = h) =>
                    "port" \in spoilt'
               /\ spoilt \subseteq spoilt' /\ spoilt' \subseteq spoilt \cup {"port"}
               /\ UNCHANGED << told, gone >>
  <2> DEFINE h == Lowest(HostPort \ hosts)
  <2>1. h \in HostPort \ hosts
    BY <1>4, LowestIn, ServerAssumption DEF AskAdd, TypeInv
  <2>2. /\ Ask(c, AddReq(k, i, h)) /\ hosts' = hosts \cup {h} /\ UNCHANGED << told, gone >>
        /\ Spoil({"port" : e \in {e \in DOMAIN log : log[e].op = "add" /\ log[e].name.host = h}})
    BY <1>4 DEF AskAdd, history
  <2> HIDE DEF h
  <2> QED BY <2>1, <2>2, RequestFields DEF Spoil
<1>5. ASSUME NEW p \in told \cup gone, AskRemove(c, p)
      PROVE  /\ RemoveReq(p) \in Request /\ RemoveReq(p).op = "remove" /\ RemoveReq(p).id = p
             /\ Ask(c, RemoveReq(p)) /\ told' = told \ {p} /\ UNCHANGED << hosts, gone, spoilt >>
  BY <1>5, RequestFields DEF AskRemove, TypeInv
<1>6. CASE \E i \in Image : AskRegister(c, i)
  BY <1>1, <1>2, <1>3, <1>6
<1>7. CASE \E i \in Image, k \in Kind : AskAdd(c, k, i)
  BY <1>1, <1>2, <1>4, <1>7
<1>8. CASE \E p \in told \cup gone : AskRemove(c, p)
  BY <1>1, <1>2, <1>5, <1>8
<1> QED BY <1>6, <1>7, <1>8 DEF Asks

LEMMA AskTypes ==
  ASSUME TypeInv, Phases, NEW c \in Client, Asks(c)
  PROVE  TypeInv' /\ Phases'
<1>1. \A v \in Worker : TaskOK(task'[v], Len(log'))
  BY AskEffect DEF TypeInv, TaskOK, OfStep
<1>2. hosts' \subseteq HostPort
  <2>1. CASE task'[c].req.op = "add"
    <3>1. PICK h \in HostPort : hosts' = hosts \cup {h}
      BY <2>1, AskEffect
    <3> QED BY <3>1 DEF TypeInv
  <2>2. CASE task'[c].req.op # "add"
    <3>1. UNCHANGED hosts
      BY <2>2, AskEffect
    <3> QED BY <3>1 DEF TypeInv
  <2> QED BY <2>1, <2>2
<1>3. told' \subseteq told /\ phase = "serve"
  BY AskEffect DEF CanAsk
<1>4. TypeInv'
  BY <1>1, <1>2, <1>3, AskEffect DEF TypeInv
<1> QED BY <1>3, <1>4, AskEffect, Workers DEF Phases, Busy

(* An entry of the log, unless the write fails. *)
LEMMA WriteEffect ==
  ASSUME TypeInv, NEW c \in Client, WriteLog(c)
  PROVE  /\ First(task[c].req) \in {"register", "remove", "check", "port"}
         /\ \/ /\ log' = Append(log, task[c].req) /\ Len(log') = Len(log) + 1
               /\ log' \in Seq(Request) /\ Len(log) \in Nat
               /\ Moves(c, "log", First(task[c].req), Len(log) + 1, task[c].port)
               /\ UNCHANGED spoilt
            \/ /\ Moves(c, "log", First(task[c].req), task[c].entry, task[c].port)
               /\ spoilt' = spoilt \cup {"log"} /\ UNCHANGED log
         /\ UNCHANGED << published, phase, cursor, hosts, ports, images, registry, binding,
                         listening, settled, told, gone >>
<1> DEFINE r == First(task[c].req)
<1>1. c \in Worker /\ At(c, "log") /\ task[c] \in Task
  BY Workers, TaskFields DEF WriteLog, TypeInv, TaskOK, At, Step
<1>2. r \in {"register", "remove", "check", "port"} /\ r \in Step
  BY <1>1, FirstStep DEF Step
<1>3. \/ /\ log' = Append(log, task[c].req) /\ UNCHANGED spoilt
         /\ Become(c, [task[c] EXCEPT !.at = r, !.entry = Len(log')])
      \/ Goto(c, r) /\ spoilt' = spoilt \cup {"log"} /\ UNCHANGED log
  BY DEF WriteLog, Spoil
<1>4. UNCHANGED << published, phase, cursor, hosts, ports, images, registry, binding,
                   listening, settled, told, gone >>
  BY DEF WriteLog, server, tables, proxies, history
<1> HIDE DEF r
<1>5. CASE /\ log' = Append(log, task[c].req) /\ UNCHANGED spoilt
           /\ Become(c, [task[c] EXCEPT !.at = r, !.entry = Len(log')])
  <2>1. /\ log' \in Seq(Request) /\ Len(log') = Len(log) + 1
        /\ Len(log) \in Nat /\ Len(log) + 1 \in Nat
    BY <1>1, <1>5, TaskFields DEF TypeInv
  <2> DEFINE n == Len(log) + 1
  <2> HIDE DEF n
  <2>2. n \in Nat /\ Become(c, [task[c] EXCEPT !.at = r, !.entry = n])
    BY <1>5, <2>1 DEF n
  <2>3. Moves(c, "log", r, n, task[c].port)
    BY <1>1, <1>2, <2>2, EntryEffect
  <2> QED BY <1>2, <1>4, <1>5, <2>1, <2>3 DEF n, r
<1>6. CASE Goto(c, r) /\ spoilt' = spoilt \cup {"log"} /\ UNCHANGED log
  <2>1. Moves(c, "log", r, task[c].entry, task[c].port)
    BY <1>1, <1>2, <1>6, GotoEffect DEF Step
  <2> QED BY <1>2, <1>4, <1>6, <2>1 DEF r
<1> QED BY <1>3, <1>5, <1>6

LEMMA WriteLogTypes ==
  ASSUME TypeInv, Phases, NEW c \in Client, WriteLog(c)
  PROVE  TypeInv' /\ Phases'
<1>1. PICK e : /\ Moves(c, "log", First(task[c].req), e, task[c].port)
               /\ log' \in Seq(Request) /\ Len(log') >= Len(log) /\ e <= Len(log')
               /\ spoilt' \subseteq spoilt \cup {"log"}
  <2>1. log \in Seq(Request)
    BY DEF TypeInv
  <2> QED BY <2>1, WriteEffect DEF Moves
<1>2. OfStep(task'[c])
  BY <1>1, FirstStep DEF Moves
<1>3. DOMAIN task' = Worker /\ task' = [v \in Worker |-> task'[v]]
      /\ \A v \in Worker : TaskOK(task'[v], Len(log'))
  BY <1>1, <1>2, MovesOK, Workers
<1>4. UNCHANGED << published, phase, cursor, hosts, ports, images, registry, binding,
                   listening, settled, told, gone >> /\ Len(log) \in Nat /\ Len(log') \in Nat
  BY <1>1, WriteEffect DEF TypeInv
<1>5. TypeInv'
  BY <1>1, <1>3, <1>4 DEF TypeInv
<1>6. Busy(c) /\ \A v \in Worker \ {c} : task'[v] = task[v]
  BY <1>1, TaskFields DEF Busy, Moves
<1> QED BY <1>4, <1>5, <1>6, Workers DEF Phases, Busy, TypeInv

(* The steps of a request, as moves of its task. *)
Stays(w, s, r) == Moves(w, s, r, task[w].entry, task[w].port)

LEMMA RegisterEffect ==
  ASSUME TypeInv, NEW w \in Worker, Register(w)
  PROVE  /\ Stays(w, "register", "ok")
         /\ images' = images \cup {task[w].req.image} /\ Settle(w) /\ SpoilOrder(w)
         /\ UNCHANGED << log, published, phase, cursor, hosts, ports, registry, binding,
                         listening, told, gone >>
BY FinishEffect DEF Register, Stays, Step, durable, server, proxies, history

Valid(w) == /\ task[w].req.name.image \in images
            /\ task[w].req.name.kind = "tls" => TlsConfigured

LEMMA CheckEffect ==
  ASSUME TypeInv, NEW w \in Worker, CheckImage(w)
  PROVE  /\ \/ Valid(w) /\ task[w].req.name.kind = "tcp" /\ Stays(w, "check", "port")
               /\ UNCHANGED settled
            \/ Valid(w) /\ task[w].req.name.kind # "tcp" /\ Stays(w, "check", "deploy")
               /\ Settle(w)
            \/ ~Valid(w) /\ Stays(w, "check", "error") /\ Settle(w)
         /\ SpoilOrder(w)
         /\ UNCHANGED << log, published, phase, cursor, hosts, ports, images, registry,
                         binding, listening, told, gone >>
<1>1. /\ At(w, "check") /\ SpoilOrder(w) /\ "check" \in Step /\ "port" \in Step
      /\ "deploy" \in Step
      /\ UNCHANGED << log, published, phase, cursor, hosts, ports, images, registry,
                      binding, listening, told, gone >>
  BY DEF CheckImage, durable, server, tables, proxies, history, Step
<1>2. CASE Valid(w) /\ task[w].req.name.kind = "tcp"
  <2>1. Goto(w, "port") /\ UNCHANGED settled
    BY <1>2 DEF CheckImage, Valid
  <2> QED BY <1>1, <1>2, <2>1, GotoEffect DEF Stays
<1>3. CASE Valid(w) /\ task[w].req.name.kind # "tcp"
  <2>1. Goto(w, "deploy") /\ Settle(w)
    BY <1>3 DEF CheckImage, Valid
  <2> QED BY <1>1, <1>3, <2>1, GotoEffect DEF Stays
<1>4. CASE ~Valid(w)
  <2>1. Finish(w, FALSE) /\ Settle(w)
    BY <1>4 DEF CheckImage, Valid
  <2> QED BY <1>1, <1>4, <2>1, FinishEffect DEF Stays
<1> QED BY <1>2, <1>3, <1>4

(* The next docker port. *)
Port == Lowest(DockerPort \ ports)

LEMMA TakeEffect ==
  ASSUME TypeInv, NEW w \in Worker, TakePort(w)
  PROVE  /\ \/ ports = DockerPort /\ Stays(w, "port", "error") /\ UNCHANGED ports /\ Settle(w)
            \/ /\ ports # DockerPort /\ ports' = ports \cup {Port}
               /\ Port \in DockerPort \ ports
               /\ \/ task[w].req.name.kind = "tcp" /\ Settle(w)
                     /\ Moves(w, "port", "deploy", task[w].entry, Port)
                  \/ task[w].req.name.kind # "tcp" /\ UNCHANGED settled
                     /\ Moves(w, "port", "check", task[w].entry, Port)
         /\ SpoilOrder(w)
         /\ UNCHANGED << log, published, phase, cursor, hosts, images, registry, binding,
                         listening, told, gone >>
<1>1. /\ At(w, "port") /\ SpoilOrder(w) /\ "check" \in Step /\ "port" \in Step
      /\ "deploy" \in Step
      /\ UNCHANGED << log, published, phase, cursor, hosts, images, registry,
                      binding, listening, told, gone >>
  BY DEF TakePort, durable, server, proxies, history, Step
<1>2. CASE ports = DockerPort
  <2>1. Finish(w, FALSE) /\ UNCHANGED ports /\ Settle(w)
    BY <1>2 DEF TakePort
  <2> QED BY <1>1, <1>2, <2>1, FinishEffect DEF Stays
<1>3. CASE ports # DockerPort
  <2>1. Port \in DockerPort \ ports
    BY <1>3, LowestIn, ServerAssumption DEF TypeInv, Port
  <2>2. ports' = ports \cup {Port}
    BY <1>3 DEF TakePort, Port
  <2>3. CASE task[w].req.name.kind = "tcp"
    <3>1. Become(w, [task[w] EXCEPT !.at = "deploy", !.port = Port]) /\ Settle(w)
      BY <1>3, <2>3 DEF TakePort, Port
    <3> HIDE DEF Port
    <3> QED BY <1>1, <1>3, <2>1, <2>2, <2>3, <3>1, GrantEffect
  <2>4. CASE task[w].req.name.kind # "tcp"
    <3>1. Become(w, [task[w] EXCEPT !.at = "check", !.port = Port]) /\ UNCHANGED settled
      BY <1>3, <2>4 DEF TakePort, Port
    <3> HIDE DEF Port
    <3> QED BY <1>1, <1>3, <2>1, <2>2, <2>4, <3>1, GrantEffect
  <2> QED BY <2>3, <2>4
<1> QED BY <1>2, <1>3

LEMMA DeployEffect ==
  ASSUME TypeInv, NEW w \in Worker, Deploy(w)
  PROVE  /\ \/ /\ Publish(w) /\ registry' = registry \cup {Made(w)}
               /\ binding' \subseteq binding \cup {Made(w)}
               /\ Stays(w, "deploy", "ok") /\ UNCHANGED spoilt
            \/ /\ Publish(w) /\ registry' = registry \cup {Made(w)} /\ UNCHANGED binding
               /\ Stays(w, "deploy", "error")
               /\ spoilt' = spoilt \cup (IF w = Replay THEN {"bind"} ELSE {})
            \/ /\ Publish(w) \/ UNCHANGED published
               /\ Stays(w, "deploy", "error") /\ UNCHANGED << registry, binding >>
               /\ spoilt' = spoilt \cup (IF w = Replay THEN {"docker"} ELSE {})
         /\ UNCHANGED << log, phase, cursor, hosts, ports, images, listening, settled, told, gone >>
<1>1. At(w, "deploy") /\ "deploy" \in Step
  BY DEF Deploy, Step
<1>2. /\ \/ /\ Publish(w) /\ registry' = registry \cup {Made(w)}
            /\ binding' \subseteq binding \cup {Made(w)}
            /\ Finish(w, TRUE) /\ UNCHANGED << listening, spoilt >>
         \/ /\ Publish(w) /\ registry' = registry \cup {Made(w)}
            /\ Finish(w, FALSE) /\ UNCHANGED << binding, listening >>
            /\ spoilt' = spoilt \cup (IF w = Replay THEN {"bind"} ELSE {})
         \/ /\ Publish(w) \/ UNCHANGED published
            /\ Finish(w, FALSE) /\ UNCHANGED << registry, binding, listening >>
            /\ spoilt' = spoilt \cup (IF w = Replay THEN {"docker"} ELSE {})
      /\ UNCHANGED << log, phase, cursor, hosts, ports, images, settled, told, gone >>
  BY DEF Deploy, AddFails, server, tables, history, Spoil, proxies
<1>3. Finish(w, TRUE) => Stays(w, "deploy", "ok")
  BY <1>1, FinishEffect DEF Stays
<1>4. Finish(w, FALSE) => Stays(w, "deploy", "error")
  BY <1>1, FinishEffect DEF Stays
<1> QED BY <1>2, <1>3, <1>4

LEMMA RemoveEffect ==
  ASSUME TypeInv, NEW w \in Worker, Remove(w)
  PROVE  /\ Stays(w, "remove", IF task[w].req.id \in registry THEN "ok" ELSE "error")
         /\ registry' = registry \ {task[w].req.id}
         /\ UNCHANGED << log, published, phase, cursor, hosts, ports, images, binding,
                         listening, settled, told, gone, spoilt >>
<1>1. At(w, "remove") /\ "remove" \in Step /\ Finish(w, task[w].req.id \in registry)
  BY DEF Remove, Step
<1> DEFINE ok == task[w].req.id \in registry
<1> HIDE DEF ok
<1>2. Finish(w, ok)
  BY <1>1 DEF ok
<1>3. Stays(w, "remove", IF ok THEN "ok" ELSE "error")
  BY <1>1, <1>2, FinishEffect DEF Stays
<1> QED BY <1>3 DEF Remove, durable, server, tables, history, ok

(* A working task stays one, so that clients and the replay alternate. *)
LEMMA MovesPhases ==
  ASSUME Phases, NEW w \in Worker, NEW s, NEW r, NEW p, Moves(w, s, r, task[w].entry, p),
         r # "log", UNCHANGED << log, phase, cursor >>
  PROVE  Phases'
<1>1. Busy(w) /\ Busy(w)'
  BY TaskFields DEF Moves, Busy
<1>2. \A v \in Worker \ {w} : task'[v] = task[v]
  BY DEF Moves
<1>3. Replay \in Worker /\ \A c \in Client : c \in Worker /\ c # Replay
  BY ServerAssumption DEF Worker
<1>4. CASE w = Replay
  BY <1>1, <1>2, <1>3, <1>4 DEF Phases, Busy, Moves
<1>5. CASE w # Replay
  BY <1>1, <1>2, <1>3, <1>5 DEF Phases, Busy
<1> QED BY <1>4, <1>5

LEMMA MovesTypes ==
  ASSUME TypeInv, NEW w \in Worker, NEW s, NEW r, NEW p, Moves(w, s, r, task[w].entry, p),
         UNCHANGED log,
         \/ r = "ok" /\ s \in {"register", "remove"}
         \/ r = "ok" /\ s = "deploy" /\ p = task[w].port
         \/ r = "port" /\ s = "check"
         \/ r = "deploy" /\ s = "check" /\ task[w].req.name.kind = "tls" /\ p = task[w].port
         \/ r \in {"check", "deploy"} /\ s = "port" /\ p # 0
         \/ r = "error"
  PROVE  /\ DOMAIN task' = Worker /\ task' = [v \in Worker |-> task'[v]]
         /\ \A v \in Worker : TaskOK(task'[v], Len(log'))
<1>1. OfStep(task'[w])
  BY DEF Moves, OfStep
<1>2. task[w].entry <= Len(log') /\ log' \in Seq(Request) /\ Len(log') >= Len(log)
  BY DEF Moves, TypeInv
<1> QED BY <1>1, <1>2, MovesOK

LEMMA WorkTypes ==
  ASSUME TypeInv, Phases, NEW w \in Worker, Work(w)
  PROVE  TypeInv' /\ Phases'
<1>1. Spoil({}) \/ Spoil({"order"}) => spoilt' \subseteq {"log", "order", "port", "docker", "bind"}
  BY DEF Spoil, TypeInv
<1>2. ASSUME Settle(w), task[w] \in Task, task[w].entry <= Len(log), UNCHANGED log
      PROVE  settled' \subseteq 0 .. Len(log')
  BY <1>2, TaskFields DEF Settle, TypeInv
<1>3. CASE Register(w)
  <2>1. task[w].req.image \in Image /\ task[w] \in Task
    BY <1>3, RegisterEffect, RequestFields, TaskFields DEF Stays, Moves, OfStep
  <2>2. Stays(w, "register", "ok") /\ UNCHANGED << log, phase, cursor >>
    BY <1>3, RegisterEffect
  <2>3. Phases' /\ DOMAIN task' = Worker /\ task' = [v \in Worker |-> task'[v]]
        /\ \A v \in Worker : TaskOK(task'[v], Len(log'))
    BY <2>2, MovesPhases, MovesTypes DEF Stays
  <2> QED
    BY <1>1, <1>2, <1>3, <2>1, <2>2, <2>3, RegisterEffect DEF TypeInv, SpoilOrder, Stays, Moves
<1>4. CASE CheckImage(w)
  <2>1. PICK r \in {"port", "deploy", "error"} :
          Stays(w, "check", r) /\ (r = "deploy" => task[w].req.name.kind = "tls")
    <3>1. ASSUME Stays(w, "check", "deploy") PROVE task[w].req.name.kind \in {"tcp", "tls"}
      BY <3>1, TaskFields, RequestFields, NameFields DEF Stays, Moves, OfStep
    <3> QED BY <1>4, <3>1, CheckEffect
  <2>2. UNCHANGED << log, phase, cursor >>
    BY <1>4, CheckEffect
  <2>3. Phases' /\ DOMAIN task' = Worker /\ task' = [v \in Worker |-> task'[v]]
        /\ \A v \in Worker : TaskOK(task'[v], Len(log'))
    BY <2>1, <2>2, MovesPhases, MovesTypes DEF Stays
  <2>4. task[w] \in Task /\ task[w].entry <= Len(log)
    BY <2>1 DEF Stays, Moves
  <2>5. settled' \subseteq 0 .. Len(log')
    BY <1>2, <1>4, <2>2, <2>4, CheckEffect DEF TypeInv
  <2> QED BY <1>1, <1>4, <2>2, <2>3, <2>5, CheckEffect DEF TypeInv, SpoilOrder
<1>5. CASE TakePort(w)
  <2>1. PICK r \in {"check", "deploy", "error"}, p \in DockerPort \cup {0} :
          Moves(w, "port", r, task[w].entry, p) /\ (r # "error" => p # 0)
    <3>1. ASSUME Stays(w, "port", "error") PROVE task[w].port \in DockerPort \cup {0}
      BY <3>1, TaskFields DEF Stays, Moves
    <3> HIDE DEF Port
    <3> QED BY <1>5, <3>1, TakeEffect, ServerAssumption DEF Stays
  <2>2. UNCHANGED << log, phase, cursor >> /\ ports' \subseteq DockerPort
    BY <1>5, TakeEffect DEF TypeInv
  <2>3. Phases' /\ DOMAIN task' = Worker /\ task' = [v \in Worker |-> task'[v]]
        /\ \A v \in Worker : TaskOK(task'[v], Len(log'))
    BY <2>1, <2>2, MovesPhases, MovesTypes
  <2>4. task[w] \in Task /\ task[w].entry <= Len(log)
    BY <2>1 DEF Moves
  <2>5. settled' \subseteq 0 .. Len(log')
    BY <1>2, <1>5, <2>2, <2>4, TakeEffect DEF TypeInv
  <2> QED BY <1>1, <1>5, <2>2, <2>3, <2>5, TakeEffect DEF TypeInv, SpoilOrder
<1>6. CASE Deploy(w)
  <2>1. PICK r \in {"ok", "error"} : Stays(w, "deploy", r)
    BY <1>6, DeployEffect
  <2>2. UNCHANGED << log, phase, cursor, hosts, ports, images, listening, settled, told, gone >>
        /\ spoilt' \subseteq spoilt \cup {"docker", "bind"}
    BY <1>6, DeployEffect
  <2>3. Phases' /\ DOMAIN task' = Worker /\ task' = [v \in Worker |-> task'[v]]
        /\ \A v \in Worker : TaskOK(task'[v], Len(log'))
    BY <2>1, <2>2, MovesPhases, MovesTypes DEF Stays
  <2>4. task[w].req.name \in Name /\ task[w].port \in DockerPort
    BY <2>1, RequestFields, TaskFields DEF Stays, Moves, OfStep
  <2>5. published' \in [Name -> DockerPort \cup {0}]
    BY <1>6, <2>4, DeployEffect DEF Publish, TypeInv
  <2>6. registry' \cup binding' \subseteq Proxy
    <3>1. Made(w) \in Proxy
      BY <2>4 DEF Made, Proxy
    <3> QED BY <1>6, <3>1, DeployEffect DEF TypeInv
  <2> QED BY <2>2, <2>3, <2>5, <2>6 DEF TypeInv
<1>7. CASE Remove(w)
  <2>1. PICK r \in {"ok", "error"} : Stays(w, "remove", r)
    BY <1>7, RemoveEffect
  <2>2. UNCHANGED << log, published, phase, cursor, hosts, ports, images, binding,
                     listening, settled, told, gone, spoilt >> /\ registry' \subseteq registry
    BY <1>7, RemoveEffect
  <2>3. Phases' /\ DOMAIN task' = Worker /\ task' = [v \in Worker |-> task'[v]]
        /\ \A v \in Worker : TaskOK(task'[v], Len(log'))
    BY <2>1, <2>2, MovesPhases, MovesTypes DEF Stays
  <2> QED BY <2>2, <2>3 DEF TypeInv
<1> QED BY <1>3, <1>4, <1>5, <1>6, <1>7 DEF Work

(* A task that ends. *)
LEMMA EndEffect ==
  ASSUME TypeInv, Phases, NEW w \in Worker, Become(w, Idle), Len(log) = Len(log')
  PROVE  /\ task'[w] = Idle /\ \A v \in Worker \ {w} : task'[v] = task[v]
         /\ DOMAIN task' = Worker /\ task' = [v \in Worker |-> task'[v]]
         /\ \A v \in Worker : TaskOK(task'[v], Len(log'))
<1>1. /\ task'[w] = Idle /\ \A v \in Worker \ {w} : task'[v] = task[v]
      /\ DOMAIN task' = Worker /\ task' = [v \in Worker |-> task'[v]]
  BY BecomeEffect
<1> QED BY <1>1 DEF TypeInv, TaskOK

LEMMA LeaveTypes ==
  ASSUME TypeInv, Phases, NEW c \in Client, Leave(c)
  PROVE  TypeInv' /\ Phases'
<1>1. UNCHANGED << log, published, phase, cursor, hosts, ports, images, registry, binding,
                   listening, settled, told, gone, spoilt >> /\ Become(c, Idle)
  BY DEF Leave, durable, server, tables, proxies, history
<1> QED BY <1>1, Workers, EndEffect DEF TypeInv, Phases, Busy

LEMMA AnswerTypes ==
  ASSUME TypeInv, Phases, NEW c \in Client, Answer(c)
  PROVE  TypeInv' /\ Phases'
<1>1. UNCHANGED << log, published, phase, cursor, hosts, ports, images, registry, binding,
                   listening, settled, spoilt >> /\ Become(c, Idle)
  BY DEF Answer, durable, server, tables, proxies
<1>2. c \in Worker /\ task[c] \in Task /\ OfStep(task[c])
  BY Workers, TaskFields DEF Answer, TypeInv, TaskOK, Step
<1>3. told' \cup gone' \subseteq Proxy
  BY <1>2, RequestFields, TaskFields DEF Answer, TypeInv, Made, Proxy, OfStep, At
<1> QED BY <1>1, <1>3, Workers, EndEffect DEF TypeInv, Phases, Busy

LEMMA ListenerTypes ==
  ASSUME TypeInv, Phases, NEW p \in Proxy, Bind(p) \/ Close(p)
  PROVE  TypeInv' /\ Phases'
<1>1. UNCHANGED << log, published, phase, cursor, task, hosts, ports, images, settled,
                   told, gone >>
      /\ registry' \cup binding' \cup listening' \subseteq Proxy
      /\ spoilt' \subseteq spoilt \cup {"bind"}
  BY DEF Bind, Close, durable, server, tables, history, Spoil, TypeInv
<1> QED BY <1>1 DEF TypeInv, Phases, Busy

LEMMA CrashTypes ==
  ASSUME TypeInv, Phases, Crash
  PROVE  TypeInv' /\ Phases'
<1>1. /\ UNCHANGED << log, published, told, gone >>
      /\ phase' = "replay" /\ cursor' = 0 /\ task' = [w \in Worker |-> Idle]
      /\ hosts' = {} /\ ports' = {} /\ images' = {} /\ settled' = {}
      /\ registry' = {} /\ binding' = {} /\ listening' = {} /\ spoilt' \subseteq spoilt
  BY DEF Crash, durable
<1>2. /\ DOMAIN task' = Worker /\ task' = [w \in Worker |-> task'[w]]
      /\ \A w \in Worker : task'[w] = Idle
  BY <1>1
<1>3. TypeInv'
  BY <1>1, <1>2 DEF TypeInv, TaskOK
<1> QED BY <1>1, <1>2, <1>3, Workers DEF Phases, Busy

LEMMA ReplayTypes ==
  ASSUME TypeInv, Phases, ReplayNext \/ ReplayDone \/ Serve
  PROVE  TypeInv' /\ Phases'
<1>1. UNCHANGED << log, published, hosts, ports, images, registry, binding, listening,
                   settled, told, gone, spoilt >>
  BY DEF ReplayNext, ReplayDone, Serve, durable, server, tables, proxies, history
<1>2. CASE ReplayNext
  <2> DEFINE req == log[cursor + 1]
             e == cursor + 1
  <2>1. req \in Request /\ e \in Nat /\ e <= Len(log') /\ ~Busy(Replay) /\ phase = "replay"
        /\ cursor < Len(log) /\ UNCHANGED << phase, cursor >>
    <3>1. phase = "replay" /\ cursor < Len(log) /\ UNCHANGED << phase, cursor >>
          /\ At(Replay, "idle")
      BY <1>2 DEF ReplayNext, server
    <3>2. ~Busy(Replay)
      BY <3>1, Workers, TaskFields DEF TypeInv, At, Busy, TaskOK
    <3>3. cursor \in Nat /\ e \in DOMAIN log
      BY <3>1 DEF TypeInv
    <3> QED BY <1>1, <3>1, <3>2, <3>3 DEF TypeInv
  <2>2. First(req) \in {"register", "remove", "check", "port"}
    BY <2>1, RequestFields DEF First
  <2>3. Become(Replay, [at |-> First(req), req |-> req, entry |-> e, port |-> 0])
    BY <1>2 DEF ReplayNext
  <2> HIDE DEF req, e
  <2> DEFINE s == First(req)
  <2>4. s \in Step /\ s # "log"
    BY <2>2 DEF Step
  <2> HIDE DEF s
  <2>5. /\ task'[Replay] \in Task /\ task'[Replay].at = s /\ task'[Replay].req = req
        /\ task'[Replay].entry = e
        /\ DOMAIN task' = Worker /\ task' = [v \in Worker |-> task'[v]]
        /\ \A v \in Worker \ {Replay} : task'[v] = task[v]
    BY <2>1, <2>3, <2>4, BeginEffect, Workers DEF s
  <2>6. OfStep(task'[Replay])
    BY <2>1, <2>5, RequestFields, TaskFields DEF First, OfStep, s
  <2>7. \A v \in Worker : TaskOK(task'[v], Len(log'))
    BY <1>1, <2>1, <2>5, <2>6 DEF TaskOK, TypeInv
  <2>8. TypeInv'
    BY <1>1, <2>1, <2>5, <2>7 DEF TypeInv
  <2>9. Phases'
    BY <1>1, <2>1, <2>4, <2>5, Workers DEF Phases, Busy, e
  <2> QED BY <2>8, <2>9
<1>3. CASE ReplayDone
  <2>1. Become(Replay, Idle) /\ cursor' = cursor + 1 /\ UNCHANGED phase
    BY <1>3 DEF ReplayDone
  <2>2. cursor < Len(log)
    BY <1>3, TaskFields, Workers DEF ReplayDone, Phases, Busy, Step
  <2>3. /\ task'[Replay] = Idle /\ \A v \in Worker \ {Replay} : task'[v] = task[v]
        /\ DOMAIN task' = Worker /\ task' = [v \in Worker |-> task'[v]]
        /\ \A v \in Worker : TaskOK(task'[v], Len(log'))
    BY <1>1, <2>1, EndEffect, Workers
  <2>4. TypeInv'
    BY <1>1, <2>1, <2>2, <2>3 DEF TypeInv
  <2> QED BY <2>1, <2>3, <2>4, Workers DEF Phases, Busy
<1>4. CASE Serve
  <2>1. ~Busy(Replay) /\ phase' = "serve" /\ UNCHANGED << cursor, task >>
    BY <1>4, Workers, TaskFields DEF Serve, At, TypeInv, TaskOK, Busy
  <2> QED BY <1>1, <2>1 DEF TypeInv, Phases, Busy
<1> QED BY <1>2, <1>3, <1>4

LEMMA TypesInit == Init => TypeInv /\ Phases
BY Workers, ServerAssumption DEF Init, TypeInv, Phases, Busy, TaskOK

LEMMA TypesStep == TypeInv /\ Phases /\ [Next]_vars => TypeInv' /\ Phases'
<1> SUFFICES ASSUME TypeInv, Phases, [Next]_vars PROVE TypeInv' /\ Phases'
  OBVIOUS
<1>1. CASE UNCHANGED vars
  BY <1>1 DEF vars, durable, server, tables, proxies, history, TypeInv, Phases, Busy
<1>2. CASE Restart \/ Crash
  BY <1>2, ReplayTypes, WorkTypes, CrashTypes, Workers DEF Restart
<1>3. ASSUME NEW c \in Client,
             Asks(c) \/ WriteLog(c) \/ Leave(c) \/ Work(c) \/ Answer(c)
      PROVE  TypeInv' /\ Phases'
  BY <1>3, AskTypes, WriteLogTypes, LeaveTypes, WorkTypes, AnswerTypes, Workers
<1>4. ASSUME NEW p \in binding \cup listening, Bind(p) \/ Close(p) PROVE TypeInv' /\ Phases'
  BY <1>4, ListenerTypes DEF TypeInv
<1> QED BY <1>1, <1>2, <1>3, <1>4 DEF Next, Asks

(* The bound of the log: a client that is about to write has its place. *)
Writing == {c \in Client : At(c, "log")}
Bounded == Len(log) + Cardinality(Writing) <= MaxLog

(* The other steps leave the log and those about to write as they are. *)
Quietly ==
  UNCHANGED log /\ \A c \in Client : At(c, "log")' => task'[c] = task[c] /\ UNCHANGED hosts

LEMMA QuietSteps ==
  ASSUME TypeInv, Phases, [Next]_vars
  PROVE  Quietly \/ \E c \in Client : Asks(c) \/ WriteLog(c)
<1>1. CASE UNCHANGED vars
  BY <1>1 DEF vars, durable, Quietly
<1>2. ASSUME NEW w \in Worker, Work(w) PROVE Quietly
  <2>1. PICK s, r, p : Moves(w, s, r, task[w].entry, p) /\ r # "log"
    BY <1>2, RegisterEffect, CheckEffect, TakeEffect, DeployEffect, RemoveEffect DEF Work, Stays
  <2>2. \A v \in Worker : task'[v] = task[v] \/ task'[v].at # "log"
    BY <2>1 DEF Moves
  <2>3. UNCHANGED << log, hosts >>
    BY <1>2, RegisterEffect, CheckEffect, TakeEffect, DeployEffect, RemoveEffect DEF Work
  <2> QED BY <2>2, <2>3, Workers DEF Quietly, At
<1>3. CASE ReplayNext \/ ReplayDone \/ Serve
  BY <1>3, Workers
     DEF ReplayNext, ReplayDone, Serve, Become, durable, TypeInv, Quietly
<1>4. CASE Crash
  BY <1>4, Workers, TaskFields DEF Crash, durable, Quietly, At
<1>5. ASSUME NEW c \in Client, Leave(c) \/ Answer(c) PROVE Quietly
  <2>1. UNCHANGED << log, hosts >> /\ Become(c, Idle)
    BY <1>5 DEF Leave, Answer, durable
  <2> QED BY <2>1, Workers, TaskFields, BecomeEffect DEF Quietly, At
<1>6. ASSUME NEW p, Bind(p) \/ Close(p) PROVE Quietly
  BY <1>6 DEF Bind, Close, durable, Quietly
<1> QED BY <1>1, <1>2, <1>3, <1>4, <1>5, <1>6, Workers DEF Next, Restart, Asks

LEMMA BoundStep ==
  ASSUME TypeInv, Phases, Bounded, [Next]_vars
  PROVE  Bounded'
<1>1. IsFiniteSet(Writing) /\ Cardinality(Writing) \in Nat /\ Len(log) \in Nat
  BY ServerAssumption, FS_Subset, FS_CardinalityType DEF Writing, TypeInv
<1>2. CASE Quietly
  <2>1. Writing' \subseteq Writing /\ UNCHANGED log
    BY <1>2 DEF Quietly, Writing, At
  <2>2. Cardinality(Writing') <= Cardinality(Writing) /\ Cardinality(Writing') \in Nat
    BY <1>1, <2>1, FS_Subset, FS_CardinalityType
  <2> QED BY <1>1, <2>1, <2>2, ServerAssumption DEF Bounded
<1>3. ASSUME NEW c \in Client, Asks(c) PROVE Bounded'
  <2>1. Len(log) + Cardinality(Writing) < MaxLog
    BY <1>3, AskEffect DEF CanAsk, Writing
  <2>2. Writing' = Writing \cup {c} /\ UNCHANGED log
    BY <1>3, Workers, AskEffect DEF Writing, At
  <2>3. /\ IsFiniteSet(Writing \cup {c})
        /\ Cardinality(Writing \cup {c}) \in {Cardinality(Writing), Cardinality(Writing) + 1}
    BY <1>1, FS_AddElement
  <2> QED BY <1>1, <2>1, <2>2, <2>3, ServerAssumption DEF Bounded
<1>4. ASSUME NEW c \in Client, WriteLog(c) PROVE Bounded'
  <2>1. Len(log') <= Len(log) + 1 /\ Len(log') \in Nat
    BY <1>1, <1>4, WriteEffect
  <2>2. c \in Writing /\ Writing' = Writing \ {c}
    BY <1>4, Workers, WriteEffect DEF Writing, At, Moves
  <2>3. Cardinality(Writing') = Cardinality(Writing) - 1
    BY <1>1, <2>2, FS_RemoveElement
  <2> QED BY <1>1, <2>1, <2>3, ServerAssumption DEF Bounded
<1> QED BY <1>2, <1>3, <1>4, QuietSteps

(* Every value has its type, and the log its bound. *)
THEOREM TypeCorrect == Spec => []TypeOK
<1>1. Init => TypeInv /\ Phases /\ Bounded
  <2> SUFFICES ASSUME Init PROVE Bounded
    BY TypesInit
  <2>1. Writing = {}
    BY Workers, TaskFields DEF Init, Writing, At
  <2>2. Cardinality(Writing) = 0 /\ Len(log) = 0
    BY <2>1, FS_EmptySet DEF Init
  <2> QED BY <2>2, ServerAssumption DEF Bounded
<1>2. TypeInv /\ Phases /\ Bounded /\ [Next]_vars => (TypeInv /\ Phases /\ Bounded)'
  BY TypesStep, BoundStep
<1>3. TypeInv /\ Bounded => TypeOK
  <2> SUFFICES ASSUME TypeInv, Bounded PROVE TypeOK
    OBVIOUS
  <2>1. Len(log) <= MaxLog
    BY ServerAssumption, FS_Subset, FS_CardinalityType DEF Bounded, Writing, TypeInv
  <2>2. \A w \in Worker : task[w] = Idle \/ /\ task[w].req \in Request
                                            /\ task[w].entry \in 0 .. Len(log)
                                            /\ task[w].port \in DockerPort \cup {0}
    BY TaskFields DEF TypeInv, TaskOK
  <2> QED BY <2>1, <2>2 DEF TypeOK, TypeInv
<1> QED BY <1>1, <1>2, <1>3, PTL DEF Spec

=============================================================================
