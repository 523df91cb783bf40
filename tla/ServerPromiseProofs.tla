------------------------ MODULE ServerPromiseProofs -------------------------
(* What the clients of Server were told survives its restarts.  The replay *)
(* makes every proxy again under the id it had, since its docker port is   *)
(* the one that the log determines, and removes again what was removed.    *)
EXTENDS ServerLogProofs

(* Nothing went wrong but that a host port was handed out twice. *)
Spotless == spoilt \subseteq {"port"}

(* A proxy of the log whose client is not waiting for the answer. *)
Claimed(e) == \E c \in Client : Logged(c) /\ task[c].entry = e
Owned(a, p, e) == IsAdd(e) /\ a[e] # 0 /\ p = Id(a, e) /\ ~Claimed(e)

(* What the clients know, and what they asked to remove, is in the log. *)
Promised(a) ==
  /\ \A p \in told : \E e \in DOMAIN log : Owned(a, p, e) /\ Works(a, e)
  /\ \A p \in gone : \E k \in DOMAIN log : log[k] = RemoveReq(p)
  /\ \A k \in DOMAIN log : log[k].op = "remove" =>
       /\ log[k].id \notin told
       /\ \E e \in 1 .. k - 1 : Owned(a, log[k].id, e)
  /\ \A c \in Client : Busy(c) /\ task[c].req.op = "remove" =>
       /\ task[c].req.id \notin told
       /\ \E e \in DOMAIN log : Owned(a, task[c].req.id, e)

(* What the replay has done is in the registry. *)
Done(e) == e <= cursor \/ (task[Replay].at \in {"ok", "error"} /\ task[Replay].entry = e)

Replayed(a) ==
  /\ task[Replay].at = "error" /\ task[Replay].req.op = "add" => ~Works(a, task[Replay].entry)
  /\ phase = "replay" => \A e \in DOMAIN log : Done(e) =>
       /\ IsAdd(e) /\ Works(a, e) =>
            \/ Id(a, e) \in registry
            \/ \E k \in DOMAIN log : Done(k) /\ log[k] = RemoveReq(Id(a, e))
       /\ log[e].op = "remove" => log[e].id \notin registry

(* While the server serves, what the clients know is in the registry. *)
Kept ==
  phase = "serve" =>
    /\ told \subseteq registry /\ gone \cap registry = {}
    /\ \A c \in Client : At(c, "ok") =>
         /\ task[c].req.op = "add" => Made(c) \in registry
         /\ task[c].req.op = "remove" => task[c].req.id \notin registry

(* Docker ports, and with them ids, differ from entry to entry. *)
LEMMA SlotsDiffer ==
  ASSUME TypeInv, NEW a \in Slots(Len(log)), Plan(a),
         NEW d \in DOMAIN log, NEW e \in DOMAIN log, a[d] # 0, a[d] = a[e]
  PROVE  d = e
<1>1. DOMAIN log = 1 .. Len(log) /\ Len(log) \in Nat
  BY DEF TypeInv
<1>2. ASSUME NEW f \in DOMAIN log, a[f] # 0 PROVE a[f] \notin Before(a, f)
  <2>1. a[f] = Lowest(DockerPort \ Before(a, f)) /\ ~(DockerPort \subseteq Before(a, f))
    BY <1>2 DEF Plan
  <2>2. DockerPort \ Before(a, f) # {} /\ DockerPort \ Before(a, f) \subseteq Nat
    BY <2>1, ServerAssumption
  <2> QED BY <2>1, <2>2, LowestIn
<1>3. a[e] \notin Before(a, e) /\ a[d] \notin Before(a, d)
  BY <1>2
<1>4. ~(d \in 1 .. e - 1) /\ ~(e \in 1 .. d - 1)
  BY <1>3 DEF Before
<1> QED BY <1>1, <1>4

LEMMA IdsDiffer ==
  ASSUME TypeInv, NEW a \in Slots(Len(log)), Plan(a), NEW p,
         NEW d \in DOMAIN log, NEW e \in DOMAIN log,
         Owned(a, p, d), a[e] # 0, Claimed(e)
  PROVE  p # Id(a, e)
BY SlotsDiffer DEF Owned, Id

(* The proxy of a request that is carried out, and what a client has of it. *)
LEMMA MadeIsId ==
  ASSUME TypeInv, NEW a, Follow(a), NEW w \in Worker,
         At(w, "deploy") \/ (At(w, "ok") /\ task[w].req.op = "add")
  PROVE  LET e == task[w].entry IN
         /\ e \in DOMAIN log /\ IsAdd(e) /\ Made(w) = Id(a, e) /\ a[e] # 0 /\ Works(a, e)
         /\ w \in Client => Claimed(e)
<1>1. Logged(w) /\ task[w] \in Task /\ OfStep(task[w])
  BY TaskFields DEF Logged, Busy, At, TypeInv, TaskOK
<1>2. task[w].entry \in DOMAIN log /\ task[w].req = log[task[w].entry]
  BY <1>1 DEF Follow, Entries
<1>3. IsAdd(task[w].entry)
  BY <1>1, <1>2 DEF IsAdd, OfStep, At
<1>4. task[w].port = a[task[w].entry] /\ Works(a, task[w].entry)
  BY <1>1, <1>3 DEF Follow, TasksFollow
<1> QED BY <1>1, <1>2, <1>3, <1>4 DEF Works, Made, Id, Claimed

(* A request fails in turn only if the log says so, docker apart. *)
LEMMA ErrorPlanned ==
  ASSUME TypeInv, NEW a \in Slots(Len(log)), Follow(a), Clean',
         NEW w \in Worker, CheckImage(w) \/ TakePort(w), task'[w].at = "error"
  PROVE  ~Works(a, task[w].entry)
<1> PICK e : e = task[w].entry
  OBVIOUS
<1>1. PICK s, r, p : s \in {"check", "port"} /\ Moves(w, s, r, e, p)
  BY CheckEffect, TakeEffect DEF Stays
<1>2. /\ SpoilOrder(w) /\ UNCHANGED log
      /\ CheckImage(w) => At(w, "check") /\ ~Valid(w)
      /\ TakePort(w) => At(w, "port") /\ ports = DockerPort
  BY CheckEffect, TakeEffect DEF Stays, Moves, At
<1>3. /\ e \in DOMAIN log /\ log[e] = task[w].req /\ IsAdd(e) /\ Logged(w)
      /\ s # "log" /\ r # "log"
  <2>1. s # "log" /\ r # "log"
    BY <1>1 DEF Moves
  <2> QED BY <1>1, <1>2, <2>1, MoveKeeps DEF Moves, OfStep, IsAdd, Follow
<1>4. \A k \in 1 .. e - 1 : Conflict(log[k], log[e]) => k \in settled
  BY <1>2, <1>3, InTurn
<1>5. CASE CheckImage(w)
  <2>1. e \notin settled
    BY <1>2, <1>3, <1>5 DEF Follow, TasksFollow, At
  <2>2. log[e].name.image \in images <=> Known(e)
    BY <1>3, <1>4, <2>1, ImageKnown
  <2> QED BY <1>2, <1>3, <1>5, <2>2 DEF Valid, Works
<1>6. CASE TakePort(w)
  BY <1>2, <1>3, <1>4, <1>6, PortPlanned DEF Works
<1> QED BY <1>5, <1>6

-----------------------------------------------------------------------------
(* The promises and the log. *)

(* A task that goes on claims what it claimed. *)
LEMMA WorkClaims ==
  ASSUME TypeInv, NEW a, Follow(a), NEW w \in Worker, Work(w)
  PROVE  /\ UNCHANGED << log, phase, cursor, told, gone >>
         /\ task'[w].req = task[w].req /\ task'[w].entry = task[w].entry
         /\ task'[w].at # "log" /\ Logged(w) /\ Logged(w)'
         /\ \A v \in Worker \ {w} : task'[v] = task[v]
         /\ \A e : Claimed(e)' => Claimed(e)
<1>1. UNCHANGED << log, phase, cursor, told, gone >>
  BY RegisterEffect, CheckEffect, TakeEffect, DeployEffect, RemoveEffect DEF Work
<1>2. PICK s, r, p : Moves(w, s, r, task[w].entry, p) /\ s # "log" /\ r # "log"
  BY RegisterEffect, CheckEffect, TakeEffect, DeployEffect, RemoveEffect DEF Work, Stays
<1>3. /\ Logged(w) /\ Logged(w)'
      /\ \A v \in Worker \ {w} : task'[v] = task[v] /\ Logged(v)' = Logged(v)
  BY <1>1, <1>2, MoveKeeps DEF Follow
<1>4. task'[w].req = task[w].req /\ task'[w].entry = task[w].entry /\ task'[w].at # "log"
  BY <1>2 DEF Moves
<1>5. \A e : Claimed(e)' => Claimed(e)
  BY <1>3, <1>4, Workers DEF Claimed
<1> QED BY <1>1, <1>3, <1>4, <1>5

(* The steps that concern no promise. *)
Unheard(a) ==
  /\ UNCHANGED << log, told, gone >>
  /\ \A e : Claimed(e)' => Claimed(e)
  /\ \A c \in Client : Busy(c)' => Busy(c) /\ task'[c].req = task[c].req

LEMMA UnheardKeeps ==
  ASSUME NEW a, Promised(a), Unheard(a)
  PROVE  Promised(a)'
<1>1. \A p, e : Owned(a, p, e) => Owned(a, p, e)'
  BY DEF Owned, Unheard, IsAdd, Id
<1>2. \A e : Works(a, e) => Works(a, e)'
  BY DEF Works, Known, Unheard
<1> QED BY <1>1, <1>2 DEF Promised, Unheard

LEMMA UnheardSteps ==
  ASSUME TypeInv, Phases, NEW a, Follow(a), [Next]_vars
  PROVE  Unheard(a) \/ \E c \in Client : Asks(c) \/ WriteLog(c) \/ Answer(c)
<1>1. CASE UNCHANGED vars
  BY <1>1 DEF vars, durable, history, Unheard, Claimed, Logged, Busy, At
<1>2. ASSUME NEW w \in Worker, Work(w) PROVE Unheard(a)
  <2>1. \A c \in Client : Busy(c)' => Busy(c) /\ task'[c].req = task[c].req
    BY <1>2, WorkClaims, Workers DEF Logged, Busy
  <2> QED BY <1>2, <2>1, WorkClaims DEF Unheard
<1>3. CASE ReplayNext \/ ReplayDone \/ Serve
  <2>1. UNCHANGED << log, told, gone >> /\ \A c \in Client : task'[c] = task[c]
    BY <1>3, Workers DEF ReplayNext, ReplayDone, Serve, Become, durable, history, TypeInv
  <2> QED BY <2>1 DEF Unheard, Claimed, Logged, Busy, At
<1>4. CASE Crash
  <2>1. UNCHANGED << log, told, gone >> /\ \A c \in Client : task'[c] = Idle
    BY <1>4, Workers DEF Crash, durable
  <2> QED BY <2>1 DEF Unheard, Claimed, Logged, Busy
<1>5. ASSUME NEW c \in Client, Leave(c) PROVE Unheard(a)
  <2>1. UNCHANGED << log, told, gone >> /\ Become(c, Idle)
    BY <1>5 DEF Leave, durable, history
  <2>2. task'[c] = Idle /\ \A v \in Worker \ {c} : task'[v] = task[v]
    BY <2>1, BecomeEffect, Workers
  <2> QED BY <2>1, <2>2, Workers DEF Unheard, Claimed, Logged, Busy, At
<1>6. ASSUME NEW p, Bind(p) \/ Close(p) PROVE Unheard(a)
  BY <1>6 DEF Bind, Close, durable, history, Unheard, Claimed, Logged, Busy, At
<1> QED BY <1>1, <1>2, <1>3, <1>4, <1>5, <1>6, Workers DEF Next, Restart, Asks

(* A client asks to remove what it knows: the log has it, and no client is *)
(* about to be told of it.                                                 *)
LEMMA AskPromised ==
  ASSUME TypeInv, Phases, NEW a, Follow(a), Promised(a), NEW c \in Client, Asks(c)
  PROVE  Promised(a)'
<1>1. /\ UNCHANGED << log, gone >> /\ told' \subseteq told
      /\ ~Busy(c) /\ task'[c].at = "log" /\ \A v \in Worker \ {c} : task'[v] = task[v]
      /\ task'[c].req.op = "remove" =>
           task'[c].req.id \in told \cup gone /\ task'[c].req.id \notin told'
  BY AskEffect
<1>2. \A e : Claimed(e)' => Claimed(e)
  BY <1>1, Workers DEF Claimed, Logged, At, Busy
<1>3. \A p, e : Owned(a, p, e) => Owned(a, p, e)'
  BY <1>1, <1>2 DEF Owned, IsAdd, Id
<1>4. \A e : Works(a, e) => Works(a, e)'
  BY <1>1 DEF Works, Known
<1>5. ASSUME task'[c].req.op = "remove"
      PROVE  /\ task'[c].req.id \notin told'
             /\ \E e \in DOMAIN log : Owned(a, task'[c].req.id, e)
  <2>1. CASE task'[c].req.id \in told
    BY <1>1, <1>5, <2>1 DEF Promised
  <2>2. CASE task'[c].req.id \in gone
    <3>1. PICK k \in DOMAIN log : log[k] = RemoveReq(task'[c].req.id)
      BY <2>2 DEF Promised
    <3>2. log[k].op = "remove" /\ log[k].id = task'[c].req.id
      BY <3>1 DEF RemoveReq
    <3>3. PICK e \in 1 .. k - 1 : Owned(a, log[k].id, e)
      BY <3>2 DEF Promised
    <3>4. e \in DOMAIN log
      BY DEF TypeInv
    <3> QED BY <1>1, <1>5, <3>2, <3>3, <3>4
  <2> QED BY <1>1, <1>5, <2>1, <2>2
<1>6. ASSUME NEW d \in Client, Busy(d)', task'[d].req.op = "remove", NEW x, x = task'[d].req.id
      PROVE  x \notin told' /\ \E e \in DOMAIN log : Owned(a, x, e)'
  <2>1. CASE d = c
    BY <1>3, <1>5, <1>6, <2>1
  <2>2. CASE d # c
    <3>1. Busy(d) /\ task'[d] = task[d]
      BY <1>1, <1>6, <2>2, Workers DEF Busy
    <3> QED BY <1>1, <1>3, <1>6, <3>1 DEF Promised
  <2> QED BY <2>1, <2>2
<1>7. \A p \in told' : \E e \in DOMAIN log' : Owned(a, p, e)' /\ Works(a, e)'
  BY <1>1, <1>3, <1>4 DEF Promised
<1>8. \A p \in gone' : \E k \in DOMAIN log' : log'[k] = RemoveReq(p)
  BY <1>1 DEF Promised
<1>9. \A k \in DOMAIN log' : log'[k].op = "remove" =>
        log'[k].id \notin told' /\ \E e \in 1 .. k - 1 : Owned(a, log[k].id, e)'
  BY <1>1, <1>3 DEF Promised
<1> QED BY <1>1, <1>6, <1>7, <1>8, <1>9 DEF Promised

(* A client learns of a proxy that nobody could ask to remove so far, or   *)
(* that its removal, which is in the log, was carried out.                 *)
LEMMA AnswerPromised ==
  ASSUME TypeInv, Phases, NEW a \in Slots(Len(log)), Follow(a), Promised(a),
         NEW c \in Client, Answer(c)
  PROVE  Promised(a)'
<1>1. /\ UNCHANGED log /\ c \in Worker /\ task'[c] = Idle
      /\ \A v \in Worker \ {c} : task'[v] = task[v]
  BY BecomeEffect, Workers DEF Answer, durable
<1>2. Logged(c) /\ task[c] \in Task
  BY <1>1, TaskFields DEF Answer, Logged, Busy, At, TypeInv, TaskOK, Step
<1> PICK e : e = task[c].entry
  OBVIOUS
<1>3. /\ e \in DOMAIN log /\ task[c].req = log[e] /\ Claimed(e)
      /\ ~Claimed(e)' /\ \A f : Claimed(f)' => Claimed(f)
  <2>1. e \in DOMAIN log /\ task[c].req = log[e] /\ Claimed(e)
    BY <1>1, <1>2 DEF Follow, Entries, Claimed
  <2>2. ~Claimed(e)' /\ \A f : Claimed(f)' => Claimed(f)
    BY <1>1, <1>2, Workers DEF Follow, Entries, Claimed, Logged, Busy, At
  <2> QED BY <2>1, <2>2
<1>4. \A p, f : Owned(a, p, f) => Owned(a, p, f)'
  BY <1>1, <1>3 DEF Owned, IsAdd, Id
<1>5. \A f : Works(a, f) => Works(a, f)'
  BY <1>1 DEF Works, Known
<1>6. PICK new : /\ told' = told \cup new /\ new \subseteq {Made(c)}
                 /\ new # {} => At(c, "ok") /\ task[c].req.op = "add"
  BY DEF Answer
<1>7. ASSUME NEW p \in new
      PROVE  /\ IsAdd(e) /\ p = Id(a, e) /\ a[e] # 0 /\ Works(a, e)
             /\ Owned(a, p, e)'
  <2>1. IsAdd(e) /\ p = Id(a, e) /\ a[e] # 0 /\ Works(a, e)
    BY <1>1, <1>6, <1>7, MadeIsId
  <2> QED BY <1>1, <1>3, <2>1 DEF Owned, IsAdd, Id
<1>8. ASSUME NEW p, NEW f \in DOMAIN log, Owned(a, p, f), p \notin told PROVE p \notin told'
  <2>1. ASSUME p \in new PROVE FALSE
    BY <1>3, <1>7, <1>8, <2>1, IdsDiffer DEF Follow
  <2> QED BY <1>6, <1>8, <2>1
<1>9. \A p \in told' : \E f \in DOMAIN log' : Owned(a, p, f)' /\ Works(a, f)'
  BY <1>1, <1>3, <1>4, <1>5, <1>6, <1>7 DEF Promised
<1>10. ASSUME NEW p \in gone' PROVE \E k \in DOMAIN log' : log'[k] = RemoveReq(p)
  <2>1. CASE p \in gone
    BY <1>1, <2>1 DEF Promised
  <2>2. CASE p = task[c].req.id /\ task[c].req.op = "remove"
    BY <1>1, <1>2, <1>3, <2>2, RequestFields, TaskFields
  <2> QED BY <1>10, <2>1, <2>2 DEF Answer
<1>11. ASSUME NEW k \in DOMAIN log', log'[k].op = "remove"
       PROVE  /\ log'[k].id \notin told'
              /\ \E f \in 1 .. k - 1 : Owned(a, log[k].id, f)'
  <2>1. PICK f \in 1 .. k - 1 : Owned(a, log[k].id, f) /\ log[k].id \notin told
    BY <1>1, <1>11 DEF Promised
  <2>2. f \in DOMAIN log
    BY <1>1 DEF TypeInv
  <2> QED BY <1>1, <1>4, <1>8, <2>1, <2>2
<1>12. ASSUME NEW d \in Client, Busy(d)', task'[d].req.op = "remove", NEW x, x = task'[d].req.id
       PROVE  x \notin told' /\ \E f \in DOMAIN log : Owned(a, x, f)'
  <2>1. d # c /\ task'[d] = task[d] /\ Busy(d)
    BY <1>1, <1>12, Workers DEF Busy
  <2> QED BY <1>4, <1>8, <1>12, <2>1 DEF Promised
<1> QED BY <1>1, <1>9, <1>10, <1>11, <1>12 DEF Promised

(* The log grows by one request. *)
LEMMA WritePromised ==
  ASSUME TypeInv, Phases, NEW a \in Slots(Len(log)), Follow(a), Promised(a), Clean',
         NEW c \in Client, WriteLog(c), NEW b, \A e \in DOMAIN log : b[e] = a[e]
  PROVE  Promised(b)'
<1> PICK n : n = Len(log)
  OBVIOUS
<1> PICK s : s = First(task[c].req)
  OBVIOUS
<1>1. /\ log' = Append(log, task[c].req) /\ n \in Nat /\ log \in Seq(Request)
      /\ Moves(c, "log", s, n + 1, task[c].port)
      /\ UNCHANGED << told, gone >>
  <2>1. "log" \notin spoilt'
    BY DEF Clean
  <2> QED BY <2>1, WriteEffect DEF TypeInv
<1>2. /\ DOMAIN log = 1 .. n /\ DOMAIN log' = 1 .. n + 1 /\ log'[n + 1] = task[c].req
      /\ \A e \in 1 .. n : log'[e] = log[e]
      /\ \A f \in 1 .. n : \A k \in 1 .. f - 1 : k \in 1 .. n
      /\ n + 1 \notin 1 .. n /\ 1 .. n \subseteq 1 .. n + 1
  BY <1>1
<1>3. /\ task'[c].req = task[c].req /\ task'[c].entry = n + 1 /\ Busy(c)
      /\ \A v \in Worker \ {c} : task'[v] = task[v]
  BY <1>1, TaskFields DEF Moves, Busy
<1>4. ASSUME NEW e \in 1 .. n, Claimed(e)' PROVE Claimed(e)
  <2>1. PICK d \in Client : Logged(d)' /\ task'[d].entry = e
    BY <1>4 DEF Claimed
  <2>2. d # c
    BY <1>2, <1>3, <2>1
  <2>3. task'[d] = task[d]
    BY <1>3, <2>2, Workers
  <2> QED BY <2>1, <2>3 DEF Claimed, Logged, Busy, At
<1>5. ASSUME NEW p, NEW e \in 1 .. n, Owned(a, p, e) PROVE Owned(b, p, e)'
  BY <1>2, <1>4, <1>5 DEF Owned, IsAdd, Id
<1>6. \A e \in 1 .. n : Works(a, e) => Works(b, e)'
  BY <1>2 DEF Works, Known
<1>7. \A p \in told' : \E e \in DOMAIN log' : Owned(b, p, e)' /\ Works(b, e)'
  <2> SUFFICES ASSUME NEW p \in told
               PROVE  \E e \in DOMAIN log' : Owned(b, p, e)' /\ Works(b, e)'
    BY <1>1
  <2>1. PICK e \in 1 .. n : Owned(a, p, e) /\ Works(a, e)
    BY <1>2 DEF Promised
  <2>2. e \in DOMAIN log'
    BY <1>2
  <2> QED BY <1>5, <1>6, <2>1, <2>2
<1>8. \A p \in gone' : \E k \in DOMAIN log' : log'[k] = RemoveReq(p)
  <2> SUFFICES ASSUME NEW p \in gone PROVE \E k \in DOMAIN log' : log'[k] = RemoveReq(p)
    BY <1>1
  <2>1. PICK k \in 1 .. n : log[k] = RemoveReq(p)
    BY <1>2 DEF Promised
  <2>2. k \in DOMAIN log' /\ log'[k] = RemoveReq(p)
    BY <1>2, <2>1
  <2> QED BY <2>2
<1>9. ASSUME NEW k \in DOMAIN log', log'[k].op = "remove", NEW x, x = log'[k].id
      PROVE  x \notin told' /\ \E e \in 1 .. k - 1 : Owned(b, x, e)'
  <2>1. CASE k = n + 1
    <3>1. x = task[c].req.id /\ task[c].req.op = "remove" /\ 1 .. k - 1 = 1 .. n
      BY <1>1, <1>2, <1>9, <2>1
    <3>2. x \notin told /\ \E e \in 1 .. n : Owned(a, x, e)
      BY <1>2, <1>3, <3>1 DEF Promised
    <3> QED BY <1>1, <1>5, <3>1, <3>2
  <2>2. CASE k \in 1 .. n
    <3>1. log[k].op = "remove" /\ x = log[k].id
      BY <1>2, <1>9, <2>2
    <3>2. x \notin told /\ \E e \in 1 .. k - 1 : Owned(a, x, e)
      BY <1>2, <2>2, <3>1 DEF Promised
    <3> QED BY <1>1, <1>2, <1>5, <2>2, <3>2
  <2> QED BY <1>1, <1>2, <2>1, <2>2
<1>10. ASSUME NEW d \in Client, Busy(d)', task'[d].req.op = "remove", NEW x, x = task'[d].req.id
       PROVE  x \notin told' /\ \E e \in DOMAIN log' : Owned(b, x, e)'
  <2>1. Busy(d) /\ task'[d].req = task[d].req
    BY <1>3, <1>10, Workers DEF Busy
  <2>2. x \notin told /\ \E e \in 1 .. n : Owned(a, x, e)
    BY <1>2, <1>10, <2>1 DEF Promised
  <2>3. \E e \in 1 .. n : Owned(b, x, e)'
    BY <1>5, <2>2
  <2>4. 1 .. n \subseteq DOMAIN log'
    BY <1>2
  <2> QED BY <1>1, <2>2, <2>3, <2>4
<1> QED BY <1>7, <1>8, <1>9, <1>10 DEF Promised

LEMMA PromisedStep ==
  ASSUME TypeInv, Phases, NEW a \in Slots(Len(log)), Follow(a), Promised(a), Clean', [Next]_vars,
         NEW b \in Slots(Len(log')), \A e \in DOMAIN log : b[e] = a[e]
  PROVE  Promised(b)'
<1>1. CASE UNCHANGED log
  <2>1. a = b
    BY <1>1 DEF Slots, TypeInv
  <2>2. ASSUME NEW c \in Client, WriteLog(c) PROVE FALSE
    BY <1>1, <2>2, WriteEffect DEF Clean
  <2> QED
    BY <2>1, <2>2, UnheardSteps, UnheardKeeps, AskPromised, AnswerPromised
<1>2. CASE ~ UNCHANGED log
  <2>1. \E c \in Client : WriteLog(c)
    BY <1>2, UnheardSteps, AskEffect DEF Unheard, Answer, durable
  <2> QED BY <2>1, WritePromised
<1> QED BY <1>1, <1>2

-----------------------------------------------------------------------------
(* The replay. *)

LEMMA ReplaySteps ==
  ASSUME TypeInv, Phases, [Next]_vars, ~Crash, phase' = "replay"
  PROVE  /\ phase = "replay" /\ UNCHANGED log
         /\ \/ UNCHANGED vars \/ Work(Replay) \/ ReplayNext \/ ReplayDone
            \/ \E p : Bind(p) \/ Close(p)
<1>1. ASSUME NEW c \in Client, Asks(c) \/ WriteLog(c) \/ Leave(c) \/ Work(c) \/ Answer(c)
      PROVE  FALSE
  <2>1. Asks(c) => phase = "serve"
    BY AskEffect DEF CanAsk
  <2>2. WriteLog(c) \/ Leave(c) \/ Work(c) \/ Answer(c) => Busy(c)
    BY TaskFields
       DEF WriteLog, Leave, Work, Register, CheckImage, TakePort, Deploy, Remove, Answer, At, Busy
  <2>3. phase = "serve"
    BY <1>1, <2>1, <2>2 DEF Phases, TypeInv
  <2>4. UNCHANGED phase
    BY <1>1, AskEffect, WriteEffect, Workers, RegisterEffect, CheckEffect, TakeEffect,
       DeployEffect, RemoveEffect DEF Work, Leave, Answer, server
  <2> QED BY <2>3, <2>4
<1>2. UNCHANGED vars \/ Work(Replay) \/ ReplayNext \/ ReplayDone \/ \E p : Bind(p) \/ Close(p)
  BY <1>1 DEF Next, Restart, Asks, Serve
<1>3. ASSUME Work(Replay) PROVE UNCHANGED << log, phase >>
  BY <1>3, Workers, RegisterEffect, CheckEffect, TakeEffect, DeployEffect, RemoveEffect DEF Work
<1>4. UNCHANGED << log, phase >>
  BY <1>2, <1>3 DEF vars, durable, server, ReplayNext, ReplayDone, Bind, Close
<1> QED BY <1>2, <1>4

(* What a step of the replay does to its place in the log. *)
LEMMA WorkDone ==
  ASSUME TypeInv, Phases, NEW e, e = task[Replay].entry,
         NEW s \in Step \ {"ok", "error"}, NEW r, NEW p,
         Moves(Replay, s, r, e, p), UNCHANGED << log, cursor >>
  PROVE  /\ e = cursor + 1 /\ e \in Nat
         /\ \A f \in DOMAIN log : Done(f) <=> f < e
         /\ \A f \in DOMAIN log : Done(f)' <=> f < e \/ (r \in {"ok", "error"} /\ f = e)
<1>1. Busy(Replay) /\ task[Replay].at = s /\ task'[Replay].at = r /\ task'[Replay].entry = e
  BY Workers, TaskFields DEF Moves, Busy
<1>2. e = cursor + 1 /\ cursor \in Nat /\ \A f \in DOMAIN log : f \in Nat
  BY <1>1 DEF Phases, TypeInv
<1>3. \A f \in DOMAIN log : f <= cursor <=> f < e
  BY <1>2
<1> QED BY <1>1, <1>2, <1>3 DEF Done

(* Removals of the log that are done do not concern the entry at hand. *)
LEMMA DoneDiffers ==
  ASSUME TypeInv, NEW a \in Slots(Len(log)), Follow(a), Promised(a),
         NEW e \in DOMAIN log, a[e] # 0, NEW k \in DOMAIN log, k < e, log[k].op = "remove"
  PROVE  log[k].id # Id(a, e)
<1>1. PICK f \in 1 .. k - 1 : Owned(a, log[k].id, f)
  BY DEF Promised
<1>2. DOMAIN log = 1 .. Len(log) /\ Len(log) \in Nat
  BY DEF TypeInv
<1>3. f \in DOMAIN log /\ f # e
  BY <1>2
<1> QED BY <1>1, <1>3, SlotsDiffer DEF Owned, Id, Follow

LEMMA QuietReplayed ==
  ASSUME NEW a, Replayed(a), UNCHANGED << log, registry >>, phase' = "replay", phase = "replay",
         \A e \in DOMAIN log : Done(e)' <=> Done(e),
         task'[Replay].at = "error" => task'[Replay] = task[Replay]
  PROVE  Replayed(a)'
<1>1. \A e : (Works(a, e)' <=> Works(a, e)) /\ (IsAdd(e)' <=> IsAdd(e)) /\ Id(a, e)' = Id(a, e)
  BY DEF Works, Known, IsAdd, Id
<1>2. ASSUME task'[Replay].at = "error", task'[Replay].req.op = "add",
             NEW x, x = task'[Replay].entry
      PROVE  ~Works(a, x)'
  BY <1>1, <1>2 DEF Replayed
<1> QED BY <1>1, <1>2 DEF Replayed

(* A request of the log is carried out once more. *)
LEMMA WorkReplayed ==
  ASSUME TypeInv, Phases, NEW a \in Slots(Len(log)), Follow(a), Promised(a), Replayed(a),
         phase = "replay", Spotless', Work(Replay)
  PROVE  Replayed(a)'
<1> PICK e : e = task[Replay].entry
  OBVIOUS
<1>1. PICK s, r, p : s \in Step \ {"ok", "error"} /\ r \in Step /\ Moves(Replay, s, r, e, p)
  <2>1. \E s, r, p : s \in Step \ {"ok", "error"} /\ Moves(Replay, s, r, e, p)
    BY Workers, RegisterEffect, CheckEffect, TakeEffect, DeployEffect, RemoveEffect
       DEF Work, Stays, Step
  <2> QED BY <2>1, TaskFields DEF Moves
<1>2. UNCHANGED << log, phase, cursor >> /\ Clean'
  BY Workers, RegisterEffect, CheckEffect, TakeEffect, DeployEffect, RemoveEffect
     DEF Work, Spotless, Clean
<1>3. /\ e \in DOMAIN log /\ log[e] = task[Replay].req /\ task'[Replay].req = log[e]
      /\ task'[Replay].entry = e /\ task'[Replay].at = r /\ task[Replay].at = s
      /\ OfStep(task[Replay]) /\ log[e] \in Request
  BY <1>1, <1>2, Workers, WorkClaims DEF Moves, Follow, Entries, TypeInv
<1>4. /\ \A f \in DOMAIN log : Done(f) <=> f < e
      /\ \A f \in DOMAIN log : Done(f)' <=> f < e \/ (r \in {"ok", "error"} /\ f = e)
  BY <1>1, <1>2, WorkDone
<1>5. \A f : (Works(a, f)' <=> Works(a, f)) /\ (IsAdd(f)' <=> IsAdd(f)) /\ Id(a, f)' = Id(a, f)
  BY <1>2 DEF Works, Known, IsAdd, Id
<1>6. SUFFICES
        /\ r = "error" /\ IsAdd(e) => ~Works(a, e)
        /\ \A f \in DOMAIN log : f < e =>
             /\ IsAdd(f) /\ Works(a, f) =>
                  \/ Id(a, f) \in registry'
                  \/ \E k \in DOMAIN log : /\ k < e \/ (r \in {"ok", "error"} /\ k = e)
                                           /\ log[k] = RemoveReq(Id(a, f))
             /\ log[f].op = "remove" => log[f].id \notin registry'
        /\ r = "ok" /\ IsAdd(e) /\ Works(a, e) => Id(a, e) \in registry'
        /\ r \in {"ok", "error"} /\ log[e].op = "remove" => log[e].id \notin registry'
  <2>1. ASSUME task'[Replay].at = "error", task'[Replay].req.op = "add",
               NEW x, x = task'[Replay].entry
        PROVE  ~Works(a, x)'
    BY <1>3, <1>5, <1>6, <2>1 DEF IsAdd
  <2>2. ASSUME NEW f \in DOMAIN log, Done(f)'
        PROVE  /\ IsAdd(f) /\ Works(a, f) =>
                    \/ Id(a, f) \in registry'
                    \/ \E k \in DOMAIN log : Done(k)' /\ log[k] = RemoveReq(Id(a, f))
               /\ log[f].op = "remove" => log[f].id \notin registry'
    BY <1>4, <1>6, <2>2
  <2> QED BY <1>2, <1>5, <2>1, <2>2 DEF Replayed
<1>7. \A f \in DOMAIN log : f < e =>
        /\ IsAdd(f) /\ Works(a, f) =>
             \/ Id(a, f) \in registry
             \/ \E k \in DOMAIN log : k < e /\ log[k] = RemoveReq(Id(a, f))
        /\ log[f].op = "remove" => log[f].id \notin registry
  BY <1>4 DEF Replayed
<1>8. CASE Register(Replay)
  <2>1. UNCHANGED registry /\ log[e].op = "register"
    BY <1>3, <1>8, RegisterEffect, Workers DEF Stays, Moves, OfStep
  <2> QED BY <1>7, <2>1 DEF IsAdd
<1>9. CASE CheckImage(Replay) \/ TakePort(Replay)
  <2>1. UNCHANGED registry /\ log[e].op = "add" /\ r # "ok"
    BY <1>3, <1>9, CheckEffect, TakeEffect, Workers DEF Stays, Moves, OfStep
  <2>2. r = "error" => ~Works(a, e)
    BY <1>2, <1>3, <1>9, ErrorPlanned, Workers
  <2> QED BY <1>7, <2>1, <2>2
<1>10. CASE Deploy(Replay)
  <2>1. /\ r = "ok" /\ registry' = registry \cup {Made(Replay)} /\ log[e].op = "add"
        /\ Made(Replay) = Id(a, e) /\ a[e] # 0
    <3>1. "docker" \notin spoilt' /\ "bind" \notin spoilt'
      BY DEF Spotless
    <3>2. /\ r = "ok" /\ registry' = registry \cup {Made(Replay)} /\ At(Replay, "deploy")
      BY <1>3, <1>10, <3>1, DeployEffect, Workers DEF Stays, Moves, At
    <3> QED BY <1>3, <3>2, MadeIsId, Workers DEF IsAdd
  <2>2. ASSUME NEW f \in DOMAIN log, f < e, log[f].op = "remove" PROVE log[f].id \notin registry'
    BY <1>3, <1>7, <2>1, <2>2, DoneDiffers
  <2> QED BY <1>7, <2>1, <2>2
<1>11. CASE Remove(Replay)
  <2>1. /\ registry' = registry \ {log[e].id} /\ log[e].op = "remove" /\ r \in {"ok", "error"}
        /\ log[e] = RemoveReq(log[e].id)
    BY <1>3, <1>11, RemoveEffect, Workers, RequestFields DEF Stays, Moves, OfStep
  <2> QED BY <1>3, <1>7, <2>1 DEF IsAdd
<1> QED BY <1>8, <1>9, <1>10, <1>11 DEF Work

LEMMA ReplayedStep ==
  ASSUME TypeInv, Phases, Phases', NEW a \in Slots(Len(log)), Follow(a), Promised(a),
         Spotless => Replayed(a), [Next]_vars, Spotless', NEW b, UNCHANGED log => b = a
  PROVE  Replayed(b)'
<1>1. CASE Crash
  <2>1. /\ cursor' = 0 /\ task'[Replay] = Idle /\ UNCHANGED log
    BY <1>1, Workers DEF Crash, durable
  <2>2. \A e \in DOMAIN log : ~Done(e)'
    BY <2>1, TaskFields DEF Done, TypeInv, Step
  <2> QED BY <2>1, <2>2, TaskFields DEF Replayed, Step
<1>2. CASE phase' # "replay"
  <2>1. phase' = "serve" /\ task'[Replay] = Idle
    BY <1>2, TypesStep DEF Phases, Busy, TypeInv
  <2> QED BY <2>1, TaskFields DEF Replayed, Step
<1>3. CASE phase' = "replay" /\ ~Crash
  <2>1. /\ phase = "replay" /\ b = a /\ UNCHANGED log
        /\ \/ UNCHANGED vars \/ Work(Replay) \/ ReplayNext \/ ReplayDone
           \/ \E p : Bind(p) \/ Close(p)
    BY <1>3, ReplaySteps
  <2>2. Replayed(a)
    BY <1>3, SpoiltStays DEF Spotless
  <2>3. CASE UNCHANGED vars
    <3>1. UNCHANGED << log, registry, task, cursor >>
      BY <2>3 DEF vars, durable, server, proxies
    <3> QED BY <1>3, <2>1, <2>2, <3>1, QuietReplayed DEF Done
  <2>4. ASSUME NEW p, Bind(p) \/ Close(p) PROVE Replayed(a)'
    <3>1. UNCHANGED << log, registry, task, cursor >>
      BY <2>4 DEF Bind, Close, durable, server, Spoil, Spotless
    <3> QED BY <1>3, <2>1, <2>2, <3>1, QuietReplayed DEF Done
  <2>5. CASE ReplayNext
    <3>1. /\ UNCHANGED << log, registry, cursor >> /\ task[Replay].at = "idle"
          /\ \E s \in {"register", "remove", "check", "port"} : task'[Replay].at = s
      <4>1. /\ UNCHANGED << log, registry, cursor >> /\ task[Replay].at = "idle"
            /\ cursor < Len(log)
            /\ Become(Replay, [at |-> First(log[cursor + 1]), req |-> log[cursor + 1],
                               entry |-> cursor + 1, port |-> 0])
        BY <2>5 DEF ReplayNext, durable, server, proxies, At
      <4>2. task'[Replay].at = First(log[cursor + 1])
        <5> DEFINE t == [at |-> First(log[cursor + 1]), req |-> log[cursor + 1],
                         entry |-> cursor + 1, port |-> 0]
        <5>1. t.at = First(log[cursor + 1])
          OBVIOUS
        <5> HIDE DEF t
        <5>2. task'[Replay] = t
          BY <4>1, BecomeEffect, Workers DEF t
        <5> QED BY <5>1, <5>2
      <4>3. log[cursor + 1] \in Request
        BY <4>1 DEF TypeInv
      <4>4. First(log[cursor + 1]) \in {"register", "remove", "check", "port"}
        BY <4>3, RequestFields DEF First
      <4> QED BY <4>1, <4>2, <4>4
    <3> QED BY <1>3, <2>1, <2>2, <3>1, QuietReplayed DEF Done
  <2>6. CASE ReplayDone
    <3>1. /\ UNCHANGED << log, registry >> /\ task'[Replay] = Idle /\ cursor' = cursor + 1
          /\ task[Replay].at \in {"ok", "error"}
      BY <2>6, BecomeEffect, Workers DEF ReplayDone, durable, proxies
    <3>2. task[Replay].entry = cursor + 1 /\ cursor \in Nat
      BY <3>1, TaskFields DEF Phases, Busy, TypeInv
    <3>3. \A e \in DOMAIN log : e \in Nat
      BY DEF TypeInv
    <3>4. \A e \in DOMAIN log : Done(e)' <=> Done(e)
      BY <3>1, <3>2, <3>3, TaskFields DEF Done, Step
    <3> QED BY <1>3, <2>1, <2>2, <3>1, <3>4, QuietReplayed, TaskFields DEF Step
  <2> QED BY <2>1, <2>2, <2>3, <2>4, <2>5, <2>6, WorkReplayed
<1> QED BY <1>1, <1>2, <1>3

-----------------------------------------------------------------------------
(* The server at work. *)

(* The replay is through: all of the log has its effect. *)
LEMMA ServeKept ==
  ASSUME TypeInv, Phases, NEW a \in Slots(Len(log)), Promised(a), Replayed(a), Serve
  PROVE  Kept'
<1>1. /\ UNCHANGED << task, told, gone, registry >> /\ cursor = Len(log) /\ phase = "replay"
  BY DEF Serve, history, proxies
<1>2. \A e \in DOMAIN log : Done(e)
  BY <1>1 DEF Done, TypeInv
<1>3. told \subseteq registry
  <2> SUFFICES ASSUME NEW p \in told PROVE p \in registry
    OBVIOUS
  <2>1. PICK e \in DOMAIN log : Owned(a, p, e) /\ Works(a, e)
    BY DEF Promised
  <2>2. ASSUME NEW k \in DOMAIN log, log[k] = RemoveReq(p) PROVE FALSE
    <3>1. log[k].op = "remove" /\ log[k].id = p
      BY <2>2 DEF RemoveReq
    <3> QED BY <3>1 DEF Promised
  <2> QED BY <1>1, <1>2, <2>1, <2>2 DEF Replayed, Owned
<1>4. \A p \in gone : p \notin registry
  <2> SUFFICES ASSUME NEW p \in gone PROVE p \notin registry
    OBVIOUS
  <2>1. PICK k \in DOMAIN log : log[k] = RemoveReq(p)
    BY DEF Promised
  <2>2. log[k].op = "remove" /\ log[k].id = p
    BY <2>1 DEF RemoveReq
  <2> QED BY <1>1, <1>2, <2>2 DEF Replayed
<1>5. \A c \in Client : ~At(c, "ok")'
  BY <1>1, Workers, TaskFields DEF Phases, Busy, At, Step
<1> QED BY <1>1, <1>3, <1>4, <1>5 DEF Kept

(* Only who was told of a proxy can have it removed. *)
LEMMA DeployKept ==
  ASSUME TypeInv, Phases, NEW a \in Slots(Len(log)), Follow(a), Promised(a), Kept,
         phase = "serve", NEW c \in Client, Deploy(c)
  PROVE  Kept'
<1> PICK e : e = task[c].entry
  OBVIOUS
<1>1. /\ e \in DOMAIN log /\ IsAdd(e) /\ a[e] # 0 /\ Made(c) = Id(a, e) /\ Claimed(e)
      /\ task[c].req = log[e]
  <2>1. At(c, "deploy")
    BY DEF Deploy
  <2> QED BY <2>1, MadeIsId, Workers, WorkClaims DEF Work, Follow, Entries
<1>2. /\ UNCHANGED << told, gone, phase >> /\ task'[c].req = task[c].req /\ task'[c].port = task[c].port
      /\ \A d \in Client \ {c} : task'[d] = task[d]
      /\ registry' \in {registry, registry \cup {Made(c)}}
      /\ task'[c].at = "ok" => Made(c) \in registry'
  BY DeployEffect, Workers DEF Stays, Moves
<1>3. ASSUME NEW p \in gone PROVE p # Made(c)
  <2>1. PICK k \in DOMAIN log : log[k] = RemoveReq(p)
    BY DEF Promised
  <2>2. log[k].op = "remove" /\ log[k].id = p
    BY <2>1 DEF RemoveReq
  <2>3. PICK f \in 1 .. k - 1 : Owned(a, p, f)
    BY <2>2 DEF Promised
  <2>4. f \in DOMAIN log
    BY DEF TypeInv
  <2> QED BY <1>1, <2>3, <2>4, IdsDiffer DEF Follow
<1>4. ASSUME NEW d \in Client, Busy(d), task[d].req.op = "remove" PROVE task[d].req.id # Made(c)
  <2>1. PICK f \in DOMAIN log : Owned(a, task[d].req.id, f)
    BY <1>4 DEF Promised
  <2> QED BY <1>1, <2>1, IdsDiffer DEF Follow
<1>5. told' \subseteq registry' /\ gone' \cap registry' = {}
  BY <1>2, <1>3 DEF Kept
<1>6. ASSUME NEW d \in Client, At(d, "ok")'
      PROVE  /\ task'[d].req.op = "add" => Made(d)' \in registry'
             /\ task'[d].req.op = "remove" => task'[d].req.id \notin registry'
  <2>1. CASE d = c
    BY <1>1, <1>2, <1>6, <2>1 DEF Made, At, IsAdd
  <2>2. CASE d # c
    <3>1. At(d, "ok") /\ Busy(d) /\ task'[d] = task[d] /\ Made(d)' = Made(d)
      BY <1>2, <1>6, <2>2, TaskFields DEF At, Busy, Made
    <3> QED BY <1>2, <1>4, <3>1 DEF Kept
  <2> QED BY <2>1, <2>2
<1> QED BY <1>5, <1>6 DEF Kept

LEMMA RemoveKept ==
  ASSUME TypeInv, Phases, NEW a \in Slots(Len(log)), Follow(a), Promised(a), Kept,
         phase = "serve", NEW c \in Client, Remove(c)
  PROVE  Kept'
<1> PICK x : x = task[c].req.id
  OBVIOUS
<1>1. /\ UNCHANGED << told, gone, phase >> /\ task'[c].req = task[c].req
      /\ \A d \in Client \ {c} : task'[d] = task[d]
      /\ registry' = registry \ {x} /\ Busy(c) /\ task[c].req.op = "remove"
  BY RemoveEffect, Workers, TaskFields DEF Stays, Moves, Busy, OfStep
<1>2. x \notin told /\ \E f \in DOMAIN log : Owned(a, x, f)
  BY <1>1 DEF Promised
<1>3. ASSUME NEW d \in Client, At(d, "ok"), task[d].req.op = "add" PROVE Made(d) # x
  <2>1. /\ task[d].entry \in DOMAIN log /\ Made(d) = Id(a, task[d].entry)
        /\ a[task[d].entry] # 0 /\ Claimed(task[d].entry)
    BY <1>3, MadeIsId, Workers
  <2> QED BY <1>2, <2>1, IdsDiffer DEF Follow
<1>4. told' \subseteq registry' /\ gone' \cap registry' = {}
  BY <1>1, <1>2 DEF Kept
<1>5. ASSUME NEW d \in Client, At(d, "ok")'
      PROVE  /\ task'[d].req.op = "add" => Made(d)' \in registry'
             /\ task'[d].req.op = "remove" => task'[d].req.id \notin registry'
  <2>1. CASE d = c
    BY <1>1, <2>1
  <2>2. CASE d # c
    <3>1. At(d, "ok") /\ task'[d] = task[d] /\ Made(d)' = Made(d)
      BY <1>1, <1>5, <2>2 DEF At, Made
    <3> QED BY <1>1, <1>3, <3>1 DEF Kept
  <2> QED BY <2>1, <2>2
<1> QED BY <1>4, <1>5 DEF Kept

(* The other steps of a serving server. *)
LEMMA QuietKept ==
  ASSUME TypeInv, Kept, phase = "serve", UNCHANGED << registry, told, gone >>,
         \A c \in Client : At(c, "ok")' =>
           \/ task'[c] = task[c]
           \/ task'[c].req.op \notin {"add", "remove"}
  PROVE  Kept'
BY DEF Kept, At, Made

LEMMA KeptStep ==
  ASSUME TypeInv, Phases, NEW a \in Slots(Len(log)), Follow(a), Promised(a),
         Spotless => Replayed(a) /\ Kept, [Next]_vars, Spotless'
  PROVE  Kept'
<1> SUFFICES ASSUME phase' = "serve" PROVE Kept'
  BY DEF Kept
<1>1. ~Crash
  BY DEF Crash
<1>2. Replayed(a) /\ Kept
  BY <1>1, SpoiltStays DEF Spotless
<1>3. CASE Serve
  BY <1>2, <1>3, ServeKept
<1>4. CASE UNCHANGED vars
  BY <1>2, <1>4 DEF vars, server, proxies, history, Kept, At, Made
<1>5. ASSUME NEW c \in Client, Work(c) PROVE Kept'
  <2>1. phase = "serve"
    BY <1>5, Workers, WorkClaims DEF Logged, Phases, TypeInv
  <2>2. CASE Register(c) \/ CheckImage(c) \/ TakePort(c)
    <3>1. /\ UNCHANGED << registry, told, gone >> /\ task'[c].req = task[c].req
          /\ task'[c].at = "ok" => task[c].req.op = "register"
      BY <2>2, RegisterEffect, CheckEffect, TakeEffect, Workers DEF Stays, Moves, OfStep
    <3>2. \A d \in Client \ {c} : task'[d] = task[d]
      BY <1>5, WorkClaims, Workers
    <3> QED BY <1>2, <2>1, <3>1, <3>2, QuietKept DEF At
  <2> QED BY <1>2, <1>5, <2>1, <2>2, DeployKept, RemoveKept DEF Work
<1>6. ASSUME Work(Replay) \/ ReplayNext \/ ReplayDone PROVE FALSE
  <2>1. Work(Replay) \/ ReplayDone => Busy(Replay) /\ UNCHANGED phase
    BY Workers, WorkClaims, TaskFields DEF ReplayDone, Logged, Busy
  <2>2. ReplayNext => phase' = "replay"
    BY DEF ReplayNext, server
  <2> QED BY <1>6, <2>1, <2>2 DEF Phases
<1>7. ASSUME NEW c \in Client, Asks(c) PROVE Kept'
  <2>1. /\ phase = "serve" /\ UNCHANGED << registry, gone >> /\ told' \subseteq told
        /\ task'[c].at = "log" /\ \A d \in Client \ {c} : task'[d] = task[d]
    BY <1>7, AskEffect, Workers DEF CanAsk
  <2>2. \A d \in Client : At(d, "ok")' => At(d, "ok") /\ task'[d] = task[d]
    BY <2>1 DEF At
  <2> QED BY <1>2, <2>1, <2>2 DEF Kept, Made
<1>8. ASSUME NEW c \in Client, WriteLog(c) PROVE Kept'
  <2>1. /\ phase = "serve" /\ UNCHANGED << registry, told, gone >>
        /\ task'[c].at # "ok" /\ \A d \in Client \ {c} : task'[d] = task[d]
    BY <1>8, WriteEffect, Workers, TypesStep DEF Moves
  <2> QED BY <1>2, <2>1, QuietKept DEF At
<1>9. ASSUME NEW c \in Client, Leave(c) \/ Answer(c) PROVE Kept'
  <2>1. /\ phase = "serve" /\ UNCHANGED registry /\ Become(c, Idle)
    BY <1>9 DEF Leave, Answer, server, proxies
  <2>2. task'[c] = Idle /\ \A d \in Client \ {c} : task'[d] = task[d]
    BY <2>1, BecomeEffect, Workers
  <2>3. \A d \in Client : At(d, "ok")' => At(d, "ok") /\ task'[d] = task[d] /\ Made(d)' = Made(d)
    BY <2>2, TaskFields DEF At, Made
  <2>4. told' \subseteq registry /\ gone' \cap registry = {}
    <3>1. CASE Leave(c)
      BY <1>2, <2>1, <3>1 DEF Leave, history, Kept
    <3>2. CASE Answer(c)
      BY <1>2, <2>1, <3>2 DEF Answer, Kept
    <3> QED BY <1>9, <3>1, <3>2
  <2> QED BY <1>2, <2>1, <2>3, <2>4 DEF Kept
<1>10. ASSUME NEW p, Bind(p) \/ Close(p) PROVE Kept'
  <2>1. phase = "serve" /\ UNCHANGED << registry, task, told, gone >>
    BY <1>10 DEF Bind, Close, server, history, Spoil, Spotless
  <2> QED BY <1>2, <2>1, QuietKept DEF At
<1> QED
  BY <1>1, <1>3, <1>4, <1>5, <1>6, <1>7, <1>8, <1>9, <1>10 DEF Next, Restart, Asks

(* Everything together. *)
Good(a) == Follow(a) /\ Promised(a) /\ (Spotless => Replayed(a) /\ Kept)
Trusted == Clean => \E a \in Slots(Len(log)) : Good(a)

LEMMA TrustedInit == Init => Trusted
<1> SUFFICES ASSUME Init PROVE Trusted
  OBVIOUS
<1>1. PICK a \in Slots(Len(log)) : Follow(a)
  BY PlannedInit DEF Planned, Init, Clean
<1>2. /\ log = << >> /\ DOMAIN log = {} /\ told = {} /\ gone = {} /\ phase = "replay"
      /\ \A w \in Worker : task[w] = Idle
  BY DEF Init
<1>3. Promised(a)
  BY <1>2, Workers DEF Promised, Busy
<1>4. Replayed(a) /\ Kept
  BY <1>2, Workers, TaskFields DEF Replayed, Kept, Step
<1> QED BY <1>1, <1>3, <1>4 DEF Good, Trusted

LEMMA TrustedStep ==
  ASSUME TypeInv, Phases, Trusted, [Next]_vars
  PROVE  Trusted'
<1> SUFFICES ASSUME Clean' PROVE Trusted'
  BY DEF Trusted
<1>1. Clean /\ Phases'
  BY SpoiltStays, TypesStep DEF Clean
<1>2. PICK a \in Slots(Len(log)) : Good(a)
  BY <1>1 DEF Trusted
<1>3. PICK b \in Slots(Len(log')) : Follow(b)' /\ \A e \in DOMAIN log : b[e] = a[e]
  BY <1>2, FollowStep DEF Good
<1>4. Promised(b)'
  BY <1>2, <1>3, PromisedStep DEF Good
<1>5. UNCHANGED log => b = a
  BY <1>3 DEF Slots, TypeInv
<1>6. Spotless' => Replayed(b)' /\ Kept'
  BY <1>1, <1>2, <1>5, ReplayedStep, KeptStep DEF Good
<1> QED BY <1>3, <1>4, <1>6 DEF Good, Trusted

(* What the clients were told survives: a server that serves has every     *)
(* proxy that a client was told of and did not ask to remove, under the id *)
(* it was told, and none that a client knows to be removed, through any    *)
(* crashes, replays and faults but the four that PromisesSurvive names.    *)
THEOREM PromisesSurviveHolds == Spec => []PromisesSurvive
<1> DEFINE IInv == TypeInv /\ Phases /\ Trusted
<1>1. Init => IInv
  BY TypesInit, TrustedInit
<1>2. IInv /\ [Next]_vars => IInv'
  BY TypesStep, TrustedStep
<1>3. IInv => PromisesSurvive
  BY DEF Trusted, Good, Clean, Spotless, Kept, PromisesSurvive
<1> QED BY <1>1, <1>2, <1>3, PTL DEF Spec
=============================================================================
