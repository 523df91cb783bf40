--------------------------- MODULE DockerManProofs --------------------------
(* Proofs about DockerMan, for any containers, names, images and bounds. *)
EXTENDS DockerMan, FiniteSetTheorems, TLAPS

(* A message of the channel names what its sender had already registered. *)
MessageOK(m, imgs, regs) ==
  /\ m.type = "Create" => ImageOf[m.id] \in imgs
  /\ m.type = "Pull" => m.image \in imgs
  /\ m.type = "Update" => m.id \in regs

ConnOK == \A k \in DOMAIN conn : MessageOK(conn[k], images, registered)

IsUpdate(m, c) == m.type = "Update" /\ m.id = c

(* The table has an entry for c or will have one once the channel is read. *)
Introduced(c) == status[c] # "none" \/ \E j \in DOMAIN conn : IsUpdate(conn[j], c)

(* Every Start or Stop is preceded by the entry it needs: the first        *)
(* conjunct of KnownContainer.                                             *)
Preceded ==
  \A k \in DOMAIN conn : conn[k].type \in {"Start", "Stop"} =>
       \/ status[conn[k].id] # "none"
       \/ \E j \in 1 .. k - 1 : IsUpdate(conn[j], conn[k].id)

ProgressOK ==
  \A c \in Container :
    /\ create[c] # "idle" => ImageOf[c] \in images
    /\ create[c] # "no_image"
    /\ create[c] \in {"update", "reply", "ok"} => c \in registered
    /\ create[c] \in {"reply", "ok"} => Introduced(c)

TasksOK ==
  \A c \in Container : status[c] # "none" => c \in registered

RunningOK ==
  \A c \in Container, op \in Op : calls[c][op] + reports[c][op] > 0 => c \in registered

PullOK ==
  \A i \in Image : pull[i] # "no_image" /\ (pull[i] # "idle" => i \in images)

IInv == TypeOK /\ ConnOK /\ Preceded /\ ProgressOK /\ TasksOK /\ RunningOK /\ PullOK

-----------------------------------------------------------------------------
(* The messages connman sends are messages of the channel. *)
LEMMA MessageTypes ==
  /\ \A c \in Container : /\ [type |-> "Create", id |-> c] \in Message
                          /\ StartMsg(c) \in Message /\ StopMsg(c) \in Message
  /\ \A c \in Container, s \in {"Stopped", "Running"} : StateMsg(c, s) \in Message
  /\ \A i \in Image : [type |-> "Pull", image |-> i] \in Message
BY DEF Message, Request, Update, PullImage, StartMsg, StopMsg, StateMsg

(* What sending does to the channel. *)
LEMMA SendEffect ==
  ASSUME TypeOK, NEW m \in Message, Send(m)
  PROVE  /\ conn' \in Seq(Message) /\ Len(conn') <= Cap
         /\ DOMAIN conn = 1 .. Len(conn) /\ DOMAIN conn' = 1 .. Len(conn) + 1
         /\ \A k \in DOMAIN conn : conn'[k] = conn[k]
         /\ conn'[Len(conn) + 1] = m
BY DockerAssumption DEF TypeOK, Send

(* What receiving does to the channel. *)
LEMMA ReceiveEffect ==
  ASSUME TypeOK, NEW m, Receive(m)
  PROVE  /\ conn' \in Seq(Message) /\ Len(conn') <= Cap
         /\ DOMAIN conn = 1 .. Len(conn) /\ DOMAIN conn' = 1 .. Len(conn) - 1
         /\ Len(conn) \in Nat \ {0}
         /\ \A k \in DOMAIN conn' : conn'[k] = conn[k + 1]
         /\ conn[1] = m /\ m \in Message
BY DockerAssumption DEF TypeOK, Receive

-----------------------------------------------------------------------------
(* One more task of c for op leaves the other containers' tasks alone. *)
LEMMA BumpEffect ==
  ASSUME NEW f \in [Container -> [Op -> Nat]], NEW c \in Container, NEW op \in Op
  PROVE  /\ Bump(f, c, op) \in [Container -> [Op -> Nat]]
         /\ \A d \in Container, o \in Op : d # c => Bump(f, c, op)[d][o] = f[d][o]
<1> DEFINE g == [f[c] EXCEPT ![op] = f[c][op] + 1]
<1>1. f[c] \in [Op -> Nat]
  OBVIOUS
<1>2. f[c][op] + 1 \in Nat
  BY <1>1
<1>3. g \in [Op -> Nat]
  BY <1>1, <1>2
<1>4. Bump(f, c, op) = [f EXCEPT ![c] = g]
  BY DEF Bump
<1> HIDE DEF g
<1> QED BY <1>3, <1>4

-----------------------------------------------------------------------------
(* The registries and the table only grow. *)
Grows ==
  /\ images \subseteq images' /\ registered \subseteq registered'
  /\ \A c \in Container : status[c] # "none" => status'[c] # "none"

(* The three ways a step treats the channel keep its order facts.          *)
LEMMA ConnUnchanged ==
  ASSUME IInv, Grows, UNCHANGED conn
  PROVE  /\ ConnOK' /\ Preceded'
         /\ \A c \in Container : Introduced(c) => Introduced(c)'
<1> USE DEF IInv, Grows
<1>1. ConnOK'
  BY DEF ConnOK, MessageOK
<1>2. Preceded'
  <2> SUFFICES ASSUME NEW k \in DOMAIN conn, conn[k].type \in {"Start", "Stop"}
               PROVE  \/ status'[conn[k].id] # "none"
                      \/ \E j \in 1 .. k - 1 : IsUpdate(conn[j], conn[k].id)
    BY DEF Preceded, IsUpdate
  <2>1. conn[k] \in Message
    BY DEF TypeOK
  <2>2. conn[k].id \in Container
    BY <2>1 DEF Message, Request, Update, PullImage
  <2> QED BY <2>2 DEF Preceded
<1>3. \A c \in Container : Introduced(c) => Introduced(c)'
  BY DEF Introduced, IsUpdate
<1> QED BY <1>1, <1>2, <1>3

LEMMA ConnSent ==
  ASSUME IInv, Grows, NEW m \in Message, Send(m), MessageOK(m, images', registered'),
         m.type \in {"Start", "Stop"} => Introduced(m.id)
  PROVE  /\ conn' \in Seq(Message) /\ Len(conn') <= Cap
         /\ ConnOK' /\ Preceded'
         /\ \A c \in Container : Introduced(c) => Introduced(c)'
         /\ \A c \in Container : IsUpdate(m, c) => Introduced(c)'
<1>0. /\ TypeOK /\ ConnOK /\ Preceded
      /\ images \subseteq images' /\ registered \subseteq registered'
      /\ \A c \in Container : status[c] # "none" => status'[c] # "none"
  BY DEF IInv, Grows
<1>1. /\ conn' \in Seq(Message) /\ Len(conn') <= Cap
      /\ DOMAIN conn = 1 .. Len(conn) /\ DOMAIN conn' = 1 .. Len(conn) + 1
      /\ \A k \in DOMAIN conn : conn'[k] = conn[k]
      /\ conn'[Len(conn) + 1] = m
  BY <1>0, SendEffect
<1>2. Len(conn) \in Nat
  BY <1>0 DEF TypeOK
<1>3. ConnOK'
  <2> SUFFICES ASSUME NEW k \in DOMAIN conn' PROVE MessageOK(conn'[k], images', registered')
    BY DEF ConnOK
  <2>1. CASE k \in DOMAIN conn
    BY <2>1, <1>0, <1>1 DEF ConnOK, MessageOK
  <2>2. CASE k = Len(conn) + 1
    BY <2>2, <1>1 DEF MessageOK
  <2> QED BY <1>1, <1>2, <2>1, <2>2
<1>4. Preceded'
  <2> SUFFICES ASSUME NEW k \in DOMAIN conn', conn'[k].type \in {"Start", "Stop"}
               PROVE  \/ status'[conn'[k].id] # "none"
                      \/ \E j \in 1 .. k - 1 : IsUpdate(conn'[j], conn'[k].id)
    BY DEF Preceded, IsUpdate
  <2>1. conn'[k] \in Message
    BY <1>1, <1>2
  <2>2. conn'[k].id \in Container
    BY <2>1 DEF Message, Request, Update, PullImage
  <2>3. CASE k \in DOMAIN conn
    <3>1. conn'[k] = conn[k]
      BY <2>3, <1>1
    <3>2. \/ status[conn[k].id] # "none"
          \/ \E j \in 1 .. k - 1 : IsUpdate(conn[j], conn[k].id)
      BY <2>3, <3>1, <1>0 DEF Preceded
    <3>3. CASE status[conn[k].id] # "none"
      BY <3>1, <3>3, <2>2, <1>0
    <3>4. CASE \E j \in 1 .. k - 1 : IsUpdate(conn[j], conn[k].id)
      <4>1. PICK j \in 1 .. k - 1 : IsUpdate(conn[j], conn[k].id)
        BY <3>4
      <4>2. conn'[j] = conn[j]
        BY <2>3, <1>1, <1>2
      <4> QED BY <4>1, <4>2, <3>1
    <3> QED BY <3>2, <3>3, <3>4
  <2>4. CASE k = Len(conn) + 1
    <3>1. Introduced(conn'[k].id)
      BY <2>4, <1>1
    <3>2. CASE status[conn'[k].id] # "none"
      BY <3>2, <2>2, <1>0
    <3>3. CASE \E j \in DOMAIN conn : IsUpdate(conn[j], conn'[k].id)
      BY <3>3, <2>4, <1>1, <1>2
    <3> QED BY <3>1, <3>2, <3>3 DEF Introduced
  <2> QED BY <1>1, <1>2, <2>3, <2>4
<1>5. \A c \in Container : Introduced(c) => Introduced(c)'
  BY <1>0, <1>1, <1>2 DEF Introduced, IsUpdate
<1>6. \A c \in Container : IsUpdate(m, c) => Introduced(c)'
  BY <1>1, <1>2 DEF Introduced, IsUpdate
<1> QED BY <1>1, <1>3, <1>4, <1>5, <1>6

LEMMA ConnReceived ==
  ASSUME IInv, Grows, NEW m, Receive(m),
         m.type = "Update" => status'[m.id] # "none"
  PROVE  /\ conn' \in Seq(Message) /\ Len(conn') <= Cap
         /\ m \in Message /\ MessageOK(m, images, registered)
         /\ ConnOK' /\ Preceded'
         /\ \A c \in Container : Introduced(c) => Introduced(c)'
<1>0. /\ TypeOK /\ ConnOK /\ Preceded
      /\ images \subseteq images' /\ registered \subseteq registered'
      /\ \A c \in Container : status[c] # "none" => status'[c] # "none"
  BY DEF IInv, Grows
<1>1. /\ conn' \in Seq(Message) /\ Len(conn') <= Cap
      /\ DOMAIN conn = 1 .. Len(conn) /\ DOMAIN conn' = 1 .. Len(conn) - 1
      /\ Len(conn) \in Nat \ {0}
      /\ \A k \in DOMAIN conn' : conn'[k] = conn[k + 1]
      /\ conn[1] = m /\ m \in Message
  BY <1>0, ReceiveEffect
<1>2. MessageOK(m, images, registered)
  BY <1>0, <1>1 DEF ConnOK
<1>3. ConnOK'
  <2> SUFFICES ASSUME NEW k \in DOMAIN conn' PROVE MessageOK(conn'[k], images', registered')
    BY DEF ConnOK
  <2>1. k + 1 \in DOMAIN conn /\ conn'[k] = conn[k + 1]
    BY <1>1
  <2> QED BY <1>0, <2>1 DEF ConnOK, MessageOK
<1>4. Preceded'
  <2> SUFFICES ASSUME NEW k \in DOMAIN conn', conn'[k].type \in {"Start", "Stop"}
               PROVE  \/ status'[conn'[k].id] # "none"
                      \/ \E j \in 1 .. k - 1 : IsUpdate(conn'[j], conn'[k].id)
    BY DEF Preceded, IsUpdate
  <2> DEFINE c == conn'[k].id
  <2>1. k + 1 \in DOMAIN conn /\ conn'[k] = conn[k + 1] /\ conn'[k] \in Message
    BY <1>1
  <2>2. c \in Container
    BY <2>1 DEF Message, Request, Update, PullImage
  <2>3. CASE status[c] # "none"
    BY <2>2, <2>3, <1>0
  <2>4. CASE \E j \in 1 .. (k + 1) - 1 : IsUpdate(conn[j], c)
    <3>1. PICK j \in 1 .. k : IsUpdate(conn[j], c)
      BY <2>4, <1>1
    <3>2. CASE j = 1
      <4>1. m.type = "Update" /\ m.id = c
        BY <3>1, <3>2, <1>1 DEF IsUpdate
      <4> QED BY <4>1, <2>2, <1>0
    <3>3. CASE j # 1
      <4>1. k \in Nat /\ k <= Len(conn) - 1
        BY <1>1
      <4>2. j - 1 \in 1 .. k - 1 /\ (j - 1) + 1 = j
        BY <3>3, <4>1
      <4>3. j - 1 \in DOMAIN conn'
        BY <4>1, <4>2, <1>1
      <4>4. conn'[j - 1] = conn[j]
        BY <4>2, <4>3, <1>1
      <4> QED BY <4>2, <4>4, <3>1
    <3> QED BY <3>2, <3>3
  <2> QED BY <2>1, <2>3, <2>4, <1>0 DEF Preceded
<1>5. ASSUME NEW c \in Container, Introduced(c) PROVE Introduced(c)'
  <2>1. CASE status[c] # "none"
    BY <2>1, <1>0 DEF Introduced
  <2>2. CASE \E j \in DOMAIN conn : IsUpdate(conn[j], c)
    <3>1. PICK j \in DOMAIN conn : IsUpdate(conn[j], c)
      BY <2>2
    <3>2. CASE j = 1
      BY <3>1, <3>2, <1>1 DEF IsUpdate, Introduced
    <3>3. CASE j # 1
      <4>1. j - 1 \in DOMAIN conn' /\ conn'[j - 1] = conn[j]
        BY <3>1, <3>3, <1>1
      <4> QED BY <4>1, <3>1 DEF Introduced, IsUpdate
    <3> QED BY <3>2, <3>3
  <2> QED BY <1>5, <2>1, <2>2 DEF Introduced
<1> QED BY <1>1, <1>2, <1>3, <1>4, <1>5

-----------------------------------------------------------------------------
(* One lemma per action: IInv is preserved.                                *)

LEMMA InitInv == Init => IInv
<1> SUFFICES ASSUME Init PROVE IInv
  OBVIOUS
<1>1. conn \in Seq(Message) /\ Len(conn) <= Cap
  BY DockerAssumption DEF Init
<1>2. daemon \in [Name -> {"absent", "stopped", "running"}]
  BY DockerAssumption DEF Init
<1>3. TypeOK
  BY <1>1, <1>2 DEF Init, TypeOK, Status, Progress
<1> QED
  BY <1>3 DEF Init, IInv, ConnOK, Preceded, ProgressOK, TasksOK, RunningOK, PullOK, Op

LEMMA RegisterImageInv ==
  ASSUME IInv, NEW i \in Image, RegisterImage(i)
  PROVE  IInv'
<1>1. Grows
  BY DEF Grows, RegisterImage
<1>2. ConnOK' /\ Preceded' /\ \A c \in Container : Introduced(c) => Introduced(c)'
  BY <1>1, ConnUnchanged DEF RegisterImage
<1>3. TypeOK'
  BY DEF IInv, TypeOK, RegisterImage
<1> QED
  BY <1>2, <1>3
     DEF IInv, TypeOK, ProgressOK, TasksOK, RunningOK, PullOK, RegisterImage

LEMMA SendPullInv ==
  ASSUME IInv, NEW i \in Image, SendPull(i)
  PROVE  IInv'
<1> DEFINE m == [type |-> "Pull", image |-> i]
<1>1. Grows
  BY DEF Grows, SendPull
<1>2. m \in Message /\ MessageOK(m, images', registered')
  BY MessageTypes DEF IInv, PullOK, SendPull, MessageOK
<1>3. /\ conn' \in Seq(Message) /\ Len(conn') <= Cap
      /\ ConnOK' /\ Preceded' /\ \A c \in Container : Introduced(c) => Introduced(c)'
  BY <1>1, <1>2, ConnSent DEF SendPull
<1>4. TypeOK'
  BY <1>3 DEF IInv, TypeOK, SendPull
<1> QED
  BY <1>3, <1>4 DEF IInv, TypeOK, ProgressOK, TasksOK, RunningOK, PullOK, SendPull

LEMMA SendCreateInv ==
  ASSUME IInv, NEW c \in Container, SendCreate(c)
  PROVE  IInv'
<1> DEFINE m == [type |-> "Create", id |-> c]
<1>1. Grows
  BY DEF Grows, SendCreate
<1>2. m \in Message /\ MessageOK(m, images', registered')
  BY MessageTypes DEF SendCreate, MessageOK
<1>3. /\ conn' \in Seq(Message) /\ Len(conn') <= Cap
      /\ ConnOK' /\ Preceded' /\ \A d \in Container : Introduced(d) => Introduced(d)'
  BY <1>1, <1>2, ConnSent DEF SendCreate
<1>4. TypeOK'
  BY <1>3 DEF IInv, TypeOK, Progress, SendCreate
<1> QED
  BY <1>3, <1>4 DEF IInv, TypeOK, ProgressOK, TasksOK, RunningOK, PullOK, SendCreate

(* A Start or a Stop is asked for only when the Create was answered, hence *)
(* after the entry entered the channel.                                    *)
LEMMA AskInv ==
  ASSUME IInv, NEW c \in Container, NEW m \in {StartMsg(c), StopMsg(c)}, Ask(c, m)
  PROVE  IInv'
<1>1. Grows
  BY DEF Grows, Ask
<1>2. m \in Message /\ MessageOK(m, images', registered') /\ m.id = c
  <2>1. m \in Message
    BY MessageTypes
  <2>2. m.type \in {"Start", "Stop"} /\ m.id = c
    BY DEF StartMsg, StopMsg
  <2> QED BY <2>1, <2>2 DEF MessageOK
<1>3. Introduced(c)
  BY DEF IInv, ProgressOK, Ask
<1>4. /\ conn' \in Seq(Message) /\ Len(conn') <= Cap
      /\ ConnOK' /\ Preceded' /\ \A d \in Container : Introduced(d) => Introduced(d)'
  BY <1>1, <1>2, <1>3, ConnSent DEF Ask
<1>5. TypeOK'
  BY <1>4 DEF IInv, TypeOK, Ask
<1> QED
  BY <1>4, <1>5 DEF IInv, TypeOK, ProgressOK, TasksOK, RunningOK, PullOK, Ask

LEMMA ReceiveCreateInv ==
  ASSUME IInv, NEW c \in Container, ReceiveCreate(c)
  PROVE  IInv'
<1> DEFINE m == [type |-> "Create", id |-> c]
<1>1. Grows
  BY DEF Grows, ReceiveCreate
<1>2. /\ conn' \in Seq(Message) /\ Len(conn') <= Cap
      /\ MessageOK(m, images, registered)
      /\ ConnOK' /\ Preceded' /\ \A d \in Container : Introduced(d) => Introduced(d)'
  BY <1>1, ConnReceived DEF ReceiveCreate
<1>3. ImageOf[c] \in images
  BY <1>2 DEF MessageOK
<1>4. TypeOK'
  BY <1>2 DEF IInv, TypeOK, Progress, ReceiveCreate
<1> QED
  BY <1>2, <1>3, <1>4
     DEF IInv, TypeOK, ProgressOK, TasksOK, RunningOK, PullOK, ReceiveCreate

LEMMA ReceivePullInv ==
  ASSUME IInv, NEW i \in Image, ReceivePull(i)
  PROVE  IInv'
<1> DEFINE m == [type |-> "Pull", image |-> i]
<1>1. Grows
  BY DEF Grows, ReceivePull
<1>2. /\ conn' \in Seq(Message) /\ Len(conn') <= Cap
      /\ MessageOK(m, images, registered)
      /\ ConnOK' /\ Preceded' /\ \A d \in Container : Introduced(d) => Introduced(d)'
  BY <1>1, ConnReceived DEF ReceivePull
<1>3. i \in images
  BY <1>2 DEF MessageOK
<1>4. TypeOK'
  BY <1>2, <1>3 DEF IInv, TypeOK, ReceivePull
<1> QED
  BY <1>2, <1>3, <1>4
     DEF IInv, TypeOK, ProgressOK, TasksOK, RunningOK, PullOK, ReceivePull

LEMMA DispatchInv ==
  ASSUME IInv, NEW c \in Container, NEW op \in Op,
         NEW m \in {StartMsg(c), StopMsg(c)}, Dispatch(c, op, m)
  PROVE  IInv'
<1>1. Grows
  BY DEF Grows, Dispatch, Spawn
<1>2. m.type # "Update"
  BY DEF StartMsg, StopMsg
<1>3. /\ conn' \in Seq(Message) /\ Len(conn') <= Cap
      /\ ConnOK' /\ Preceded' /\ \A d \in Container : Introduced(d) => Introduced(d)'
  BY <1>1, <1>2, ConnReceived DEF Dispatch
<1>4. CASE Accepts(c, op) /\ Spawn(c, op)
  <2>1. c \in registered
    BY <1>4 DEF IInv, TasksOK, Accepts
  <2>2. /\ calls' \in [Container -> [Op -> Nat]] /\ NameOf[c] \in Name
        /\ \A d \in Container, o \in Op : d # c => calls'[d][o] = calls[d][o]
    <3>1. calls \in [Container -> [Op -> Nat]] /\ calls' = Bump(calls, c, op)
      BY <1>4 DEF IInv, TypeOK, Spawn
    <3>2. NameOf[c] \in Name
      BY DockerAssumption
    <3> QED BY <3>1, <3>2, BumpEffect
  <2>3. TypeOK'
    BY <1>3, <1>4, <2>2 DEF IInv, TypeOK, Spawn
  <2>4. RunningOK'
    <3> SUFFICES ASSUME NEW d \in Container, NEW o \in Op,
                        calls'[d][o] + reports[d][o] > 0
                 PROVE  d \in registered
      BY <1>4 DEF RunningOK, Spawn
    <3>1. CASE d = c
      BY <3>1, <2>1
    <3>2. CASE d # c
      BY <3>2, <2>2 DEF IInv, RunningOK
    <3> QED BY <3>1, <3>2
  <2> QED
    BY <1>3, <1>4, <2>3, <2>4 DEF IInv, TypeOK, ProgressOK, TasksOK, PullOK, Spawn
<1>5. CASE UNCHANGED << status, registered, images, create, pull, calls,
                        reports, daemon, disturbed >>
  BY <1>3, <1>5 DEF IInv, TypeOK, ProgressOK, TasksOK, RunningOK, PullOK
<1> QED BY <1>4, <1>5 DEF Dispatch

LEMMA ReceiveUpdateInv ==
  ASSUME IInv, NEW c \in Container, NEW s \in {"Stopped", "Running"}, ReceiveUpdate(c, s)
  PROVE  IInv'
<1> DEFINE m == StateMsg(c, s)
<1>1. Grows
  BY DEF Grows, ReceiveUpdate, IInv, TypeOK
<1>2. m.type = "Update" /\ m.id = c /\ status'[c] # "none"
  BY DEF ReceiveUpdate, StateMsg, IInv, TypeOK
<1>3. /\ conn' \in Seq(Message) /\ Len(conn') <= Cap
      /\ MessageOK(m, images, registered)
      /\ ConnOK' /\ Preceded' /\ \A d \in Container : Introduced(d) => Introduced(d)'
  BY <1>1, <1>2, ConnReceived DEF ReceiveUpdate
<1>4. c \in registered
  BY <1>2, <1>3 DEF MessageOK
<1>5. TypeOK'
  BY <1>3 DEF IInv, TypeOK, Status, ReceiveUpdate
<1> QED
  BY <1>3, <1>4, <1>5
     DEF IInv, TypeOK, ProgressOK, TasksOK, RunningOK, PullOK, ReceiveUpdate

LEMMA CallInv ==
  ASSUME IInv, NEW c \in Container, NEW op \in Op, Call(c, op)
  PROVE  IInv'
<1>1. Grows
  BY DEF Grows, Call
<1>2. ConnOK' /\ Preceded' /\ \A d \in Container : Introduced(d) => Introduced(d)'
  BY <1>1, ConnUnchanged DEF Call
<1>3. NameOf[c] \in Name /\ Effect(op) \in {"running", "stopped"}
  BY DockerAssumption DEF Effect
<1>4. c \in registered
  BY DEF IInv, TypeOK, RunningOK, Call
<1>5. /\ calls' = Drop(calls, c, op)
      /\ reports' \in {reports, Bump(reports, c, op)}
  BY DEF Call, Succeed, Fail
<1>6. /\ calls' \in [Container -> [Op -> Nat]] /\ reports' \in [Container -> [Op -> Nat]]
      /\ \A d \in Container, o \in Op : calls'[d][o] + reports'[d][o] > 0 =>
           (d = c \/ calls[d][o] + reports[d][o] > 0)
  <2>1. /\ calls \in [Container -> [Op -> Nat]] /\ reports \in [Container -> [Op -> Nat]]
        /\ calls[c][op] > 0
    BY DEF IInv, TypeOK, Call
  <2>2. /\ calls' \in [Container -> [Op -> Nat]]
        /\ \A d \in Container, o \in Op : d # c => calls'[d][o] = calls[d][o]
    BY <1>5, <2>1 DEF Drop
  <2>3. /\ reports' \in [Container -> [Op -> Nat]]
        /\ \A d \in Container, o \in Op : d # c => reports'[d][o] = reports[d][o]
    BY <1>5, <2>1, BumpEffect
  <2> QED BY <2>2, <2>3
<1>7. TypeOK'
  BY <1>3, <1>6 DEF IInv, TypeOK, Call, Succeed, Fail, Disturb
<1>8. RunningOK'
  BY <1>4, <1>6 DEF IInv, RunningOK, Call
<1> QED
  BY <1>2, <1>7, <1>8 DEF IInv, ProgressOK, TasksOK, PullOK, Call

LEMMA ReportInv ==
  ASSUME IInv, NEW c \in Container, NEW op \in Op, Report(c, op)
  PROVE  IInv'
<1> DEFINE m == StateMsg(c, Reported(op))
<1>1. Grows
  BY DEF Grows, Report
<1>2. c \in registered
  BY DEF IInv, TypeOK, RunningOK, Report
<1>3. Reported(op) \in {"Stopped", "Running"}
  BY DEF Reported
<1>4. m \in Message /\ MessageOK(m, images', registered') /\ m.type = "Update"
  BY <1>2, <1>3, MessageTypes DEF StateMsg, MessageOK, Report
<1>5. /\ conn' \in Seq(Message) /\ Len(conn') <= Cap
      /\ ConnOK' /\ Preceded' /\ \A d \in Container : Introduced(d) => Introduced(d)'
  BY <1>1, <1>4, ConnSent DEF Report
<1>6. /\ reports' \in [Container -> [Op -> Nat]]
      /\ \A d \in Container, o \in Op : reports'[d][o] <= reports[d][o]
  <2>1. /\ reports \in [Container -> [Op -> Nat]] /\ reports[c][op] > 0
        /\ reports' = Drop(reports, c, op)
    BY DEF IInv, TypeOK, Report
  <2>2. /\ reports' \in [Container -> [Op -> Nat]]
        /\ \A d \in Container, o \in Op :
             reports'[d][o] = IF d = c /\ o = op THEN reports[d][o] - 1 ELSE reports[d][o]
    BY <2>1 DEF Drop
  <2>3. \A d \in Container, o \in Op : reports[d][o] \in Nat
    BY <2>1
  <2> QED BY <2>2, <2>3
<1>7. TypeOK'
  BY <1>5, <1>6 DEF IInv, TypeOK, Report
<1>8. RunningOK'
  BY <1>6 DEF IInv, TypeOK, RunningOK, Report
<1> QED
  BY <1>5, <1>7, <1>8 DEF IInv, ProgressOK, TasksOK, PullOK, Report

LEMMA CheckInv ==
  ASSUME IInv, NEW c \in Container, Check(c)
  PROVE  IInv'
<1>1. Grows
  BY DEF Grows, Check
<1>2. ConnOK' /\ Preceded' /\ \A d \in Container : Introduced(d) => Introduced(d)'
  BY <1>1, ConnUnchanged DEF Check
<1>3. ImageOf[c] \in images /\ NameOf[c] \in Name
  BY DockerAssumption DEF IInv, ProgressOK, Check
<1>4. /\ create' \in [Container -> Progress]
      /\ \A d \in Container \ {c} : create'[d] = create[d]
      /\ create'[c] \in {"update", "make", "failed"}
      /\ create'[c] = "update" => c \in registered'
  BY <1>3 DEF IInv, TypeOK, Progress, Check
<1>5. TypeOK'
  BY <1>3, <1>4 DEF IInv, TypeOK, Check, Disturb
<1>6. ProgressOK'
  BY <1>1, <1>2, <1>3, <1>4 DEF IInv, ProgressOK, Grows
<1> QED
  BY <1>1, <1>2, <1>5, <1>6 DEF IInv, TasksOK, RunningOK, PullOK, Check, Grows

LEMMA MakeInv ==
  ASSUME IInv, NEW c \in Container, Make(c)
  PROVE  IInv'
<1>1. Grows
  BY DEF Grows, Make
<1>2. ConnOK' /\ Preceded' /\ \A d \in Container : Introduced(d) => Introduced(d)'
  BY <1>1, ConnUnchanged DEF Make
<1>3. /\ create' \in [Container -> Progress]
      /\ \A d \in Container \ {c} : create'[d] = create[d]
      /\ create'[c] \in {"update", "failed"} /\ create[c] = "make"
      /\ create'[c] = "update" => c \in registered'
  BY DEF IInv, TypeOK, Progress, Make
<1>4. TypeOK'
  BY <1>3, DockerAssumption DEF IInv, TypeOK, Make
<1>5. ProgressOK'
  BY <1>1, <1>2, <1>3 DEF IInv, ProgressOK, Grows
<1> QED
  BY <1>1, <1>2, <1>4, <1>5 DEF IInv, TasksOK, RunningOK, PullOK, Make, Grows

(* The entry is in the channel when the caller may be answered. *)
LEMMA EnterStoppedInv ==
  ASSUME IInv, NEW c \in Container, EnterStopped(c)
  PROVE  IInv'
<1> DEFINE m == StateMsg(c, "Stopped")
<1>1. Grows
  BY DEF Grows, EnterStopped
<1>2. c \in registered /\ ImageOf[c] \in images
  BY DEF IInv, ProgressOK, EnterStopped
<1>3. m \in Message /\ MessageOK(m, images', registered') /\ IsUpdate(m, c)
  BY <1>2, MessageTypes DEF StateMsg, MessageOK, EnterStopped, IsUpdate
<1>4. m.type = "Update"
  BY DEF StateMsg
<1>5. /\ conn' \in Seq(Message) /\ Len(conn') <= Cap
      /\ ConnOK' /\ Preceded' /\ \A d \in Container : Introduced(d) => Introduced(d)'
      /\ Introduced(c)'
  BY <1>1, <1>3, <1>4, ConnSent DEF EnterStopped
<1>6. TypeOK'
  BY <1>5 DEF IInv, TypeOK, Progress, EnterStopped
<1>7. ProgressOK'
  BY <1>2, <1>5 DEF IInv, TypeOK, ProgressOK, EnterStopped
<1> QED
  BY <1>5, <1>6, <1>7 DEF IInv, TasksOK, RunningOK, PullOK, EnterStopped

LEMMA ReplyCreateInv ==
  ASSUME IInv, NEW c \in Container, ReplyCreate(c)
  PROVE  IInv'
<1>1. Grows
  BY DEF Grows, ReplyCreate
<1>2. ConnOK' /\ Preceded' /\ \A d \in Container : Introduced(d) => Introduced(d)'
  BY <1>1, ConnUnchanged DEF ReplyCreate
<1>3. TypeOK'
  BY DEF IInv, TypeOK, Progress, ReplyCreate
<1>4. ProgressOK'
  BY <1>2 DEF IInv, TypeOK, ProgressOK, ReplyCreate
<1> QED
  BY <1>2, <1>3, <1>4 DEF IInv, TasksOK, RunningOK, PullOK, ReplyCreate

LEMMA FinishPullInv ==
  ASSUME IInv, NEW i \in Image, FinishPull(i)
  PROVE  IInv'
<1>1. Grows
  BY DEF Grows, FinishPull
<1>2. ConnOK' /\ Preceded' /\ \A d \in Container : Introduced(d) => Introduced(d)'
  BY <1>1, ConnUnchanged DEF FinishPull
<1>3. TypeOK' /\ PullOK'
  BY DEF IInv, TypeOK, Answer, PullOK, FinishPull
<1> QED
  BY <1>2, <1>3 DEF IInv, ProgressOK, TasksOK, RunningOK, FinishPull

LEMMA ExitInv ==
  ASSUME IInv, NEW n \in Name, Exit(n)
  PROVE  IInv'
<1>1. Grows
  BY DEF Grows, Exit
<1>2. ConnOK' /\ Preceded' /\ \A d \in Container : Introduced(d) => Introduced(d)'
  BY <1>1, ConnUnchanged DEF Exit
<1>3. TypeOK'
  BY DEF IInv, TypeOK, Exit, Disturb
<1> QED
  BY <1>2, <1>3 DEF IInv, ProgressOK, TasksOK, RunningOK, PullOK, Exit

LEMMA StutterInv == IInv /\ UNCHANGED vars => IInv'
<1> SUFFICES ASSUME IInv, UNCHANGED vars PROVE IInv'
  OBVIOUS
<1>1. ConnOK' /\ Preceded' /\ \A d \in Container : Introduced(d) => Introduced(d)'
  BY ConnUnchanged DEF Grows, vars
<1> QED
  BY <1>1 DEF vars, IInv, TypeOK, ProgressOK, TasksOK, RunningOK, PullOK

(* A request for a Start or a Stop, without MaxLoad: what is proved does    *)
(* not depend on the bound, and holds wherever the requests come from.     *)
AskOf(c) == Ask(c, StartMsg(c)) \/ Ask(c, StopMsg(c))

Step == Next \/ \E c \in Container : AskOf(c)

LEMMA NextIsStep == [Next]_vars => [Step]_vars
BY DEF Step

LEMMA SendIsAsk == \A c \in Container : SendStart(c) \/ SendStop(c) => AskOf(c)
BY DEF AskOf, SendStart, SendStop

LEMMA StepInv == IInv /\ [Step]_vars => IInv'
<1> SUFFICES ASSUME IInv, Step PROVE IInv'
  BY StutterInv
<1>1. ASSUME NEW c \in Container, AskOf(c)
      PROVE  IInv'
  BY <1>1, AskInv DEF AskOf
<1>2. ASSUME NEW c \in Container, ReceiveStart(c) \/ ReceiveStop(c)
      PROVE  IInv'
  BY <1>2, DispatchInv DEF ReceiveStart, ReceiveStop, Op
<1>3. CASE Dispatcher
  BY <1>2, <1>3, ReceiveCreateInv, ReceiveUpdateInv, ReceivePullInv DEF Dispatcher
<1>4. ASSUME NEW c \in Container, CreateTask(c) \/ EnterStopped(c)
      PROVE  IInv'
  BY <1>4, CheckInv, MakeInv, ReplyCreateInv, EnterStoppedInv DEF CreateTask
<1> QED
  BY <1>1, <1>3, <1>4, RegisterImageInv, SendPullInv, FinishPullInv, SendCreateInv,
     CallInv, ReportInv, ExitInv, SendIsAsk DEF Step, Next

-----------------------------------------------------------------------------
(* The strengthening is an invariant of every instance. *)
THEOREM Invariance == Spec => []IInv
BY InitInv, StepInv, NextIsStep, PTL DEF Spec

THEOREM TypeCorrect == Spec => []TypeOK
BY Invariance, PTL DEF IInv

(* No Create and no Pull is answered "Image not found": RegisterImage      *)
(* registers the image before any message names it.                        *)
THEOREM ImageFoundHolds == Spec => []ImageFound
<1>1. IInv => ImageFound
  BY DEF IInv, ProgressOK, PullOK, ImageFound
<1> QED BY <1>1, Invariance, PTL

LEMMA AllKnown == IInv => KnownContainer
BY DEF IInv, TypeOK, Preceded, RunningOK, KnownContainer, IsUpdate

(* No Start or Stop is dropped as "Got invalid ContainerId", however many  *)
(* containers there are and however small the channel is, and every task   *)
(* finds its container in the registry.                                    *)
THEOREM KnownContainerHolds == Spec => []KnownContainer
BY AllKnown, Invariance, PTL

(* A container that was there stays, in whatever state. *)
LEMMA ContainersStay ==
  ASSUME IInv, Step, NEW n \in Name, daemon[n] # "absent"
  PROVE  daemon'[n] # "absent"
<1> USE DEF IInv, TypeOK
<1>1. ASSUME NEW c \in Container, NEW op \in Op, Call(c, op)
      PROVE  daemon'[n] # "absent"
  BY <1>1, DockerAssumption DEF Call, Succeed, Fail, Effect
<1>2. ASSUME NEW c \in Container, Make(c)
      PROVE  daemon'[n] # "absent"
  BY <1>2, DockerAssumption DEF Make
<1>3. ASSUME NEW m \in Name, Exit(m)
      PROVE  daemon'[n] # "absent"
  BY <1>3 DEF Exit
<1>4. CASE UNCHANGED daemon
  BY <1>4
<1> QED
  BY <1>1, <1>2, <1>3, <1>4
     DEF Step, Next, Dispatcher, CreateTask, RegisterImage, SendPull, FinishPull, SendCreate,
         SendStart, SendStop, AskOf, Ask, ReceiveCreate, ReceiveStart, ReceiveStop, Dispatch,
         Spawn, ReceiveUpdate, ReceivePull, Report, Check, ReplyCreate, EnterStopped

Made == {"update", "reply", "ok"}

(* Only Check and Make bring a Create to its entry in the table. *)
LEMMA MadeHere ==
  ASSUME IInv, Step, NEW c \in Container, create'[c] \in Made, create[c] \notin Made
  PROVE  Check(c) \/ Make(c)
<1> USE DEF IInv, TypeOK, Made
<1>1. ASSUME NEW d \in Container, Check(d) \/ Make(d)
      PROVE  d = c
  BY <1>1 DEF Check, Make
<1>2. CASE UNCHANGED create
  BY <1>2
<1>3. ASSUME NEW d \in Container,
             SendCreate(d) \/ ReceiveCreate(d) \/ EnterStopped(d) \/ ReplyCreate(d)
      PROVE  FALSE
  BY <1>3 DEF SendCreate, ReceiveCreate, EnterStopped, ReplyCreate
<1> QED
  BY <1>1, <1>2, <1>3
     DEF Step, Next, Dispatcher, CreateTask, RegisterImage, SendPull, FinishPull,
         SendStart, SendStop, AskOf, Ask, ReceiveStart, ReceiveStop, Dispatch,
         Spawn, ReceiveUpdate, ReceivePull, Report, Call, Exit

(* A Create is answered with success only if docker has the container, or  *)
(* another one whose name contains its name, for any number of concurrent       *)
(* Creates and any fault.                                                  *)
THEOREM AnsweredExistsHolds == Spec => []AnsweredExists
<1>1. Init => AnsweredExists
  BY DEF Init, AnsweredExists
<1>2. IInv /\ AnsweredExists /\ [Step]_vars => AnsweredExists'
  <2> SUFFICES ASSUME IInv, AnsweredExists, [Step]_vars, NEW c \in Container, create'[c] \in Made
               PROVE  \E m \in Within[NameOf[c]] \cup {NameOf[c]} : daemon'[m] # "absent"
    BY DEF AnsweredExists, Exists, Made
  <2>0. NameOf[c] \in Name /\ Within[NameOf[c]] \cup {NameOf[c]} \subseteq Name
    BY DockerAssumption
  <2>1. CASE UNCHANGED vars
    BY <2>1 DEF AnsweredExists, Exists, Made, vars
  <2>2. CASE Step /\ create[c] \in Made
    BY <2>0, <2>2, ContainersStay DEF AnsweredExists, Exists, Made
  <2>3. CASE Step /\ create[c] \notin Made
    <3>1. Check(c) \/ Make(c)
      BY <2>3, MadeHere
    <3> QED BY <3>1, <2>0 DEF Check, Make, Exists, IInv, TypeOK, Made
  <2> QED BY <2>1, <2>2, <2>3
<1> QED BY <1>1, <1>2, NextIsStep, Invariance, PTL DEF Spec

-----------------------------------------------------------------------------
(* The table and the daemon, for one container.                            *)

On(c) == daemon[NameOf[c]] = "running"

(* What op left of c is on its way to the table; or op is still to be done. *)
Coming(c, op) == reports[c][op] > 0 \/ InConn(StateMsg(c, Reported(op)))
Under(c, op)  == calls[c][op] > 0 \/ Coming(c, op)

(* Starts and stops are not under way together, what is on its way to the  *)
(* table is what the daemon has, and without it the table has it already.  *)
Settles(c) ==
  Sole(c) /\ create[c] \in Made /\ NameOf[c] \notin disturbed =>
    /\ ~ (Under(c, "start") /\ Under(c, "stop"))
    /\ \A op \in Op : Coming(c, op) => (On(c) <=> op = "start")
    /\ (\A op \in Op : ~Coming(c, op)) => Agree(c)

(* A container that the table is yet to learn of has no tasks. *)
NewEntry(c) ==
  create[c] = "update" => status[c] = "none" /\ \A op \in Op : ~Under(c, op)

Listed(c) == c \in registered => create[c] \in Made

Tracked(c) == Settles(c) /\ NewEntry(c) /\ Listed(c)

LEMMA OpFacts ==
  /\ Op = {"start", "stop"} /\ \A op \in Op : Opposite(op) \in Op /\ Opposite(op) # op
  /\ Reported("start") = "Running" /\ Reported("stop") = "Stopped"
  /\ \A op \in Op : Reported(op) \in {"Stopped", "Running"}
  /\ \A c, op, d, o : StateMsg(c, Reported(op)) = StateMsg(d, Reported(o)) =>
       c = d /\ Reported(op) = Reported(o)
BY DEF Op, Opposite, Reported, StateMsg

LEMMA TaskCounts ==
  ASSUME NEW f \in [Container -> [Op -> Nat]], NEW c \in Container, NEW op \in Op
  PROVE  /\ Bump(f, c, op) \in [Container -> [Op -> Nat]]
         /\ \A d \in Container, o \in Op :
              Bump(f, c, op)[d][o] = IF d = c /\ o = op THEN f[d][o] + 1 ELSE f[d][o]
         /\ f[c][op] > 0 =>
              \A d \in Container, o \in Op :
                Drop(f, c, op)[d][o] = IF d = c /\ o = op THEN f[d][o] - 1 ELSE f[d][o]
<1>1. f[c] \in [Op -> Nat] /\ f[c][op] \in Nat
  OBVIOUS
<1>2. PICK x : x = f[c][op] + 1
  OBVIOUS
<1>3. PICK g : g = [f[c] EXCEPT ![op] = x]
  OBVIOUS
<1>4. g \in [Op -> Nat] /\ \A o \in Op : g[o] = IF o = op THEN x ELSE f[c][o]
  BY <1>1, <1>2, <1>3
<1>5. Bump(f, c, op) = [f EXCEPT ![c] = g]
  BY <1>2, <1>3 DEF Bump
<1>6. PICK y : y = f[c][op] - 1
  OBVIOUS
<1>7. PICK h : h = [f[c] EXCEPT ![op] = y]
  OBVIOUS
<1>8. \A o \in Op : h[o] = IF o = op THEN y ELSE f[c][o]
  BY <1>1, <1>7
<1>9. Drop(f, c, op) = [f EXCEPT ![c] = h]
  BY <1>6, <1>7 DEF Drop
<1> QED BY <1>2, <1>4, <1>5, <1>6, <1>8, <1>9

(* The channel as a set of messages. *)
LEMMA SentView ==
  ASSUME TypeOK, NEW m \in Message, Send(m)
  PROVE  \A x : InConn(x)' <=> (InConn(x) \/ x = m)
<1>1. PICK n \in Nat : n = Len(conn)
  BY DEF TypeOK
<1>2. /\ DOMAIN conn = 1 .. n /\ DOMAIN conn' = 1 .. n + 1
      /\ \A k \in 1 .. n : conn'[k] = conn[k]
      /\ conn'[n + 1] = m
  BY <1>1, SendEffect
<1>3. /\ \A k \in 1 .. n : k \in 1 .. n + 1
      /\ n + 1 \in 1 .. n + 1
      /\ \A k \in 1 .. n + 1 : k \in 1 .. n \/ k = n + 1
  OBVIOUS
<1> QED BY <1>2, <1>3, Zenon DEF InConn

LEMMA ReceivedView ==
  ASSUME TypeOK, NEW m, Receive(m)
  PROVE  /\ InConn(m)
         /\ \A x : InConn(x)' => InConn(x)
         /\ \A x : x # m => (InConn(x)' <=> InConn(x))
<1>1. PICK n \in Nat : n = Len(conn)
  BY DEF TypeOK
<1>2. /\ DOMAIN conn = 1 .. n /\ DOMAIN conn' = 1 .. n - 1 /\ n > 0
      /\ \A k \in 1 .. n - 1 : conn'[k] = conn[k + 1]
      /\ conn[1] = m
  BY <1>1, ReceiveEffect
<1>3. /\ 1 \in 1 .. n
      /\ \A k \in 1 .. n - 1 : k + 1 \in 1 .. n
      /\ \A k \in 1 .. n : k = 1 \/ (k - 1 \in 1 .. n - 1 /\ (k - 1) + 1 = k)
  BY <1>2
<1>4. ASSUME NEW x, InConn(x)' PROVE InConn(x)
  <2>1. PICK k \in 1 .. n - 1 : conn'[k] = x
    BY <1>2, <1>4 DEF InConn
  <2> QED BY <1>2, <1>3, <2>1 DEF InConn
<1>5. ASSUME NEW x, x # m, InConn(x) PROVE InConn(x)'
  <2>1. PICK k \in 1 .. n : conn[k] = x
    BY <1>2, <1>5 DEF InConn
  <2>2. k # 1
    BY <1>2, <1>5, <2>1
  <2>3. k - 1 \in 1 .. n - 1 /\ conn'[k - 1] = x
    BY <1>2, <1>3, <2>1, <2>2
  <2> QED BY <1>2, <2>3 DEF InConn
<1>6. InConn(m)
  BY <1>2, <1>3 DEF InConn
<1> QED BY <1>4, <1>5, <1>6

(* What a step leaves alone of c: its entry and its tasks, and its host.   *)
SameTasks(c) ==
  /\ status'[c] = status[c]
  /\ \A op \in Op : calls'[c][op] = calls[c][op] /\ reports'[c][op] = reports[c][op]
  /\ \A s \in {"Stopped", "Running"} : InConn(StateMsg(c, s))' <=> InConn(StateMsg(c, s))

SameHost(c) ==
  /\ daemon'[NameOf[c]] = daemon[NameOf[c]]
  /\ NameOf[c] \in disturbed' <=> NameOf[c] \in disturbed

SameStage(c) ==
  /\ c \in registered' <=> c \in registered
  /\ \/ create'[c] = create[c]
     \/ create[c] \notin Made /\ create'[c] \notin Made
     \/ create[c] = "reply" /\ create'[c] = "ok"

Newer == \A d \in Container : create'[d] = "idle" => create[d] = "idle"

SamePending(c) ==
  /\ status'[c] = status[c]
  /\ \A op \in Op : (Coming(c, op)' <=> Coming(c, op)) /\ (Under(c, op)' <=> Under(c, op))

LEMMA Pending == ASSUME NEW c \in Container, SameTasks(c) PROVE SamePending(c)
<1>1. ASSUME NEW op \in Op
      PROVE  (Coming(c, op)' <=> Coming(c, op)) /\ (Under(c, op)' <=> Under(c, op))
  <2>1. InConn(StateMsg(c, Reported(op)))' <=> InConn(StateMsg(c, Reported(op)))
    BY OpFacts DEF SameTasks
  <2>2. Coming(c, op)' <=> Coming(c, op)
    BY <2>1 DEF Coming, SameTasks
  <2> QED BY <2>2 DEF Under, SameTasks
<1> QED BY <1>1 DEF SameTasks, SamePending

LEMMA SoleStays ==
  ASSUME Newer, NEW c \in Container, Sole(c)'
  PROVE  Sole(c)
BY DEF Newer, Sole

(* A step that does not concern c, or only its host and not as the one     *)
(* container of its name.                                                  *)
LEMMA Aside ==
  ASSUME Newer, NEW c \in Container, Tracked(c), SamePending(c), SameStage(c),
         Sole(c)' /\ NameOf[c] \notin disturbed' => SameHost(c)
  PROVE  Tracked(c)'
<1>1. \A op \in Op : (Coming(c, op)' <=> Coming(c, op)) /\ (Under(c, op)' <=> Under(c, op))
  BY DEF SamePending
<1>2. NewEntry(c)'
  BY <1>1 DEF Tracked, NewEntry, SameStage, SamePending, Made
<1>3. Listed(c)'
  BY DEF Tracked, Listed, SameStage, Made
<1>4. Settles(c)'
  <2> SUFFICES ASSUME Sole(c)', create'[c] \in Made, NameOf[c] \notin disturbed'
               PROVE  /\ ~ (Under(c, "start")' /\ Under(c, "stop")')
                      /\ \A op \in Op : Coming(c, op)' => (On(c)' <=> op = "start")
                      /\ (\A op \in Op : ~Coming(c, op)') => Agree(c)'
    BY DEF Settles
  <2>0. SameHost(c)
    OBVIOUS
  <2>1. Sole(c) /\ create[c] \in Made /\ NameOf[c] \notin disturbed
    BY <2>0, SoleStays DEF SameStage, SameHost, Made
  <2>2. (On(c)' <=> On(c)) /\ (Agree(c)' <=> Agree(c))
    BY <2>0 DEF SameHost, SamePending, On, Agree
  <2>3. /\ ~ (Under(c, "start") /\ Under(c, "stop"))
        /\ \A op \in Op : Coming(c, op) => (On(c) <=> op = "start")
        /\ (\A op \in Op : ~Coming(c, op)) => Agree(c)
    BY <2>1 DEF Tracked, Settles
  <2> QED BY <1>1, <2>2, <2>3, OpFacts
<1> QED BY <1>2, <1>3, <1>4 DEF Tracked

(* Two containers connman has asked for do not share a name if one of them *)
(* is the only one of its name.                                            *)
LEMMA OtherName ==
  ASSUME NEW c \in Container, NEW d \in Container, c # d, create'[c] # "idle", Sole(d)'
  PROVE  NameOf[d] # NameOf[c]
BY DEF Sole

LEMMA CreateNewer == ASSUME IInv, Step PROVE Newer
<1> USE DEF IInv, TypeOK, Newer
<1>1. CASE UNCHANGED create
  BY <1>1
<1>2. ASSUME NEW c \in Container, NEW x \in {"queued", "check", "make", "update", "reply", "ok",
                                            "failed", "no_image"},
             create' = [create EXCEPT ![c] = x]
      PROVE  Newer
  BY <1>2
<1>3. ASSUME NEW c \in Container,
             SendCreate(c) \/ ReceiveCreate(c) \/ EnterStopped(c) \/ ReplyCreate(c)
             \/ Check(c) \/ Make(c)
      PROVE  Newer
  BY <1>2, <1>3 DEF SendCreate, ReceiveCreate, EnterStopped, ReplyCreate, Check, Make
<1> QED
  BY <1>1, <1>3
     DEF Step, Next, Dispatcher, CreateTask, RegisterImage, SendPull, FinishPull,
         SendStart, SendStop, AskOf, Ask, ReceiveStart, ReceiveStop, Dispatch,
         Spawn, ReceiveUpdate, ReceivePull, Report, Call, Exit

(* A message other than an update of the table. *)
LEMMA SentAside ==
  ASSUME TypeOK, NEW m \in Message, Send(m), m.type # "Update", NEW c \in Container,
         NEW s
  PROVE  InConn(StateMsg(c, s))' <=> InConn(StateMsg(c, s))
BY SentView DEF StateMsg

LEMMA ReceivedAside ==
  ASSUME TypeOK, NEW m, Receive(m), m.type # "Update", NEW c \in Container, NEW s
  PROVE  InConn(StateMsg(c, s))' <=> InConn(StateMsg(c, s))
BY ReceivedView DEF StateMsg

CreateMsg(c) == [type |-> "Create", id |-> c]

(* The Create of a container is in the channel once, while it is queued. *)
AskedOnce(c) ==
  \A j, k \in DOMAIN conn : conn[j] = CreateMsg(c) /\ conn[k] = CreateMsg(c) =>
    j = k /\ create[c] = "queued"

LEMMA OnceSent ==
  ASSUME TypeOK, NEW c \in Container, AskedOnce(c), NEW m \in Message, Send(m),
         create'[c] = create[c] \/ create[c] # "queued",
         m = CreateMsg(c) => create[c] = "idle" /\ create'[c] = "queued"
  PROVE  AskedOnce(c)'
<1>1. PICK n \in Nat : n = Len(conn)
  BY DEF TypeOK
<1>2. /\ DOMAIN conn = 1 .. n /\ DOMAIN conn' = 1 .. n + 1
      /\ \A k \in 1 .. n : conn'[k] = conn[k]
      /\ conn'[n + 1] = m
  BY <1>1, SendEffect
<1>3. \A k \in 1 .. n + 1 : k \in 1 .. n \/ k = n + 1
  OBVIOUS
<1>4. CASE m = CreateMsg(c)
  <2>1. \A k \in 1 .. n : conn[k] # CreateMsg(c)
    BY <1>2, <1>4 DEF AskedOnce
  <2> QED BY <1>2, <1>3, <1>4, <2>1 DEF AskedOnce, CreateMsg
<1>5. CASE m # CreateMsg(c)
  BY <1>2, <1>3, <1>5 DEF AskedOnce, CreateMsg
<1> QED BY <1>4, <1>5

LEMMA OnceReceived ==
  ASSUME TypeOK, NEW c \in Container, AskedOnce(c), NEW m, Receive(m),
         create'[c] = create[c] \/ create[c] # "queued" \/ m = CreateMsg(c)
  PROVE  AskedOnce(c)' /\ (m = CreateMsg(c) => create[c] = "queued")
<1>1. PICK n \in Nat : n = Len(conn)
  BY DEF TypeOK
<1>2. /\ DOMAIN conn = 1 .. n /\ DOMAIN conn' = 1 .. n - 1 /\ n > 0
      /\ \A k \in 1 .. n - 1 : conn'[k] = conn[k + 1]
      /\ conn[1] = m
  BY <1>1, ReceiveEffect
<1>3. 1 \in 1 .. n /\ \A k \in 1 .. n - 1 : k + 1 \in 1 .. n /\ k + 1 # 1
  BY <1>2
<1>4. \A j, k \in 1 .. n - 1 : j + 1 = k + 1 => j = k
  OBVIOUS
<1>5. m = CreateMsg(c) => create[c] = "queued"
  BY <1>2, <1>3 DEF AskedOnce
<1>6. ASSUME NEW j \in 1 .. n - 1, NEW k \in 1 .. n - 1,
             conn'[j] = CreateMsg(c), conn'[k] = CreateMsg(c)
      PROVE  j = k /\ create[c] = "queued" /\ m # CreateMsg(c)
  <2>1. conn[j + 1] = CreateMsg(c) /\ conn[k + 1] = CreateMsg(c)
    BY <1>2, <1>6
  <2> QED BY <1>2, <1>3, <1>4, <2>1 DEF AskedOnce
<1>7. AskedOnce(c)'
  BY <1>2, <1>6 DEF AskedOnce, CreateMsg
<1> QED BY <1>5, <1>7

LEMMA OnceKept ==
  ASSUME NEW c \in Container, AskedOnce(c), UNCHANGED conn,
         create'[c] = create[c] \/ create[c] # "queued"
  PROVE  AskedOnce(c)'
BY DEF AskedOnce, CreateMsg

LEMMA OnceStep ==
  ASSUME IInv, Step, NEW c \in Container, AskedOnce(c)
  PROVE  AskedOnce(c)'
<1> USE DEF IInv
<1>1. ASSUME NEW d \in Container, NEW x, create[d] # "queued",
             create' = [create EXCEPT ![d] = x]
      PROVE  create'[c] = create[c] \/ create[c] # "queued"
  BY <1>1 DEF TypeOK
<1>2. ASSUME NEW d \in Container,
             SendCreate(d) \/ EnterStopped(d) \/ Check(d) \/ Make(d) \/ ReplyCreate(d)
      PROVE  create'[c] = create[c] \/ create[c] # "queued"
  BY <1>1, <1>2 DEF SendCreate, EnterStopped, Check, Make, ReplyCreate
<1>3. ASSUME NEW i \in Image, RegisterImage(i) \/ FinishPull(i)
      PROVE  AskedOnce(c)'
  BY <1>3, OnceKept DEF RegisterImage, FinishPull
<1>4. ASSUME NEW i \in Image, SendPull(i) \/ ReceivePull(i)
      PROVE  AskedOnce(c)'
  <2>1. PICK m \in Message : m = [type |-> "Pull", image |-> i]
    BY MessageTypes
  <2>2. m # CreateMsg(c)
    BY <2>1 DEF CreateMsg
  <2> QED BY <1>4, <2>1, <2>2, OnceSent, OnceReceived DEF SendPull, ReceivePull
<1>5. ASSUME NEW d \in Container, AskOf(d) \/ ReceiveStart(d) \/ ReceiveStop(d)
      PROVE  AskedOnce(c)'
  <2>1. PICK m \in {StartMsg(d), StopMsg(d)} : Send(m) \/ Receive(m)
    BY <1>5 DEF AskOf, Ask, ReceiveStart, ReceiveStop, Dispatch
  <2>2. m \in Message
    BY MessageTypes
  <2>3. m # CreateMsg(c)
    BY DEF CreateMsg, StartMsg, StopMsg
  <2>4. create' = create
    BY <1>5 DEF AskOf, Ask, ReceiveStart, ReceiveStop, Dispatch, Spawn
  <2> QED BY <2>1, <2>2, <2>3, <2>4, OnceSent, OnceReceived
<1>6. ASSUME NEW d \in Container, NEW s \in {"Stopped", "Running"}, ReceiveUpdate(d, s)
      PROVE  AskedOnce(c)'
  BY <1>6, OnceReceived DEF ReceiveUpdate
<1>7. ASSUME NEW d \in Container, NEW op \in Op, Report(d, op)
      PROVE  AskedOnce(c)'
  <2>1. PICK m \in Message : m = StateMsg(d, Reported(op))
    BY OpFacts, MessageTypes
  <2>2. m # CreateMsg(c)
    BY <2>1 DEF CreateMsg, StateMsg
  <2> QED BY <1>7, <2>1, <2>2, OnceSent DEF Report
<1>8. ASSUME NEW d \in Container, EnterStopped(d)
      PROVE  AskedOnce(c)'
  <2>1. PICK m \in Message : m = StateMsg(d, "Stopped")
    BY MessageTypes
  <2>2. m # CreateMsg(c)
    BY <2>1 DEF CreateMsg, StateMsg
  <2> QED BY <1>2, <1>8, <2>1, <2>2, OnceSent DEF EnterStopped
<1>9. ASSUME NEW d \in Container, SendCreate(d)
      PROVE  AskedOnce(c)'
  <2>1. CreateMsg(d) \in Message /\ (d # c => CreateMsg(d) # CreateMsg(c))
    BY MessageTypes DEF CreateMsg
  <2>2. d = c => create[c] = "idle" /\ create'[c] = "queued"
    BY <1>9 DEF SendCreate, TypeOK
  <2>3. Send(CreateMsg(d))
    BY <1>9 DEF SendCreate, CreateMsg
  <2> QED BY <1>2, <1>9, <2>1, <2>2, <2>3, OnceSent
<1>10. ASSUME NEW d \in Container, ReceiveCreate(d)
       PROVE  AskedOnce(c)'
  <2>1. Receive(CreateMsg(d)) /\ create' = [create EXCEPT ![d] = "check"]
    BY <1>10 DEF ReceiveCreate, CreateMsg
  <2>2. d # c => create'[c] = create[c]
    BY <2>1 DEF TypeOK
  <2> QED BY <2>1, <2>2, OnceReceived
<1>11. ASSUME NEW d \in Container, Check(d) \/ Make(d) \/ ReplyCreate(d)
       PROVE  AskedOnce(c)'
  BY <1>2, <1>11, OnceKept DEF Check, Make, ReplyCreate
<1>12. ASSUME NEW d \in Container, NEW op \in Op, Call(d, op)
       PROVE  AskedOnce(c)'
  BY <1>12, OnceKept DEF Call
<1>13. ASSUME NEW n \in Name, Exit(n)
       PROVE  AskedOnce(c)'
  BY <1>13, OnceKept DEF Exit
<1> QED
  BY <1>3, <1>4, <1>5, <1>6, <1>7, <1>8, <1>9, <1>10, <1>11, <1>12, <1>13,
     SendIsAsk DEF Step, Next, Dispatcher, CreateTask

(* Requests on their way, as far as they end in the channel or the table. *)
LEMMA RequestsTracked ==
  ASSUME IInv, Newer, NEW d \in Container, Tracked(d), AskedOnce(d),
         \/ \E i \in Image : RegisterImage(i) \/ SendPull(i) \/ FinishPull(i) \/ ReceivePull(i)
         \/ \E c \in Container : \/ SendCreate(c) \/ AskOf(c)
                                 \/ ReceiveCreate(c) \/ ReplyCreate(c)
  PROVE  Tracked(d)'
<1> USE DEF IInv
<1>1. UNCHANGED << status, calls, reports, daemon, disturbed, registered >>
  BY DEF RegisterImage, SendPull, FinishPull, ReceivePull, SendCreate, AskOf,
         Ask, ReceiveCreate, ReplyCreate
<1>2. \A s : InConn(StateMsg(d, s))' <=> InConn(StateMsg(d, s))
  <2>1. CASE UNCHANGED conn
    BY <2>1 DEF InConn
  <2>2. ASSUME NEW m \in Message, Send(m), m.type # "Update"
        PROVE  \A s : InConn(StateMsg(d, s))' <=> InConn(StateMsg(d, s))
    BY <2>2, SentAside
  <2>3. ASSUME NEW m, Receive(m), m.type # "Update"
        PROVE  \A s : InConn(StateMsg(d, s))' <=> InConn(StateMsg(d, s))
    BY <2>3, ReceivedAside
  <2>4. CASE \E i \in Image : RegisterImage(i) \/ FinishPull(i)
    BY <2>1, <2>4 DEF RegisterImage, FinishPull
  <2>5. ASSUME NEW i \in Image, SendPull(i) \/ ReceivePull(i)
        PROVE  \A s : InConn(StateMsg(d, s))' <=> InConn(StateMsg(d, s))
    <3>1. [type |-> "Pull", image |-> i] \in Message
          /\ [type |-> "Pull", image |-> i].type # "Update"
      BY MessageTypes
    <3>2. PICK m : m = [type |-> "Pull", image |-> i]
      OBVIOUS
    <3> QED BY <2>2, <2>3, <2>5, <3>1, <3>2 DEF SendPull, ReceivePull
  <2>6. ASSUME NEW c \in Container,
               SendCreate(c) \/ AskOf(c) \/ ReceiveCreate(c) \/ ReplyCreate(c)
        PROVE  \A s : InConn(StateMsg(d, s))' <=> InConn(StateMsg(d, s))
    <3>1. \A m \in {CreateMsg(c), StartMsg(c), StopMsg(c)} : m.type # "Update"
      BY DEF CreateMsg, StartMsg, StopMsg
    <3>3. \A m \in {CreateMsg(c), StartMsg(c), StopMsg(c)} : m \in Message
      BY MessageTypes DEF CreateMsg
    <3>2. \/ UNCHANGED conn
          \/ \E m \in {CreateMsg(c), StartMsg(c), StopMsg(c)} : Send(m) \/ Receive(m)
      BY <2>6 DEF CreateMsg, SendCreate, AskOf, Ask, ReceiveCreate, ReplyCreate
    <3> QED BY <2>1, <2>2, <2>3, <3>1, <3>2, <3>3
  <2> QED BY <2>4, <2>5, <2>6
<1>3. SameTasks(d) /\ SameHost(d)
  BY <1>1, <1>2 DEF SameTasks, SameHost
<1>4. SameStage(d)
  <2>1. CASE UNCHANGED create
    BY <1>1, <2>1 DEF SameStage
  <2>2. ASSUME NEW c \in Container, SendCreate(c) \/ ReplyCreate(c)
        PROVE  SameStage(d)
    BY <1>1, <2>2 DEF TypeOK, SameStage, Made, SendCreate, ReplyCreate
  <2>3. ASSUME NEW c \in Container, ReceiveCreate(c)
        PROVE  SameStage(d)
    <3>1. Receive(CreateMsg(c)) /\ create' = [create EXCEPT ![c] = "check"]
      BY <2>3 DEF ReceiveCreate, CreateMsg
    <3>2. CASE c = d
      <4>1. create[d] = "queued"
        BY <3>1, <3>2, OnceReceived
      <4> QED BY <1>1, <3>1, <3>2, <4>1 DEF TypeOK, SameStage, Made
    <3>3. CASE c # d
      BY <1>1, <3>1, <3>3 DEF TypeOK, SameStage
    <3> QED BY <3>2, <3>3
  <2> QED
    BY <2>1, <2>2, <2>3
       DEF RegisterImage, SendPull, FinishPull, ReceivePull, AskOf, Ask
<1> QED BY <1>3, <1>4, Pending, Aside

(* A container that is not registered has nothing under way. *)
LEMMA Unregistered ==
  ASSUME IInv, NEW c \in Container, c \notin registered
  PROVE  status[c] = "none" /\ \A op \in Op : ~Under(c, op)
<1> USE DEF IInv
<1>1. status[c] = "none"
  BY DEF TasksOK
<1>2. \A s : ~InConn(StateMsg(c, s))
  BY DEF ConnOK, MessageOK, InConn, StateMsg
<1>3. \A op \in Op : calls[c][op] + reports[c][op] = 0 /\ calls[c][op] \in Nat /\ reports[c][op] \in Nat
  BY DEF RunningOK, TypeOK
<1>4. \A op \in Op : ~ (calls[c][op] > 0) /\ ~ (reports[c][op] > 0)
  BY <1>3
<1> QED BY <1>1, <1>2, <1>4 DEF Under, Coming

LEMMA UnderInFlight ==
  ASSUME TypeOK, NEW c \in Container, NEW op \in Op, Under(c, op)
  PROVE  InFlight(NameOf[c], op)
<1>1. calls[c][op] \in Nat /\ reports[c][op] \in Nat
  BY DEF TypeOK
<1>2. calls[c][op] + reports[c][op] > 0 \/ InConn(StateMsg(c, Reported(op)))
  BY <1>1 DEF Under, Coming
<1> QED BY <1>2 DEF InFlight

AllTracked == \A c \in Container : Tracked(c)

LEMMA DispatchTracked ==
  ASSUME IInv, Newer, AllTracked, NEW c \in Container, NEW op \in Op,
         NEW m \in {StartMsg(c), StopMsg(c)}, Dispatch(c, op, m), NEW d \in Container
  PROVE  Tracked(d)'
<1> USE DEF IInv
<1>1. Tracked(d) /\ Tracked(c)
  BY DEF AllTracked
<1>2. m.type # "Update" /\ Receive(m)
  BY DEF StartMsg, StopMsg, Dispatch
<1>3. \A s : InConn(StateMsg(d, s))' <=> InConn(StateMsg(d, s))
  BY <1>2, ReceivedAside
<1>4. UNCHANGED << status, registered, create, reports, daemon >>
  BY DEF Dispatch, Spawn
<1>5. SameStage(d)
  BY <1>4 DEF SameStage
<1>6. CASE UNCHANGED << calls, disturbed >>
  <2>1. SameTasks(d) /\ SameHost(d)
    BY <1>3, <1>4, <1>6 DEF SameTasks, SameHost
  <2> QED BY <1>1, <1>5, <2>1, Pending, Aside
<1>7. CASE Accepts(c, op) /\ Spawn(c, op)
  <2>1. c \in registered /\ status[c] # "none"
    BY <1>7 DEF TasksOK, Accepts
  <2>2. create[c] \in Made /\ create[c] # "update"
    BY <1>1, <2>1 DEF Tracked, Listed, NewEntry
  <2>3. \A x \in Container, o \in Op :
          calls'[x][o] = IF x = c /\ o = op THEN calls[x][o] + 1 ELSE calls[x][o]
    <3>1. calls \in [Container -> [Op -> Nat]] /\ calls' = Bump(calls, c, op)
      BY <1>7 DEF TypeOK, Spawn
    <3> QED BY <3>1, TaskCounts
  <2>4. disturbed' = IF InFlight(NameOf[c], Opposite(op))
                     THEN disturbed \cup {NameOf[c]} ELSE disturbed
    BY <1>7 DEF Spawn
  <2>5. CASE d # c
    <3>1. SameTasks(d)
      BY <1>3, <1>4, <2>3, <2>5 DEF SameTasks
    <3>2. Sole(d)' => NameOf[d] # NameOf[c]
      BY <1>4, <2>2, <2>5, OtherName DEF Made
    <3>3. Sole(d)' => SameHost(d)
      BY <1>4, <2>4, <3>2 DEF SameHost
    <3> QED BY <1>1, <1>5, <3>1, <3>3, Pending, Aside
  <2>6. CASE d = c
    <3>1. \A o \in Op : Coming(c, o)' <=> Coming(c, o)
      BY <1>3, <1>4, <2>6 DEF Coming
    <3>2. \A o \in Op : o # op => (Under(c, o)' <=> Under(c, o))
      BY <2>3, <3>1 DEF Under
    <3>3. (On(c)' <=> On(c)) /\ (Agree(c)' <=> Agree(c))
      BY <1>4 DEF On, Agree
    <3>4. Settles(c)'
      <4> SUFFICES ASSUME Sole(c)', NameOf[c] \notin disturbed'
                   PROVE  /\ ~ (Under(c, "start")' /\ Under(c, "stop")')
                          /\ \A o \in Op : Coming(c, o)' => (On(c)' <=> o = "start")
                          /\ (\A o \in Op : ~Coming(c, o)') => Agree(c)'
        BY DEF Settles
      <4>1. Sole(c) /\ NameOf[c] \notin disturbed /\ ~InFlight(NameOf[c], Opposite(op))
        BY <2>4, SoleStays
      <4>2. ~Under(c, Opposite(op))
        BY <4>1, UnderInFlight, OpFacts
      <4>3. /\ \A o \in Op : Coming(c, o) => (On(c) <=> o = "start")
            /\ (\A o \in Op : ~Coming(c, o)) => Agree(c)
        BY <1>1, <2>2, <4>1 DEF Tracked, Settles
      <4>4. ~Under(c, Opposite(op))' /\ Opposite(op) \in {"start", "stop"}
        BY <3>2, <4>2, OpFacts
      <4> QED BY <3>1, <3>3, <4>3, <4>4
    <3>5. NewEntry(c)' /\ Listed(c)'
      BY <1>4, <2>2 DEF NewEntry, Listed
    <3> QED BY <2>6, <3>4, <3>5 DEF Tracked
  <2> QED BY <2>5, <2>6
<1> QED BY <1>6, <1>7 DEF Dispatch

LEMMA UpdateTracked ==
  ASSUME IInv, Newer, AllTracked, NEW c \in Container, NEW s \in {"Stopped", "Running"},
         ReceiveUpdate(c, s), NEW d \in Container
  PROVE  Tracked(d)'
<1> USE DEF IInv
<1>1. Tracked(d) /\ Receive(StateMsg(c, s))
  BY DEF AllTracked, ReceiveUpdate
<1>2. /\ UNCHANGED << registered, create, calls, reports, daemon, disturbed >>
      /\ status' = [status EXCEPT ![c] = s]
  BY DEF ReceiveUpdate
<1>3. SameStage(d) /\ SameHost(d)
  BY <1>2 DEF SameStage, SameHost
<1>4. CASE d # c
  <2>1. \A x : StateMsg(d, x) # StateMsg(c, s)
    BY <1>4 DEF StateMsg
  <2>2. \A x : InConn(StateMsg(d, x))' <=> InConn(StateMsg(d, x))
    BY <1>1, <2>1, ReceivedView
  <2>3. SameTasks(d)
    BY <1>2, <1>4, <2>2 DEF SameTasks, TypeOK
  <2> QED BY <1>1, <1>3, <2>3, Pending, Aside
<1>5. CASE d = c
  <2>1. PICK op \in Op : s = Reported(op)
    BY OpFacts
  <2>2. Coming(c, op) /\ Under(c, op)
    BY <1>1, <2>1, ReceivedView DEF Coming, Under
  <2>3. ASSUME NEW o \in Op
        PROVE  (Coming(c, o)' => Coming(c, o)) /\ (Under(c, o)' => Under(c, o))
    <3>1. InConn(StateMsg(c, Reported(o)))' => InConn(StateMsg(c, Reported(o)))
      BY <1>1, ReceivedView
    <3>2. Coming(c, o)' => Coming(c, o)
      BY <1>2, <3>1 DEF Coming
    <3> QED BY <1>2, <3>2 DEF Under
  <2>4. status'[c] = s /\ (On(c)' <=> On(c))
    BY <1>2 DEF TypeOK, On
  <2>5. NewEntry(c)' /\ Listed(c)'
    BY <1>1, <1>2, <1>5, <2>2 DEF Tracked, NewEntry, Listed
  <2>6. Settles(c)'
    <3> SUFFICES ASSUME Sole(c)', create[c] \in Made, NameOf[c] \notin disturbed
                 PROVE  /\ ~ (Under(c, "start")' /\ Under(c, "stop")')
                        /\ \A o \in Op : Coming(c, o)' => (On(c)' <=> o = "start")
                        /\ Agree(c)'
      BY <1>2 DEF Settles
    <3>1. /\ ~ (Under(c, "start") /\ Under(c, "stop"))
          /\ \A o \in Op : Coming(c, o) => (On(c) <=> o = "start")
      BY <1>1, <1>5, SoleStays DEF Tracked, Settles
    <3>2. On(c)' <=> op = "start"
      BY <2>2, <2>4, <3>1
    <3>3. s = "Running" <=> op = "start"
      BY <2>1 DEF Reported
    <3>4. Agree(c)'
      BY <2>4, <3>2, <3>3 DEF Agree, On
    <3> QED BY <2>3, <2>4, <3>1, <3>4, OpFacts
  <2> QED BY <1>5, <2>5, <2>6 DEF Tracked
<1> QED BY <1>4, <1>5

LEMMA CallTracked ==
  ASSUME IInv, Newer, AllTracked, NEW c \in Container, NEW op \in Op, Call(c, op),
         NEW d \in Container
  PROVE  Tracked(d)'
<1> USE DEF IInv
<1>1. Tracked(d) /\ Tracked(c)
  BY DEF AllTracked
<1>2. UNCHANGED << conn, status, registered, create >> /\ calls[c][op] > 0
  BY DEF Call
<1>3. c \in registered
  BY <1>2 DEF RunningOK, TypeOK
<1>4. create[c] \in Made /\ create[c] # "update"
  BY <1>1, <1>2, <1>3 DEF Tracked, Listed, NewEntry, Under
<1>5. \A x \in Container, o \in Op :
        calls'[x][o] = IF x = c /\ o = op THEN calls[x][o] - 1 ELSE calls[x][o]
  <2>1. calls \in [Container -> [Op -> Nat]] /\ calls' = Drop(calls, c, op)
    BY DEF TypeOK, Call, Succeed, Fail
  <2> QED BY <1>2, <2>1, TaskCounts
<1>6. \A x \in Container, o \in Op :
        reports'[x][o] = IF x = c /\ o = op /\ Succeed(c, op) THEN reports[x][o] + 1
                         ELSE reports[x][o]
  <2>1. reports \in [Container -> [Op -> Nat]]
    BY DEF TypeOK
  <2>2. CASE Succeed(c, op)
    <3>1. reports' = Bump(reports, c, op)
      BY <2>2 DEF Succeed
    <3> QED BY <2>1, <2>2, <3>1, TaskCounts
  <2>3. CASE ~Succeed(c, op)
    BY <2>3 DEF Call, Fail
  <2> QED BY <2>2, <2>3
<1>7. /\ \/ daemon' = daemon
         \/ daemon' = [daemon EXCEPT ![NameOf[c]] = Effect(op)]
      /\ disturbed' \in {disturbed, disturbed \cup {NameOf[c]}, disturbed \ {NameOf[c]}}
  BY DEF Call, Succeed, Fail, Disturb
<1>8. SameStage(d)
  BY <1>2 DEF SameStage
<1>9. CASE d # c
  <2>1. SameTasks(d)
    BY <1>2, <1>5, <1>6, <1>9 DEF SameTasks, InConn, StateMsg
  <2>2. Sole(d)' => NameOf[d] # NameOf[c]
    BY <1>2, <1>4, <1>9, OtherName DEF Made
  <2>3. ASSUME Sole(d)' PROVE SameHost(d)
    <3>1. NameOf[d] \in Name /\ NameOf[c] \in Name /\ NameOf[d] # NameOf[c]
      BY <2>2, <2>3, DockerAssumption
    <3>2. daemon'[NameOf[d]] = daemon[NameOf[d]]
      BY <1>7, <3>1 DEF TypeOK
    <3>3. NameOf[d] \in disturbed' <=> NameOf[d] \in disturbed
      BY <1>7, <3>1
    <3> QED BY <3>2, <3>3 DEF SameHost
  <2> QED BY <1>1, <1>8, <2>1, <2>3, Pending, Aside
<1>10. CASE d = c
  <2>1. NewEntry(c)' /\ Listed(c)'
    BY <1>2, <1>4 DEF NewEntry, Listed
  <2>2. \A o \in Op : InConn(StateMsg(c, Reported(o)))' <=> InConn(StateMsg(c, Reported(o)))
    BY <1>2 DEF InConn
  <2>3. \A o \in Op : calls[c][o] \in Nat /\ reports[c][o] \in Nat
    BY DEF TypeOK
  <2>4. ASSUME NEW o \in Op
        PROVE  (Under(c, o)' => Under(c, o)) /\ (o # op => (Coming(c, o)' => Coming(c, o)))
    <3>1. CASE o = op
      BY <1>2, <3>1 DEF Under
    <3>2. CASE o # op
      <4>1. Coming(c, o)' <=> Coming(c, o)
        BY <1>6, <2>2, <3>2 DEF Coming
      <4> QED BY <1>5, <3>2, <4>1 DEF Under
    <3> QED BY <3>1, <3>2
  <2>5. Under(c, op)
    BY <1>2 DEF Under
  <2>6. Settles(c)'
    <3> SUFFICES ASSUME Sole(c)', NameOf[c] \notin disturbed'
                 PROVE  /\ ~ (Under(c, "start")' /\ Under(c, "stop")')
                        /\ \A o \in Op : Coming(c, o)' => (On(c)' <=> o = "start")
                        /\ (\A o \in Op : ~Coming(c, o)') => Agree(c)'
      BY DEF Settles
    <3>1. Sole(c)
      BY SoleStays
    <3>2. NameOf[c] \notin disturbed =>
            /\ ~ (Under(c, "start") /\ Under(c, "stop"))
            /\ \A o \in Op : Coming(c, o) => (On(c) <=> o = "start")
            /\ (\A o \in Op : ~Coming(c, o)) => Agree(c)
      BY <1>1, <1>4, <3>1 DEF Tracked, Settles
    <3>3. CASE Succeed(c, op)
      <4>1. ~Under(c, Opposite(op))
        <5>1. CASE InFlight(NameOf[c], Opposite(op))
          <6>1. NameOf[c] \notin disturbed
            BY <3>3, <5>1 DEF Succeed
          <6> QED BY <2>5, <3>2, <6>1 DEF Opposite, Op
        <5>2. CASE ~InFlight(NameOf[c], Opposite(op))
          BY <5>2, UnderInFlight, OpFacts
        <5> QED BY <5>1, <5>2
      <4>2. Coming(c, op)'
        BY <1>6, <2>3, <3>3 DEF Coming
      <4>3. On(c)' <=> op = "start"
        <5>1. NameOf[c] \in Name /\ daemon' = [daemon EXCEPT ![NameOf[c]] = Effect(op)]
          BY <3>3, DockerAssumption DEF Succeed
        <5> QED BY <5>1 DEF On, Effect, TypeOK
      <4>4. \A o \in Op : o = op \/ o = Opposite(op)
        BY DEF Op, Opposite
      <4>5. ~Under(c, Opposite(op))' /\ ~Coming(c, Opposite(op))'
        BY <2>4, <4>1, OpFacts DEF Under
      <4> QED BY <4>2, <4>3, <4>4, <4>5, OpFacts
    <3>4. CASE ~Succeed(c, op)
      <4>1. UNCHANGED << daemon, disturbed >>
        BY <3>4 DEF Call, Fail, Disturb
      <4>2. \A o \in Op : Coming(c, o)' <=> Coming(c, o)
        BY <1>6, <2>2, <3>4 DEF Coming
      <4>3. (On(c)' <=> On(c)) /\ (Agree(c)' <=> Agree(c))
        BY <1>2, <4>1 DEF On, Agree
      <4> QED BY <2>4, <3>2, <4>1, <4>2, <4>3, OpFacts
    <3> QED BY <3>3, <3>4
  <2> QED BY <1>10, <2>1, <2>6 DEF Tracked
<1> QED BY <1>9, <1>10

(* A task that reports passes on what is on its way. *)
LEMMA ReportTracked ==
  ASSUME IInv, Newer, AllTracked, NEW c \in Container, NEW op \in Op, Report(c, op),
         NEW d \in Container
  PROVE  Tracked(d)'
<1> USE DEF IInv
<1>1. Tracked(d)
  BY DEF AllTracked
<1>2. UNCHANGED << status, registered, create, calls, daemon, disturbed >> /\ reports[c][op] > 0
  BY DEF Report
<1>3. \A x \in Container, o \in Op :
        reports'[x][o] = IF x = c /\ o = op THEN reports[x][o] - 1 ELSE reports[x][o]
  <2>1. reports \in [Container -> [Op -> Nat]] /\ reports' = Drop(reports, c, op)
    BY DEF TypeOK, Report
  <2> QED BY <1>2, <2>1, TaskCounts
<1>4. \A x : InConn(x)' <=> (InConn(x) \/ x = StateMsg(c, Reported(op)))
  <2>1. StateMsg(c, Reported(op)) \in Message /\ Send(StateMsg(c, Reported(op)))
    BY MessageTypes, OpFacts DEF Report
  <2> QED BY <2>1, SentView
<1>5. ASSUME NEW o \in Op
      PROVE  (Coming(d, o)' <=> Coming(d, o)) /\ (Under(d, o)' <=> Under(d, o))
  <2>1. CASE d = c /\ o = op
    BY <1>2, <1>4, <2>1 DEF Coming, Under
  <2>2. CASE d # c \/ o # op
    <3>1. StateMsg(d, Reported(o)) # StateMsg(c, Reported(op))
      BY <2>2 DEF StateMsg, Reported, Op
    <3>2. Coming(d, o)' <=> Coming(d, o)
      BY <1>3, <1>4, <2>2, <3>1 DEF Coming
    <3> QED BY <1>2, <3>2 DEF Under
  <2> QED BY <2>1, <2>2
<1>6. SamePending(d) /\ SameStage(d) /\ SameHost(d)
  BY <1>2, <1>5 DEF SamePending, SameStage, SameHost
<1> QED BY <1>1, <1>6, Aside

(* The entry of a new container: it is not running, or disturbed. *)
LEMMA EnterTracked ==
  ASSUME IInv, Newer, AllTracked, NEW c \in Container, EnterStopped(c), NEW d \in Container
  PROVE  Tracked(d)'
<1> USE DEF IInv
<1>1. Tracked(d) /\ Tracked(c)
  BY DEF AllTracked
<1>2. /\ UNCHANGED << status, registered, calls, reports, daemon, disturbed >>
      /\ create[c] = "update" /\ create' = [create EXCEPT ![c] = "reply"]
  BY DEF EnterStopped
<1>3. \A x : InConn(x)' <=> (InConn(x) \/ x = StateMsg(c, "Stopped"))
  <2>1. StateMsg(c, "Stopped") \in Message /\ Send(StateMsg(c, "Stopped"))
    BY MessageTypes DEF EnterStopped
  <2> QED BY <2>1, SentView
<1>4. SameHost(d)
  BY <1>2 DEF SameHost
<1>5. CASE d # c
  <2>1. \A x : StateMsg(d, x) # StateMsg(c, "Stopped")
    BY <1>5 DEF StateMsg
  <2>2. SameTasks(d)
    BY <1>2, <1>3, <2>1 DEF SameTasks
  <2>3. SameStage(d)
    BY <1>2, <1>5 DEF SameStage, TypeOK
  <2> QED BY <1>1, <1>4, <2>2, <2>3, Pending, Aside
<1>6. CASE d = c
  <2>1. create'[c] = "reply"
    BY <1>2 DEF TypeOK
  <2>2. status[c] = "none" /\ ~Under(c, "start") /\ ~Under(c, "stop")
    BY <1>1, <1>2 DEF Tracked, NewEntry, Op
  <2>3. Coming(c, "stop")' /\ ~Under(c, "start")' /\ ~Coming(c, "start")'
    <3>1. StateMsg(c, "Running") # StateMsg(c, "Stopped")
      BY DEF StateMsg
    <3> QED BY <1>2, <1>3, <2>2, <3>1 DEF Coming, Under, Reported
  <2>4. NewEntry(c)' /\ Listed(c)'
    BY <2>1 DEF NewEntry, Listed, Made
  <2>5. Settles(c)'
    <3> SUFFICES ASSUME Sole(c)', NameOf[c] \notin disturbed PROVE ~On(c)'
      BY <1>2, <2>3, OpFacts DEF Settles
    <3>1. Agree(c)
      BY <1>1, <1>2, <2>2, SoleStays, OpFacts DEF Tracked, Settles, Under, Made
    <3> QED BY <1>2, <2>2, <3>1 DEF Agree, On
  <2> QED BY <1>6, <2>4, <2>5 DEF Tracked
<1> QED BY <1>5, <1>6

(* A container becomes known to connman, found on the host or new there.   *)
LEMMA BornTracked ==
  ASSUME IInv, Newer, AllTracked, NEW c \in Container, create[c] \notin Made,
         create'[c] = "update", registered' = registered \cup {c},
         UNCHANGED << conn, status, calls, reports >>,
         daemon'[NameOf[c]] # "running" \/ NameOf[c] \in disturbed'
  PROVE  Tracked(c)'
<1>1. c \notin registered
  BY DEF AllTracked, Tracked, Listed
<1>2. status[c] = "none" /\ \A op \in Op : ~Under(c, op)
  BY <1>1, Unregistered
<1>3. \A op \in Op : ~Under(c, op)' /\ ~Coming(c, op)'
  BY <1>2 DEF Under, Coming, InConn
<1>4. NameOf[c] \notin disturbed' => ~On(c)' /\ Agree(c)'
  BY <1>2 DEF On, Agree
<1> QED
  BY <1>2, <1>3, <1>4, OpFacts DEF Tracked, Settles, NewEntry, Listed, Made

LEMMA CreationTracked ==
  ASSUME IInv, Newer, AllTracked, NEW c \in Container, Check(c) \/ Make(c), NEW d \in Container
  PROVE  Tracked(d)'
<1> USE DEF IInv
<1>0. NameOf[c] \in Name /\ NameOf[d] \in Name
  BY DockerAssumption
<1>1. Tracked(d)
  BY DEF AllTracked
<1>2. UNCHANGED << conn, status, calls, reports >> /\ create[c] \notin Made
  BY DEF Check, Make, Made
<1>3. /\ create'[c] # "idle" /\ \A x \in Container \ {c} : create'[x] = create[x]
      /\ \/ create'[c] = "update" /\ registered' = registered \cup {c}
         \/ create'[c] \notin Made /\ registered' = registered
  BY DEF Check, Make, TypeOK, Made
<1>4. /\ \/ daemon' = daemon
         \/ daemon' = [daemon EXCEPT ![NameOf[c]] = "stopped"]
      /\ disturbed' \in {disturbed, disturbed \cup {NameOf[c]}}
  BY DEF Check, Make, Disturb
<1>5. SameTasks(d)
  BY <1>2 DEF SameTasks, InConn, StateMsg
<1>6. CASE d # c
  <2>1. SameStage(d)
    BY <1>3, <1>6 DEF SameStage
  <2>2. ASSUME Sole(d)' PROVE SameHost(d)
    <3>1. NameOf[d] # NameOf[c]
      BY <1>3, <1>6, <2>2, OtherName
    <3>2. daemon'[NameOf[d]] = daemon[NameOf[d]]
      BY <1>0, <1>4, <3>1 DEF TypeOK
    <3>3. NameOf[d] \in disturbed' <=> NameOf[d] \in disturbed
      BY <1>4, <3>1
    <3> QED BY <3>2, <3>3 DEF SameHost
  <2> QED BY <1>1, <1>5, <2>1, <2>2, Pending, Aside
<1>7. CASE d = c /\ create'[c] = "update"
  <2>1. registered' = registered \cup {c}
    BY <1>3, <1>7 DEF Made
  <2>2. daemon'[NameOf[c]] # "running" \/ NameOf[c] \in disturbed'
    <3>1. CASE Check(c)
      BY <1>7, <3>1 DEF Check, Disturb, TypeOK
    <3>2. CASE Make(c)
      BY <1>0, <1>7, <3>2 DEF Make, TypeOK
    <3> QED BY <3>1, <3>2
  <2> QED BY <1>2, <1>7, <2>1, <2>2, BornTracked
<1>8. CASE d = c /\ create'[c] # "update"
  <2>1. create'[c] \notin Made /\ registered' = registered
    BY <1>3, <1>8
  <2> QED BY <1>1, <1>2, <1>8, <2>1 DEF Tracked, Settles, NewEntry, Listed, Made
<1> QED BY <1>6, <1>7, <1>8

LEMMA ExitTracked ==
  ASSUME IInv, Newer, AllTracked, NEW n \in Name, Exit(n), NEW d \in Container
  PROVE  Tracked(d)'
<1>1. /\ UNCHANGED << conn, status, registered, create, calls, reports >>
      /\ daemon' = [daemon EXCEPT ![n] = "stopped"] /\ disturbed' = disturbed \cup {n}
  BY DEF Exit, Disturb
<1>2. SameTasks(d) /\ SameStage(d)
  BY <1>1 DEF SameTasks, SameStage, InConn, StateMsg
<1>3. NameOf[d] \notin disturbed' => SameHost(d)
  BY <1>1, DockerAssumption DEF SameHost, IInv, TypeOK
<1> QED BY <1>2, <1>3, Pending, Aside DEF AllTracked

LEMMA TrackedStep ==
  ASSUME IInv, AllTracked, \A c \in Container : AskedOnce(c), Step
  PROVE  AllTracked'
<1> SUFFICES ASSUME NEW d \in Container PROVE Tracked(d)'
  BY DEF AllTracked
<1>1. Newer /\ Tracked(d) /\ AskedOnce(d)
  BY CreateNewer DEF AllTracked
<1>2. ASSUME NEW c \in Container, ReceiveStart(c) \/ ReceiveStop(c)
      PROVE  Tracked(d)'
  BY <1>1, <1>2, DispatchTracked DEF ReceiveStart, ReceiveStop, Op
<1>3. ASSUME NEW c \in Container,
             SendCreate(c) \/ AskOf(c) \/ ReceiveCreate(c) \/ ReplyCreate(c)
      PROVE  Tracked(d)'
  BY <1>1, <1>3, RequestsTracked
<1>4. ASSUME NEW i \in Image,
             RegisterImage(i) \/ SendPull(i) \/ FinishPull(i) \/ ReceivePull(i)
      PROVE  Tracked(d)'
  BY <1>1, <1>4, RequestsTracked
<1> QED
  BY <1>1, <1>2, <1>3, <1>4, UpdateTracked, CallTracked, ReportTracked, EnterTracked,
     CreationTracked, ExitTracked, SendIsAsk DEF Step, Next, Dispatcher, CreateTask

TableInv == IInv /\ AllTracked /\ \A c \in Container : AskedOnce(c)

LEMMA TableStep == TableInv /\ [Step]_vars => TableInv'
<1> SUFFICES ASSUME TableInv, [Step]_vars
             PROVE  AllTracked' /\ \A c \in Container : AskedOnce(c)'
  BY StepInv DEF TableInv
<1> USE DEF TableInv
<1>1. CASE Step
  BY <1>1, TrackedStep, OnceStep
<1>2. CASE UNCHANGED vars
  <2>1. \A c \in Container : AskedOnce(c)'
    BY <1>2 DEF vars, AskedOnce, CreateMsg
  <2>2. ASSUME NEW c \in Container PROVE Tracked(c)'
    <3>1. Newer /\ SameTasks(c) /\ SameStage(c) /\ SameHost(c)
      BY <1>2 DEF vars, Newer, SameTasks, SameStage, SameHost, InConn, StateMsg
    <3> QED BY <3>1, Pending, Aside DEF AllTracked
  <2> QED BY <2>1, <2>2 DEF AllTracked
<1> QED BY <1>1, <1>2

LEMMA TableTrue == TableInv => TableTracksDaemon
<1> SUFFICES ASSUME IInv, AllTracked, NEW c \in Container,
                    Quiet(c), Sole(c), NameOf[c] \notin disturbed
             PROVE  Agree(c)
  BY DEF TableInv, TableTracksDaemon
<1>1. \A op \in Op : ~Under(c, op)
  BY UnderInFlight DEF Quiet, IInv
<1>2. Settles(c) /\ create[c] \in Made
  BY DEF AllTracked, Tracked, Quiet, Made
<1> QED BY <1>1, <1>2 DEF Settles, Under

(* With nothing on its way, the status table tells the truth about every   *)
(* container that is alone in its name, whatever starts, stops, faults and *)
(* messages came before and however small the channel is, unless something *)
(* disturbed it that no report can tell: a container found running, an     *)
(* exit, a lost answer, a start and a stop at once.                        *)
THEOREM TableTracksDaemonHolds == Spec => []TableTracksDaemon
<1>1. Init => TableInv
  BY InitInv DEF Init, TableInv, AllTracked, Tracked, Settles, NewEntry, Listed, AskedOnce, Made
<1> QED BY <1>1, TableStep, TableTrue, NextIsStep, PTL DEF Spec

-----------------------------------------------------------------------------
(* DockerMan implements ContainerHost: how often a message is in the       *)
(* channel, and what sending and receiving do to that.                     *)

Places(s, m) == {k \in DOMAIN s : s[k] = m}
Count(s, m)  == Cardinality(Places(s, m))

LEMMA PlacesFinite ==
  ASSUME NEW s, NEW n \in Nat, DOMAIN s = 1 .. n, NEW m
  PROVE  IsFiniteSet(Places(s, m)) /\ Count(s, m) \in Nat
<1>1. IsFiniteSet(1 .. n)
  BY FS_Interval
<1>2. IsFiniteSet(Places(s, m))
  BY <1>1, FS_Subset DEF Places
<1> QED BY <1>2, FS_CardinalityType DEF Count

LEMMA CountSent ==
  ASSUME TypeOK, NEW m \in Message, Send(m), NEW x
  PROVE  Count(conn', x) = IF x = m THEN Count(conn, x) + 1 ELSE Count(conn, x)
<1>1. /\ Len(conn) \in Nat
      /\ DOMAIN conn = 1 .. Len(conn) /\ DOMAIN conn' = 1 .. Len(conn) + 1
      /\ \A k \in DOMAIN conn : conn'[k] = conn[k]
      /\ conn'[Len(conn) + 1] = m
  BY SendEffect DEF TypeOK
<1>2. CASE x = m
  <2>1. Places(conn', x) = Places(conn, x) \cup {Len(conn) + 1}
    BY <1>1, <1>2 DEF Places
  <2>2. Len(conn) + 1 \notin Places(conn, x)
    BY <1>1 DEF Places
  <2>3. IsFiniteSet(Places(conn, x))
    BY <1>1, PlacesFinite
  <2> QED BY <1>2, <2>1, <2>2, <2>3, FS_AddElement DEF Count
<1>3. CASE x # m
  <2>1. Places(conn', x) = Places(conn, x)
    BY <1>1, <1>3 DEF Places
  <2> QED BY <1>3, <2>1 DEF Count
<1> QED BY <1>2, <1>3

(* Every place but the first moves up by one. *)
LEMMA CountReceived ==
  ASSUME TypeOK, NEW m, Receive(m), NEW x
  PROVE  /\ Count(conn', x) = IF x = m THEN Count(conn, x) - 1 ELSE Count(conn, x)
         /\ x = m => Count(conn, x) > 0
<1>1. /\ DOMAIN conn = 1 .. Len(conn) /\ DOMAIN conn' = 1 .. Len(conn) - 1
      /\ Len(conn) \in Nat \ {0}
      /\ \A k \in DOMAIN conn' : conn'[k] = conn[k + 1]
      /\ conn[1] = m
  BY ReceiveEffect
<1> DEFINE old == Places(conn, x)
           new == Places(conn', x)
           up  == [k \in new |-> k + 1]
<1>2. IsFiniteSet(old) /\ Cardinality(old) \in Nat
  BY <1>1, PlacesFinite DEF Count
<1>3. IsFiniteSet(new)
  <2>1. Len(conn) - 1 \in Nat
    BY <1>1
  <2> QED BY <1>1, <2>1, PlacesFinite
<1>4. up \in [new -> old \ {1}]
  BY <1>1 DEF Places
<1>5. \A j, k \in new : up[j] = up[k] => j = k
  BY <1>1 DEF Places
<1>6. \A j \in old \ {1} : \E k \in new : up[k] = j
  <2> SUFFICES ASSUME NEW j \in old \ {1} PROVE \E k \in new : up[k] = j
    OBVIOUS
  <2>1. j - 1 \in DOMAIN conn' /\ (j - 1) + 1 = j
    BY <1>1 DEF Places
  <2>2. j - 1 \in new
    BY <2>1, <1>1 DEF Places
  <2> QED BY <2>1, <2>2
<1>7. ExistsBijection(new, old \ {1})
  <2> HIDE DEF up, new, old
  <2> QED BY <1>4, <1>5, <1>6
       DEF ExistsBijection, Bijection, Injection, Surjection, IsInjective
<1>8. Cardinality(new) = Cardinality(old \ {1})
  BY <1>3, <1>7, FS_Bijection
<1>9. 1 \in old <=> x = m
  BY <1>1 DEF Places
<1>10. Cardinality(old \ {1}) = IF x = m THEN Cardinality(old) - 1 ELSE Cardinality(old)
  BY <1>2, <1>9, FS_RemoveElement
<1>11. x = m => Cardinality(old) > 0
  <2>1. Cardinality(old) = 0 <=> old = {}
    BY <1>2, FS_EmptySet
  <2> HIDE DEF old
  <2> QED BY <1>2, <1>9, <2>1
<1> QED BY <1>8, <1>10, <1>11 DEF Count

-----------------------------------------------------------------------------
(* The requests outstanding, as ContainerHost counts them.                 *)

RequestMsg(c, op) == IF op = "start" THEN StartMsg(c) ELSE StopMsg(c)

Outstanding == [c \in Container |-> [op \in Op |-> Asked(c, op)]]

LEMMA RequestMsgs ==
  ASSUME NEW c \in Container, NEW op \in Op
  PROVE  /\ RequestMsg(c, op) \in Message
         /\ RequestMsg(c, op).type \in {"Start", "Stop"}
         /\ \A d \in Container, o \in Op :
              RequestMsg(c, op) = RequestMsg(d, o) => c = d /\ op = o
BY MessageTypes DEF RequestMsg, StartMsg, StopMsg, Op

LEMMA AskedCount ==
  ASSUME TypeOK, NEW c \in Container, NEW op \in Op
  PROVE  /\ Asked(c, op) = calls[c][op] + Count(conn, RequestMsg(c, op))
         /\ calls[c][op] \in Nat /\ Count(conn, RequestMsg(c, op)) \in Nat
         /\ Asked(c, op) \in Nat
<1>1. Asked(c, op) = calls[c][op] + Count(conn, RequestMsg(c, op))
  BY DEF Asked, Count, Places, RequestMsg
<1>2. calls[c] \in [Op -> Nat]
  BY DEF TypeOK
<1>3. calls[c][op] \in Nat
  BY <1>2
<1>4. Len(conn) \in Nat /\ DOMAIN conn = 1 .. Len(conn)
  BY DEF TypeOK
<1>5. Count(conn, RequestMsg(c, op)) \in Nat
  BY <1>4, PlacesFinite
<1> QED BY <1>1, <1>3, <1>5

(* One count of one container moves, the others do not. *)
LEMMA OutstandingChanges ==
  ASSUME NEW c \in Container, NEW op \in Op, NEW v,
         Asked(c, op)' = v,
         \A d \in Container, o \in Op :
           ~ (d = c /\ o = op) => Asked(d, o)' = Asked(d, o)
  PROVE  Outstanding' = [Outstanding EXCEPT ![c][op] = v]
<1> DEFINE row == [[o \in Op |-> Asked(c, o)] EXCEPT ![op] = v]
<1>1. [o \in Op |-> Asked(c, o)'] = row
  OBVIOUS
<1>2. [Outstanding EXCEPT ![c][op] = v] = [Outstanding EXCEPT ![c] = row]
  BY DEF Outstanding
<1>3. Outstanding' = [d \in Container |-> [o \in Op |-> Asked(d, o)']]
  BY DEF Outstanding
<1>4. \A d \in Container \ {c} : [o \in Op |-> Asked(d, o)'] = [o \in Op |-> Asked(d, o)]
  OBVIOUS
<1> HIDE DEF row
<1> QED BY <1>1, <1>2, <1>3, <1>4 DEF Outstanding

LEMMA OutstandingKept ==
  ASSUME \A d \in Container, o \in Op : Asked(d, o)' = Asked(d, o)
  PROVE  Outstanding' = Outstanding
BY DEF Outstanding

(* The channel of a step that moves no request. *)
Passing ==
  \/ UNCHANGED conn
  \/ \E m \in Message : m.type \notin {"Start", "Stop"} /\ (Send(m) \/ Receive(m))

LEMMA PassingKeeps ==
  ASSUME TypeOK, Passing, NEW c \in Container, NEW op \in Op
  PROVE  Count(conn', RequestMsg(c, op)) = Count(conn, RequestMsg(c, op))
<1>1. CASE UNCHANGED conn
  BY <1>1
<1>2. ASSUME NEW m \in Message, m.type \notin {"Start", "Stop"}, Send(m) \/ Receive(m)
      PROVE  Count(conn', RequestMsg(c, op)) = Count(conn, RequestMsg(c, op))
  <2>1. RequestMsg(c, op) # m
    BY <1>2, RequestMsgs
  <2> QED BY <1>2, <2>1, CountSent, CountReceived
<1> QED BY <1>1, <1>2 DEF Passing

LEMMA AskedNext ==
  \A c \in Container, op \in Op :
    Asked(c, op)' = calls'[c][op] + Count(conn', RequestMsg(c, op))
BY DEF Asked, Count, Places, RequestMsg

LEMMA NothingMoves ==
  ASSUME TypeOK, Passing, UNCHANGED calls
  PROVE  Outstanding' = Outstanding
<1>1. ASSUME NEW c \in Container, NEW op \in Op PROVE Asked(c, op)' = Asked(c, op)
  BY AskedCount, AskedNext, PassingKeeps
<1> QED BY <1>1, OutstandingKept

-----------------------------------------------------------------------------
(* Every step of DockerMan is a step of ContainerHost or leaves it alone.  *)

(* A request that enters the channel is asked for. *)
LEMMA AskMaps ==
  ASSUME TypeOK, NEW c \in Container, NEW op \in Op, Ask(c, RequestMsg(c, op))
  PROVE  Host!Ask(c, op)
<1>1. Send(RequestMsg(c, op)) /\ UNCHANGED << calls, daemon >>
  BY DEF Ask
<1>2. ASSUME NEW d \in Container, NEW o \in Op
      PROVE  Asked(d, o)' = IF d = c /\ o = op THEN Asked(d, o) + 1 ELSE Asked(d, o)
  <2>1. Count(conn', RequestMsg(d, o)) =
          IF d = c /\ o = op THEN Count(conn, RequestMsg(d, o)) + 1
                             ELSE Count(conn, RequestMsg(d, o))
    BY <1>1, CountSent, RequestMsgs
  <2> QED BY <1>1, <2>1, AskedCount, AskedNext
<1>3. Outstanding[c][op] = Asked(c, op)
  BY DEF Outstanding
<1>4. Outstanding' = [Outstanding EXCEPT ![c][op] = Asked(c, op) + 1]
  BY <1>2, OutstandingChanges
<1>5. Outstanding' = [Outstanding EXCEPT ![c][op] = @ + 1]
  BY <1>3, <1>4
<1> QED BY <1>1, <1>5 DEF Host!Ask, Outstanding, Op, Host!Op

(* A request that leaves the channel becomes a task or is turned down. *)
LEMMA DispatchMaps ==
  ASSUME TypeOK, NEW c \in Container, NEW op \in Op, Dispatch(c, op, RequestMsg(c, op))
  PROVE  Host!TurnDown(c, op) \/ UNCHANGED << Outstanding, daemon >>
<1>1. Receive(RequestMsg(c, op)) /\ UNCHANGED daemon
  BY DEF Dispatch, Spawn
<1>2. /\ \A d \in Container, o \in Op :
           Count(conn', RequestMsg(d, o)) =
             IF d = c /\ o = op THEN Count(conn, RequestMsg(d, o)) - 1
                                ELSE Count(conn, RequestMsg(d, o))
      /\ Count(conn, RequestMsg(c, op)) > 0
  BY <1>1, CountReceived, RequestMsgs
<1>3. CASE calls' = Bump(calls, c, op)
  <2>1. \A d \in Container, o \in Op :
          calls'[d][o] = IF d = c /\ o = op THEN calls[d][o] + 1 ELSE calls[d][o]
    <3>1. calls \in [Container -> [Op -> Nat]]
      BY DEF TypeOK
    <3> QED BY <1>3, <3>1, TaskCounts
  <2>2. ASSUME NEW d \in Container, NEW o \in Op PROVE Asked(d, o)' = Asked(d, o)
    BY <1>2, <2>1, AskedCount, AskedNext
  <2> QED BY <1>1, <2>2, OutstandingKept
<1>4. CASE UNCHANGED calls
  <2>1. ASSUME NEW d \in Container, NEW o \in Op
        PROVE  Asked(d, o)' = IF d = c /\ o = op THEN Asked(d, o) - 1 ELSE Asked(d, o)
    BY <1>2, <1>4, AskedCount, AskedNext
  <2>2. Outstanding[c][op] = Asked(c, op) /\ Asked(c, op) > 0
    BY <1>2, AskedCount DEF Outstanding
  <2>3. Outstanding' = [Outstanding EXCEPT ![c][op] = Asked(c, op) - 1]
    BY <2>1, OutstandingChanges
  <2>4. Outstanding' = [Outstanding EXCEPT ![c][op] = @ - 1]
    BY <2>2, <2>3
  <2> QED BY <1>1, <2>2, <2>4 DEF Host!TurnDown, Outstanding, Op, Host!Op
<1> QED BY <1>3, <1>4 DEF Dispatch, Spawn

(* A call carries its request out, answered or not, or turns it down. *)
LEMMA CallMaps ==
  ASSUME TypeOK, NEW c \in Container, NEW op \in Op, Call(c, op)
  PROVE  Host!TurnDown(c, op) \/ Host!Serve(c, op)
<1>1. calls[c][op] > 0 /\ calls' = Drop(calls, c, op) /\ UNCHANGED conn
  BY DEF Call, Succeed, Fail
<1>2. \A d \in Container, o \in Op :
        calls'[d][o] = IF d = c /\ o = op THEN calls[d][o] - 1 ELSE calls[d][o]
  <2>1. calls \in [Container -> [Op -> Nat]] /\ calls[c][op] > 0
    BY <1>1 DEF TypeOK
  <2>2. \A d \in Container, o \in Op :
          Drop(calls, c, op)[d][o] = IF d = c /\ o = op THEN calls[d][o] - 1 ELSE calls[d][o]
    BY <2>1, TaskCounts
  <2> QED BY <1>1, <2>2
<1>3. ASSUME NEW d \in Container, NEW o \in Op
      PROVE  Asked(d, o)' = IF d = c /\ o = op THEN Asked(d, o) - 1 ELSE Asked(d, o)
  <2>1. Count(conn', RequestMsg(d, o)) = Count(conn, RequestMsg(d, o))
    BY <1>1
  <2> QED BY <1>2, <2>1, AskedCount, AskedNext
<1>4. Outstanding[c][op] = Asked(c, op) /\ Asked(c, op) > 0
  BY <1>1, AskedCount DEF Outstanding
<1>5. Outstanding' = [Outstanding EXCEPT ![c][op] = Asked(c, op) - 1]
  BY <1>3, OutstandingChanges
<1>6. Outstanding' = [Outstanding EXCEPT ![c][op] = @ - 1]
  BY <1>4, <1>5
<1>7. \/ UNCHANGED daemon
      \/ /\ daemon[NameOf[c]] # "absent"
         /\ daemon' = [daemon EXCEPT ![NameOf[c]] = Effect(op)]
  BY DEF Call, Succeed, Fail
<1>8. Effect(op) = Host!Target(op)
  BY DEF Effect, Host!Target
<1> QED BY <1>4, <1>6, <1>7, <1>8 DEF Host!TurnDown, Host!Serve, Outstanding, Op, Host!Op

(* Messages that are not requests pass without notice. *)
LEMMA OtherMessages ==
  ASSUME NEW m \in Message, m.type \notin {"Start", "Stop"}, Send(m) \/ Receive(m)
  PROVE  Passing
BY DEF Passing

Seen == << Outstanding, daemon >>

LEMMA SilentSteps ==
  ASSUME TypeOK,
         \/ \E i \in Image : \/ RegisterImage(i) \/ SendPull(i)
                             \/ FinishPull(i) \/ ReceivePull(i)
         \/ \E c \in Container : \/ SendCreate(c) \/ ReceiveCreate(c) \/ Check(c)
                                 \/ EnterStopped(c) \/ ReplyCreate(c)
         \/ \E c \in Container, s \in {"Stopped", "Running"} : ReceiveUpdate(c, s)
         \/ \E c \in Container, op \in Op : Report(c, op)
  PROVE  UNCHANGED Seen
<1>1. ASSUME Passing, UNCHANGED << calls, daemon >> PROVE UNCHANGED Seen
  BY <1>1, NothingMoves DEF Seen
<1>2. ASSUME NEW i \in Image, RegisterImage(i) \/ FinishPull(i)
      PROVE  UNCHANGED Seen
  BY <1>1, <1>2 DEF RegisterImage, FinishPull, Passing
<1>3. ASSUME NEW i \in Image, SendPull(i) \/ ReceivePull(i)
      PROVE  UNCHANGED Seen
  <2>1. PICK m \in Message : m = [type |-> "Pull", image |-> i]
    BY MessageTypes
  <2>2. m.type \notin {"Start", "Stop"} /\ (Send(m) \/ Receive(m))
    BY <1>3, <2>1 DEF SendPull, ReceivePull
  <2> QED BY <1>1, <1>3, <2>2, OtherMessages DEF SendPull, ReceivePull
<1>4. ASSUME NEW c \in Container, SendCreate(c) \/ ReceiveCreate(c)
      PROVE  UNCHANGED Seen
  <2>1. PICK m \in Message : m = [type |-> "Create", id |-> c]
    BY MessageTypes
  <2>2. m.type \notin {"Start", "Stop"} /\ (Send(m) \/ Receive(m))
    BY <1>4, <2>1 DEF SendCreate, ReceiveCreate
  <2> QED BY <1>1, <1>4, <2>2, OtherMessages DEF SendCreate, ReceiveCreate
<1>5. ASSUME NEW c \in Container, Check(c) \/ ReplyCreate(c)
      PROVE  UNCHANGED Seen
  BY <1>1, <1>5 DEF Check, ReplyCreate, Passing
<1>6. ASSUME NEW c \in Container, NEW s \in {"Stopped", "Running"},
             Send(StateMsg(c, s)) \/ Receive(StateMsg(c, s))
      PROVE  Passing
  <2>1. StateMsg(c, s) \in Message /\ StateMsg(c, s).type \notin {"Start", "Stop"}
    BY MessageTypes DEF StateMsg
  <2> QED BY <1>6, <2>1, OtherMessages
<1>7. ASSUME NEW c \in Container, EnterStopped(c)
      PROVE  UNCHANGED Seen
  BY <1>1, <1>6, <1>7 DEF EnterStopped
<1>8. ASSUME NEW c \in Container, NEW s \in {"Stopped", "Running"}, ReceiveUpdate(c, s)
      PROVE  UNCHANGED Seen
  BY <1>1, <1>6, <1>8 DEF ReceiveUpdate
<1>9. ASSUME NEW c \in Container, NEW op \in Op, Report(c, op)
      PROVE  UNCHANGED Seen
  BY <1>1, <1>6, <1>9, OpFacts DEF Report
<1> QED BY <1>2, <1>3, <1>4, <1>5, <1>7, <1>8, <1>9

(* The daemon's own steps: a container is made, or exits. *)
LEMMA DaemonSteps ==
  ASSUME TypeOK, (\E c \in Container : Make(c)) \/ (\E n \in Name : Exit(n))
  PROVE  \/ \E n \in Name : Host!Create(n) \/ Host!Exit(n)
         \/ UNCHANGED Seen
<1>1. Outstanding' = Outstanding
  BY NothingMoves DEF Make, Exit, Passing
<1>2. ASSUME NEW c \in Container, Make(c)
      PROVE  Host!Create(NameOf[c]) \/ UNCHANGED Seen
  BY <1>1, <1>2 DEF Make, Host!Create, Outstanding, Seen
<1>3. ASSUME NEW n \in Name, Exit(n)
      PROVE  Host!Exit(n)
  BY <1>1, <1>3 DEF Exit, Host!Exit, Outstanding
<1>4. \A c \in Container : NameOf[c] \in Name
  BY DockerAssumption
<1> QED BY <1>2, <1>3, <1>4

LEMMA StepMaps == IInv /\ [Step]_vars => [Host!Next]_(Host!vars)
<1> SUFFICES ASSUME TypeOK, [Step]_vars PROVE Host!Next \/ UNCHANGED Seen
  BY DEF IInv, Seen, Outstanding, Host!vars
<1>1. ASSUME NEW c \in Container, AskOf(c)
      PROVE  \E op \in Op : Host!Ask(c, op)
  BY <1>1, AskMaps DEF AskOf, RequestMsg, Op
<1>2. ASSUME NEW c \in Container, ReceiveStart(c) \/ ReceiveStop(c)
      PROVE  (\E op \in Op : Host!TurnDown(c, op)) \/ UNCHANGED Seen
  <2>1. PICK op \in Op : Dispatch(c, op, RequestMsg(c, op))
    BY <1>2 DEF ReceiveStart, ReceiveStop, RequestMsg, Op
  <2> QED BY <2>1, DispatchMaps DEF Seen
<1>3. CASE UNCHANGED vars
  <2>1. Outstanding' = Outstanding
    BY <1>3, NothingMoves DEF vars, Passing
  <2> QED BY <1>3, <2>1 DEF vars, Seen
<1>4. CASE Step
  <2>1. Host!Op = Op
    BY DEF Op, Host!Op
  <2> QED BY <1>1, <1>2, <1>4, <2>1, CallMaps, SilentSteps, DaemonSteps, SendIsAsk
       DEF Step, Next, Dispatcher, CreateTask, Host!Next
<1> QED BY <1>3, <1>4

LEMMA NothingAsked ==
  ASSUME conn = << >>, calls = [c \in Container |-> [op \in Op |-> 0]],
         NEW c \in Container, NEW op \in Op
  PROVE  Asked(c, op) = 0
<1>1. Places(conn, RequestMsg(c, op)) = {}
  BY DEF Places
<1>2. Count(conn, RequestMsg(c, op)) = 0
  BY <1>1, FS_EmptySet DEF Count
<1>3. calls[c][op] = 0
  OBVIOUS
<1> QED BY <1>2, <1>3 DEF Asked, Count, Places, RequestMsg

(* For any containers, any capacity of the channel and any faults, docker  *)
(* starts or stops a container only because a Start or a Stop of it was    *)
(* sent and not yet carried out or turned down, and no request is carried  *)
(* out twice.                                                              *)
THEOREM HostRefinement == Spec => ImplementsHost
<1>1. Init => Host!Init
  <2> SUFFICES ASSUME Init PROVE Host!Init
    OBVIOUS
  <2>1. daemon \in [Name -> {"absent", "stopped", "running"}]
    BY DockerAssumption DEF Init
  <2>2. conn = << >> /\ calls = [c \in Container |-> [op \in Op |-> 0]]
    BY DEF Init
  <2> QED BY <2>1, <2>2, NothingAsked DEF Host!Init, Op, Host!Op
<1>2. IInv /\ [Step]_vars => [Host!Next]_(Host!vars)
  BY StepMaps
<1> QED BY <1>1, <1>2, NextIsStep, Invariance, PTL DEF Spec, ImplementsHost, Host!Spec
=============================================================================
