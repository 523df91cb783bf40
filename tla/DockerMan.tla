----------------------------- MODULE DockerMan ------------------------------
(***************************************************************************)
(* DockerMan of docker.rs: one dispatcher per docker backend that receives *)
(* messages from a bounded channel and spawns a task for every docker call *)
(* it decides on.  The tasks report back through the same channel, so the  *)
(* status table the dispatcher decides from lags behind the daemon.        *)
(*                                                                         *)
(* The docker daemon is external: it outlives connman, its containers may  *)
(* exit by themselves, and a call may fail with or without its effect.     *)
(* Spawned tasks are anonymous; the model counts them by what they do.     *)
(***************************************************************************)
EXTENDS Naturals, Sequences, FiniteSets

CONSTANTS
  Container,     \* ContainerIds: one per ContainerOption, hence per docker port
  Name,          \* container names on the docker host
  NameOf,        \* container_name of each ContainerId
  Within,        \* for each name the other names that contain it
  Image,         \* ImageIds
  ImageOf,       \* image_id of each ContainerId
  Leftover,      \* what a previous run of connman may leave on the daemon
  Faults,        \* kinds of fault considered, see AllFaults
  Cap,           \* capacity of the channel, 10 in the code
  MaxLoad        \* bound: Start and Stop requests of a container in flight

AllFaults == {"error",    \* a call fails and has no effect
              "lost",     \* a call takes effect, its answer is lost (timeout)
              "exit"}     \* a container exits by itself

ASSUME DockerAssumption ==
  /\ NameOf \in [Container -> Name] /\ Within \in [Name -> SUBSET Name]
  /\ ImageOf \in [Container -> Image]
  /\ Leftover \subseteq {"absent", "stopped", "running"}
  /\ Faults \subseteq AllFaults
  /\ Cap \in Nat \ {0} /\ MaxLoad \in Nat

VARIABLES
  conn,          \* the channel: messages sent and not yet received
  status,        \* the status table, "none" where it has no entry
  registered,    \* container_registry
  images,        \* image_registry
  create,        \* progress of each container's Create request
  pull,          \* progress of each image's Pull request
  calls,         \* tasks about to call the daemon, per container and call
  reports,       \* tasks about to send UpdateStatus, per container and call
  daemon,        \* the docker host: state of each container name
  disturbed      \* history: names whose status the table may have wrong

vars == << conn, status, registered, images, create, pull, calls, reports,
           daemon, disturbed >>

Op        == {"start", "stop"}
Status    == {"none", "Stopped", "Running"}
Progress  == {"idle", "queued", "check", "make", "update", "reply",
              "ok", "failed", "no_image"}
Answer    == {"ok", "failed", "no_image"}
Request   == [type : {"Create", "Start", "Stop"}, id : Container]
Update    == [type : {"Update"}, id : Container, state : {"Stopped", "Running"}]
PullImage == [type : {"Pull"}, image : Image]
Message   == Request \cup Update \cup PullImage

\* What an operation leaves the daemon and, once reported, the table with.
Effect(op)   == IF op = "start" THEN "running" ELSE "stopped"
Reported(op) == IF op = "start" THEN "Running" ELSE "Stopped"
Opposite(op) == IF op = "start" THEN "stop" ELSE "start"

Init ==
  /\ conn = << >>
  /\ status = [c \in Container |-> "none"]
  /\ registered = {}
  /\ images = {}
  /\ create = [c \in Container |-> "idle"]
  /\ pull = [i \in Image |-> "idle"]
  /\ calls = [c \in Container |-> [op \in Op |-> 0]]
  /\ reports = [c \in Container |-> [op \in Op |-> 0]]
  /\ daemon \in [Name -> Leftover]
  /\ disturbed = {}

-----------------------------------------------------------------------------
(* A sender waits for room in the channel; the dispatcher takes the head.  *)
BugSend(m) == conn' = Append(conn, m)     \* mutant: the channel is unbounded
Send(m)    == /\ Len(conn) < Cap
              /\ conn' = Append(conn, m)
Receive(m) == /\ conn # << >> /\ m = Head(conn)
              /\ conn' = Tail(conn)

Bump(f, c, op) == [f EXCEPT ![c][op] = @ + 1]
Drop(f, c, op) == [f EXCEPT ![c][op] = @ - 1]

InConn(m) == \E k \in DOMAIN conn : conn[k] = m

StartMsg(c) == [type |-> "Start", id |-> c]
StopMsg(c)  == [type |-> "Stop", id |-> c]
StateMsg(c, s) == [type |-> "Update", id |-> c, state |-> s]

(* The operation op on name n is somewhere between its spawn and the       *)
(* moment the table learns of it.                                          *)
InFlight(n, op) ==
  \E c \in Container :
    /\ NameOf[c] = n
    /\ \/ calls[c][op] + reports[c][op] > 0
       \/ InConn(StateMsg(c, Reported(op)))

Disturb(n) == disturbed' = disturbed \cup {n}

Load(c) == Cardinality({k \in DOMAIN conn : conn[k] \in {StartMsg(c), StopMsg(c)}})
           + calls[c]["start"] + calls[c]["stop"]
           + reports[c]["start"] + reports[c]["stop"]

-----------------------------------------------------------------------------
(* The callers, connman.rs and proxy.rs.                                   *)

\* Mutant: the image is registered only once a backend has pulled it.
BugRegisterImage(i) ==
  /\ pull[i] \in {"idle", "ok", "failed"}
  /\ images' = IF pull[i] = "ok" THEN images \cup {i} ELSE images
  /\ pull' = [pull EXCEPT ![i] = "send"]
  /\ UNCHANGED << conn, status, registered, create, calls, reports, daemon, disturbed >>

(* Msg::RegisterImage: registers the image, then sends Pull and waits.     *)
(* Bound: one Pull of an image at a time.                                  *)
RegisterImage(i) ==
  /\ pull[i] \in {"idle", "ok", "failed"}
  /\ images' = images \cup {i}
  /\ pull' = [pull EXCEPT ![i] = "send"]
  /\ UNCHANGED << conn, status, registered, create, calls, reports, daemon, disturbed >>

SendPull(i) ==
  /\ pull[i] = "send"
  /\ Send([type |-> "Pull", image |-> i])
  /\ pull' = [pull EXCEPT ![i] = "queued"]
  /\ UNCHANGED << status, registered, images, create, calls, reports, daemon, disturbed >>

(* A proxy handler asks for a container of an image it found registered.   *)
(* Its docker port is fresh, so no ContainerId is asked for twice.         *)
SendCreate(c) ==
  /\ create[c] = "idle"
  /\ ImageOf[c] \in images
  /\ Send([type |-> "Create", id |-> c])
  /\ create' = [create EXCEPT ![c] = "queued"]
  /\ UNCHANGED << status, registered, images, pull, calls, reports, daemon, disturbed >>

(* A connection asks for a start, the idle tracker and cleanup for a stop: *)
(* both hold a ContainerId, so the Create was answered.                    *)
Ask(c, m) ==
  /\ create[c] = "ok"
  /\ Send(m)
  /\ UNCHANGED << status, registered, images, create, pull, calls, reports,
                  daemon, disturbed >>

SendStart(c) == Load(c) < MaxLoad /\ Ask(c, StartMsg(c))
SendStop(c)  == Load(c) < MaxLoad /\ Ask(c, StopMsg(c))

-----------------------------------------------------------------------------
(* The dispatcher, DockerMan::run.                                         *)

ReceiveCreate(c) ==
  /\ Receive([type |-> "Create", id |-> c])
  /\ create' = [create EXCEPT ![c] = "check"]
  /\ UNCHANGED << status, registered, images, pull, calls, reports, daemon, disturbed >>

ReceivePull(i) ==
  /\ Receive([type |-> "Pull", image |-> i])
  /\ pull' = [pull EXCEPT ![i] = IF i \in images THEN "pulling" ELSE "no_image"]
  /\ UNCHANGED << status, registered, images, create, calls, reports, daemon, disturbed >>

(* A Start is acted on only if the table says Stopped, a Stop only if it   *)
(* says Running; an id without an entry is reported as invalid.            *)
Accepts(c, op) == status[c] = IF op = "start" THEN "Stopped" ELSE "Running"

Spawn(c, op) ==
  /\ calls' = Bump(calls, c, op)
  /\ disturbed' = IF InFlight(NameOf[c], Opposite(op))
                  THEN disturbed \cup {NameOf[c]} ELSE disturbed
  /\ UNCHANGED << status, registered, images, create, pull, reports, daemon >>

Dispatch(c, op, m) ==
  /\ Receive(m)
  /\ \/ Accepts(c, op) /\ Spawn(c, op)
     \/ /\ ~Accepts(c, op)
        /\ UNCHANGED << status, registered, images, create, pull, calls,
                        reports, daemon, disturbed >>

ReceiveStart(c) == Dispatch(c, "start", StartMsg(c))
ReceiveStop(c)  == Dispatch(c, "stop", StopMsg(c))

ReceiveUpdate(c, s) ==
  /\ Receive(StateMsg(c, s))
  /\ status' = [status EXCEPT ![c] = s]
  /\ UNCHANGED << registered, images, create, pull, calls, reports, daemon, disturbed >>

-----------------------------------------------------------------------------
(* start_container and stop_container.  Docker answers success when the    *)
(* container already is in the state asked for.                            *)

\* Mutant: the call is made again after it succeeded.
BugSucceed(c, op) ==
  LET n == NameOf[c] IN
  /\ c \in registered
  /\ daemon[n] # "absent"
  /\ UNCHANGED << calls, disturbed >>
  /\ reports' = Bump(reports, c, op)
  /\ daemon' = [daemon EXCEPT ![n] = Effect(op)]

(* A successful call that no opposite one races settles daemon and table.  *)
Succeed(c, op) ==
  LET n == NameOf[c] IN
  /\ c \in registered
  /\ daemon[n] # "absent"
  /\ calls' = Drop(calls, c, op)
  /\ reports' = Bump(reports, c, op)
  /\ daemon' = [daemon EXCEPT ![n] = Effect(op)]
  /\ disturbed' = IF InFlight(n, Opposite(op)) THEN disturbed ELSE disturbed \ {n}

\* Mutant: the new state is reported whether or not the call succeeded.
BugFail(c, op) ==
  /\ calls' = Drop(calls, c, op)
  /\ reports' = Bump(reports, c, op)
  /\ UNCHANGED << daemon, disturbed >>

(* The error is logged and nothing is reported. *)
Fail(c, op) ==
  LET n == NameOf[c] IN
  /\ calls' = Drop(calls, c, op)
  /\ UNCHANGED reports
  /\ \/ /\ "error" \in Faults \/ daemon[n] = "absent"
        /\ UNCHANGED << daemon, disturbed >>
     \/ /\ "lost" \in Faults /\ daemon[n] # "absent"
        /\ daemon' = [daemon EXCEPT ![n] = Effect(op)]
        /\ Disturb(n)

Call(c, op) ==
  /\ calls[c][op] > 0
  /\ Succeed(c, op) \/ Fail(c, op)
  /\ UNCHANGED << conn, status, registered, images, create, pull >>

Report(c, op) ==
  /\ reports[c][op] > 0
  /\ Send(StateMsg(c, Reported(op)))
  /\ reports' = Drop(reports, c, op)
  /\ UNCHANGED << status, registered, images, create, pull, calls, daemon, disturbed >>

-----------------------------------------------------------------------------
(* check_and_create_container: a task per Create.                          *)

(* check_container lists all containers and looks for one whose name       *)
(* contains the name asked for; an error of the listing fails the Create.  *)
Exists(n) == \E m \in Within[n] \cup {n} : daemon[m] # "absent"

Check(c) ==
  LET n == NameOf[c] IN
  /\ create[c] = "check"
  /\ \/ /\ ImageOf[c] \in images /\ Exists(n)
        /\ registered' = registered \cup {c}
        /\ create' = [create EXCEPT ![c] = "update"]
        /\ IF daemon[n] = "running" THEN Disturb(n) ELSE UNCHANGED disturbed
     \/ /\ ImageOf[c] \in images => ~Exists(n)
        /\ create' = [create EXCEPT ![c] = IF ImageOf[c] \in images
                                           THEN "make" ELSE "no_image"]
        /\ UNCHANGED << registered, disturbed >>
     \/ /\ "error" \in Faults /\ ImageOf[c] \in images
        /\ create' = [create EXCEPT ![c] = "failed"]
        /\ UNCHANGED << registered, disturbed >>
  /\ UNCHANGED << conn, status, images, pull, calls, reports, daemon >>

\* Mutant: a failed creation is tried again until it succeeds.
BugMake(c) ==
  LET n == NameOf[c] IN
  /\ create[c] = "make"
  /\ \/ /\ daemon[n] = "absent"
        /\ daemon' = [daemon EXCEPT ![n] = "stopped"]
        /\ registered' = registered \cup {c}
        /\ create' = [create EXCEPT ![c] = "update"]
     \/ /\ "error" \in Faults \/ daemon[n] # "absent"
        /\ create' = [create EXCEPT ![c] = "check"]
        /\ UNCHANGED << daemon, registered >>
  /\ UNCHANGED << conn, status, images, pull, calls, reports, disturbed >>

\* Mutant: an error of the creation is logged and the Create goes on.
BugMakeAnyway(c) ==
  LET n == NameOf[c] IN
  /\ create[c] = "make"
  /\ registered' = registered \cup {c}
  /\ create' = [create EXCEPT ![c] = "update"]
  /\ \/ daemon[n] = "absent" /\ daemon' = [daemon EXCEPT ![n] = "stopped"]
     \/ ("error" \in Faults \/ daemon[n] # "absent") /\ UNCHANGED daemon
  /\ UNCHANGED << conn, status, images, pull, calls, reports, disturbed >>

(* create_container: pulls the image, creates the container and registers  *)
(* it.  Docker refuses a name that is taken.  The pull need not end.       *)
Make(c) ==
  LET n == NameOf[c] IN
  /\ create[c] = "make"
  /\ \/ /\ daemon[n] = "absent"
        /\ daemon' = [daemon EXCEPT ![n] = "stopped"]
        /\ registered' = registered \cup {c}
        /\ create' = [create EXCEPT ![c] = "update"]
     \/ /\ "error" \in Faults \/ daemon[n] # "absent"
        /\ create' = [create EXCEPT ![c] = "failed"]
        /\ UNCHANGED << daemon, registered >>
     \/ /\ "lost" \in Faults /\ daemon[n] = "absent"
        /\ daemon' = [daemon EXCEPT ![n] = "stopped"]
        /\ create' = [create EXCEPT ![c] = "failed"]
        /\ UNCHANGED registered
  /\ UNCHANGED << conn, status, images, pull, calls, reports, disturbed >>

\* Mutant: the caller is answered before the table has the entry.
BugEnterStopped(c) ==
  /\ create[c] = "update"
  /\ create' = [create EXCEPT ![c] = "reply"]
  /\ UNCHANGED << conn, status, registered, images, pull, calls, reports, daemon, disturbed >>

(* The table learns of the container before the caller does. *)
EnterStopped(c) ==
  /\ create[c] = "update"
  /\ Send(StateMsg(c, "Stopped"))
  /\ create' = [create EXCEPT ![c] = "reply"]
  /\ UNCHANGED << status, registered, images, pull, calls, reports, daemon, disturbed >>

ReplyCreate(c) ==
  /\ create[c] = "reply"
  /\ create' = [create EXCEPT ![c] = "ok"]
  /\ UNCHANGED << conn, status, registered, images, pull, calls, reports, daemon, disturbed >>

(* check_and_pull_image for a Pull; nothing of connman changes on the way. *)
(* The stream of a pull has no time limit: it need not end.                *)
FinishPull(i) ==
  /\ pull[i] = "pulling"
  /\ \/ pull' = [pull EXCEPT ![i] = "ok"]
     \/ "error" \in Faults /\ pull' = [pull EXCEPT ![i] = "failed"]
  /\ UNCHANGED << conn, status, registered, images, create, calls, reports,
                  daemon, disturbed >>

-----------------------------------------------------------------------------
(* A running container terminates by itself; connman is not told. *)
Exit(n) ==
  /\ "exit" \in Faults
  /\ daemon[n] = "running"
  /\ daemon' = [daemon EXCEPT ![n] = "stopped"]
  /\ Disturb(n)
  /\ UNCHANGED << conn, status, registered, images, create, pull, calls, reports >>

Dispatcher ==
  \/ \E c \in Container :
       \/ ReceiveCreate(c) \/ ReceiveStart(c) \/ ReceiveStop(c)
       \/ \E s \in {"Stopped", "Running"} : ReceiveUpdate(c, s)
  \/ \E i \in Image : ReceivePull(i)

CreateTask(c) == Check(c) \/ Make(c) \/ ReplyCreate(c)

Next ==
  \/ \E i \in Image : RegisterImage(i) \/ SendPull(i) \/ FinishPull(i)
  \/ \E c \in Container : SendCreate(c) \/ SendStart(c) \/ SendStop(c)
  \/ Dispatcher
  \/ \E c \in Container, op \in Op : Call(c, op) \/ Report(c, op)
  \/ \E c \in Container : CreateTask(c) \/ EnterStopped(c)
  \/ \E n \in Name : Exit(n)

Spec == Init /\ [][Next]_vars

(* Tokio polls the dispatcher and every spawned task, docker's answers to  *)
(* a listing, a start and a stop come or are given up after 30 seconds,    *)
(* and the channel serves its waiting senders in order, so that none waits *)
(* for ever while others go ahead.  Nothing limits the time of a pull, in  *)
(* FinishPull and in Make, and nothing obliges a caller to ask again.      *)
Fairness ==
  /\ WF_vars(Dispatcher)
  /\ \A c \in Container :
       /\ WF_vars(Check(c)) /\ WF_vars(ReplyCreate(c)) /\ SF_vars(EnterStopped(c))
       /\ \A op \in Op : WF_vars(Call(c, op)) /\ SF_vars(Report(c, op))
  /\ \A i \in Image : SF_vars(SendPull(i))

FairSpec == Spec /\ Fairness

-----------------------------------------------------------------------------
TypeOK ==
  /\ conn \in Seq(Message) /\ Len(conn) <= Cap
  /\ status \in [Container -> Status]
  /\ registered \subseteq Container
  /\ images \subseteq Image
  /\ create \in [Container -> Progress]
  /\ pull \in [Image -> {"idle", "send", "queued", "pulling"} \cup Answer]
  /\ calls \in [Container -> [Op -> Nat]]
  /\ reports \in [Container -> [Op -> Nat]]
  /\ daemon \in [Name -> {"absent", "stopped", "running"}]
  /\ disturbed \subseteq Name

(* "Image not found in the Internal Registry Map" is never answered: the   *)
(* image is registered before any backend hears of it.                     *)
ImageFound == "no_image" \notin {create[c] : c \in Container} \cup {pull[i] : i \in Image}

(* A container whose Create succeeds exists in docker, or another one does *)
(* whose name contains its name.  Nothing removes a container.             *)
AnsweredExists ==
  \A c \in Container :
    create[c] \in {"update", "reply", "ok"} => Exists(NameOf[c])

(* DockerMan never warns "Got invalid ContainerId": the entry of a         *)
(* container is in the table, or ahead in the channel, before any Start or *)
(* Stop of it; and a task that calls docker finds it in the registry.      *)
KnownContainer ==
  /\ \A k \in DOMAIN conn : conn[k].type \in {"Start", "Stop"} =>
       \/ status[conn[k].id] # "none"
       \/ \E j \in 1 .. k - 1 : conn[j].type = "Update" /\ conn[j].id = conn[k].id
  /\ \A c \in Container, op \in Op : calls[c][op] > 0 => c \in registered

(* Nothing about c is on its way between the daemon and the table. *)
Quiet(c) ==
  /\ create[c] = "ok"
  /\ \A op \in Op : ~InFlight(NameOf[c], op)

Agree(c) == status[c] = "Running" <=> daemon[NameOf[c]] = "running"

(* c is the only ContainerId connman has for its name. *)
Sole(c) == \A d \in Container \ {c} : NameOf[d] = NameOf[c] => create[d] = "idle"

(* With nothing on its way, the table tells the truth about a container,   *)
(* except after an event it can not see: a container found running, an     *)
(* exit, an answer lost, a start and a stop under way at the same time.    *)
(* The next successful call with no opposite one under way repairs it.     *)
TableTracksDaemon ==
  \A c \in Container :
    Quiet(c) /\ Sole(c) /\ NameOf[c] \notin disturbed => Agree(c)

(* The requests of a container that are still to be decided or carried out *)
(* are those in the channel and those whose task is about to call docker.  *)
Asked(c, op) == calls[c][op] + Cardinality({k \in DOMAIN conn :
                  conn[k] = IF op = "start" THEN StartMsg(c) ELSE StopMsg(c)})

Host == INSTANCE ContainerHost WITH
          asked <- [c \in Container |-> [op \in Op |-> Asked(c, op)]]

(* DockerMan implements the abstract host: docker starts or stops nothing  *)
(* that was not asked for, and no request is carried out twice.            *)
ImplementsHost == Host!Spec

(* Every Start that enters the channel makes its container run; see the    *)
(* run that refutes it.                                                    *)
StartHonoured == \A c \in Container : InConn(StartMsg(c)) ~> daemon[NameOf[c]] = "running"

(* docker ends every pull, which pull_image sets no time limit for.        *)
PullsEnd == /\ \A c \in Container : []<>(create[c] # "make")
            /\ \A i \in Image : []<>(pull[i] # "pulling")

(* If docker ends every pull, every Create that is in the channel and      *)
(* every Pull is answered, however many Starts and Stops compete for the   *)
(* channel and whoever else asks for a container of that name.             *)
RequestsAnswered == PullsEnd =>
  /\ \A c \in Container : create[c] = "queued" ~> create[c] \in Answer
  /\ \A i \in Image : pull[i] = "send" ~> pull[i] \in Answer

=============================================================================
