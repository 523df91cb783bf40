---------------------------- MODULE TlsListener -----------------------------
(***************************************************************************)
(* The TlsListener of proxy.rs: one task that owns the map from host names *)
(* (SNI) to proxies and alternates between the messages of its channel and *)
(* new connections, whose handshake it awaits in line.  The handlers of    *)
(* connman.rs keep that map, the proxy registry and the table of the TUI   *)
(* in step: handle_tls_proxy from the registration of the proxy on, and    *)
(* stop_proxy.  The docker side of both is in DockerMan and ProxyLife.     *)
(***************************************************************************)
EXTENDS Tui

CONSTANTS
  Host,          \* host names
  Cap,           \* capacity of the channel, 10 in the code
  MaxLines       \* bound: messages waiting for the TUI when a line is logged

ASSUME TlsAssumption == Cap \in Nat \ {0} /\ MaxLines \in Nat

VARIABLES
  host,          \* the host name of each proxy
  registry,      \* proxy_registry
  conn,          \* the channel of the listener
  map,           \* proxy of each host name, or Nobody
  loop,          \* what the listener is about
  adding,        \* the handle_tls_proxy of each proxy
  removing,      \* the stop_proxy of each proxy
  busy,          \* proxies that have a connection
  latest         \* history: the proxy added last for a host name

requests == << registry, adding, removing >>
listener == << conn, map, loop >>
allVars  == << tuiVars, host, requests, listener, busy, latest >>

TlsMsg == [type : {"Add", "Remove"}, id : Proxy]

Init ==
  /\ TuiInit
  /\ host \in [Proxy -> Host]
  /\ registry = {} /\ conn = << >>
  /\ map = [h \in Host |-> Nobody] /\ latest = [h \in Host |-> Nobody]
  /\ loop = "bind"
  /\ adding = [p \in Proxy |-> "created"]
  /\ removing = [p \in Proxy |-> "none"]
  /\ busy = {}

\* Mutant: the channel is unbounded.
BugSendTls(m) == /\ loop # "down"
                 /\ conn' = Append(conn, m)

(* A message for the listener waits for room; without a listener the       *)
(* receiver is dropped and the send is an error.                           *)
SendTls(m) == /\ loop # "down" /\ Len(conn) < Cap
              /\ conn' = Append(conn, m)

InConn(m) == \E k \in DOMAIN conn : conn[k] = m

-----------------------------------------------------------------------------
(* handle_tls_proxy once the container was created. *)

\* Mutant: the row is sent before the listener took the proxy.
BugRegister(p) ==
  /\ adding[p] = "created"
  /\ adding' = [adding EXCEPT ![p] = "send"]
  /\ registry' = registry \cup {p}
  /\ Post(Msg("Proxy", p))
  /\ UNCHANGED << rows, selected, shown, up, exit, tuiHistory, host, removing,
                  listener, busy, latest >>

Register(p) ==
  /\ adding[p] = "created"
  /\ adding' = [adding EXCEPT ![p] = "send"]
  /\ registry' = registry \cup {p}
  /\ UNCHANGED << tuiVars, host, removing, listener, busy, latest >>

\* Mutant: with the listener gone the request waits.
BugSendAdd(p) ==
  /\ adding[p] = "send"
  /\ SendTls(Msg("Add", p))
  /\ adding' = [adding EXCEPT ![p] = "row"]
  /\ latest' = [latest EXCEPT ![host[p]] = p]
  /\ UNCHANGED << tuiVars, host, registry, removing, map, loop, busy >>

(* With the listener gone the request fails; the proxy stays registered. *)
SendAdd(p) ==
  /\ adding[p] = "send"
  /\ \/ /\ SendTls(Msg("Add", p))
        /\ adding' = [adding EXCEPT ![p] = "row"]
        /\ latest' = [latest EXCEPT ![host[p]] = p]
     \/ /\ loop = "down"
        /\ adding' = [adding EXCEPT ![p] = "error"]
        /\ UNCHANGED << conn, latest >>
  /\ UNCHANGED << tuiVars, host, registry, removing, map, loop, busy >>

SendRow(p) ==
  /\ adding[p] = "row"
  /\ adding' = [adding EXCEPT ![p] = "ok"]
  /\ Post(Msg("Proxy", p))
  /\ UNCHANGED << rows, selected, shown, up, exit, tuiHistory, host,
                  registry, removing, listener, busy, latest >>

-----------------------------------------------------------------------------
(* stop_proxy.  A client has the id of a proxy from its answer; ids known  *)
(* from an earlier run of the server are left out.                         *)

Unregister(p) ==
  /\ adding[p] = "ok" /\ p \in registry
  /\ registry' = registry \ {p}
  /\ removing' = [removing EXCEPT ![p] = "send"]
  /\ UNCHANGED << tuiVars, host, adding, listener, busy, latest >>

\* Mutant: a full channel is an error too.
BugSendRemove(p) ==
  /\ removing[p] = "send"
  /\ removing' = [removing EXCEPT ![p] = "cleanup"]
  /\ \/ SendTls(Msg("Remove", p))
     \/ (loop = "down" \/ Len(conn) = Cap) /\ UNCHANGED conn
  /\ UNCHANGED << tuiVars, host, registry, adding, map, loop, busy, latest >>

SendRemove(p) ==
  /\ removing[p] = "send"
  /\ removing' = [removing EXCEPT ![p] = "cleanup"]
  /\ SendTls(Msg("Remove", p)) \/ (loop = "down" /\ UNCHANGED conn)
  /\ UNCHANGED << tuiVars, host, registry, adding, map, loop, busy, latest >>

(* The TUI's part of Proxy::cleanup, which fails if the TUI is gone. *)
Cleanup(p) ==
  /\ removing[p] = "cleanup"
  /\ removing' = [removing EXCEPT ![p] = IF up THEN "done" ELSE "error"]
  /\ Post(Msg("Remove", p))
  /\ UNCHANGED << rows, selected, shown, up, exit, tuiHistory, host,
                  registry, adding, listener, busy, latest >>

-----------------------------------------------------------------------------
(* TlsListener::run. *)

(* If the socket or the certificate fails, run returns and takes the       *)
(* receiving end of the channel along.                                     *)
Start ==
  /\ loop = "bind"
  /\ \/ loop' = "select" /\ UNCHANGED conn
     \/ loop' = "down" /\ conn' = << >>
  /\ UNCHANGED << tuiVars, host, requests, map, busy, latest >>

\* Mutant: whatever is under the proxy's host name goes.
BugForget(p) == map' = [map EXCEPT ![host[p]] = Nobody]

Forget(p) == map' = [h \in Host |-> IF map[h] = p THEN Nobody ELSE map[h]]

(* Taking a message ends the select, so that accept is tried again. *)
HandleTlsMsg ==
  /\ loop \in {"select", "deaf"} /\ conn # << >>
  /\ conn' = Tail(conn)
  /\ loop' = "select"
  /\ LET m == Head(conn) IN
     \/ m.type = "Add" /\ map' = [map EXCEPT ![host[m.id]] = m.id]
     \/ m.type = "Remove" /\ Forget(m.id)
  /\ UNCHANGED << tuiVars, host, requests, busy, latest >>

(* An error of accept disables its branch until a message arrives. *)
Accept ==
  /\ loop = "select"
  /\ loop' \in {"handshake", "deaf"}
  /\ UNCHANGED << tuiVars, host, requests, conn, map, busy, latest >>

(* The handshake fails or brings a name; the name leads to a proxy that is *)
(* registered, to one that is not and is forgotten, or nowhere.            *)
HandleConnection ==
  /\ loop = "handshake"
  /\ loop' = "select"
  /\ \/ UNCHANGED << map, busy >>
     \/ \E h \in Host :
          \/ /\ map[h] \in registry
             /\ busy' = busy \cup {map[h]}
             /\ UNCHANGED map
          \/ /\ map[h] \in Proxy \ registry
             /\ Forget(map[h])
             /\ UNCHANGED busy
  /\ UNCHANGED << tuiVars, host, requests, conn, latest >>

(* A connection's own task logs its beginning and its end. *)
LogLine(p) ==
  /\ Len(queue) < MaxLines                           \* bound
  /\ p \in busy
  /\ busy' = busy \/ busy' = busy \ {p}
  /\ Post(Msg("Log", p))
  /\ UNCHANGED << rows, selected, shown, up, exit, tuiHistory, host,
                  requests, listener, latest >>

-----------------------------------------------------------------------------
TuiStep == TuiNext /\ UNCHANGED << host, requests, listener, busy, latest >>

Next ==
  \/ TuiStep
  \/ Start \/ HandleTlsMsg \/ Accept \/ HandleConnection
  \/ \E p \in Proxy :
       \/ Register(p) \/ SendAdd(p) \/ SendRow(p)
       \/ Unregister(p) \/ SendRemove(p) \/ Cleanup(p)
       \/ LogLine(p)

Spec == Init /\ [][Next]_allVars

(* Tokio polls every task.  The select takes a ready branch at random, so  *)
(* it does not pass over its channel for ever, and a channel that gets     *)
(* room takes a waiting sender.  The end of a handshake is up to the       *)
(* client.                                                                 *)
FairSpec ==
  /\ Spec
  /\ WF_allVars(Start) /\ SF_allVars(HandleTlsMsg)
  /\ SF_allVars(\E p \in Proxy : SendAdd(p) \/ SendRemove(p))
  /\ WF_allVars(\E p \in Proxy : SendRow(p) \/ Cleanup(p))

-----------------------------------------------------------------------------
TypeOK ==
  /\ TuiTypeOK
  /\ host \in [Proxy -> Host] /\ registry \subseteq Proxy
  /\ conn \in Seq(TlsMsg) /\ Len(conn) <= Cap
  /\ map \in [Host -> Proxy \cup {Nobody}]
  /\ latest \in [Host -> Proxy \cup {Nobody}]
  /\ loop \in {"bind", "select", "deaf", "handshake", "down"}
  /\ adding \in [Proxy -> {"created", "send", "row", "ok", "error"}]
  /\ removing \in [Proxy -> {"none", "send", "cleanup", "done", "error"}]
  /\ busy \subseteq Proxy

(* The host name of a removed proxy leads to it only while its removal is  *)
(* on the way to the listener: no Add arrives after its Remove.            *)
NoDeadEntry ==
  \A h \in Host : map[h] \in Proxy \ registry =>
    removing[map[h]] = "send" \/ InConn(Msg("Remove", map[h]))

(* The proxy added last for a host name is found under it as long as it is *)
(* registered, whatever became of the others of that name.                 *)
LatestReachable ==
  \A h \in Host :
    latest[h] \in registry /\ loop # "down" =>
      map[h] = latest[h] \/ InConn(Msg("Add", latest[h]))

(* With nothing on its way the table has a row for each proxy a client was *)
(* given and for no other, one.                                            *)
NoGhostRows ==
  up /\ queue = << >> /\ (\A p \in Proxy : removing[p] \in {"none", "done"}) =>
    /\ {rows[k] : k \in DOMAIN rows} = {p \in registry : adding[p] = "ok"}
    /\ \A j, k \in DOMAIN rows : rows[j] = rows[k] => j = k

(* Requests are answered, and the listener keeps up with them, as long as  *)
(* no client holds up a handshake for ever.  (There are finitely many.)    *)
Settled == \A p \in Proxy : adding[p] \in {"created", "ok", "error"}
                           /\ removing[p] \in {"none", "done", "error"}

RequestsEnd == []<>(loop # "handshake") => []<>(Settled /\ conn = << >>)
=============================================================================
