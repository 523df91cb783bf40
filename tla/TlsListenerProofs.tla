------------------------- MODULE TlsListenerProofs --------------------------
(* Proofs about TlsListener, for any proxies, host names and capacity. *)
EXTENDS TlsListener, TLAPS

TypeInv ==
  /\ host \in [Proxy -> Host] /\ registry \subseteq Proxy
  /\ conn \in Seq(TlsMsg) /\ Len(conn) <= Cap
  /\ map \in [Host -> Proxy \cup {Nobody}]
  /\ latest \in [Host -> Proxy \cup {Nobody}]
  /\ loop \in {"bind", "select", "deaf", "handshake", "down"}
  /\ adding \in [Proxy -> {"created", "send", "row", "ok", "error"}]
  /\ removing \in [Proxy -> {"none", "send", "cleanup", "done", "error"}]

(* The listener never heard of p. *)
Unknown(p) ==
  /\ \A k \in DOMAIN conn : conn[k].id # p
  /\ \A h \in Host : map[h] # p /\ latest[h] # p

Fresh ==
  \A p \in Proxy :
    /\ adding[p] = "created" => Unknown(p) /\ removing[p] = "none" /\ p \notin registry
    /\ adding[p] \in {"send", "error"} => Unknown(p) /\ p \in registry

(* The removal of a proxy begins when it leaves the registry. *)
Kept ==
  \A p \in registry :
    removing[p] = "none" /\ \A k \in DOMAIN conn : conn[k] # Msg("Remove", p)

(* The Add of a proxy that was removed since is followed by its Remove. *)
Followed ==
  \A k \in DOMAIN conn : conn[k].type = "Add" =>
    \/ conn[k].id \in registry
    \/ removing[conn[k].id] = "send"
    \/ \E j \in DOMAIN conn : j > k /\ conn[j] = Msg("Remove", conn[k].id)

(* Before and without a listener no host name is known. *)
Quiescent ==
  /\ loop = "down" => conn = << >>
  /\ loop \in {"bind", "down"} => \A h \in Host : map[h] = Nobody

AddsTo(m, h) == m.type = "Add" /\ host[m.id] = h

(* The proxy added last for h is ahead in the channel, or the channel has  *)
(* nothing more for h.                                                     *)
Ahead(h) ==
  \E k \in DOMAIN conn :
    /\ conn[k] = Msg("Add", latest[h])
    /\ \A j \in DOMAIN conn : j > k => ~AddsTo(conn[j], h)

Arrived(h) == map[h] = latest[h] /\ \A j \in DOMAIN conn : ~AddsTo(conn[j], h)

LatestOK ==
  \A h \in Host :
    /\ latest[h] # Nobody => host[latest[h]] = h
    /\ latest[h] \in registry /\ loop # "down" => Ahead(h) \/ Arrived(h)

IInv == TypeInv /\ Fresh /\ Kept /\ Followed /\ Quiescent /\ NoDeadEntry /\ LatestOK

-----------------------------------------------------------------------------
LEMMA MsgFields ==
  /\ \A p \in Proxy : Msg("Add", p) \in TlsMsg /\ Msg("Remove", p) \in TlsMsg
  /\ \A t, p : Msg(t, p).type = t /\ Msg(t, p).id = p
  /\ \A m \in TlsMsg : /\ m.type \in {"Add", "Remove"} /\ m.id \in Proxy
                       /\ m = Msg(m.type, m.id)
BY DEF Msg, TlsMsg

LEMMA SendEffect ==
  ASSUME TypeInv, NEW m \in TlsMsg, SendTls(m)
  PROVE  /\ conn' \in Seq(TlsMsg) /\ Len(conn') <= Cap /\ Len(conn) \in Nat
         /\ DOMAIN conn = 1 .. Len(conn) /\ DOMAIN conn' = 1 .. Len(conn) + 1
         /\ \A k \in DOMAIN conn : conn'[k] = conn[k] /\ conn[k] \in TlsMsg
         /\ conn'[Len(conn) + 1] = m
         /\ loop # "down"
BY TlsAssumption DEF TypeInv, SendTls

LEMMA ReceiveEffect ==
  ASSUME TypeInv, conn # << >>, conn' = Tail(conn)
  PROVE  /\ conn' \in Seq(TlsMsg) /\ Len(conn') <= Cap
         /\ DOMAIN conn = 1 .. Len(conn) /\ DOMAIN conn' = 1 .. Len(conn) - 1
         /\ Len(conn) \in Nat \ {0}
         /\ \A k \in DOMAIN conn' : conn'[k] = conn[k + 1]
         /\ \A k \in DOMAIN conn : conn[k] \in TlsMsg
         /\ Head(conn) = conn[1] /\ 1 \in DOMAIN conn
BY TlsAssumption DEF TypeInv

LEMMA InitInv == Init => IInv
<1> SUFFICES ASSUME Init PROVE IInv
  OBVIOUS
<1> USE DEF Init
<1>1. TypeInv
  BY TlsAssumption DEF TypeInv
<1>2. DOMAIN conn = {}
  OBVIOUS
<1>3. Nobody \notin Proxy
  BY TuiAssumption
<1> QED
  BY <1>1, <1>2, <1>3 DEF IInv, Fresh, Unknown, Kept, Followed, Quiescent, NoDeadEntry, LatestOK

(* The parts of the invariant see these variables only. *)
LEMMA SameInv ==
  ASSUME IInv, UNCHANGED << host, registry, conn, map, loop, adding, removing, latest >>
  PROVE  IInv'
BY DEF IInv, TypeInv, Fresh, Unknown, Kept, Followed, Quiescent, NoDeadEntry, InConn,
       LatestOK, Ahead, Arrived, AddsTo, Msg

LEMMA RegisterInv == ASSUME IInv, NEW p \in Proxy, Register(p) PROVE IInv'
<1> USE DEF Register, IInv, listener
<1>1. TypeInv' /\ Quiescent'
  BY DEF TypeInv, Quiescent
<1>2. Fresh'
  BY DEF Fresh, Unknown, TypeInv
<1>3. Kept'
  BY MsgFields DEF Kept, Fresh, Unknown, TypeInv
<1>4. Followed'
  BY DEF Followed
<1>5. NoDeadEntry'
  BY DEF NoDeadEntry, InConn
<1>6. LatestOK'
  <2>1. \A h \in Host : latest[h] # p
    BY DEF Fresh, Unknown
  <2> QED BY <2>1 DEF LatestOK, Ahead, Arrived, AddsTo
<1> QED BY <1>1, <1>2, <1>3, <1>4, <1>5, <1>6

LEMMA SendAddInv == ASSUME IInv, NEW p \in Proxy, SendAdd(p) PROVE IInv'
<1> USE DEF IInv
<1>1. CASE loop = "down"
  <2>1. UNCHANGED << host, registry, conn, map, loop, removing, latest >>
        /\ adding' = [adding EXCEPT ![p] = "error"]
    BY <1>1 DEF SendAdd, SendTls
  <2>2. TypeInv' /\ Fresh'
    BY <2>1 DEF TypeInv, Fresh, Unknown, SendAdd
  <2> QED
    BY <2>1, <2>2 DEF Kept, Followed, Quiescent, NoDeadEntry, InConn, LatestOK, Ahead,
                      Arrived, AddsTo
<1>2. CASE loop # "down"
  <2> DEFINE m == Msg("Add", p)
  <2>1. /\ SendTls(m)
        /\ adding[p] = "send" /\ adding' = [adding EXCEPT ![p] = "row"]
        /\ latest' = [latest EXCEPT ![host[p]] = p]
        /\ UNCHANGED << host, registry, removing, map, loop >>
    BY <1>2 DEF SendAdd
  <2>2. /\ conn' \in Seq(TlsMsg) /\ Len(conn') <= Cap /\ Len(conn) \in Nat
        /\ DOMAIN conn = 1 .. Len(conn) /\ DOMAIN conn' = 1 .. Len(conn) + 1
        /\ \A k \in DOMAIN conn : conn'[k] = conn[k] /\ conn[k] \in TlsMsg
        /\ conn'[Len(conn) + 1] = m
    BY <2>1, SendEffect, MsgFields
  <2>3. m.type = "Add" /\ m.id = p /\ \A q : m # Msg("Remove", q)
    BY MsgFields
  <2>4. p \in registry
    BY <2>1 DEF Fresh
  <2> HIDE DEF m
  <2>5. TypeInv'
    BY <2>1, <2>2 DEF TypeInv
  <2>6. Fresh'
    <3>1. adding'[p] = "row"
      BY <2>1 DEF TypeInv
    <3>2. ASSUME NEW q \in Proxy, q # p
          PROVE  adding'[q] = adding[q] /\ (Unknown(q) => Unknown(q)')
      <4>1. adding'[q] = adding[q]
        BY <2>1, <3>2 DEF TypeInv
      <4>2. ASSUME \A k \in DOMAIN conn : conn[k].id # q
            PROVE  \A k \in DOMAIN conn' : conn'[k].id # q
        BY <2>2, <2>3, <3>2, <4>2
      <4>3. ASSUME NEW h \in Host, latest[h] # q PROVE latest'[h] # q
        BY <2>1, <3>2, <4>3 DEF TypeInv
      <4> QED BY <4>1, <4>2, <4>3, <2>1 DEF Unknown
    <3> QED BY <2>1, <3>1, <3>2 DEF Fresh
  <2>7. Kept'
    BY <2>1, <2>2, <2>3 DEF Kept
  <2>8. Followed'
    BY <2>1, <2>2, <2>3, <2>4 DEF Followed
  <2>9. Quiescent'
    BY <1>2, <2>1 DEF Quiescent
  <2>10. NoDeadEntry'
    BY <2>1, <2>2 DEF NoDeadEntry, InConn
  <2>11. LatestOK'
    <3> SUFFICES ASSUME NEW h \in Host
                 PROVE  /\ latest'[h] # Nobody => host'[latest'[h]] = h
                        /\ latest'[h] \in registry' => Ahead(h)' \/ Arrived(h)'
      BY DEF LatestOK
    <3>1. CASE h = host[p]
      <4>1. latest'[h] = p
        BY <3>1, <2>1 DEF TypeInv
      <4>2. Ahead(h)'
        BY <4>1, <2>2 DEF Ahead, m
      <4> QED BY <3>1, <4>1, <4>2, <2>1
    <3>2. CASE h # host[p]
      <4>1. latest'[h] = latest[h]
        BY <3>2, <2>1 DEF TypeInv
      <4>2. ~AddsTo(m, h)'
        BY <3>2, <2>1, <2>3 DEF AddsTo
      <4> QED BY <1>2, <4>1, <4>2, <2>1, <2>2 DEF LatestOK, Ahead, Arrived, AddsTo
    <3> QED BY <3>1, <3>2
  <2> QED BY <2>5, <2>6, <2>7, <2>8, <2>9, <2>10, <2>11
<1> QED BY <1>1, <1>2

LEMMA SendRowInv == ASSUME IInv, NEW p \in Proxy, SendRow(p) PROVE IInv'
<1> USE DEF SendRow, IInv, listener
<1>1. TypeInv' /\ Fresh'
  BY DEF TypeInv, Fresh, Unknown
<1> QED
  BY <1>1 DEF Kept, Followed, Quiescent, NoDeadEntry, InConn, LatestOK, Ahead, Arrived, AddsTo

LEMMA UnregisterInv == ASSUME IInv, NEW p \in Proxy, Unregister(p) PROVE IInv'
<1> USE DEF Unregister, IInv, listener
<1>1. TypeInv' /\ Fresh' /\ Kept' /\ Quiescent'
  BY DEF TypeInv, Fresh, Unknown, Kept, Quiescent
<1>2. Followed'
  BY MsgFields DEF Followed, TypeInv
<1>3. NoDeadEntry'
  BY DEF NoDeadEntry, InConn, TypeInv
<1>4. LatestOK'
  BY DEF LatestOK, Ahead, Arrived, AddsTo
<1> QED BY <1>1, <1>2, <1>3, <1>4

LEMMA SendRemoveInv == ASSUME IInv, NEW p \in Proxy, SendRemove(p) PROVE IInv'
<1> USE DEF IInv
<1>1. /\ removing[p] = "send" /\ removing' = [removing EXCEPT ![p] = "cleanup"]
      /\ UNCHANGED << host, registry, adding, map, loop, latest >>
  BY DEF SendRemove
<1>2. p \notin registry
  BY <1>1 DEF Kept
<1>3. CASE loop = "down"
  <2>1. UNCHANGED conn
    BY <1>3 DEF SendRemove, SendTls
  <2>2. DOMAIN conn = {}
    BY <1>3 DEF Quiescent
  <2>3. \A h \in Host : map[h] = Nobody
    BY <1>3 DEF Quiescent
  <2>4. TypeInv' /\ Fresh' /\ Kept' /\ Quiescent'
    BY <1>1, <1>2, <2>1 DEF TypeInv, Fresh, Unknown, Kept, Quiescent
  <2>5. Followed' /\ NoDeadEntry' /\ LatestOK'
    BY <1>1, <1>3, <2>1, <2>2, <2>3, TuiAssumption DEF Followed, NoDeadEntry, LatestOK
  <2> QED BY <2>4, <2>5
<1>4. CASE loop # "down"
  <2> DEFINE m == Msg("Remove", p)
  <2>2. /\ conn' \in Seq(TlsMsg) /\ Len(conn') <= Cap /\ Len(conn) \in Nat
        /\ DOMAIN conn = 1 .. Len(conn) /\ DOMAIN conn' = 1 .. Len(conn) + 1
        /\ \A k \in DOMAIN conn : conn'[k] = conn[k] /\ conn[k] \in TlsMsg
        /\ conn'[Len(conn) + 1] = m
    BY <1>4, SendEffect, MsgFields DEF SendRemove
  <2>3. m.type = "Remove" /\ m.id = p /\ (\A q : q # p => m # Msg("Remove", q))
    BY MsgFields
  <2>4. TypeInv' /\ Quiescent'
    BY <1>1, <1>4, <2>2 DEF TypeInv, Quiescent
  <2>5. Fresh'
    <3>1. adding[p] \notin {"created", "send", "error"}
      BY <1>1, <1>2 DEF Fresh
    <3> HIDE DEF m
    <3>2. \A q \in Proxy : Unknown(q) /\ q # p => Unknown(q)'
      BY <1>1, <2>2, <2>3 DEF Unknown
    <3> QED BY <1>1, <3>1, <3>2 DEF Fresh, TypeInv
  <2>6. Kept'
    BY <1>1, <1>2, <2>2, <2>3 DEF Kept, TypeInv
  <2>7. Followed'
    <3> SUFFICES ASSUME NEW k \in DOMAIN conn', conn'[k].type = "Add",
                        conn'[k].id \notin registry', removing'[conn'[k].id] # "send"
                 PROVE  \E j \in DOMAIN conn' : j > k /\ conn'[j] = Msg("Remove", conn'[k].id)
      BY DEF Followed
    <3>1. k \in DOMAIN conn /\ conn'[k] = conn[k]
      BY <2>2, <2>3
    <3>2. CASE conn[k].id = p
      BY <2>2, <3>1, <3>2 DEF m
    <3>3. CASE conn[k].id # p
      BY <1>1, <2>2, <3>1, <3>3, MsgFields DEF Followed, TypeInv
    <3> QED BY <3>2, <3>3
  <2>8. NoDeadEntry'
    BY <1>1, <2>2 DEF NoDeadEntry, InConn, TypeInv, m
  <2>9. LatestOK'
    <3>1. \A h : ~AddsTo(m, h)'
      BY <2>3 DEF AddsTo
    <3> HIDE DEF m
    <3> QED BY <1>1, <1>4, <2>2, <3>1 DEF LatestOK, Ahead, Arrived, AddsTo
  <2> QED BY <2>4, <2>5, <2>6, <2>7, <2>8, <2>9
<1> QED BY <1>3, <1>4

LEMMA CleanupInv == ASSUME IInv, NEW p \in Proxy, Cleanup(p) PROVE IInv'
<1> USE DEF Cleanup, IInv, listener
<1>1. TypeInv' /\ Fresh' /\ Kept' /\ Quiescent'
  BY DEF TypeInv, Fresh, Unknown, Kept, Quiescent
<1>2. Followed' /\ NoDeadEntry'
  BY MsgFields DEF Followed, NoDeadEntry, InConn, TypeInv
<1>3. LatestOK'
  BY DEF LatestOK, Ahead, Arrived, AddsTo
<1> QED BY <1>1, <1>2, <1>3

LEMMA StartInv == ASSUME IInv, Start PROVE IInv'
<1> USE DEF Start, IInv, requests
<1>1. \A h \in Host : map[h] = Nobody /\ map'[h] = Nobody
  BY DEF Quiescent
<1>2. CASE loop' = "down" /\ conn' = << >>
  <2>1. DOMAIN conn' = {} /\ conn' \in Seq(TlsMsg) /\ Len(conn') <= Cap
    BY <1>2, TlsAssumption
  <2> QED
    BY <1>1, <1>2, <2>1, TuiAssumption
       DEF TypeInv, Fresh, Unknown, Kept, Followed, Quiescent, NoDeadEntry, LatestOK
<1>3. CASE loop' = "select" /\ UNCHANGED conn
  BY <1>1, <1>3
     DEF TypeInv, Fresh, Unknown, Kept, Followed, Quiescent, NoDeadEntry, InConn, LatestOK,
         Ahead, Arrived, AddsTo
<1> QED BY <1>2, <1>3

LEMMA AcceptInv == ASSUME IInv, Accept PROVE IInv'
BY DEF Accept, requests, IInv, TypeInv, Fresh, Unknown, Kept, Followed, Quiescent,
       NoDeadEntry, InConn, LatestOK, Ahead, Arrived, AddsTo

(* Forgetting a proxy that is not registered. *)
LEMMA HandleConnectionInv == ASSUME IInv, HandleConnection PROVE IInv'
<1> USE DEF IInv
<1>1. /\ loop = "handshake" /\ loop' = "select"
      /\ UNCHANGED << host, registry, adding, removing, conn, latest >>
  BY DEF HandleConnection, requests
<1>2. CASE UNCHANGED map
  BY <1>1, <1>2 DEF TypeInv, Fresh, Unknown, Kept, Followed, Quiescent, NoDeadEntry, InConn,
                    LatestOK, Ahead, Arrived, AddsTo
<1>3. ASSUME NEW x \in Host, map[x] \in Proxy \ registry, Forget(map[x])
      PROVE  IInv'
  <2>1. \A h \in Host : map'[h] = IF map[h] = map[x] THEN Nobody ELSE map[h]
    BY <1>3 DEF Forget
  <2>2. map' \in [Host -> Proxy \cup {Nobody}]
    BY <1>3 DEF Forget, TypeInv
  <2>3. TypeInv' /\ Fresh' /\ Kept' /\ Followed' /\ Quiescent'
    BY <1>1, <2>1, <2>2, TuiAssumption
       DEF TypeInv, Fresh, Unknown, Kept, Followed, Quiescent
  <2>4. NoDeadEntry'
    BY <1>1, <2>1, TuiAssumption DEF NoDeadEntry, InConn
  <2>5. LatestOK'
    BY <1>1, <1>3, <2>1 DEF LatestOK, Ahead, Arrived, AddsTo
  <2> QED BY <2>3, <2>4, <2>5
<1> QED BY <1>2, <1>3 DEF HandleConnection

LEMMA HandleTlsMsgInv == ASSUME IInv, HandleTlsMsg PROVE IInv'
<1> USE DEF IInv
<1> DEFINE m == Head(conn)
<1>1. /\ loop \in {"select", "deaf"} /\ loop' = "select"
      /\ UNCHANGED << host, registry, adding, removing, latest >>
  BY DEF HandleTlsMsg, requests
<1>2. /\ conn' \in Seq(TlsMsg) /\ Len(conn') <= Cap
      /\ DOMAIN conn = 1 .. Len(conn) /\ DOMAIN conn' = 1 .. Len(conn) - 1
      /\ Len(conn) \in Nat \ {0}
      /\ \A k \in DOMAIN conn' : conn'[k] = conn[k + 1]
      /\ \A k \in DOMAIN conn : conn[k] \in TlsMsg
      /\ m = conn[1] /\ 1 \in DOMAIN conn
  BY ReceiveEffect DEF HandleTlsMsg
<1>3. \/ m.type = "Add" /\ map' = [map EXCEPT ![host[m.id]] = m.id]
      \/ m.type = "Remove" /\ Forget(m.id)
  BY DEF HandleTlsMsg
<1> HIDE DEF m
<1>4. m \in TlsMsg /\ m.id \in Proxy /\ m.type \in {"Add", "Remove"}
      /\ m = Msg(m.type, m.id)
  BY <1>2, MsgFields
<1>5. host[m.id] \in Host
  BY <1>4 DEF TypeInv
<1>6. \A k \in DOMAIN conn : k = 1 \/ (k - 1 \in DOMAIN conn' /\ conn'[k - 1] = conn[k])
  BY <1>2
<1>7. Kept' /\ Quiescent'
  BY <1>1, <1>2 DEF Kept, Quiescent
<1>8. Followed'
  <2> SUFFICES ASSUME NEW k \in DOMAIN conn', conn'[k].type = "Add",
                      conn'[k].id \notin registry, removing[conn'[k].id] # "send"
               PROVE  \E j \in DOMAIN conn' : j > k /\ conn'[j] = Msg("Remove", conn'[k].id)
    BY <1>1 DEF Followed
  <2>1. k + 1 \in DOMAIN conn /\ conn'[k] = conn[k + 1] /\ k \in Nat \ {0}
    BY <1>2
  <2>2. PICK j \in DOMAIN conn : j > k + 1 /\ conn[j] = Msg("Remove", conn'[k].id)
    BY <2>1 DEF Followed
  <2>3. j - 1 \in DOMAIN conn' /\ conn'[j - 1] = conn[j] /\ j - 1 > k
    BY <2>1, <2>2, <1>2
  <2> QED BY <2>2, <2>3
(* A message other than p's Remove leaves that Remove in the channel. *)
<1>9. ASSUME NEW p \in Proxy, InConn(Msg("Remove", p)), m # Msg("Remove", p)
      PROVE  \E k \in DOMAIN conn' : conn'[k] = Msg("Remove", p)
  <2>1. PICK k \in DOMAIN conn : conn[k] = Msg("Remove", p)
    BY <1>9 DEF InConn
  <2>2. k # 1
    BY <1>2, <1>9, <2>1
  <2> QED BY <1>6, <2>1, <2>2
(* What is ahead stays ahead unless it is the head. *)
<1>10. ASSUME NEW h \in Host, NEW k \in DOMAIN conn, k # 1, conn[k] = Msg("Add", latest[h]),
              \A j \in DOMAIN conn : j > k => ~AddsTo(conn[j], h)
       PROVE  Ahead(h)'
  <2>1. k - 1 \in DOMAIN conn' /\ conn'[k - 1] = conn[k]
    BY <1>6, <1>10
  <2>2. \A j \in DOMAIN conn' : j > k - 1 => ~AddsTo(conn'[j], h)
    <3> SUFFICES ASSUME NEW j \in DOMAIN conn', j > k - 1 PROVE ~AddsTo(conn'[j], h)
      OBVIOUS
    <3>1. j + 1 \in DOMAIN conn /\ j + 1 > k /\ conn'[j] = conn[j + 1]
      BY <1>2
    <3> QED BY <1>10, <3>1
  <2> QED BY <1>1, <1>10, <2>1, <2>2 DEF Ahead, AddsTo, Msg
<1>11. CASE m.type = "Add"
  <2> DEFINE g == host[m.id]
  <2>1. map' = [map EXCEPT ![g] = m.id]
    BY <1>3, <1>11
  <2>2. /\ map' \in [Host -> Proxy \cup {Nobody}] /\ map'[g] = m.id
        /\ \A h \in Host : h # g => map'[h] = map[h]
    BY <1>4, <1>5, <2>1 DEF TypeInv
  <2> HIDE DEF g
  <2>3. TypeInv' /\ Fresh'
    <3>1. \A p \in Proxy : Unknown(p) => Unknown(p)'
      BY <1>1, <1>2, <2>2 DEF Unknown
    <3> QED BY <1>1, <1>2, <2>2, <3>1 DEF TypeInv, Fresh
  <2>4. NoDeadEntry'
    <3> SUFFICES ASSUME NEW h \in Host, NEW p \in Proxy \ registry, map'[h] = p
                 PROVE  \/ removing[p] = "send"
                        \/ \E k \in DOMAIN conn' : conn'[k] = Msg("Remove", p)
      BY <1>1 DEF NoDeadEntry, InConn, Msg
    <3>1. m # Msg("Remove", p)
      BY <1>11, MsgFields
    <3>2. removing[p] = "send" \/ InConn(Msg("Remove", p))
      <4>1. CASE h # g
        BY <2>2, <4>1 DEF NoDeadEntry
      <4>2. CASE h = g
        <5>1. p = conn[1].id
          BY <1>2, <2>2, <4>2
        <5> QED BY <1>2, <1>11, <5>1 DEF Followed, InConn
      <4> QED BY <4>1, <4>2
    <3> QED BY <1>9, <3>1, <3>2
  <2>5. LatestOK'
    <3> SUFFICES ASSUME NEW h \in Host, latest[h] \in registry
                 PROVE  Ahead(h)' \/ Arrived(h)'
      BY <1>1 DEF LatestOK
    <3>1. ASSUME NEW k \in DOMAIN conn, k = 1, conn[k] = Msg("Add", latest[h]),
                 \A j \in DOMAIN conn : j > k => ~AddsTo(conn[j], h)
          PROVE  Arrived(h)'
      <4>1. latest[h] # Nobody /\ m.id = latest[h]
        BY <1>2, <3>1, MsgFields, TuiAssumption DEF TypeInv
      <4>2. g = h /\ map'[h] = latest[h]
        BY <2>2, <4>1 DEF LatestOK, g
      <4>3. \A j \in DOMAIN conn' : ~AddsTo(conn'[j], h)
        BY <1>2, <3>1
      <4> QED BY <1>1, <4>2, <4>3 DEF Arrived, AddsTo
    <3>2. CASE Ahead(h)
      BY <1>10, <3>1, <3>2 DEF Ahead
    <3>3. CASE Arrived(h)
      <4>1. g # h
        BY <1>2, <1>11, <3>3 DEF Arrived, AddsTo, g
      <4> QED BY <1>1, <1>2, <2>2, <3>3, <4>1 DEF Arrived, AddsTo
    <3> QED BY <1>1, <3>2, <3>3 DEF LatestOK
  <2> QED BY <1>7, <1>8, <2>3, <2>4, <2>5
<1>12. CASE m.type = "Remove"
  <2>1. \A h \in Host : map'[h] = IF map[h] = m.id THEN Nobody ELSE map[h]
    BY <1>3, <1>12 DEF Forget
  <2>2. map' \in [Host -> Proxy \cup {Nobody}]
    BY <1>3, <1>12 DEF Forget, TypeInv
  <2>3. m.id \notin registry /\ m = Msg("Remove", m.id)
    BY <1>2, <1>4, <1>12 DEF Kept
  <2>4. TypeInv' /\ Fresh'
    <3>1. \A p \in Proxy : Unknown(p) => Unknown(p)'
      BY <1>1, <1>2, <2>1, TuiAssumption DEF Unknown
    <3> QED BY <1>1, <1>2, <2>2, <3>1 DEF TypeInv, Fresh
  <2>5. NoDeadEntry'
    <3> SUFFICES ASSUME NEW h \in Host, NEW p \in Proxy \ registry, map'[h] = p
                 PROVE  \/ removing[p] = "send"
                        \/ \E k \in DOMAIN conn' : conn'[k] = Msg("Remove", p)
      BY <1>1 DEF NoDeadEntry, InConn, Msg
    <3>1. map[h] = p /\ p # m.id
      BY <2>1, TuiAssumption
    <3>2. m # Msg("Remove", p)
      BY <3>1, <2>3, MsgFields
    <3> QED BY <1>9, <3>1, <3>2 DEF NoDeadEntry
  <2>6. LatestOK'
    <3> SUFFICES ASSUME NEW h \in Host, latest[h] \in registry
                 PROVE  Ahead(h)' \/ Arrived(h)'
      BY <1>1 DEF LatestOK
    <3>1. CASE Ahead(h)
      <4>1. conn[1] # Msg("Add", latest[h])
        BY <1>2, <1>12, MsgFields
      <4> QED BY <1>10, <3>1, <4>1 DEF Ahead
    <3>2. CASE Arrived(h)
      <4>1. map[h] # m.id
        BY <2>3, <3>2 DEF Arrived
      <4> QED BY <1>1, <1>2, <2>1, <3>2, <4>1 DEF Arrived, AddsTo
    <3> QED BY <1>1, <3>1, <3>2 DEF LatestOK
  <2> QED BY <1>7, <1>8, <2>4, <2>5, <2>6
<1> QED BY <1>4, <1>11, <1>12

-----------------------------------------------------------------------------
LEMMA StepInv == IInv /\ [Next]_allVars => IInv'
<1> SUFFICES ASSUME IInv, [Next]_allVars PROVE IInv'
  OBVIOUS
<1>1. CASE UNCHANGED allVars
  BY <1>1, SameInv DEF allVars, requests, listener
<1>2. CASE TuiStep
  BY <1>2, SameInv DEF TuiStep, requests, listener
<1>3. ASSUME NEW p \in Proxy, LogLine(p) PROVE IInv'
  BY <1>3, SameInv DEF LogLine, requests, listener
<1> QED
  BY <1>1, <1>2, <1>3, StartInv, HandleTlsMsgInv, AcceptInv, HandleConnectionInv,
     RegisterInv, SendAddInv, SendRowInv, UnregisterInv, SendRemoveInv, CleanupInv
     DEF Next

THEOREM Invariance == Spec => []IInv
BY InitInv, StepInv, PTL DEF Spec

(* A host name leads to a removed proxy only while the removal is on its   *)
(* way to the listener, for any number of requests in any order.           *)
THEOREM NoDeadEntryHolds == Spec => []NoDeadEntry
<1>1. IInv => NoDeadEntry
  BY DEF IInv
<1> QED BY <1>1, Invariance, PTL

(* Of the proxies of one host name the last one is reachable, for any      *)
(* number of rivals that are added and removed around it.                  *)
THEOREM LatestReachableHolds == Spec => []LatestReachable
<1>1. IInv => LatestReachable
  BY DEF IInv, LatestOK, LatestReachable, Ahead, Arrived, InConn
<1> QED BY <1>1, Invariance, PTL

-----------------------------------------------------------------------------
(* An empty table just drawn has no selection, so that the first key does  *)
(* not look for its last row.                                              *)
KeysInv ==
  /\ presses \in 0 .. 2
  /\ up => ~panicked
  /\ up /\ drawn /\ rows = << >> /\ presses = 0 => selected = NoRow
  /\ PanicTakesTwoKeys

(* The TUI's thread can not panic on a single key as long as its table is  *)
(* drawn: a panic needs two keys between two drawings of an empty table.   *)
THEOREM PanicTakesTwoKeysHolds == Spec => []PanicTakesTwoKeys
<1> USE DEF KeysInv, PanicTakesTwoKeys
<1>1. Init => KeysInv
  BY DEF Init, TuiInit
<1>2. KeysInv /\ [Next]_allVars => KeysInv'
  <2> SUFFICES ASSUME KeysInv, [Next]_allVars PROVE KeysInv'
    OBVIOUS
  <2>1. CASE UNCHANGED << rows, selected, up, tuiHistory >>
    BY <2>1 DEF NoRow, tuiHistory
  <2>2. CASE Turn
    BY <2>2 DEF Turn, Draw, NoRow
  <2>3. ASSUME NEW key, Scroll(key) PROVE KeysInv'
    <3>1. CASE rows = << >> /\ NeedsLast(key) /\ End /\ panicked' = TRUE /\ UNCHANGED drawn
      <4>1. drawn => presses # 0
        BY <2>3, <3>1 DEF NeedsLast, Scroll
      <4>2. presses' = IF presses < 2 THEN presses + 1 ELSE presses
        BY <2>3, <3>1 DEF Scroll
      <4> QED BY <3>1, <4>1, <4>2 DEF End
    <3>2. CASE UNCHANGED << rows, up, drawn, panicked >>
      BY <2>3, <3>2 DEF Scroll, NoRow
    <3> QED BY <2>3, <3>1, <3>2 DEF Scroll
  <2>4. CASE Leave \/ Fail
    BY <2>4 DEF Leave, Fail, EndQuietly, End
  <2>5. CASE Quit
    BY <2>1, <2>5 DEF Quit
  <2> QED
    BY <2>1, <2>2, <2>3, <2>4, <2>5
       DEF Next, TuiStep, TuiNext, allVars, tuiVars, Start, HandleTlsMsg, Accept,
           HandleConnection, LogLine, Register, SendAdd, SendRow, Unregister, SendRemove,
           Cleanup
<1>3. KeysInv => PanicTakesTwoKeys
  OBVIOUS
<1> QED BY <1>1, <1>2, <1>3, PTL DEF Spec
=============================================================================
