---------------------------- MODULE MCProxyLife -----------------------------
(* Small instances of ProxyLife for TLC. *)
EXTENDS ProxyLife

OneName == [c \in Container |-> CHOOSE n \in Name : TRUE]
NoneWithin == [n \in Name |-> {}]
OneImage == [c \in Container |-> CHOOSE i \in Image : TRUE]
=============================================================================
