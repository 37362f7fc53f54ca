------------------------------ MODULE Datagrams ------------------------------
(***************************************************************************)
(* The datagrams on their way between the chat server of lab11 and its     *)
(* clients.  UDP may lose, duplicate and reorder them: a set from which    *)
(* any element can be delivered next, and once more afterwards.            *)
(*                                                                         *)
(* A message of lab11/src/common.h keeps its type, its sender and its      *)
(* recipient, as far as they are looked at; the text is left out.          *)
(***************************************************************************)
EXTENDS Naturals, FiniteSets

CONSTANTS Addr,       \* the clients' sockets
          Id, NoId,   \* client identifiers, and the empty string
          Invalid,    \* the identifiers that validate_client_id refuses
          Lossy,      \* whether datagrams are lost and duplicated
          NET_CAP     \* a bound: datagrams on their way in a lossy network

ASSUME DatagramsAssumption == 
    /\ Invalid \subseteq Id /\ NoId \notin Id
    /\ "server" \notin Addr
    /\ Lossy \in BOOLEAN
    /\ NET_CAP \in Nat

VARIABLE net

ToServer(a, type, sender, recipient) == 
    [to |-> "server", from |-> a, type |-> type, sender |-> sender, recipient |-> recipient]

ToClient(a, type) == [to |-> a, type |-> type]

Datagram == 
    [to : {"server"}, from : Addr, sender : Id, recipient : Id \cup {NoId},
     type : {"LIST", "2ALL", "2ONE", "STOP", "ALIVE_RESPONSE", "UNKNOWN", "GARBLED"}]
    \cup
    [to : Addr, type : {"CLIENT_LIST", "BROADCAST", "PRIVATE", "STOP", "ALIVE", "ERROR"}]

\* sendto: those of out that arrive join those on their way.
SendBeside(others, out) == 
    \E arriving \in IF Lossy THEN SUBSET out ELSE {out} : 
        /\ net' = others \cup arriving
        /\ Lossy => arriving \subseteq others \/ Cardinality(net') <= NET_CAP

Send(out) == SendBeside(net, out)

\* recvfrom
Receive(m) == 
    /\ m \in net
    /\ net' \in {net \ {m}} \cup (IF Lossy THEN {net} ELSE {})

\* A datagram is lost, or reaches a socket that is closed.
Lose(m) == Lossy /\ net' = net \ {m}
=============================================================================
