--------------------------- MODULE UdpServerProofs ----------------------------
(***************************************************************************)
(* Proofs about the chat server over UDP, for any number of clients, slots *)
(* and datagrams, whatever is sent to it, and about the clients it is used *)
(* by.                                                                     *)
(***************************************************************************)
EXTENDS UdpServerAlone, UdpChat, FiniteSetTheorems, TLAPS

-----------------------------------------------------------------------------
(***************************************************************************)
(* The first free slot.                                                    *)
(***************************************************************************)
LEMMA LeastElement == 
    ASSUME NEW S, S \subseteq Nat, S # {}
    PROVE  \E x \in S : \A y \in S : x <= y
<1> DEFINE R == OpToRel(<, Nat)
<1>1. IsWellFoundedOn(R, Nat)
  BY NatLessThanWellFounded
<1> HIDE DEF R
<1>2. PICK x \in S : \A y \in S : ~ (<<y, x>> \in R)
  BY <1>1, WFMin
<1>3. ASSUME NEW y \in S
      PROVE  x <= y
  <2>1. y < x => <<y, x>> \in R
    BY DEF R, OpToRel
  <2>2. ~(y < x)
    BY <1>2, <2>1
  <2>3. QED
    BY <2>2
<1>4. QED
  BY <1>3

\* Min(S \cup {MAX_CLIENTS}) is a slot only if it is one of S.
LEMMA FirstOfSlots == 
    ASSUME NEW S \in SUBSET Slots, NEW i \in Slots, i = Min(S \cup {MAX_CLIENTS})
    PROVE  i \in S
<1>1. S \cup {MAX_CLIENTS} \subseteq Nat
  BY ServerAssumption DEF Slots
<1>2. Min(S \cup {MAX_CLIENTS}) \in S \cup {MAX_CLIENTS}
  BY <1>1, LeastElement DEF Min
<1>3. i # MAX_CLIENTS
  BY ServerAssumption DEF Slots
<1>4. QED
  BY <1>2, <1>3

-----------------------------------------------------------------------------
(***************************************************************************)
(* The inductive invariant.                                                *)
(***************************************************************************)
MainLabel == {"loop", "recv", "register", "registering", "dispatch", "serve", "serving",
              "reply", "cleanup", "returned"}
KeepaliveLabel == {"loop", "sleep", "lock", "scan", "done"}

\* Two threads, each at one of its labels.
ThreadsOK == 
    /\ pc \in [{"main", "keepalive"} -> MainLabel \cup KeepaliveLabel]
    /\ pc["main"] \in MainLabel /\ pc["keepalive"] \in KeepaliveLabel

\* main has a message of a client as long as it works on one.
MessageInHand == 
    pc["main"] \in {"register", "registering", "dispatch", "serve", "serving", "reply"}
        => msg \in Datagram /\ msg.to = "server"

\* Whoever is in the table can be sent to.
Addressed == \A i \in Active : clients[i].addr \in Addr

\* As long as the socket is open the server and all of its slots hold its
\* number; a stop closes it before anything else is done about it, and main
\* leaves its loop only after that.
OneSocket == 
    /\ opened => server_socket = 3 /\ is_running /\ \A i \in Active : clients[i].socket_fd = 3
    /\ stopping \in {"lock", "join", "stopped"} => ~opened
    /\ pc["main"] \in {"cleanup", "returned"} => ~opened

Inv == OneSlotEach /\ ThreadsOK /\ MessageInHand /\ Addressed /\ OneSocket

-----------------------------------------------------------------------------
(***************************************************************************)
(* Types.                                                                  *)
(***************************************************************************)
Slot == [socket_fd : {3, -1}, client_id : (Id \ Invalid) \cup {NoId}, 
         addr : Addr \cup {NULL}, last_seen : 0 .. KEEPALIVE_INTERVAL + 1,
         inactive_count : 0 .. MAX_INACTIVE_COUNT - 1, is_active : BOOLEAN]

\* What is sent to those who can be sent to are datagrams.
LEMMA SendsDatagrams == 
    ASSUME net \subseteq Datagram, NEW out, out \subseteq Datagram, ServerSends(out)
    PROVE  net' \subseteq Datagram
BY DatagramsAssumption DEF ServerSends, Send, SendBeside

LEMMA ReplyIsDatagram == 
    ASSUME NEW a \in Addr, 
           NEW type \in {"CLIENT_LIST", "BROADCAST", "PRIVATE", "STOP", "ALIVE", "ERROR"}
    PROVE  ToClient(a, type) \in Datagram
BY DEF ToClient, Datagram

\* A message of a client.
LEMMA MessageFields == 
    ASSUME NEW m \in Datagram, m.to = "server"
    PROVE  m.from \in Addr /\ m.sender \in Id /\ m.recipient \in Id \cup {NoId}
BY DatagramsAssumption DEF Datagram

LEMMA MainGoes == 
    ASSUME ThreadsOK, NEW from, NEW to \in MainLabel, Goes("main", from, to)
    PROVE  ThreadsOK' /\ pc'["main"] = to /\ pc'["keepalive"] = pc["keepalive"]
BY DEF ThreadsOK, Goes

LEMMA KeepaliveGoes == 
    ASSUME ThreadsOK, NEW from, NEW to \in KeepaliveLabel, Goes("keepalive", from, to)
    PROVE  ThreadsOK' /\ pc'["keepalive"] = to /\ pc'["main"] = pc["main"]
BY DEF ThreadsOK, Goes

\* Every step keeps both threads at labels of theirs.
LEMMA ThreadsStep == 
    ASSUME ThreadsOK, [Next]_vars
    PROVE  ThreadsOK'
<1> USE DEF MainLabel, KeepaliveLabel
<1>1. CASE MainNext
  <2>1. PICK from, to \in MainLabel : Goes("main", from, to)
    BY <1>1 DEF MainNext, MainLoops, MainReceives, Locks, MainHears, MainAdds, MainRefuses, MainPassesStop,
       MainDispatches, MainLists, MainReplies, MainRelays, MainRemoves, MainCleansUp, MainUnlocks
  <2>2. QED
    BY <2>1, MainGoes
<1>2. CASE KeepaliveNext
  <2>1. PICK from, to \in KeepaliveLabel : Goes("keepalive", from, to)
    BY <1>2 DEF KeepaliveNext, KeepaliveLoops, KeepaliveWakes, Locks, KeepaliveScans
  <2>2. QED
    BY <2>1, KeepaliveGoes
<1>3. CASE HandlerNext
  BY <1>3 DEF HandlerNext, StopClosesSocket, StopClosesClients, StopJoins, ThreadsOK
<1>4. CASE Tick \/ (\E t \in SignalTo : Signal(t)) \/ SomebodySends \/ Loses \/ UNCHANGED vars
  BY <1>4 DEF Tick, Signal, SomebodySends, Loses, serverVars, vars, ThreadsOK
<1>5. QED
  BY <1>1, <1>2, <1>3, <1>4 DEF Next, ServerNext

\* What is added to the network are datagrams.
LEMMA NetStep == 
    ASSUME Inv, [Next]_vars
    PROVE  net' \subseteq Datagram
<1> USE DEF MainLabel, KeepaliveLabel
<1>0. /\ net \subseteq Datagram /\ {} \subseteq Datagram
      /\ \A i \in Active : clients[i].addr \in Addr
      /\ pc["main"] \in {"registering", "dispatch", "serving", "reply"} => msg.from \in Addr
  BY MessageFields DEF Inv, OneSlotEach, ServerTypeOK, Addressed, MessageInHand
<1>1. \A a \in Addr : \A type \in {"CLIENT_LIST", "BROADCAST", "PRIVATE", "STOP", "ALIVE", "ERROR"} :
        ToClient(a, type) \in Datagram
  BY ReplyIsDatagram
<1>2. CASE net' \subseteq net
  BY <1>0, <1>2
<1>3. CASE \E out : ServerSends(out) /\ out \subseteq Datagram
  BY <1>0, <1>3, SendsDatagrams
<1>4. CASE MainRefuses
  BY <1>0, <1>1, <1>3, <1>4 DEF MainRefuses, MainUnlocks, Goes, Runs
<1>5. CASE MainDispatches
  BY <1>0, <1>1, <1>3, <1>5 DEF MainDispatches, Goes, Runs
<1>6. CASE MainReplies
  BY <1>0, <1>1, <1>3, <1>6 DEF MainReplies, Goes, Runs
<1>7. CASE MainRelays
  BY <1>0, <1>1, <1>3, <1>7 DEF MainRelays, MainUnlocks, Goes, Runs, find_client_by_id
<1>8. CASE KeepaliveScans
  <2>1. {ToClient(clients[i].addr, "ALIVE") : i \in Pinged} \subseteq Datagram
    BY <1>0, <1>1 DEF Pinged, Stale
  <2>2. QED
    BY <1>3, <1>8, <2>1 DEF KeepaliveScans
<1>9. CASE StopClosesClients
  BY <1>0, <1>1, <1>3, <1>9 DEF StopClosesClients
<1>10. CASE SomebodySends
  BY <1>0, <1>10 DEF SomebodySends
<1>11. CASE Loses \/ \E m \in net : MainReceives(m)
  BY <1>2, <1>11 DEF Loses, Lose, MainReceives, Receive
<1>12. CASE MainLoops \/ Locks("main", "register", "registering") \/ Locks("main", "serve", "serving")
            \/ MainHears \/ MainAdds \/ MainPassesStop \/ MainLists \/ MainRemoves \/ MainCleansUp
  BY <1>2, <1>12 DEF MainLoops, Locks, MainHears, MainAdds, MainPassesStop, MainLists, MainRemoves, MainCleansUp
<1>13. CASE KeepaliveLoops \/ KeepaliveWakes \/ Locks("keepalive", "lock", "scan") \/ Tick
            \/ (\E t \in SignalTo : Signal(t)) \/ StopClosesSocket \/ StopJoins \/ UNCHANGED vars
  BY <1>2, <1>13 DEF KeepaliveLoops, KeepaliveWakes, Locks, Tick, Signal, StopClosesSocket, StopJoins, vars
<1>14. QED
  BY <1>4, <1>5, <1>6, <1>7, <1>8, <1>9, <1>10, <1>11, <1>12, <1>13 
     DEF Next, ServerNext, MainNext, KeepaliveNext, HandlerNext

-----------------------------------------------------------------------------
(***************************************************************************)
(* What the steps do to the table: the actions fall into five kinds.       *)
(***************************************************************************)
SameClients(S) == 
    \A i \in S : clients'[i].client_id = clients[i].client_id /\ clients'[i].addr \in Addr
                 /\ clients'[i].socket_fd = clients[i].socket_fd

Kept == Active' = Active /\ SameClients(Active) /\ client_count' = client_count

Added == \E i \in Slots \ Active : 
    /\ Active' = Active \cup {i} /\ SameClients(Active)
    /\ \A j \in Active : clients[j].client_id # clients'[i].client_id
    /\ clients'[i].client_id # NoId /\ clients'[i].addr \in Addr
    /\ clients'[i].socket_fd = server_socket
    /\ client_count' = client_count + 1

Removed == \E gone \in SUBSET Active : 
    /\ Active' = Active \ gone /\ SameClients(Active')
    /\ client_count' = client_count - Cardinality(gone)

Emptied == Active' = {} /\ client_count' = client_count /\ stopping' = "join"

TableTyped == clients' \in [Slots -> Slot] /\ client_count' \in Int

Typed == ServerTypeOK /\ clients \in [Slots -> Slot] /\ Active \subseteq Slots

LEMMA InvTyped == Inv => Typed
BY DEF Inv, OneSlotEach, ServerTypeOK, Typed, Slot, Active

LEMMA TableUnchanged == 
    ASSUME Inv, UNCHANGED tableVars
    PROVE  TableTyped /\ Kept
BY InvTyped DEF tableVars, TableTyped, Kept, SameClients, Inv, Addressed, Active, Typed, ServerTypeOK

LEMMA HearsKeeps == 
    ASSUME Inv, MainHears
    PROVE  TableTyped /\ Kept
<1>1. PICK i \in Slots : 
        /\ i = Min(find_client_by_id(msg.sender) \cup {MAX_CLIENTS})
        /\ clients' = Heard(i)
  BY DEF MainHears
<1>2. Typed /\ msg.from \in Addr /\ client_count' = client_count
  BY InvTyped, MessageFields DEF MainHears, MainUnlocks, Goes, Runs, Inv, MessageInHand
<1>3. i \in Active
  BY <1>1, <1>2, FirstOfSlots DEF find_client_by_id, Typed
<1> DEFINE heard == [clients[i] EXCEPT !.addr = msg.from, !.last_seen = 0, !.inactive_count = 0]
<1>4. /\ clients' \in [Slots -> Slot]
      /\ \A j \in Slots : /\ clients'[j].client_id = clients[j].client_id
                          /\ clients'[j].is_active = clients[j].is_active
                          /\ clients'[j].socket_fd = clients[j].socket_fd
                          /\ clients'[j].addr = IF j = i THEN msg.from ELSE clients[j].addr
  <2>1. /\ heard \in Slot /\ heard.addr = msg.from
        /\ heard.client_id = clients[i].client_id
        /\ heard.is_active = clients[i].is_active
        /\ heard.socket_fd = clients[i].socket_fd
    <3>1. clients[i] \in Slot /\ 0 \in 0 .. MAX_INACTIVE_COUNT - 1 /\ 0 \in 0 .. KEEPALIVE_INTERVAL + 1
      BY <1>2, ServerAssumption DEF Typed
    <3>2. QED
      BY <1>2, <3>1 DEF Slot
  <2>2. clients' = [clients EXCEPT ![i] = heard]
    BY <1>1, <1>2 DEF Heard, Typed, Slot
  <2> HIDE DEF heard
  <2>3. \A j \in Slots : clients'[j] = IF j = i THEN heard ELSE clients[j]
    BY <1>2, <2>2 DEF Typed
  <2>4. QED
    BY <1>2, <2>1, <2>2, <2>3 DEF Typed
<1>5. QED
  BY <1>2, <1>4 DEF Kept, SameClients, TableTyped, Inv, Addressed, Active, Typed, ServerTypeOK

LEMMA AddsAdds == 
    ASSUME Inv, MainAdds
    PROVE  TableTyped /\ Added
<1> DEFINE new == [socket_fd |-> server_socket, client_id |-> msg.sender, addr |-> msg.from,
                   last_seen |-> 0, inactive_count |-> 0, is_active |-> TRUE]
<1>1. PICK i \in Slots : 
        /\ i = Min((Slots \ Active) \cup {MAX_CLIENTS})
        /\ clients' = [clients EXCEPT ![i] = new]
  BY DEF MainAdds
<1>2. /\ Typed /\ msg.from \in Addr /\ msg.sender \in Id \ Invalid
      /\ client_count' = client_count + 1
  BY InvTyped, MessageFields DEF MainAdds, MainUnlocks, Goes, Runs, Inv, MessageInHand
<1>3. i \in Slots \ Active
  BY <1>1, FirstOfSlots
<1>4. new \in Slot /\ new.client_id # NoId /\ new.addr \in Addr /\ new.is_active
  BY <1>2, ServerAssumption, DatagramsAssumption DEF Slot, Typed, ServerTypeOK
<1>5. /\ clients' \in [Slots -> Slot]
      /\ \A j \in Slots : clients'[j] = IF j = i THEN new ELSE clients[j]
  BY <1>1, <1>2, <1>4 DEF Typed
<1>6. Active' = Active \cup {i}
  BY <1>3, <1>4, <1>5 DEF Active
<1>7. \A j \in Active : clients[j].client_id # new.client_id
  BY DEF MainAdds, find_client_by_id
<1>8. SameClients(Active)
  BY <1>2, <1>3, <1>5 DEF SameClients, Inv, Addressed, Typed
<1>9. QED
  BY <1>2, <1>3, <1>4, <1>5, <1>6, <1>7, <1>8 DEF Added, TableTyped, Typed, ServerTypeOK

LEMMA RemovingRemoves == 
    ASSUME Inv, NEW table \in [Slots -> Slot], NEW gone \in SUBSET Active,
           \A i \in Slots : /\ table[i].client_id = clients[i].client_id
                            /\ table[i].is_active = clients[i].is_active
                            /\ table[i].addr = clients[i].addr
                            /\ table[i].socket_fd = clients[i].socket_fd,
           remove_clients(table, gone)
    PROVE  TableTyped /\ Removed
<1> DEFINE removed(i) == [table[i] EXCEPT !.socket_fd = -1, !.is_active = FALSE, 
                                          !.inactive_count = 0, !.client_id = NoId]
<1>1. \A i \in Slots : clients'[i] = IF i \in gone THEN removed(i) ELSE table[i]
  BY DEF remove_clients
<1>2. Typed /\ client_count' = client_count - Cardinality(gone) /\ Cardinality(gone) \in Int
  <2>1. IsFiniteSet(Slots)
    BY FS_Interval, ServerAssumption DEF Slots
  <2>2. Cardinality(gone) \in Int
    BY <2>1, FS_Subset, FS_CardinalityType DEF Active
  <2>3. QED
    BY <2>2, InvTyped DEF remove_clients
<1>3. ASSUME NEW i \in Slots
      PROVE  removed(i) \in Slot /\ ~removed(i).is_active
  <2>1. table[i] \in Slot /\ 0 \in 0 .. MAX_INACTIVE_COUNT - 1
    BY ServerAssumption
  <2>2. QED
    BY <2>1 DEF Slot
<1>4. clients' \in [Slots -> Slot]
  BY <1>1, <1>3 DEF remove_clients
<1>5. Active' = Active \ gone
  BY <1>1, <1>3 DEF Active
<1>6. SameClients(Active')
  BY <1>1, <1>5 DEF SameClients, Inv, Addressed, Active
<1>7. QED
  BY <1>2, <1>4, <1>5, <1>6 DEF Removed, TableTyped, Typed, ServerTypeOK

LEMMA MainRemovesRemoves == 
    ASSUME Inv, MainRemoves
    PROVE  TableTyped /\ Removed
<1>1. find_client_by_id(msg.sender) \in SUBSET Active /\ clients \in [Slots -> Slot]
  BY InvTyped DEF find_client_by_id, Typed
<1>2. QED
  BY <1>1, RemovingRemoves DEF MainRemoves

\* The table as it is when keepalive has counted its pings.
ScannedTable == [i \in Slots |-> IF i \in Pinged THEN [clients[i] EXCEPT !.inactive_count = @ + 1]
                                                 ELSE clients[i]]

LEMMA ScanTable == 
    ASSUME Inv
    PROVE  /\ ScannedTable \in [Slots -> Slot]
           /\ \A i \in Slots : /\ ScannedTable[i].client_id = clients[i].client_id
                               /\ ScannedTable[i].is_active = clients[i].is_active
                               /\ ScannedTable[i].addr = clients[i].addr
                               /\ ScannedTable[i].socket_fd = clients[i].socket_fd
<1> DEFINE pinged(i) == IF i \in Pinged THEN [clients[i] EXCEPT !.inactive_count = @ + 1] ELSE clients[i]
<1>1. Typed
  BY InvTyped
<1>2. ASSUME NEW i \in Slots
      PROVE  /\ pinged(i) \in Slot
             /\ pinged(i).client_id = clients[i].client_id
             /\ pinged(i).is_active = clients[i].is_active
             /\ pinged(i).addr = clients[i].addr
             /\ pinged(i).socket_fd = clients[i].socket_fd
  <2>1. CASE i \in Pinged
    <3>1. clients[i].inactive_count + 1 < MAX_INACTIVE_COUNT
      BY <1>1, <2>1, ServerAssumption DEF Pinged, Silent, Typed, Slot
    <3>2. QED
      BY <1>1, <2>1, <3>1, ServerAssumption DEF Typed, Slot
  <2>2. CASE i \notin Pinged
    BY <1>1, <2>2 DEF Typed
  <2>3. QED
    BY <2>1, <2>2
<1>3. QED
  BY <1>2 DEF ScannedTable

LEMMA ScanRemoves == 
    ASSUME Inv, KeepaliveScans
    PROVE  TableTyped /\ Removed
<1>1. remove_clients(ScannedTable, Silent \cup Unreachable)
  BY DEF KeepaliveScans, ScannedTable
<1>2. Silent \cup Unreachable \in SUBSET Active
  BY DEF Silent, Unreachable, Stale
<1>3. QED
  BY <1>1, <1>2, ScanTable, RemovingRemoves

LEMMA TickKeeps == 
    ASSUME Inv, Tick
    PROVE  TableTyped /\ Kept
<1> DEFINE aged(i) == IF clients[i].is_active /\ clients[i].last_seen <= KEEPALIVE_INTERVAL
                        THEN [clients[i] EXCEPT !.last_seen = @ + 1] ELSE clients[i]
<1>1. Typed /\ client_count' = client_count /\ clients' = [i \in Slots |-> aged(i)]
  BY InvTyped DEF Tick
<1>2. ASSUME NEW i \in Slots
      PROVE  /\ aged(i) \in Slot
             /\ aged(i).client_id = clients[i].client_id
             /\ aged(i).is_active = clients[i].is_active
             /\ aged(i).addr = clients[i].addr
             /\ aged(i).socket_fd = clients[i].socket_fd
  BY <1>1, ServerAssumption DEF Typed, Slot
<1>3. QED
  BY <1>1, <1>2 DEF Kept, TableTyped, SameClients, Active, Typed, ServerTypeOK, Inv, Addressed

LEMMA StopEmpties == 
    ASSUME Inv, StopClosesClients
    PROVE  TableTyped /\ Emptied
<1> DEFINE closed(i) == IF i \in Active THEN [clients[i] EXCEPT !.socket_fd = -1, !.is_active = FALSE]
                                        ELSE clients[i]
<1>1. /\ Typed /\ client_count' = client_count /\ stopping' = "join"
      /\ clients' = [i \in Slots |-> closed(i)]
  BY InvTyped DEF StopClosesClients
<1>2. \A i \in Slots : closed(i) \in Slot /\ ~closed(i).is_active
  BY <1>1 DEF Typed, Slot, Active
<1>3. QED
  BY <1>1, <1>2 DEF Emptied, TableTyped, Active, Typed, ServerTypeOK

LEMMA TableStep == 
    ASSUME Inv, [Next]_vars
    PROVE  TableTyped /\ (Kept \/ Added \/ Removed \/ Emptied)
<1>1. CASE UNCHANGED tableVars
  BY <1>1, TableUnchanged
<1>2. CASE MainLoops \/ (\E m \in net : MainReceives(m))
            \/ Locks("main", "register", "registering") \/ Locks("main", "serve", "serving")
            \/ MainRefuses \/ MainPassesStop \/ MainDispatches \/ MainLists \/ MainReplies \/ MainRelays
            \/ MainCleansUp
  BY <1>1, <1>2 DEF MainLoops, MainReceives, Locks, MainRefuses, MainPassesStop, MainDispatches, MainLists,
     MainReplies, MainRelays, MainCleansUp
<1>3. CASE KeepaliveLoops \/ KeepaliveWakes \/ Locks("keepalive", "lock", "scan")
            \/ (\E t \in SignalTo : Signal(t)) \/ StopClosesSocket \/ StopJoins 
            \/ SomebodySends \/ Loses \/ UNCHANGED vars
  BY <1>1, <1>3 DEF KeepaliveLoops, KeepaliveWakes, Locks, Signal, StopClosesSocket, StopJoins,
     SomebodySends, Loses, serverVars, tableVars, vars
<1>4. QED
  BY <1>2, <1>3, HearsKeeps, AddsAdds, MainRemovesRemoves, ScanRemoves, TickKeeps, StopEmpties
     DEF Next, ServerNext, MainNext, KeepaliveNext, HandlerNext

\* The variables beside the table.
ScalarsTyped == 
    /\ is_running \in BOOLEAN /\ server_socket \in {3, -1} /\ opened \in BOOLEAN
    /\ clients_mutex \in {NULL, "main", "keepalive"}
    /\ msg \in Datagram \cup {NULL}
    /\ handler \in {NULL} \cup SignalTo
    /\ stopping \in {"not", "begin", "lock", "join", "stopped"}
    /\ slept \in 0 .. KEEPALIVE_INTERVAL

LEMMA ScalarsStep == 
    ASSUME Inv, [Next]_vars
    PROVE  ScalarsTyped'
<1>0. ScalarsTyped /\ net \subseteq Datagram
  BY DEF Inv, OneSlotEach, ServerTypeOK, ScalarsTyped
<1> USE <1>0, ServerAssumption DEF ScalarsTyped
<1>1. CASE MainNext
  <2>1. CASE \E m \in net : MainReceives(m)
    BY <2>1 DEF MainReceives, socketVars, tableVars, handlerVars
  <2>2. CASE MainLoops \/ Locks("main", "register", "registering") \/ Locks("main", "serve", "serving")
              \/ MainDispatches \/ MainReplies \/ MainCleansUp
    BY <2>2 DEF MainLoops, Locks, MainDispatches, MainReplies, MainCleansUp, socketVars, handlerVars
  <2>3. CASE MainHears \/ MainAdds \/ MainRefuses \/ MainPassesStop \/ MainLists \/ MainRelays
    BY <2>3 DEF MainHears, MainAdds, MainRefuses, MainPassesStop, MainLists, MainRelays, MainUnlocks,
       socketVars, handlerVars
  <2>4. CASE MainRemoves
    BY <2>4 DEF MainRemoves, MainUnlocks, remove_clients, handlerVars
  <2>5. QED
    BY <1>1, <2>1, <2>2, <2>3, <2>4 DEF MainNext
<1>2. CASE KeepaliveNext
  <2>1. CASE KeepaliveLoops \/ KeepaliveWakes
    BY <2>1 DEF KeepaliveLoops, KeepaliveWakes, socketVars, handlerVars
  <2>2. CASE Locks("keepalive", "lock", "scan")
    BY <2>2 DEF Locks, socketVars, handlerVars
  <2>3. CASE KeepaliveScans
    BY <2>3 DEF KeepaliveScans, remove_clients, handlerVars
  <2>4. QED
    BY <1>2, <2>1, <2>2, <2>3 DEF KeepaliveNext
<1>3. CASE HandlerNext
  <2>1. CASE StopClosesSocket
    BY <2>1 DEF StopClosesSocket
  <2>2. CASE StopClosesClients
    BY <2>2 DEF StopClosesClients, socketVars
  <2>3. CASE StopJoins
    BY <2>3 DEF StopJoins, socketVars
  <2>4. QED
    BY <1>3, <2>1, <2>2, <2>3 DEF HandlerNext
<1>4. CASE Tick \/ \E t \in SignalTo : Signal(t)
  BY <1>4 DEF Tick, Signal, socketVars, handlerVars
<1>5. CASE SomebodySends \/ Loses \/ UNCHANGED vars
  BY <1>5 DEF SomebodySends, Loses, vars, serverVars, socketVars, handlerVars
<1>6. QED
  BY <1>1, <1>2, <1>3, <1>4, <1>5 DEF Next, ServerNext

LEMMA TypesStep == 
    ASSUME Inv, [Next]_vars
    PROVE  ServerTypeOK'
<1>1. ScalarsTyped' /\ TableTyped /\ net' \subseteq Datagram
  BY ScalarsStep, TableStep, NetStep
<1>2. ThreadsOK'
  BY ThreadsStep DEF Inv
<1>3. QED
  BY <1>1, <1>2 DEF ServerTypeOK, ScalarsTyped, TableTyped, ThreadsOK, MainLabel, KeepaliveLabel, Slot

-----------------------------------------------------------------------------
(***************************************************************************)
(* The other parts of the invariant.                                       *)
(***************************************************************************)
LEMMA MessageStep == 
    ASSUME Inv, [Next]_vars
    PROVE  MessageInHand'
<1>0. ThreadsOK /\ MessageInHand /\ net \subseteq Datagram
  BY DEF Inv, OneSlotEach, ServerTypeOK
<1> USE <1>0 DEF MessageInHand
<1>1. CASE \E m \in net : MainReceives(m)
  BY <1>1 DEF MainReceives, Goes, ThreadsOK
<1>2. CASE MainLoops \/ Locks("main", "register", "registering") \/ Locks("main", "serve", "serving")
            \/ MainDispatches \/ MainReplies \/ MainCleansUp
  BY <1>2 DEF MainLoops, Locks, MainDispatches, MainReplies, MainCleansUp, Goes, Runs, ThreadsOK
<1>3. CASE MainHears \/ MainAdds \/ MainRefuses \/ MainPassesStop \/ MainLists \/ MainRelays \/ MainRemoves
  BY <1>3 DEF MainHears, MainAdds, MainRefuses, MainPassesStop, MainLists, MainRelays, MainRemoves, 
     MainUnlocks, Goes, Runs, ThreadsOK
<1>4. CASE KeepaliveNext
  BY <1>4 DEF KeepaliveNext, KeepaliveLoops, KeepaliveWakes, Locks, KeepaliveScans, Goes, Runs, ThreadsOK
<1>5. CASE HandlerNext
  BY <1>5 DEF HandlerNext, StopClosesSocket, StopClosesClients, StopJoins, ThreadsOK
<1>6. CASE Tick \/ (\E t \in SignalTo : Signal(t)) \/ SomebodySends \/ Loses \/ UNCHANGED vars
  BY <1>6 DEF Tick, Signal, SomebodySends, Loses, vars, serverVars
<1>7. QED
  BY <1>1, <1>2, <1>3, <1>4, <1>5, <1>6 DEF Next, ServerNext, MainNext

LEMMA AddressedStep == 
    ASSUME Inv, [Next]_vars
    PROVE  Addressed'
<1>1. Addressed /\ (Kept \/ Added \/ Removed \/ Emptied)
  BY TableStep DEF Inv
<1>2. QED
  BY <1>1 DEF Addressed, Kept, Added, Removed, Emptied, SameClients

\* Where the numbers of the socket may change.
Closing == 
    /\ opened' => /\ opened 
                  /\ server_socket' = server_socket /\ is_running' = is_running
    /\ stopping' \in {"lock", "join", "stopped"} 
         => stopping \in {"lock", "join", "stopped"} \/ (stopping = "begin" /\ ~opened')
    /\ pc'["main"] \in {"cleanup", "returned"} => pc["main"] \in {"cleanup", "returned"} \/ ~opened
    /\ (opened /\ ~opened') => stopping' = "lock" \/ MainRemoves \/ KeepaliveScans

LEMMA MainLeaves == 
    ASSUME Inv, [Next]_vars, pc'["main"] \in {"cleanup", "returned"}
    PROVE  pc["main"] \in {"cleanup", "returned"} \/ ~opened
<1>0. ThreadsOK /\ (opened => is_running)
  BY DEF Inv, OneSocket
<1>1. CASE MainNext
  <2>1. CASE MainLoops \/ MainCleansUp
    BY <1>0, <2>1 DEF MainLoops, MainCleansUp, Goes, Runs, ThreadsOK, Inv, OneSocket
  <2>2. CASE ~(MainLoops \/ MainCleansUp)
    <3>1. PICK from, to \in MainLabel \ {"cleanup", "returned"} : Goes("main", from, to)
      BY <1>1, <2>2 DEF MainNext, MainReceives, Locks, MainHears, MainAdds, MainRefuses, MainPassesStop,
         MainDispatches, MainLists, MainReplies, MainRelays, MainRemoves, MainUnlocks, MainLabel
    <3>2. pc'["main"] = to
      BY <3>1, MainGoes DEF Inv
    <3>3. QED
      BY <3>1, <3>2
  <2>3. QED
    BY <2>1, <2>2
<1>2. CASE KeepaliveNext
  <2>1. PICK from, to \in KeepaliveLabel : Goes("keepalive", from, to)
    BY <1>2 DEF KeepaliveNext, KeepaliveLoops, KeepaliveWakes, Locks, KeepaliveScans, KeepaliveLabel
  <2>2. QED
    BY <2>1, KeepaliveGoes DEF Inv
<1>3. CASE HandlerNext
  BY <1>3 DEF HandlerNext, StopClosesSocket, StopClosesClients, StopJoins, Inv, ThreadsOK
<1>4. CASE Tick \/ (\E t \in SignalTo : Signal(t)) \/ SomebodySends \/ Loses \/ UNCHANGED vars
  BY <1>4 DEF Tick, Signal, SomebodySends, Loses, serverVars, vars
<1>5. QED
  BY <1>1, <1>2, <1>3, <1>4 DEF Next, ServerNext

LEMMA ClosingStep == 
    ASSUME Inv, [Next]_vars
    PROVE  Closing
<1>0. /\ opened \in BOOLEAN /\ stopping \in {"not", "begin", "lock", "join", "stopped"}
      /\ opened => server_socket = 3
  BY DEF Inv, OneSlotEach, ServerTypeOK, OneSocket
<1> USE <1>0, MainLeaves DEF Closing
<1>1. CASE UNCHANGED <<is_running, socketVars, handlerVars>>
  BY <1>1 DEF socketVars, handlerVars
<1>2. CASE (\E m \in net : MainReceives(m)) \/ MainLoops \/ MainHears \/ MainAdds \/ MainRefuses
            \/ Locks("main", "register", "registering") \/ Locks("main", "serve", "serving")
            \/ MainDispatches \/ MainReplies \/ MainPassesStop \/ MainLists \/ MainRelays
  BY <1>1, <1>2 DEF MainLoops, MainReceives, Locks, MainHears, MainAdds, MainRefuses, MainPassesStop, 
     MainDispatches, MainLists, MainReplies, MainRelays
<1>3. CASE MainRemoves \/ KeepaliveScans
  BY <1>3 DEF MainRemoves, KeepaliveScans, remove_clients, handlerVars
<1>4. CASE MainCleansUp
  <2>1. ~opened
    BY <1>4 DEF MainCleansUp, Goes, Runs, Inv, OneSocket
  <2>2. QED
    BY <1>4, <2>1 DEF MainCleansUp, handlerVars
<1>5. CASE KeepaliveLoops \/ KeepaliveWakes \/ Locks("keepalive", "lock", "scan") \/ Tick
            \/ SomebodySends \/ Loses \/ UNCHANGED vars
  BY <1>1, <1>5 DEF KeepaliveLoops, KeepaliveWakes, Locks, Tick, SomebodySends, Loses, serverVars, vars
<1>6. CASE (\E t \in SignalTo : Signal(t)) \/ HandlerNext
  <2>1. CASE \E t \in SignalTo : Signal(t)
    BY <2>1 DEF Signal, socketVars
  <2>2. CASE StopClosesSocket
    BY <2>2 DEF StopClosesSocket
  <2>3. CASE StopClosesClients
    BY <2>3 DEF StopClosesClients, socketVars
  <2>4. CASE StopJoins
    BY <2>4 DEF StopJoins, socketVars
  <2>5. QED
    BY <1>6, <2>1, <2>2, <2>3, <2>4 DEF HandlerNext
<1>7. QED
  BY <1>2, <1>3, <1>4, <1>5, <1>6 DEF Next, ServerNext, MainNext, KeepaliveNext

LEMMA OneSocketStep == 
    ASSUME Inv, [Next]_vars
    PROVE  OneSocket'
<1>1. OneSocket /\ Closing /\ (Kept \/ Added \/ Removed \/ Emptied)
  BY ClosingStep, TableStep DEF Inv
<1>2. CASE opened'
  <2>1. opened /\ server_socket' = 3 /\ is_running' /\ \A i \in Active : clients[i].socket_fd = 3
    BY <1>1, <1>2 DEF OneSocket, Closing
  <2>2. \A i \in Active' : clients'[i].socket_fd = 3
    BY <1>1, <1>2, <2>1 DEF OneSocket, Closing, Kept, Added, Removed, Emptied, SameClients
  <2>3. QED
    BY <1>1, <1>2, <2>1, <2>2 DEF OneSocket, Closing
<1>3. CASE ~opened'
  BY <1>3 DEF OneSocket
<1>4. QED
  BY <1>2, <1>3

\* A slot for every client and the count of them.
LEMMA SlotsStep == 
    ASSUME Inv, [Next]_vars
    PROVE  OneSlotEach'
<1> DEFINE n == Cardinality(Active)
           told == stopping \in {"join", "stopped"}
<1>1. /\ Active \in SUBSET Slots /\ IsFiniteSet(Active) /\ n \in Nat /\ client_count \in Int
      /\ client_count >= n /\ (~told => client_count = n)
      /\ \A i, j \in Active : clients[i].client_id = clients[j].client_id => i = j
      /\ \A i \in Active : clients[i].client_id # NoId
  <2>1. IsFiniteSet(Slots)
    BY FS_Interval, ServerAssumption DEF Slots
  <2>2. Active \in SUBSET Slots
    BY DEF Active
  <2>3. IsFiniteSet(Active) /\ n \in Nat
    BY <2>1, <2>2, FS_Subset, FS_CardinalityType
  <2>4. QED
    BY <2>2, <2>3 DEF Inv, OneSlotEach, ServerTypeOK
<1>2. told => told'
  <2>1. told => /\ \A t \in SignalTo : ~Signal(t)
                /\ ~StopClosesSocket
    BY DEF Signal, StopClosesSocket
  <2>2. QED
    BY <2>1 DEF Next, ServerNext, MainNext, MainLoops, MainReceives, Locks, MainHears, MainAdds, MainRefuses,
       MainPassesStop, MainDispatches, MainLists, MainReplies, MainRelays, MainRemoves, MainCleansUp,
       KeepaliveNext, KeepaliveLoops, KeepaliveWakes, KeepaliveScans, Tick, HandlerNext,
       StopClosesClients, StopJoins, SomebodySends, Loses, handlerVars, serverVars, vars
<1>3. SUFFICES /\ client_count' >= n' /\ (~told' => client_count' = n')
               /\ \A i, j \in Active' : clients'[i].client_id = clients'[j].client_id => i = j
               /\ \A i \in Active' : clients'[i].client_id # NoId
  <2>1. ServerTypeOK'
    BY TypesStep
  <2>2. NoId \notin {clients'[i].client_id : i \in Active'}
    BY <1>3
  <2>3. QED
    BY <1>3, <2>1, <2>2 DEF OneSlotEach
<1>4. CASE Kept
  BY <1>1, <1>2, <1>4 DEF Kept, SameClients
<1>5. CASE Added
  <2>1. PICK i \in Slots \ Active : 
          /\ Active' = Active \cup {i} /\ SameClients(Active)
          /\ \A j \in Active : clients[j].client_id # clients'[i].client_id
          /\ clients'[i].client_id # NoId
          /\ client_count' = client_count + 1
    BY <1>5 DEF Added
  <2>2. n' = n + 1
    BY <1>1, <2>1, FS_AddElement
  <2>3. client_count' >= n' /\ (~told' => client_count' = n')
    <3> HIDE DEF n, told
    <3>1. /\ client_count \in Int /\ n \in Nat /\ client_count >= n /\ (~told => client_count = n) 
          /\ (told => told') /\ client_count' = client_count + 1 /\ n' = n + 1
      BY <1>1, <1>2, <2>1, <2>2
    <3>2. QED
      BY <3>1
  <2>4. QED
    BY <1>1, <2>1, <2>3 DEF SameClients
<1>6. CASE Removed
  <2>1. PICK gone \in SUBSET Active : 
          /\ Active' = Active \ gone /\ SameClients(Active')
          /\ client_count' = client_count - Cardinality(gone)
    BY <1>6 DEF Removed
  <2>2. /\ Cardinality(Active \ gone) = n - Cardinality(Active \cap gone)
        /\ Active \cap gone = gone
    BY <1>1, <2>1, FS_Difference
  <2>3. Cardinality(gone) \in Nat
    BY <1>1, <2>1, FS_Subset, FS_CardinalityType
  <2>4. n' = n - Cardinality(gone)
    BY <2>1, <2>2
  <2>5. client_count' >= n' /\ (~told' => client_count' = n')
    <3> HIDE DEF n, told
    <3> DEFINE k == Cardinality(gone)
    <3>1. /\ client_count \in Int /\ n \in Nat /\ client_count >= n /\ (~told => client_count = n) 
          /\ (told => told') /\ client_count' = client_count - k /\ n' = n - k /\ k \in Nat
      BY <1>1, <1>2, <2>1, <2>3, <2>4
    <3> HIDE DEF k
    <3>2. QED
      BY <3>1
  <2>6. QED
    BY <1>1, <2>1, <2>5 DEF SameClients
<1>7. CASE Emptied
  BY <1>1, <1>7, FS_EmptySet DEF Emptied
<1>8. QED
  BY <1>4, <1>5, <1>6, <1>7, TableStep

LEMMA InvInit == Init => Inv
<1> SUFFICES ASSUME Init PROVE Inv
  OBVIOUS
<1>1. Active = {} /\ Cardinality(Active) = 0
  BY FS_EmptySet DEF Init, ServerInit, Active
<1>2. pc["main"] = "loop" /\ pc["keepalive"] = "loop" /\ ThreadsOK
  BY DEF Init, ServerInit, ThreadsOK, MainLabel, KeepaliveLabel
<1>3. ServerTypeOK
  <2>1. clients \in [Slots -> Slot]
    BY ServerAssumption DEF Init, ServerInit, Slot
  <2>2. QED
    BY <1>2, <2>1, ServerAssumption DEF Init, ServerInit, ServerTypeOK, Slot
<1>4. QED
  BY <1>1, <1>2, <1>3 DEF Init, ServerInit, Inv, OneSlotEach, MessageInHand, Addressed, OneSocket

LEMMA InvStep == Inv /\ [Next]_vars => Inv'
<1> SUFFICES ASSUME Inv, [Next]_vars PROVE Inv'
  OBVIOUS
<1>1. ThreadsOK'
  BY ThreadsStep DEF Inv
<1>2. QED
  BY <1>1, SlotsStep, MessageStep, AddressedStep, OneSocketStep DEF Inv

LEMMA Invariance == Spec => []Inv
BY InvInit, InvStep, PTL DEF Spec

\* However the two threads and server_stop interleave, no two slots are given to
\* one client, and client_count is the number of slots in use until a stop.
THEOREM EachClientHasOneSlot == Spec => []OneSlotEach
<1>1. Inv => OneSlotEach
  BY DEF Inv
<1>2. QED
  BY <1>1, Invariance, PTL

-----------------------------------------------------------------------------
(***************************************************************************)
(* What a leaving client does to the others.                               *)
(***************************************************************************)
SomebodyLeaves == \E i \in Slots : clients[i].is_active /\ ~clients'[i].is_active

\* The socket is closed with the first slot that is given up, and only so.
LEMMA RemovingCloses == 
    ASSUME Inv, NEW table \in [Slots -> Slot], NEW gone \in SUBSET Active,
           \A i \in Slots : table[i].is_active = clients[i].is_active,
           remove_clients(table, gone)
    PROVE  (SomebodyLeaves => ~opened') /\ (opened /\ ~opened' => SomebodyLeaves)
<1> DEFINE removed(i) == [table[i] EXCEPT !.socket_fd = -1, !.is_active = FALSE, 
                                          !.inactive_count = 0, !.client_id = NoId]
<1>1. /\ \A i \in Slots : clients'[i] = IF i \in gone THEN removed(i) ELSE table[i]
      /\ opened' = (opened /\ \A i \in gone : clients[i].socket_fd # 3)
  BY DEF remove_clients
<1>2. \A i \in Slots : ~removed(i).is_active
  BY DEF Slot
<1> HIDE DEF removed
<1>3. \A i \in Slots : clients[i].is_active /\ ~clients'[i].is_active <=> i \in gone
  BY <1>1, <1>2 DEF Active
<1>4. opened => \A i \in Active : clients[i].socket_fd = 3
  BY DEF Inv, OneSocket
<1>5. gone \subseteq Slots
  BY DEF Active
<1>6. SomebodyLeaves <=> gone # {}
  BY <1>3, <1>5 DEF SomebodyLeaves
<1>7. QED
  BY <1>1, <1>4, <1>6

LEMMA MainRemovesCloses == 
    ASSUME Inv, MainRemoves
    PROVE  (SomebodyLeaves => ~opened') /\ (opened /\ ~opened' => SomebodyLeaves)
<1>1. find_client_by_id(msg.sender) \in SUBSET Active /\ clients \in [Slots -> Slot]
  BY InvTyped DEF find_client_by_id, Typed
<1>2. remove_clients(clients, find_client_by_id(msg.sender))
  BY DEF MainRemoves
<1>3. QED
  BY <1>1, <1>2, RemovingCloses

LEMMA ScanCloses == 
    ASSUME Inv, KeepaliveScans
    PROVE  (SomebodyLeaves => ~opened') /\ (opened /\ ~opened' => SomebodyLeaves)
<1>1. remove_clients(ScannedTable, Silent \cup Unreachable)
  BY DEF KeepaliveScans, ScannedTable
<1>2. Silent \cup Unreachable \in SUBSET Active
  BY DEF Silent, Unreachable, Stale
<1>3. QED
  BY <1>1, <1>2, ScanTable, RemovingCloses

LEMMA LeavingCloses == 
    ASSUME Inv, [Next]_vars
    PROVE  (SomebodyLeaves => ~opened') /\ (opened /\ ~opened' => stopping' = "lock" \/ SomebodyLeaves)
<1>1. opened /\ ~opened' => stopping' = "lock" \/ MainRemoves \/ KeepaliveScans
  BY ClosingStep DEF Closing
<1>2. CASE MainRemoves \/ KeepaliveScans
  BY <1>1, <1>2, MainRemovesCloses, ScanCloses
<1>3. CASE StopClosesClients
  BY <1>1, <1>3 DEF StopClosesClients, Inv, OneSocket, socketVars
<1>4. CASE ~(MainRemoves \/ KeepaliveScans \/ StopClosesClients)
  <2>1. Active \subseteq Active'
    <3>1. CASE UNCHANGED clients
      BY <3>1 DEF Active
    <3>2. CASE MainHears \/ Tick \/ MainAdds
      BY <3>2, HearsKeeps, TickKeeps, AddsAdds DEF Kept, Added
    <3>3. CASE ~(MainHears \/ Tick \/ MainAdds)
      <4>1. UNCHANGED clients
        BY <1>4, <3>3 DEF Next, ServerNext, MainNext, KeepaliveNext, HandlerNext, 
           MainLoops, MainReceives, Locks, MainRefuses, MainPassesStop, MainDispatches, MainLists, 
           MainReplies, MainRelays, MainCleansUp, KeepaliveLoops, KeepaliveWakes, Signal, 
           StopClosesSocket, StopJoins, SomebodySends, Loses, serverVars, tableVars, vars
      <4>2. QED
        BY <3>1, <4>1
    <3>4. QED
      BY <3>2, <3>3
  <2>2. ~SomebodyLeaves
    BY <2>1 DEF SomebodyLeaves, Active
  <2>3. QED
    BY <1>1, <1>4, <2>2
<1>5. QED
  BY <1>2, <1>3, <1>4

\* What a step may do once the socket is closed.
DeafStays == 
    /\ ~opened'
    /\ pc["main"] # "recv" => pc'["main"] # "recv"
    /\ \A m \in net' \ net : m.to = "server"
    /\ msg = NULL /\ msg' # NULL => pc["main"] = "recv"

LEMMA NothingIsSent == 
    ASSUME ~opened, NEW out, ServerSends(out)
    PROVE  net' = net
BY DEF ServerSends, Send, SendBeside

LEMMA DeafStep == 
    ASSUME Inv, [Next]_vars, ~opened
    PROVE  DeafStays
<1>0. /\ ~opened'
      /\ \A out : ServerSends(out) => net' = net
  BY ClosingStep, NothingIsSent DEF Closing
<1> USE <1>0 DEF DeafStays
<1>1. CASE \E m \in net : MainReceives(m)
  BY <1>1 DEF MainReceives, Receive, Goes, Runs
<1>2. CASE MainLoops
  BY <1>2 DEF MainLoops, Goes, Runs, Inv, ThreadsOK
<1>3. CASE Locks("main", "register", "registering") \/ Locks("main", "serve", "serving")
            \/ MainDispatches \/ MainReplies \/ MainCleansUp
  BY <1>3 DEF Locks, MainDispatches, MainReplies, MainCleansUp, Goes, Runs, Inv, ThreadsOK
<1>4. CASE MainHears \/ MainAdds \/ MainRefuses \/ MainPassesStop \/ MainLists \/ MainRelays \/ MainRemoves
  BY <1>4 DEF MainHears, MainAdds, MainRefuses, MainPassesStop, MainLists, MainRelays, MainRemoves, 
     MainUnlocks, Goes, Runs, Inv, ThreadsOK
<1>5. CASE KeepaliveNext
  BY <1>5 DEF KeepaliveNext, KeepaliveLoops, KeepaliveWakes, Locks, KeepaliveScans, Goes, Runs, Inv, ThreadsOK
<1>6. CASE HandlerNext
  BY <1>6 DEF HandlerNext, StopClosesSocket, StopClosesClients, StopJoins, Inv, ThreadsOK
<1>7. CASE Tick \/ (\E t \in SignalTo : Signal(t)) \/ SomebodySends \/ Loses \/ UNCHANGED vars
  BY <1>7 DEF Tick, Signal, SomebodySends, Loses, Lose, vars, serverVars
<1>8. QED
  BY <1>1, <1>2, <1>3, <1>4, <1>5, <1>6, <1>7 DEF Next, ServerNext, MainNext

\* Whoever leaves, asked or not, takes the socket of all with him; nothing but a
\* stop closes it otherwise, and with it closed the server sends nothing more and
\* calls recvfrom no more.
THEOREM WhoLeavesDeafensTheServer == Spec => LeavingDeafens
<1>1. Inv /\ [Next]_vars => 
        [ /\ (\E i \in Slots : clients[i].is_active /\ ~clients'[i].is_active) => ~opened'
          /\ opened /\ ~opened' => stopping' = "lock" \/ \E i \in Slots : clients[i].is_active /\ ~clients'[i].is_active
          /\ ~opened => /\ ~opened'
                        /\ pc["main"] # "recv" => pc'["main"] # "recv"
                        /\ \A m \in net' \ net : m.to = "server"
                        /\ msg = NULL /\ msg' # NULL => pc["main"] = "recv" ]_vars
  BY LeavingCloses, DeafStep DEF SomebodyLeaves, DeafStays
<1>2. QED
  BY <1>1, Invariance, PTL DEF Spec, LeavingDeafens

-----------------------------------------------------------------------------
(***************************************************************************)
(* Where the server can get stuck.                                         *)
(***************************************************************************)
\* Who has the mutex follows from where the threads are; one of them carries out
\* server_stop, and has not got the mutex when it comes to the join.
StopOK == 
    /\ clients_mutex = "main" <=> pc["main"] \in {"registering", "serving"}
    /\ clients_mutex = "keepalive" <=> pc["keepalive"] = "scan"
    /\ handler = NULL <=> stopping \in {"not", "stopped"}
    /\ is_running <=> stopping \in {"not", "begin"}
    /\ stopping = "join" => clients_mutex # handler

LEMMA StopInit == Init => StopOK
BY ServerAssumption DEF Init, ServerInit, StopOK

LEMMA StopStep == 
    ASSUME Inv, StopOK, [Next]_vars
    PROVE  StopOK'
<1>0. /\ clients_mutex \in {NULL, "main", "keepalive"} /\ NULL \notin {"main", "keepalive"}
      /\ stopping \in {"not", "begin", "lock", "join", "stopped"} /\ is_running \in BOOLEAN
      /\ ThreadsOK
  BY ServerAssumption DEF Inv, OneSlotEach, ServerTypeOK
<1> USE <1>0 DEF StopOK, Goes, Runs, ThreadsOK, MainLabel, KeepaliveLabel
<1>1. CASE MainNext
  <2>1. CASE MainLoops \/ \E m \in net : MainReceives(m)
    BY <2>1 DEF MainLoops, MainReceives, handlerVars
  <2>2. CASE Locks("main", "register", "registering") \/ Locks("main", "serve", "serving")
    BY <2>2 DEF Locks, handlerVars
  <2>3. CASE MainHears \/ MainAdds \/ MainRefuses \/ MainPassesStop
    BY <2>3 DEF MainHears, MainAdds, MainRefuses, MainPassesStop, MainUnlocks, handlerVars
  <2>4. CASE MainLists \/ MainRelays \/ MainRemoves
    BY <2>4 DEF MainLists, MainRelays, MainRemoves, MainUnlocks, handlerVars
  <2>5. CASE MainDispatches \/ MainReplies \/ MainCleansUp
    BY <2>5 DEF MainDispatches, MainReplies, MainCleansUp, handlerVars
  <2>6. QED
    BY <1>1, <2>1, <2>2, <2>3, <2>4, <2>5 DEF MainNext
<1>2. CASE KeepaliveNext
  <2>1. CASE KeepaliveLoops \/ KeepaliveWakes
    BY <2>1 DEF KeepaliveLoops, KeepaliveWakes, handlerVars
  <2>2. CASE Locks("keepalive", "lock", "scan") \/ KeepaliveScans
    BY <2>2 DEF Locks, KeepaliveScans, handlerVars
  <2>3. QED
    BY <1>2, <2>1, <2>2 DEF KeepaliveNext
<1>3. CASE HandlerNext
  <2>1. CASE StopClosesSocket
    BY <2>1 DEF StopClosesSocket
  <2>2. CASE StopClosesClients
    BY <2>2 DEF StopClosesClients
  <2>3. CASE StopJoins
    BY <2>3 DEF StopJoins
  <2>4. QED
    BY <1>3, <2>1, <2>2, <2>3 DEF HandlerNext
<1>4. CASE \E t \in SignalTo : Signal(t)
  BY <1>4, ServerAssumption DEF Signal
<1>5. CASE Tick \/ SomebodySends \/ Loses \/ UNCHANGED vars
  BY <1>5 DEF Tick, SomebodySends, Loses, vars, serverVars, handlerVars
<1>6. QED
  BY <1>1, <1>2, <1>3, <1>4, <1>5 DEF Next, ServerNext

\* Wherever the signal finds whichever of the two threads: when both of them and
\* server_stop wait at once, though not for time to pass, main has returned, or
\* server_stop waits for the mutex of the very thread it runs on, or main for
\* another datagram: signal_handler, server_stop, server_start, keepalive_monitor.
THEOREM ServerStopsOrIsStuck == Spec => []StuckInKnownWays
<1>1. ASSUME Inv, StopOK
      PROVE  StuckInKnownWays
  <2>1. SUFFICES ASSUME stopping # "not", MainWaits, KeepaliveWaits, HandlerWaits,
                        pc["keepalive"] # "sleep", pc["main"] # "returned"
                 PROVE  SelfDeadlock \/ WaitsForDatagram
    BY DEF StuckInKnownWays
  <2>2. /\ clients_mutex \in {NULL, "main", "keepalive"}
        /\ handler \in {NULL, "main", "keepalive"} /\ NULL \notin {"main", "keepalive"}
        /\ stopping \in {"begin", "lock", "join", "stopped"}
    BY <1>1, <2>1, ServerAssumption DEF Inv, OneSlotEach, ServerTypeOK
  <2>3. CASE stopping = "begin"
    BY <1>1, <2>1, <2>2, <2>3 DEF HandlerWaits, StopOK
  <2>4. CASE stopping = "lock"
    BY <1>1, <2>1, <2>2, <2>4 DEF HandlerWaits, MainWaits, KeepaliveWaits, StopOK, SelfDeadlock
  <2>5. CASE stopping = "join"
    BY <1>1, <2>1, <2>2, <2>5 DEF HandlerWaits, KeepaliveWaits, StopOK
  <2>6. CASE stopping = "stopped"
    BY <1>1, <2>1, <2>2, <2>6 DEF MainWaits, KeepaliveWaits, StopOK, WaitsForDatagram
  <2>7. QED
    BY <2>2, <2>3, <2>4, <2>5, <2>6
<1>2. Spec => []StopOK
  <2>1. Inv /\ StopOK /\ [Next]_vars => StopOK'
    BY StopStep
  <2>2. QED
    BY <2>1, StopInit, Invariance, PTL DEF Spec
<1>3. QED
  BY <1>1, <1>2, Invariance, PTL

-----------------------------------------------------------------------------
(***************************************************************************)
(* The server with its clients.                                            *)
(***************************************************************************)
ClientMainLabel == {"start", "prompt", "ask", "fgets", "send", "quit", "quitting", "cleanup", 
                    "cleaning", "close", "join", "exit"}
ReceiverLabel == {"none", "loop", "call", "recv", "answer", "stop", "stopping", "done"}

ClientTypeOK == 
    /\ running \in [Addr -> BOOLEAN] /\ socket \in [Addr -> BOOLEAN]
    /\ state_mutex \in [Addr -> {"free", "main", "receive"}]
    /\ at \in [Addr -> [main : ClientMainLabel, receive : ReceiverLabel]]
    /\ todo \in [Addr -> Commands \cup {"nothing"}]
    /\ interrupted \in [Addr -> {"not", "main", "receive", "nobody"}]

\* The two threads of a client have state_mutex between lock and unlock of
\* client_stop, and main handles commands that are messages.
ClientOK(c) == 
    /\ state_mutex[c] = "main" <=> at[c].main \in {"quitting", "cleaning"}
    /\ state_mutex[c] = "receive" <=> at[c].receive = "stopping"
    /\ at[c].main = "start" => at[c].receive = "none"
    /\ at[c].main = "send" => todo[c] \in {"list", "2all", "2one", "quit"}

ClientsInv == ClientTypeOK /\ \A c \in Addr : ClientOK(c)

ToServerOnly == {m \in Datagram : m.to = "server"}

LEMMA SendAdds == 
    ASSUME NEW out, Send(out)
    PROVE  net' \subseteq net \cup out
BY DEF Send, SendBeside

LEMMA ClientSendsAdds == 
    ASSUME NEW c \in Addr, NEW r \in Id \cup {NoId}, 
           NEW type \in {"LIST", "2ALL", "2ONE", "STOP", "ALIVE_RESPONSE"}
    PROVE  /\ ToServer(c, type, ClientId[c], r) \in ToServerOnly
           /\ ClientSends(c, type, r) => net' \subseteq net \cup ToServerOnly
<1>1. ToServer(c, type, ClientId[c], r) \in ToServerOnly
  BY ClientAssumption DEF ToServer, Datagram, ToServerOnly
<1>2. ASSUME ClientSends(c, type, r)
      PROVE  net' \subseteq net \cup ToServerOnly
  BY <1>1, <1>2, SendAdds DEF ClientSends
<1>3. QED
  BY <1>1, <1>2

LEMMA MainMoves == 
    ASSUME ClientsInv, NEW c \in Addr, NEW from, NEW to \in ClientMainLabel, Moves(c, "main", from, to)
    PROVE  /\ at' \in [Addr -> [main : ClientMainLabel, receive : ReceiverLabel]]
           /\ at[c].main = from /\ at'[c].main = to /\ at'[c].receive = at[c].receive
           /\ \A d \in Addr : d # c => at'[d] = at[d]
           /\ interrupted[c] # "main"
<1>1. at \in [Addr -> [main : ClientMainLabel, receive : ReceiverLabel]]
  BY DEF ClientsInv, ClientTypeOK
<1>2. at' = [at EXCEPT ![c] = [main |-> to, receive |-> at[c].receive]]
  <2> DEFINE moved == [at[c] EXCEPT !["main"] = to]
  <2>1. at' = [at EXCEPT ![c] = moved]
    BY <1>1 DEF Moves
  <2>2. at[c] \in [main : ClientMainLabel, receive : ReceiverLabel]
    BY <1>1
  <2>3. moved = [main |-> to, receive |-> at[c].receive]
    BY <2>2
  <2>4. QED
    BY <2>1, <2>3
<1>3. QED
  BY <1>1, <1>2 DEF Moves

LEMMA ReceiverMoves == 
    ASSUME ClientsInv, NEW c \in Addr, NEW from, NEW to \in ReceiverLabel, Moves(c, "receive", from, to)
    PROVE  /\ at' \in [Addr -> [main : ClientMainLabel, receive : ReceiverLabel]]
           /\ at[c].receive = from /\ at'[c].receive = to /\ at'[c].main = at[c].main
           /\ \A d \in Addr : d # c => at'[d] = at[d]
           /\ interrupted[c] # "receive"
<1>1. at \in [Addr -> [main : ClientMainLabel, receive : ReceiverLabel]]
  BY DEF ClientsInv, ClientTypeOK
<1>2. at' = [at EXCEPT ![c] = [main |-> at[c].main, receive |-> to]]
  <2> DEFINE moved == [at[c] EXCEPT !["receive"] = to]
  <2>1. at' = [at EXCEPT ![c] = moved]
    BY <1>1 DEF Moves
  <2>2. at[c] \in [main : ClientMainLabel, receive : ReceiverLabel]
    BY <1>1
  <2>3. moved = [main |-> at[c].main, receive |-> to]
    BY <2>2
  <2>4. QED
    BY <2>1, <2>3
<1>3. QED
  BY <1>1, <1>2 DEF Moves

LEMMA ClientsInit == ChatInit => ClientsInv
BY DEF ChatInit, ClientInit, ClientsInv, ClientTypeOK, ClientOK, ClientMainLabel, ReceiverLabel

\* A step of the thread main of a client.
LEMMA ClientMainStep == 
    ASSUME ClientsInv, NEW c \in Addr, ClientMain(c) \/ User(c)
    PROVE  ClientsInv' /\ net' \subseteq net \cup ToServerOnly
<1>0. /\ ClientTypeOK /\ \A d \in Addr : ClientOK(d)
      /\ {"start", "prompt", "ask", "fgets", "send", "quit", "quitting", "cleanup", 
          "cleaning", "close", "join", "exit"} \subseteq ClientMainLabel
      /\ {"none", "loop"} \subseteq ReceiverLabel
  BY DEF ClientsInv, ClientMainLabel, ReceiverLabel
<1>1. CASE Connects(c)
  <2>1. at' = [at EXCEPT ![c] = [main |-> "prompt", receive |-> "loop"]]
    BY <1>1 DEF Connects
  <2>2. ClientTypeOK'
    BY <1>0, <1>1, <2>1 DEF ClientTypeOK, Connects
  <2>3. \A d \in Addr : ClientOK(d)'
    BY <1>0, <1>1, <2>1 DEF ClientTypeOK, ClientOK, Connects
  <2>4. net' \subseteq net \cup ToServerOnly
    BY <1>1, ClientSendsAdds, SendAdds DEF Connects
  <2>5. QED
    BY <2>2, <2>3, <2>4 DEF ClientsInv
<1>2. CASE Prompts(c) \/ CallsFgets(c) \/ Closes(c) \/ Joins(c)
  <2>1. PICK from, to \in ClientMainLabel \ {"start", "quitting", "cleaning", "send"} : 
          Moves(c, "main", from, to) /\ from \notin {"start", "quitting", "cleaning"}
    BY <1>0, <1>2 DEF Prompts, CallsFgets, Closes, Joins, Moves
  <2>2. UNCHANGED <<state_mutex, todo, interrupted, net, running>> /\ socket' \in [Addr -> BOOLEAN]
    BY <1>0, <1>2 DEF Prompts, CallsFgets, Closes, Joins, ClientTypeOK
  <2>3. QED
    BY <1>0, <2>1, <2>2, MainMoves DEF ClientsInv, ClientTypeOK, ClientOK
<1>3. CASE User(c)
  <2>1. PICK command \in Commands : Enters(c, command)
    BY <1>3 DEF User
  <2>2. command \in {"list", "2all", "2one", "quit", "help", "EOF"}
    BY ClientAssumption
  <2>3. PICK to \in {"cleanup", "prompt", "send"} : 
          Moves(c, "main", "fgets", to) /\ (to = "send" => command \notin {"EOF", "help"})
    BY <2>1, <2>2 DEF Enters
  <2>4. todo' = [todo EXCEPT ![c] = IF command \in {"EOF", "help"} THEN "nothing" ELSE command]
    BY <2>1 DEF Enters
  <2>5. QED
    BY <1>0, <2>1, <2>2, <2>3, <2>4, MainMoves DEF ClientsInv, ClientTypeOK, ClientOK, Enters
<1>4. CASE SendsCommand(c)
  <2>1. PICK to \in {"quit", "prompt"} : Moves(c, "main", "send", to)
    BY <1>4 DEF SendsCommand
  <2>2. MessageFor(todo[c]) \in {"LIST", "2ALL", "2ONE", "STOP"}
    BY <1>0, <2>1 DEF ClientOK, Moves, MessageFor
  <2>3. net' \subseteq net \cup ToServerOnly
    <3>1. PICK r \in Id \cup {NoId} : ClientSends(c, MessageFor(todo[c]), r)
      BY <1>4 DEF SendsCommand
    <3>2. QED
      BY <2>2, <3>1, ClientSendsAdds
  <2>4. QED
    BY <1>0, <1>4, <2>1, <2>3, MainMoves DEF SendsCommand, ClientsInv, ClientTypeOK, ClientOK
<1>5. CASE StopLocks(c, "main", "quit", "quitting") \/ StopLocks(c, "main", "cleanup", "cleaning")
  <2>1. PICK from \in {"quit", "cleanup"}, to \in {"quitting", "cleaning"} : Moves(c, "main", from, to)
    BY <1>5 DEF StopLocks
  <2>2. state_mutex[c] = "free" /\ state_mutex' = [state_mutex EXCEPT ![c] = "main"]
    BY <1>5 DEF StopLocks
  <2>3. QED
    BY <1>0, <1>5, <2>1, <2>2, MainMoves DEF StopLocks, ClientsInv, ClientTypeOK, ClientOK
<1>6. CASE StopUnlocks(c, "main", "quitting", "prompt") \/ StopUnlocks(c, "main", "cleaning", "close")
  <2>1. PICK from \in {"quitting", "cleaning"}, to \in {"prompt", "close"} : Moves(c, "main", from, to)
    BY <1>6 DEF StopUnlocks
  <2>2. /\ state_mutex' = [state_mutex EXCEPT ![c] = "free"] 
        /\ running' = [running EXCEPT ![c] = FALSE]
    BY <1>6 DEF StopUnlocks
  <2>3. state_mutex[c] = "main"
    BY <1>0, <2>1 DEF ClientOK, Moves
  <2>4. QED
    BY <1>0, <1>6, <2>1, <2>2, <2>3, MainMoves DEF StopUnlocks, ClientsInv, ClientTypeOK, ClientOK
<1>7. QED
  BY <1>1, <1>2, <1>3, <1>4, <1>5, <1>6 DEF ClientMain

\* A step of the receiving thread.
LEMMA ReceiverStep == 
    ASSUME ClientsInv, NEW c \in Addr, Receiver(c)
    PROVE  ClientsInv' /\ net' \subseteq net \cup ToServerOnly
<1>0. /\ ClientTypeOK /\ \A d \in Addr : ClientOK(d)
      /\ {"none", "loop", "call", "recv", "answer", "stop", "stopping", "done"} \subseteq ReceiverLabel
  BY DEF ClientsInv, ReceiverLabel
<1>1. CASE ReceiverLoops(c) \/ CallsRecvfrom(c) \/ (\E m \in net : ClientReceives(c, m)) \/ Answers(c)
  <2>1. PICK from \in {"loop", "call", "recv", "answer"}, 
             to \in {"loop", "call", "recv", "answer", "stop", "done"} : Moves(c, "receive", from, to)
    BY <1>1 DEF ReceiverLoops, CallsRecvfrom, ClientReceives, Answers
  <2>2. UNCHANGED <<running, socket, state_mutex, todo, interrupted>>
    BY <1>1 DEF ReceiverLoops, CallsRecvfrom, ClientReceives, Answers
  <2>3. net' \subseteq net \cup ToServerOnly
    BY <1>1, ClientSendsAdds DEF ReceiverLoops, CallsRecvfrom, ClientReceives, Receive, Answers
  <2>4. QED
    BY <1>0, <2>1, <2>2, <2>3, ReceiverMoves DEF ClientsInv, ClientTypeOK, ClientOK
<1>2. CASE StopLocks(c, "receive", "stop", "stopping")
  BY <1>0, <1>2, ReceiverMoves DEF StopLocks, ClientsInv, ClientTypeOK, ClientOK
<1>3. CASE StopUnlocks(c, "receive", "stopping", "done")
  <2>1. state_mutex[c] = "receive"
    BY <1>0, <1>3 DEF ClientOK, Moves, StopUnlocks
  <2>2. QED
    BY <1>0, <1>3, <2>1, ReceiverMoves DEF StopUnlocks, ClientsInv, ClientTypeOK, ClientOK
<1>4. QED
  BY <1>1, <1>2, <1>3 DEF Receiver

\* A signal, and what its handler does.
LEMMA ClientHandlerStep == 
    ASSUME ClientsInv, NEW c \in Addr, HandlerStops(c) \/ \E t \in Signalled : ClientSignal(c, t)
    PROVE  ClientsInv' /\ net' = net
<1>0. /\ ClientTypeOK /\ \A d \in Addr : ClientOK(d)
      /\ "cleanup" \in ClientMainLabel /\ "loop" \in ReceiverLabel
  BY DEF ClientsInv, ClientMainLabel, ReceiverLabel
<1>1. CASE \E t \in Signalled : ClientSignal(c, t)
  BY <1>0, <1>1, ClientAssumption DEF ClientSignal, ClientsInv, ClientTypeOK, ClientOK
<1>2. CASE HandlerStops(c)
  <2>1. PICK m, r : /\ m \in {at[c].main, "cleanup"} /\ r \in {at[c].receive, "loop"}
                    /\ m # at[c].main => at[c].main = "fgets"
                    /\ r # at[c].receive => at[c].receive = "recv"
                    /\ at' = [at EXCEPT ![c] = [main |-> m, receive |-> r]]
    BY <1>2, <1>0 DEF HandlerStops, ClientTypeOK
  <2>2. at' \in [Addr -> [main : ClientMainLabel, receive : ReceiverLabel]]
    BY <1>0, <2>1 DEF ClientTypeOK
  <2>3. QED
    BY <1>0, <1>2, <2>1, <2>2 DEF HandlerStops, ClientsInv, ClientTypeOK, ClientOK
<1>3. QED
  BY <1>1, <1>2

-----------------------------------------------------------------------------
\* To the server its clients are somebody who sends it datagrams.
Outside == UNCHANGED serverVars /\ net' \subseteq net \cup ToServerOnly

LEMMA ChatSteps == 
    ASSUME ClientsInv, [ChatNext]_chatVars
    PROVE  \/ (MainNext \/ KeepaliveNext \/ Tick) /\ UNCHANGED clientVars
           \/ Outside
<1>1. CASE ServerSteps
  BY <1>1 DEF ServerSteps
<1>2. CASE \E c \in Addr : (ClientMain(c) \/ Receiver(c) \/ User(c) \/ HandlerStops(c)) /\ UNCHANGED serverVars
  BY <1>2, ClientMainStep, ReceiverStep, ClientHandlerStep DEF Outside
<1>3. CASE (\E c \in Addr, t \in Signalled : ClientSignal(c, t)) /\ UNCHANGED serverVars
  BY <1>3, ClientHandlerStep DEF Outside
<1>4. CASE Vanishes \/ UNCHANGED chatVars
  BY <1>4 DEF Vanishes, chatVars, Outside
<1>5. QED
  BY <1>1, <1>2, <1>3, <1>4 DEF ChatNext

LEMMA OutsideKeeps == 
    ASSUME Inv, StopOK, Outside
    PROVE  Inv' /\ StopOK'
<1>1. net' \subseteq Datagram
  BY DEF Inv, OneSlotEach, ServerTypeOK, Outside, ToServerOnly
<1>2. UNCHANGED <<clients, client_count, is_running, server_socket, opened, clients_mutex, pc, msg, 
                  handler, stopping, slept>>
  BY DEF Outside, serverVars, tableVars, socketVars, handlerVars
<1>3. StopOK'
  BY <1>2 DEF StopOK
<1>4. ThreadsOK' /\ MessageInHand' /\ Addressed' /\ OneSocket'
  BY <1>2 DEF Inv, ThreadsOK, MessageInHand, Addressed, OneSocket, Active
<1>5. OneSlotEach'
  BY <1>1, <1>2 DEF Inv, OneSlotEach, ServerTypeOK, Active
<1>6. QED
  BY <1>3, <1>4, <1>5 DEF Inv

LEMMA ClientsStep == 
    ASSUME ClientsInv, [ChatNext]_chatVars
    PROVE  ClientsInv'
<1>1. CASE UNCHANGED clientVars
  BY <1>1 DEF clientVars, ClientsInv, ClientTypeOK, ClientOK
<1>2. CASE \E c \in Addr : ClientMain(c) \/ Receiver(c) \/ User(c) \/ HandlerStops(c)
  BY <1>2, ClientMainStep, ReceiverStep, ClientHandlerStep
<1>3. CASE \E c \in Addr, t \in Signalled : ClientSignal(c, t)
  BY <1>3, ClientHandlerStep
<1>4. QED
  BY <1>1, <1>2, <1>3 DEF ChatNext, ServerSteps, Vanishes, chatVars

ChatInv == Inv /\ StopOK /\ ClientsInv

LEMMA ChatInvariance == ChatSpec => []ChatInv
<1>1. ChatInit => ChatInv
  <2>1. ChatInit => Init
    BY DEF ChatInit, Init
  <2>2. QED
    BY <2>1, InvInit, StopInit, ClientsInit DEF ChatInv
<1>2. ChatInv /\ [ChatNext]_chatVars => ChatInv'
  <2>1. SUFFICES ASSUME ChatInv, [ChatNext]_chatVars
                 PROVE  ChatInv'
    OBVIOUS
  <2>2. CASE Outside
    BY <2>1, <2>2, OutsideKeeps, ClientsStep DEF ChatInv
  <2>3. CASE MainNext \/ KeepaliveNext \/ Tick
    <3>1. Next
      BY <2>3 DEF Next, ServerNext
    <3>2. QED
      BY <2>1, <3>1, InvStep, StopStep, ClientsStep DEF ChatInv
  <2>4. QED
    BY <2>1, <2>2, <2>3, ChatSteps DEF ChatInv
<1>3. QED
  BY <1>1, <1>2, PTL DEF ChatSpec

\* What is proved of the server with anybody at the other end holds of it with
\* its clients: its table is consistent, and whoever leaves makes it deaf.
THEOREM ServerServesItsClients == ChatSpec => []OneSlotEach /\ LeavingDeafens
<1>1. ChatInv => OneSlotEach
  BY DEF ChatInv, Inv
<1>2. ChatInv /\ [ChatNext]_chatVars => 
        [ /\ (\E i \in Slots : clients[i].is_active /\ ~clients'[i].is_active) => ~opened'
          /\ opened /\ ~opened' => stopping' = "lock" \/ \E i \in Slots : clients[i].is_active /\ ~clients'[i].is_active
          /\ ~opened => /\ ~opened'
                        /\ pc["main"] # "recv" => pc'["main"] # "recv"
                        /\ \A m \in net' \ net : m.to = "server"
                        /\ msg = NULL /\ msg' # NULL => pc["main"] = "recv" ]_vars
  <2>1. SUFFICES ASSUME ChatInv, [ChatNext]_chatVars
                 PROVE  [ /\ SomebodyLeaves => ~opened'
                          /\ opened /\ ~opened' => stopping' = "lock" \/ SomebodyLeaves
                          /\ ~opened => DeafStays ]_vars
    BY DEF SomebodyLeaves, DeafStays
  <2>2. CASE Outside
    <3>1. /\ UNCHANGED <<clients, opened, stopping, pc, msg>>
          /\ \A m \in net' \ net : m.to = "server"
      BY <2>2 DEF Outside, ToServerOnly, serverVars, tableVars, socketVars, handlerVars
    <3>2. QED
      BY <3>1 DEF SomebodyLeaves, DeafStays
  <2>3. CASE MainNext \/ KeepaliveNext \/ Tick
    <3>1. Next
      BY <2>3 DEF Next, ServerNext
    <3>2. QED
      BY <2>1, <3>1, LeavingCloses, DeafStep DEF ChatInv, Closing
  <2>4. QED
    BY <2>1, <2>2, <2>3, ChatSteps DEF ChatInv
<1>3. QED
  BY <1>1, <1>2, ChatInvariance, PTL DEF ChatSpec, LeavingDeafens

\* A signal handler that waits for the mutex of the thread it interrupted waits
\* for ever: that thread alone would give the mutex back.
THEOREM HandlerDeadlockLasts == 
    ChatSpec => [][\A c \in Addr : HandlerDeadlock(c) => HandlerDeadlock(c)']_chatVars
<1>1. ASSUME ChatInv, [ChatNext]_chatVars, NEW c \in Addr, HandlerDeadlock(c)
      PROVE  HandlerDeadlock(c)'
  <2>0. ClientTypeOK /\ (\A d \in Addr : ClientOK(d)) /\ ClientsInv
    BY <1>1 DEF ChatInv, ClientsInv
  <2>1. PICK t \in {"main", "receive"} : interrupted[c] = t /\ state_mutex[c] = t
    BY <1>1 DEF HandlerDeadlock
  <2>2. CASE UNCHANGED clientVars
    BY <1>1, <2>2 DEF clientVars, HandlerDeadlock
  <2>3. ASSUME NEW d \in Addr, ClientMain(d) \/ User(d) \/ Receiver(d)
        PROVE  HandlerDeadlock(c)'
    <3>1. CASE ClientMain(d)
      BY <2>0, <2>1, <3>1 DEF ClientMain, Connects, Prompts, CallsFgets, SendsCommand, StopLocks, 
         StopUnlocks, Closes, Joins, Moves, HandlerDeadlock, ClientTypeOK, ClientOK
    <3>2. CASE User(d)
      BY <2>1, <3>2 DEF User, Enters, HandlerDeadlock
    <3>3. CASE Receiver(d)
      BY <2>0, <2>1, <3>3 DEF Receiver, ReceiverLoops, CallsRecvfrom, ClientReceives, Answers, StopLocks, 
         StopUnlocks, Moves, HandlerDeadlock, ClientTypeOK, ClientOK
    <3>4. QED
      BY <2>3, <3>1, <3>2, <3>3
  <2>4. ASSUME NEW d \in Addr, HandlerStops(d) \/ \E s \in Signalled : ClientSignal(d, s)
        PROVE  HandlerDeadlock(c)'
    BY <2>0, <2>1, <2>4 DEF HandlerStops, ClientSignal, HandlerDeadlock, ClientTypeOK
  <2>5. QED
    BY <1>1, <2>2, <2>3, <2>4 DEF ChatNext, ServerSteps, Vanishes, chatVars
<1>2. ChatInv /\ [ChatNext]_chatVars => 
        [\A c \in Addr : HandlerDeadlock(c) => HandlerDeadlock(c)']_chatVars
  BY <1>1
<1>3. QED
  BY <1>2, ChatInvariance, PTL DEF ChatSpec

\* Nor is a client that joins a thread in recvfrom, when the server is deaf and
\* no datagram on its way, ever let out of it, but by a signal that hits that very
\* thread: client_disconnect (client.c:77) closes the socket before it joins.
THEOREM HangLasts == 
    ChatSpec => [][\A c \in Addr : Hangs(c) => Hangs(c)' \/ ClientSignal(c, "receive")]_chatVars
<1>1. ASSUME ChatInv, [ChatNext]_chatVars, NEW c \in Addr, Hangs(c)
      PROVE  Hangs(c)' \/ ClientSignal(c, "receive")
  <2>0. ClientTypeOK /\ (\A d \in Addr : ClientOK(d)) /\ ClientsInv
    BY <1>1 DEF ChatInv, ClientsInv
  <2>1. /\ at[c] = [main |-> "join", receive |-> "recv"] /\ interrupted[c] # "receive"
        /\ ~opened /\ pc["main"] # "recv" /\ \A m \in net : m.to # c
    BY <1>1 DEF Hangs, Deaf
  <2>2. c # "server"
    BY DatagramsAssumption
  <2>3. CASE Outside
    <3>1. Deaf'
      BY <2>1, <2>3 DEF Outside, Deaf, serverVars, socketVars
    <3>2. \A m \in net' : m.to # c
      BY <2>1, <2>2, <2>3 DEF Outside, ToServerOnly
    <3>3. CASE at'[c] = at[c] /\ interrupted'[c] # "receive"
      BY <2>1, <3>1, <3>2, <3>3 DEF Hangs, Deaf
    <3>4. ASSUME NEW d \in Addr, ClientMain(d)
          PROVE  at'[c] = at[c] /\ UNCHANGED interrupted
      BY <2>0, <2>1, <3>4 DEF ClientMain, Connects, Prompts, CallsFgets, SendsCommand, StopLocks, 
         StopUnlocks, Closes, Joins, Moves, ClientTypeOK
    <3>5. ASSUME NEW d \in Addr, User(d)
          PROVE  at'[c] = at[c] /\ UNCHANGED interrupted
      BY <2>0, <2>1, <3>5 DEF User, Enters, Moves, ClientTypeOK
    <3>6. ASSUME NEW d \in Addr, Receiver(d)
          PROVE  at'[c] = at[c] /\ UNCHANGED interrupted
      BY <2>0, <2>1, <3>6 DEF Receiver, ReceiverLoops, CallsRecvfrom, ClientReceives, Answers, StopLocks, 
         StopUnlocks, Moves, ClientTypeOK
    <3>7. ASSUME NEW d \in Addr, HandlerStops(d)
          PROVE  at'[c] = at[c] /\ interrupted'[c] # "receive"
      BY <2>0, <2>1, <3>7 DEF HandlerStops, ClientTypeOK
    <3>8. ASSUME NEW d \in Addr, NEW t \in Signalled, ClientSignal(d, t), ~ClientSignal(c, "receive")
          PROVE  at'[c] = at[c] /\ interrupted'[c] # "receive"
      BY <2>0, <2>1, <3>8 DEF ClientSignal, ClientTypeOK
    <3>9. CASE UNCHANGED clientVars
      BY <2>1, <3>3, <3>9 DEF clientVars
    <3>10. QED
      BY <1>1, <2>1, <3>3, <3>4, <3>5, <3>6, <3>7, <3>8, <3>9 
      DEF ChatNext, ServerSteps, Vanishes, chatVars
  <2>4. CASE (MainNext \/ KeepaliveNext \/ Tick) /\ UNCHANGED clientVars
    <3>1. Next
      BY <2>4 DEF Next, ServerNext
    <3>2. DeafStays
      BY <1>1, <2>1, <3>1, DeafStep DEF ChatInv
    <3>3. Deaf' /\ \A m \in net' : m.to # c
      BY <2>1, <2>2, <3>2 DEF DeafStays, Deaf
    <3>4. QED
      BY <2>1, <2>4, <3>3 DEF Hangs, Deaf, clientVars
  <2>5. QED
    BY <1>1, <2>3, <2>4, ChatSteps DEF ChatInv
<1>2. ChatInv /\ [ChatNext]_chatVars => 
        [\A c \in Addr : Hangs(c) => Hangs(c)' \/ ClientSignal(c, "receive")]_chatVars
  BY <1>1
<1>3. QED
  BY <1>2, ChatInvariance, PTL DEF ChatSpec
=============================================================================
