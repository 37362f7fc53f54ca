-------------------------- MODULE TcpServerProofs ----------------------------
(***************************************************************************)
(* Proofs about the chat server over TCP, for any number of connections,   *)
(* identifiers and slots, whatever the clients send.                       *)
(***************************************************************************)
EXTENDS TcpServerProperties, FiniteSetTheorems, TLAPS

-----------------------------------------------------------------------------
(***************************************************************************)
(* The first free slot, and a descriptor for every connection.             *)
(***************************************************************************)
LEMMA LeastElement == 
    ASSUME NEW S, S \subseteq Nat, S # {}
    PROVE  \E x \in S : \A y \in S : x <= y
<1> DEFINE R == OpToRel(<, Nat)
<1>1. IsWellFoundedOn(R, Nat)
  BY NatLessThanWellFounded
<1> HIDE DEF R
<1>2. PICK x \in S : \A y \in S : ~ (<<y, x>> \in R)
  BY <1>1, WFMin
<1>3. ASSUME NEW y \in S
      PROVE  x <= y
  <2>1. y < x => <<y, x>> \in R
    BY DEF R, OpToRel
  <2>2. QED
    BY <1>2, <2>1
<1>4. QED
  BY <1>3

LEMMA MinIsElement == 
    ASSUME NEW S, S \subseteq Nat, S # {}
    PROVE  Min(S) \in S
BY LeastElement DEF Min

LEMMA FirstOfSlots == 
    ASSUME NEW S \in SUBSET Slots, NEW i \in Slots, i = Min(S \cup {MAX_CLIENTS})
    PROVE  i \in S
<1>1. S \cup {MAX_CLIENTS} \subseteq Nat
  BY ServerAssumption DEF Slots
<1>2. Min(S \cup {MAX_CLIENTS}) \in S \cup {MAX_CLIENTS}
  BY <1>1, MinIsElement
<1>3. i # MAX_CLIENTS
  BY ServerAssumption DEF Slots
<1>4. QED
  BY <1>2, <1>3

LEMMA ConnFinite == 
    /\ Cardinality(Conn) \in Nat
    /\ Descriptors \subseteq Nat \ {0} /\ IsFiniteSet(Descriptors) 
    /\ Cardinality(Descriptors) = Cardinality(Conn)
<1> DEFINE n == Cardinality(Conn)
           m == 3 + n
<1>1. n \in Nat /\ m = 3 + n /\ Descriptors = 4 .. m
  BY ServerAssumption, FS_CardinalityType DEF Descriptors
<1> HIDE DEF n, m
<1>2. m \in Int /\ 4 \in Int
  BY <1>1
<1>3. IsFiniteSet(4 .. m) /\ Cardinality(4 .. m) = IF 4 > m THEN 0 ELSE m - 4 + 1
  BY <1>2, FS_Interval
<1>4. Cardinality(4 .. m) = n /\ 4 .. m \subseteq Nat \ {0}
  BY <1>1, <1>3
<1>5. QED
  BY <1>1, <1>3, <1>4 DEF n

-----------------------------------------------------------------------------
(***************************************************************************)
(* The inductive invariant.                                                *)
(***************************************************************************)
\* No descriptor was given twice, and a connection has one at most, from accept on.
FilesOK == 
    /\ \A d, e \in Descriptors : files[d] = files[e] /\ files[d] # NULL => d = e
    /\ \A d \in Descriptors : files[d] # NULL => status[files[d]] = "accepted"

\* Active slots have sockets of their own, others none; the thread that was
\* created for a slot in use serves it.
SlotsOK == 
    /\ \A i \in Slots \ Active : clients[i].socket_fd = -1
    /\ \A i, j \in Active : clients[i].socket_fd = clients[j].socket_fd => i = j
    /\ \A i \in Active : 
         /\ slot[clients[i].thread_id] = i
         /\ at[clients[i].thread_id] \notin {"none", "done"}

\* Until it is registered a connection is main's alone, and there to be welcomed
\* if nobody has removed it since.
AcceptedOK == 
    /\ main \in {"identify", "register", "registering"} 
         => /\ accepted \in Descriptors /\ files[accepted] # NULL
            /\ \A i \in Active : clients[i].socket_fd # accepted
    /\ main \in {"register", "registering"} => presented \in Id \ Invalid
    /\ main = "welcome" => accepted \in Descriptors
                           /\ (files[accepted] # NULL => at[files[accepted]] # "none")

\* A thread in one of its handlers has the descriptor of its own connection, as
\* long as that is in the table.
Handling == {"list", "reply", "2ALL", "2ONE", "goodbye", "alive"}
HandlersOK == 
    \A k \in Conn : at[k] \in Handling /\ Registered(k) => fd[k] \in Descriptors /\ files[fd[k]] = k

StreamsOK == in \in [Conn -> Seq({"message", "END"})]

Inv == TableAgrees /\ StreamsOK /\ FilesOK /\ SlotsOK /\ AcceptedOK /\ HandlersOK

-----------------------------------------------------------------------------
(***************************************************************************)
(* Types.                                                                  *)
(***************************************************************************)
Entry == [socket_fd : Descriptors \cup {-1}, client_id : (Id \ Invalid) \cup {NoName},
          last_seen : {"since", "before"}, inactive_count : 0 .. MAX_INACTIVE_COUNT - 1,
          is_active : BOOLEAN, thread_id : Conn \cup {NULL}]

Label == {"none", "loop", "recv", "list", "reply", "2ALL", "2ONE", "goodbye", "alive", "cleanup", "done"}
Answer == {"nothing", "ERROR", "BROADCAST", "PRIVATE", "CLIENT_LIST", "STOP", "ALIVE"}

\* What is known of the table and the descriptors in every state.
Facts == 
    /\ clients \in [Slots -> Entry] /\ client_count \in Int
    /\ files \in [Descriptors -> Conn \cup {NULL}]
    /\ at \in [Conn -> Label] /\ slot \in [Conn -> Slots]
    /\ fd \in [Conn -> Descriptors \cup {-1}] /\ reading \in [Conn -> Conn \cup {NULL}]
    /\ accepted \in Descriptors \cup {-1} /\ presented \in (Id \ Invalid) \cup {NoName}
    /\ -1 \notin Descriptors /\ NULL \notin Conn
    /\ Active \subseteq Slots

LEMMA InvFacts == Inv => Facts
BY ConnFinite, ServerAssumption DEF Inv, TableAgrees, ServerTypeOK, Facts, Entry, Label, Active

\* The connection that was accepted gets a descriptor: there is one for each.
LEMMA FreeDescriptor == 
    ASSUME Inv, NEW c \in Conn, status[c] = "queued"
    PROVE  Min({d \in Descriptors : files[d] = NULL}) \in {d \in Descriptors : files[d] = NULL}
<1> DEFINE free == {d \in Descriptors : files[d] = NULL}
<1>1. free # {}
  <2>1. SUFFICES ASSUME free = {} PROVE FALSE
    OBVIOUS
  <2>2. files \in [Descriptors -> Conn \ {c}]
    <3>1. \A d \in Descriptors : files[d] # NULL /\ files[d] \in Conn /\ files[d] # c
      BY <2>1, InvFacts DEF Facts, Inv, FilesOK
    <3>2. QED
      BY <3>1, InvFacts DEF Facts
  <2>3. IsFiniteSet(Conn \ {c}) /\ Cardinality(Conn \ {c}) = Cardinality(Conn) - 1
    BY ServerAssumption, FS_RemoveElement
  <2>4. \E d, e \in Descriptors : d # e /\ files[d] = files[e]
    <3> DEFINE others == Conn \ {c}
    <3>1. /\ IsFiniteSet(others) /\ Cardinality(others) < Cardinality(Descriptors)
          /\ IsFiniteSet(Descriptors) /\ files \in [Descriptors -> others]
      BY <2>2, <2>3, ConnFinite
    <3> HIDE DEF others
    <3>2. QED
      BY ONLY <3>1, FS_PigeonHole
  <2>5. QED
    BY <2>1, <2>4 DEF Inv, FilesOK
<1>2. free \subseteq Nat
  BY ConnFinite
<1>3. QED
  BY <1>1, <1>2, MinIsElement

LEMMA ActiveFinite == IsFiniteSet(Active) /\ IsFiniteSet(Active)' /\ Active \subseteq Slots
<1>1. IsFiniteSet(0 .. MAX_CLIENTS - 1)
  BY FS_Interval, ServerAssumption
<1>2. Active \subseteq Slots /\ Active' \subseteq Slots
  BY DEF Active
<1>3. QED
  BY <1>1, <1>2, FS_Subset DEF Slots

\* What is sent, and what is closed.
LEMMA SendsTyped == 
    ASSUME NEW descriptors, NEW type \in Answer, ServerSends(descriptors, type)
    PROVE  out' \in [Conn -> Answer]
BY DEF ServerSends, Answer

LEMMA SilentTyped == Silent => out' \in [Conn -> Answer]
BY SendsTyped DEF Silent, Answer

LEMMA CloseTyped == 
    ASSUME Facts, NEW descriptors, Close(descriptors)
    PROVE  /\ files' \in [Descriptors -> Conn \cup {NULL}]
           /\ \A d \in Descriptors : files'[d] = IF d \in descriptors THEN NULL ELSE files[d]
BY DEF Close, Facts

\* The tables that remove_clients starts from.
LEMMA RemovingTyped == 
    ASSUME Inv, NEW table, DOMAIN table = Slots, NEW gone \in SUBSET Active,
           \A i \in Slots : /\ table[i].client_id = clients[i].client_id
                            /\ table[i].is_active = clients[i].is_active
                            /\ table[i].thread_id = clients[i].thread_id
                            /\ table[i].socket_fd = clients[i].socket_fd,
           \A i \in Slots \ gone : table[i] \in Entry,
           \A i \in gone : \E n \in Int : table[i] = [clients[i] EXCEPT !.inactive_count = n],
           remove_clients(table, gone)
    PROVE  /\ clients' \in [Slots -> Entry]
           /\ \A i \in Slots \ gone : /\ clients'[i].client_id = clients[i].client_id
                                      /\ clients'[i].is_active = clients[i].is_active
                                      /\ clients'[i].thread_id = clients[i].thread_id
                                      /\ clients'[i].socket_fd = clients[i].socket_fd
           /\ \A i \in gone : ~clients'[i].is_active /\ clients'[i].socket_fd = -1
<1> DEFINE removed(i) == [table[i] EXCEPT !.socket_fd = -1, !.is_active = FALSE, !.inactive_count = 0, 
                                          !.thread_id = NULL, !.client_id = NoName]
<1>1. \A i \in Slots : clients'[i] = IF i \in gone THEN removed(i) ELSE table[i]
  BY DEF remove_clients
<1>2. ASSUME NEW i \in gone
      PROVE  removed(i) \in Entry /\ ~removed(i).is_active /\ removed(i).socket_fd = -1
  <2>1. clients[i] \in Entry /\ 0 \in 0 .. MAX_INACTIVE_COUNT - 1
    BY InvFacts, ServerAssumption DEF Facts
  <2>2. PICK n \in Int : table[i] = [clients[i] EXCEPT !.inactive_count = n]
    OBVIOUS
  <2>3. QED
    BY <2>1, <2>2 DEF Entry
<1>3. clients' = [i \in Slots |-> clients'[i]]
  BY DEF remove_clients
<1> HIDE DEF removed
<1>4. \A i \in Slots : clients'[i] \in Entry
  BY <1>1, <1>2
<1>5. \A i \in gone : i \in Slots
  BY DEF Active
<1>6. QED
  BY <1>1, <1>2, <1>3, <1>4, <1>5

ScalarsTyped == 
    /\ is_running \in BOOLEAN /\ clients_mutex \in {NULL, "main"}
    /\ status \in [Conn -> {"none", "queued", "accepted", "reset"}]
    /\ in \in [Conn -> Seq({"message", "END"})]
    /\ out \in [Conn -> Answer]
    /\ main \in {"loop", "accept", "identify", "register", "registering", "welcome", "cleanup", "joining", "returned"}
    /\ accepted \in Descriptors \cup {-1} /\ presented \in (Id \ Invalid) \cup {NoName}
    /\ keepalive \in {"sleep", "scan", "done"}
    /\ stopping \in {"not", "begin", "lock", "join", "stopped"}

ThreadsTyped == 
    /\ at \in [Conn -> Label]
    /\ slot \in [Conn -> Slots] /\ fd \in [Conn -> Descriptors \cup {-1}] 
    /\ reading \in [Conn -> Conn \cup {NULL}]

TableTyped == 
    /\ clients \in [Slots -> Entry] /\ client_count \in Int
    /\ files \in [Descriptors -> Conn \cup {NULL}]

LEMMA TypesTogether == 
    /\ ServerTypeOK /\ StreamsOK <=> ScalarsTyped /\ ThreadsTyped /\ TableTyped
    /\ (ServerTypeOK /\ StreamsOK)' <=> ScalarsTyped' /\ ThreadsTyped' /\ TableTyped'
BY DEF ServerTypeOK, StreamsOK, ScalarsTyped, ThreadsTyped, TableTyped, Entry, Label, Answer

LEMMA InvTyped == Inv => ScalarsTyped /\ ThreadsTyped /\ TableTyped
BY TypesTogether DEF Inv, TableAgrees

LEMMA ReceivesTyped == 
    ASSUME in \in [Conn -> Seq({"message", "END"})], NEW c, NEW type, Receives(c, type)
    PROVE  in' \in [Conn -> Seq({"message", "END"})]
<1>1. CASE c \in Conn /\ type # "END"
  <2>1. in[c] \in Seq({"message", "END"}) /\ in[c] # <<>>
    BY <1>1 DEF Receives
  <2>2. Tail(in[c]) \in Seq({"message", "END"})
    BY <2>1
  <2>3. QED
    BY <1>1, <2>2 DEF Receives
<1>2. CASE c \notin Conn \/ type = "END"
  BY <1>2 DEF Receives
<1>3. QED
  BY <1>1, <1>2

LEMMA MainTypes == 
    ASSUME Inv, MainNext
    PROVE  ScalarsTyped'
<1>0. ScalarsTyped /\ Facts
  BY InvTyped, InvFacts
<1> USE <1>0, SilentTyped DEF ScalarsTyped
<1>1. CASE MainLoops \/ MainReturns \/ MainLocks("register", "registering") \/ MainLocks("cleanup", "joining")
  BY <1>1 DEF MainLoops, MainReturns, MainLocks, MainRuns, streamVars, acceptVars
<1>2. CASE \E c \in Conn : MainAccepts(c)
  BY <1>2, FreeDescriptor DEF MainAccepts, MainRuns
<1>3. CASE \E c \in Conn : MainIdentifies(c)
  <2>1. PICK c \in Conn, type \in Sent \cup {"END"}, id \in Id : 
          /\ Receives(c, type)
          /\ IF type \in {"GARBLED", "END"} \/ id \in Invalid
               THEN /\ main' = "loop" /\ accepted' = -1
                    /\ ServerSends(IF type \in {"GARBLED", "END"} THEN {} ELSE {accepted}, "ERROR")
                    /\ UNCHANGED presented
               ELSE /\ main' = "register"
                    /\ presented' = id /\ UNCHANGED accepted
                    /\ Silent
          /\ UNCHANGED <<tableVars, is_running, clients_mutex, status, keepalive, stopping>>
    BY <1>3 DEF MainIdentifies, MainRuns
  <2>2. in' \in [Conn -> Seq({"message", "END"})]
    BY <2>1, ReceivesTyped
  <2>3. out' \in [Conn -> Answer]
    BY <2>1, SendsTyped DEF Answer
  <2>4. QED
    BY <2>1, <2>2, <2>3
<1>4. CASE \E c \in Conn : MainAdds(c)
  BY <1>4 DEF MainAdds, MainRuns, streamVars
<1>5. CASE MainRefuses
  <2>1. out' \in [Conn -> Answer]
    BY <1>5, SendsTyped DEF MainRefuses, Answer
  <2>2. QED
    BY <1>5, <2>1 DEF MainRefuses, MainRuns, streamVars
<1>6. CASE MainWelcomes
  <2>1. out' \in [Conn -> Answer]
    BY <1>6, SendsTyped DEF MainWelcomes, Answer
  <2>2. QED
    BY <1>6, <2>1 DEF MainWelcomes, MainRuns, streamVars
<1>7. CASE \E i \in Slots : MainJoins(i)
  BY <1>7 DEF MainJoins, MainRuns, streamVars, acceptVars
<1>8. QED
  BY <1>1, <1>2, <1>3, <1>4, <1>5, <1>6, <1>7 DEF MainNext

LEMMA ThreadScalars == 
    ASSUME Inv, NEW k \in Conn, ThreadNext(k)
    PROVE  ScalarsTyped'
<1>0. ScalarsTyped
  BY InvTyped
<1> USE <1>0, SilentTyped DEF ScalarsTyped
<1>1. CASE ThreadCallsRecv(k) \/ ThreadLists(k) \/ ThreadHears(k) \/ ThreadCleansUp(k)
  BY <1>1 DEF ThreadCallsRecv, ThreadLists, ThreadHears, ThreadCleansUp, streamVars, acceptVars
<1>2. CASE ThreadReceives(k)
  <2>1. in' \in [Conn -> Seq({"message", "END"})]
    BY <1>2, ReceivesTyped DEF ThreadReceives
  <2>2. QED
    BY <1>2, <2>1 DEF ThreadReceives, acceptVars
<1>3. CASE ThreadReplies(k) \/ ThreadRelays(k) \/ ThreadSaysGoodbye(k)
  <2>1. out' \in [Conn -> Answer]
    BY <1>3, SendsTyped DEF ThreadReplies, ThreadRelays, ThreadSaysGoodbye, Answer
  <2>2. QED
    BY <1>3, <2>1 DEF ThreadReplies, ThreadRelays, ThreadSaysGoodbye, streamVars, acceptVars
<1>4. QED
  BY <1>1, <1>2, <1>3 DEF ThreadNext

LEMMA OtherScalars == 
    ASSUME Inv, KeepaliveNext \/ Signal \/ HandlerNext \/ ClientsNext \/ UNCHANGED vars
    PROVE  ScalarsTyped'
<1>0. ScalarsTyped
  BY InvTyped
<1> USE <1>0, SilentTyped DEF ScalarsTyped
<1>1. CASE KeepaliveWakes \/ Signal \/ StopJoins
  BY <1>1 DEF KeepaliveWakes, Signal, StopJoins, StopRuns, streamVars, acceptVars
<1>2. CASE KeepaliveScans
  <2>1. out' \in [Conn -> Answer]
    BY <1>2, SendsTyped DEF KeepaliveScans, Answer
  <2>2. QED
    BY <1>2, <2>1 DEF KeepaliveScans, streamVars, acceptVars
<1>3. CASE StopClosesSocket
  BY <1>3 DEF StopClosesSocket, StopRuns, acceptVars
<1>4. CASE StopClosesClients
  <2>1. out' \in [Conn -> Answer]
    BY <1>4, SendsTyped DEF StopClosesClients, Answer
  <2>2. QED
    BY <1>4, <2>1 DEF StopClosesClients, StopRuns, streamVars, acceptVars
<1>5. CASE \E c \in Conn : ClientConnects(c)
  BY <1>5 DEF ClientConnects, acceptVars
<1>6. CASE \E c \in Conn : ClientSends(c) \/ ClientCloses(c)
  <2>1. PICK c \in Conn, what \in {"message", "END"} : in' = [in EXCEPT ![c] = Append(@, what)]
    BY <1>6 DEF ClientSends, ClientCloses
  <2>2. Append(in[c], what) \in Seq({"message", "END"})
    OBVIOUS
  <2>3. in' \in [Conn -> Seq({"message", "END"})]
    BY <2>1, <2>2
  <2>4. QED
    BY <1>6, <2>3 DEF ClientSends, ClientCloses, acceptVars
<1>7. CASE UNCHANGED vars
  BY <1>7 DEF vars, streamVars, acceptVars
<1>8. QED
  BY <1>1, <1>2, <1>3, <1>4, <1>5, <1>6, <1>7 DEF KeepaliveNext, HandlerNext, ClientsNext

LEMMA ThreadsTypes == 
    ASSUME Inv, [Next]_vars
    PROVE  ThreadsTyped'
<1>0. ThreadsTyped /\ Facts
  BY InvTyped, InvFacts
<1> USE <1>0 DEF ThreadsTyped, Label
<1>1. CASE UNCHANGED threadVars
  BY <1>1 DEF threadVars
<1>2. ASSUME NEW k \in Conn, ThreadNext(k)
      PROVE  ThreadsTyped'
  <2>1. clients[slot[k]].socket_fd \in Descriptors \cup {-1} /\ 0 \in Slots
    BY ServerAssumption DEF Facts, Entry, Slots
  <2>2. CASE ThreadCallsRecv(k)
    <3>1. files[clients[slot[k]].socket_fd] \in Conn \cup {NULL} 
          \/ clients[slot[k]].socket_fd = -1
      BY <2>1 DEF Facts
    <3>2. clients[slot[k]].is_active => clients[slot[k]].socket_fd \in Descriptors
      BY DEF Inv, TableAgrees, Facts, Active
    <3>3. reading' \in [Conn -> Conn \cup {NULL}]
      BY <2>2, <3>2 DEF ThreadCallsRecv, Facts
    <3>4. QED
      BY <2>2, <3>3 DEF ThreadCallsRecv, Moves
  <2>3. CASE ThreadReceives(k)
    <3>1. PICK type \in Sent \cup {"END"} : Moves(k, "recv", Handler(type))
      BY <2>3 DEF ThreadReceives
    <3>2. Handler(type) \in Label
      BY ServerAssumption DEF Handler
    <3>3. at' \in [Conn -> Label]
      BY <3>1, <3>2 DEF Moves
    <3>4. fd' \in [Conn -> Descriptors \cup {-1}]
      BY <2>1, <2>3 DEF ThreadReceives
    <3>5. QED
      BY <2>3, <3>3, <3>4 DEF ThreadReceives
  <2>4. CASE ThreadLists(k) \/ ThreadReplies(k) \/ ThreadRelays(k) \/ ThreadSaysGoodbye(k) \/ ThreadHears(k)
    BY <2>4 DEF ThreadLists, ThreadReplies, ThreadRelays, ThreadSaysGoodbye, ThreadHears, Moves, Returns
  <2>5. CASE ThreadCleansUp(k)
    BY <2>1, <2>5 DEF ThreadCleansUp, Moves
  <2>6. QED
    BY <1>2, <2>2, <2>3, <2>4, <2>5 DEF ThreadNext
<1>3. ASSUME NEW c \in Conn, MainAdds(c)
      PROVE  ThreadsTyped'
  BY <1>3 DEF MainAdds
<1>4. CASE MainLoops \/ MainReturns \/ MainLocks("register", "registering") \/ MainLocks("cleanup", "joining")
            \/ MainRefuses \/ MainWelcomes \/ (\E c \in Conn : MainAccepts(c) \/ MainIdentifies(c))
            \/ (\E i \in Slots : MainJoins(i)) 
  BY <1>1, <1>4 DEF MainLoops, MainReturns, MainLocks, MainRefuses, MainWelcomes, MainAccepts, MainIdentifies, MainJoins
<1>5. CASE KeepaliveNext \/ Signal \/ HandlerNext \/ ClientsNext \/ UNCHANGED vars
  BY <1>1, <1>5 DEF KeepaliveNext, KeepaliveWakes, KeepaliveScans, Signal, HandlerNext, StopClosesSocket,
     StopClosesClients, StopJoins, ClientsNext, ClientConnects, ClientSends, ClientCloses, vars
<1>6. QED
  BY <1>2, <1>3, <1>4, <1>5 DEF Next, MainNext

-----------------------------------------------------------------------------
(***************************************************************************)
(* What the steps do to the table.                                         *)
(***************************************************************************)
SameEntry(i) == 
    /\ clients'[i].socket_fd = clients[i].socket_fd /\ clients'[i].client_id = clients[i].client_id
    /\ clients'[i].is_active = clients[i].is_active /\ clients'[i].thread_id = clients[i].thread_id

\* Nobody comes or goes, whatever is noted about when somebody was heard.
Kept == 
    /\ client_count' = client_count 
    /\ \A i \in Slots : clients'[i].socket_fd = clients[i].socket_fd /\ clients'[i].is_active = clients[i].is_active
    /\ \A i \in Active : SameEntry(i)

Added(c) == \E i \in Slots \ Active : 
    /\ \A j \in Slots \ {i} : SameEntry(j)
    /\ clients'[i].is_active /\ clients'[i].socket_fd = accepted /\ clients'[i].thread_id = c
    /\ clients'[i].client_id = presented
    /\ \A j \in Active : clients[j].client_id # presented
    /\ client_count' = client_count + 1
    /\ slot' = [slot EXCEPT ![c] = i]

Removed(gone) == 
    /\ gone \subseteq Active
    /\ \A i \in Slots \ gone : SameEntry(i)
    /\ \A i \in gone : ~clients'[i].is_active /\ clients'[i].socket_fd = -1
    /\ client_count' = client_count - Cardinality(gone)
    /\ Close({clients[i].socket_fd : i \in gone})

Emptied == 
    /\ \A i \in Slots : ~clients'[i].is_active /\ clients'[i].socket_fd = -1
    /\ client_count' = client_count
    /\ Close({clients[i].socket_fd : i \in Active})

EntriesTyped == clients' \in [Slots -> Entry] /\ client_count' \in Int

LEMMA UnchangedKeeps == 
    ASSUME Inv, UNCHANGED tableVars
    PROVE  EntriesTyped /\ Kept
BY InvFacts DEF Facts, tableVars, EntriesTyped, Kept, SameEntry, Active

LEMMA ReceiveKeeps == 
    ASSUME Inv, NEW k \in Conn, ThreadReceives(k)
    PROVE  EntriesTyped /\ Kept
<1>1. Facts /\ client_count' = client_count
  BY InvFacts DEF ThreadReceives
<1>2. clients[slot[k]] \in Entry /\ slot[k] \in Slots /\ 0 \in 0 .. MAX_INACTIVE_COUNT - 1
  BY <1>1, ServerAssumption DEF Facts
<1> DEFINE heard == [clients[slot[k]] EXCEPT !.last_seen = "since", !.inactive_count = 0]
<1>3. /\ heard \in Entry
      /\ heard.socket_fd = clients[slot[k]].socket_fd /\ heard.client_id = clients[slot[k]].client_id
      /\ heard.is_active = clients[slot[k]].is_active /\ heard.thread_id = clients[slot[k]].thread_id
  BY <1>2 DEF Entry
<1>4. clients' = clients \/ clients' = [clients EXCEPT ![slot[k]] = heard]
  <2>1. clients' = clients 
        \/ clients' = [clients EXCEPT ![slot[k]].last_seen = "since", ![slot[k]].inactive_count = 0]
    BY DEF ThreadReceives
  <2>2. [clients EXCEPT ![slot[k]].last_seen = "since", ![slot[k]].inactive_count = 0]
          = [clients EXCEPT ![slot[k]] = heard]
    BY <1>1, <1>2 DEF Facts
  <2>3. QED
    BY <2>1, <2>2
<1> HIDE DEF heard
<1>5. QED
  BY <1>1, <1>2, <1>3, <1>4 DEF Facts, EntriesTyped, Kept, SameEntry, Active

LEMMA HearKeeps == 
    ASSUME Inv, NEW k \in Conn, ThreadHears(k)
    PROVE  EntriesTyped /\ Kept
<1> DEFINE heard(i) == IF i \in find_client_by_socket(fd[k]) 
                         THEN [clients[i] EXCEPT !.last_seen = "since", !.inactive_count = 0]
                         ELSE clients[i]
<1>0. Facts
  BY InvFacts
<1>1. client_count' = client_count /\ clients' = [i \in Slots |-> heard(i)]
  BY DEF ThreadHears
<1>2. ASSUME NEW i \in Slots
      PROVE  /\ heard(i) \in Entry
             /\ heard(i).socket_fd = clients[i].socket_fd /\ heard(i).client_id = clients[i].client_id
             /\ heard(i).is_active = clients[i].is_active /\ heard(i).thread_id = clients[i].thread_id
  <2>1. clients[i] \in Entry
    BY <1>0 DEF Facts
  <2>2. 0 \in 0 .. MAX_INACTIVE_COUNT - 1
    BY ServerAssumption
  <2>3. QED
    BY <2>1, <2>2 DEF Entry
<1> HIDE DEF heard
<1>3. QED
  BY <1>0, <1>1, <1>2 DEF Facts, EntriesTyped, Kept, SameEntry, Active

LEMMA AddAdds == 
    ASSUME Inv, NEW c \in Conn, MainAdds(c)
    PROVE  EntriesTyped /\ Added(c)
<1> DEFINE new == [socket_fd |-> accepted, client_id |-> presented, last_seen |-> "since", 
                   inactive_count |-> 0, is_active |-> TRUE, thread_id |-> c]
<1>1. PICK i \in Slots : 
        /\ i = Min((Slots \ Active) \cup {MAX_CLIENTS})
        /\ clients' = [clients EXCEPT ![i] = new]
        /\ slot' = [slot EXCEPT ![c] = i]
  BY DEF MainAdds
<1>2. Facts /\ client_count' = client_count + 1
  BY InvFacts DEF MainAdds
<1>3. i \in Slots \ Active
  BY <1>1, FirstOfSlots
<1>4. /\ new \in Entry /\ new.is_active /\ new.socket_fd = accepted /\ new.thread_id = c 
      /\ new.client_id = presented
  BY <1>2, ServerAssumption DEF Facts, Entry
<1>5. \A j \in Active : clients[j].client_id # presented
  BY DEF MainAdds, find_client_by_id
<1> HIDE DEF new
<1>6. /\ clients' \in [Slots -> Entry] /\ clients'[i] = new
      /\ \A j \in Slots \ {i} : SameEntry(j)
  BY <1>1, <1>2, <1>4 DEF Facts, SameEntry
<1>7. EntriesTyped
  BY <1>2, <1>6 DEF EntriesTyped, Facts
<1>8. QED
  BY <1>1, <1>2, <1>3, <1>4, <1>5, <1>6, <1>7 DEF Added

\* What remove_clients does to the slots as they are in table.
LEMMA RemovingRemoves == 
    ASSUME Inv, NEW table, DOMAIN table = Slots, NEW gone \in SUBSET Active,
           \A i \in Slots : /\ table[i].client_id = clients[i].client_id
                            /\ table[i].is_active = clients[i].is_active
                            /\ table[i].thread_id = clients[i].thread_id
                            /\ table[i].socket_fd = clients[i].socket_fd,
           \A i \in Slots \ gone : table[i] \in Entry,
           \A i \in gone : \E n \in Int : table[i] = [clients[i] EXCEPT !.inactive_count = n],
           remove_clients(table, gone)
    PROVE  EntriesTyped /\ Removed(gone)
<1>1. client_count' = client_count - Cardinality(gone) /\ Close({clients[i].socket_fd : i \in gone})
  BY DEF remove_clients
<1>2. client_count \in Int /\ Cardinality(gone) \in Int
  BY InvFacts, ActiveFinite, FS_Subset, FS_CardinalityType DEF Facts
<1>3. client_count' \in Int
  BY <1>1, <1>2
<1>4. /\ clients' \in [Slots -> Entry]
      /\ \A i \in Slots \ gone : /\ clients'[i].client_id = clients[i].client_id
                                 /\ clients'[i].is_active = clients[i].is_active
                                 /\ clients'[i].thread_id = clients[i].thread_id
                                 /\ clients'[i].socket_fd = clients[i].socket_fd
      /\ \A i \in gone : ~clients'[i].is_active /\ clients'[i].socket_fd = -1
  BY RemovingTyped
<1>5. QED
  BY <1>1, <1>3, <1>4 DEF Removed, EntriesTyped, SameEntry

Leaving(k) == find_client_by_socket(clients[slot[k]].socket_fd)

LEMMA CleanUpRemoves == 
    ASSUME Inv, NEW k \in Conn, ThreadCleansUp(k)
    PROVE  EntriesTyped /\ Removed(Leaving(k))
<1>1. /\ DOMAIN clients = Slots /\ Leaving(k) \in SUBSET Active
      /\ \A i \in Slots : clients[i] \in Entry
      /\ remove_clients(clients, Leaving(k))
  BY InvFacts DEF Facts, Leaving, find_client_by_socket, ThreadCleansUp
<1>2. \A i \in Leaving(k) : \E n \in Int : clients[i] = [clients[i] EXCEPT !.inactive_count = n]
  <2>1. ASSUME NEW i \in Leaving(k)
        PROVE  clients[i].inactive_count \in Int 
               /\ clients[i] = [clients[i] EXCEPT !.inactive_count = clients[i].inactive_count]
    <3>1. clients[i] \in Entry
      BY <1>1 DEF Active
    <3>2. QED
      BY <3>1, ServerAssumption DEF Entry
  <2>2. QED
    BY <2>1
<1>3. QED
  BY <1>1, <1>2, RemovingRemoves

LEMMA ScanRemoves == 
    ASSUME Inv, KeepaliveScans
    PROVE  EntriesTyped /\ \E gone : Removed(gone)
<1> DEFINE table == [i \in Slots |-> CASE i \in Stale -> [clients[i] EXCEPT !.inactive_count = @ + 1]
                                       [] i \in Active \ Stale -> [clients[i] EXCEPT !.last_seen = "before"]
                                       [] OTHER -> clients[i]]
<1>1. PICK gone \in SUBSET Active : remove_clients(table, gone) /\ TimedOut \subseteq gone /\ gone \subseteq Stale
  <2>1. TimedOut \subseteq Stale /\ Stale \subseteq Active
    BY DEF TimedOut, Stale
  <2>2. QED
    BY <2>1 DEF KeepaliveScans
<1>2. Facts
  BY InvFacts
<1>3. ASSUME NEW i \in Slots
      PROVE  /\ table[i].client_id = clients[i].client_id
             /\ table[i].is_active = clients[i].is_active
             /\ table[i].thread_id = clients[i].thread_id
             /\ table[i].socket_fd = clients[i].socket_fd
             /\ i \notin gone => table[i] \in Entry
  <2>1. clients[i] \in Entry
    BY <1>2 DEF Facts
  <2>2. CASE i \in Stale
    <3>1. table[i] = [clients[i] EXCEPT !.inactive_count = @ + 1]
      BY <2>2
    <3>2. i \notin gone => clients[i].inactive_count + 1 \in 0 .. MAX_INACTIVE_COUNT - 1
      BY <1>1, <2>1, <2>2, ServerAssumption DEF TimedOut, Entry
    <3> HIDE DEF table
    <3>3. QED
      BY <2>1, <3>1, <3>2 DEF Entry
  <2>3. CASE i \in Active \ Stale
    <3>1. table[i] = [clients[i] EXCEPT !.last_seen = "before"]
      BY <2>3
    <3> HIDE DEF table
    <3>2. QED
      BY <2>1, <3>1 DEF Entry
  <2>4. CASE i \notin Active
    <3>1. table[i] = clients[i]
      BY <2>4 DEF Stale
    <3> HIDE DEF table
    <3>2. QED
      BY <2>1, <3>1
  <2>5. QED
    BY <2>2, <2>3, <2>4
<1>4. \A i \in gone : \E n \in Int : table[i] = [clients[i] EXCEPT !.inactive_count = n]
  <2>1. ASSUME NEW i \in gone
        PROVE  /\ clients[i].inactive_count + 1 \in Int 
               /\ table[i] = [clients[i] EXCEPT !.inactive_count = clients[i].inactive_count + 1]
    <3>1. clients[i] \in Entry /\ i \in Stale /\ i \in Slots
      BY <1>1, <1>2 DEF Facts
    <3>2. QED
      BY <3>1, ServerAssumption DEF Entry
  <2>2. QED
    BY <2>1
<1>5. DOMAIN table = Slots
  OBVIOUS
<1> HIDE DEF table
<1>6. QED
  BY <1>1, <1>3, <1>4, <1>5, RemovingRemoves

LEMMA StopEmpties == 
    ASSUME Inv, StopClosesClients
    PROVE  EntriesTyped /\ Emptied
<1> DEFINE closed(i) == IF i \in Active THEN [clients[i] EXCEPT !.socket_fd = -1, !.is_active = FALSE] 
                                        ELSE clients[i]
<1>1. /\ Facts /\ client_count' = client_count 
      /\ clients' = [i \in Slots |-> closed(i)]
      /\ Close({clients[i].socket_fd : i \in Active})
  BY InvFacts DEF StopClosesClients
<1>2. ASSUME NEW i \in Slots
      PROVE  closed(i) \in Entry /\ ~closed(i).is_active /\ closed(i).socket_fd = -1
  <2>1. clients[i] \in Entry
    BY <1>1 DEF Facts
  <2>2. i \notin Active => ~clients[i].is_active /\ clients[i].socket_fd = -1
    BY DEF Active, Inv, SlotsOK
  <2>3. QED
    BY <2>1, <2>2 DEF Entry
<1> HIDE DEF closed
<1>3. QED
  BY <1>1, <1>2 DEF EntriesTyped, Emptied, Facts

\* The thread of an active slot has not ended.
LEMMA JoinKeeps == 
    ASSUME Inv, NEW i \in Slots, MainJoins(i)
    PROVE  EntriesTyped /\ Kept
<1>0. Facts /\ client_count' = client_count
  BY InvFacts DEF MainJoins
<1>1. /\ clients[i].thread_id # NULL /\ at[clients[i].thread_id] = "done"
      /\ clients' = [clients EXCEPT ![i].thread_id = NULL]
  BY DEF MainJoins
<1>2. i \notin Active
  BY <1>1 DEF Inv, SlotsOK
<1> DEFINE joined == [clients[i] EXCEPT !.thread_id = NULL]
<1>3. joined \in Entry /\ joined.is_active = clients[i].is_active /\ joined.socket_fd = clients[i].socket_fd
  <2>1. clients[i] \in Entry
    BY <1>0 DEF Facts
  <2>2. QED
    BY <2>1 DEF Entry
<1>4. clients' = [clients EXCEPT ![i] = joined]
  BY <1>1
<1> HIDE DEF joined
<1>5. QED
  BY <1>0, <1>2, <1>3, <1>4 DEF Facts, EntriesTyped, Kept, SameEntry, Active

TableChanges == 
    \/ \E c \in Conn : MainAdds(c)
    \/ \E k \in Conn : ThreadCleansUp(k)
    \/ KeepaliveScans
    \/ StopClosesClients

LEMMA TableStep == 
    ASSUME Inv, [Next]_vars
    PROVE  EntriesTyped /\ (Kept \/ TableChanges)
<1>1. CASE UNCHANGED tableVars
  BY <1>1, UnchangedKeeps
<1>2. CASE TableChanges
  BY <1>2, AddAdds, CleanUpRemoves, ScanRemoves, StopEmpties DEF TableChanges
<1>3. CASE \E k \in Conn : ThreadReceives(k) \/ ThreadHears(k)
  BY <1>3, ReceiveKeeps, HearKeeps
<1>4. CASE \E i \in Slots : MainJoins(i)
  BY <1>4, JoinKeeps
<1>5. CASE MainNext /\ ~TableChanges /\ ~\E i \in Slots : MainJoins(i)
  BY <1>1, <1>5 DEF MainNext, TableChanges, MainLoops, MainReturns, MainLocks, MainRefuses, MainWelcomes, 
     MainAccepts, MainIdentifies
<1>6. CASE \E k \in Conn : ThreadNext(k) /\ ~ThreadReceives(k) /\ ~ThreadHears(k) /\ ~ThreadCleansUp(k)
  BY <1>1, <1>6 DEF ThreadNext, ThreadCallsRecv, ThreadLists, ThreadReplies, ThreadRelays, ThreadSaysGoodbye
<1>7. CASE KeepaliveWakes \/ Signal \/ StopClosesSocket \/ StopJoins \/ ClientsNext \/ UNCHANGED vars
  BY <1>1, <1>7 DEF KeepaliveWakes, Signal, StopClosesSocket, StopJoins, ClientsNext, ClientConnects,
     ClientSends, ClientCloses, vars
<1>8. QED
  BY <1>2, <1>3, <1>4, <1>5, <1>6, <1>7 DEF Next, KeepaliveNext, HandlerNext, TableChanges

-----------------------------------------------------------------------------
(***************************************************************************)
(* What the steps do to the descriptors, the threads and main.             *)
(***************************************************************************)
\* Descriptors of active slots stay open in a step that keeps the slots.
FilesKept == \A i \in Active : files'[clients[i].socket_fd] = files[clients[i].socket_fd]

Accepted == \E c \in Conn : 
    /\ status[c] = "queued" /\ status' = [status EXCEPT ![c] = "accepted"]
    /\ accepted' \in Descriptors /\ files[accepted'] = NULL
    /\ files' = [files EXCEPT ![accepted'] = c]
    /\ main' = "identify"

LEMMA AcceptAccepts == 
    ASSUME Inv, NEW c \in Conn, MainAccepts(c)
    PROVE  Accepted
BY FreeDescriptor DEF MainAccepts, MainRuns, Accepted

\* Else descriptors are closed only, and what was accepted remains so.
Closed == 
    /\ \A d \in Descriptors : files'[d] = files[d] \/ files'[d] = NULL
    /\ \A c \in Conn : status[c] = "accepted" => status'[c] = "accepted"

FilesTyped == files' \in [Descriptors -> Conn \cup {NULL}]

LEMMA FilesStep == 
    ASSUME Inv, [Next]_vars
    PROVE  FilesTyped /\ (Accepted \/ Closed)
<1>0. Facts /\ status \in [Conn -> {"none", "queued", "accepted", "reset"}]
  BY InvFacts, InvTyped DEF ScalarsTyped
<1>1. CASE UNCHANGED <<files, status>>
  BY <1>0, <1>1 DEF FilesTyped, Closed, Facts
<1>2. ASSUME NEW descriptors, Close(descriptors), UNCHANGED status
      PROVE  FilesTyped /\ Closed
  BY <1>0, <1>2, CloseTyped DEF FilesTyped, Closed
<1>3. CASE \E c \in Conn : MainAccepts(c)
  <2>1. Accepted
    BY <1>3, AcceptAccepts
  <2>2. QED
    BY <1>0, <2>1 DEF Accepted, FilesTyped, Facts
<1>4. CASE \E c \in Conn : MainIdentifies(c)
  BY <1>1, <1>2, <1>4 DEF MainIdentifies
<1>5. CASE MainRefuses
  BY <1>2, <1>5 DEF MainRefuses, streamVars
<1>6. CASE TableChanges
  BY <1>1, <1>2, <1>6 DEF TableChanges, MainAdds, ThreadCleansUp, KeepaliveScans, StopClosesClients, 
     remove_clients, streamVars
<1>7. CASE MainLoops \/ MainReturns \/ MainLocks("register", "registering") \/ MainLocks("cleanup", "joining")
            \/ MainWelcomes \/ (\E i \in Slots : MainJoins(i))
  BY <1>1, <1>7 DEF MainLoops, MainReturns, MainLocks, MainWelcomes, MainJoins, streamVars
<1>8. CASE \E k \in Conn : ThreadNext(k) /\ ~ThreadCleansUp(k)
  BY <1>1, <1>8 DEF ThreadNext, ThreadCallsRecv, ThreadReceives, ThreadLists, ThreadReplies, ThreadRelays,
     ThreadSaysGoodbye, ThreadHears, streamVars
<1>9. CASE KeepaliveWakes \/ Signal \/ StopJoins \/ (\E c \in Conn : ClientSends(c) \/ ClientCloses(c)) 
            \/ UNCHANGED vars
  BY <1>1, <1>9 DEF KeepaliveWakes, Signal, StopJoins, ClientSends, ClientCloses, streamVars, vars
<1>10. CASE StopClosesSocket \/ \E c \in Conn : ClientConnects(c)
  BY <1>0, <1>10 DEF StopClosesSocket, ClientConnects, FilesTyped, Closed, Facts
<1>11. QED
  BY <1>3, <1>4, <1>5, <1>6, <1>7, <1>8, <1>9, <1>10 
     DEF Next, MainNext, KeepaliveNext, HandlerNext, ClientsNext, TableChanges

\* Every active slot has an open descriptor.
EntriesOpen == \A i \in Active : clients[i].socket_fd \in Descriptors /\ files[clients[i].socket_fd] # NULL

\* What main closes is in no slot.
LEMMA FilesKeptStep == 
    ASSUME Inv, [Next]_vars, Kept
    PROVE  FilesKept \/ TableChanges
<1>0. Facts /\ EntriesOpen
  BY InvFacts DEF Inv, TableAgrees, EntriesOpen
<1>1. CASE UNCHANGED files
  BY <1>1 DEF FilesKept
<1>2. CASE \E c \in Conn : MainAccepts(c)
  <2>1. Accepted
    BY <1>2, AcceptAccepts
  <2>2. QED
    BY <1>0, <2>1 DEF Accepted, FilesKept, EntriesOpen, Facts
<1>3. CASE Close({accepted}) /\ main \in {"identify", "registering"}
  <2>1. \A i \in Active : clients[i].socket_fd # accepted
    BY <1>3 DEF Inv, AcceptedOK
  <2>2. QED
    BY <1>0, <1>3, <2>1, CloseTyped DEF FilesKept, EntriesOpen
<1>4. CASE (\E c \in Conn : MainIdentifies(c)) \/ MainRefuses
  BY <1>1, <1>3, <1>4 DEF MainIdentifies, MainRefuses, MainRuns
<1>5. CASE MainLoops \/ MainReturns \/ MainLocks("register", "registering") \/ MainLocks("cleanup", "joining")
            \/ MainWelcomes \/ (\E i \in Slots : MainJoins(i))
  BY <1>1, <1>5 DEF MainLoops, MainReturns, MainLocks, MainWelcomes, MainJoins
<1>6. CASE \E k \in Conn : ThreadNext(k) /\ ~ThreadCleansUp(k)
  BY <1>1, <1>6 DEF ThreadNext, ThreadCallsRecv, ThreadReceives, ThreadLists, ThreadReplies, ThreadRelays,
     ThreadSaysGoodbye, ThreadHears
<1>7. CASE KeepaliveWakes \/ Signal \/ StopJoins \/ StopClosesSocket \/ ClientsNext \/ UNCHANGED vars
  BY <1>1, <1>7 DEF KeepaliveWakes, Signal, StopJoins, StopClosesSocket, ClientsNext, ClientConnects, 
     ClientSends, ClientCloses, vars
<1>8. QED
  BY <1>2, <1>4, <1>5, <1>6, <1>7 DEF Next, MainNext, KeepaliveNext, HandlerNext, TableChanges

\* What a step that is not k's own, nor its creation, leaves alone.
LEMMA ThreadStep == 
    ASSUME Inv, [Next]_vars, NEW k \in Conn
    PROVE  \/ UNCHANGED <<at[k], fd[k], slot[k]>>
           \/ MainAdds(k)
           \/ ThreadNext(k)
<1>0. Facts
  BY InvFacts
<1>1. CASE UNCHANGED threadVars
  BY <1>1 DEF threadVars
<1>2. ASSUME NEW c \in Conn, MainAdds(c), c # k
      PROVE  UNCHANGED <<at[k], fd[k], slot[k]>>
  BY <1>0, <1>2 DEF MainAdds, Facts
<1>3. ASSUME NEW c \in Conn, ThreadNext(c), c # k
      PROVE  UNCHANGED <<at[k], fd[k], slot[k]>>
  BY <1>0, <1>3 DEF ThreadNext, ThreadCallsRecv, ThreadReceives, ThreadLists, ThreadReplies, ThreadRelays,
     ThreadSaysGoodbye, ThreadHears, ThreadCleansUp, Moves, Returns, Facts
<1>4. CASE MainNext /\ ~\E c \in Conn : MainAdds(c)
  BY <1>1, <1>4 DEF MainNext, MainLoops, MainReturns, MainLocks, MainRefuses, MainWelcomes, MainAccepts, 
     MainIdentifies, MainJoins
<1>5. CASE KeepaliveNext \/ Signal \/ HandlerNext \/ ClientsNext \/ UNCHANGED vars
  BY <1>1, <1>5 DEF KeepaliveNext, KeepaliveWakes, KeepaliveScans, Signal, HandlerNext, StopClosesSocket,
     StopClosesClients, StopJoins, ClientsNext, ClientConnects, ClientSends, ClientCloses, vars
<1>6. QED
  BY <1>2, <1>3, <1>4, <1>5 DEF Next, MainNext

\* Where a thread goes: it keeps its slot until it ends, and the descriptor that
\* it has read there while it answers one message.
LEMMA ThreadGoes == 
    ASSUME Inv, NEW k \in Conn, ThreadNext(k)
    PROVE  /\ at[k] \notin {"none", "done"} /\ at'[k] # "none"
           /\ at'[k] = "done" => ThreadCleansUp(k)
           /\ slot'[k] = slot[k] \/ ThreadCleansUp(k)
           /\ at'[k] \in Handling => ThreadReceives(k) \/ (at[k] \in Handling /\ fd'[k] = fd[k])
<1>0. Facts
  BY InvFacts
<1> USE <1>0 DEF Facts, Handling, Moves
<1>1. CASE ThreadReceives(k)
  <2>1. PICK type \in Sent \cup {"END"} : Moves(k, "recv", Handler(type))
    BY <1>1 DEF ThreadReceives
  <2>2. Handler(type) \in Label \ {"none", "done"}
    BY ServerAssumption DEF Handler, Label
  <2>3. QED
    BY <1>1, <2>1, <2>2 DEF ThreadReceives
<1>2. CASE ThreadCallsRecv(k)
  BY <1>2 DEF ThreadCallsRecv
<1>3. CASE ThreadLists(k) \/ ThreadReplies(k) \/ ThreadRelays(k) \/ ThreadSaysGoodbye(k) \/ ThreadHears(k)
  BY <1>3 DEF ThreadLists, ThreadReplies, ThreadRelays, ThreadSaysGoodbye, ThreadHears
<1>4. CASE ThreadCleansUp(k)
  BY <1>4 DEF ThreadCleansUp
<1>5. QED
  BY <1>1, <1>2, <1>3, <1>4 DEF ThreadNext

\* A thread that serves its slot goes on doing so, unless it cleans up.
LEMMA ThreadStays == 
    ASSUME Inv, [Next]_vars, NEW k \in Conn, at[k] \notin {"none", "done"}, 
           ~MainAdds(k), ~ThreadCleansUp(k)
    PROVE  slot'[k] = slot[k] /\ at'[k] \notin {"none", "done"}
BY ThreadStep, ThreadGoes

\* What is left of a table whose entries are kept.
LEMMA StopOrder == 
    ASSUME [Next]_vars, stopping' \in {"not", "begin", "lock"}
    PROVE  stopping \in {"not", "begin", "lock"} /\ ~StopClosesClients
BY DEF Next, MainNext, MainLoops, MainReturns, MainLocks, MainRefuses, MainWelcomes, MainAccepts, 
   MainIdentifies, MainAdds, MainJoins, ThreadNext, ThreadCallsRecv, ThreadReceives, ThreadLists, ThreadReplies,
   ThreadRelays, ThreadSaysGoodbye, ThreadHears, ThreadCleansUp, KeepaliveNext, KeepaliveWakes, KeepaliveScans,
   Signal, HandlerNext, StopClosesSocket, StopClosesClients, StopJoins, StopRuns, ClientsNext, ClientConnects,
   ClientSends, ClientCloses, vars

-----------------------------------------------------------------------------
(***************************************************************************)
(* The table agrees with the descriptors and the threads.                  *)
(***************************************************************************)
EntriesOK == 
    /\ \A i \in Active : 
         /\ clients[i].socket_fd \in Descriptors /\ files[clients[i].socket_fd] # NULL
         /\ clients[i].thread_id = files[clients[i].socket_fd]
         /\ clients[i].client_id # NoName
    /\ \A i, j \in Active : clients[i].client_id = clients[j].client_id => i = j

CountOK == stopping \in {"not", "begin", "lock"} => client_count = Cardinality(Active)

LEMMA TableAgreesParts == TableAgrees <=> ServerTypeOK /\ EntriesOK /\ CountOK
BY DEF TableAgrees, EntriesOK, CountOK

TableInv == EntriesOK /\ CountOK /\ SlotsOK

\* The connection of an active slot.
LEMMA ActiveThread == 
    ASSUME Inv, NEW i \in Active
    PROVE  /\ clients[i].thread_id \in Conn /\ clients[i].thread_id = files[clients[i].socket_fd]
           /\ clients[i].socket_fd \in Descriptors
           /\ slot[clients[i].thread_id] = i /\ at[clients[i].thread_id] \notin {"none", "done"}
<1>1. Facts /\ EntriesOK
  BY InvFacts, TableAgreesParts DEF Inv
<1>2. QED
  BY <1>1 DEF Facts, EntriesOK, Inv, SlotsOK

\* Nobody is registered for what main has accepted.
LEMMA NotRegistered == 
    ASSUME Inv, main \in {"identify", "register", "registering"}, NEW i \in Active
    PROVE  clients[i].thread_id # files[accepted]
<1>1. accepted \in Descriptors /\ files[accepted] # NULL /\ clients[i].socket_fd # accepted
  BY DEF Inv, AcceptedOK
<1>2. QED
  BY <1>1, ActiveThread DEF Inv, FilesOK

LEMMA KeptTable == 
    ASSUME Inv, [Next]_vars, Kept, FilesKept, ~TableChanges
    PROVE  TableInv'
<1>1. EntriesOK /\ CountOK /\ SlotsOK /\ Active' = Active
  BY TableAgreesParts DEF Inv, Kept, Active
<1>2. EntriesOK'
  BY <1>1 DEF EntriesOK, Kept, SameEntry, FilesKept
<1>3. CountOK'
  BY <1>1, StopOrder DEF CountOK, Kept
<1>4. \A i \in Active : slot'[clients[i].thread_id] = i /\ at'[clients[i].thread_id] \notin {"none", "done"}
  BY ActiveThread, ThreadStays DEF TableChanges
<1>5. SlotsOK'
  BY <1>1, <1>4 DEF SlotsOK, Kept, SameEntry, Active
<1>6. QED
  BY <1>2, <1>3, <1>5 DEF TableInv

LEMMA AddTable == 
    ASSUME Inv, [Next]_vars, NEW c \in Conn, MainAdds(c)
    PROVE  TableInv'
<1>1. PICK i \in Slots \ Active : 
        /\ \A j \in Slots \ {i} : SameEntry(j)
        /\ clients'[i].is_active /\ clients'[i].socket_fd = accepted /\ clients'[i].thread_id = c
        /\ clients'[i].client_id = presented
        /\ \A j \in Active : clients[j].client_id # presented
        /\ client_count' = client_count + 1
        /\ slot' = [slot EXCEPT ![c] = i]
  BY AddAdds DEF Added
<1>2. EntriesOK /\ CountOK /\ SlotsOK /\ Facts
  BY TableAgreesParts, InvFacts DEF Inv
<1>3. /\ accepted \in Descriptors /\ files[accepted] = c
      /\ \A j \in Active : clients[j].socket_fd # accepted /\ clients[j].thread_id # c
      /\ presented \in Id \ Invalid
      /\ files' = files /\ at' = [at EXCEPT ![c] = "loop"] /\ stopping' = stopping
  BY NotRegistered DEF MainAdds, MainRuns, Inv, AcceptedOK
<1>4. Active' = Active \cup {i}
  BY <1>1, <1>2 DEF Active, SameEntry
<1>5. \A j \in Active : SameEntry(j) /\ j # i
  BY <1>1, <1>2 DEF Facts
<1>6. c \in Conn /\ c # NULL /\ presented # NoName
  BY <1>3, ServerAssumption
<1>7. EntriesOK'
  BY <1>1, <1>2, <1>3, <1>4, <1>5, <1>6 DEF EntriesOK, SameEntry
<1>8. CountOK'
  <2>1. Cardinality(Active') = Cardinality(Active) + 1
    BY <1>1, <1>4, ActiveFinite, FS_AddElement
  <2>2. QED
    BY <1>1, <1>2, <1>3, <2>1 DEF CountOK
<1>9. SlotsOK'
  <2>1. \A j \in Slots \ Active' : clients'[j].socket_fd = -1
    BY <1>1, <1>2, <1>4 DEF SlotsOK, SameEntry
  <2>2. \A j, l \in Active' : clients'[j].socket_fd = clients'[l].socket_fd => j = l
    BY <1>1, <1>2, <1>3, <1>4, <1>5 DEF SlotsOK, SameEntry
  <2>3. slot'[c] = i /\ at'[c] = "loop"
    BY <1>1, <1>2, <1>3 DEF Facts
  <2>4. \A j \in Active : /\ slot'[clients[j].thread_id] = slot[clients[j].thread_id]
                          /\ at'[clients[j].thread_id] = at[clients[j].thread_id]
    BY <1>1, <1>2, <1>3, ActiveThread DEF Facts
  <2>5. \A j \in Active' : slot'[clients'[j].thread_id] = j /\ at'[clients'[j].thread_id] \notin {"none", "done"}
    BY <1>1, <1>2, <1>4, <1>5, <2>3, <2>4 DEF SlotsOK, SameEntry
  <2>6. QED
    BY <2>1, <2>2, <2>5 DEF SlotsOK
<1>10. QED
  BY <1>7, <1>8, <1>9 DEF TableInv

\* Whoever stays keeps an open descriptor, since the closed ones were others'.
LEMMA RemovedTable == 
    ASSUME Inv, NEW gone, Removed(gone),
           stopping' \in {"not", "begin", "lock"} => stopping \in {"not", "begin", "lock"},
           \A i \in Active \ gone : /\ slot'[clients[i].thread_id] = i
                                    /\ at'[clients[i].thread_id] \notin {"none", "done"}
    PROVE  TableInv'
<1>1. EntriesOK /\ CountOK /\ SlotsOK /\ Facts
  BY TableAgreesParts, InvFacts DEF Inv
<1>2. /\ gone \subseteq Active /\ Active' = Active \ gone
      /\ \A i \in Active' : SameEntry(i)
      /\ \A i \in gone : clients'[i].socket_fd = -1
      /\ client_count' = client_count - Cardinality(gone)
  BY <1>1 DEF Removed, Active, SameEntry
<1>3. \A i \in Active' : files'[clients[i].socket_fd] = files[clients[i].socket_fd]
  <2>1. \A i \in Active' : clients[i].socket_fd \notin {clients[j].socket_fd : j \in gone}
    BY <1>1, <1>2 DEF SlotsOK
  <2>2. QED
    BY <1>1, <1>2, <2>1, CloseTyped DEF Removed, EntriesOK
<1>4. EntriesOK'
  BY <1>1, <1>2, <1>3 DEF EntriesOK, SameEntry
<1>5. CountOK'
  <2>1. /\ Cardinality(Active \ gone) = Cardinality(Active) - Cardinality(Active \cap gone)
        /\ Active \cap gone = gone
    BY <1>2, ActiveFinite, FS_Difference
  <2>2. QED
    BY <1>1, <1>2, <2>1 DEF CountOK
<1>6. \A i \in Slots \ Active' : clients'[i].socket_fd = -1
  BY <1>1, <1>2 DEF Removed, SlotsOK, SameEntry
<1>7. SlotsOK'
  BY <1>1, <1>2, <1>6 DEF SlotsOK, SameEntry
<1>8. QED
  BY <1>4, <1>5, <1>7 DEF TableInv

\* A thread removes the slot that it has a pointer to, if that is in use.
LEMMA LeavingIsSlot == 
    ASSUME Inv, NEW k \in Conn
    PROVE  Leaving(k) = IF slot[k] \in Active THEN {slot[k]} ELSE {}
<1>1. Facts /\ EntriesOK /\ SlotsOK
  BY TableAgreesParts, InvFacts DEF Inv
<1>2. CASE slot[k] \in Active
  BY <1>1, <1>2 DEF Leaving, find_client_by_socket, SlotsOK
<1>3. CASE slot[k] \notin Active
  BY <1>1, <1>3 DEF Leaving, find_client_by_socket, SlotsOK, EntriesOK, Facts
<1>4. QED
  BY <1>2, <1>3

LEMMA CleanUpTable == 
    ASSUME Inv, [Next]_vars, NEW k \in Conn, ThreadCleansUp(k)
    PROVE  TableInv'
<1>1. \A i \in Active \ Leaving(k) : clients[i].thread_id # k
  BY LeavingIsSlot, ActiveThread
<1>2. Facts /\ at' = [at EXCEPT ![k] = "done"] /\ slot' = [slot EXCEPT ![k] = 0] /\ stopping' = stopping
  BY InvFacts DEF ThreadCleansUp, Moves
<1>3. \A i \in Active \ Leaving(k) : slot'[clients[i].thread_id] = i 
                                     /\ at'[clients[i].thread_id] \notin {"none", "done"}
  BY <1>1, <1>2, ActiveThread DEF Facts
<1>4. QED
  BY <1>2, <1>3, CleanUpRemoves, RemovedTable

LEMMA TableInvStep == 
    ASSUME Inv, [Next]_vars
    PROVE  TableInv'
<1>1. CASE \E c \in Conn : MainAdds(c)
  BY <1>1, AddTable
<1>2. CASE \E k \in Conn : ThreadCleansUp(k)
  BY <1>2, CleanUpTable
<1>3. CASE KeepaliveScans
  <2>1. UNCHANGED <<slot, at, stopping>>
    BY <1>3 DEF KeepaliveScans, threadVars
  <2>2. QED
    BY <1>3, <2>1, ScanRemoves, ActiveThread, RemovedTable
<1>4. CASE StopClosesClients
  <2>1. Active' = {} /\ stopping' = "join" /\ \A i \in Slots : clients'[i].socket_fd = -1
    BY <1>4, StopEmpties DEF Emptied, Active, StopClosesClients, StopRuns
  <2>2. QED
    BY <2>1 DEF TableInv, EntriesOK, CountOK, SlotsOK
<1>5. CASE ~TableChanges
  BY <1>5, TableStep, FilesKeptStep, KeptTable
<1>6. QED
  BY <1>1, <1>2, <1>3, <1>4, <1>5 DEF TableChanges

-----------------------------------------------------------------------------
(***************************************************************************)
(* The rest of the invariant.                                              *)
(***************************************************************************)
LEMMA FilesInvStep == 
    ASSUME Inv, [Next]_vars
    PROVE  FilesOK'
<1>0. Facts /\ FilesOK /\ FilesTyped /\ status \in [Conn -> {"none", "queued", "accepted", "reset"}]
  BY InvFacts, InvTyped, FilesStep DEF Inv, ScalarsTyped
<1>1. CASE Closed
  BY <1>0, <1>1 DEF Closed, FilesOK, FilesTyped, Facts
<1>2. CASE Accepted
  <2>1. PICK c \in Conn : 
          /\ status[c] = "queued" /\ status' = [status EXCEPT ![c] = "accepted"]
          /\ accepted' \in Descriptors /\ files' = [files EXCEPT ![accepted'] = c]
    BY <1>2 DEF Accepted
  <2>2. \A d \in Descriptors : files[d] # c
    BY <1>0, <2>1 DEF FilesOK, Facts
  <2>3. \A d \in Descriptors : files'[d] = IF d = accepted' THEN c ELSE files[d]
    BY <1>0, <2>1 DEF Facts
  <2>4. status'[c] = "accepted" /\ \A e \in Conn : status[e] = "accepted" => status'[e] = "accepted"
    BY <1>0, <2>1
  <2>5. QED
    BY <1>0, <2>2, <2>3, <2>4 DEF FilesOK, Facts
<1>3. QED
  BY <1>1, <1>2, FilesStep

\* Whoever is registered was so before, behind the same descriptor, or is added.
LEMMA RegisteredStep == 
    ASSUME Inv, [Next]_vars, NEW k \in Conn, Registered(k)'
    PROVE  \/ MainAdds(k)
           \/ \E i \in Active : files[clients[i].socket_fd] = k /\ files'[clients[i].socket_fd] = k
<1>0. PICK i \in Slots : clients'[i].is_active /\ files'[clients'[i].socket_fd] = k
  BY DEF Registered, Active
<1>1. Facts /\ EntriesOK /\ k # NULL
  BY TableAgreesParts, InvFacts DEF Inv, Facts
<1>2. CASE ~TableChanges
  <2>1. Kept /\ FilesKept
    BY <1>2, TableStep, FilesKeptStep
  <2>2. QED
    BY <1>0, <2>1 DEF Kept, FilesKept, Active
<1>3. ASSUME NEW c \in Conn, MainAdds(c), c # k
      PROVE  i \in Active /\ files[clients[i].socket_fd] = k /\ files'[clients[i].socket_fd] = k
  <2>1. files' = files /\ files[accepted] = c
    BY <1>3 DEF MainAdds
  <2>2. PICK j \in Slots \ Active : 
          (\A l \in Slots \ {j} : SameEntry(l)) /\ clients'[j].socket_fd = accepted
    BY <1>3, AddAdds DEF Added
  <2>3. i # j
    BY <1>0, <1>3, <2>1, <2>2
  <2>4. QED
    BY <1>0, <2>1, <2>2, <2>3 DEF SameEntry, Active
<1>4. ASSUME NEW gone, Removed(gone)
      PROVE  i \in Active /\ files[clients[i].socket_fd] = k /\ files'[clients[i].socket_fd] = k
  <2>1. i \in Active /\ clients'[i].socket_fd = clients[i].socket_fd
    BY <1>0, <1>4 DEF Removed, SameEntry, Active
  <2>2. clients[i].socket_fd \in Descriptors
    BY <1>1, <2>1 DEF EntriesOK
  <2>3. QED
    BY <1>0, <1>1, <1>4, <2>1, <2>2, CloseTyped DEF Removed
<1>5. CASE StopClosesClients
  BY <1>0, <1>5, StopEmpties DEF Emptied
<1>6. QED
  BY <1>2, <1>3, <1>4, <1>5, CleanUpRemoves, ScanRemoves DEF TableChanges

LEMMA HandlersInvStep == 
    ASSUME Inv, [Next]_vars
    PROVE  HandlersOK'
<1>1. SUFFICES ASSUME NEW k \in Conn, at'[k] \in Handling, Registered(k)'
               PROVE  fd'[k] \in Descriptors /\ files'[fd'[k]] = k
  BY DEF HandlersOK
<1>2. Facts /\ ~MainAdds(k)
  BY <1>1, InvFacts DEF MainAdds, Handling, Facts
<1>3. PICK i \in Active : files[clients[i].socket_fd] = k /\ files'[clients[i].socket_fd] = k
  BY <1>1, <1>2, RegisteredStep
<1>4. Registered(k) /\ clients[i].socket_fd \in Descriptors /\ slot[k] = i
  BY <1>3, ActiveThread DEF Registered
<1>5. CASE at[k] \in Handling /\ fd'[k] = fd[k]
  <2>1. fd[k] \in Descriptors /\ files[fd[k]] = k
    BY <1>4, <1>5 DEF Inv, HandlersOK
  <2>2. fd[k] = clients[i].socket_fd
    BY <1>2, <1>3, <1>4, <2>1 DEF Inv, FilesOK, Facts
  <2>3. QED
    BY <1>3, <1>5, <2>1, <2>2
<1>6. CASE ThreadReceives(k)
  <2>1. fd'[k] = clients[slot[k]].socket_fd
    BY <1>1, <1>2, <1>6 DEF ThreadReceives, Handling, Facts
  <2>2. QED
    BY <1>3, <1>4, <2>1
<1>7. QED
  BY <1>1, <1>2, <1>5, <1>6, ThreadStep, ThreadGoes

\* What main has accepted is closed by nobody else, unless it is in the table.
LEMMA OthersLeaveAccepted == 
    ASSUME Inv, [Next]_vars, ~MainNext
    PROVE  /\ UNCHANGED <<accepted, presented>> /\ (main' = main \/ main' = "cleanup")
           /\ \A i \in Active' : i \in Active /\ clients'[i].socket_fd = clients[i].socket_fd
           /\ \A d \in Descriptors : \/ files'[d] = files[d] 
                                     \/ files'[d] = NULL /\ \E i \in Active : clients[i].socket_fd = d
<1>0. Facts
  BY InvFacts
<1>1. UNCHANGED <<accepted, presented>> /\ (main' = main \/ main' = "cleanup")
  BY DEF Next, ThreadNext, ThreadCallsRecv, ThreadReceives, ThreadLists, ThreadReplies,
   ThreadRelays, ThreadSaysGoodbye, ThreadHears, ThreadCleansUp, KeepaliveNext, KeepaliveWakes, KeepaliveScans,
   Signal, HandlerNext, StopClosesSocket, StopClosesClients, StopJoins, ClientsNext, ClientConnects,
   ClientSends, ClientCloses, vars, acceptVars
<1>2. CASE ~TableChanges
  <2>1. Kept
    BY <1>2, TableStep
  <2>2. UNCHANGED files
    BY <1>2 DEF TableChanges, Next, ThreadNext, ThreadCallsRecv, ThreadReceives, ThreadLists, ThreadReplies,
     ThreadRelays, ThreadSaysGoodbye, ThreadHears, KeepaliveNext, KeepaliveWakes, Signal, HandlerNext, 
     StopClosesSocket, StopJoins, ClientsNext, ClientConnects, ClientSends, ClientCloses, vars
  <2>3. QED
    BY <1>1, <2>1, <2>2 DEF Kept, Active
<1>3. ASSUME NEW gone, gone \subseteq Active, Close({clients[i].socket_fd : i \in gone})
      PROVE  \A d \in Descriptors : \/ files'[d] = files[d] 
                                    \/ files'[d] = NULL /\ \E i \in Active : clients[i].socket_fd = d
  BY <1>0, <1>3, CloseTyped
<1>4. ASSUME NEW gone, Removed(gone)
      PROVE  \A i \in Active' : i \in Active /\ clients'[i].socket_fd = clients[i].socket_fd
  BY <1>4 DEF Removed, SameEntry, Active
<1>5. CASE StopClosesClients
  BY <1>1, <1>3, <1>5, StopEmpties DEF Emptied, Active
<1>6. CASE \E gone : Removed(gone)
  BY <1>1, <1>3, <1>4, <1>6 DEF Removed
<1>7. QED
  BY <1>2, <1>5, <1>6, CleanUpRemoves, ScanRemoves DEF TableChanges, MainNext

LEMMA MainAcceptedStep == 
    ASSUME Inv, MainNext
    PROVE  AcceptedOK'
<1>0. Facts /\ AcceptedOK /\ EntriesOpen
  BY InvFacts DEF Inv, TableAgrees, EntriesOpen
<1>1. CASE MainLoops \/ MainLocks("cleanup", "joining") \/ MainRefuses \/ MainWelcomes \/ MainReturns
  BY <1>1 DEF MainLoops, MainLocks, MainRefuses, MainWelcomes, MainReturns, MainRuns, AcceptedOK
<1>2. CASE MainLocks("register", "registering")
  BY <1>0, <1>2 DEF MainLocks, MainRuns, AcceptedOK, acceptVars, tableVars, threadVars, Active
<1>3. CASE \E c \in Conn : MainAccepts(c)
  <2>1. PICK c \in Conn : MainAccepts(c)
    BY <1>3
  <2>2. /\ accepted' \in Descriptors /\ files[accepted'] = NULL
        /\ main' = "identify" /\ clients' = clients /\ files' = [files EXCEPT ![accepted'] = c]
    BY <2>1, FreeDescriptor DEF MainAccepts, MainRuns, tableVars
  <2>3. Active' = Active /\ files'[accepted'] # NULL
    BY <1>0, <2>2 DEF Active, Facts
  <2>4. QED
    BY <1>0, <2>2, <2>3 DEF AcceptedOK, EntriesOpen
<1>4. CASE \E c \in Conn : MainIdentifies(c)
  <2>1. CASE main' = "loop"
    BY <2>1 DEF AcceptedOK
  <2>2. CASE main' # "loop"
    <3>1. /\ main = "identify" /\ main' = "register" /\ presented' \in Id \ Invalid
          /\ UNCHANGED <<clients, files, accepted>>
      BY <1>4, <2>2 DEF MainIdentifies, MainRuns, tableVars
    <3>2. QED
      BY <1>0, <3>1 DEF AcceptedOK, Active
  <2>3. QED
    BY <2>1, <2>2
<1>5. CASE \E c \in Conn : MainAdds(c)
  <2>1. PICK c \in Conn : MainAdds(c)
    BY <1>5
  <2>2. /\ main = "registering" /\ main' = "welcome" /\ files[accepted] = c
        /\ at' = [at EXCEPT ![c] = "loop"] /\ UNCHANGED <<files, accepted>>
    BY <2>1 DEF MainAdds, MainRuns
  <2>3. QED
    BY <1>0, <2>2 DEF AcceptedOK, Facts
<1>6. CASE \E i \in Slots : MainJoins(i)
  BY <1>6 DEF MainJoins, MainRuns, AcceptedOK
<1>7. QED
  BY <1>1, <1>2, <1>3, <1>4, <1>5, <1>6 DEF MainNext

LEMMA AcceptedInvStep == 
    ASSUME Inv, [Next]_vars
    PROVE  AcceptedOK'
<1>0. Facts /\ AcceptedOK
  BY InvFacts DEF Inv
<1>1. CASE MainNext
  BY <1>1, MainAcceptedStep
<1>2. CASE ~MainNext
  <2>0. CASE main' = "cleanup"
    BY <2>0 DEF AcceptedOK
  <2>1. CASE main' = main /\ main \in {"identify", "register", "registering"}
    BY <1>0, <1>2, <2>1, OthersLeaveAccepted DEF AcceptedOK
  <2>2. CASE main' = main /\ main = "welcome"
    <3>1. /\ accepted' = accepted /\ accepted \in Descriptors 
          /\ files'[accepted] = files[accepted] \/ files'[accepted] = NULL
      BY <1>0, <1>2, <2>2, OthersLeaveAccepted DEF AcceptedOK
    <3>2. \A c \in Conn : at[c] # "none" => at'[c] # "none"
      BY <1>2, ThreadStep, ThreadGoes DEF MainNext
    <3>3. QED
      BY <1>0, <2>2, <3>1, <3>2 DEF AcceptedOK, Facts
  <2>3. CASE main' = main /\ main \notin {"identify", "register", "registering", "welcome"}
    BY <2>3 DEF AcceptedOK
  <2>4. QED
    BY <1>2, <2>0, <2>1, <2>2, <2>3, OthersLeaveAccepted
<1>3. QED
  BY <1>1, <1>2

-----------------------------------------------------------------------------
LEMMA InvInit == Init => Inv
<1> SUFFICES ASSUME Init PROVE Inv
  OBVIOUS
<1> USE DEF Init
<1>0. Active = {}
  BY DEF Active
<1>1. ScalarsTyped
  BY ServerAssumption DEF ScalarsTyped, Answer
<1>2. ThreadsTyped
  BY ServerAssumption DEF ThreadsTyped, Label, Slots
<1>3. TableTyped
  <2> DEFINE empty == [socket_fd |-> -1, client_id |-> NoName, last_seen |-> "since",
                       inactive_count |-> 0, is_active |-> FALSE, thread_id |-> NULL]
  <2>1. empty \in Entry
    <3>1. 0 \in 0 .. MAX_INACTIVE_COUNT - 1
      BY ServerAssumption
    <3>2. QED
      BY <3>1 DEF Entry
  <2>2. clients = [i \in Slots |-> empty]
    OBVIOUS
  <2> HIDE DEF empty
  <2>3. clients \in [Slots -> Entry]
    BY ONLY <2>1, <2>2
  <2>4. client_count \in Int /\ files \in [Descriptors -> Conn \cup {NULL}]
    OBVIOUS
  <2>5. QED
    BY <2>3, <2>4 DEF TableTyped
<1>4. ServerTypeOK /\ StreamsOK
  BY <1>1, <1>2, <1>3, TypesTogether
<1>5. EntriesOK /\ CountOK
  BY <1>0, FS_EmptySet DEF EntriesOK, CountOK
<1>6. FilesOK /\ SlotsOK /\ AcceptedOK /\ HandlersOK
  BY <1>0 DEF FilesOK, SlotsOK, AcceptedOK, HandlersOK, Handling
<1>7. QED
  BY <1>4, <1>5, <1>6, TableAgreesParts DEF Inv

LEMMA InvStep == Inv /\ [Next]_vars => Inv'
<1> SUFFICES ASSUME Inv, [Next]_vars PROVE Inv'
  OBVIOUS
<1>1. ScalarsTyped'
  BY MainTypes, ThreadScalars, OtherScalars DEF Next
<1>2. ThreadsTyped'
  BY ThreadsTypes
<1>3. TableTyped'
  BY TableStep, FilesStep DEF TableTyped, EntriesTyped, FilesTyped
<1>4. (ServerTypeOK /\ StreamsOK)'
  BY <1>1, <1>2, <1>3, TypesTogether
<1>5. TableAgrees'
  BY <1>4, TableInvStep DEF TableInv, TableAgrees, EntriesOK, CountOK
<1>6. QED
  BY <1>4, <1>5, TableInvStep, FilesInvStep, AcceptedInvStep, HandlersInvStep DEF Inv, TableInv

LEMMA Invariance == Spec => []Inv
BY InvInit, InvStep, PTL DEF Spec

\* A slot in use has an open descriptor of its own and the thread that was created
\* for the connection behind it, no two have the same identifier, and client_count
\* counts them, however slots and descriptors are used again: server_start,
\* add_client, remove_client, handle_client, keepalive_monitor and server_stop.
THEOREM SlotsMatchConnections == Spec => []TableAgrees
<1>1. Inv => TableAgrees
  BY DEF Inv
<1>2. QED
  BY <1>1, Invariance, PTL

-----------------------------------------------------------------------------
(***************************************************************************)
(* Who removes a client, and who is told what.                             *)
(***************************************************************************)
LEMMA WhoIsTold == 
    ASSUME NEW c \in Conn, NEW descriptors, NEW type, ServerSends(descriptors, type), out'[c] # "nothing"
    PROVE  out'[c] = type /\ \E d \in descriptors \cap Descriptors : files[d] = c
BY DEF ServerSends

LEMMA SilenceToAll == ASSUME NEW c \in Conn, Silent PROVE out'[c] = "nothing"
BY DEF Silent, ServerSends

LEMMA WhoSends == 
    ASSUME NEW c \in Conn, Next
    PROVE  /\ out'[c] = "CLIENT_LIST" => \E k \in Conn : ThreadReplies(k) /\ files[fd[k]] = c
           /\ out'[c] = "STOP" => \/ StopClosesClients 
                                  \/ \E k \in Conn : ThreadSaysGoodbye(k) /\ files[fd[k]] = c
           /\ out'[c] = "BROADCAST" /\ main = "welcome" /\ main' = "loop" => MainWelcomes /\ files[accepted] = c
<1>1. CASE Silent
  BY <1>1, SilenceToAll
<1>2. CASE MainRefuses \/ (\E d \in Conn : MainIdentifies(d)) \/ KeepaliveScans
  <2>1. Silent \/ \E descriptors : ServerSends(descriptors, "ERROR") \/ ServerSends(descriptors, "ALIVE")
    BY <1>2 DEF MainRefuses, MainIdentifies, KeepaliveScans
  <2>2. out'[c] \in {"nothing", "ERROR", "ALIVE"}
    BY <2>1, SilenceToAll, WhoIsTold
  <2>3. QED
    BY <2>2
<1>3. CASE MainWelcomes
  <2>1. out'[c] # "nothing" => out'[c] = "BROADCAST" /\ files[accepted] = c
    BY <1>3, WhoIsTold DEF MainWelcomes
  <2>2. QED
    BY <1>3, <2>1
<1>4. ASSUME NEW k \in Conn, ThreadReplies(k)
      PROVE  out'[c] # "nothing" => out'[c] = "CLIENT_LIST" /\ files[fd[k]] = c
  BY <1>4, WhoIsTold DEF ThreadReplies
<1>5. ASSUME NEW k \in Conn, ThreadSaysGoodbye(k)
      PROVE  out'[c] # "nothing" => out'[c] = "STOP" /\ files[fd[k]] = c
  BY <1>5, WhoIsTold DEF ThreadSaysGoodbye
<1>6. ASSUME NEW k \in Conn, ThreadRelays(k)
      PROVE  out'[c] \in {"nothing", "BROADCAST", "PRIVATE"} /\ main' = main
  <2>1. \E descriptors : ServerSends(descriptors, "BROADCAST") \/ ServerSends(descriptors, "PRIVATE")
    BY <1>6 DEF ThreadRelays
  <2>2. QED
    BY <1>6, <2>1, WhoIsTold DEF ThreadRelays
<1>7. CASE StopClosesClients
  <2>1. out'[c] # "nothing" => out'[c] = "STOP"
    BY <1>7, WhoIsTold DEF StopClosesClients
  <2>2. QED
    BY <1>7, <2>1
<1>8. CASE MainNext
  BY <1>1, <1>2, <1>3, <1>8 DEF MainNext, MainLoops, MainReturns, MainLocks, MainAccepts, MainAdds, MainJoins
<1>9. CASE \E k \in Conn : ThreadNext(k)
  BY <1>1, <1>4, <1>5, <1>6, <1>9 DEF ThreadNext, ThreadCallsRecv, ThreadReceives, ThreadLists, ThreadHears, 
     ThreadCleansUp
<1>10. CASE KeepaliveNext \/ Signal \/ HandlerNext \/ ClientsNext
  BY <1>1, <1>2, <1>7, <1>10 DEF KeepaliveNext, KeepaliveWakes, Signal, HandlerNext, StopClosesSocket, StopJoins,
     ClientsNext, ClientConnects, ClientSends, ClientCloses
<1>11. QED
  BY <1>8, <1>9, <1>10 DEF Next

Unregisters(c) == 
    Registered(c) /\ ~Registered(c)' 
      => Scans \/ Stops \/ Leaves(c, "cleanup") 
         \/ \E k \in Conn \ {c} : Orphan(k) /\ slot[k] = slot[c] /\ Leaves(k, "cleanup")

LEMMA WhoUnregisters == 
    ASSUME Inv, [Next]_vars, NEW c \in Conn
    PROVE  Unregisters(c)
<1>0. SUFFICES ASSUME Registered(c), ~Registered(c)'
               PROVE  Scans \/ Stops \/ Leaves(c, "cleanup") 
                      \/ \E k \in Conn \ {c} : Orphan(k) /\ slot[k] = slot[c] /\ Leaves(k, "cleanup")
  BY DEF Unregisters
<1>1. PICK i \in Active : files[clients[i].socket_fd] = c
  BY <1>0 DEF Registered
<1>2. i \in Slots /\ clients[i].thread_id = c /\ slot[c] = i /\ clients[i].socket_fd \in Descriptors
  BY <1>1, ActiveThread DEF Active
<1>3. ~(SameEntry(i) /\ files'[clients[i].socket_fd] = c)
  BY <1>0, <1>1, <1>2 DEF Registered, SameEntry, Active
<1>4. TableChanges
  BY <1>1, <1>3, TableStep, FilesKeptStep DEF Kept, FilesKept
<1>5. ASSUME NEW d \in Conn, MainAdds(d)
      PROVE  FALSE
  <2>1. files' = files /\ SameEntry(i)
    BY <1>1, <1>5, AddAdds DEF MainAdds, Added, Active
  <2>2. QED
    BY <1>1, <1>3, <2>1
<1>6. ASSUME NEW k \in Conn, ThreadCleansUp(k)
      PROVE  Leaves(c, "cleanup") \/ (k # c /\ Orphan(k) /\ slot[k] = slot[c] /\ Leaves(k, "cleanup"))
  <2>1. Removed(Leaving(k)) /\ Facts /\ EntriesOK /\ SlotsOK
    BY <1>6, CleanUpRemoves, InvFacts, TableAgreesParts DEF Inv
  <2>2. i \in Leaving(k)
    <3>1. SUFFICES ASSUME i \notin Leaving(k) PROVE FALSE
      OBVIOUS
    <3>2. SameEntry(i) /\ Leaving(k) \subseteq Active
      BY <1>2, <2>1, <3>1 DEF Removed
    <3>3. clients[i].socket_fd \notin {clients[j].socket_fd : j \in Leaving(k)}
      BY <1>1, <2>1, <3>1, <3>2 DEF SlotsOK
    <3>4. files'[clients[i].socket_fd] = files[clients[i].socket_fd]
      BY <1>2, <2>1, <3>3, CloseTyped DEF Removed
    <3>5. QED
      BY <1>1, <1>3, <3>2, <3>4
  <2>3. slot[k] = i
    BY <2>2, LeavingIsSlot
  <2>4. Leaves(k, "cleanup") /\ at[k] \notin {"none", "done"}
    BY <1>6, <2>1 DEF ThreadCleansUp, Moves, Leaves, Facts
  <2>5. k # c => ~Registered(k)
    <3>1. ASSUME NEW j \in Active, files[clients[j].socket_fd] = k
          PROVE  k = c
      BY <1>2, <2>3, <3>1, ActiveThread
    <3>2. QED
      BY <3>1 DEF Registered
  <2>6. QED
    BY <1>2, <2>3, <2>4, <2>5 DEF Orphan
<1>7. KeepaliveScans => Scans
  BY DEF KeepaliveScans, Scans
<1>8. StopClosesClients => Stops
  BY DEF StopClosesClients, StopRuns, Stops
<1>9. QED
  BY <1>4, <1>5, <1>6, <1>7, <1>8 DEF TableChanges

\* A thread that answers has the descriptor of its own connection, or is an orphan.
LEMMA AnswersItsOwn == 
    ASSUME Inv, NEW k \in Conn, at[k] \in Handling
    PROVE  k = files[fd[k]] \/ Orphan(k)
<1>1. Registered(k) => files[fd[k]] = k
  BY DEF Inv, HandlersOK
<1>2. QED
  BY <1>1 DEF Orphan, Handling

\* Clients are removed, and told who is there, or bidden goodbye, by the thread of
\* their own connection, by keepalive or by server_stop, or else by a thread whose
\* connection had gone before; a welcome reaches no one but the client that was
\* added: remove_client, handle_list_request, handle_stop_request, server_start.
THEOREM OnlyOrphansActForOthers == Spec => WhoActs
<1>1. ASSUME Inv, Next, NEW c \in Conn
      PROVE  /\ out'[c] = "CLIENT_LIST" => \E k \in Conn : (k = c \/ Orphan(k)) /\ Leaves(k, "reply")
             /\ out'[c] = "STOP" => Stops \/ \E k \in Conn : (k = c \/ Orphan(k)) /\ Leaves(k, "goodbye")
             /\ out'[c] = "BROADCAST" /\ main = "welcome" /\ main' = "loop" => at[c] # "none"
  <2>0. Facts
    BY <1>1, InvFacts
  <2>1. ASSUME NEW k \in Conn, ThreadReplies(k), files[fd[k]] = c
        PROVE  (k = c \/ Orphan(k)) /\ Leaves(k, "reply")
    <3>1. at[k] = "reply" /\ at'[k] = "loop"
      BY <2>0, <2>1 DEF ThreadReplies, Moves, Facts
    <3>2. QED
      BY <1>1, <2>1, <3>1, AnswersItsOwn DEF Leaves, Handling
  <2>2. ASSUME NEW k \in Conn, ThreadSaysGoodbye(k), files[fd[k]] = c
        PROVE  (k = c \/ Orphan(k)) /\ Leaves(k, "goodbye")
    <3>1. at[k] = "goodbye" /\ at'[k] = "cleanup"
      BY <2>0, <2>2 DEF ThreadSaysGoodbye, Moves, Facts
    <3>2. QED
      BY <1>1, <2>2, <3>1, AnswersItsOwn DEF Leaves, Handling
  <2>3. MainWelcomes /\ files[accepted] = c => at[c] # "none"
    <3>1. c # NULL
      BY ServerAssumption
    <3>2. QED
      BY <1>1, <3>1 DEF MainWelcomes, MainRuns, Inv, AcceptedOK
  <2>4. StopClosesClients => Stops
    BY DEF StopClosesClients, StopRuns, Stops
  <2>5. QED
    BY <1>1, <2>1, <2>2, <2>3, <2>4, WhoSends
<1>2. Inv /\ [Next]_vars => [\A c \in Conn : 
        /\ Registered(c) /\ ~Registered(c)' 
             => Scans \/ Stops \/ Leaves(c, "cleanup") 
                \/ \E k \in Conn \ {c} : Orphan(k) /\ slot[k] = slot[c] /\ Leaves(k, "cleanup")
        /\ out'[c] = "CLIENT_LIST" => \E k \in Conn : (k = c \/ Orphan(k)) /\ Leaves(k, "reply")
        /\ out'[c] = "STOP" => Stops \/ \E k \in Conn : (k = c \/ Orphan(k)) /\ Leaves(k, "goodbye")
        /\ out'[c] = "BROADCAST" /\ main = "welcome" /\ main' = "loop" => at[c] # "none"]_vars
  BY <1>1, WhoUnregisters DEF Unregisters
<1>3. QED
  BY <1>2, Invariance, PTL DEF Spec, WhoActs

-----------------------------------------------------------------------------
(***************************************************************************)
(* Where the server can get stuck.                                         *)
(***************************************************************************)
\* main alone keeps the mutex over several steps; server_stop runs when main does
\* not, and has main out of accept, and of its loop, once it is done.
StopOK == 
    /\ clients_mutex = "main" <=> main \in {"registering", "joining"}
    /\ is_running <=> stopping \in {"not", "begin"}
    /\ stopping = "join" => clients_mutex = NULL
    /\ stopping = "stopped" => main # "accept"
    /\ main \in {"cleanup", "joining", "returned"} => stopping = "stopped"

LEMMA StopInit == Init => StopOK
BY ServerAssumption DEF Init, StopOK

LEMMA StopStep == 
    ASSUME Inv, StopOK, [Next]_vars
    PROVE  StopOK'
<1>0. clients_mutex \in {NULL, "main"} /\ stopping \in {"not", "begin", "lock", "join", "stopped"}
      /\ is_running \in BOOLEAN /\ NULL # "main"
  BY ServerAssumption DEF Inv, TableAgrees, ServerTypeOK
<1> USE <1>0 DEF StopOK
<1>1. CASE MainNext
  <2>1. CASE MainLoops \/ MainLocks("register", "registering") \/ MainLocks("cleanup", "joining")
    BY <2>1 DEF MainLoops, MainLocks, MainRuns
  <2>2. CASE \E c \in Conn : MainAccepts(c) \/ MainIdentifies(c) \/ MainAdds(c)
    BY <2>2 DEF MainAccepts, MainIdentifies, MainAdds, MainRuns
  <2>3. CASE MainRefuses \/ MainWelcomes \/ MainReturns \/ \E i \in Slots : MainJoins(i)
    BY <2>3 DEF MainRefuses, MainWelcomes, MainReturns, MainJoins, MainRuns
  <2>4. QED
    BY <1>1, <2>1, <2>2, <2>3 DEF MainNext
<1>2. CASE HandlerNext
  <2>1. CASE StopClosesSocket
    BY <2>1 DEF StopClosesSocket, StopRuns
  <2>2. CASE StopClosesClients
    BY <2>2 DEF StopClosesClients, StopRuns
  <2>3. CASE StopJoins
    BY <2>3 DEF StopJoins, StopRuns
  <2>4. QED
    BY <1>2, <2>1, <2>2, <2>3 DEF HandlerNext
<1>3. CASE Signal \/ KeepaliveNext
  BY <1>3 DEF Signal, KeepaliveNext, KeepaliveWakes, KeepaliveScans
<1>4. CASE (\E k \in Conn : ThreadNext(k)) \/ ClientsNext \/ UNCHANGED vars
  <2>1. UNCHANGED <<main, clients_mutex, is_running, stopping>>
    BY <1>4 DEF ThreadNext, ThreadCallsRecv, ThreadReceives, ThreadLists, ThreadReplies, ThreadRelays, 
       ThreadSaysGoodbye, ThreadHears, ThreadCleansUp, ClientsNext, ClientConnects, ClientSends, ClientCloses, vars
  <2>2. QED
    BY <2>1
<1>5. QED
  BY <1>1, <1>2, <1>3, <1>4 DEF Next

\* However many clients there are, and wherever the signal finds main: when all
\* threads and server_stop wait at once, main has returned, or server_stop waits
\* for main's mutex, or server_cleanup for a thread that does not end, or main for
\* the first message of a client.
THEOREM ServerStopsOrIsStuck == Spec => []StuckInKnownWays
<1>1. ASSUME Inv, StopOK
      PROVE  StuckInKnownWays
  <2>1. SUFFICES ASSUME ~is_running, MainWaits, \A k \in Conn : ThreadWaits(k), KeepaliveWaits, HandlerWaits,
                        main # "returned"
                 PROVE  SelfDeadlock \/ JoinDeadlock \/ SilentConnection
    BY DEF StuckInKnownWays
  <2>2. /\ clients_mutex \in {NULL, "main"} /\ keepalive \in {"sleep", "scan", "done"}
        /\ clients \in [Slots -> Entry] /\ at \in [Conn -> Label]
        /\ stopping \in {"lock", "join", "stopped"}
    BY <1>1, <2>1, InvFacts DEF Inv, TableAgrees, ServerTypeOK, Facts, StopOK
  <2>3. CASE stopping = "lock"
    BY <1>1, <2>1, <2>2, <2>3 DEF HandlerWaits, StopOK, SelfDeadlock
  <2>4. CASE stopping = "join"
    BY <1>1, <2>1, <2>2, <2>4 DEF HandlerWaits, KeepaliveWaits, StopOK
  <2>5. CASE stopping = "stopped"
    <3>1. CASE main = "joining"
      <4>1. PICK i \in Slots : clients[i].thread_id # NULL /\ at[clients[i].thread_id] # "done"
        BY <2>1, <2>5, <3>1 DEF MainWaits
      <4>2. clients[i].thread_id \in Conn
        BY <2>2, <4>1 DEF Entry
      <4>3. QED
        BY <1>1, <2>1, <3>1, <4>1, <4>2 DEF StopOK, JoinDeadlock
    <3>2. CASE main # "joining"
      BY <1>1, <2>1, <2>2, <2>5, <3>2 DEF MainWaits, StopOK, SilentConnection
    <3>3. QED
      BY <3>1, <3>2
  <2>6. QED
    BY <2>2, <2>3, <2>4, <2>5
<1>2. Spec => []StopOK
  <2>1. Inv /\ StopOK /\ [Next]_vars => StopOK'
    BY StopStep
  <2>2. QED
    BY <2>1, StopInit, Invariance, PTL DEF Spec
<1>3. QED
  BY <1>1, <1>2, Invariance, PTL
=============================================================================
