------------------------- MODULE PeerNetworkProofs --------------------------
(***************************************************************************)
(* Proofs about PeerNetwork, for any set of peers, any addresses, any      *)
(* number of registrations and any crashes.                                *)
(***************************************************************************)
EXTENDS PeerNetwork, TLAPS

-----------------------------------------------------------------------------
(* Byte order                                                              *)

\* Swapping the bytes of a number gives a number.
LEMMA SwapInt == \A n \in Int : be32(n) \in Int
  BY SMT DEF be32

-----------------------------------------------------------------------------
(* add_peer_to_network                                                     *)

Distinct(tab) == \A i, j \in 1..Len(tab) : SameAddr(tab[i], tab[j]) => i = j

Extends(old, new) ==
    /\ Len(old) <= Len(new)
    /\ \A i \in 1..Len(old) : SameAddr(old[i], new[i])

\* An address is added once, at the end, and nothing moves.
LEMMA AddPeerKeeps ==
    ASSUME NEW tab \in Seq(Entries), Distinct(tab), NEW e \in Entries
    PROVE  /\ AddPeer(tab, e) \in Seq(Entries)
           /\ Distinct(AddPeer(tab, e))
           /\ Extends(tab, AddPeer(tab, e))
  <1> DEFINE new == AddPeer(tab, e)
  <1>1. CASE Places(tab, e) # {}
    <2>1. PICK i \in Places(tab, e) : TRUE
      BY <1>1
    <2>2. i \in 1..Len(tab) /\ SameAddr(tab[i], e)
      BY <2>1 DEF Places
    <2>3. \A j \in Places(tab, e) : j = i
      <3> SUFFICES ASSUME NEW j \in Places(tab, e) PROVE j = i
        OBVIOUS
      <3>1. j \in 1..Len(tab) /\ SameAddr(tab[j], e)
        BY DEF Places
      <3>2. SameAddr(tab[j], tab[i])
        BY <2>2, <3>1 DEF SameAddr
      <3> QED BY <2>2, <3>1, <3>2 DEF Distinct
    <2>4. (CHOOSE k \in Places(tab, e) : \A j \in Places(tab, e) : k <= j) = i
      <3>1. \A j \in Places(tab, e) : i <= j
        BY <2>2, <2>3
      <3> QED BY <2>1, <2>3, <3>1, Zenon
    <2>5. new = [tab EXCEPT ![i].sig = e.sig]
      BY <1>1, <2>4 DEF AddPeer
    <2>6. tab[i] \in Entries /\ e.sig \in Signatures
      <3>1. tab[i] \in Entries
        BY <2>2
      <3>2. e.sig \in Signatures
        BY DEF Entries
      <3> QED BY <3>1, <3>2
    <2>7. [tab[i] EXCEPT !.sig = e.sig] \in Entries
      <3>1. \A r \in Entries, g \in Signatures : [r EXCEPT !.sig = g] \in Entries
        BY DEF Entries
      <3> QED BY <2>6, <3>1
    <2>8. new \in Seq(Entries) /\ Len(new) = Len(tab)
      BY <2>2, <2>5, <2>7
    <2>9. \A j \in 1..Len(tab) : SameAddr(tab[j], new[j])
      <3>1. SameAddr(tab[i], [tab[i] EXCEPT !.sig = e.sig])
        BY <2>6 DEF SameAddr, Entries
      <3>2. \A j \in 1..Len(tab) : new[j] = IF j = i THEN [tab[i] EXCEPT !.sig = e.sig] ELSE tab[j]
        BY <2>2, <2>5
      <3> QED BY <3>1, <3>2 DEF SameAddr
    <2> QED BY <2>8, <2>9 DEF Distinct, Extends, SameAddr
  <1>2. CASE Places(tab, e) = {}
    <2>1. new = Append(tab, e)
      BY <1>2 DEF AddPeer
    <2>2. /\ new \in Seq(Entries) /\ Len(new) = Len(tab) + 1
          /\ new[Len(tab) + 1] = e
          /\ \A j \in 1..Len(tab) : new[j] = tab[j]
      BY <2>1
    <2>3. \A j \in 1..Len(tab) : ~SameAddr(tab[j], e)
      BY <1>2 DEF Places
    <2>4. Distinct(new)
      BY <2>2, <2>3 DEF Distinct, SameAddr
    <2>5. Extends(tab, new)
      BY <2>2 DEF Extends, SameAddr
    <2> QED BY <2>2, <2>4, <2>5
  <1> QED BY <1>1, <1>2

\* The step of one peer's table that every use of add_peer_to_network is.
Adds(p, e) == network' = [network EXCEPT ![p] = AddPeer(@, e)]

TablesOK == network \in [Peers -> Seq(Entries)] /\ \A p \in Peers : Distinct(network[p])
TablesExtend == \A p \in Peers : Extends(network[p], network'[p])

LEMMA AddsKeeps ==
    ASSUME TablesOK, NEW p \in Peers, NEW e \in Entries, Adds(p, e)
    PROVE  TablesOK' /\ TablesExtend
  <1>1. /\ AddPeer(network[p], e) \in Seq(Entries)
        /\ Distinct(AddPeer(network[p], e))
        /\ Extends(network[p], AddPeer(network[p], e))
    BY AddPeerKeeps DEF TablesOK
  <1>2. \A q \in Peers : network'[q] = IF q = p THEN AddPeer(network[p], e) ELSE network[q]
    BY DEF Adds, TablesOK
  <1>3. network' \in [Peers -> Seq(Entries)]
    BY <1>1, <1>2 DEF Adds, TablesOK
  <1>4. \A q \in Peers : Extends(network[q], network[q])
    BY DEF TablesOK, Extends, SameAddr
  <1> QED BY <1>1, <1>2, <1>3, <1>4 DEF TablesOK, TablesExtend

LEMMA StillTables ==
    ASSUME TablesOK, UNCHANGED network
    PROVE  TablesOK' /\ TablesExtend
  BY DEF TablesOK, TablesExtend, Extends, SameAddr, Distinct

-----------------------------------------------------------------------------
(* Type correctness and distinctness are one inductive invariant: which    *)
(* entry add_peer_to_network updates is only determined when there is just *)
(* one.                                                                    *)

LEMMA PortInt == \A n \in Ports : n \in Int
  BY SMTT(30) DEF Ports

LEMMA EntryTypes ==
    /\ \A p \in Peers : Entry(p) \in Entries /\ Port[p] \in Int
    /\ Junk \subseteq Entries
  <1>1. \A p \in Peers : Port[p] \in Int
    BY PortInt, NetworkAssumption
  <1>2. \A p \in Peers : Entry(p) \in Entries
    BY <1>1 DEF Entry, Entries, Ips, Signatures
  <1>3. Junk \subseteq Entries
    <2> SUFFICES ASSUME NEW e \in Junk PROVE e \in Entries
      OBVIOUS
    <2>1. e = [ip |-> e.ip, port |-> e.port, sig |-> e.sig] /\ e.port \in Int
      BY NetworkAssumption
    <2>2. e.ip \in Ips /\ e.sig \in Signatures
      BY DEF Ips, Signatures
    <2> QED BY <2>1, <2>2 DEF Entries
  <1> QED BY <1>1, <1>2, <1>3

ThreadsOK ==
    /\ alive \subseteq Peers
    /\ cl \in [Peers -> {"menu", "write", "wait", "add", "quit"}]
    /\ to \in [Peers -> Peers \cup {Nobody}]
    /\ \A p \in Peers : cl[p] \in {"write", "wait"} => to[p] \in Peers
    /\ budget \in [Peers -> 0..MaxRegisters]
    /\ sv \in [Peers -> {"accept", "alloc", "fill", "respond", "add", "inform", "ended"}]
    /\ idx \in [Peers -> Nat] /\ size \in [Peers -> Nat]
    /\ joined \subseteq Peers \X Peers /\ strays \subseteq Int
RequestsOK ==
    /\ req \in [Peers -> Registers \cup {NoRequest}]
    /\ \A p \in Peers : sv[p] \in {"alloc", "fill", "respond", "add"} => req[p] \in Registers
Replies == [status : {"none", "eof", "OK", "PEER_EXISTS"}, entries : Seq(Entries)]
ListsOK ==
    /\ todo \in [Peers -> Seq(Entries)] /\ data \in [Peers -> Seq(Entries)]
    /\ reply \in [Peers -> Replies]
BacklogOK == backlog \in [Peers -> Seq(Connections)]

LEMMA Parts ==
    /\ TypeOK /\ NoDuplicates <=> TablesOK /\ ThreadsOK /\ RequestsOK /\ ListsOK /\ BacklogOK
    /\ (TypeOK /\ NoDuplicates)' <=>
         TablesOK' /\ ThreadsOK' /\ RequestsOK' /\ ListsOK' /\ BacklogOK'
  BY DEF TypeOK, NoDuplicates, TablesOK, Distinct, ThreadsOK, RequestsOK, ListsOK, Replies, BacklogOK

\* The request at the head of a backlog, by its command.
LEMMA RequestTypes ==
    ASSUME BacklogOK, NEW p \in Peers, backlog[p] # << >>
    PROVE  /\ Tail(backlog[p]) \in Seq(Connections)
           /\ Request(p).cmd = "REGISTER" => Request(p) \in Registers
           /\ Request(p).cmd = "INFORM" => Request(p) \in Informs
  <1>1. Request(p) \in Connections /\ Tail(backlog[p]) \in Seq(Connections)
    BY DEF BacklogOK, Request
  <1> QED BY <1>1 DEF Connections, Registers, Informs

LEMMA SenderType == \A c \in Registers : Sender(c) \in Entries
  BY SwapInt DEF Registers, Sender, Entries, Signatures

LEMMA SwappedType == \A e \in Entries : Swapped(e) \in Entries
  BY SwapInt DEF Swapped, Entries

\* What the steps did is recorded in two variables that most leave alone.
USE DEF history

Good == TablesOK /\ ThreadsOK /\ RequestsOK /\ ListsOK /\ BacklogOK

LEMMA InitGood == Init => Good
  <1> SUFFICES ASSUME Init PROVE Good
    OBVIOUS
  <1>1. TablesOK
    BY DEF Init, TablesOK, Distinct
  <1>2. ThreadsOK /\ RequestsOK
    BY NetworkAssumption DEF Init, ThreadsOK, RequestsOK
  <1>3. ListsOK /\ BacklogOK
    BY DEF Init, ListsOK, BacklogOK, Replies, None
  <1> QED BY <1>1, <1>2, <1>3 DEF Good

LEMMA ClientGood ==
    ASSUME Good, NEW p \in Peers, ClientStep(p)
    PROVE  Good' /\ TablesExtend
  <1> USE DEF Good
  <1>1. CASE ClientWrite(p)
    <2>1. TablesOK' /\ TablesExtend /\ ThreadsOK' /\ RequestsOK' /\ ListsOK'
      BY <1>1, StillTables DEF ClientWrite, ThreadsOK, RequestsOK, ListsOK, serverVars
    <2>2. BacklogOK'
      <3> DEFINE q == to[p]
                 hdr == [from |-> p, cmd |-> "REGISTER", ip |-> Ip[p], port |-> be32(Port[p]),
                         sig |-> p, length |-> be32(0)]
                 new(b) == [i \in DOMAIN b |-> IF IsPending(b[i], p) THEN hdr ELSE b[i]]
      <3>1. hdr \in Connections
        <4>1. be32(Port[p]) \in Int /\ be32(0) \in Int
          BY SwapInt, EntryTypes
        <4> QED BY <4>1 DEF Connections, Registers, Ips
      <3>2. \A b \in Seq(Connections) : new(b) \in Seq(Connections)
        BY <3>1
      <3>3. backlog' = [backlog EXCEPT ![q] = new(@)]
        BY <1>1 DEF ClientWrite
      <3> QED BY <3>2, <3>3 DEF BacklogOK
    <2> QED BY <2>1, <2>2
  <1>2. CASE ClientReply(p)
    <2>1. TablesOK' /\ TablesExtend /\ RequestsOK' /\ BacklogOK'
      BY <1>2, StillTables DEF ClientReply, RequestsOK, BacklogOK, serverVars
    <2>2. ListsOK'
      BY <1>2 DEF ClientReply, ListsOK, Replies, None, serverVars
    <2>3. ThreadsOK'
      BY <1>2 DEF ClientReply, ThreadsOK, serverVars
    <2> QED BY <2>1, <2>2, <2>3
  <1>3. CASE ClientEof(p)
    <2>1. TablesOK' /\ TablesExtend /\ RequestsOK' /\ BacklogOK'
      BY <1>3, StillTables DEF ClientEof, RequestsOK, BacklogOK, serverVars
    <2>2. None \in Replies
      BY DEF Replies, None
    <2>3. reply' \in [Peers -> Replies] /\ data' = data
      BY <1>3, <2>2 DEF ClientEof, ListsOK, serverVars
    <2>4. /\ cl' = [cl EXCEPT ![p] = "menu"] \/ cl' = [cl EXCEPT ![p] = "add"]
          /\ to' = [to EXCEPT ![p] = Nobody]
          /\ UNCHANGED <<alive, budget, sv, idx, size, joined>>
      BY <1>3 DEF ClientEof, serverVars
    <2>5. /\ todo' \in [Peers -> Seq(Entries)]
          /\ strays' \subseteq Int
      <3>1. CASE UNCHANGED <<todo, strays>>
        BY <3>1 DEF ListsOK, ThreadsOK
      <3>2. ASSUME NEW n \in 1..MaxJunk, NEW es \in [1..n -> Junk],
                   todo' = [todo EXCEPT ![p] = es], ReadsJunk(es)
            PROVE  todo' \in [Peers -> Seq(Entries)] /\ strays' \subseteq Int
        <4>1. n \in Nat /\ \A i \in 1..n : es[i] \in Entries
          BY EntryTypes, NetworkAssumption
        <4>2. es \in Seq(Entries)
          BY <4>1
        <4>3. \A i \in 1..n : es[i].port \in Int
          BY <4>1 DEF Entries
        <4> QED BY <3>2, <4>2, <4>3 DEF ListsOK, ThreadsOK, ReadsJunk
      <3> QED BY <1>3, <3>1, <3>2 DEF ClientEof
    <2>6. ListsOK' /\ ThreadsOK'
      BY <2>3, <2>4, <2>5 DEF ListsOK, ThreadsOK
    <2> QED BY <2>1, <2>6
  <1>4. CASE ClientAdd(p)
    <2>1. Head(todo[p]) \in Entries /\ Tail(todo[p]) \in Seq(Entries)
      BY <1>4 DEF ClientAdd, ListsOK
    <2>2. TablesOK' /\ TablesExtend
      BY <1>4, <2>1, AddsKeeps DEF ClientAdd, Adds
    <2>3. ThreadsOK' /\ RequestsOK' /\ BacklogOK' /\ ListsOK'
      BY <1>4, <2>1 DEF ClientAdd, ThreadsOK, RequestsOK, BacklogOK, ListsOK, serverVars
    <2> QED BY <2>2, <2>3
  <1>5. CASE ClientDone(p)
    BY <1>5, StillTables DEF ClientDone, ThreadsOK, RequestsOK, BacklogOK, ListsOK, serverVars
  <1> QED BY <1>1, <1>2, <1>3, <1>4, <1>5 DEF ClientStep

LEMMA UserGood ==
    ASSUME Good, NEW p \in Peers, User(p)
    PROVE  Good' /\ TablesExtend
  <1> USE DEF Good
  <1>1. CASE ClientQuit(p)
    BY <1>1, StillTables DEF ClientQuit, ThreadsOK, RequestsOK, BacklogOK, ListsOK, serverVars
  <1>2. ASSUME NEW q \in Peers, ClientConnect(p, q) PROVE Good' /\ TablesExtend
    <2>1. TablesOK' /\ TablesExtend /\ RequestsOK' /\ ListsOK'
      BY <1>2, StillTables DEF ClientConnect, RequestsOK, ListsOK, serverVars
    <2>2. ThreadsOK'
      <3>1. budget' \in [Peers -> 0..MaxRegisters]
        BY <1>2, NetworkAssumption DEF ClientConnect, ThreadsOK
      <3>2. UNCHANGED <<alive, sv, idx, size, joined, strays>>
        BY <1>2 DEF ClientConnect, serverVars, history
      <3>3. CASE q \in alive
        <4>1. cl' = [cl EXCEPT ![p] = "write"] /\ to' = [to EXCEPT ![p] = q]
          BY <1>2, <3>3 DEF ClientConnect
        <4> QED BY <3>1, <3>2, <4>1 DEF ThreadsOK
      <3>4. CASE q \notin alive
        BY <1>2, <3>1, <3>2, <3>4 DEF ClientConnect, ThreadsOK
      <3> QED BY <3>3, <3>4
    <2>3. Pending(p) \in Connections
      BY DEF Pending, Connections
    <2>4. BacklogOK'
      <3>1. Append(backlog[q], Pending(p)) \in Seq(Connections)
        BY <2>3 DEF BacklogOK
      <3>2. backlog' = backlog \/ backlog' = [backlog EXCEPT ![q] = Append(backlog[q], Pending(p))]
        BY <1>2 DEF ClientConnect
      <3> QED BY <3>1, <3>2 DEF BacklogOK
    <2> QED BY <2>1, <2>2, <2>4
  <1> QED BY <1>1, <1>2 DEF User

LEMMA DiesGood ==
    ASSUME Good, NEW p \in Peers, Dies(p)
    PROVE  Good' /\ TablesExtend
  <1> USE DEF Good
  <1>1. TablesOK' /\ TablesExtend /\ RequestsOK'
    BY StillTables DEF Dies, RequestsOK, ThreadsOK
  <1>2. ThreadsOK'
    BY DEF Dies, ThreadsOK
  <1>3. ListsOK'
    BY DEF Dies, ListsOK, Replies, Eof
  <1>4. BacklogOK'
    <2> PICK how \in {"closed", "reset"} :
               backlog' = [q \in Peers |->
                 IF q = p THEN << >>
                 ELSE [i \in DOMAIN backlog[q] |-> IF IsPending(backlog[q][i], p)
                                                   THEN Broken(p, how)
                                                   ELSE backlog[q][i]]]
      BY DEF Dies
    <2> DEFINE f(c) == IF IsPending(c, p) THEN Broken(p, how) ELSE c
    <2>1. \A c \in Connections : f(c) \in Connections
      BY DEF Connections, Broken
    <2>2. \A b \in Seq(Connections) : [i \in DOMAIN b |-> f(b[i])] \in Seq(Connections)
      BY <2>1
    <2>3. backlog' = [q \in Peers |-> IF q = p THEN << >>
                                       ELSE [i \in DOMAIN backlog[q] |-> f(backlog[q][i])]]
      OBVIOUS
    <2> QED BY <2>2, <2>3 DEF BacklogOK
  <1> QED BY <1>1, <1>2, <1>3, <1>4


\* Answers of the server reach the client as replies.
LEMMA AnswerType ==
    ASSUME ListsOK, NEW r, NEW msg \in Replies, Answer(r, msg)
    PROVE  reply' \in [Peers -> Replies]
  BY DEF Answer, ListsOK

LEMMA RegisterGood ==
    ASSUME Good, NEW p \in Peers,
           RegCheck(p) \/ RegAlloc(p) \/ RegFill(p) \/ RegRespond(p) \/ RegAdd(p)
    PROVE  Good' /\ TablesExtend
  <1> USE DEF Good
  <1>1. CASE RegCheck(p)
    <2>1. TablesOK' /\ TablesExtend
      BY <1>1, StillTables DEF RegCheck
    <2>2. Tail(backlog[p]) \in Seq(Connections) /\ Request(p) \in Registers
      BY <1>1, RequestTypes DEF RegCheck, Accepts
    <2>3. BacklogOK'
      BY <1>1, <2>2 DEF RegCheck, BacklogOK
    <2>4. ListsOK'
      <3>1. [status |-> "PEER_EXISTS", entries |-> << >>] \in Replies
        BY DEF Replies
      <3>2. reply' \in [Peers -> Replies]
        BY <1>1, <3>1, AnswerType DEF RegCheck, ListsOK
      <3> QED BY <1>1, <3>2 DEF RegCheck, ListsOK
    <2>5. ThreadsOK'
      BY <1>1 DEF RegCheck, ThreadsOK, Goto
    <2>6. RequestsOK'
      <3>1. CASE UNCHANGED <<sv, req>>
        BY <3>1 DEF RequestsOK
      <3>2. CASE Goto(p, "alloc") /\ req' = [req EXCEPT ![p] = Request(p)]
        BY <2>2, <3>2 DEF RequestsOK, ThreadsOK, Goto
      <3> QED BY <1>1, <3>1, <3>2 DEF RegCheck
    <2> QED BY <2>1, <2>3, <2>4, <2>5, <2>6
  <1>2. CASE RegAlloc(p)
    <2>1. TablesOK' /\ TablesExtend /\ ListsOK' /\ BacklogOK'
      BY <1>2, StillTables DEF RegAlloc, ListsOK, BacklogOK, clientVars
    <2>2. Len(network[p]) + 1 \in Nat
      BY DEF TablesOK
    <2>3. ThreadsOK' /\ RequestsOK'
      BY <1>2, <2>2 DEF RegAlloc, ThreadsOK, RequestsOK, Goto, Serving, clientVars
    <2> QED BY <2>1, <2>3
  <1>3. CASE RegFill(p)
    <2>1. TablesOK' /\ TablesExtend /\ BacklogOK'
      BY <1>3, StillTables DEF RegFill, BacklogOK, clientVars
    <2>2. Listing(p) \in Seq(Entries)
      <3> DEFINE n == Len(network[p])
                 rest == [i \in 1..n |-> [ip |-> network[p][i].ip, port |-> network[p][n].port, sig |-> p]]
      <3>1. n \in Nat /\ \A i \in 1..n : network[p][i] \in Entries
        BY DEF TablesOK
      <3>2. \A i \in 1..n : [ip |-> network[p][i].ip, port |-> network[p][n].port, sig |-> p] \in Entries
        <4> SUFFICES ASSUME NEW i \in 1..n
                     PROVE  [ip |-> network[p][i].ip, port |-> network[p][n].port, sig |-> p] \in Entries
          OBVIOUS
        <4>1. n \in 1..n
          BY <3>1
        <4>2. network[p][i] \in Entries /\ network[p][n] \in Entries
          BY <3>1, <4>1
        <4> QED BY <4>2 DEF Entries, Signatures
      <3>3. rest \in Seq(Entries)
        BY <3>1, <3>2
      <3>4. << Entry(p) >> \in Seq(Entries)
        BY EntryTypes
      <3> QED BY <3>3, <3>4 DEF Listing
    <2>3. ListsOK'
      BY <1>3, <2>2 DEF RegFill, ListsOK, clientVars
    <2>4. ThreadsOK' /\ RequestsOK'
      BY <1>3 DEF RegFill, ThreadsOK, RequestsOK, Goto, Serving, clientVars
    <2> QED BY <2>1, <2>3, <2>4
  <1>4. CASE RegRespond(p)
    <2> DEFINE n == Len(network[p]) + 1
               filled == Len(data[p])
    <2> PICK es \in [filled + 1..n -> Junk] :
               /\ Answer(req[p].from, [status |-> "OK", entries |->
                           [i \in 1..n |-> IF i <= filled THEN data[p][i] ELSE es[i]]])
               /\ ReadsJunk(es)
      BY <1>4 DEF RegRespond
    <2> DEFINE at(i) == IF i <= filled THEN data[p][i] ELSE es[i]
               msg == [status |-> "OK", entries |-> [i \in 1..n |-> at(i)]]
    <2>1. TablesOK' /\ TablesExtend /\ BacklogOK'
      BY <1>4, StillTables DEF RegRespond, BacklogOK
    <2>2. msg \in Replies
      <3>1. n \in Nat /\ data[p] \in Seq(Entries)
        BY DEF TablesOK, ListsOK
      <3>2. \A i \in 1..n : at(i) \in Entries
        <4> SUFFICES ASSUME NEW i \in 1..n PROVE at(i) \in Entries
          OBVIOUS
        <4>1. CASE i <= filled
          BY <3>1, <4>1
        <4>2. CASE ~(i <= filled)
          <5>1. i \in filled + 1..n
            BY <3>1, <4>2
          <5>2. es[i] \in Junk
            BY <5>1
          <5> QED BY <4>2, <5>2, EntryTypes
        <4> QED BY <4>1, <4>2
      <3>3. [i \in 1..n |-> at(i)] \in Seq(Entries)
        BY <3>1, <3>2
      <3> HIDE DEF n, at
      <3> QED BY <3>3 DEF Replies
    <2>3. Answer(req[p].from, msg)
      OBVIOUS
    <2>s. strays' \subseteq Int
      <3>1. \A i \in DOMAIN es : es[i].port \in Int
        BY EntryTypes DEF Entries
      <3> QED BY <3>1 DEF ReadsJunk, ThreadsOK
    <2> HIDE DEF msg, n, at, filled
    <2>4. ListsOK'
      <3>1. reply' \in [Peers -> Replies]
        BY <2>2, <2>3, AnswerType
      <3>2. data' = [data EXCEPT ![p] = << >>] /\ todo' = todo
        BY <1>4 DEF RegRespond
      <3> QED BY <3>1, <3>2 DEF ListsOK
    <2>5. ThreadsOK'
      BY <1>4, <2>s DEF RegRespond, ThreadsOK, Goto
    <2>6. RequestsOK'
      BY <1>4 DEF RegRespond, ThreadsOK, RequestsOK, Goto, Serving
    <2> QED BY <2>1, <2>4, <2>5, <2>6
  <1>5. CASE RegAdd(p)
    <2>1. Sender(req[p]) \in Entries
      BY <1>5, SenderType DEF RegAdd, Serving, RequestsOK
    <2>2. TablesOK' /\ TablesExtend
      BY <1>5, <2>1, AddsKeeps DEF RegAdd, Adds
    <2>3. ThreadsOK' /\ RequestsOK'
      BY <1>5 DEF RegAdd, ThreadsOK, RequestsOK, Goto, clientVars
    <2>4. BacklogOK' /\ ListsOK'
      BY <1>5 DEF RegAdd, BacklogOK, ListsOK, clientVars
    <2> QED BY <2>2, <2>3, <2>4
  <1> QED BY <1>1, <1>2, <1>3, <1>4, <1>5

LEMMA InformType ==
    ASSUME Good, NEW p \in Peers, InformOne(p)
    PROVE  Inform(p) \in Connections
  <1>1. Len(network[p]) \in 1..Len(network[p])
    BY DEF Good, InformOne, TablesOK, ThreadsOK
  <1>2. network[p][Len(network[p])] \in Entries
    BY <1>1 DEF Good, TablesOK
  <1> DEFINE new == Swapped(network[p][Len(network[p])])
  <1>3. new \in [ip : Ips, port : Int, sig : Signatures]
    BY <1>2, SwappedType DEF Entries
  <1>4. Ip[p] \in Ips /\ Port[p] \in Int /\ be32(PEER_ADDR_LEN) \in Int
    <2>1. Entry(p) \in Entries
      BY EntryTypes
    <2> QED BY <2>1, SwapInt DEF Entry, Entries, PEER_ADDR_LEN
  <1> HIDE DEF new
  <1>5. [from |-> p, cmd |-> "INFORM", ip |-> Ip[p], port |-> Port[p], sig |-> p,
         length |-> be32(PEER_ADDR_LEN), body |-> new] \in Informs
    BY <1>3, <1>4 DEF Informs
  <1>6. Inform(p) \in Informs
    BY <1>5 DEF Inform, new
  <1> QED BY <1>6 DEF Connections

LEMMA InformGood ==
    ASSUME Good, NEW p \in Peers,
           \/ ServerReadEof(p) \/ ServerReadErr(p)
           \/ InformOne(p) \/ InformDone(p) \/ HandleInform(p)
    PROVE  Good' /\ TablesExtend
  <1> USE DEF Good
  <1>1. CASE ServerReadEof(p)
    <2>1. BacklogOK'
      BY <1>1, RequestTypes DEF ServerReadEof, Accepts, BacklogOK
    <2>2. TablesOK' /\ TablesExtend /\ ListsOK'
      BY <1>1, StillTables DEF ServerReadEof, ListsOK, clientVars
    <2>3. ThreadsOK' /\ RequestsOK'
      BY <1>1 DEF ServerReadEof, ThreadsOK, RequestsOK, Goto, clientVars
    <2> QED BY <2>1, <2>2, <2>3
  <1>2. CASE InformOne(p)
    <2>1. TablesOK' /\ TablesExtend /\ ListsOK' /\ RequestsOK'
      BY <1>2, StillTables DEF InformOne, ListsOK, RequestsOK, clientVars
    <2>2. Inform(p) \in Connections
      BY <1>2, InformType
    <2>3. BacklogOK'
      BY <1>2, <2>2 DEF InformOne, BacklogOK
    <2>4. ThreadsOK'
      <3>1. idx' = [idx EXCEPT ![p] = idx[p] + 1]
        BY <1>2 DEF InformOne
      <3>2. UNCHANGED <<alive, cl, to, budget, sv, size, joined, strays>>
        BY <1>2 DEF InformOne, clientVars, history
      <3> QED BY <3>1, <3>2 DEF ThreadsOK
    <2> QED BY <2>1, <2>3, <2>4
  <1>3. CASE InformDone(p)
    <2>1. TablesOK' /\ TablesExtend /\ BacklogOK' /\ ListsOK'
      BY <1>3, StillTables DEF InformDone, BacklogOK, ListsOK, clientVars
    <2>2. ThreadsOK'
      BY <1>3 DEF InformDone, ThreadsOK, Goto, clientVars
    <2>3. RequestsOK'
      BY <1>3 DEF InformDone, ThreadsOK, RequestsOK, Goto
    <2> QED BY <2>1, <2>2, <2>3
  <1>4. CASE HandleInform(p)
    <2> DEFINE e == Swapped(Request(p).body)
    <2>1. Tail(backlog[p]) \in Seq(Connections) /\ Request(p) \in Informs
      BY <1>4, RequestTypes DEF HandleInform, Accepts
    <2>2. e \in Entries
      <3>1. Request(p).body \in Entries
        BY <2>1 DEF Informs, Entries
      <3> QED BY <3>1, SwappedType
    <2>3. TablesOK' /\ TablesExtend
      <3>1. UNCHANGED network \/ Adds(p, e)
        BY <1>4 DEF HandleInform, Adds
      <3> HIDE DEF e
      <3> QED BY <2>2, <3>1, AddsKeeps, StillTables
    <2>4. BacklogOK'
      BY <1>4, <2>1 DEF HandleInform, BacklogOK
    <2>5. ThreadsOK' /\ RequestsOK' /\ ListsOK'
      BY <1>4 DEF HandleInform, ThreadsOK, RequestsOK, ListsOK, clientVars, serverVars
    <2> QED BY <2>3, <2>4, <2>5
  <1>5. CASE ServerReadErr(p)
    <2>1. BacklogOK'
      BY <1>5, RequestTypes DEF ServerReadErr, Accepts, BacklogOK
    <2>2. TablesOK' /\ TablesExtend /\ ListsOK' /\ ThreadsOK' /\ RequestsOK'
      BY <1>5, StillTables DEF ServerReadErr, ListsOK, ThreadsOK, RequestsOK, clientVars, serverVars
    <2> QED BY <2>1, <2>2
  <1> QED BY <1>1, <1>2, <1>3, <1>4, <1>5

LEMMA NextGood ==
    ASSUME Good, [Next]_vars
    PROVE  Good' /\ TablesExtend
  <1>1. CASE Next
    <2>1. PICK p \in Peers : ClientStep(p) \/ ServerStep(p) \/ User(p) \/ Crash(p) \/ Smash(p)
      BY <1>1 DEF Next
    <2>2. ServerStep(p) => Good' /\ TablesExtend
      BY RegisterGood, InformGood DEF ServerStep
    <2>3. Crash(p) \/ Smash(p) => Good' /\ TablesExtend
      BY DiesGood DEF Crash, Smash
    <2> QED BY <2>1, <2>2, <2>3, ClientGood, UserGood
  <1>2. CASE UNCHANGED vars
    <2>1. TablesOK' /\ TablesExtend
      BY <1>2, StillTables DEF vars, Good
    <2> QED BY <1>2, <2>1 DEF vars, Good, ThreadsOK, RequestsOK, ListsOK, BacklogOK,
                              clientVars, serverVars
  <1> QED BY <1>1, <1>2

-----------------------------------------------------------------------------
\* Every reachable state of the peers is well-typed: a server that answers has a
\* REGISTER in hand, a client that waits has a peer to wait for.
THEOREM NetworkTypeCorrect == Spec => []TypeOK
  <1>1. Init => Good
    BY InitGood
  <1>2. Good /\ [Next]_vars => Good'
    BY NextGood
  <1>3. Good => TypeOK
    BY Parts DEF Good
  <1> QED BY <1>1, <1>2, <1>3, PTL DEF Spec

\* No table ever holds an address twice, whichever thread adds it.
THEOREM TablesDistinct == Spec => []NoDuplicates
  <1>1. Init => Good
    BY InitGood
  <1>2. Good /\ [Next]_vars => Good'
    BY NextGood
  <1>3. Good => NoDuplicates
    BY Parts DEF Good
  <1> QED BY <1>1, <1>2, <1>3, PTL DEF Spec

\* No step shortens a table or moves an entry.
THEOREM TablesOnlyGrow == Spec => TablesGrow
  <1>1. Init => Good
    BY InitGood
  <1>2. Good /\ [Next]_vars => Good'
    BY NextGood
  <1>3. Good /\ [Next]_vars =>
          [\A p \in Peers :
             /\ Len(network[p]) <= Len(network'[p])
             /\ \A i \in 1..Len(network[p]) : SameAddr(network[p][i], network'[p][i])]_vars
    BY NextGood DEF TablesExtend, Extends
  <1> QED BY <1>1, <1>2, <1>3, PTL DEF Spec, TablesGrow

-----------------------------------------------------------------------------
(* Ports.  A table holds the ports of peers and those that were read from  *)
(* uninitialised bytes; what is under way holds them converted once, and   *)
(* converting twice is the identity.  As the second kind becomes more, a   *)
(* step is followed with the set K of the ports known after it.            *)

AtPorts(K, s) == \A i \in 1..Len(s) : s[i].port \in K

\* A REGISTER carries the address of the peer it comes from.
Genuine(c) == c.ip = Ip[c.from] /\ c.port = be32(Port[c.from])
Truthful(K, c) ==
    /\ c.cmd = "REGISTER" => Genuine(c)
    /\ c.cmd = "INFORM" => be32(c.body.port) \in K

ListPorts(K) ==
    \A p \in Peers : /\ AtPorts(K, network[p]) /\ AtPorts(K, todo[p])
                     /\ AtPorts(K, data[p]) /\ AtPorts(K, reply[p].entries)
BacklogPorts(K) == \A p \in Peers : \A i \in 1..Len(backlog[p]) : Truthful(K, backlog[p][i])
RequestPorts == \A p \in Peers : req[p] \in Registers => Genuine(req[p])
PortsIn(K) == ListPorts(K) /\ BacklogPorts(K) /\ RequestPorts

\* Numbers of 32 bits.
Words == {n \in Nat : n \div 16777216 < 256}
PortSet(K) == K \subseteq Words /\ \A p \in Peers : Port[p] \in K

JunkPorts == {e.port : e \in Junk}
KnownPorts == {Port[p] : p \in Peers} \cup strays
PortsInv == strays \subseteq JunkPorts /\ PortsIn(KnownPorts)

\* be32toh undoes htobe32.
LEMMA SwapTwice == \A n \in Words : be32(be32(n)) = n
  <1>1. \A n \in Int : 0 <= n /\ n \div 16777216 < 256 =>
          /\ 0 <= n \div 16777216
          /\ n = 16777216 * (n \div 16777216) + 65536 * ((n \div 65536) % 256)
                 + 256 * ((n \div 256) % 256) + (n % 256)
    BY SMTT(30)
  <1>2. \A n \in Int : (n % 256) \in 0..255
    BY SMT
  <1> SUFFICES ASSUME NEW n \in Words PROVE be32(be32(n)) = n
    OBVIOUS
  <1>3. n \in Int /\ 0 <= n /\ n \div 16777216 < 256
    BY SMT DEF Words
  <1>4. PICK a \in Int, b \in Int, c \in Int, d \in Int :
               /\ a = (n % 256) /\ b = ((n \div 256) % 256)
               /\ c = ((n \div 65536) % 256) /\ d = n \div 16777216
    BY <1>3, SMT
  <1>5. n = 16777216 * d + 65536 * c + 256 * b + a /\ d \in 0..255
    BY <1>3, <1>1, <1>4, SMT
  <1>6. a \in 0..255 /\ b \in 0..255 /\ c \in 0..255
    <2>1. n \div 256 \in Int /\ n \div 65536 \in Int
      BY <1>3, SMT
    <2> QED BY <1>3, <1>2, <1>4, <2>1, SMT
  <1>7. PICK m : m = be32(n)
    OBVIOUS
  <1>8. m = a * 16777216 + b * 65536 + c * 256 + d
    BY <1>3, <1>4, <1>7, SMT DEF be32
  <1>9. be32(m) = d * 16777216 + c * 65536 + b * 256 + a
    <2>1. (m % 256) = d
      BY <1>5, <1>6, <1>8, SMTT(30)
    <2>2. m \div 256 = a * 65536 + b * 256 + c
      BY <1>5, <1>6, <1>8, SMTT(30)
    <2>3. m \div 65536 = a * 256 + b
      BY <1>5, <1>6, <1>8, SMTT(30)
    <2>4. m \div 16777216 = a
      BY <1>5, <1>6, <1>8, SMTT(30)
    <2>5. ((a * 65536 + b * 256 + c) % 256) = c /\ ((a * 256 + b) % 256) = b
      BY <1>6, SMTT(30)
    <2>6. ((m \div 256) % 256) = c /\ ((m \div 65536) % 256) = b
      BY <2>2, <2>3, <2>5, SMT
    <2> QED BY <1>6, <1>8, <2>1, <2>4, <2>6, SMT DEF be32
  <1> QED BY <1>5, <1>6, <1>7, <1>9, SMT

LEMMA PortWords == \A p \in Peers : Port[p] \in Words
  <1>1. \A n \in Int : 0 <= n /\ n <= 65535 => n \in Nat /\ n \div 16777216 < 256
    BY SMT
  <1>2. \A n \in Ports : n \in Int /\ 0 <= n /\ n <= 65535
    BY SMTT(30) DEF Ports
  <1>3. \A p \in Peers : Port[p] \in Ports
    BY NetworkAssumption, SMT
  <1> QED BY <1>1, <1>2, <1>3, SMT DEF Words

\* What is in one set of ports is in every larger one.
LEMMA MorePorts ==
    ASSUME NEW K, NEW L, K \subseteq L, PortsIn(K)
    PROVE  PortsIn(L)
  <1>1. \A s : AtPorts(K, s) => AtPorts(L, s)
    BY DEF AtPorts
  <1>2. \A c : Truthful(K, c) => Truthful(L, c)
    BY DEF Truthful
  <1> QED BY <1>1, <1>2 DEF PortsIn, ListPorts, BacklogPorts

\* The sender that register_peer takes from a REGISTER is the peer it came from.
LEMMA GenuineSender ==
    ASSUME NEW c \in Registers, Genuine(c)
    PROVE  SameAddr(Sender(c), Entry(c.from))
  <1>1. c.from \in Peers
    BY DEF Registers
  <1>2. be32(be32(Port[c.from])) = Port[c.from]
    BY <1>1, SwapTwice, PortWords
  <1> QED BY <1>2 DEF Genuine, Sender, SameAddr, Entry

\* What add_peer_to_network leaves in a table: the addresses that were there and
\* the one it was given.
LEMMA AddPeerAdds ==
    ASSUME NEW tab \in Seq(Entries), Distinct(tab), NEW e \in Entries
    PROVE  /\ Places(AddPeer(tab, e), e) # {}
           /\ \A j \in 1..Len(AddPeer(tab, e)) :
                \/ j \in 1..Len(tab) /\ SameAddr(tab[j], AddPeer(tab, e)[j])
                \/ SameAddr(AddPeer(tab, e)[j], e)
  <1> DEFINE new == AddPeer(tab, e)
  <1>0. new \in Seq(Entries) /\ Extends(tab, new)
    BY AddPeerKeeps
  <1>1. CASE Places(tab, e) # {}
    <2>1. PICK i \in 1..Len(tab) : SameAddr(tab[i], e)
      BY <1>1 DEF Places
    <2>2. \E k : new = [tab EXCEPT ![k].sig = e.sig]
      BY <1>1 DEF AddPeer
    <2>3. Len(new) = Len(tab)
      BY <1>0, <2>2
    <2> HIDE DEF new
    <2>4. i \in 1..Len(new) /\ SameAddr(new[i], e)
      BY <1>0, <2>1, <2>3 DEF Extends, SameAddr
    <2>5. Places(new, e) # {}
      BY <2>4 DEF Places
    <2>6. \A j \in 1..Len(new) : j \in 1..Len(tab) /\ SameAddr(tab[j], new[j])
      BY <1>0, <2>3 DEF Extends
    <2> QED BY <2>5, <2>6 DEF new
  <1>2. CASE Places(tab, e) = {}
    <2>1. new = Append(tab, e)
      BY <1>2 DEF AddPeer
    <2>2. /\ Len(tab) \in Nat /\ Len(new) = Len(tab) + 1 /\ new[Len(tab) + 1] = e
          /\ \A j \in 1..Len(tab) : new[j] = tab[j]
      BY <2>1
    <2> HIDE DEF new
    <2>3. SameAddr(new[Len(tab) + 1], e)
      BY <2>2 DEF SameAddr
    <2>4. Places(new, e) # {}
      BY <2>2, <2>3 DEF Places
    <2>5. \A j \in 1..Len(new) : (j \in 1..Len(tab) /\ SameAddr(tab[j], new[j])) \/ SameAddr(new[j], e)
      BY <2>2, <2>3 DEF SameAddr
    <2> QED BY <2>4, <2>5 DEF new
  <1> QED BY <1>1, <1>2

LEMMA AddsPorts ==
    ASSUME NEW K, TablesOK, NEW p \in Peers, NEW e \in Entries, Adds(p, e), e.port \in K,
           \A q \in Peers : AtPorts(K, network[q])
    PROVE  \A q \in Peers : AtPorts(K, network'[q])
  <1> DEFINE new == AddPeer(network[p], e)
  <1>1. \A j \in 1..Len(new) :
          \/ j \in 1..Len(network[p]) /\ SameAddr(network[p][j], new[j])
          \/ SameAddr(new[j], e)
    BY AddPeerAdds DEF TablesOK
  <1>2. \A q \in Peers : network'[q] = IF q = p THEN new ELSE network[q]
    BY DEF Adds, TablesOK
  <1> HIDE DEF new
  <1>3. AtPorts(K, new)
    BY <1>1 DEF AtPorts, SameAddr
  <1> QED BY <1>2, <1>3

\* Steps that leave the lists, the backlogs or the requests alone.
LEMMA SamePorts == \A K :
    /\ UNCHANGED <<network, todo, data, reply>> /\ ListPorts(K) => ListPorts(K)'
    /\ UNCHANGED backlog /\ BacklogPorts(K) => BacklogPorts(K)'
    /\ UNCHANGED req /\ RequestPorts => RequestPorts'
  BY DEF ListPorts, BacklogPorts, RequestPorts

\* Taking the first connection of a backlog leaves the others as they are.
LEMMA TailPorts ==
    ASSUME NEW K, BacklogOK, BacklogPorts(K), NEW p \in Peers, backlog[p] # << >>,
           backlog' = [backlog EXCEPT ![p] = Tail(@)]
    PROVE  BacklogPorts(K)' /\ Truthful(K, Request(p))
  <1>1. /\ backlog[p] \in Seq(Connections)
        /\ \A i \in 1..Len(backlog[p]) : Truthful(K, backlog[p][i])
    BY DEF BacklogOK, BacklogPorts
  <1>2. Truthful(K, Request(p))
    BY <1>1 DEF Request
  <1>3. \A i \in 1..Len(Tail(backlog[p])) : Tail(backlog[p])[i] = backlog[p][i + 1]
                                           /\ i + 1 \in 1..Len(backlog[p])
    BY <1>1
  <1>4. \A i \in 1..Len(Tail(backlog[p])) : Truthful(K, Tail(backlog[p])[i])
    BY <1>1, <1>3
  <1>5. \A q \in Peers : backlog'[q] = IF q = p THEN Tail(backlog[p]) ELSE backlog[q]
    BY DEF BacklogOK
  <1> QED BY <1>2, <1>4, <1>5 DEF BacklogPorts

LEMMA AnswerPorts ==
    ASSUME NEW K, ListsOK, \A q \in Peers : AtPorts(K, reply[q].entries),
           NEW r, NEW msg, AtPorts(K, msg.entries), Answer(r, msg)
    PROVE  \A q \in Peers : AtPorts(K, reply'[q].entries)
  BY DEF Answer, ListsOK

LEMMA ClientPorts ==
    ASSUME Good, NEW K, PortSet(K), strays' \subseteq K, PortsIn(K), NEW p \in Peers, ClientStep(p)
    PROVE  PortsIn(K)'
  <1> USE DEF Good, PortsIn
  <1>1. CASE ClientWrite(p)
    <2> DEFINE q == to[p]
               hdr == [from |-> p, cmd |-> "REGISTER", ip |-> Ip[p], port |-> be32(Port[p]),
                       sig |-> p, length |-> be32(0)]
               new(b) == [i \in DOMAIN b |-> IF IsPending(b[i], p) THEN hdr ELSE b[i]]
    <2>1. ListPorts(K)' /\ RequestPorts'
      BY <1>1, SamePorts DEF ClientWrite, serverVars
    <2>2. Truthful(K, hdr)
      BY DEF Truthful, Genuine
    <2>3. backlog' = [backlog EXCEPT ![q] = new(@)]
      BY <1>1 DEF ClientWrite
    <2> HIDE DEF hdr
    <2>4. \A s \in Peers : backlog'[s] = IF s = q THEN new(backlog[s]) ELSE backlog[s]
      BY <2>3 DEF BacklogOK
    <2>5. \A s \in Peers : /\ Len(new(backlog[s])) = Len(backlog[s])
                           /\ \A i \in 1..Len(backlog[s]) :
                                new(backlog[s])[i] = hdr \/ new(backlog[s])[i] = backlog[s][i]
      BY DEF BacklogOK
    <2> HIDE DEF new
    <2>6. BacklogPorts(K)'
      BY <2>2, <2>4, <2>5 DEF BacklogPorts
    <2> QED BY <2>1, <2>6
  <1>2. CASE ClientReply(p)
    <2>1. BacklogPorts(K)' /\ RequestPorts'
      BY <1>2, SamePorts DEF ClientReply, serverVars
    <2>2. AtPorts(K, None.entries) /\ AtPorts(K, reply[p].entries)
      BY DEF None, AtPorts, ListPorts
    <2>3. /\ reply' = [reply EXCEPT ![p] = None] /\ todo' = [todo EXCEPT ![p] = reply[p].entries]
          /\ UNCHANGED <<network, data>>
      BY <1>2 DEF ClientReply, serverVars
    <2>4. ListPorts(K)'
      BY <2>2, <2>3 DEF ListPorts, ListsOK
    <2> QED BY <2>1, <2>4
  <1>3. CASE ClientEof(p)
    <2>1. BacklogPorts(K)' /\ RequestPorts'
      BY <1>3, SamePorts DEF ClientEof, serverVars
    <2>2. AtPorts(K, None.entries)
      BY DEF None, AtPorts
    <2>3. reply' = [reply EXCEPT ![p] = None] /\ UNCHANGED <<network, data>>
      BY <1>3 DEF ClientEof, serverVars
    <2>4. todo' = todo \/ \E es : AtPorts(K, es) /\ todo' = [todo EXCEPT ![p] = es]
      <3>1. ASSUME NEW n \in 1..MaxJunk, NEW es \in [1..n -> Junk],
                   todo' = [todo EXCEPT ![p] = es], ReadsJunk(es)
            PROVE  AtPorts(K, es)
        <4>1. n \in Nat /\ Len(es) = n
          BY NetworkAssumption
        <4>2. \A i \in 1..n : es[i].port \in strays'
          BY <3>1 DEF ReadsJunk
        <4> QED BY <4>1, <4>2 DEF AtPorts
      <3> QED BY <1>3, <3>1 DEF ClientEof
    <2>5. \A q \in Peers : AtPorts(K, todo'[q])
      BY <2>4 DEF ListPorts, ListsOK
    <2>6. ListPorts(K)'
      BY <2>2, <2>3, <2>5 DEF ListPorts, ListsOK
    <2> QED BY <2>1, <2>6
  <1>4. CASE ClientAdd(p)
    <2>1. BacklogPorts(K)' /\ RequestPorts'
      BY <1>4, SamePorts DEF ClientAdd, serverVars
    <2>2. /\ todo[p] \in Seq(Entries) /\ todo[p] # << >> /\ AtPorts(K, todo[p])
          /\ Head(todo[p]) \in Entries
      BY <1>4 DEF ClientAdd, ListsOK, ListPorts
    <2>3. Head(todo[p]).port \in K /\ AtPorts(K, Tail(todo[p]))
      BY <2>2 DEF AtPorts
    <2>4. Adds(p, Head(todo[p])) /\ todo' = [todo EXCEPT ![p] = Tail(@)] /\ UNCHANGED <<reply, data>>
      BY <1>4 DEF ClientAdd, Adds, serverVars
    <2>5. \A q \in Peers : AtPorts(K, network'[q])
      BY <2>2, <2>3, <2>4, AddsPorts DEF ListPorts
    <2>6. ListPorts(K)'
      BY <2>3, <2>4, <2>5 DEF ListPorts, ListsOK
    <2> QED BY <2>1, <2>6
  <1>5. CASE ClientDone(p)
    BY <1>5, SamePorts DEF ClientDone, serverVars
  <1> QED BY <1>1, <1>2, <1>3, <1>4, <1>5 DEF ClientStep

LEMMA UserPorts ==
    ASSUME Good, NEW K, PortSet(K), strays' \subseteq K, PortsIn(K), NEW p \in Peers, User(p)
    PROVE  PortsIn(K)'
  <1> USE DEF Good, PortsIn
  <1>1. CASE ClientQuit(p)
    BY <1>1, SamePorts DEF ClientQuit, serverVars
  <1>2. ASSUME NEW q \in Peers, ClientConnect(p, q) PROVE PortsIn(K)'
    <2>1. ListPorts(K)' /\ RequestPorts'
      BY <1>2, SamePorts DEF ClientConnect, serverVars
    <2>2. backlog' = backlog \/ backlog' = [backlog EXCEPT ![q] = Append(backlog[q], Pending(p))]
      BY <1>2 DEF ClientConnect
    <2>3. Truthful(K, Pending(p)) /\ Pending(p) \in Connections
      BY DEF Truthful, Pending, Connections
    <2>4. ASSUME backlog' = [backlog EXCEPT ![q] = Append(backlog[q], Pending(p))]
          PROVE  BacklogPorts(K)'
      <3> DEFINE new == Append(backlog[q], Pending(p))
      <3>1. backlog[q] \in Seq(Connections) /\ Len(new) = Len(backlog[q]) + 1
        BY <2>3 DEF BacklogOK
      <3>2. \A i \in 1..Len(new) : IF i \in 1..Len(backlog[q]) THEN new[i] = backlog[q][i]
                                                              ELSE new[i] = Pending(p)
        BY <3>1
      <3>3. \A i \in 1..Len(new) : Truthful(K, new[i])
        BY <2>3, <3>2 DEF BacklogPorts
      <3>4. \A s \in Peers : backlog'[s] = IF s = q THEN new ELSE backlog[s]
        BY <2>4 DEF BacklogOK
      <3> HIDE DEF new
      <3> QED BY <3>3, <3>4 DEF BacklogPorts
    <2>5. BacklogPorts(K)'
      BY <2>2, <2>4, SamePorts
    <2> QED BY <2>1, <2>5
  <1> QED BY <1>1, <1>2 DEF User

LEMMA DiesPorts ==
    ASSUME Good, NEW K, PortSet(K), strays' \subseteq K, PortsIn(K), NEW p \in Peers, Dies(p)
    PROVE  PortsIn(K)'
  <1> USE DEF Good, PortsIn
  <1>1. AtPorts(K, << >>) /\ AtPorts(K, Eof.entries)
    BY DEF AtPorts, Eof
  <1>2. ListPorts(K)'
    BY <1>1 DEF Dies, ListPorts, ListsOK
  <1>3. RequestPorts'
    <2>1. NoRequest \notin Registers
      BY NetworkAssumption DEF NoRequest, Registers
    <2> QED BY <2>1 DEF Dies, RequestPorts, RequestsOK
  <1>4. BacklogPorts(K)'
    <2> PICK how \in {"closed", "reset"} :
               backlog' = [q \in Peers |->
                 IF q = p THEN << >>
                 ELSE [i \in DOMAIN backlog[q] |-> IF IsPending(backlog[q][i], p)
                                                   THEN Broken(p, how)
                                                   ELSE backlog[q][i]]]
      BY DEF Dies
    <2> DEFINE f(c) == IF IsPending(c, p) THEN Broken(p, how) ELSE c
    <2>1. \A c : Truthful(K, c) => Truthful(K, f(c))
      BY DEF Truthful, Broken
    <2>2. backlog' = [q \in Peers |-> IF q = p THEN << >>
                                       ELSE [i \in DOMAIN backlog[q] |-> f(backlog[q][i])]]
      OBVIOUS
    <2> HIDE DEF f
    <2>3. \A q \in Peers : q # p =>
            /\ Len(backlog'[q]) = Len(backlog[q])
            /\ \A i \in 1..Len(backlog[q]) : backlog'[q][i] = f(backlog[q][i])
      BY <2>2 DEF BacklogOK
    <2>4. Len(backlog'[p]) = 0
      BY <2>2
    <2> SUFFICES ASSUME NEW q \in Peers, NEW i \in 1..Len(backlog'[q])
                 PROVE  Truthful(K, backlog'[q][i])
      BY DEF BacklogPorts
    <2>5. q # p
      BY <2>4
    <2>6. Truthful(K, backlog[q][i]) /\ backlog'[q][i] = f(backlog[q][i])
      BY <2>3, <2>5 DEF BacklogPorts
    <2> QED BY <2>1, <2>6
  <1> QED BY <1>2, <1>3, <1>4

LEMMA RegisterPorts ==
    ASSUME Good, NEW K, PortSet(K), strays' \subseteq K, PortsIn(K), NEW p \in Peers,
           RegCheck(p) \/ RegAlloc(p) \/ RegFill(p) \/ RegRespond(p) \/ RegAdd(p)
    PROVE  PortsIn(K)'
  <1> USE DEF Good, PortsIn
  <1>1. CASE RegCheck(p)
    <2>1. BacklogPorts(K)' /\ Truthful(K, Request(p)) /\ Request(p).cmd = "REGISTER"
      BY <1>1, TailPorts DEF RegCheck, Accepts
    <2>2. RequestPorts'
      <3>1. req' = req \/ req' = [req EXCEPT ![p] = Request(p)]
        BY <1>1 DEF RegCheck
      <3> QED BY <2>1, <3>1 DEF RequestPorts, RequestsOK, Truthful
    <2>3. ListPorts(K)'
      <3> DEFINE msg == [status |-> "PEER_EXISTS", entries |-> << >>]
      <3>1. AtPorts(K, msg.entries)
        BY DEF AtPorts
      <3>2. reply' = reply \/ Answer(Request(p).from, msg)
        BY <1>1 DEF RegCheck
      <3> HIDE DEF msg
      <3>3. \A q \in Peers : AtPorts(K, reply'[q].entries)
        BY <3>1, <3>2, AnswerPorts DEF ListPorts
      <3>4. UNCHANGED <<network, todo, data>>
        BY <1>1 DEF RegCheck
      <3> QED BY <3>3, <3>4 DEF ListPorts
    <2> QED BY <2>1, <2>2, <2>3
  <1>2. CASE RegAlloc(p)
    BY <1>2, SamePorts DEF RegAlloc, clientVars
  <1>3. CASE RegFill(p)
    <2>1. BacklogPorts(K)' /\ RequestPorts'
      BY <1>3, SamePorts DEF RegFill
    <2> DEFINE n == Len(network[p])
    <2>2. AtPorts(K, Listing(p))
      <3> DEFINE rest == [i \in 1..n |->
                             [ip |-> network[p][i].ip, port |-> network[p][n].port, sig |-> p]]
      <3>1. n \in Nat /\ AtPorts(K, network[p])
        BY DEF TablesOK, ListPorts
      <3>2. \A i \in 1..n : rest[i].port \in K
        <4> SUFFICES ASSUME NEW i \in 1..n PROVE rest[i].port \in K
          OBVIOUS
        <4>1. n \in 1..n
          BY <3>1
        <4>2. network[p][n].port \in K
          BY <3>1, <4>1 DEF AtPorts
        <4> QED BY <4>2
      <3>3. rest \in Seq({rest[i] : i \in 1..n}) /\ Len(rest) = n
        <4>1. rest = [i \in 1..n |-> rest[i]]
          OBVIOUS
        <4> HIDE DEF rest, n
        <4> DEFINE S == {rest[i] : i \in 1..n}
        <4>2. rest \in [1..n -> S]
          BY <4>1
        <4> HIDE DEF S
        <4>3. rest \in Seq(S) /\ Len(rest) = n
          BY <3>1, <4>2
        <4> QED BY <4>3 DEF S
      <3>4. Entry(p).port \in K
        BY DEF Entry, PortSet
      <3> HIDE DEF rest, n
      <3>5. Listing(p) = << Entry(p) >> \o rest
        BY DEF Listing, rest, n
      <3>6. /\ Len(<< Entry(p) >> \o rest) = n + 1
            /\ \A i \in 1..n + 1 : (<< Entry(p) >> \o rest)[i] = IF i = 1 THEN Entry(p) ELSE rest[i - 1]
        BY <3>1, <3>3
      <3>7. \A i \in 1..n + 1 : (<< Entry(p) >> \o rest)[i].port \in K
        <4> SUFFICES ASSUME NEW i \in 1..n + 1
                     PROVE  (<< Entry(p) >> \o rest)[i].port \in K
          OBVIOUS
        <4>1. i = 1 \/ i - 1 \in 1..n
          BY <3>1
        <4> QED BY <3>2, <3>4, <3>6, <4>1
      <3> QED BY <3>5, <3>6, <3>7 DEF AtPorts
    <2>3. data' = [data EXCEPT ![p] = Listing(p)] /\ UNCHANGED <<network, todo, reply>>
      BY <1>3 DEF RegFill, clientVars
    <2>4. ListPorts(K)'
      BY <2>2, <2>3 DEF ListPorts, ListsOK
    <2> QED BY <2>1, <2>4
  <1>4. CASE RegRespond(p)
    <2> DEFINE n == Len(network[p]) + 1
               filled == Len(data[p])
    <2> PICK es \in [filled + 1..n -> Junk] :
               /\ Answer(req[p].from, [status |-> "OK", entries |->
                           [i \in 1..n |-> IF i <= filled THEN data[p][i] ELSE es[i]]])
               /\ ReadsJunk(es)
      BY <1>4 DEF RegRespond
    <2> DEFINE at(i) == IF i <= filled THEN data[p][i] ELSE es[i]
               msg == [status |-> "OK", entries |-> [i \in 1..n |-> at(i)]]
    <2>1. BacklogPorts(K)' /\ RequestPorts'
      BY <1>4, SamePorts DEF RegRespond
    <2>2. AtPorts(K, msg.entries)
      <3>1. n \in Nat /\ data[p] \in Seq(Entries) /\ AtPorts(K, data[p])
        BY DEF TablesOK, ListsOK, ListPorts
      <3>2. \A i \in 1..n : at(i).port \in K
        <4> SUFFICES ASSUME NEW i \in 1..n PROVE at(i).port \in K
          OBVIOUS
        <4>1. CASE i <= filled
          BY <3>1, <4>1 DEF AtPorts
        <4>2. CASE ~(i <= filled)
          <5>1. i \in filled + 1..n
            BY <3>1, <4>2
          <5>2. es[i].port \in strays'
            BY <5>1 DEF ReadsJunk
          <5> QED BY <4>2, <5>2
        <4> QED BY <4>1, <4>2
      <3>3. Len([i \in 1..n |-> at(i)]) = n
        BY <3>1
      <3> HIDE DEF n, at
      <3> QED BY <3>2, <3>3 DEF AtPorts
    <2>3. Answer(req[p].from, msg)
      OBVIOUS
    <2> HIDE DEF msg, n, at, filled
    <2>4. \A q \in Peers : AtPorts(K, reply'[q].entries)
      BY <2>2, <2>3, AnswerPorts DEF ListPorts
    <2>5. data' = [data EXCEPT ![p] = << >>] /\ UNCHANGED <<network, todo>>
      BY <1>4 DEF RegRespond
    <2>6. AtPorts(K, << >>)
      BY DEF AtPorts
    <2>7. ListPorts(K)'
      BY <2>4, <2>5, <2>6 DEF ListPorts, ListsOK
    <2> QED BY <2>1, <2>7
  <1>5. CASE RegAdd(p)
    <2>1. BacklogPorts(K)' /\ RequestPorts'
      BY <1>5, SamePorts DEF RegAdd
    <2>2. req[p] \in Registers /\ Genuine(req[p])
      BY <1>5 DEF RegAdd, Serving, RequestsOK, RequestPorts
    <2>3. Sender(req[p]) \in Entries /\ Sender(req[p]).port \in K
      BY <2>2, SenderType, GenuineSender DEF SameAddr, Entry, Registers, PortSet
    <2>4. Adds(p, Sender(req[p])) /\ UNCHANGED <<todo, data, reply>>
      BY <1>5 DEF RegAdd, Adds, clientVars
    <2>5. \A q \in Peers : AtPorts(K, network'[q])
      BY <2>3, <2>4, AddsPorts DEF ListPorts
    <2>6. ListPorts(K)'
      BY <2>4, <2>5 DEF ListPorts
    <2> QED BY <2>1, <2>6
  <1> QED BY <1>1, <1>2, <1>3, <1>4, <1>5

LEMMA InformPorts ==
    ASSUME Good, NEW K, PortSet(K), strays' \subseteq K, PortsIn(K), NEW p \in Peers,
           \/ ServerReadEof(p) \/ ServerReadErr(p)
           \/ InformOne(p) \/ InformDone(p) \/ HandleInform(p)
    PROVE  PortsIn(K)'
  <1> USE DEF Good, PortsIn
  <1>1. CASE ServerReadEof(p)
    BY <1>1, SamePorts, TailPorts DEF ServerReadEof, Accepts, clientVars
  <1>2. CASE InformOne(p)
    <2>1. ListPorts(K)' /\ RequestPorts'
      BY <1>2, SamePorts DEF InformOne, clientVars
    <2>2. Truthful(K, Inform(p))
      <3> DEFINE new == network[p][Len(network[p])]
      <3>1. Len(network[p]) \in 1..Len(network[p])
        BY <1>2 DEF InformOne, TablesOK, ThreadsOK
      <3>2. new.port \in K
        BY <3>1 DEF ListPorts, AtPorts
      <3>3. be32(be32(new.port)) \in K
        <4>1. be32(be32(new.port)) = new.port
          BY <3>2, SwapTwice DEF PortSet
        <4> QED BY <3>2, <4>1
      <3>4. Inform(p).cmd = "INFORM" /\ Inform(p).body.port = be32(new.port)
        BY DEF Inform, Swapped
      <3> HIDE DEF new
      <3> QED BY <3>3, <3>4 DEF Truthful
    <2>3. \A q \in Peers : backlog'[q] = backlog[q] \/ backlog'[q] = Append(backlog[q], Inform(p))
      BY <1>2 DEF InformOne
    <2>4. BacklogPorts(K)'
      <3> SUFFICES ASSUME NEW q \in Peers, NEW i \in 1..Len(backlog'[q])
                   PROVE  Truthful(K, backlog'[q][i])
        BY DEF BacklogPorts
      <3>1. backlog[q] \in Seq(Connections)
        BY DEF BacklogOK
      <3>2. \/ i \in 1..Len(backlog[q]) /\ backlog'[q][i] = backlog[q][i]
            \/ backlog'[q][i] = Inform(p)
        BY <2>3, <3>1
      <3> QED BY <2>2, <3>2 DEF BacklogPorts
    <2> QED BY <2>1, <2>4
  <1>3. CASE InformDone(p)
    <2>1. ListPorts(K)' /\ BacklogPorts(K)'
      BY <1>3, SamePorts DEF InformDone, clientVars
    <2>2. NoRequest \notin Registers
      BY NetworkAssumption DEF NoRequest, Registers
    <2>3. RequestPorts'
      BY <1>3, <2>2 DEF InformDone, RequestPorts, RequestsOK
    <2> QED BY <2>1, <2>3
  <1>4. CASE HandleInform(p)
    <2> DEFINE e == Swapped(Request(p).body)
    <2>1. RequestPorts' /\ BacklogPorts(K)' /\ Truthful(K, Request(p)) /\ Request(p).cmd = "INFORM"
      BY <1>4, SamePorts, TailPorts DEF HandleInform, Accepts, serverVars
    <2>2. Request(p) \in Informs
      BY <1>4, RequestTypes DEF HandleInform, Accepts
    <2>3. e \in Entries /\ e.port \in K
      <3>1. Request(p).body \in Entries
        BY <2>2 DEF Informs, Entries
      <3> QED BY <2>1, <3>1, SwappedType DEF Truthful, Swapped
    <2>4. UNCHANGED network \/ Adds(p, e)
      BY <1>4 DEF HandleInform, Adds
    <2> HIDE DEF e
    <2>5. \A q \in Peers : AtPorts(K, network'[q])
      BY <2>3, <2>4, AddsPorts DEF ListPorts
    <2>6. UNCHANGED <<todo, data, reply>>
      BY <1>4 DEF HandleInform, clientVars, serverVars
    <2>7. ListPorts(K)'
      BY <2>5, <2>6 DEF ListPorts
    <2> QED BY <2>1, <2>7
  <1>5. CASE ServerReadErr(p)
    BY <1>5, SamePorts, TailPorts DEF ServerReadErr, Accepts, clientVars, serverVars
  <1> QED BY <1>1, <1>2, <1>3, <1>4, <1>5

LEMMA PortsInit == Init => PortsInv
  <1>1. NoRequest \notin Registers
    BY NetworkAssumption DEF NoRequest, Registers
  <1> QED BY <1>1 DEF Init, PortsInv, PortsIn, ListPorts, BacklogPorts, RequestPorts, AtPorts, None

\* What was read from uninitialised bytes once has been read, and was junk.
LEMMA StraysGrow ==
    ASSUME Good, Next, strays \subseteq JunkPorts
    PROVE  strays \subseteq strays' /\ strays' \subseteq JunkPorts
  <1>1. PICK p \in Peers : ClientStep(p) \/ ServerStep(p) \/ User(p) \/ Crash(p) \/ Smash(p)
    BY DEF Next
  <1>2. CASE ClientEof(p)
    <2>1. ASSUME NEW n \in 1..MaxJunk, NEW es \in [1..n -> Junk], ReadsJunk(es)
          PROVE  strays \subseteq strays' /\ strays' \subseteq JunkPorts
      BY <2>1 DEF ReadsJunk, JunkPorts
    <2> QED BY <1>2, <2>1 DEF ClientEof
  <1>3. CASE RegRespond(p)
    <2>1. ASSUME NEW m, NEW n, NEW es \in [m..n -> Junk], ReadsJunk(es)
          PROVE  strays \subseteq strays' /\ strays' \subseteq JunkPorts
      BY <2>1 DEF ReadsJunk, JunkPorts
    <2> QED BY <1>3, <2>1 DEF RegRespond
  <1>4. CASE ~ClientEof(p) /\ ~RegRespond(p)
    <2>1. strays' = strays
      BY <1>1, <1>4 DEF ClientStep, ServerStep, User, Crash, Smash, Dies, ClientWrite, ClientReply,
         ClientAdd, ClientDone, ClientQuit, ClientConnect, ServerReadEof, ServerReadErr, RegCheck,
         RegAlloc, RegFill, RegAdd, InformOne, InformDone, HandleInform
    <2> QED BY <2>1
  <1> QED BY <1>2, <1>3, <1>4

LEMMA PortsStep == Good /\ PortsInv /\ [Next]_vars => PortsInv'
  <1> SUFFICES ASSUME Good, PortsInv, [Next]_vars PROVE PortsInv'
    OBVIOUS
  <1>1. CASE Next
    <2>1. PICK p \in Peers : ClientStep(p) \/ ServerStep(p) \/ User(p) \/ Crash(p) \/ Smash(p)
      BY <1>1 DEF Next
    <2>2. strays \subseteq strays' /\ strays' \subseteq JunkPorts
      BY <1>1, StraysGrow DEF PortsInv
    <2>3. PICK K : K = {Port[q] : q \in Peers} \cup strays'
      OBVIOUS
    <2>4. PortSet(K) /\ strays' \subseteq K
      <3>1. JunkPorts \subseteq Words
        BY NetworkAssumption, SMT DEF JunkPorts, Words
      <3> QED BY <2>2, <2>3, <3>1, PortWords DEF PortSet
    <2>5. PortsIn(K)
      <3>1. KnownPorts \subseteq K
        BY <2>2, <2>3 DEF KnownPorts
      <3> QED BY <3>1, MorePorts DEF PortsInv
    <2>6. PortsIn(K)'
      <3>1. ServerStep(p) => PortsIn(K)'
        BY <2>4, <2>5, RegisterPorts, InformPorts DEF ServerStep
      <3>2. Crash(p) \/ Smash(p) => PortsIn(K)'
        BY <2>4, <2>5, DiesPorts DEF Crash, Smash
      <3> QED BY <2>1, <2>4, <2>5, <3>1, <3>2, ClientPorts, UserPorts
    <2>7. K = KnownPorts'
      BY <2>3 DEF KnownPorts
    <2> QED BY <2>2, <2>6, <2>7 DEF PortsInv, PortsIn, ListPorts, BacklogPorts, AtPorts, Truthful
  <1>2. CASE UNCHANGED vars
    BY <1>2 DEF vars, clientVars, serverVars, PortsInv, KnownPorts, PortsIn, ListPorts,
                BacklogPorts, RequestPorts, AtPorts, Truthful
  <1> QED BY <1>1, <1>2

\* Every port in a table is the port of a peer, or was read from bytes that
\* nothing had been put in: whichever way an address came into the table,
\* htobe32 and be32toh were applied equally often.
THEOREM TablePortsValid == Spec => []PortsValid
  <1>1. Init => Good /\ PortsInv
    BY InitGood, PortsInit
  <1>2. Good /\ PortsInv /\ [Next]_vars => (Good /\ PortsInv)'
    BY NextGood, PortsStep
  <1>3. PortsInv => PortsValid
    BY DEF PortsInv, PortsIn, ListPorts, AtPorts, PortsValid, KnownPorts
  <1> QED BY <1>1, <1>2, <1>3, PTL DEF Spec

-----------------------------------------------------------------------------
(* Who knows whom.  A peer that runs has one registration under way at     *)
(* most: in the backlog of the peer it talks to, in hand there, or         *)
(* answered and not read yet.  An OK starts with the address of the server *)
(* and comes when the server is about to add the client.                   *)

Outstanding(c, p) == c.from = p /\ c.cmd \in {"pending", "REGISTER"}
Has(b, p) == \E i \in 1..Len(b) : Outstanding(b[i], p)
AtMostOne(b, p) ==
    \A i, j \in 1..Len(b) : Outstanding(b[i], p) /\ Outstanding(b[j], p) => i = j

Waiting(p, q) == cl[p] \in {"write", "wait"} /\ to[p] = q /\ reply[p] = None
InHand(p, q) == sv[q] \in {"alloc", "fill", "respond"} /\ req[q].from = p
Requests(p, q) ==
    /\ AtMostOne(backlog[q], p)
    /\ Has(backlog[q], p) => Waiting(p, q) /\ ~InHand(p, q)
    /\ InHand(p, q) => Waiting(p, q)

KnownTo(p, q) ==
    \/ Places(network[q], Entry(p)) # {}
    \/ sv[q] = "add" /\ req[q].from = p
    \/ q \notin alive
StartsWith(s, e) == s # << >> /\ s[1] = e
KnowsServer(p, q) ==
    \/ Places(network[p], Entry(q)) # {}
    \/ cl[p] = "add" /\ StartsWith(todo[p], Entry(q))
    \/ p \notin alive

OneRequest == \A p \in alive, q \in Peers : Requests(p, q)
Idle ==
    \A p \in Peers : /\ p \in alive /\ cl[p] \notin {"write", "wait"} => reply[p] = None
                     /\ p \notin alive => cl[p] = "quit"
Listed == \A q \in Peers : sv[q] = "respond" => StartsWith(data[q], Entry(q))
Answered ==
    \A p \in alive : reply[p].status = "OK" =>
      KnownTo(p, to[p]) /\ StartsWith(reply[p].entries, Entry(to[p]))
JoinedKnown == \A p, q \in Peers : <<p, q>> \in joined => KnownTo(p, q) /\ KnowsServer(p, q)
JoinInv == OneRequest /\ Idle /\ Listed /\ Answered /\ JoinedKnown

\* Addresses in a table stay there.
LEMMA PlacesStay ==
    ASSUME Good, Good', TablesExtend, NEW q \in Peers, NEW e, Places(network[q], e) # {}
    PROVE  Places(network'[q], e) # {}
  <1>1. PICK i \in 1..Len(network[q]) : SameAddr(network[q][i], e)
    BY DEF Places
  <1>2. network[q] \in Seq(Entries) /\ network'[q] \in Seq(Entries)
    BY DEF Good, TablesOK
  <1>3. Extends(network[q], network'[q])
    BY DEF TablesExtend
  <1>4. i \in 1..Len(network'[q]) /\ SameAddr(network[q][i], network'[q][i])
    BY <1>2, <1>3 DEF Extends
  <1>5. SameAddr(network'[q][i], e)
    BY <1>1, <1>4 DEF SameAddr
  <1> QED BY <1>4, <1>5 DEF Places

\* The address that is added is there, whatever its signature.
LEMMA PlacesAdded ==
    ASSUME Good, NEW p \in Peers, NEW e \in Entries, Adds(p, e), NEW f, SameAddr(e, f)
    PROVE  Places(network'[p], f) # {}
  <1>1. Places(AddPeer(network[p], e), e) # {}
    BY AddPeerAdds DEF Good, TablesOK
  <1>2. network'[p] = AddPeer(network[p], e)
    BY DEF Adds, Good, TablesOK
  <1>3. \A g : SameAddr(g, e) => SameAddr(g, f)
    BY DEF SameAddr
  <1> HIDE DEF Adds
  <1> QED BY <1>1, <1>2, <1>3 DEF Places

LEMMA AliveShrinks ==
    ASSUME Next
    PROVE  alive' \subseteq alive
  BY DEF Next, ClientStep, ServerStep, User, ClientWrite, ClientReply, ClientEof, ClientAdd,
         ClientDone, ServerReadEof, ServerReadErr, RegCheck, RegAlloc, RegFill, RegRespond, RegAdd, InformOne,
         InformDone, HandleInform, ClientQuit, ClientConnect, Crash, Smash, Dies

\* What a server that is about to add a client does next, unless it dies.
LEMMA AddComes ==
    ASSUME Good, PortsInv, Next, NEW q \in Peers, sv[q] = "add", q \in alive'
    PROVE  \/ sv'[q] = "add" /\ req'[q] = req[q]
           \/ Places(network'[q], Entry(req[q].from)) # {}
  <1> USE DEF Good
  <1>1. PICK p \in Peers : ClientStep(p) \/ ServerStep(p) \/ User(p) \/ Crash(p) \/ Smash(p)
    BY DEF Next
  <1>2. CASE ClientStep(p) \/ User(p)
    BY <1>2 DEF ClientStep, User, ClientWrite, ClientReply, ClientEof, ClientAdd, ClientDone,
                ClientQuit, ClientConnect, serverVars
  <1>3. CASE RegAdd(p)
    <2>1. CASE p = q
      <3>1. req[q] \in Registers /\ Genuine(req[q])
        BY DEF RequestsOK, PortsInv, PortsIn, RequestPorts
      <3>2. Adds(q, Sender(req[q])) /\ Sender(req[q]) \in Entries
        BY <1>3, <2>1, <3>1, SenderType DEF RegAdd, Adds
      <3>3. SameAddr(Sender(req[q]), Entry(req[q].from))
        BY <3>1, GenuineSender
      <3> QED BY <3>2, <3>3, PlacesAdded
    <2>2. CASE p # q
      BY <1>3, <2>2 DEF RegAdd, Goto, ThreadsOK
    <2> QED BY <2>1, <2>2
  <1>4. CASE Dies(p)
    BY <1>4 DEF Dies, ThreadsOK, RequestsOK
  <1>5. CASE ServerReadEof(p) \/ RegCheck(p) \/ RegAlloc(p) \/ RegFill(p) \/ RegRespond(p)
    BY <1>5 DEF ServerReadEof, ServerReadErr, RegCheck, RegAlloc, RegFill, RegRespond, Goto, Serving, Accepts,
                ThreadsOK, RequestsOK
  <1>6. CASE ServerReadErr(p) \/ InformOne(p) \/ InformDone(p) \/ HandleInform(p)
    BY <1>6 DEF ServerReadErr, InformOne, InformDone, HandleInform, Goto, Serving, Accepts, ThreadsOK, RequestsOK,
                serverVars
  <1> QED BY <1>1, <1>2, <1>3, <1>4, <1>5, <1>6 DEF ServerStep, Crash, Smash

LEMMA KnownStays ==
    ASSUME Good, Good', PortsInv, Next, TablesExtend,
           NEW p \in Peers, NEW q \in Peers, KnownTo(p, q)
    PROVE  KnownTo(p, q)'
  <1>1. CASE Places(network[q], Entry(p)) # {}
    BY <1>1, PlacesStay DEF KnownTo
  <1>2. CASE q \notin alive'
    BY <1>2 DEF KnownTo
  <1>3. CASE sv[q] = "add" /\ req[q].from = p /\ q \in alive'
    BY <1>3, AddComes DEF KnownTo
  <1> QED BY <1>1, <1>2, <1>3, AliveShrinks DEF KnownTo

\* A client that has joined does not lose the server's address: it is in the
\* table or first among the entries still to add.
LEMMA ServerStays ==
    ASSUME Good, Good', Next, TablesExtend, Idle,
           NEW p \in Peers, NEW q \in Peers, KnowsServer(p, q)
    PROVE  KnowsServer(p, q)'
  <1> USE DEF Good
  <1>1. CASE Places(network[p], Entry(q)) # {}
    BY <1>1, PlacesStay DEF KnowsServer
  <1>2. CASE p \notin alive
    BY <1>2, AliveShrinks DEF KnowsServer
  <1>3. CASE cl[p] = "add" /\ StartsWith(todo[p], Entry(q)) /\ p \in alive
    <2>1. PICK r \in Peers : ClientStep(r) \/ ServerStep(r) \/ User(r) \/ Crash(r) \/ Smash(r)
      BY DEF Next
    <2>2. CASE ClientStep(r) /\ r = p
      <3>1. ClientAdd(p)
        BY <1>3, <2>2 DEF ClientStep, ClientWrite, ClientReply, ClientEof, ClientAdd, ClientDone,
                          StartsWith
      <3>2. todo[p] \in Seq(Entries) /\ todo[p] # << >> /\ Head(todo[p]) = Entry(q)
        BY <1>3 DEF ListsOK, StartsWith
      <3>3. Entry(q) \in Entries /\ Adds(p, Entry(q)) /\ SameAddr(Entry(q), Entry(q))
        BY <3>1, <3>2, EntryTypes DEF ClientAdd, Adds, SameAddr
      <3> QED BY <3>3, PlacesAdded DEF KnowsServer
    <2>3. CASE ClientStep(r) /\ r # p
      <3>0. /\ cl' = cl \/ \E v : cl' = [cl EXCEPT ![r] = v]
            /\ todo' = todo \/ \E v : todo' = [todo EXCEPT ![r] = v]
        <4>1. CASE ClientWrite(r) \/ ClientDone(r)
          BY <4>1 DEF ClientWrite, ClientDone
        <4>2. CASE ClientReply(r)
          BY <4>2 DEF ClientReply
        <4>3. CASE ClientEof(r)
          BY <4>3 DEF ClientEof
        <4>4. CASE ClientAdd(r)
          BY <4>4 DEF ClientAdd
        <4> QED BY <2>3, <4>1, <4>2, <4>3, <4>4 DEF ClientStep
      <3>1. cl'[p] = cl[p] /\ todo'[p] = todo[p]
        BY <2>3, <3>0 DEF ThreadsOK, ListsOK
      <3> QED BY <1>3, <3>1 DEF KnowsServer
    <2>4. CASE User(r)
      <3>1. cl'[p] = cl[p] /\ todo'[p] = todo[p]
        <4>1. CASE ClientQuit(r)
          BY <1>3, <4>1 DEF ClientQuit, ThreadsOK
        <4>2. CASE \E s \in Peers : ClientConnect(r, s)
          <5>1. todo' = todo /\ cl[r] = "menu" /\ (cl' = cl \/ cl' = [cl EXCEPT ![r] = "write"])
            BY <4>2 DEF ClientConnect
          <5> QED BY <1>3, <5>1 DEF ThreadsOK
        <4> QED BY <2>4, <4>1, <4>2 DEF User
      <3> QED BY <1>3, <3>1 DEF KnowsServer
    <2>5. CASE ServerStep(r)
      <3>1. cl' = cl /\ todo' = todo
        BY <2>5 DEF ServerStep, ServerReadEof, ServerReadErr, RegCheck, RegAlloc, RegFill, RegRespond, RegAdd,
                    InformOne, InformDone, HandleInform, clientVars
      <3> QED BY <1>3, <3>1 DEF KnowsServer
    <2>6. CASE Dies(r)
      BY <1>3, <2>6 DEF Dies, KnowsServer, ThreadsOK, ListsOK
    <2> QED BY <2>1, <2>2, <2>3, <2>4, <2>5, <2>6 DEF Crash, Smash
  <1> QED BY <1>1, <1>2, <1>3 DEF KnowsServer

LEMMA ListedStep ==
    ASSUME Good, Next, Listed
    PROVE  Listed'
  <1> USE DEF Good
  <1>1. PICK p \in Peers : ClientStep(p) \/ ServerStep(p) \/ User(p) \/ Crash(p) \/ Smash(p)
    BY DEF Next
  <1>2. CASE ClientStep(p) \/ User(p)
    <2>1. sv' = sv /\ data' = data
      BY <1>2 DEF ClientStep, User, ClientWrite, ClientReply, ClientEof, ClientAdd, ClientDone,
                  ClientQuit, ClientConnect, serverVars
    <2> QED BY <2>1 DEF Listed
  <1>3. CASE RegFill(p)
    <2>1. StartsWith(Listing(p), Entry(p))
      <3> DEFINE n == Len(network[p])
                 rest == [i \in 1..n |->
                             [ip |-> network[p][i].ip, port |-> network[p][n].port, sig |-> p]]
      <3>1. n \in Nat
        BY DEF TablesOK
      <3>2. rest \in Seq({rest[i] : i \in 1..n})
        <4>1. rest = [i \in 1..n |-> rest[i]]
          OBVIOUS
        <4> HIDE DEF rest, n
        <4> DEFINE S == {rest[i] : i \in 1..n}
        <4>2. rest \in [1..n -> S]
          BY <4>1
        <4> HIDE DEF S
        <4>3. rest \in Seq(S)
          BY <3>1, <4>2
        <4> QED BY <4>3 DEF S
      <3> HIDE DEF rest, n
      <3>3. Listing(p) = << Entry(p) >> \o rest
        BY DEF Listing, rest, n
      <3>4. Len(<< Entry(p) >> \o rest) >= 1 /\ (<< Entry(p) >> \o rest)[1] = Entry(p)
        BY <3>2
      <3> QED BY <3>3, <3>4 DEF StartsWith
    <2>2. data' = [data EXCEPT ![p] = Listing(p)] /\ sv' = [sv EXCEPT ![p] = "respond"]
      BY <1>3 DEF RegFill, Goto
    <2> QED BY <2>1, <2>2 DEF Listed, ListsOK, ThreadsOK
  <1>4. CASE Dies(p)
    BY <1>4 DEF Dies, Listed, ThreadsOK, ListsOK
  <1>5. CASE ServerReadEof(p) \/ RegCheck(p) \/ RegAlloc(p) \/ RegRespond(p) \/ RegAdd(p)
    BY <1>5 DEF ServerReadEof, ServerReadErr, RegCheck, RegAlloc, RegAdd, RegRespond, Goto, Listed, ThreadsOK, ListsOK
  <1>6. CASE ServerReadErr(p) \/ InformOne(p) \/ InformDone(p) \/ HandleInform(p)
    BY <1>6 DEF ServerReadErr, InformOne, InformDone, HandleInform, Goto, Listed, ThreadsOK, ListsOK, serverVars
  <1> QED BY <1>1, <1>2, <1>3, <1>4, <1>5, <1>6 DEF ServerStep, Crash, Smash

\* Whom the server answers: the peer whose REGISTER it takes from the backlog,
\* or has in hand.
LEMMA Asker ==
    ASSUME Good, OneRequest, NEW q \in Peers, NEW r
    PROVE  /\ RegCheck(q) /\ r = Request(q).from /\ r \in alive =>
                /\ r \in Peers /\ Has(backlog[q], r) /\ Waiting(r, q)
                /\ ~Has(Tail(backlog[q]), r) /\ AtMostOne(Tail(backlog[q]), r)
           /\ RegRespond(q) /\ r = req[q].from /\ r \in alive =>
                r \in Peers /\ InHand(r, q) /\ Waiting(r, q)
  <1> USE DEF Good
  <1>1. ASSUME RegCheck(q), r = Request(q).from, r \in alive
        PROVE  /\ r \in Peers /\ Has(backlog[q], r) /\ Waiting(r, q)
               /\ ~Has(Tail(backlog[q]), r) /\ AtMostOne(Tail(backlog[q]), r)
    <2>1. backlog[q] # << >> /\ Request(q).cmd = "REGISTER" /\ backlog[q] \in Seq(Connections)
      BY <1>1 DEF RegCheck, Accepts, BacklogOK
    <2>2. r \in Peers
      BY <1>1 DEF ThreadsOK
    <2>3. 1 \in 1..Len(backlog[q]) /\ Outstanding(backlog[q][1], r)
      BY <1>1, <2>1 DEF Outstanding, Request
    <2>4. Has(backlog[q], r)
      BY <2>3 DEF Has
    <2>5. Requests(r, q)
      BY <1>1 DEF OneRequest
    <2>6. \A i \in 1..Len(Tail(backlog[q])) :
            i + 1 \in 1..Len(backlog[q]) /\ i + 1 # 1 /\ Tail(backlog[q])[i] = backlog[q][i + 1]
      BY <2>1
    <2>7. ~Has(Tail(backlog[q]), r)
      BY <2>3, <2>5, <2>6 DEF Requests, Has, AtMostOne
    <2> QED BY <2>2, <2>4, <2>5, <2>7 DEF Requests, AtMostOne, Has
  <1>2. ASSUME RegRespond(q), r = req[q].from, r \in alive
        PROVE  r \in Peers /\ InHand(r, q) /\ Waiting(r, q)
    BY <1>2 DEF RegRespond, Serving, InHand, OneRequest, Requests, ThreadsOK
  <1> QED BY <1>1, <1>2

LEMMA IdleStep ==
    ASSUME Good, Next, Idle, OneRequest
    PROVE  Idle'
  <1> USE DEF Good
  <1>1. PICK p \in Peers : ClientStep(p) \/ ServerStep(p) \/ User(p) \/ Crash(p) \/ Smash(p)
    BY DEF Next
  <1>2. CASE ClientStep(p) \/ User(p)
    BY <1>2 DEF ClientStep, User, ClientWrite, ClientReply, ClientEof, ClientAdd, ClientDone,
                ClientQuit, ClientConnect, Idle, ThreadsOK, ListsOK
  <1>3. CASE Dies(p)
    BY <1>3 DEF Dies, Idle, ThreadsOK, ListsOK
  <1>4. CASE RegCheck(p) \/ RegRespond(p)
    <2>1. cl' = cl /\ alive' = alive
      BY <1>4 DEF RegCheck, RegRespond
    <2>2. \/ reply' = reply
          \/ \E r \in alive : \E msg : reply' = [reply EXCEPT ![r] = msg] /\ Waiting(r, p)
      BY <1>4, Asker DEF RegCheck, RegRespond, Answer
    <2> QED BY <2>1, <2>2 DEF Idle, Waiting, ListsOK, ThreadsOK
  <1>5. CASE \/ ServerReadEof(p) \/ ServerReadErr(p) \/ RegAlloc(p) \/ RegFill(p) \/ RegAdd(p)
             \/ InformOne(p) \/ InformDone(p) \/ HandleInform(p)
    <2>1. cl' = cl /\ alive' = alive /\ reply' = reply
      BY <1>5 DEF ServerReadEof, ServerReadErr, RegAlloc, RegFill, RegAdd, InformOne, InformDone, HandleInform,
                  clientVars
    <2> QED BY <2>1 DEF Idle
  <1> QED BY <1>1, <1>2, <1>3, <1>4, <1>5 DEF ServerStep, Crash, Smash

\* What a change of a backlog may do to the requests of a peer when it brings
\* no new one: drop them.
Drops(b, c, r) == (AtMostOne(b, r) => AtMostOne(c, r)) /\ (Has(c, r) => Has(b, r))

LEMMA DropsTail ==
    ASSUME NEW b \in Seq(Connections), b # << >>, NEW r
    PROVE  Drops(b, Tail(b), r)
  <1>1. \A i \in 1..Len(Tail(b)) : i + 1 \in 1..Len(b) /\ Tail(b)[i] = b[i + 1]
    OBVIOUS
  <1>2. Has(Tail(b), r) => Has(b, r)
    BY <1>1 DEF Has
  <1>3. AtMostOne(b, r) => AtMostOne(Tail(b), r)
    <2> SUFFICES ASSUME AtMostOne(b, r), NEW i \in 1..Len(Tail(b)), NEW j \in 1..Len(Tail(b)),
                        Outstanding(Tail(b)[i], r), Outstanding(Tail(b)[j], r)
                 PROVE  i = j
      BY DEF AtMostOne
    <2>1. Outstanding(b[i + 1], r) /\ Outstanding(b[j + 1], r)
      BY <1>1
    <2>2. i + 1 = j + 1
      BY <1>1, <2>1 DEF AtMostOne
    <2> QED BY <2>2
  <1> QED BY <1>2, <1>3 DEF Drops

LEMMA DropsMap ==
    ASSUME NEW b, NEW c, NEW r, Len(c) = Len(b),
           \A i \in 1..Len(b) : Outstanding(c[i], r) => Outstanding(b[i], r)
    PROVE  Drops(b, c, r)
  BY DEF Drops, Has, AtMostOne

LEMMA AppendPlaces ==
    ASSUME NEW b \in Seq(Connections), NEW c \in Connections, NEW new, new = Append(b, c)
    PROVE  \A i \in 1..Len(new) : (i \in 1..Len(b) /\ new[i] = b[i]) \/ (i = Len(new) /\ new[i] = c)
  <1>1. Len(new) = Len(b) + 1 /\ Len(b) \in Nat
    OBVIOUS
  <1>2. \A i \in 1..Len(b) : new[i] = b[i]
    OBVIOUS
  <1>3. new[Len(new)] = c
    OBVIOUS
  <1>4. \A i \in 1..Len(new) : i \in 1..Len(b) \/ i = Len(new)
    BY <1>1
  <1> SUFFICES ASSUME NEW i \in 1..Len(new)
               PROVE  (i \in 1..Len(b) /\ new[i] = b[i]) \/ (i = Len(new) /\ new[i] = c)
    OBVIOUS
  <1>5. CASE i \in 1..Len(b)
    BY <1>2, <1>5
  <1>6. CASE i = Len(new)
    BY <1>3, <1>6
  <1> QED BY <1>4, <1>5, <1>6

LEMMA DropsAppend ==
    ASSUME NEW b \in Seq(Connections), NEW c \in Connections, NEW new, new = Append(b, c),
           NEW r, ~Outstanding(c, r)
    PROVE  Drops(b, new, r)
  <1>1. \A i \in 1..Len(new) : (i \in 1..Len(b) /\ new[i] = b[i]) \/ (i = Len(new) /\ new[i] = c)
    BY AppendPlaces
  <1>2. \A i \in 1..Len(new) : Outstanding(new[i], r) => i \in 1..Len(b) /\ new[i] = b[i]
    BY <1>1
  <1> QED BY <1>2 DEF Drops, Has, AtMostOne

LEMMA FirstRequest ==
    ASSUME NEW b \in Seq(Connections), NEW c \in Connections, NEW new, new = Append(b, c),
           NEW r, ~Has(b, r)
    PROVE  AtMostOne(new, r)
  <1>1. \A i \in 1..Len(new) : (i \in 1..Len(b) /\ new[i] = b[i]) \/ (i = Len(new) /\ new[i] = c)
    BY AppendPlaces
  <1>2. \A i \in 1..Len(new) : Outstanding(new[i], r) => i = Len(new)
    BY <1>1 DEF Has
  <1> QED BY <1>2 DEF AtMostOne

LEMMA RequestsFrame ==
    ASSUME OneRequest, alive' \subseteq alive,
           \A r \in alive', q \in Peers :
             /\ Drops(backlog[q], backlog'[q], r)
             /\ InHand(r, q)' => InHand(r, q)
             /\ Waiting(r, q) /\ (Has(backlog'[q], r) \/ InHand(r, q)') => Waiting(r, q)'
    PROVE  OneRequest'
  <1> SUFFICES ASSUME NEW r \in alive', NEW q \in Peers PROVE Requests(r, q)'
    BY DEF OneRequest
  <1>1. /\ Requests(r, q) /\ Drops(backlog[q], backlog'[q], r)
        /\ InHand(r, q)' => InHand(r, q)
        /\ Waiting(r, q) /\ (Has(backlog'[q], r) \/ InHand(r, q)') => Waiting(r, q)'
    BY DEF OneRequest
  <1> QED BY <1>1 DEF Requests, Drops

LEMMA SameBacklog == \A b, r : Drops(b, b, r)
  BY DEF Drops

\* A step that takes the first connection.
LEMMA TailDrops ==
    ASSUME BacklogOK, NEW p \in Peers, backlog[p] # << >>,
           backlog' = [backlog EXCEPT ![p] = Tail(@)], NEW r, NEW q \in Peers
    PROVE  Drops(backlog[q], backlog'[q], r)
  <1>1. backlog[p] \in Seq(Connections) /\ Drops(backlog[p], Tail(backlog[p]), r)
    BY DropsTail DEF BacklogOK
  <1>2. backlog'[q] = IF q = p THEN Tail(backlog[p]) ELSE backlog[q]
    BY DEF BacklogOK
  <1> QED BY <1>1, <1>2, SameBacklog

LEMMA ClientRequests ==
    ASSUME Good, OneRequest, Idle, NEW p \in Peers, ClientStep(p) \/ User(p)
    PROVE  OneRequest'
  <1> USE DEF Good
  <1>0. alive' = alive /\ sv' = sv /\ req' = req /\ alive \subseteq Peers
    BY DEF ClientStep, User, ClientWrite, ClientReply, ClientEof, ClientAdd, ClientDone, ClientQuit,
           ClientConnect, serverVars, ThreadsOK
  <1>h. \A r \in alive', q \in Peers : InHand(r, q)' <=> InHand(r, q)
    BY <1>0 DEF InHand
  <1>1. CASE ClientWrite(p)
    <2> DEFINE s == to[p]
               hdr == [from |-> p, cmd |-> "REGISTER", ip |-> Ip[p], port |-> be32(Port[p]),
                       sig |-> p, length |-> be32(0)]
               new(b) == [i \in DOMAIN b |-> IF IsPending(b[i], p) THEN hdr ELSE b[i]]
    <2>1. backlog' = [backlog EXCEPT ![s] = new(@)]
      BY <1>1 DEF ClientWrite
    <2>2. hdr.from = p
      OBVIOUS
    <2> HIDE DEF hdr
    <2>3. \A q \in Peers : backlog'[q] = IF q = s THEN new(backlog[q]) ELSE backlog[q]
      BY <2>1 DEF BacklogOK
    <2>4. \A q \in Peers : /\ Len(new(backlog[q])) = Len(backlog[q])
                           /\ \A i \in 1..Len(backlog[q]) :
                                new(backlog[q])[i] = IF IsPending(backlog[q][i], p) THEN hdr
                                                                                   ELSE backlog[q][i]
      BY DEF BacklogOK
    <2> HIDE DEF new, s
    <2>5. \A r \in alive', q \in Peers : Drops(backlog[q], backlog'[q], r)
      <3> SUFFICES ASSUME NEW r, NEW q \in Peers PROVE Drops(backlog[q], backlog'[q], r)
        OBVIOUS
      <3>1. \A i \in 1..Len(backlog[q]) :
              Outstanding(new(backlog[q])[i], r) => Outstanding(backlog[q][i], r)
        BY <2>2, <2>4 DEF Outstanding, IsPending
      <3>2. Drops(backlog[q], new(backlog[q]), r)
        BY <2>4, <3>1, DropsMap
      <3> QED BY <2>3, <3>2, SameBacklog
    <2>6. to' = to /\ reply' = reply /\ cl[p] = "write" /\ cl' = [cl EXCEPT ![p] = "wait"]
      BY <1>1 DEF ClientWrite
    <2>7. \A r \in alive', q \in Peers : Waiting(r, q) => Waiting(r, q)'
      BY <1>0, <2>6 DEF Waiting, ThreadsOK
    <2> QED BY <1>0, <1>h, <2>5, <2>7, RequestsFrame
  <1>2. CASE ClientReply(p) \/ ClientEof(p)
    <2>1. /\ reply[p] # None /\ reply' = [reply EXCEPT ![p] = None]
          /\ backlog' = backlog
          /\ \E v : cl' = [cl EXCEPT ![p] = v]
          /\ to' = to \/ to' = [to EXCEPT ![p] = Nobody]
      BY <1>2 DEF ClientReply, ClientEof, None, Eof
    <2>2. \A r \in alive', q \in Peers : Waiting(r, q) => Waiting(r, q)'
      BY <1>0, <2>1 DEF Waiting, ThreadsOK, ListsOK
    <2> QED BY <1>0, <1>h, <2>1, <2>2, RequestsFrame, SameBacklog
  <1>3. CASE ClientAdd(p)
    <2>1. cl' = cl /\ to' = to /\ reply' = reply /\ backlog' = backlog
      BY <1>3 DEF ClientAdd
    <2>2. \A r \in alive', q \in Peers : Waiting(r, q) => Waiting(r, q)'
      BY <2>1 DEF Waiting
    <2> QED BY <1>0, <1>h, <2>1, <2>2, RequestsFrame, SameBacklog
  <1>4. CASE ClientDone(p) \/ ClientQuit(p)
    <2>1. /\ cl[p] \in {"add", "menu"} /\ reply' = reply /\ backlog' = backlog
          /\ \E v : cl' = [cl EXCEPT ![p] = v]
          /\ to' = to \/ to' = [to EXCEPT ![p] = Nobody]
      BY <1>4 DEF ClientDone, ClientQuit
    <2>2. \A r \in alive', q \in Peers : Waiting(r, q) => Waiting(r, q)'
      BY <1>0, <2>1 DEF Waiting, ThreadsOK
    <2> QED BY <1>0, <1>h, <2>1, <2>2, RequestsFrame, SameBacklog
  <1>5. ASSUME NEW s \in Peers, ClientConnect(p, s) PROVE OneRequest'
    <2>1. CASE s \notin alive
      <3>1. cl' = cl /\ to' = to /\ reply' = reply /\ backlog' = backlog
        BY <1>5, <2>1 DEF ClientConnect
      <3>2. \A r \in alive', q \in Peers : Waiting(r, q) => Waiting(r, q)'
        BY <3>1 DEF Waiting
      <3> QED BY <1>0, <1>h, <3>1, <3>2, RequestsFrame, SameBacklog
    <2>2. CASE s \in alive
      <3>1. /\ cl[p] = "menu" /\ p \in alive /\ reply' = reply
            /\ backlog' = [backlog EXCEPT ![s] = Append(backlog[s], Pending(p))]
            /\ cl' = [cl EXCEPT ![p] = "write"] /\ to' = [to EXCEPT ![p] = s]
        BY <1>5, <2>2 DEF ClientConnect
      <3>2. \A q \in Peers : ~Waiting(p, q) /\ ~Has(backlog[q], p) /\ ~InHand(p, q)
        BY <3>1 DEF OneRequest, Requests, Waiting
      <3>3. Waiting(p, s)'
        BY <3>1 DEF Waiting, Idle, ThreadsOK
      <3>4. backlog[s] \in Seq(Connections) /\ Pending(p) \in Connections
        BY DEF BacklogOK, Pending, Connections
      <3>5. \A q \in Peers : backlog'[q] = IF q = s THEN Append(backlog[s], Pending(p)) ELSE backlog[q]
        BY <3>1 DEF BacklogOK
      <3> SUFFICES ASSUME NEW r \in alive', NEW q \in Peers PROVE Requests(r, q)'
        BY DEF OneRequest
      <3>6. CASE r = p
        <4>1. AtMostOne(backlog'[q], p)
          BY <3>2, <3>4, <3>5, FirstRequest DEF AtMostOne, Has
        <4>2. Has(backlog'[q], p) => q = s
          BY <3>2, <3>5
        <4> QED BY <1>h, <3>2, <3>3, <3>6, <4>1, <4>2 DEF Requests
      <3>7. CASE r # p
        <4>1. Drops(backlog[q], backlog'[q], r)
          <5>1. ~Outstanding(Pending(p), r)
            BY <3>7 DEF Outstanding, Pending
          <5>2. Drops(backlog[s], Append(backlog[s], Pending(p)), r)
            BY <3>4, <5>1, DropsAppend
          <5> QED BY <3>5, <5>2, SameBacklog
        <4>2. Waiting(r, q)' <=> Waiting(r, q)
          BY <1>0, <3>1, <3>7 DEF Waiting, ThreadsOK
        <4>3. Requests(r, q)
          BY <1>0 DEF OneRequest
        <4> QED BY <1>h, <4>1, <4>2, <4>3 DEF Requests, Drops
      <3> QED BY <3>6, <3>7
    <2> QED BY <2>1, <2>2
  <1> QED BY <1>1, <1>2, <1>3, <1>4, <1>5 DEF ClientStep, User

LEMMA DiesRequests ==
    ASSUME Good, OneRequest, NEW p \in Peers, Dies(p)
    PROVE  OneRequest'
  <1> USE DEF Good
  <1>1. alive' = alive \ {p} /\ alive \subseteq Peers
    BY DEF Dies, ThreadsOK
  <1>2. \A r \in alive', q \in Peers : InHand(r, q)' => q # p /\ InHand(r, q)
    BY DEF Dies, InHand, ThreadsOK, RequestsOK
  <1> PICK how \in {"closed", "reset"} :
             backlog' = [q \in Peers |->
               IF q = p THEN << >>
               ELSE [i \in DOMAIN backlog[q] |-> IF IsPending(backlog[q][i], p)
                                                 THEN Broken(p, how)
                                                 ELSE backlog[q][i]]]
    BY DEF Dies
  <1>3. /\ Len(backlog'[p]) = 0
        /\ \A q \in Peers : q # p =>
             /\ Len(backlog'[q]) = Len(backlog[q])
             /\ \A i \in 1..Len(backlog[q]) :
                  backlog'[q][i] = IF IsPending(backlog[q][i], p) THEN Broken(p, how)
                                                                 ELSE backlog[q][i]
    <2> DEFINE f(c) == IF IsPending(c, p) THEN Broken(p, how) ELSE c
    <2>1. backlog' = [q \in Peers |-> IF q = p THEN << >>
                                       ELSE [i \in DOMAIN backlog[q] |-> f(backlog[q][i])]]
      OBVIOUS
    <2> HIDE DEF f
    <2>2. \A q \in Peers : q # p =>
            /\ Len(backlog'[q]) = Len(backlog[q])
            /\ \A i \in 1..Len(backlog[q]) : backlog'[q][i] = f(backlog[q][i])
      BY <2>1 DEF BacklogOK
    <2>3. Len(backlog'[p]) = 0
      BY <2>1
    <2> QED BY <2>2, <2>3 DEF f
  <1>4. \A r \in alive', q \in Peers :
          Drops(backlog[q], backlog'[q], r) /\ (Has(backlog'[q], r) => q # p)
    <2> SUFFICES ASSUME NEW r \in alive', NEW q \in Peers
                 PROVE  Drops(backlog[q], backlog'[q], r) /\ (Has(backlog'[q], r) => q # p)
      OBVIOUS
    <2>1. CASE q = p
      BY <1>3, <2>1 DEF Drops, Has, AtMostOne
    <2>2. CASE q # p
      <3>1. \A i \in 1..Len(backlog[q]) :
              Outstanding(backlog'[q][i], r) => Outstanding(backlog[q][i], r)
        BY <1>3, <2>2 DEF Outstanding, Broken
      <3> QED BY <1>3, <2>2, <3>1, DropsMap
    <2> QED BY <2>1, <2>2
  <1>5. \A r \in alive', q \in Peers : q # p /\ Waiting(r, q) => Waiting(r, q)'
    BY <1>1 DEF Dies, Waiting, ThreadsOK, ListsOK
  <1> QED BY <1>1, <1>2, <1>4, <1>5, RequestsFrame

\* A peer waits for one peer at a time.
LEMMA WaitsForOne ==
    ASSUME OneRequest, NEW r \in alive, NEW p \in Peers, NEW q \in Peers, q # p, Waiting(r, p)
    PROVE  ~Has(backlog[q], r) /\ ~InHand(r, q)
  BY DEF OneRequest, Requests, Waiting

LEMMA ServerRequests ==
    ASSUME Good, OneRequest, NEW p \in Peers, ServerStep(p)
    PROVE  OneRequest'
  <1> USE DEF Good
  <1>0. /\ alive' = alive /\ cl' = cl /\ to' = to /\ alive \subseteq Peers
    BY DEF ServerStep, ServerReadEof, ServerReadErr, RegCheck, RegAlloc, RegFill, RegRespond, RegAdd, InformOne,
           InformDone, HandleInform, clientVars, ThreadsOK
  <1>1. CASE ServerReadEof(p)
    <2>1. \A r \in alive', q \in Peers : Drops(backlog[q], backlog'[q], r)
      BY <1>1, TailDrops DEF ServerReadEof, Accepts
    <2>2. \A r \in alive', q \in Peers : InHand(r, q)' => InHand(r, q)
      BY <1>1 DEF ServerReadEof, Goto, InHand, ThreadsOK
    <2>3. \A r \in alive', q \in Peers : Waiting(r, q) => Waiting(r, q)'
      BY <1>0, <1>1 DEF ServerReadEof, Waiting, clientVars
    <2> QED BY <1>0, <2>1, <2>2, <2>3, RequestsFrame
  <1>2. CASE RegCheck(p)
    <2>a. PICK a : a = Request(p).from
      OBVIOUS
    <2>0. backlog[p] # << >> /\ sv[p] = "accept" /\ backlog' = [backlog EXCEPT ![p] = Tail(@)]
      BY <1>2 DEF RegCheck, Accepts, Serving
    <2>1. \A r \in alive', q \in Peers : Drops(backlog[q], backlog'[q], r)
      BY <2>0, TailDrops
    <2>2. a \in alive => /\ Waiting(a, p) /\ ~Has(backlog'[p], a) /\ AtMostOne(backlog'[p], a)
                         /\ \A q \in Peers : q # p => ~Has(backlog[q], a) /\ ~InHand(a, q)
      <3>1. backlog'[p] = Tail(backlog[p])
        BY <2>0 DEF BacklogOK
      <3>2. a \in alive => Waiting(a, p) /\ ~Has(Tail(backlog[p]), a) /\ AtMostOne(Tail(backlog[p]), a)
        BY <1>2, <2>a, Asker
      <3> QED BY <3>1, <3>2, WaitsForOne
    <2>3. \A r : ~InHand(r, p)
      BY <2>0 DEF InHand
    <2>4. CASE Goto(p, "alloc") /\ req' = [req EXCEPT ![p] = Request(p)] /\ reply' = reply
      <3>1. \A r, q \in Peers : Waiting(r, q)' <=> Waiting(r, q)
        BY <1>0, <2>4 DEF Waiting
      <3>2. \A r, q \in Peers : InHand(r, q)' <=> (q # p /\ InHand(r, q)) \/ (q = p /\ r = a)
        BY <2>a, <2>4 DEF Goto, InHand, ThreadsOK, RequestsOK
      <3> SUFFICES ASSUME NEW r \in alive', NEW q \in Peers PROVE Requests(r, q)'
        BY DEF OneRequest
      <3>3. Requests(r, q) /\ r \in Peers /\ r \in alive
        BY <1>0 DEF OneRequest
      <3>4. CASE q = p /\ r = a
        BY <2>2, <3>1, <3>2, <3>3, <3>4 DEF Requests
      <3>5. CASE ~(q = p /\ r = a)
        BY <1>0, <2>1, <2>3, <3>1, <3>2, <3>3, <3>5 DEF Requests, Drops
      <3> QED BY <3>4, <3>5
    <2>5. CASE Answer(a, [status |-> "PEER_EXISTS", entries |-> << >>]) /\ UNCHANGED <<sv, req>>
      <3>1. \A r, q \in Peers : InHand(r, q)' <=> InHand(r, q)
        BY <2>5 DEF InHand
      <3>2. \A r \in alive : r # a => reply'[r] = reply[r]
        BY <1>0, <2>5 DEF Answer, ListsOK
      <3>3. \A r \in alive', q \in Peers : r # a /\ Waiting(r, q) => Waiting(r, q)'
        BY <1>0, <3>2 DEF Waiting
      <3>4. \A q \in Peers : a \in alive => ~Has(backlog'[q], a) /\ ~InHand(a, q)'
        BY <1>0, <2>1, <2>2, <2>3, <3>1 DEF Drops
      <3>5. \A r \in alive', q \in Peers :
              Waiting(r, q) /\ (Has(backlog'[q], r) \/ InHand(r, q)') => Waiting(r, q)'
        BY <1>0, <3>3, <3>4
      <3>6. \A r \in alive', q \in Peers : InHand(r, q)' => InHand(r, q)
        BY <1>0, <3>1
      <3> QED BY <1>0, <2>1, <3>5, <3>6, RequestsFrame
    <2> QED BY <1>2, <2>a, <2>4, <2>5 DEF RegCheck
  <1>3. CASE RegAlloc(p) \/ RegFill(p) \/ RegAdd(p)
    <2>1. backlog' = backlog /\ reply' = reply
      BY <1>3 DEF RegAlloc, RegFill, RegAdd, clientVars
    <2>2. \A r \in alive', q \in Peers : InHand(r, q)' => InHand(r, q)
      BY <1>3 DEF RegAlloc, RegFill, RegAdd, Goto, Serving, InHand, ThreadsOK
    <2>3. \A r \in alive', q \in Peers : Waiting(r, q) => Waiting(r, q)'
      BY <1>0, <2>1 DEF Waiting
    <2> QED BY <1>0, <2>1, <2>2, <2>3, RequestsFrame, SameBacklog
  <1>4. CASE RegRespond(p)
    <2>a. PICK a : a = req[p].from
      OBVIOUS
    <2>1. backlog' = backlog /\ sv' = [sv EXCEPT ![p] = "add"] /\ req' = req
      BY <1>4 DEF RegRespond, Goto
    <2>2. \A r, q \in Peers : InHand(r, q)' <=> q # p /\ InHand(r, q)
      BY <2>1 DEF InHand, ThreadsOK
    <2>3. \E msg : Answer(a, msg)
      BY <1>4, <2>a DEF RegRespond
    <2>4. \A r \in alive : r # a => reply'[r] = reply[r]
      BY <1>0, <2>3 DEF Answer, ListsOK
    <2>5. \A r \in alive', q \in Peers : r # a /\ Waiting(r, q) => Waiting(r, q)'
      BY <1>0, <2>4 DEF Waiting
    <2>6. a \in alive => a \in Peers /\ InHand(a, p) /\ Waiting(a, p)
      BY <1>4, <2>a, Asker
    <2>7. \A q \in Peers : a \in alive => ~Has(backlog'[q], a) /\ ~InHand(a, q)'
      <3> SUFFICES ASSUME NEW q \in Peers, a \in alive
                   PROVE  ~Has(backlog'[q], a) /\ ~InHand(a, q)'
        OBVIOUS
      <3>1. CASE q = p
        BY <2>1, <2>2, <2>6, <3>1 DEF OneRequest, Requests
      <3>2. CASE q # p
        BY <2>1, <2>2, <2>6, <3>2, WaitsForOne
      <3> QED BY <3>1, <3>2
    <2>8. \A r \in alive', q \in Peers :
            Waiting(r, q) /\ (Has(backlog'[q], r) \/ InHand(r, q)') => Waiting(r, q)'
      BY <1>0, <2>5, <2>7
    <2>9. \A r \in alive', q \in Peers : InHand(r, q)' => InHand(r, q)
      BY <1>0, <2>2
    <2> QED BY <1>0, <2>1, <2>8, <2>9, RequestsFrame, SameBacklog
  <1>5. CASE InformOne(p)
    <2>1. reply' = reply /\ sv' = sv /\ req' = req
      BY <1>5 DEF InformOne, clientVars
    <2>2. \A r \in alive', q \in Peers : Drops(backlog[q], backlog'[q], r)
      <3> SUFFICES ASSUME NEW r, NEW q \in Peers PROVE Drops(backlog[q], backlog'[q], r)
        OBVIOUS
      <3>1. Inform(p) \in Connections
        BY <1>5, InformType
      <3>2. ~Outstanding(Inform(p), r)
        BY DEF Outstanding, Inform
      <3>3. backlog[q] \in Seq(Connections)
        BY DEF BacklogOK
      <3>4. backlog'[q] = backlog[q] \/ backlog'[q] = Append(backlog[q], Inform(p))
        BY <1>5 DEF InformOne
      <3> QED BY <3>1, <3>2, <3>3, <3>4, DropsAppend, SameBacklog
    <2>3. \A r \in alive', q \in Peers : Waiting(r, q) => Waiting(r, q)'
      BY <1>0, <2>1 DEF Waiting
    <2>4. \A r \in alive', q \in Peers : InHand(r, q)' => InHand(r, q)
      BY <2>1 DEF InHand
    <2> QED BY <1>0, <2>2, <2>3, <2>4, RequestsFrame
  <1>6. CASE InformDone(p)
    <2>1. backlog' = backlog /\ reply' = reply
      BY <1>6 DEF InformDone, clientVars
    <2>2. \A r \in alive', q \in Peers : InHand(r, q)' => InHand(r, q)
      BY <1>6 DEF InformDone, Goto, InHand, ThreadsOK, RequestsOK
    <2>3. \A r \in alive', q \in Peers : Waiting(r, q) => Waiting(r, q)'
      BY <1>0, <2>1 DEF Waiting
    <2> QED BY <1>0, <2>1, <2>2, <2>3, RequestsFrame, SameBacklog
  <1>7. CASE HandleInform(p)
    <2>1. reply' = reply /\ sv' = sv /\ req' = req
      BY <1>7 DEF HandleInform, clientVars, serverVars
    <2>2. \A r \in alive', q \in Peers : Drops(backlog[q], backlog'[q], r)
      BY <1>7, TailDrops DEF HandleInform, Accepts
    <2>3. \A r \in alive', q \in Peers : Waiting(r, q) => Waiting(r, q)'
      BY <1>0, <2>1 DEF Waiting
    <2>4. \A r \in alive', q \in Peers : InHand(r, q)' => InHand(r, q)
      BY <2>1 DEF InHand
    <2> QED BY <1>0, <2>2, <2>3, <2>4, RequestsFrame
  <1>8. CASE ServerReadErr(p)
    <2>1. reply' = reply /\ sv' = sv /\ req' = req
      BY <1>8 DEF ServerReadErr, clientVars, serverVars
    <2>2. \A r \in alive', q \in Peers : Drops(backlog[q], backlog'[q], r)
      BY <1>8, TailDrops DEF ServerReadErr, Accepts
    <2>3. \A r \in alive', q \in Peers : Waiting(r, q) => Waiting(r, q)'
      BY <1>0, <2>1 DEF Waiting
    <2>4. \A r \in alive', q \in Peers : InHand(r, q)' => InHand(r, q)
      BY <2>1 DEF InHand
    <2> QED BY <1>0, <2>2, <2>3, <2>4, RequestsFrame
  <1> QED BY <1>1, <1>2, <1>3, <1>4, <1>5, <1>6, <1>7, <1>8 DEF ServerStep

\* Only register_peer's answer is a new OK, and a client does not turn to another
\* peer while it has one to read.
LEMMA NewAnswer ==
    ASSUME Good, Idle, Next, NEW p \in alive', reply'[p].status = "OK",
           \A q \in Peers : ~(RegRespond(q) /\ req[q].from = p)
    PROVE  p \in Peers /\ p \in alive /\ reply'[p] = reply[p] /\ to'[p] = to[p]
  <1> USE DEF Good
  <1>0. p \in alive /\ p \in Peers
    BY AliveShrinks DEF ThreadsOK
  <1>1. PICK q \in Peers : ClientStep(q) \/ ServerStep(q) \/ User(q) \/ Crash(q) \/ Smash(q)
    BY DEF Next
  <1>2. None.status # "OK" /\ Eof.status # "OK"
    BY DEF None, Eof
  <1>3. CASE ClientReply(q) \/ ClientEof(q)
    <2>1. /\ reply' = [reply EXCEPT ![q] = None]
          /\ to' = to \/ to' = [to EXCEPT ![q] = Nobody]
      BY <1>3 DEF ClientReply, ClientEof
    <2> QED BY <1>0, <1>2, <2>1 DEF ListsOK, ThreadsOK
  <1>4. CASE ClientWrite(q) \/ ClientAdd(q) \/ ClientQuit(q)
    BY <1>0, <1>4 DEF ClientWrite, ClientAdd, ClientQuit
  <1>5. CASE ClientDone(q) \/ \E s \in Peers : ClientConnect(q, s)
    <2>1. /\ reply' = reply /\ q \in alive /\ cl[q] \in {"add", "menu"}
          /\ to' = to \/ \E v : to' = [to EXCEPT ![q] = v]
      BY <1>5 DEF ClientDone, ClientConnect
    <2>2. reply[q] = None
      BY <2>1 DEF Idle
    <2> QED BY <1>0, <1>2, <2>1, <2>2 DEF ThreadsOK
  <1>6. CASE Dies(q)
    BY <1>0, <1>2, <1>6 DEF Dies, ListsOK, ThreadsOK
  <1>7. CASE RegCheck(q) \/ RegRespond(q)
    <2>1. to' = to
      BY <1>7 DEF RegCheck, RegRespond
    <2>2. CASE RegCheck(q)
      <3> DEFINE msg == [status |-> "PEER_EXISTS", entries |-> << >>]
      <3>1. reply' = reply \/ reply' = [reply EXCEPT ![Request(q).from] = msg]
        BY <2>2 DEF RegCheck, Answer
      <3>2. msg.status # "OK"
        OBVIOUS
      <3> HIDE DEF msg
      <3> QED BY <1>0, <2>1, <3>1, <3>2 DEF ListsOK
    <2>3. CASE RegRespond(q)
      <3>1. req[q].from # p
        BY <2>3
      <3>2. reply' = reply \/ \E msg : reply' = [reply EXCEPT ![req[q].from] = msg]
        BY <2>3 DEF RegRespond, Answer
      <3> QED BY <1>0, <2>1, <3>1, <3>2 DEF ListsOK
    <2> QED BY <1>7, <2>2, <2>3
  <1>8. CASE \/ ServerReadEof(q) \/ ServerReadErr(q) \/ RegAlloc(q) \/ RegFill(q) \/ RegAdd(q)
             \/ InformOne(q) \/ InformDone(q) \/ HandleInform(q)
    <2>1. reply' = reply /\ to' = to
      BY <1>8 DEF ServerReadEof, ServerReadErr, RegAlloc, RegFill, RegAdd, InformOne, InformDone, HandleInform,
                  clientVars
    <2> QED BY <1>0, <2>1
  <1> QED BY <1>1, <1>3, <1>4, <1>5, <1>6, <1>7, <1>8
          DEF ClientStep, ServerStep, User, Crash, Smash

LEMMA AnsweredStep ==
    ASSUME Good, Good', PortsInv, JoinInv, Next, TablesExtend
    PROVE  Answered'
  <1> USE DEF JoinInv
  <1> SUFFICES ASSUME NEW p \in alive', reply'[p].status = "OK"
               PROVE  KnownTo(p, to[p])' /\ StartsWith(reply'[p].entries, Entry(to'[p]))
    BY DEF Answered
  <1>0. p \in alive /\ p \in Peers
    BY AliveShrinks DEF Good, ThreadsOK
  <1>1. ASSUME NEW q \in Peers, RegRespond(q), req[q].from = p
        PROVE  KnownTo(p, to[p])' /\ StartsWith(reply'[p].entries, Entry(to'[p]))
    <2> DEFINE n == Len(network[q]) + 1
               filled == Len(data[q])
    <2> PICK es \in [filled + 1..n -> Junk] :
               Answer(req[q].from, [status |-> "OK", entries |->
                        [i \in 1..n |-> IF i <= filled THEN data[q][i] ELSE es[i]]])
      BY <1>1 DEF RegRespond
    <2> DEFINE at(i) == IF i <= filled THEN data[q][i] ELSE es[i]
               list == [i \in 1..n |-> at(i)]
    <2>1. to[p] = q /\ to' = to
      BY <1>0, <1>1, Asker DEF Waiting, RegRespond
    <2>2. sv'[q] = "add" /\ req'[q].from = p
      BY <1>1 DEF RegRespond, Goto, Good, ThreadsOK
    <2>3. KnownTo(p, q)'
      BY <2>2 DEF KnownTo
    <2>4. StartsWith(list, Entry(q))
      <3>1. n \in Nat /\ 1 \in 1..n /\ data[q] \in Seq(Entries)
        BY DEF Good, TablesOK, ListsOK
      <3>2. StartsWith(data[q], Entry(q))
        BY <1>1 DEF RegRespond, Serving, Listed
      <3>3. 1 <= Len(data[q])
        BY <3>1, <3>2 DEF StartsWith
      <3>4. list[1] = Entry(q)
        BY <3>1, <3>2, <3>3 DEF StartsWith
      <3>5. list # << >>
        <4>1. DOMAIN list = 1..n
          OBVIOUS
        <4> HIDE DEF list, n
        <4>2. 1 \in DOMAIN list
          BY <3>1, <4>1
        <4> QED BY <4>2
      <3> HIDE DEF list
      <3> QED BY <3>4, <3>5 DEF StartsWith
    <2>5. reply'[p] = [status |-> "OK", entries |-> list]
      BY <1>0, <1>1 DEF Answer, Good, ListsOK
    <2> HIDE DEF list
    <2>6. reply'[p].entries = list
      BY <2>5
    <2>7. to'[p] = q
      BY <2>1
    <2> QED BY <2>3, <2>4, <2>6, <2>7 DEF KnownTo
  <1>2. ASSUME \A q \in Peers : ~(RegRespond(q) /\ req[q].from = p)
        PROVE  KnownTo(p, to[p])' /\ StartsWith(reply'[p].entries, Entry(to'[p]))
    <2>1. reply'[p] = reply[p] /\ to'[p] = to[p]
      BY <1>2, NewAnswer
    <2>2. PICK q : q = to[p]
      OBVIOUS
    <2>3. q \in Peers
      <3>1. None.status # "OK"
        BY DEF None
      <3>2. cl[p] \in {"write", "wait"}
        BY <1>0, <2>1, <3>1 DEF Idle
      <3> QED BY <1>0, <2>2, <3>2 DEF Good, ThreadsOK
    <2>4. KnownTo(p, q) /\ StartsWith(reply[p].entries, Entry(q))
      BY <1>0, <2>1, <2>2 DEF Answered
    <2>5. KnownTo(p, q)'
      BY <1>0, <2>3, <2>4, KnownStays
    <2> QED BY <2>1, <2>2, <2>4, <2>5 DEF KnownTo
  <1> QED BY <1>1, <1>2

LEMMA JoinedStep ==
    ASSUME Good, Good', PortsInv, JoinInv, Next, TablesExtend
    PROVE  JoinedKnown'
  <1> USE DEF JoinInv
  <1> SUFFICES ASSUME NEW p \in Peers, NEW q \in Peers, <<p, q>> \in joined'
               PROVE  KnownTo(p, q)' /\ KnowsServer(p, q)'
    BY DEF JoinedKnown
  <1>1. CASE <<p, q>> \in joined
    BY <1>1, KnownStays, ServerStays DEF JoinedKnown
  <1>2. CASE <<p, q>> \notin joined
    <2>1. PICK r \in Peers : ClientStep(r) \/ ServerStep(r) \/ User(r) \/ Crash(r) \/ Smash(r)
      BY DEF Next
    <2>2. ClientReply(r)
      <3>1. joined' # joined
        BY <1>2
      <3> QED BY <2>1, <3>1 DEF ClientStep, ServerStep, User, Crash, Smash, Dies, ClientWrite,
                ClientEof, ClientAdd, ClientDone, ClientQuit, ClientConnect, ServerReadEof, ServerReadErr, RegCheck,
                RegAlloc, RegFill, RegRespond, RegAdd, InformOne, InformDone, HandleInform
    <2>3. r = p /\ to[p] = q /\ reply[p].status = "OK" /\ p \in alive
      BY <1>2, <2>2 DEF ClientReply
    <2>4. KnownTo(p, q) /\ StartsWith(reply[p].entries, Entry(q))
      BY <2>3 DEF Answered
    <2>5. KnownTo(p, q)'
      BY <2>4, KnownStays
    <2>6. cl'[p] = "add" /\ todo'[p] = reply[p].entries
      BY <2>2, <2>3 DEF ClientReply, Good, ThreadsOK, ListsOK
    <2>7. KnowsServer(p, q)'
      BY <2>4, <2>6 DEF KnowsServer
    <2> QED BY <2>5, <2>7
  <1> QED BY <1>1, <1>2

LEMMA JoinInit == Init => JoinInv
  <1> SUFFICES ASSUME Init PROVE JoinInv
    OBVIOUS
  <1>1. OneRequest
    <2>1. \A p \in Peers : backlog[p] = << >> /\ sv[p] = "accept"
      BY DEF Init
    <2> QED BY <2>1 DEF OneRequest, Requests, AtMostOne, Has, InHand
  <1>2. Idle /\ Listed /\ JoinedKnown
    BY DEF Init, Idle, Listed, JoinedKnown
  <1>3. Answered
    BY DEF Init, Answered, None
  <1> QED BY <1>1, <1>2, <1>3 DEF JoinInv

LEMMA JoinStep == Good /\ Good' /\ PortsInv /\ JoinInv /\ [Next]_vars => JoinInv'
  <1> SUFFICES ASSUME Good, Good', PortsInv, JoinInv, [Next]_vars PROVE JoinInv'
    OBVIOUS
  <1>1. CASE Next
    <2>1. TablesExtend
      BY NextGood
    <2>2. OneRequest'
      <3>1. PICK p \in Peers : ClientStep(p) \/ ServerStep(p) \/ User(p) \/ Crash(p) \/ Smash(p)
        BY <1>1 DEF Next
      <3> QED BY <3>1, ClientRequests, ServerRequests, DiesRequests DEF JoinInv, Crash, Smash
    <2>3. Idle' /\ Listed'
      BY <1>1, IdleStep, ListedStep DEF JoinInv
    <2> QED BY <1>1, <2>1, <2>2, <2>3, AnsweredStep, JoinedStep DEF JoinInv
  <1>2. CASE UNCHANGED vars
    BY <1>2 DEF vars, clientVars, serverVars, JoinInv, OneRequest, Requests, AtMostOne, Has, Waiting,
                InHand, Idle, Listed, Answered, JoinedKnown, KnownTo, KnowsServer
  <1> QED BY <1>1, <1>2

\* Whichever peers register with each other at the same time, and whichever
\* crash, after a registration that succeeded the server has the client in its
\* table or is about to add it, and the client, back at the menu, the server.
THEOREM JoinedAreMutual == Spec => []JoinedKnowEachOther
  <1>1. Init => Good /\ PortsInv /\ JoinInv
    BY InitGood, PortsInit, JoinInit
  <1>2. Good /\ [Next]_vars => Good'
    BY NextGood
  <1>3. Good /\ PortsInv /\ JoinInv /\ [Next]_vars => (Good /\ PortsInv /\ JoinInv)'
    BY <1>2, PortsStep, JoinStep
  <1>4. Good /\ JoinInv => JoinedKnowEachOther
    <2> SUFFICES ASSUME JoinInv, NEW p \in Peers, NEW q \in Peers, <<p, q>> \in joined
                 PROVE  /\ KnownTo(p, q)
                        /\ cl[p] = "menu" => Places(network[p], Entry(q)) # {}
      BY DEF JoinedKnowEachOther, KnownTo
    <2>1. KnownTo(p, q) /\ KnowsServer(p, q)
      BY DEF JoinInv, JoinedKnown
    <2>2. p \notin alive => cl[p] = "quit"
      BY DEF JoinInv, Idle
    <2> QED BY <2>1, <2>2 DEF KnowsServer
  <1> QED BY <1>1, <1>3, <1>4, PTL DEF Spec

=============================================================================
