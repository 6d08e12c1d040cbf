---------------------------- MODULE PeerNetwork -----------------------------
(***************************************************************************)
(* The network tables of a group of C peers (peer.c): REGISTER, its reply  *)
(* and the INFORMs it causes.  Each peer runs a client thread (the menu)   *)
(* and a server thread, both of which use the table `network'.             *)
(*                                                                         *)
(* add_peer_to_network holds network_mutex for its whole body and is one   *)
(* step.  The server's other uses of the table take no lock: register_peer *)
(* reads peer_count to make room, to copy the table and to send it, and    *)
(* send_inform in every turn.  Each of these is a step, between which the  *)
(* client can add peers; one copy of the table or of an entry is atomic.   *)
(* Every peer salts with the same constant, so salts are left out; the     *)
(* signature of peer p is p.  A port is an integer and the bytes of the    *)
(* header's integers are swapped, or not, as the code does it on a         *)
(* little-endian machine.                                                  *)
(***************************************************************************)
EXTENDS Integers, Sequences, FiniteSets

CONSTANTS
    Peers,
    Ip, Port,       \* [Peers -> ...], the command line of each peer
    Nobody,         \* not a peer
    Asks,           \* the pairs <<p, q>> such that p's user may register with q
    Junk,           \* the entries that uninitialised bytes may be read as
    MaxJunk,        \* bound on the entries that an unread reply is taken for
    Quitters,       \* the peers whose user may quit
    MaxRegisters,   \* bound on the REGISTERs of one client
    MaxCrashes      \* bound on the peers that crash

Ports == 0..65535

ASSUME NetworkAssumption ==
    /\ Nobody \notin Peers
    /\ Port \in [Peers -> Ports \ {0}]
    /\ Asks \subseteq Peers \X Peers
    /\ \A e \in Junk : e.port \in Nat /\ e.port \div 16777216 < 256   \* 32 bits
    /\ \A e \in Junk : e = [ip |-> e.ip, port |-> e.port, sig |-> e.sig]
    /\ MaxJunk \in Nat /\ MaxRegisters \in Nat /\ MaxCrashes \in Nat
    /\ \A p, q \in Peers : (Ip[p] = Ip[q] /\ Port[p] = Port[q]) => p = q

PEER_ADDR_LEN == 68

\* htobe32 and be32toh of a little-endian machine: the four bytes reversed.
be32(n) == (n % 256) * 16777216 + ((n \div 256) % 256) * 65536
           + ((n \div 65536) % 256) * 256 + (n \div 16777216)

Entry(p) == [ip |-> Ip[p], port |-> Port[p], sig |-> p]
Swapped(e) == [ip |-> e.ip, port |-> be32(e.port), sig |-> e.sig]
SameAddr(e, f) == e.ip = f.ip /\ e.port = f.port

VARIABLES
    network,    \* [Peers -> Seq(entry)]; peer_count is its length
    alive,      \* peers whose process runs
    backlog,    \* [Peers -> connections to its server, in order]
    cl, to,     \* client thread: state and the peer it talks to
    reply,      \* [Peers -> what its client's connection has to read]
    todo,       \* [Peers -> entries of the reply not added yet]
    budget,     \* [Peers -> REGISTERs the user may still ask for]
    sv, req,    \* server thread: state and the request in hand
    size, data, \* server thread: entries data[] has room for; its contents
    idx,        \* server thread: i of send_inform
    joined,     \* history: <<p, q>> when p's client got STATUS_OK from q
    strays      \* history: the ports that were read from uninitialised bytes

clientVars == <<cl, to, reply, todo, budget>>
serverVars == <<sv, req, size, data, idx>>
history == <<joined, strays>>
vars == <<network, alive, backlog, clientVars, serverVars, history>>

None == [status |-> "none", entries |-> << >>]
Eof == [status |-> "eof", entries |-> << >>]
Pending(p) == [from |-> p, cmd |-> "pending"]   \* connected, nothing written
Broken(p, how) == [from |-> p, cmd |-> how]     \* "closed" or "reset" unwritten
NoRequest == [from |-> Nobody, cmd |-> "none"]

Init ==
    /\ network = [p \in Peers |-> << >>]
    /\ alive = Peers
    /\ backlog = [p \in Peers |-> << >>]
    /\ cl = [p \in Peers |-> "menu"] /\ to = [p \in Peers |-> Nobody]
    /\ reply = [p \in Peers |-> None] /\ todo = [p \in Peers |-> << >>]
    /\ budget = [p \in Peers |-> MaxRegisters]
    /\ sv = [p \in Peers |-> "accept"] /\ req = [p \in Peers |-> NoRequest]
    /\ size = [p \in Peers |-> 0] /\ data = [p \in Peers |-> << >>]
    /\ idx = [p \in Peers |-> 0]
    /\ joined = {} /\ strays = {}

\* find_peer and is_unregistrered: the places in a table with this address.
Places(tab, e) == {i \in 1..Len(tab) : SameAddr(tab[i], e)}

AddPeerAlways(tab, e) == Append(tab, e)          \* mutant: no look for the address
AddPeerWrongCopy(tab, e) ==                      \* mutant: the wrong bytes copied
    IF Places(tab, e) # {}
    THEN [tab EXCEPT ![CHOOSE i \in Places(tab, e) : TRUE].sig = e.ip]
    ELSE Append(tab, e)
AddPeerReplaces(tab, e) ==                       \* mutant: a full slot is reused
    IF Places(tab, e) # {} THEN tab
    ELSE IF tab = << >> THEN << e >> ELSE [tab EXCEPT ![Len(tab)] = e]

\* add_peer_to_network: a known address gets the new signature, a new one a
\* new entry at the end.
AddPeer(tab, e) ==
    IF Places(tab, e) # {}
    THEN LET i == CHOOSE i \in Places(tab, e) : \A j \in Places(tab, e) : i <= j
         IN  [tab EXCEPT ![i].sig = e.sig]
    ELSE Append(tab, e)

-----------------------------------------------------------------------------
(* The client thread: menu, send_register                                  *)

\* Menu choice 1: connect.  The kernel of a running peer takes the connection.
ClientConnect(p, q) ==
    /\ p \in alive /\ cl[p] = "menu" /\ budget[p] > 0 /\ <<p, q>> \in Asks
    /\ budget' = [budget EXCEPT ![p] = @ - 1]
    /\ IF q \in alive
       THEN /\ backlog' = [backlog EXCEPT ![q] = Append(@, Pending(p))]
            /\ cl' = [cl EXCEPT ![p] = "write"]
            /\ to' = [to EXCEPT ![p] = q]
       ELSE UNCHANGED <<backlog, cl, to>>
    /\ UNCHANGED <<network, alive, reply, todo, serverVars, history>>

IsPending(c, p) == c.cmd = "pending" /\ c.from = p

\* The REGISTER header is written to the connection.
ClientWrite(p) ==
    LET q == to[p]
        hdr == [from |-> p, cmd |-> "REGISTER", ip |-> Ip[p], port |-> be32(Port[p]),
                sig |-> p, length |-> be32(0)]
    IN
    /\ p \in alive /\ cl[p] = "write"
    /\ backlog' = [backlog EXCEPT ![q] =
                     [i \in DOMAIN @ |-> IF IsPending(@[i], p) THEN hdr ELSE @[i]]]
    /\ cl' = [cl EXCEPT ![p] = "wait"]
    /\ UNCHANGED <<network, alive, to, reply, todo, budget, serverVars, history>>

\* The reply is read: a peer that exists already and a new one go on with the
\* entries of the reply, any other status ends the command.
ClientReply(p) ==
    /\ p \in alive /\ cl[p] = "wait" /\ reply[p].status \in {"OK", "PEER_EXISTS"}
    /\ todo' = [todo EXCEPT ![p] = reply[p].entries]
    /\ cl' = [cl EXCEPT ![p] = "add"]
    /\ strays' = strays
    /\ joined' = IF reply[p].status = "OK" THEN joined \cup {<<p, to[p]>>} ELSE joined
    /\ reply' = [reply EXCEPT ![p] = None]
    /\ UNCHANGED <<network, alive, backlog, to, budget, serverVars>>

\* Uninitialised bytes are read as the entries es.
ReadsJunk(es) == strays' = strays \cup {es[i].port : i \in DOMAIN es}

\* The connection broke: the results of readn are not looked at and the header,
\* or the list, is whatever the memory held: a failure status, or OK and entries
\* of any addresses and ports.
ClientEof(p) ==
    /\ p \in alive /\ cl[p] = "wait" /\ reply[p] = Eof
    /\ \/ cl' = [cl EXCEPT ![p] = "menu"] /\ UNCHANGED <<todo, strays>>
       \/ \E n \in 1..MaxJunk : \E es \in [1..n -> Junk] :
            /\ cl' = [cl EXCEPT ![p] = "add"] /\ todo' = [todo EXCEPT ![p] = es]
            /\ ReadsJunk(es)
    /\ reply' = [reply EXCEPT ![p] = None]
    /\ to' = [to EXCEPT ![p] = Nobody]
    /\ UNCHANGED <<network, alive, backlog, budget, serverVars, joined>>

ClientAdd(p) ==
    /\ p \in alive /\ cl[p] = "add" /\ todo[p] # << >>
    /\ network' = [network EXCEPT ![p] = AddPeer(@, Head(todo[p]))]
    /\ todo' = [todo EXCEPT ![p] = Tail(@)]
    /\ UNCHANGED <<alive, backlog, cl, to, reply, budget, serverVars, history>>

ClientDone(p) ==
    /\ p \in alive /\ cl[p] = "add" /\ todo[p] = << >>
    /\ cl' = [cl EXCEPT ![p] = "menu"]
    /\ to' = [to EXCEPT ![p] = Nobody]
    /\ UNCHANGED <<network, alive, backlog, reply, todo, budget, serverVars, history>>

\* Menu choice 4: run is set to false and the client thread returns.
ClientQuit(p) ==
    /\ p \in alive /\ cl[p] = "menu" /\ p \in Quitters
    /\ cl' = [cl EXCEPT ![p] = "quit"]
    /\ UNCHANGED <<network, alive, backlog, to, reply, todo, budget, serverVars, history>>

-----------------------------------------------------------------------------
(* The server thread                                                       *)

Serving(p, l) == p \in alive /\ sv[p] = l
Goto(p, l) == sv' = [sv EXCEPT ![p] = l]
Request(p) == Head(backlog[p])
Accepts(p, cmd) == Serving(p, "accept") /\ backlog[p] # << >> /\ Request(p).cmd = cmd
Answer(r, msg) == reply' = IF r \in alive THEN [reply EXCEPT ![r] = msg] ELSE reply

SenderRaw(hdr) ==           \* mutant: the port is not converted
    [ip |-> hdr.ip, port |-> hdr.port, sig |-> hdr.sig]

\* accept and the header: the port is converted, the length is not.  A port that
\* is then not valid gets an error besides, and the request is handled all the same.
Sender(hdr) == [ip |-> hdr.ip, port |-> be32(hdr.port), sig |-> hdr.sig]

\* A connection that closes before its header ends the server's loop.
ServerReadEof(p) ==
    /\ Accepts(p, "closed")
    /\ backlog' = [backlog EXCEPT ![p] = Tail(@)]
    /\ Goto(p, "ended")
    /\ UNCHANGED <<network, alive, clientVars, req, size, data, idx, history>>

\* One that is reset fails the read.  The loop goes on with a header it did not
\* read: the one of the last turn, which is converted once more.  That makes its
\* command an unknown one, or, after two such turns, the last request again, of
\* a peer that is in the table by then.  Either is answered, to nobody.
ServerReadErr(p) ==
    /\ Accepts(p, "reset")
    /\ backlog' = [backlog EXCEPT ![p] = Tail(@)]
    /\ UNCHANGED <<network, alive, clientVars, serverVars, history>>

\* register_peer: is_unregistrered
RegCheck(p) ==
    /\ Accepts(p, "REGISTER")
    /\ backlog' = [backlog EXCEPT ![p] = Tail(@)]
    /\ IF Places(network[p], Sender(Request(p))) = {}
       THEN Goto(p, "alloc") /\ req' = [req EXCEPT ![p] = Request(p)] /\ reply' = reply
       ELSE /\ Answer(Request(p).from, [status |-> "PEER_EXISTS", entries |-> << >>])
            /\ UNCHANGED <<sv, req>>
    /\ UNCHANGED <<network, alive, cl, to, todo, budget, size, data, idx, history>>

\* char data[PEER_ADDR_LEN * (peer_count + 1)]
RegAlloc(p) ==
    /\ Serving(p, "alloc")
    /\ size' = [size EXCEPT ![p] = Len(network[p]) + 1]
    /\ Goto(p, "fill")
    /\ UNCHANGED <<network, alive, backlog, clientVars, req, data, idx, history>>

\* The loop that copies the table; every entry gets the port of the last one
\* and the server's own signature.
Listing(p) ==
    LET n == Len(network[p])
    IN  << Entry(p) >> \o
        [i \in 1..n |-> [ip |-> network[p][i].ip, port |-> network[p][n].port, sig |-> p]]

RegFill(p) ==
    /\ Serving(p, "fill")
    /\ data' = [data EXCEPT ![p] = Listing(p)]
    /\ Goto(p, "respond")
    /\ UNCHANGED <<network, alive, backlog, clientVars, req, size, idx, history>>

\* The reply's length comes from peer_count once more; past what was copied into
\* data[] the stack is sent.
RegRespond(p) ==
    LET n == Len(network[p]) + 1
        filled == Len(data[p])
    IN
    /\ Serving(p, "respond")
    /\ \E es \in [filled + 1..n -> Junk] :
         /\ Answer(req[p].from, [status |-> "OK", entries |->
                     [i \in 1..n |-> IF i <= filled THEN data[p][i] ELSE es[i]]])
         /\ ReadsJunk(es)
    /\ Goto(p, "add")
    /\ size' = [size EXCEPT ![p] = 0] /\ data' = [data EXCEPT ![p] = << >>]
    /\ UNCHANGED <<network, alive, backlog, cl, to, todo, budget, req, idx, joined>>

RegAddForgets(p) ==         \* mutant: register_peer ends with its reply
    /\ Serving(p, "add")
    /\ Goto(p, "accept")
    /\ UNCHANGED <<network, alive, backlog, clientVars, req, size, data, idx, history>>

RegAdd(p) ==
    /\ Serving(p, "add")
    /\ network' = [network EXCEPT ![p] = AddPeer(@, Sender(req[p]))]
    /\ idx' = [idx EXCEPT ![p] = 0]
    /\ Goto(p, "inform")
    /\ UNCHANGED <<alive, backlog, clientVars, req, size, data, history>>

\* The INFORM that send_inform builds: it tells of the last entry, and the port
\* of its header is not converted.
Inform(p) ==
    LET new == network[p][Len(network[p])]
    IN  [from |-> p, cmd |-> "INFORM", ip |-> Ip[p], port |-> Port[p], sig |-> p,
         length |-> be32(PEER_ADDR_LEN), body |-> Swapped(new)]

InformOneStuck(p) ==        \* mutant: i is not advanced
    /\ Serving(p, "inform") /\ idx[p] < Len(network[p]) - 1
    /\ UNCHANGED vars

\* One turn of send_inform; send_to_client gives up on a peer it cannot reach.
InformOne(p) ==
    /\ Serving(p, "inform") /\ idx[p] < Len(network[p]) - 1
    /\ backlog' = [q \in Peers |->
          IF q \in alive /\ SameAddr(Entry(q), network[p][idx[p] + 1])
          THEN Append(backlog[q], Inform(p)) ELSE backlog[q]]
    /\ idx' = [idx EXCEPT ![p] = @ + 1]
    /\ UNCHANGED <<network, alive, clientVars, sv, req, size, data, history>>

InformDone(p) ==
    /\ Serving(p, "inform") /\ idx[p] >= Len(network[p]) - 1
    /\ Goto(p, "accept")
    /\ req' = [req EXCEPT ![p] = NoRequest] /\ idx' = [idx EXCEPT ![p] = 0]
    /\ UNCHANGED <<network, alive, backlog, clientVars, size, data, history>>

\* handle_inform's tests: a known sender, its signature, a body of one entry.
InformAccepted(p, hdr) ==
    LET known == Places(network[p], Sender(hdr)) IN
    /\ known # {}
    /\ network[p][CHOOSE i \in known : \A j \in known : i <= j].sig = hdr.sig
    /\ hdr.length = PEER_ADDR_LEN

\* An INFORM that is refused is answered, but its sender does not read.
HandleInform(p) ==
    LET hdr == Request(p) IN
    /\ Accepts(p, "INFORM")
    /\ backlog' = [backlog EXCEPT ![p] = Tail(@)]
    /\ network' = IF InformAccepted(p, hdr)
                  THEN [network EXCEPT ![p] = AddPeer(@, Swapped(hdr.body))]
                  ELSE network
    /\ UNCHANGED <<alive, clientVars, serverVars, history>>

-----------------------------------------------------------------------------
(* Crashes                                                                 *)

\* Connections of p are closed or reset, those that wait for p to answer break,
\* and both threads of p are gone.
Dies(p) ==
    /\ alive' = alive \ {p}
    /\ \E how \in {"closed", "reset"} :
         backlog' = [q \in Peers |->
           IF q = p THEN << >>
           ELSE [i \in DOMAIN backlog[q] |-> IF IsPending(backlog[q][i], p)
                                             THEN Broken(p, how)
                                             ELSE backlog[q][i]]]
    /\ reply' = [r \in Peers |->
          IF cl[r] \in {"write", "wait"} /\ to[r] = p /\ reply[r] = None
          THEN Eof ELSE reply[r]]
    /\ cl' = [cl EXCEPT ![p] = "quit"] /\ sv' = [sv EXCEPT ![p] = "ended"]
    /\ to' = [to EXCEPT ![p] = Nobody] /\ todo' = [todo EXCEPT ![p] = << >>]
    /\ req' = [req EXCEPT ![p] = NoRequest] /\ idx' = [idx EXCEPT ![p] = 0]
    /\ size' = [size EXCEPT ![p] = 0] /\ data' = [data EXCEPT ![p] = << >>]
    /\ UNCHANGED <<network, budget, history>>

Crash(p) ==
    /\ p \in alive /\ Cardinality(Peers \ alive) < MaxCrashes
    /\ Dies(p)

\* What may go unnoticed may also bring the process down: entries written past
\* data[], a list whose length was never read, and the signal of a write to a
\* connection that was reset.
Smash(p) ==
    /\ \/ Serving(p, "respond") /\ Len(data[p]) > size[p]
       \/ p \in alive /\ cl[p] = "wait" /\ reply[p] = Eof
       \/ Accepts(p, "reset")
    /\ Dies(p)

-----------------------------------------------------------------------------
ClientStep(p) ==
    \/ ClientWrite(p) \/ ClientReply(p) \/ ClientEof(p) \/ ClientAdd(p) \/ ClientDone(p)
ServerStep(p) ==
    \/ ServerReadEof(p) \/ ServerReadErr(p) \/ RegCheck(p) \/ RegAlloc(p) \/ RegFill(p)
    \/ RegRespond(p) \/ RegAdd(p) \/ InformOne(p) \/ InformDone(p) \/ HandleInform(p)
User(p) == ClientQuit(p) \/ \E q \in Peers : ClientConnect(p, q)

Next == \E p \in Peers : ClientStep(p) \/ ServerStep(p) \/ User(p) \/ Crash(p) \/ Smash(p)

\* The two threads of a running peer are scheduled fairly; what the user asks
\* for and what crashes is not assumed to happen.
Spec ==
    /\ Init /\ [][Next]_vars
    /\ \A p \in Peers : WF_vars(ClientStep(p)) /\ WF_vars(ServerStep(p))

-----------------------------------------------------------------------------
Ips == {Ip[p] : p \in Peers} \cup {e.ip : e \in Junk}
Signatures == Peers \cup {e.sig : e \in Junk}
Entries == [ip : Ips, port : Int, sig : Signatures]
Registers == [from : Peers, cmd : {"REGISTER"}, ip : Ips, port : Int, sig : Peers, length : Int]
Informs == [from : Peers, cmd : {"INFORM"}, ip : Ips, port : Int, sig : Peers, length : Int,
            body : [ip : Ips, port : Int, sig : Signatures]]
Connections == [from : Peers, cmd : {"pending", "closed", "reset"}] \cup Registers \cup Informs

\* Type correctness; the server thread has a REGISTER in hand while it handles
\* one, and a client that talks to a peer talks to one that exists.
TypeOK ==
    /\ network \in [Peers -> Seq(Entries)] /\ todo \in [Peers -> Seq(Entries)]
    /\ data \in [Peers -> Seq(Entries)]
    /\ reply \in [Peers -> [status : {"none", "eof", "OK", "PEER_EXISTS"}, entries : Seq(Entries)]]
    /\ alive \subseteq Peers
    /\ backlog \in [Peers -> Seq(Connections)]
    /\ cl \in [Peers -> {"menu", "write", "wait", "add", "quit"}]
    /\ to \in [Peers -> Peers \cup {Nobody}]
    /\ \A p \in Peers : cl[p] \in {"write", "wait"} => to[p] \in Peers
    /\ budget \in [Peers -> 0..MaxRegisters]
    /\ sv \in [Peers -> {"accept", "alloc", "fill", "respond", "add", "inform", "ended"}]
    /\ req \in [Peers -> Registers \cup {NoRequest}]
    /\ \A p \in Peers : sv[p] \in {"alloc", "fill", "respond", "add"} =>
         req[p] \in Registers
    /\ idx \in [Peers -> Nat] /\ size \in [Peers -> Nat]
    /\ joined \subseteq Peers \X Peers /\ strays \subseteq Int

\* Conversions between host and network order balance on the way into a table,
\* through requests, replies and the entries of either, and the copies in a reply
\* of the last port to every entry: a port in a table is one that a peer was
\* started with, unless it was read from uninitialised bytes, after a connection
\* broke or the table grew while it was sent; then it may be any number.
PortsValid ==
    \A p \in Peers : \A i \in 1..Len(network[p]) :
      network[p][i].port \in {Port[q] : q \in Peers} \cup strays

\* No peer is in a table twice, whether it came with a reply, registered here
\* or was told of, and whichever of the two threads added it.
NoDuplicates ==
    \A p \in Peers : \A i, j \in 1..Len(network[p]) :
      SameAddr(network[p][i], network[p][j]) => i = j

\* After a registration that succeeded each end has the other in its table: the
\* server answers before it adds the client, so it may be about to, and the
\* client when it is back at the menu.
JoinedKnowEachOther ==
    \A p, q \in Peers : <<p, q>> \in joined =>
      /\ \/ Places(network[q], Entry(p)) # {}
         \/ sv[q] = "add" /\ req[q].from = p
         \/ q \notin alive
      /\ (cl[p] = "menu" => Places(network[p], Entry(q)) # {})

\* A table only grows and an entry keeps its place and its address, so an
\* index read without the lock still stands for the same peer.
TablesGrow ==
    [][\A p \in Peers :
         /\ Len(network[p]) <= Len(network'[p])
         /\ \A i \in 1..Len(network[p]) : SameAddr(network[p][i], network'[p][i])]_vars

\* A client that waits for the answer to its REGISTER gets one, or an error,
\* unless it dies or the server's loop has ended: no circle of peers waits on
\* each other.
RegisterReturns ==
    \A p \in Peers :
      cl[p] = "wait" ~> (cl[p] # "wait" \/ sv[to[p]] = "ended")

-----------------------------------------------------------------------------
(* What comments of peer.c say and the code does not do                    *)

Knows(p, q) == \E i \in Places(network[p], Entry(q)) : network[p][i].sig = q

\* INFORM keeps the network synchronised: one that comes from a peer in the
\* table, sent with that peer's signature, leaves the peer it tells of in the
\* table.
InformsTakenUp ==
    [][\A p \in Peers : (HandleInform(p) /\ Knows(p, Request(p).from)) =>
         Places(network'[p], Swapped(Request(p).body)) # {}]_vars

\* The answer to a REGISTER is the complete list of the peers the server knows.
CompleteList ==
    [][\A q \in Peers : RegRespond(q) =>
         \A i \in 1..Len(network[q]) :
           \E j \in 1..Len(reply'[req[q].from].entries) :
             reply'[req[q].from].entries[j] = network[q][i]]_vars

\* The lock keeps the threads' uses of the table apart: the list that the server
\* copies from it fits the room made for it.
ListFits == \A p \in Peers : sv[p] = "respond" => Len(data[p]) <= size[p]

\* The server thread is infinite.
ServerInfinite == \A p \in alive : sv[p] # "ended"

\* Quit stops the client and the server.
QuitStops == \A p \in Peers : cl[p] = "quit" ~> (sv[p] = "ended" \/ p \notin alive)
=============================================================================
