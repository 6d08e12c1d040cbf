------------------------------- MODULE PyPeer -------------------------------
(***************************************************************************)
(* One Python peer of Opgave4 (peer.py): the threads that handle requests, *)
(* one per connection, and the client thread, sharing the list `network'   *)
(* under network_mutex and the list of files being retrieved under         *)
(* retrieving_mutex.  The other peers are the environment: they send       *)
(* requests, answer the client and go away.                                *)
(*                                                                         *)
(* A raw signature is a value of Sigs.  assemble_signature(s, salt) formats*)
(* the salt into a string before it hashes, so a salt that is a str and    *)
(* the same salt as bytes give different hashes: a hash is what was hashed *)
(* and the type of the salt.  The value of the random salt tells nothing   *)
(* else apart and is left out.  Time is counted in ticks.                  *)
(***************************************************************************)
EXTENDS Integers, Sequences

CONSTANTS
    Me, Others,        \* this peer's address, and other addresses
    NoAddress,         \* the address of a request that gives none
    Sigs, MySig,       \* raw signatures
    Names, BadNames,   \* files that may be asked for; outside the directory
    Handlers, Client,  \* the threads
    NoThread, Gone,    \* nobody; a thread that ended while it held a mutex
    Requests,          \* the requests that may come in
    Lists,             \* the networks a REGISTER of ours may be answered with
    EXPIRY,            \* 60 seconds
    MaxRequests, MaxRetrieves, MaxTime,   \* bounds
    SendsMayFail       \* whether a connection may be reset while we answer

Addresses == Others \cup {Me}
Commands == {"register", "inform", "retrieve", "unknown", "short", "garbage"}

ASSUME PyAssumption ==
    /\ Me \notin Others /\ NoAddress \notin Addresses /\ MySig \in Sigs
    /\ Client \notin Handlers /\ Gone \notin Handlers /\ NoThread \notin Handlers
    /\ Client # NoThread /\ Gone # NoThread /\ Client # Gone
    /\ BadNames \subseteq Names
    /\ Requests \subseteq [cmd : Commands, addr : Addresses \cup {NoAddress}, sig : Sigs,
                           about : Addresses, name : Names]
    /\ Lists \subseteq Seq([addr : Addresses, sig : Sigs])
    /\ EXPIRY \in Nat /\ MaxTime \in Nat /\ MaxRequests \in Nat /\ MaxRetrieves \in Nat
    /\ SendsMayFail \in BOOLEAN

VARIABLES
    network,           \* list of entries: address, saved signature, salt, timestamp
    netLock, retLock,  \* holders of network_mutex and retrieving_mutex
    retrieving,        \* currently_retreiving
    disk,              \* name -> "absent", "partial" or "whole"
    clock,
    pc, req, idx,      \* handlers: position, request, position in a loop
    drop, data,        \* handlers: to_remove, file contents read
    cpc, cname, cok, pend, \* client: position, file, transfer succeeded, entries to add
    requests, retrieves,   \* bounded counters
    answers, lost,     \* history per handler: replies sent; a send has failed
    registered, served,\* history: accepted registrations; files served
    broken             \* history: a thread released a mutex that another one held

serverVars == <<pc, req, idx, drop, data, requests, answers, lost, registered, served>>
clientVars == <<cpc, cname, cok, pend, retrieves>>
vars == <<network, netLock, retLock, retrieving, disk, clock, broken, serverVars, clientVars>>

\* assemble_signature, by what it hashes
assemble_signature(sig, salt) == [of |-> sig, salted |-> salt]

Entry(addr, sig, salt, ts) == [addr |-> addr, sig |-> sig, salt |-> salt, ts |-> ts]

\* Our own entry has the signature we send, which is not salted once more.
MyEntry == Entry(Me, [of |-> MySig, salted |-> "no"], "str", -1)

\* An entry learned over the wire: the registering server salted the signature
\* with a str, and the salt is a slice of the bytes received.
Learned(l) == Entry(l.addr, assemble_signature(l.sig, "str"), "bytes", clock)

\* The body of an INFORM is the raw signature and no salt (an empty slice).
Informed(addr, sig) == Entry(addr, [of |-> sig, salted |-> "no"], "bytes", clock)

Known(addr) == \E i \in 1..Len(network) : network[i].addr = addr

NoRequest == [cmd |-> "garbage", addr |-> NoAddress, sig |-> MySig,
              about |-> NoAddress, name |-> NoAddress]

Init ==
    /\ network = <<MyEntry>>
    /\ netLock = NoThread /\ retLock = NoThread
    /\ retrieving = {} /\ disk \in [Names -> {"absent", "whole"}]
    /\ clock = 0
    /\ pc = [h \in Handlers |-> "idle"]
    /\ req = [h \in Handlers |-> NoRequest]
    /\ idx = [h \in Handlers |-> 1]
    /\ drop = [h \in Handlers |-> {}]
    /\ data = [h \in Handlers |-> "absent"]
    /\ cpc = "register" /\ cname \in Names /\ cok = FALSE /\ pend = << >>
    /\ requests = 0 /\ retrieves = 0
    /\ answers = [h \in Handlers |-> 1] /\ lost = [h \in Handlers |-> FALSE]
    /\ registered = {} /\ served = {}
    /\ broken = FALSE

-----------------------------------------------------------------------------
(* Sending a reply, and the two locks                                      *)

LoopEnds(h) == idx' = [idx EXCEPT ![h] = 1]
Refusals == {"malformed", "bad_request", "bad_password", "peer_missing"}
Goto(h, p) == pc' = [pc EXCEPT ![h] = p]

\* self.request.sendall either takes the reply or raises.
Sent(h) == answers' = [answers EXCEPT ![h] = @ + 1] /\ lost' = lost
NotSent(h) == SendsMayFail /\ lost' = [lost EXCEPT ![h] = TRUE] /\ answers' = answers

AcquireNet(t) == netLock = NoThread /\ netLock' = t
\* network_mutex.release() does not look at who holds the mutex; on a mutex
\* that nobody holds it raises.
ReleaseNet(t) ==
    /\ netLock' = NoThread
    /\ broken' = (broken \/ netLock \notin {t, NoThread})

-----------------------------------------------------------------------------
(* RequestHandler.handle                                                   *)

\* A connection is accepted and its request read and parsed; parse_message
\* raises on one that is too short to hold a header ("garbage").
Receive(h, r) ==
    /\ pc[h] = "idle" /\ requests < MaxRequests
    /\ requests' = requests + 1
    /\ req' = [req EXCEPT ![h] = r]
    /\ Goto(h, IF r.cmd = "garbage" THEN "fallback" ELSE "stamp")
    /\ answers' = [answers EXCEPT ![h] = 0] /\ lost' = [lost EXCEPT ![h] = FALSE]
    /\ UNCHANGED <<network, netLock, retLock, retrieving, disk, clock, broken,
                   idx, drop, data, registered, served, clientVars>>

Expired(e) == e.ts # -1 /\ clock - e.ts > EXPIRY

StampOwn(h) ==          \* mutant: our own entry is not left alone
    /\ pc[h] = "stamp"
    /\ AcquireNet(h)
    /\ drop' = [drop EXCEPT ![h] =
                 IF \E i \in 1..Len(network) : network[i].ts # -1 /\ network[i].addr = req[h].addr
                 THEN {} ELSE {network[i] : i \in {j \in 1..Len(network) : clock - network[j].ts > EXPIRY}}]
    /\ Goto(h, "purge")
    /\ UNCHANGED <<network, retLock, retrieving, disk, clock, broken, req, idx, data,
                   requests, answers, lost, registered, served, clientVars>>

\* The loop over the timestamps.  For a known sender the assignment to the
\* tuple raises: the timestamp is not updated, and nothing is removed.
Stamp(h) ==
    /\ pc[h] = "stamp"
    /\ AcquireNet(h)
    /\ drop' = [drop EXCEPT ![h] =
                 IF \E i \in 1..Len(network) : network[i].ts # -1 /\ network[i].addr = req[h].addr
                 THEN {} ELSE {network[i] : i \in {j \in 1..Len(network) : Expired(network[j])}}]
    /\ Goto(h, "purge")
    /\ UNCHANGED <<network, retLock, retrieving, disk, clock, broken, req, idx, data,
                   requests, answers, lost, registered, served, clientVars>>

Without(i) == [j \in 1..Len(network) - 1 |-> IF j < i THEN network[j] ELSE network[j + 1]]

\* network.remove of one flagged entry; equal entries are flagged separately.
Purge(h) ==
    /\ pc[h] = "purge"
    /\ \E i \in 1..Len(network) :
         /\ network[i] \in drop[h]
         /\ \A j \in 1..i - 1 : network[j] \notin drop[h]
         /\ network' = Without(i)
         /\ \/ /\ \E j \in i + 1..Len(network) : network[j] = network[i]
               /\ drop' = drop
            \/ /\ \A j \in i + 1..Len(network) : network[j] # network[i]
               /\ drop' = [drop EXCEPT ![h] = @ \ {network[i]}]
    /\ UNCHANGED <<netLock, retLock, retrieving, disk, clock, broken, pc, req, idx, data,
                   requests, answers, lost, registered, served, clientVars>>

VerdictAny(r) ==        \* mutant: an empty address may register
    IF r.cmd \in {"short", "unknown"} THEN "malformed" ELSE r.cmd

\* _register refuses an empty address, port or signature.
Empty(r) == r.cmd = "register" /\ r.addr = NoAddress

\* Where a request goes once its length, its command and, for REGISTER, its
\* address have been looked at.
Verdict(r) ==
    CASE r.cmd \in {"short", "unknown"} -> "malformed"
      [] Empty(r) -> "bad_request"
      [] OTHER -> r.cmd

\* All are removed, or one is not there to be removed, which raises and ends the
\* loop: release the mutex, then check length and command.
Dispatch(h) ==
    /\ pc[h] = "purge"
    /\ drop[h] = {} \/ \E e \in drop[h] : \A i \in 1..Len(network) : network[i] # e
    /\ drop' = [drop EXCEPT ![h] = {}]
    /\ ReleaseNet(h)
    /\ Goto(h, IF netLock = NoThread THEN "fallback" ELSE Verdict(req[h]))
    /\ UNCHANGED <<network, retLock, retrieving, disk, clock, req, idx, data,
                   requests, answers, lost, registered, served, clientVars>>

\* handle_error, outside any mutex
SendError(h) ==
    /\ pc[h] \in Refusals
    /\ \/ Sent(h) /\ Goto(h, "idle")
       \/ NotSent(h) /\ Goto(h, "fallback")
    /\ UNCHANGED <<network, netLock, retLock, retrieving, disk, clock, broken, req, idx, drop, data, requests, registered, served, clientVars>>

FallbackSilent(h) ==    \* mutant: the last resort sends nothing
    /\ pc[h] = "fallback"
    /\ Goto(h, "idle")
    /\ retLock' = IF retLock = h THEN Gone ELSE retLock
    /\ UNCHANGED <<network, netLock, retrieving, disk, clock, broken, req, idx, drop, data, requests, answers, lost, registered, served, clientVars>>

\* The except clause of handle; then the thread ends, with what it holds.
Fallback(h) ==
    /\ pc[h] = "fallback"
    /\ Sent(h) \/ NotSent(h)
    /\ Goto(h, "idle")
    /\ retLock' = IF retLock = h THEN Gone ELSE retLock
    /\ UNCHANGED <<network, netLock, retrieving, disk, clock, broken, req, idx, drop, data, requests, registered, served, clientVars>>

-----------------------------------------------------------------------------
(* _register                                                               *)

RegTest(h) ==
    /\ pc[h] = "register" /\ netLock = NoThread
    /\ \/ Known(req[h].addr) /\ Goto(h, "exists") /\ netLock' = netLock
       \/ ~Known(req[h].addr) /\ Goto(h, "append") /\ netLock' = h
    /\ UNCHANGED <<network, retLock, retrieving, disk, clock, broken, req, idx, drop, data, requests, answers, lost, registered, served, clientVars>>

\* handle_error inside the try: if it raises, the except clause releases the
\* mutex a second time, whoever holds it now.
RegExists(h) ==
    /\ pc[h] = "exists"
    /\ \/ Sent(h) /\ Goto(h, "idle") /\ UNCHANGED <<netLock, broken>>
       \/ NotSent(h) /\ ReleaseNet(h) /\ Goto(h, "fallback")
    /\ UNCHANGED <<network, retLock, retrieving, disk, clock, req, idx, drop, data, requests, registered, served, clientVars>>

\* The new entry is appended before the reply is put together, which raises if
\* the salt of any entry is bytes.
RegAppend(h) ==
    LET new == Entry(req[h].addr, assemble_signature(req[h].sig, "str"), "str", clock) IN
    /\ pc[h] = "append"
    /\ network' = Append(network, new)
    /\ ReleaseNet(h)
    /\ registered' = registered \cup {<<req[h].addr, req[h].sig>>}
    /\ Goto(h, IF netLock = NoThread \/ \E i \in 1..Len(network) : network[i].salt = "bytes"
               THEN "fallback" ELSE "welcome")
    /\ UNCHANGED <<retLock, retrieving, disk, clock, req, idx, drop, data,
                   requests, answers, lost, served, clientVars>>

RegReply(h) ==
    /\ pc[h] = "welcome"
    /\ \/ Sent(h) /\ Goto(h, "tell")
       \/ NotSent(h) /\ Goto(h, "fallback")
    /\ UNCHANGED <<network, netLock, retLock, retrieving, disk, clock, broken, req, idx, drop, data, requests, registered, served, clientVars>>

TellOthers(h) ==
    /\ pc[h] = "tell"
    /\ AcquireNet(h)
    /\ Goto(h, "telling")
    /\ UNCHANGED <<network, retLock, retrieving, disk, clock, broken, req, idx, drop, data,
                   requests, answers, lost, registered, served, clientVars>>

TellOneKeeps(h) ==      \* mutant: an INFORM that fails passes the release by
    /\ pc[h] = "telling" /\ idx[h] <= Len(network)
    /\ UNCHANGED <<netLock, broken>>
    /\ \/ idx' = [idx EXCEPT ![h] = @ + 1] /\ UNCHANGED pc
       \/ network[idx[h]].addr \notin {Me, req[h].addr} /\ Goto(h, "fallback") /\ LoopEnds(h)
    /\ UNCHANGED <<network, retLock, retrieving, disk, clock, req, drop, data,
                   requests, answers, lost, registered, served, clientVars>>

\* One INFORM, sent while the mutex is held; a peer that cannot be reached
\* ends the loop, and the handler answers a second time.
TellOne(h) ==
    /\ pc[h] = "telling" /\ idx[h] <= Len(network)
    /\ \/ idx' = [idx EXCEPT ![h] = @ + 1] /\ UNCHANGED <<pc, netLock, broken>>
       \/ /\ network[idx[h]].addr \notin {Me, req[h].addr}
          /\ ReleaseNet(h) /\ Goto(h, "fallback") /\ LoopEnds(h)
    /\ UNCHANGED <<network, retLock, retrieving, disk, clock, req, drop, data,
                   requests, answers, lost, registered, served, clientVars>>

Told(h) ==
    /\ pc[h] = "telling" /\ idx[h] > Len(network)
    /\ ReleaseNet(h)
    /\ Goto(h, IF netLock = NoThread THEN "fallback" ELSE "idle")
    /\ LoopEnds(h)
    /\ UNCHANGED <<network, retLock, retrieving, disk, clock, req, drop, data,
                   requests, answers, lost, registered, served, clientVars>>

-----------------------------------------------------------------------------
(* _add_to_network                                                         *)

InfTest(h) ==
    /\ pc[h] = "inform" /\ netLock = NoThread
    /\ \/ Known(req[h].about) /\ Goto(h, "idle") /\ netLock' = netLock
       \/ ~Known(req[h].about) /\ Goto(h, "add") /\ netLock' = h
    /\ UNCHANGED <<network, retLock, retrieving, disk, clock, broken, req, idx, drop, data, requests, answers, lost, registered, served, clientVars>>

InfAppend(h) ==
    /\ pc[h] = "add"
    /\ network' = Append(network, Informed(req[h].about, req[h].sig))
    /\ ReleaseNet(h)
    /\ Goto(h, IF netLock = NoThread THEN "fallback" ELSE "idle")
    /\ UNCHANGED <<retLock, retrieving, disk, clock, req, idx, drop, data,
                   requests, answers, lost, registered, served, clientVars>>

-----------------------------------------------------------------------------
(* _handle_request                                                         *)

ScanNoPassword(h) ==    \* mutant: the signature is not compared
    /\ pc[h] = "retrieve"
    /\ \/ /\ idx[h] <= Len(network) /\ network[idx[h]].addr = req[h].addr
          /\ Goto(h, "path") /\ LoopEnds(h)
       \/ /\ idx[h] <= Len(network) /\ network[idx[h]].addr # req[h].addr
          /\ idx' = [idx EXCEPT ![h] = @ + 1] /\ UNCHANGED pc
       \/ idx[h] > Len(network) /\ Goto(h, "peer_missing") /\ LoopEnds(h)
    /\ UNCHANGED <<network, netLock, retLock, retrieving, disk, clock, broken, req, drop, data,
                   requests, answers, lost, registered, served, clientVars>>

\* One turn of the loop over network, without the mutex: the list may change
\* between two turns.
Scan(h) ==
    /\ pc[h] = "retrieve"
    /\ \/ /\ idx[h] <= Len(network) /\ network[idx[h]].addr = req[h].addr
          /\ LET e == network[idx[h]] IN
               Goto(h, IF e.sig = assemble_signature(req[h].sig, e.salt) THEN "path"
                       ELSE "bad_password")
          /\ LoopEnds(h)
       \/ /\ idx[h] <= Len(network) /\ network[idx[h]].addr # req[h].addr
          /\ idx' = [idx EXCEPT ![h] = @ + 1] /\ UNCHANGED pc
       \/ idx[h] > Len(network) /\ Goto(h, "peer_missing") /\ LoopEnds(h)
    /\ UNCHANGED <<network, netLock, retLock, retrieving, disk, clock, broken, req, drop, data,
                   requests, answers, lost, registered, served, clientVars>>

Path(h) ==
    /\ pc[h] = "path"
    /\ \/ /\ req[h].name \in BadNames \/ disk[req[h].name] = "absent"
          /\ Goto(h, "bad_request")
       \/ /\ req[h].name \notin BadNames /\ disk[req[h].name] # "absent"
          /\ Goto(h, "busy")
    /\ UNCHANGED <<network, netLock, retLock, retrieving, disk, clock, broken, req, idx, drop, data,
                   requests, answers, lost, registered, served, clientVars>>

Busy(h) ==
    /\ pc[h] = "busy" /\ retLock = NoThread
    /\ \/ req[h].name \in retrieving /\ retLock' = h /\ Goto(h, "incomplete")
       \/ req[h].name \notin retrieving /\ retLock' = retLock /\ Goto(h, "open")
    /\ UNCHANGED <<network, netLock, retrieving, disk, clock, broken, req, idx, drop, data,
                   requests, answers, lost, registered, served, clientVars>>

\* The error is sent before the mutex is released.
BusyReply(h) ==
    /\ pc[h] = "incomplete"
    /\ \/ Sent(h) /\ retLock' = NoThread /\ Goto(h, "idle")
       \/ NotSent(h) /\ retLock' = retLock /\ Goto(h, "fallback")
    /\ UNCHANGED <<network, netLock, retrieving, disk, clock, broken, req, idx, drop, data,
                   requests, registered, served, clientVars>>

\* Reading the file as text may raise.
OpenFile(h) ==
    /\ pc[h] = "open"
    /\ \/ data' = [data EXCEPT ![h] = disk[req[h].name]] /\ Goto(h, "serve")
       \/ data' = data /\ Goto(h, "fallback")
    /\ UNCHANGED <<network, netLock, retLock, retrieving, disk, clock, broken, req, idx, drop,
                   requests, answers, lost, registered, served, clientVars>>

ServeFile(h) ==
    /\ pc[h] = "serve"
    /\ \/ /\ Sent(h) /\ Goto(h, "idle")
          /\ served' = served \cup {[to |-> req[h].addr, sig |-> req[h].sig, content |-> data[h]]}
       \/ NotSent(h) /\ Goto(h, "fallback") /\ served' = served
    /\ data' = [data EXCEPT ![h] = "absent"]
    /\ UNCHANGED <<network, netLock, retLock, retrieving, disk, clock, broken, req, idx, drop,
                   requests, registered, clientVars>>

-----------------------------------------------------------------------------
(* run_client and to_server.  An exception ends the client thread.         *)

ClientKeeps == UNCHANGED <<clock, serverVars>>

\* REGISTER at some other peer: it accepts, refuses, or cannot be reached.
CRegister ==
    /\ cpc = "register"
    /\ \/ \E l \in Lists : pend' = l /\ cpc' = "merge"
       \/ cpc' \in {"check", "dead"} /\ pend' = pend
    /\ ClientKeeps
    /\ UNCHANGED <<network, netLock, retLock, retrieving, disk, broken, cname, cok, retrieves>>

CMergeStart ==
    /\ cpc = "merge"
    /\ AcquireNet(Client)
    /\ cpc' = "merging"
    /\ ClientKeeps
    /\ UNCHANGED <<network, retLock, retrieving, disk, broken, cname, cok, pend, retrieves>>

CMergeBlind ==          \* mutant: entries are appended without a look at the list
    /\ cpc = "merging" /\ pend # << >>
    /\ pend' = Tail(pend)
    /\ network' = Append(network, Learned(Head(pend)))
    /\ ClientKeeps
    /\ UNCHANGED <<netLock, retLock, retrieving, disk, broken, cpc, cname, cok, retrieves>>

\* One entry of the reply
CMerge ==
    /\ cpc = "merging" /\ pend # << >>
    /\ pend' = Tail(pend)
    /\ \/ Known(Head(pend).addr) /\ network' = network
       \/ ~Known(Head(pend).addr) /\ network' = Append(network, Learned(Head(pend)))
    /\ ClientKeeps
    /\ UNCHANGED <<netLock, retLock, retrieving, disk, broken, cpc, cname, cok, retrieves>>

CMergeEnd ==
    /\ cpc = "merging" /\ pend = << >>
    /\ ReleaseNet(Client)
    /\ cpc' = IF netLock = NoThread THEN "dead" ELSE "check"
    /\ ClientKeeps
    /\ UNCHANGED <<network, retLock, retrieving, disk, cname, cok, pend, retrieves>>

\* With an empty network the thread would return without a release.
CCheck ==
    /\ cpc = "check" /\ netLock = NoThread
    /\ \/ network = << >> /\ netLock' = Gone /\ cpc' = "dead"
       \/ network # << >> /\ netLock' = netLock /\ cpc' = "menu"
    /\ ClientKeeps
    /\ UNCHANGED <<network, retLock, retrieving, disk, broken, cname, cok, pend, retrieves>>

CQuit ==
    /\ cpc = "menu" /\ cpc' = "dead"
    /\ ClientKeeps
    /\ UNCHANGED <<network, netLock, retLock, retrieving, disk, broken, cname, cok, pend, retrieves>>

\* The user names a file; get_random_peer raises if there is nobody else.
CPick ==
    /\ cpc = "menu" /\ netLock = NoThread /\ retrieves < MaxRetrieves
    /\ retrieves' = retrieves + 1
    /\ \E n \in Names \ BadNames : cname' = n
    /\ cpc' = IF \E i \in 1..Len(network) : network[i].addr # Me THEN "mark" ELSE "dead"
    /\ ClientKeeps
    /\ UNCHANGED <<network, netLock, retLock, retrieving, disk, broken, cok, pend>>

CMark ==
    /\ cpc = "mark" /\ retLock = NoThread
    /\ retrieving' = retrieving \cup {cname}
    /\ cpc' = "fetch"
    /\ ClientKeeps
    /\ UNCHANGED <<network, netLock, retLock, disk, broken, cname, cok, pend, retrieves>>

\* send_to_server: the file, an error status, or an exception, which leaves
\* the name in the list.
CFetch ==
    /\ cpc = "fetch"
    /\ \/ cok' \in BOOLEAN /\ cpc' = "unmark"
       \/ cok' = cok /\ cpc' = "dead"
    /\ ClientKeeps
    /\ UNCHANGED <<network, netLock, retLock, retrieving, disk, broken, cname, pend, retrieves>>

CUnmark ==
    /\ cpc = "unmark" /\ retLock = NoThread
    /\ retrieving' = retrieving \ {cname}
    /\ cpc' = IF cok THEN "create" ELSE "menu"
    /\ ClientKeeps
    /\ UNCHANGED <<network, netLock, retLock, disk, broken, cname, cok, pend, retrieves>>

\* open(..., "wb") truncates the file; what is written is there when it is closed.
CCreate ==
    /\ cpc = "create"
    /\ \/ disk' = [disk EXCEPT ![cname] = "partial"] /\ cpc' = "write"
       \/ disk' = disk /\ cpc' = "dead"
    /\ ClientKeeps
    /\ UNCHANGED <<network, netLock, retLock, retrieving, broken, cname, cok, pend, retrieves>>

CWrite ==
    /\ cpc = "write"
    /\ \/ disk' = [disk EXCEPT ![cname] = "whole"] /\ cpc' = "menu"
       \/ disk' = disk /\ cpc' = "dead"
    /\ ClientKeeps
    /\ UNCHANGED <<network, netLock, retLock, retrieving, broken, cname, cok, pend, retrieves>>

-----------------------------------------------------------------------------
Tick ==
    /\ clock < MaxTime /\ clock' = clock + 1
    /\ UNCHANGED <<network, netLock, retLock, retrieving, disk, broken, serverVars, clientVars>>

Handle(h) ==
    \/ Stamp(h) \/ Purge(h) \/ Dispatch(h) \/ SendError(h) \/ Fallback(h)
    \/ RegTest(h) \/ RegExists(h) \/ RegAppend(h) \/ RegReply(h)
    \/ TellOthers(h) \/ TellOne(h) \/ Told(h)
    \/ InfTest(h) \/ InfAppend(h)
    \/ Scan(h) \/ Path(h) \/ Busy(h) \/ BusyReply(h) \/ OpenFile(h) \/ ServeFile(h)

ClientStep ==
    \/ CRegister \/ CMergeStart \/ CMerge \/ CMergeEnd \/ CCheck \/ CQuit \/ CPick
    \/ CMark \/ CFetch \/ CUnmark \/ CCreate \/ CWrite

Next ==
    \/ \E h \in Handlers : Handle(h) \/ \E r \in Requests : Receive(h, r)
    \/ ClientStep
    \/ Tick

Spec == Init /\ [][Next]_vars

-----------------------------------------------------------------------------
HandlerPcs == {"idle", "stamp", "purge", "fallback", "register", "exists", "append",
               "welcome", "tell", "telling", "inform", "add", "retrieve", "path", "busy",
               "incomplete", "open", "serve"} \cup Refusals
ClientPcs == {"register", "merge", "merging", "check", "menu", "mark", "fetch", "unmark",
              "create", "write", "dead"}
Hashes == [of : Sigs, salted : {"no", "str", "bytes"}]
Entries == [addr : Addresses, sig : Hashes, salt : {"str", "bytes"}, ts : Int]

\* Type correctness; an entry always has an address, though a request need not.
TypeOK ==
    /\ network \in Seq(Entries)
    /\ netLock \in Handlers \cup {Client, NoThread, Gone}
    /\ retLock \in Handlers \cup {NoThread, Gone}
    /\ retrieving \subseteq Names /\ disk \in [Names -> {"absent", "partial", "whole"}]
    /\ clock \in 0..MaxTime
    /\ pc \in [Handlers -> HandlerPcs]
    /\ req \in [Handlers -> Requests \cup {NoRequest}]
    /\ idx \in [Handlers -> Nat]
    /\ drop \in [Handlers -> SUBSET Entries]
    /\ data \in [Handlers -> {"absent", "partial", "whole"}]
    /\ cpc \in ClientPcs /\ cname \in Names /\ cok \in BOOLEAN /\ pend \in Seq([addr : Addresses, sig : Sigs])
    /\ requests \in Nat /\ retrieves \in Nat
    /\ answers \in [Handlers -> Nat] /\ lost \in [Handlers -> BOOLEAN]
    /\ broken \in BOOLEAN

\* The peer never forgets itself: its own entry stays first, whatever expires,
\* and is the only one without a timestamp.  run_client's early return, which
\* keeps the mutex, and the reply to REGISTER both depend on it.
OwnEntryFirst ==
    /\ Len(network) >= 1 /\ network[1] = MyEntry
    /\ \A i \in 2..Len(network) : network[i].ts # -1

\* As long as no mutex was released by a thread that did not hold it, requests
\* handled at the same time and the client never list an address twice.
AddressesDistinct ==
    ~broken => \A i, j \in 1..Len(network) : network[i].addr = network[j].addr => i = j

\* "Any input message will ALWAYS receive an appropriate response, unless the
\* input message is informing the server of a new network member": a handler
\* that has ended has answered, unless a send of it failed.
AlwaysAnswered ==
    \A h \in Handlers :
      (pc[h] = "idle" /\ req[h].cmd # "inform" /\ ~lost[h]) => answers[h] >= 1

\* A file goes only to a peer that has registered here with the signature it
\* now gives.
ServedRegistered == \A s \in served : <<s.to, s.sig>> \in registered

\* Nobody waits for ever for network_mutex: its holder is inside its critical
\* section, where it waits for nothing, on every path through a handler and the
\* client, and a thread that has ended does not hold it.  (As long as no thread
\* released it for another; of retrieving_mutex the like does not hold, see
\* MutexesReleased.)
HoldersRelease ==
    /\ netLock # Gone
    /\ ~broken => \A h \in Handlers : netLock = h <=> pc[h] \in {"purge", "append", "telling", "add"}
    /\ ~broken => (netLock = Client <=> cpc = "merging")

-----------------------------------------------------------------------------
(* What comments say and the code does not do                              *)

\* "This will ensure we don't serve an incomplete file to another peer."
ServedComplete == \A s \in served : s.content = "whole"

\* "Note that as we aquire a mutex we need to make sure to release it in all
\* circumstances": no thread ends with one of the two in its hands.  The answer to
\* a request for a file that is being retrieved is sent before the release, and a
\* send that raises passes it by: from then on no file is served or retrieved.
MutexesReleased == netLock # Gone /\ retLock # Gone

\* A mutex is released by the thread that holds it.
Exclusive == ~broken

\* A request is answered once.
AnsweredOnce == \A h \in Handlers : answers[h] <= 1

\* "The peer is registered, unless a peer at that address already exists": no
\* peer is put on the list and told that something went wrong.
RegistrationTold == \A h \in Handlers : ~(pc[h] = "append" /\ \E i \in 1..Len(network) : network[i].salt = "bytes")

\* "so if the new peer talks to them it is authorised correctly": a peer that
\* is on the list is served with the signature it is listed with.
ListedAuthorised ==
    [][\A h \in Handlers :
         (pc[h] = "retrieve" /\ pc'[h] = "bad_password")
         => network[idx[h]].sig.of # req[h].sig]_vars

\* "Flag any network nodes we havn't heard from in a while": a peer is dropped
\* only if none of its requests was being handled.
HeardKept ==
    [][\A i \in 1..Len(network) :
         (Len(network') < Len(network) /\ \A j \in 1..Len(network') : network'[j].addr # network[i].addr)
         => ~\E h \in Handlers : /\ pc[h] \notin {"idle", "stamp", "purge"}
                              /\ req[h].addr = network[i].addr]_vars

\* "Check that the requesting peer has already registered.": one that is on the
\* list is not told that it is missing.
ScanFinds ==
    [][\A h \in Handlers :
         (pc[h] = "retrieve" /\ pc'[h] = "peer_missing")
         => ~Known(req[h].addr)]_vars
=============================================================================
