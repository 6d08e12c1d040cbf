---------------------------- MODULE PyPeerProofs ----------------------------
(***************************************************************************)
(* Proofs about PyPeer, for any number of handler threads, addresses,      *)
(* requests and files, and any expiry time.                                *)
(*                                                                         *)
(* The invariants of the runs are not inductive one by one.  Inv adds what *)
(* holds between two steps of a thread: the request it works on (ReqOK),   *)
(* that only entries with a timestamp are flagged (DropOK), that the       *)
(* address a thread is about to append is still not on the list (Fresh,    *)
(* from mutual exclusion), and that whoever passed the check of the        *)
(* signature has registered (Listed, Authorised).                          *)
(***************************************************************************)
EXTENDS PyPeer, SequenceTheorems, TLAPS

\* A handler that works has a request; it has the address or the command that
\* its position implies, and has answered before it tells the others.
ReqOK ==
    \A h \in Handlers :
      /\ idx[h] >= 1
      /\ pc[h] # "idle" => req[h] \in Requests
      /\ pc[h] \in {"stamp", "purge"} => req[h].cmd # "garbage"
      /\ pc[h] \in {"register", "exists", "append"} => req[h].addr \in Addresses
      /\ pc[h] \in {"inform", "add"} => req[h].cmd = "inform"
      /\ pc[h] \in {"tell", "telling"} => answers[h] >= 1

\* The parts of TypeOK, so that a step need only look at the part it disturbs.
NetType == network \in Seq(Entries) /\ clock \in 0..MaxTime
LockType ==
    /\ netLock \in Handlers \cup {Client, NoThread, Gone}
    /\ retLock \in Handlers \cup {NoThread, Gone}
DiskType == retrieving \subseteq Names /\ disk \in [Names -> {"absent", "partial", "whole"}]
HandlerType ==
    /\ pc \in [Handlers -> HandlerPcs]
    /\ req \in [Handlers -> Requests \cup {NoRequest}]
    /\ idx \in [Handlers -> Nat]
    /\ data \in [Handlers -> {"absent", "partial", "whole"}]
    /\ requests \in Nat
    /\ answers \in [Handlers -> Nat]
DropType == drop \in [Handlers -> SUBSET Entries]
LostType == lost \in [Handlers -> BOOLEAN] /\ broken \in BOOLEAN
ClientType == cpc \in ClientPcs /\ cname \in Names /\ cok \in BOOLEAN /\ retrieves \in Nat
PendType == pend \in Seq([addr : Addresses, sig : Sigs])

\* TypeOK is the conjunction of its parts.
LEMMA TypeParts ==
  TypeOK <=> /\ NetType /\ LockType /\ DiskType /\ HandlerType
             /\ DropType /\ LostType /\ ClientType /\ PendType
  BY DEF TypeOK, NetType, LockType, DiskType, HandlerType, DropType, LostType, ClientType, PendType

\* The client thread and the clock leave what belongs to handlers alone.
LEMMA ClientFrame ==
  ASSUME ClientStep \/ Tick \/ UNCHANGED vars
  PROVE  UNCHANGED <<pc, req, idx, drop, data, requests, answers, lost, registered, served>>
  BY DEF ClientStep, Tick, vars, serverVars, ClientKeeps, CRegister, CMergeStart, CMerge, CMergeEnd,
         CCheck, CQuit, CPick, CMark, CFetch, CUnmark, CCreate, CWrite

\* Every step of handle and its helpers keeps the handlers' variables well-typed.
LEMMA HandlerStep ==
  ASSUME TypeOK, ReqOK, [Next]_vars
  PROVE  HandlerType'
<1>. USE TypeParts DEF HandlerType, HandlerPcs, Refusals
<1>1. ASSUME NEW h \in Handlers, Stamp(h)
      PROVE  HandlerType'
  BY <1>1, TypeOK DEF Stamp, AcquireNet, Goto
<1>2. ASSUME NEW h \in Handlers, Purge(h)
      PROVE  HandlerType'
  BY <1>2, TypeOK DEF Purge, Without
<1>3. ASSUME NEW h \in Handlers, Dispatch(h)
      PROVE  HandlerType'
  BY <1>3, TypeOK, ReqOK, PyAssumption DEF Dispatch, ReleaseNet, Goto, Verdict, Empty, Commands, ReqOK
<1>4. ASSUME NEW h \in Handlers, SendError(h)
      PROVE  HandlerType'
  BY <1>4, TypeOK DEF SendError, Sent, NotSent, Goto, Refusals
<1>5. ASSUME NEW h \in Handlers, Fallback(h)
      PROVE  HandlerType'
  BY <1>5, TypeOK DEF Fallback, Sent, NotSent, Goto
<1>6. ASSUME NEW h \in Handlers, RegTest(h)
      PROVE  HandlerType'
  BY <1>6, TypeOK DEF RegTest, Goto
<1>7. ASSUME NEW h \in Handlers, RegExists(h)
      PROVE  HandlerType'
  BY <1>7, TypeOK DEF RegExists, Sent, NotSent, ReleaseNet, Goto
<1>8. ASSUME NEW h \in Handlers, RegAppend(h)
      PROVE  HandlerType'
  BY <1>8, TypeOK DEF RegAppend, ReleaseNet, Goto
<1>9. ASSUME NEW h \in Handlers, RegReply(h)
      PROVE  HandlerType'
  BY <1>9, TypeOK DEF RegReply, Sent, NotSent, Goto
<1>10. ASSUME NEW h \in Handlers, TellOthers(h)
      PROVE  HandlerType'
  BY <1>10, TypeOK DEF TellOthers, AcquireNet, Goto
<1>11. ASSUME NEW h \in Handlers, TellOne(h)
      PROVE  HandlerType'
  <2>1. UNCHANGED <<req, data, requests, answers>>
    BY <1>11 DEF TellOne
  <2>2. \/ pc' = pc /\ idx' = [idx EXCEPT ![h] = idx[h] + 1]
        \/ pc' = [pc EXCEPT ![h] = "fallback"] /\ idx' = [idx EXCEPT ![h] = 1]
    BY <1>11 DEF TellOne, ReleaseNet, Goto, LoopEnds
  <2>3. QED
    BY <2>1, <2>2, TypeOK
<1>12. ASSUME NEW h \in Handlers, Told(h)
      PROVE  HandlerType'
  BY <1>12, TypeOK DEF Told, ReleaseNet, Goto, LoopEnds
<1>13. ASSUME NEW h \in Handlers, InfTest(h)
      PROVE  HandlerType'
  BY <1>13, TypeOK DEF InfTest, Goto
<1>14. ASSUME NEW h \in Handlers, InfAppend(h)
      PROVE  HandlerType'
  BY <1>14, TypeOK DEF InfAppend, ReleaseNet, Goto
<1>15. ASSUME NEW h \in Handlers, Scan(h)
      PROVE  HandlerType'
  <2>1. UNCHANGED <<req, data, requests, answers>>
    BY <1>15 DEF Scan
  <2>2. \/ pc' = pc /\ idx' = [idx EXCEPT ![h] = idx[h] + 1]
        \/ /\ \E p \in {"path", "bad_password", "peer_missing"} : pc' = [pc EXCEPT ![h] = p]
           /\ idx' = [idx EXCEPT ![h] = 1]
    BY <1>15 DEF Scan, Goto, LoopEnds
  <2>3. QED
    BY <2>1, <2>2, TypeOK
<1>16. ASSUME NEW h \in Handlers, Path(h)
      PROVE  HandlerType'
  BY <1>16, TypeOK DEF Path, Goto
<1>17. ASSUME NEW h \in Handlers, Busy(h)
      PROVE  HandlerType'
  BY <1>17, TypeOK DEF Busy, Goto
<1>18. ASSUME NEW h \in Handlers, BusyReply(h)
      PROVE  HandlerType'
  BY <1>18, TypeOK DEF BusyReply, Sent, NotSent, Goto
<1>19. ASSUME NEW h \in Handlers, OpenFile(h)
      PROVE  HandlerType'
  BY <1>19, TypeOK, ReqOK, PyAssumption DEF OpenFile, Goto, DiskType, ReqOK
<1>20. ASSUME NEW h \in Handlers, ServeFile(h)
      PROVE  HandlerType'
  BY <1>20, TypeOK DEF ServeFile, Sent, NotSent, Goto
<1>21. ASSUME NEW h \in Handlers, NEW r \in Requests, Receive(h, r)
      PROVE  HandlerType'
  BY <1>21, TypeOK DEF Receive, Goto
<1>22. ASSUME ClientStep \/ Tick \/ UNCHANGED vars
      PROVE  HandlerType'
  BY <1>22, TypeOK, ClientFrame
<1>23. QED
  BY <1>1, <1>2, <1>3, <1>4, <1>5, <1>6, <1>7, <1>8, <1>9, <1>10, <1>11, <1>12,
     <1>13, <1>14, <1>15, <1>16, <1>17, <1>18, <1>19, <1>20, <1>21, <1>22 DEF Next, Handle

\* Every step keeps a handler's request in line with its position.
LEMMA ReqStep ==
  ASSUME TypeOK, ReqOK, [Next]_vars
  PROVE  ReqOK'
<1>. USE TypeParts DEF HandlerType, ReqOK
<1>1. ASSUME NEW h \in Handlers, Stamp(h)
      PROVE  ReqOK'
  BY <1>1, TypeOK, ReqOK DEF Stamp, AcquireNet, Goto
<1>2. ASSUME NEW h \in Handlers, Purge(h)
      PROVE  ReqOK'
  BY <1>2, TypeOK, ReqOK DEF Purge, Without
<1>3. ASSUME NEW h \in Handlers, Dispatch(h)
      PROVE  ReqOK'
  BY <1>3, TypeOK, ReqOK, PyAssumption DEF Dispatch, ReleaseNet, Goto, Verdict, Empty, Commands
<1>4. ASSUME NEW h \in Handlers, SendError(h)
      PROVE  ReqOK'
  BY <1>4, TypeOK, ReqOK DEF SendError, Sent, NotSent, Goto, Refusals
<1>5. ASSUME NEW h \in Handlers, Fallback(h)
      PROVE  ReqOK'
  BY <1>5, TypeOK, ReqOK DEF Fallback, Sent, NotSent, Goto
<1>6. ASSUME NEW h \in Handlers, RegTest(h)
      PROVE  ReqOK'
  BY <1>6, TypeOK, ReqOK DEF RegTest, Goto
<1>7. ASSUME NEW h \in Handlers, RegExists(h)
      PROVE  ReqOK'
  BY <1>7, TypeOK, ReqOK DEF RegExists, Sent, NotSent, ReleaseNet, Goto
<1>8. ASSUME NEW h \in Handlers, RegAppend(h)
      PROVE  ReqOK'
  BY <1>8, TypeOK, ReqOK DEF RegAppend, ReleaseNet, Goto
<1>9. ASSUME NEW h \in Handlers, RegReply(h)
      PROVE  ReqOK'
  BY <1>9, TypeOK, ReqOK DEF RegReply, Sent, NotSent, Goto
<1>10. ASSUME NEW h \in Handlers, TellOthers(h)
      PROVE  ReqOK'
  BY <1>10, TypeOK, ReqOK DEF TellOthers, AcquireNet, Goto
<1>11. ASSUME NEW h \in Handlers, TellOne(h)
      PROVE  ReqOK'
  <2>1. pc[h] = "telling" /\ UNCHANGED <<req, answers>>
    BY <1>11 DEF TellOne
  <2>2. \/ pc' = pc /\ idx' = [idx EXCEPT ![h] = idx[h] + 1]
        \/ pc' = [pc EXCEPT ![h] = "fallback"] /\ idx' = [idx EXCEPT ![h] = 1]
    BY <1>11 DEF TellOne, ReleaseNet, Goto, LoopEnds
  <2>3. CASE pc' = pc /\ idx' = [idx EXCEPT ![h] = idx[h] + 1]
    BY <2>1, <2>3, TypeOK, ReqOK
  <2>4. CASE pc' = [pc EXCEPT ![h] = "fallback"] /\ idx' = [idx EXCEPT ![h] = 1]
    BY <2>1, <2>4, TypeOK, ReqOK
  <2>5. QED
    BY <2>2, <2>3, <2>4
<1>12. ASSUME NEW h \in Handlers, Told(h)
      PROVE  ReqOK'
  BY <1>12, TypeOK, ReqOK DEF Told, ReleaseNet, Goto, LoopEnds
<1>13. ASSUME NEW h \in Handlers, InfTest(h)
      PROVE  ReqOK'
  BY <1>13, TypeOK, ReqOK DEF InfTest, Goto
<1>14. ASSUME NEW h \in Handlers, InfAppend(h)
      PROVE  ReqOK'
  BY <1>14, TypeOK, ReqOK DEF InfAppend, ReleaseNet, Goto
<1>15. ASSUME NEW h \in Handlers, Scan(h)
      PROVE  ReqOK'
  BY <1>15, TypeOK, ReqOK DEF Scan, Goto, LoopEnds
<1>16. ASSUME NEW h \in Handlers, Path(h)
      PROVE  ReqOK'
  BY <1>16, TypeOK, ReqOK DEF Path, Goto
<1>17. ASSUME NEW h \in Handlers, Busy(h)
      PROVE  ReqOK'
  BY <1>17, TypeOK, ReqOK DEF Busy, Goto
<1>18. ASSUME NEW h \in Handlers, BusyReply(h)
      PROVE  ReqOK'
  BY <1>18, TypeOK, ReqOK DEF BusyReply, Sent, NotSent, Goto
<1>19. ASSUME NEW h \in Handlers, OpenFile(h)
      PROVE  ReqOK'
  BY <1>19, TypeOK, ReqOK DEF OpenFile, Goto
<1>20. ASSUME NEW h \in Handlers, ServeFile(h)
      PROVE  ReqOK'
  BY <1>20, TypeOK, ReqOK DEF ServeFile, Sent, NotSent, Goto
<1>21. ASSUME NEW h \in Handlers, NEW r \in Requests, Receive(h, r)
      PROVE  ReqOK'
  BY <1>21, TypeOK, ReqOK DEF Receive, Goto
<1>22. ASSUME ClientStep \/ Tick \/ UNCHANGED vars
      PROVE  ReqOK'
  BY <1>22, TypeOK, ReqOK, ClientFrame
<1>23. QED
  BY <1>1, <1>2, <1>3, <1>4, <1>5, <1>6, <1>7, <1>8, <1>9, <1>10, <1>11, <1>12,
     <1>13, <1>14, <1>15, <1>16, <1>17, <1>18, <1>19, <1>20, <1>21, <1>22 DEF Next, Handle

\* What network.remove leaves: one entry less, the others in their order.
LEMMA WithoutType ==
  ASSUME network \in Seq(Entries), NEW i \in 1..Len(network)
  PROVE  /\ Without(i) \in Seq(Entries)
         /\ Len(Without(i)) = Len(network) - 1
         /\ \A j \in 1..Len(network) - 1 :
              Without(i)[j] = IF j < i THEN network[j] ELSE network[j + 1]
<1>. DEFINE n == Len(network) - 1
            f(j) == IF j < i THEN network[j] ELSE network[j + 1]
<1>1. n \in Nat /\ Len(network) \in Nat
  BY LenProperties
<1>2. \A j \in 1..n : f(j) \in Entries
  BY <1>1, ElementOfSeq
<1>3. Without(i) = [j \in 1..n |-> f(j)]
  BY DEF Without
<1>4. Without(i) \in [1..n -> Entries]
  BY <1>2, <1>3
<1>5. Without(i) \in Seq(Entries)
  BY <1>1, <1>4, SeqDef
<1>6. Len(Without(i)) = n
  BY <1>1, <1>4, <1>5, LenProperties
<1>7. QED
  BY <1>3, <1>5, <1>6

\* The tuples the code appends to network are entries.
LEMMA EntryTypes ==
  ASSUME TypeOK
  PROVE  /\ MyEntry \in Entries
         /\ \A l \in [addr : Addresses, sig : Sigs] : Learned(l) \in Entries
         /\ \A a \in Addresses, s \in Sigs :
              /\ Informed(a, s) \in Entries
              /\ Entry(a, assemble_signature(s, "str"), "str", clock) \in Entries
<1>1. clock \in Int
  BY PyAssumption DEF TypeOK
<1>2. QED
  BY <1>1, PyAssumption DEF MyEntry, Learned, Informed, Entry, assemble_signature, Entries, Hashes, Addresses

\* The requests a handler works on are well-formed.
LEMMA RequestTypes ==
  ASSUME TypeOK, ReqOK, NEW h \in Handlers
  PROVE  /\ pc[h] = "append" => req[h].addr \in Addresses /\ req[h].sig \in Sigs
         /\ pc[h] = "add" => req[h].about \in Addresses /\ req[h].sig \in Sigs
  BY PyAssumption DEF ReqOK

\* network changes only by network.remove and by the three appends.
LEMMA NetworkSteps ==
  ASSUME [Next]_vars
  PROVE  \/ \E h \in Handlers : Purge(h) \/ RegAppend(h) \/ InfAppend(h)
         \/ CMerge
         \/ network' = network
  BY DEF Next, vars, Handle, ClientStep, Tick, Receive, Stamp, Dispatch, SendError, Fallback, RegTest,
         RegExists, RegReply, TellOthers, TellOne, Told, InfTest, Scan, Path, Busy, BusyReply, OpenFile,
         ServeFile, CRegister, CMergeStart, CMergeEnd, CCheck, CQuit, CPick, CMark, CFetch, CUnmark,
         CCreate, CWrite

\* Only a tick changes the clock.
LEMMA ClockSteps ==
  ASSUME [Next]_vars
  PROVE  clock' = clock \/ Tick
  BY DEF Next, vars, Handle, ClientStep, ClientKeeps, Receive, Stamp, Purge, Dispatch, SendError,
         Fallback, RegTest, RegExists, RegAppend, RegReply, TellOthers, TellOne, Told, InfTest, InfAppend,
         Scan, Path, Busy, BusyReply, OpenFile, ServeFile, CRegister, CMergeStart, CMerge, CMergeEnd,
         CCheck, CQuit, CPick, CMark, CFetch, CUnmark, CCreate, CWrite

\* Removing and appending keep network a list of entries.
LEMMA NetTypeStep ==
  ASSUME TypeOK, ReqOK, [Next]_vars
  PROVE  NetType'
<1>. USE TypeParts DEF NetType
<1>1. clock' \in 0..MaxTime
  BY TypeOK, ClockSteps, PyAssumption DEF Tick
<1>2. ASSUME NEW h \in Handlers, Purge(h)
      PROVE  network' \in Seq(Entries)
  BY <1>2, TypeOK, WithoutType DEF Purge
<1>3. ASSUME NEW h \in Handlers, RegAppend(h)
      PROVE  network' \in Seq(Entries)
  BY <1>3, TypeOK, EntryTypes, RequestTypes, ReqOK, AppendProperties DEF RegAppend
<1>4. ASSUME NEW h \in Handlers, InfAppend(h)
      PROVE  network' \in Seq(Entries)
  BY <1>4, TypeOK, EntryTypes, RequestTypes, ReqOK, AppendProperties DEF InfAppend
<1>5. ASSUME CMerge
      PROVE  network' \in Seq(Entries)
  <2>1. Head(pend) \in [addr : Addresses, sig : Sigs]
    BY <1>5, TypeOK, HeadTailProperties DEF CMerge, PendType
  <2>2. Learned(Head(pend)) \in Entries
    BY <2>1, TypeOK, EntryTypes
  <2>3. network' = network \/ network' = Append(network, Learned(Head(pend)))
    BY <1>5 DEF CMerge
  <2>4. QED
    BY <2>2, <2>3, TypeOK, AppendProperties
<1>6. QED
  BY <1>1, <1>2, <1>3, <1>4, <1>5, NetworkSteps, TypeOK

\* Handlers leave the client's variables and the files alone.
LEMMA ServerFrame ==
  ASSUME NEW h \in Handlers, Handle(h) \/ \E r \in Requests : Receive(h, r)
  PROVE  UNCHANGED <<retrieving, disk, clock, cpc, cname, cok, pend, retrieves>>
  BY DEF Handle, clientVars, Receive, Stamp, Purge, Dispatch, SendError,
         Fallback, RegTest, RegExists, RegAppend, RegReply, TellOthers, TellOne, Told, InfTest, InfAppend,
         Scan, Path, Busy, BusyReply, OpenFile, ServeFile

\* Every step of run_client keeps the client's variables well-typed.
LEMMA ClientTypeStep ==
  ASSUME TypeOK, [Next]_vars
  PROVE  (ClientType /\ DiskType /\ PendType)'
<1>. USE TypeParts DEF ClientType, ClientPcs, DiskType, PendType
<1>1. ASSUME CRegister
      PROVE  (ClientType /\ DiskType /\ PendType)'
  BY <1>1, TypeOK, PyAssumption DEF CRegister, ClientKeeps
<1>2. ASSUME CMergeStart
      PROVE  (ClientType /\ DiskType /\ PendType)'
  BY <1>2, TypeOK DEF CMergeStart, AcquireNet, ClientKeeps
<1>3. ASSUME CMerge
      PROVE  (ClientType /\ DiskType /\ PendType)'
  BY <1>3, TypeOK, HeadTailProperties DEF CMerge, ClientKeeps
<1>4. ASSUME CMergeEnd
      PROVE  (ClientType /\ DiskType /\ PendType)'
  BY <1>4, TypeOK DEF CMergeEnd, ReleaseNet, ClientKeeps
<1>5. ASSUME CCheck
      PROVE  (ClientType /\ DiskType /\ PendType)'
  BY <1>5, TypeOK DEF CCheck, ClientKeeps
<1>6. ASSUME CQuit
      PROVE  (ClientType /\ DiskType /\ PendType)'
  BY <1>6, TypeOK DEF CQuit, ClientKeeps
<1>7. ASSUME CPick
      PROVE  (ClientType /\ DiskType /\ PendType)'
  BY <1>7, TypeOK DEF CPick, ClientKeeps
<1>8. ASSUME CMark
      PROVE  (ClientType /\ DiskType /\ PendType)'
  BY <1>8, TypeOK DEF CMark, ClientKeeps
<1>9. ASSUME CFetch
      PROVE  (ClientType /\ DiskType /\ PendType)'
  BY <1>9, TypeOK DEF CFetch, ClientKeeps
<1>10. ASSUME CUnmark
      PROVE  (ClientType /\ DiskType /\ PendType)'
  BY <1>10, TypeOK DEF CUnmark, ClientKeeps
<1>11. ASSUME CCreate
      PROVE  (ClientType /\ DiskType /\ PendType)'
  BY <1>11, TypeOK DEF CCreate, ClientKeeps
<1>12. ASSUME CWrite
      PROVE  (ClientType /\ DiskType /\ PendType)'
  BY <1>12, TypeOK DEF CWrite, ClientKeeps
<1>13. ASSUME Tick \/ UNCHANGED vars \/ \E h \in Handlers : Handle(h) \/ \E r \in Requests : Receive(h, r)
      PROVE  (ClientType /\ DiskType /\ PendType)'
  BY <1>13, TypeOK, ServerFrame DEF Tick, vars, clientVars
<1>14. QED
  BY <1>1, <1>2, <1>3, <1>4, <1>5, <1>6, <1>7, <1>8, <1>9, <1>10, <1>11, <1>12, <1>13 DEF Next, ClientStep

\* A mutex is free, or held by a thread, or was taken along by one that ended.
LEMMA LockTypeStep ==
  ASSUME TypeOK, [Next]_vars
  PROVE  LockType'
<1>. USE TypeParts DEF LockType
<1>1. ASSUME NEW h \in Handlers, Stamp(h)
      PROVE  LockType'
  BY <1>1, TypeOK DEF Stamp, AcquireNet, Goto
<1>2. ASSUME NEW h \in Handlers, Purge(h)
      PROVE  LockType'
  BY <1>2, TypeOK DEF Purge, Without
<1>3. ASSUME NEW h \in Handlers, Dispatch(h)
      PROVE  LockType'
  BY <1>3, TypeOK DEF Dispatch, ReleaseNet, Goto
<1>4. ASSUME NEW h \in Handlers, SendError(h)
      PROVE  LockType'
  BY <1>4, TypeOK DEF SendError, Sent, NotSent, Goto, Refusals
<1>5. ASSUME NEW h \in Handlers, Fallback(h)
      PROVE  LockType'
  BY <1>5, TypeOK DEF Fallback, Sent, NotSent, Goto
<1>6. ASSUME NEW h \in Handlers, RegTest(h)
      PROVE  LockType'
  BY <1>6, TypeOK DEF RegTest, Goto
<1>7. ASSUME NEW h \in Handlers, RegExists(h)
      PROVE  LockType'
  BY <1>7, TypeOK DEF RegExists, Sent, NotSent, ReleaseNet, Goto
<1>8. ASSUME NEW h \in Handlers, RegAppend(h)
      PROVE  LockType'
  BY <1>8, TypeOK DEF RegAppend, ReleaseNet, Goto
<1>9. ASSUME NEW h \in Handlers, RegReply(h)
      PROVE  LockType'
  BY <1>9, TypeOK DEF RegReply, Sent, NotSent, Goto
<1>10. ASSUME NEW h \in Handlers, TellOthers(h)
      PROVE  LockType'
  BY <1>10, TypeOK DEF TellOthers, AcquireNet, Goto
<1>11. ASSUME NEW h \in Handlers, TellOne(h)
      PROVE  LockType'
  BY <1>11, TypeOK DEF TellOne, ReleaseNet, Goto, LoopEnds
<1>12. ASSUME NEW h \in Handlers, Told(h)
      PROVE  LockType'
  BY <1>12, TypeOK DEF Told, ReleaseNet, Goto, LoopEnds
<1>13. ASSUME NEW h \in Handlers, InfTest(h)
      PROVE  LockType'
  BY <1>13, TypeOK DEF InfTest, Goto
<1>14. ASSUME NEW h \in Handlers, InfAppend(h)
      PROVE  LockType'
  BY <1>14, TypeOK DEF InfAppend, ReleaseNet, Goto
<1>15. ASSUME NEW h \in Handlers, Scan(h)
      PROVE  LockType'
  BY <1>15, TypeOK DEF Scan, Goto, LoopEnds
<1>16. ASSUME NEW h \in Handlers, Path(h)
      PROVE  LockType'
  BY <1>16, TypeOK DEF Path, Goto
<1>17. ASSUME NEW h \in Handlers, Busy(h)
      PROVE  LockType'
  BY <1>17, TypeOK DEF Busy, Goto
<1>18. ASSUME NEW h \in Handlers, BusyReply(h)
      PROVE  LockType'
  BY <1>18, TypeOK DEF BusyReply, Sent, NotSent, Goto
<1>19. ASSUME NEW h \in Handlers, OpenFile(h)
      PROVE  LockType'
  BY <1>19, TypeOK DEF OpenFile, Goto
<1>20. ASSUME NEW h \in Handlers, ServeFile(h)
      PROVE  LockType'
  BY <1>20, TypeOK DEF ServeFile, Sent, NotSent, Goto
<1>21. ASSUME NEW h \in Handlers, NEW r \in Requests, Receive(h, r)
      PROVE  LockType'
  BY <1>21, TypeOK DEF Receive, Goto
<1>22. ASSUME CRegister
      PROVE  LockType'
  BY <1>22, TypeOK DEF CRegister, ClientKeeps
<1>23. ASSUME CMergeStart
      PROVE  LockType'
  BY <1>23, TypeOK DEF CMergeStart, AcquireNet, ClientKeeps
<1>24. ASSUME CMerge
      PROVE  LockType'
  BY <1>24, TypeOK DEF CMerge, ClientKeeps
<1>25. ASSUME CMergeEnd
      PROVE  LockType'
  BY <1>25, TypeOK DEF CMergeEnd, ReleaseNet, ClientKeeps
<1>26. ASSUME CCheck
      PROVE  LockType'
  BY <1>26, TypeOK DEF CCheck, ClientKeeps
<1>27. ASSUME CQuit
      PROVE  LockType'
  BY <1>27, TypeOK DEF CQuit, ClientKeeps
<1>28. ASSUME CPick
      PROVE  LockType'
  BY <1>28, TypeOK DEF CPick, ClientKeeps
<1>29. ASSUME CMark
      PROVE  LockType'
  BY <1>29, TypeOK DEF CMark, ClientKeeps
<1>30. ASSUME CFetch
      PROVE  LockType'
  BY <1>30, TypeOK DEF CFetch, ClientKeeps
<1>31. ASSUME CUnmark
      PROVE  LockType'
  BY <1>31, TypeOK DEF CUnmark, ClientKeeps
<1>32. ASSUME CCreate
      PROVE  LockType'
  BY <1>32, TypeOK DEF CCreate, ClientKeeps
<1>33. ASSUME CWrite
      PROVE  LockType'
  BY <1>33, TypeOK DEF CWrite, ClientKeeps
<1>34. ASSUME Tick \/ UNCHANGED vars
      PROVE  LockType'
  BY <1>34, TypeOK DEF Tick, vars
<1>35. QED
  BY <1>1, <1>2, <1>3, <1>4, <1>5, <1>6, <1>7, <1>8, <1>9, <1>10, <1>11, <1>12,
     <1>13, <1>14, <1>15, <1>16, <1>17, <1>18, <1>19, <1>20, <1>21, <1>22,
     <1>23, <1>24, <1>25, <1>26, <1>27, <1>28, <1>29, <1>30, <1>31, <1>32,
     <1>33, <1>34 DEF Next, Handle, ClientStep

\* to_remove changes only in the loop over the timestamps and in the removal.
LEMMA DropSteps ==
  ASSUME [Next]_vars
  PROVE  \/ \E h \in Handlers : Stamp(h) \/ Purge(h) \/ Dispatch(h)
         \/ drop' = drop
<1>1. ASSUME ClientStep \/ Tick \/ UNCHANGED vars
      PROVE  drop' = drop
  BY <1>1, ClientFrame
<1>2. QED
  BY <1>1 DEF Next, Handle, Receive, SendError,
         Fallback, RegTest, RegExists, RegAppend, RegReply, TellOthers, TellOne, Told, InfTest, InfAppend,
         Scan, Path, Busy, BusyReply, OpenFile, ServeFile

\* What a handler flags are entries.
LEMMA DropTypeStep ==
  ASSUME TypeOK, [Next]_vars
  PROVE  DropType'
<1>. USE TypeParts DEF DropType, NetType
<1>1. ASSUME NEW h \in Handlers, Stamp(h)
      PROVE  DropType'
  BY <1>1, TypeOK, ElementOfSeq DEF Stamp
<1>2. ASSUME NEW h \in Handlers, Purge(h)
      PROVE  DropType'
  BY <1>2, TypeOK DEF Purge
<1>3. ASSUME NEW h \in Handlers, Dispatch(h)
      PROVE  DropType'
  BY <1>3, TypeOK DEF Dispatch
<1>4. QED
  BY <1>1, <1>2, <1>3, TypeOK, DropSteps

\* The client releases network_mutex only at the end of a merge.
LEMMA BrokenByClient ==
  ASSUME ClientStep \/ Tick \/ UNCHANGED vars
  PROVE  broken' = broken \/ CMergeEnd
  BY DEF ClientStep, Tick, vars, CRegister, CMergeStart, CMerge,
         CCheck, CQuit, CPick, CMark, CFetch, CUnmark, CCreate, CWrite

\* The history variables stay Boolean.
LEMMA LostTypeStep ==
  ASSUME TypeOK, [Next]_vars
  PROVE  LostType'
<1>. USE TypeParts DEF LostType
<1>1. ASSUME NEW h \in Handlers, Stamp(h)
      PROVE  LostType'
  BY <1>1, TypeOK DEF Stamp, AcquireNet, Goto
<1>2. ASSUME NEW h \in Handlers, Purge(h)
      PROVE  LostType'
  BY <1>2, TypeOK DEF Purge, Without
<1>3. ASSUME NEW h \in Handlers, Dispatch(h)
      PROVE  LostType'
  BY <1>3, TypeOK DEF Dispatch, ReleaseNet, Goto
<1>4. ASSUME NEW h \in Handlers, SendError(h)
      PROVE  LostType'
  BY <1>4, TypeOK DEF SendError, Sent, NotSent, Goto, Refusals
<1>5. ASSUME NEW h \in Handlers, Fallback(h)
      PROVE  LostType'
  BY <1>5, TypeOK DEF Fallback, Sent, NotSent, Goto
<1>6. ASSUME NEW h \in Handlers, RegTest(h)
      PROVE  LostType'
  BY <1>6, TypeOK DEF RegTest, Goto
<1>7. ASSUME NEW h \in Handlers, RegExists(h)
      PROVE  LostType'
  BY <1>7, TypeOK DEF RegExists, Sent, NotSent, ReleaseNet, Goto
<1>8. ASSUME NEW h \in Handlers, RegAppend(h)
      PROVE  LostType'
  BY <1>8, TypeOK DEF RegAppend, ReleaseNet, Goto
<1>9. ASSUME NEW h \in Handlers, RegReply(h)
      PROVE  LostType'
  BY <1>9, TypeOK DEF RegReply, Sent, NotSent, Goto
<1>10. ASSUME NEW h \in Handlers, TellOthers(h)
      PROVE  LostType'
  BY <1>10, TypeOK DEF TellOthers, AcquireNet, Goto
<1>11. ASSUME NEW h \in Handlers, TellOne(h)
      PROVE  LostType'
  BY <1>11, TypeOK DEF TellOne, ReleaseNet, Goto, LoopEnds
<1>12. ASSUME NEW h \in Handlers, Told(h)
      PROVE  LostType'
  BY <1>12, TypeOK DEF Told, ReleaseNet, Goto, LoopEnds
<1>13. ASSUME NEW h \in Handlers, InfTest(h)
      PROVE  LostType'
  BY <1>13, TypeOK DEF InfTest, Goto
<1>14. ASSUME NEW h \in Handlers, InfAppend(h)
      PROVE  LostType'
  BY <1>14, TypeOK DEF InfAppend, ReleaseNet, Goto
<1>15. ASSUME NEW h \in Handlers, Scan(h)
      PROVE  LostType'
  BY <1>15, TypeOK DEF Scan, Goto, LoopEnds
<1>16. ASSUME NEW h \in Handlers, Path(h)
      PROVE  LostType'
  BY <1>16, TypeOK DEF Path, Goto
<1>17. ASSUME NEW h \in Handlers, Busy(h)
      PROVE  LostType'
  BY <1>17, TypeOK DEF Busy, Goto
<1>18. ASSUME NEW h \in Handlers, BusyReply(h)
      PROVE  LostType'
  BY <1>18, TypeOK DEF BusyReply, Sent, NotSent, Goto
<1>19. ASSUME NEW h \in Handlers, OpenFile(h)
      PROVE  LostType'
  BY <1>19, TypeOK DEF OpenFile, Goto
<1>20. ASSUME NEW h \in Handlers, ServeFile(h)
      PROVE  LostType'
  BY <1>20, TypeOK DEF ServeFile, Sent, NotSent, Goto
<1>21. ASSUME NEW h \in Handlers, NEW r \in Requests, Receive(h, r)
      PROVE  LostType'
  BY <1>21, TypeOK DEF Receive, Goto
<1>22. ASSUME ClientStep \/ Tick \/ UNCHANGED vars
      PROVE  LostType'
  BY <1>22, TypeOK, ClientFrame, BrokenByClient DEF CMergeEnd, ReleaseNet
<1>23. QED
  BY <1>1, <1>2, <1>3, <1>4, <1>5, <1>6, <1>7, <1>8, <1>9, <1>10, <1>11, <1>12,
     <1>13, <1>14, <1>15, <1>16, <1>17, <1>18, <1>19, <1>20, <1>21, <1>22 DEF Next, Handle

\* Every step preserves types and requests.
LEMMA TypeStep ==
  ASSUME TypeOK, ReqOK, [Next]_vars
  PROVE  TypeOK' /\ ReqOK'
<1>1. TypeOK' <=> (NetType /\ LockType /\ DiskType /\ HandlerType /\ DropType /\ LostType /\ ClientType /\ PendType)'
  BY DEF TypeOK, NetType, LockType, DiskType, HandlerType, DropType, LostType, ClientType, PendType
<1>2. QED
  BY <1>1, ReqStep, NetTypeStep, LockTypeStep, HandlerStep, DropTypeStep, LostTypeStep, ClientTypeStep

\* Types and requests, initially.
LEMMA TypeInit ==
  ASSUME Init
  PROVE  TypeOK /\ ReqOK
<1>1. network \in Seq(Entries)
  BY PyAssumption DEF Init, MyEntry, Entry, Entries, Hashes, Addresses
<1>2. clock \in 0..MaxTime
  BY PyAssumption DEF Init
<1>3. LockType /\ DiskType /\ DropType /\ LostType
  BY DEF Init, LockType, DiskType, DropType, LostType
<1>4. ClientType /\ PendType
  <2>1. pend = << >> /\ cok = FALSE /\ cpc = "register" /\ cname \in Names /\ retrieves = 0
    BY DEF Init
  <2>2. PendType
    BY <2>1 DEF PendType
  <2>3. QED
    BY <2>1, <2>2 DEF ClientType, ClientPcs
<1>5. HandlerType
  BY DEF Init, HandlerType, HandlerPcs
<1>6. ReqOK
  BY DEF Init, ReqOK
<1>7. QED
  BY <1>1, <1>2, <1>3, <1>4, <1>5, <1>6, TypeParts DEF NetType

\* The positions at which a handler is inside network_mutex.
Holding == {"purge", "append", "telling", "add"}
\* The threads, nobody and the thread that ended are different.
LEMMA ThreadsDistinct ==
  /\ Client \notin Handlers /\ Gone \notin Handlers /\ NoThread \notin Handlers
  /\ Client # NoThread /\ Gone # NoThread /\ Client # Gone
  BY PyAssumption

\* Our own entry, the one without a timestamp, is never flagged.
DropOK == \A h \in Handlers : \A e \in drop[h] : e.ts # -1

\* No removal reaches our own entry, and no append puts an entry before it.
LEMMA OwnStep ==
  ASSUME TypeOK, ReqOK, OwnEntryFirst, DropOK, [Next]_vars
  PROVE  OwnEntryFirst' /\ DropOK'
<1>. USE TypeParts DEF NetType, DropType
<1>1. Len(network) \in Nat /\ clock \in Nat
  BY TypeOK, LenProperties, PyAssumption
<1>2. ASSUME NEW new, network' = Append(network, new), new.ts # -1
      PROVE  OwnEntryFirst'
  <2>1. /\ Len(network') = Len(network) + 1
        /\ network'[Len(network) + 1] = new
        /\ \A j \in 1..Len(network) : network'[j] = network[j]
    BY <1>2, TypeOK
  <2>2. QED
    BY <1>1, <1>2, <2>1, OwnEntryFirst DEF OwnEntryFirst, MyEntry, Entry
<1>3. ASSUME NEW h \in Handlers, Purge(h)
      PROVE  OwnEntryFirst'
  <2>1. PICK i \in 1..Len(network) : network[i] \in drop[h] /\ network' = Without(i)
    BY <1>3 DEF Purge
  <2>2. network[i].ts # -1 /\ network[1].ts = -1
    BY <2>1, DropOK, OwnEntryFirst DEF DropOK, OwnEntryFirst, MyEntry, Entry
  <2>3. i \in 2..Len(network)
    BY <1>1, <2>1, <2>2
  <2>4. /\ Len(network') = Len(network) - 1
        /\ \A j \in 1..Len(network) - 1 : network'[j] = IF j < i THEN network[j] ELSE network[j + 1]
    BY <2>1, TypeOK, WithoutType
  <2>5. Len(network') >= 1 /\ network'[1] = MyEntry
    BY <1>1, <2>3, <2>4, OwnEntryFirst DEF OwnEntryFirst
  <2>6. \A j \in 2..Len(network') : network'[j].ts # -1
    BY <1>1, <2>3, <2>4, OwnEntryFirst DEF OwnEntryFirst
  <2>7. MyEntry' = MyEntry
    BY DEF MyEntry, Entry
  <2>8. QED
    BY <2>5, <2>6, <2>7 DEF OwnEntryFirst
<1>4. ASSUME NEW h \in Handlers, RegAppend(h)
      PROVE  OwnEntryFirst'
  BY <1>1, <1>2, <1>4 DEF RegAppend, Entry
<1>5. ASSUME NEW h \in Handlers, InfAppend(h)
      PROVE  OwnEntryFirst'
  BY <1>1, <1>2, <1>5 DEF InfAppend, Informed, Entry
<1>6. ASSUME CMerge
      PROVE  OwnEntryFirst'
  <2>1. CASE network' = Append(network, Learned(Head(pend)))
    BY <1>1, <1>2, <2>1 DEF Learned, Entry
  <2>2. CASE network' = network
    BY <2>2, OwnEntryFirst DEF OwnEntryFirst, MyEntry, Entry
  <2>3. QED
    BY <1>6, <2>1, <2>2 DEF CMerge
<1>7. ASSUME network' = network
      PROVE  OwnEntryFirst'
  BY <1>7, OwnEntryFirst DEF OwnEntryFirst, MyEntry, Entry
<1>8. OwnEntryFirst'
  BY <1>3, <1>4, <1>5, <1>6, <1>7, NetworkSteps
<1>9. ASSUME NEW h \in Handlers, Stamp(h)
      PROVE  DropOK'
  BY <1>9, TypeOK, DropOK DEF Stamp, DropOK, Expired
<1>10. ASSUME NEW h \in Handlers, Purge(h)
       PROVE  DropOK'
  BY <1>10, TypeOK, DropOK DEF Purge, DropOK
<1>11. ASSUME NEW h \in Handlers, Dispatch(h)
       PROVE  DropOK'
  BY <1>11, TypeOK, DropOK DEF Dispatch, DropOK
<1>12. DropOK'
  BY <1>9, <1>10, <1>11, DropSteps, DropOK DEF DropOK
<1>13. QED
  BY <1>8, <1>12

\* Where handle goes once the mutex is released.
LEMMA DispatchTo ==
  ASSUME TypeOK, ReqOK, NEW h \in Handlers, Dispatch(h)
  PROVE  \E p \in {"fallback", "malformed", "bad_request", "register", "inform", "retrieve"} :
            pc' = [pc EXCEPT ![h] = p]
<1>. USE TypeParts DEF HandlerType
<1>1. req[h] \in Requests /\ req[h].cmd # "garbage"
  BY TypeOK, ReqOK DEF ReqOK, Dispatch
<1>2. req[h].cmd \in Commands \ {"garbage"}
  BY <1>1, PyAssumption
<1>3. Verdict(req[h]) \in {"malformed", "bad_request", "register", "inform", "retrieve"}
  BY <1>2 DEF Verdict, Commands
<1>4. QED
  BY <1>3 DEF Dispatch, Goto

\* Every acquire and release keeps HoldersRelease: the except clause of _register
\* releases a mutex that another thread holds only by setting broken.
LEMMA HoldersStep ==
  ASSUME TypeOK, ReqOK, OwnEntryFirst, HoldersRelease, [Next]_vars
  PROVE  HoldersRelease'
<1>. USE TypeParts, ThreadsDistinct DEF HandlerType, LockType, LostType, HoldersRelease
<1>1. ASSUME NEW h \in Handlers, Stamp(h)
      PROVE  HoldersRelease'
  BY <1>1, TypeOK, HoldersRelease DEF Stamp, AcquireNet, Goto, clientVars
<1>2. ASSUME NEW h \in Handlers, Purge(h)
      PROVE  HoldersRelease'
  BY <1>2, TypeOK, HoldersRelease DEF Purge, Without, clientVars
<1>3. ASSUME NEW h \in Handlers, Dispatch(h)
      PROVE  HoldersRelease'
  <2>1. PICK p \in {"fallback", "malformed", "bad_request", "register", "inform", "retrieve"} :
               pc' = [pc EXCEPT ![h] = p]
    BY <1>3, TypeOK, ReqOK, DispatchTo
  <2>2. /\ pc[h] = "purge" /\ netLock' = NoThread
        /\ ~broken' => ~broken
        /\ UNCHANGED <<retLock, lost, cpc>>
    BY <1>3 DEF Dispatch, ReleaseNet, clientVars
  <2>3. QED
    BY <2>1, <2>2, TypeOK, HoldersRelease
<1>4. ASSUME NEW h \in Handlers, SendError(h)
      PROVE  HoldersRelease'
  BY <1>4, TypeOK, HoldersRelease DEF SendError, Sent, NotSent, Goto, Refusals, clientVars
<1>5. ASSUME NEW h \in Handlers, Fallback(h)
      PROVE  HoldersRelease'
  BY <1>5, TypeOK, HoldersRelease DEF Fallback, Sent, NotSent, Goto, clientVars
<1>6. ASSUME NEW h \in Handlers, RegTest(h)
      PROVE  HoldersRelease'
  BY <1>6, TypeOK, HoldersRelease DEF RegTest, Goto, clientVars
<1>7. ASSUME NEW h \in Handlers, RegExists(h)
      PROVE  HoldersRelease'
  <2>1. pc[h] = "exists" /\ retLock' = retLock /\ cpc' = cpc
    BY <1>7 DEF RegExists, clientVars
  <2>2. CASE pc' = [pc EXCEPT ![h] = "idle"] /\ UNCHANGED <<netLock, broken, lost>>
    BY <2>1, <2>2, TypeOK, HoldersRelease
  <2>3. CASE /\ pc' = [pc EXCEPT ![h] = "fallback"] /\ lost' = [lost EXCEPT ![h] = TRUE]
             /\ netLock' = NoThread /\ broken' = (broken \/ netLock \notin {h, NoThread})
    <3>1. ~broken' => ~broken /\ netLock = NoThread
      BY <2>1, <2>3, TypeOK, HoldersRelease
    <3>2. QED
      BY <2>1, <2>3, <3>1, TypeOK, HoldersRelease
  <2>4. QED
    BY <1>7, <2>2, <2>3 DEF RegExists, Sent, NotSent, ReleaseNet, Goto
<1>8. ASSUME NEW h \in Handlers, RegAppend(h)
      PROVE  HoldersRelease'
  BY <1>8, TypeOK, HoldersRelease DEF RegAppend, ReleaseNet, Goto, clientVars
<1>9. ASSUME NEW h \in Handlers, RegReply(h)
      PROVE  HoldersRelease'
  BY <1>9, TypeOK, HoldersRelease DEF RegReply, Sent, NotSent, Goto, clientVars
<1>10. ASSUME NEW h \in Handlers, TellOthers(h)
      PROVE  HoldersRelease'
  BY <1>10, TypeOK, HoldersRelease DEF TellOthers, AcquireNet, Goto, clientVars
<1>11. ASSUME NEW h \in Handlers, TellOne(h)
      PROVE  HoldersRelease'
  <2>1. /\ pc[h] = "telling" /\ cpc' = cpc
        /\ \/ UNCHANGED <<pc, netLock, broken>>
           \/ ReleaseNet(h) /\ pc' = [pc EXCEPT ![h] = "fallback"]
    BY <1>11 DEF TellOne, Goto, clientVars
  <2>2. CASE UNCHANGED <<pc, netLock, broken>>
    BY <2>1, <2>2, HoldersRelease
  <2>3. CASE ReleaseNet(h) /\ pc' = [pc EXCEPT ![h] = "fallback"]
    BY <2>1, <2>3, TypeOK, HoldersRelease DEF ReleaseNet
  <2>4. QED
    BY <2>1, <2>2, <2>3
<1>12. ASSUME NEW h \in Handlers, Told(h)
      PROVE  HoldersRelease'
  BY <1>12, TypeOK, HoldersRelease DEF Told, ReleaseNet, Goto, LoopEnds, clientVars
<1>13. ASSUME NEW h \in Handlers, InfTest(h)
      PROVE  HoldersRelease'
  BY <1>13, TypeOK, HoldersRelease DEF InfTest, Goto, clientVars
<1>14. ASSUME NEW h \in Handlers, InfAppend(h)
      PROVE  HoldersRelease'
  BY <1>14, TypeOK, HoldersRelease DEF InfAppend, ReleaseNet, Goto, clientVars
<1>15. ASSUME NEW h \in Handlers, Scan(h)
      PROVE  HoldersRelease'
  BY <1>15, TypeOK, HoldersRelease DEF Scan, Goto, LoopEnds, clientVars
<1>16. ASSUME NEW h \in Handlers, Path(h)
      PROVE  HoldersRelease'
  BY <1>16, TypeOK, HoldersRelease DEF Path, Goto, clientVars
<1>17. ASSUME NEW h \in Handlers, Busy(h)
      PROVE  HoldersRelease'
  BY <1>17, TypeOK, HoldersRelease DEF Busy, Goto, clientVars
<1>18. ASSUME NEW h \in Handlers, BusyReply(h)
      PROVE  HoldersRelease'
  BY <1>18, TypeOK, HoldersRelease DEF BusyReply, Sent, NotSent, Goto, clientVars
<1>19. ASSUME NEW h \in Handlers, OpenFile(h)
      PROVE  HoldersRelease'
  BY <1>19, TypeOK, HoldersRelease DEF OpenFile, Goto, clientVars
<1>20. ASSUME NEW h \in Handlers, ServeFile(h)
      PROVE  HoldersRelease'
  BY <1>20, TypeOK, HoldersRelease DEF ServeFile, Sent, NotSent, Goto, clientVars
<1>21. ASSUME NEW h \in Handlers, NEW r \in Requests, Receive(h, r)
      PROVE  HoldersRelease'
  BY <1>21, TypeOK, HoldersRelease DEF Receive, Goto, clientVars
<1>22. ASSUME CRegister
      PROVE  HoldersRelease'
  BY <1>22, TypeOK, HoldersRelease DEF CRegister, ClientKeeps, serverVars
<1>23. ASSUME CMergeStart
      PROVE  HoldersRelease'
  BY <1>23, TypeOK, HoldersRelease DEF CMergeStart, AcquireNet, ClientKeeps, serverVars
<1>24. ASSUME CMerge
      PROVE  HoldersRelease'
  BY <1>24, TypeOK, HoldersRelease DEF CMerge, ClientKeeps, serverVars
<1>25. ASSUME CMergeEnd
      PROVE  HoldersRelease'
  BY <1>25, TypeOK, HoldersRelease DEF CMergeEnd, ReleaseNet, ClientKeeps, serverVars
<1>26. ASSUME CCheck
      PROVE  HoldersRelease'
  BY <1>26, TypeOK, HoldersRelease, OwnEntryFirst DEF CCheck, ClientKeeps, serverVars, OwnEntryFirst
<1>27. ASSUME CQuit
      PROVE  HoldersRelease'
  BY <1>27, TypeOK, HoldersRelease DEF CQuit, ClientKeeps, serverVars
<1>28. ASSUME CPick
      PROVE  HoldersRelease'
  BY <1>28, TypeOK, HoldersRelease DEF CPick, ClientKeeps, serverVars
<1>29. ASSUME CMark
      PROVE  HoldersRelease'
  BY <1>29, TypeOK, HoldersRelease DEF CMark, ClientKeeps, serverVars
<1>30. ASSUME CFetch
      PROVE  HoldersRelease'
  BY <1>30, TypeOK, HoldersRelease DEF CFetch, ClientKeeps, serverVars
<1>31. ASSUME CUnmark
      PROVE  HoldersRelease'
  BY <1>31, TypeOK, HoldersRelease DEF CUnmark, ClientKeeps, serverVars
<1>32. ASSUME CCreate
      PROVE  HoldersRelease'
  BY <1>32, TypeOK, HoldersRelease DEF CCreate, ClientKeeps, serverVars
<1>33. ASSUME CWrite
      PROVE  HoldersRelease'
  BY <1>33, TypeOK, HoldersRelease DEF CWrite, ClientKeeps, serverVars
<1>34. ASSUME Tick \/ UNCHANGED vars
      PROVE  HoldersRelease'
  BY <1>34, HoldersRelease DEF Tick, vars, serverVars, clientVars
<1>35. QED
  BY <1>1, <1>2, <1>3, <1>4, <1>5, <1>6, <1>7, <1>8, <1>9, <1>10, <1>11, <1>12,
     <1>13, <1>14, <1>15, <1>16, <1>17, <1>18, <1>19, <1>20, <1>21, <1>22,
     <1>23, <1>24, <1>25, <1>26, <1>27, <1>28, <1>29, <1>30, <1>31, <1>32,
     <1>33, <1>34 DEF Next, Handle, ClientStep

\* Every return of handle has an answer, a failed send or an INFORM behind it.
LEMMA AnsweredStep ==
  ASSUME TypeOK, ReqOK, AlwaysAnswered, [Next]_vars
  PROVE  AlwaysAnswered'
<1>. USE TypeParts DEF HandlerType, LostType, ReqOK, AlwaysAnswered
<1>1. ASSUME NEW h \in Handlers, Stamp(h)
      PROVE  AlwaysAnswered'
  BY <1>1, TypeOK, ReqOK, AlwaysAnswered DEF Stamp, AcquireNet, Goto
<1>2. ASSUME NEW h \in Handlers, Purge(h)
      PROVE  AlwaysAnswered'
  BY <1>2, TypeOK, ReqOK, AlwaysAnswered DEF Purge, Without
<1>3. ASSUME NEW h \in Handlers, Dispatch(h)
      PROVE  AlwaysAnswered'
  <2>1. PICK p \in {"fallback", "malformed", "bad_request", "register", "inform", "retrieve"} :
               pc' = [pc EXCEPT ![h] = p]
    BY <1>3, TypeOK, ReqOK, DispatchTo
  <2>2. QED
    BY <1>3, <2>1, TypeOK, AlwaysAnswered DEF Dispatch
<1>4. ASSUME NEW h \in Handlers, SendError(h)
      PROVE  AlwaysAnswered'
  BY <1>4, TypeOK, ReqOK, AlwaysAnswered DEF SendError, Sent, NotSent, Goto, Refusals
<1>5. ASSUME NEW h \in Handlers, Fallback(h)
      PROVE  AlwaysAnswered'
  BY <1>5, TypeOK, ReqOK, AlwaysAnswered DEF Fallback, Sent, NotSent, Goto
<1>6. ASSUME NEW h \in Handlers, RegTest(h)
      PROVE  AlwaysAnswered'
  BY <1>6, TypeOK, ReqOK, AlwaysAnswered DEF RegTest, Goto
<1>7. ASSUME NEW h \in Handlers, RegExists(h)
      PROVE  AlwaysAnswered'
  BY <1>7, TypeOK, ReqOK, AlwaysAnswered DEF RegExists, Sent, NotSent, ReleaseNet, Goto
<1>8. ASSUME NEW h \in Handlers, RegAppend(h)
      PROVE  AlwaysAnswered'
  BY <1>8, TypeOK, ReqOK, AlwaysAnswered DEF RegAppend, ReleaseNet, Goto
<1>9. ASSUME NEW h \in Handlers, RegReply(h)
      PROVE  AlwaysAnswered'
  BY <1>9, TypeOK, ReqOK, AlwaysAnswered DEF RegReply, Sent, NotSent, Goto
<1>10. ASSUME NEW h \in Handlers, TellOthers(h)
      PROVE  AlwaysAnswered'
  BY <1>10, TypeOK, ReqOK, AlwaysAnswered DEF TellOthers, AcquireNet, Goto
<1>11. ASSUME NEW h \in Handlers, TellOne(h)
      PROVE  AlwaysAnswered'
  BY <1>11, TypeOK, ReqOK, AlwaysAnswered DEF TellOne, ReleaseNet, Goto, LoopEnds
<1>12. ASSUME NEW h \in Handlers, Told(h)
      PROVE  AlwaysAnswered'
  BY <1>12, TypeOK, ReqOK, AlwaysAnswered DEF Told, ReleaseNet, Goto, LoopEnds
<1>13. ASSUME NEW h \in Handlers, InfTest(h)
      PROVE  AlwaysAnswered'
  BY <1>13, TypeOK, ReqOK, AlwaysAnswered DEF InfTest, Goto
<1>14. ASSUME NEW h \in Handlers, InfAppend(h)
      PROVE  AlwaysAnswered'
  BY <1>14, TypeOK, ReqOK, AlwaysAnswered DEF InfAppend, ReleaseNet, Goto
<1>15. ASSUME NEW h \in Handlers, Scan(h)
      PROVE  AlwaysAnswered'
  BY <1>15, TypeOK, ReqOK, AlwaysAnswered DEF Scan, Goto, LoopEnds
<1>16. ASSUME NEW h \in Handlers, Path(h)
      PROVE  AlwaysAnswered'
  BY <1>16, TypeOK, ReqOK, AlwaysAnswered DEF Path, Goto
<1>17. ASSUME NEW h \in Handlers, Busy(h)
      PROVE  AlwaysAnswered'
  BY <1>17, TypeOK, ReqOK, AlwaysAnswered DEF Busy, Goto
<1>18. ASSUME NEW h \in Handlers, BusyReply(h)
      PROVE  AlwaysAnswered'
  BY <1>18, TypeOK, ReqOK, AlwaysAnswered DEF BusyReply, Sent, NotSent, Goto
<1>19. ASSUME NEW h \in Handlers, OpenFile(h)
      PROVE  AlwaysAnswered'
  BY <1>19, TypeOK, ReqOK, AlwaysAnswered DEF OpenFile, Goto
<1>20. ASSUME NEW h \in Handlers, ServeFile(h)
      PROVE  AlwaysAnswered'
  BY <1>20, TypeOK, ReqOK, AlwaysAnswered DEF ServeFile, Sent, NotSent, Goto
<1>21. ASSUME NEW h \in Handlers, NEW r \in Requests, Receive(h, r)
      PROVE  AlwaysAnswered'
  BY <1>21, TypeOK, ReqOK, AlwaysAnswered DEF Receive, Goto
<1>22. ASSUME ClientStep \/ Tick \/ UNCHANGED vars
      PROVE  AlwaysAnswered'
  BY <1>22, AlwaysAnswered, ClientFrame
<1>23. QED
  BY <1>1, <1>2, <1>3, <1>4, <1>5, <1>6, <1>7, <1>8, <1>9, <1>10, <1>11, <1>12,
     <1>13, <1>14, <1>15, <1>16, <1>17, <1>18, <1>19, <1>20, <1>21, <1>22 DEF Next, Handle

\* broken is never reset.
LEMMA BrokenStays ==
  ASSUME [Next]_vars, broken
  PROVE  broken'
  BY DEF Next, vars, Handle, ClientStep, Tick, ReleaseNet, Receive, Stamp, Purge, Dispatch, SendError,
         Fallback, RegTest, RegExists, RegAppend, RegReply, TellOthers, TellOne, Told, InfTest, InfAppend,
         Scan, Path, Busy, BusyReply, OpenFile, ServeFile, CRegister, CMergeStart, CMerge, CMergeEnd,
         CCheck, CQuit, CPick, CMark, CFetch, CUnmark, CCreate, CWrite

\* network_mutex excludes: at most one handler is inside, and none with the client.
LEMMA OneHolder ==
  ASSUME HoldersRelease, ~broken
  PROVE  /\ \A g, h \in Handlers : pc[g] \in Holding /\ pc[h] \in Holding => g = h
         /\ cpc = "merging" => \A h \in Handlers : pc[h] \notin Holding
  BY ThreadsDistinct DEF HoldersRelease, Holding

\* The test for a known address still holds when the append is reached.
Fresh ==
    ~broken => \A h \in Handlers :
                 /\ pc[h] = "append" => ~Known(req[h].addr)
                 /\ pc[h] = "add" => ~Known(req[h].about)

\* The client changes network only while it merges, that is, inside the mutex.
LEMMA ClientNetwork ==
  ASSUME ClientStep \/ Tick \/ UNCHANGED vars
  PROVE  network' = network \/ cpc = "merging"
  BY DEF ClientStep, Tick, vars, CRegister, CMergeStart, CMerge, CMergeEnd,
         CCheck, CQuit, CPick, CMark, CFetch, CUnmark, CCreate, CWrite

\* No other thread changes network between the test and the append.
LEMMA FreshStep ==
  ASSUME TypeOK, ReqOK, HoldersRelease, Fresh, [Next]_vars
  PROVE  Fresh'
<1>. USE TypeParts DEF HandlerType, Fresh, Known, Holding
<1>1. ASSUME NEW h \in Handlers, Stamp(h)
      PROVE  Fresh'
  BY <1>1, TypeOK, Fresh DEF Stamp, AcquireNet, Goto
<1>2. ASSUME NEW h \in Handlers, Purge(h)
      PROVE  Fresh'
  <2>1. ASSUME ~broken', NEW g \in Handlers, g # h
        PROVE  pc[g] \notin {"append", "add"} /\ pc'[g] = pc[g]
    BY <1>2, <2>1, TypeOK, BrokenStays, HoldersRelease, OneHolder DEF Purge, Goto
  <2>2. ~broken' => pc'[h] \notin {"append", "add"}
    BY <1>2, TypeOK DEF Purge, Without
  <2>3. QED
    BY <2>1, <2>2
<1>3. ASSUME NEW h \in Handlers, Dispatch(h)
      PROVE  Fresh'
  <2>1. PICK p \in {"fallback", "malformed", "bad_request", "register", "inform", "retrieve"} :
               pc' = [pc EXCEPT ![h] = p]
    BY <1>3, TypeOK, ReqOK, DispatchTo
  <2>2. UNCHANGED <<network, req>>
    BY <1>3 DEF Dispatch
  <2>3. QED
    BY <2>1, <2>2, TypeOK, Fresh, BrokenStays
<1>4. ASSUME NEW h \in Handlers, SendError(h)
      PROVE  Fresh'
  BY <1>4, TypeOK, Fresh DEF SendError, Sent, NotSent, Goto, Refusals
<1>5. ASSUME NEW h \in Handlers, Fallback(h)
      PROVE  Fresh'
  BY <1>5, TypeOK, Fresh DEF Fallback, Sent, NotSent, Goto
<1>6. ASSUME NEW h \in Handlers, RegTest(h)
      PROVE  Fresh'
  BY <1>6, TypeOK, Fresh DEF RegTest, Goto
<1>7. ASSUME NEW h \in Handlers, RegExists(h)
      PROVE  Fresh'
  BY <1>7, TypeOK, Fresh DEF RegExists, Sent, NotSent, ReleaseNet, Goto
<1>8. ASSUME NEW h \in Handlers, RegAppend(h)
      PROVE  Fresh'
  <2>1. ASSUME ~broken', NEW g \in Handlers, g # h
        PROVE  pc[g] \notin {"append", "add"} /\ pc'[g] = pc[g]
    BY <1>8, <2>1, TypeOK, BrokenStays, HoldersRelease, OneHolder DEF RegAppend, Goto
  <2>2. ~broken' => pc'[h] \notin {"append", "add"}
    BY <1>8, TypeOK DEF RegAppend, ReleaseNet, Goto
  <2>3. QED
    BY <2>1, <2>2
<1>9. ASSUME NEW h \in Handlers, RegReply(h)
      PROVE  Fresh'
  BY <1>9, TypeOK, Fresh DEF RegReply, Sent, NotSent, Goto
<1>10. ASSUME NEW h \in Handlers, TellOthers(h)
      PROVE  Fresh'
  BY <1>10, TypeOK, Fresh DEF TellOthers, AcquireNet, Goto
<1>11. ASSUME NEW h \in Handlers, TellOne(h)
      PROVE  Fresh'
  <2>1. UNCHANGED <<network, req>>
    BY <1>11 DEF TellOne
  <2>2. pc' = pc \/ pc' = [pc EXCEPT ![h] = "fallback"]
    BY <1>11 DEF TellOne, ReleaseNet, Goto, LoopEnds
  <2>3. QED
    BY <2>1, <2>2, TypeOK, Fresh, BrokenStays
<1>12. ASSUME NEW h \in Handlers, Told(h)
      PROVE  Fresh'
  BY <1>12, TypeOK, Fresh DEF Told, ReleaseNet, Goto, LoopEnds
<1>13. ASSUME NEW h \in Handlers, InfTest(h)
      PROVE  Fresh'
  BY <1>13, TypeOK, Fresh DEF InfTest, Goto
<1>14. ASSUME NEW h \in Handlers, InfAppend(h)
      PROVE  Fresh'
  <2>1. ASSUME ~broken', NEW g \in Handlers, g # h
        PROVE  pc[g] \notin {"append", "add"} /\ pc'[g] = pc[g]
    BY <1>14, <2>1, TypeOK, BrokenStays, HoldersRelease, OneHolder DEF InfAppend, Goto
  <2>2. ~broken' => pc'[h] \notin {"append", "add"}
    BY <1>14, TypeOK DEF InfAppend, ReleaseNet, Goto
  <2>3. QED
    BY <2>1, <2>2
<1>15. ASSUME NEW h \in Handlers, Scan(h)
      PROVE  Fresh'
  BY <1>15, TypeOK, Fresh DEF Scan, Goto, LoopEnds
<1>16. ASSUME NEW h \in Handlers, Path(h)
      PROVE  Fresh'
  BY <1>16, TypeOK, Fresh DEF Path, Goto
<1>17. ASSUME NEW h \in Handlers, Busy(h)
      PROVE  Fresh'
  BY <1>17, TypeOK, Fresh DEF Busy, Goto
<1>18. ASSUME NEW h \in Handlers, BusyReply(h)
      PROVE  Fresh'
  BY <1>18, TypeOK, Fresh DEF BusyReply, Sent, NotSent, Goto
<1>19. ASSUME NEW h \in Handlers, OpenFile(h)
      PROVE  Fresh'
  BY <1>19, TypeOK, Fresh DEF OpenFile, Goto
<1>20. ASSUME NEW h \in Handlers, ServeFile(h)
      PROVE  Fresh'
  BY <1>20, TypeOK, Fresh DEF ServeFile, Sent, NotSent, Goto
<1>21. ASSUME NEW h \in Handlers, NEW r \in Requests, Receive(h, r)
      PROVE  Fresh'
  BY <1>21, TypeOK, Fresh DEF Receive, Goto
<1>22. ASSUME ClientStep \/ Tick \/ UNCHANGED vars
      PROVE  Fresh'
  BY <1>22, TypeOK, Fresh, ClientFrame, ClientNetwork, BrokenStays, HoldersRelease, OneHolder
<1>23. QED
  BY <1>1, <1>2, <1>3, <1>4, <1>5, <1>6, <1>7, <1>8, <1>9, <1>10, <1>11, <1>12,
     <1>13, <1>14, <1>15, <1>16, <1>17, <1>18, <1>19, <1>20, <1>21, <1>22 DEF Next, Handle

\* No address is listed twice.
Distinct == \A i, j \in 1..Len(network) : network[i].addr = network[j].addr => i = j

\* Appending an entry whose address is not listed keeps addresses distinct.
LEMMA DistinctAppend ==
  ASSUME network \in Seq(Entries), Distinct, NEW new, network' = Append(network, new), ~Known(new.addr)
  PROVE  Distinct'
<1>1. /\ Len(network) \in Nat /\ Len(network') = Len(network) + 1
      /\ network'[Len(network) + 1] = new
      /\ \A j \in 1..Len(network) : network'[j] = network[j]
  BY LenProperties
<1>2. QED
  BY <1>1 DEF Distinct, Known

\* Removing an entry keeps addresses distinct.
LEMMA DistinctPurge ==
  ASSUME network \in Seq(Entries), Distinct, NEW i \in 1..Len(network), network' = Without(i)
  PROVE  Distinct'
<1>1. /\ Len(network) \in Nat /\ Len(network') = Len(network) - 1
      /\ \A j \in 1..Len(network) - 1 : network'[j] = IF j < i THEN network[j] ELSE network[j + 1]
  BY WithoutType, LenProperties
<1>2. ASSUME NEW j \in 1..Len(network'), NEW k \in 1..Len(network'), network'[j].addr = network'[k].addr
      PROVE  j = k
  BY <1>1, <1>2 DEF Distinct
<1>3. QED
  BY <1>2 DEF Distinct

\* Every change of network keeps AddressesDistinct.
LEMMA DistinctStep ==
  ASSUME TypeOK, Fresh, AddressesDistinct, [Next]_vars
  PROVE  AddressesDistinct'
<1>. USE TypeParts DEF NetType
<1>1. SUFFICES ASSUME ~broken'
               PROVE  Distinct'
  BY DEF AddressesDistinct, Distinct
<1>2. ~broken /\ Distinct
  BY <1>1, BrokenStays, AddressesDistinct DEF AddressesDistinct, Distinct
<1>3. ASSUME NEW h \in Handlers, Purge(h)
      PROVE  Distinct'
  BY <1>2, <1>3, TypeOK, DistinctPurge DEF Purge
<1>4. ASSUME NEW h \in Handlers, RegAppend(h)
      PROVE  Distinct'
  BY <1>2, <1>4, TypeOK, Fresh, DistinctAppend DEF RegAppend, Fresh, Entry
<1>5. ASSUME NEW h \in Handlers, InfAppend(h)
      PROVE  Distinct'
  BY <1>2, <1>5, TypeOK, Fresh, DistinctAppend DEF InfAppend, Fresh, Informed, Entry
<1>6. ASSUME CMerge
      PROVE  Distinct'
  <2>1. CASE network' = Append(network, Learned(Head(pend))) /\ ~Known(Head(pend).addr)
    BY <1>2, <2>1, TypeOK, DistinctAppend DEF Learned, Entry
  <2>2. CASE network' = network
    BY <1>2, <2>2 DEF Distinct
  <2>3. QED
    BY <1>6, <2>1, <2>2 DEF CMerge
<1>7. QED
  BY <1>2, <1>3, <1>4, <1>5, <1>6, NetworkSteps DEF Distinct

\* The only entries whose saved signature can match are those of peers that
\* registered here: an entry learned from another peer was salted otherwise.
Listed ==
    \A i \in 1..Len(network) :
      network[i].sig.salted = network[i].salt => <<network[i].addr, network[i].sig.of>> \in registered

\* Whoever passed the check of the signature has registered with it.
Authorised ==
    \A h \in Handlers :
      pc[h] \in {"path", "busy", "incomplete", "open", "serve"} => <<req[h].addr, req[h].sig>> \in registered

\* Registrations are never forgotten, and _register records one.
LEMMA RegisteredSteps ==
  ASSUME [Next]_vars
  PROVE  /\ registered \subseteq registered'
         /\ \A h \in Handlers : RegAppend(h) => <<req[h].addr, req[h].sig>> \in registered'
<1>1. ASSUME ClientStep \/ Tick \/ UNCHANGED vars
      PROVE  registered' = registered
  BY <1>1, ClientFrame
<1>2. \A h \in Handlers : RegAppend(h) => <<req[h].addr, req[h].sig>> \in registered'
  BY DEF RegAppend
<1>3. registered \subseteq registered'
  BY <1>1 DEF Next, Handle, Receive, Stamp, Purge, Dispatch, SendError, Fallback, RegTest, RegExists,
         RegAppend, RegReply, TellOthers, TellOne, Told, InfTest, InfAppend, Scan, Path, Busy, BusyReply,
         OpenFile, ServeFile
<1>4. QED
  BY <1>2, <1>3

\* Every change of network keeps Listed.
LEMMA ListedStep ==
  ASSUME TypeOK, Listed, [Next]_vars
  PROVE  Listed'
<1>. USE TypeParts DEF NetType
<1>1. ASSUME NEW new, network' = Append(network, new),
             new.sig.salted = new.salt => <<new.addr, new.sig.of>> \in registered'
      PROVE  Listed'
  <2>1. /\ Len(network) \in Nat /\ Len(network') = Len(network) + 1
        /\ network'[Len(network) + 1] = new
        /\ \A j \in 1..Len(network) : network'[j] = network[j]
    BY <1>1, TypeOK, LenProperties
  <2>2. QED
    BY <1>1, <2>1, Listed, RegisteredSteps DEF Listed
<1>2. ASSUME NEW h \in Handlers, Purge(h)
      PROVE  Listed'
  <2>1. PICK i \in 1..Len(network) : network' = Without(i)
    BY <1>2 DEF Purge
  <2>2. /\ Len(network) \in Nat /\ Len(network') = Len(network) - 1
        /\ \A j \in 1..Len(network) - 1 : network'[j] = IF j < i THEN network[j] ELSE network[j + 1]
    BY <2>1, TypeOK, WithoutType, LenProperties
  <2>3. QED
    BY <2>2, Listed, RegisteredSteps DEF Listed
<1>3. ASSUME NEW h \in Handlers, RegAppend(h)
      PROVE  Listed'
  <2>1. <<req[h].addr, req[h].sig>> \in registered'
    BY <1>3, RegisteredSteps
  <2>2. network' = Append(network, Entry(req[h].addr, assemble_signature(req[h].sig, "str"), "str", clock))
    BY <1>3 DEF RegAppend
  <2>3. QED
    BY <1>1, <2>1, <2>2 DEF Entry, assemble_signature
<1>4. ASSUME NEW h \in Handlers, InfAppend(h)
      PROVE  Listed'
  BY <1>1, <1>4 DEF InfAppend, Informed, Entry
<1>5. ASSUME CMerge
      PROVE  Listed'
  <2>1. CASE network' = Append(network, Learned(Head(pend)))
    BY <1>1, <2>1 DEF Learned, Entry, assemble_signature
  <2>2. CASE network' = network
    BY <2>2, Listed, RegisteredSteps DEF Listed
  <2>3. QED
    BY <1>5, <2>1, <2>2 DEF CMerge
<1>6. ASSUME network' = network
      PROVE  Listed'
  BY <1>6, Listed, RegisteredSteps DEF Listed
<1>7. QED
  BY <1>2, <1>3, <1>4, <1>5, <1>6, NetworkSteps

\* Only the scan of _handle_request lets a request pass, and only on a match.
LEMMA AuthorisedStep ==
  ASSUME TypeOK, ReqOK, Listed, Authorised, [Next]_vars
  PROVE  Authorised'
<1>. USE TypeParts DEF HandlerType, Authorised
<1>1. ASSUME NEW h \in Handlers, Stamp(h)
      PROVE  Authorised'
  BY <1>1, TypeOK, Authorised, RegisteredSteps DEF Stamp, AcquireNet, Goto
<1>2. ASSUME NEW h \in Handlers, Purge(h)
      PROVE  Authorised'
  BY <1>2, TypeOK, Authorised, RegisteredSteps DEF Purge, Without
<1>3. ASSUME NEW h \in Handlers, Dispatch(h)
      PROVE  Authorised'
  <2>1. PICK p \in {"fallback", "malformed", "bad_request", "register", "inform", "retrieve"} :
               pc' = [pc EXCEPT ![h] = p]
    BY <1>3, TypeOK, ReqOK, DispatchTo
  <2>2. UNCHANGED <<registered, req>>
    BY <1>3 DEF Dispatch
  <2>3. QED
    BY <2>1, <2>2, TypeOK, Authorised
<1>4. ASSUME NEW h \in Handlers, SendError(h)
      PROVE  Authorised'
  BY <1>4, TypeOK, Authorised, RegisteredSteps DEF SendError, Sent, NotSent, Goto, Refusals
<1>5. ASSUME NEW h \in Handlers, Fallback(h)
      PROVE  Authorised'
  BY <1>5, TypeOK, Authorised, RegisteredSteps DEF Fallback, Sent, NotSent, Goto
<1>6. ASSUME NEW h \in Handlers, RegTest(h)
      PROVE  Authorised'
  BY <1>6, TypeOK, Authorised, RegisteredSteps DEF RegTest, Goto
<1>7. ASSUME NEW h \in Handlers, RegExists(h)
      PROVE  Authorised'
  BY <1>7, TypeOK, Authorised, RegisteredSteps DEF RegExists, Sent, NotSent, ReleaseNet, Goto
<1>8. ASSUME NEW h \in Handlers, RegAppend(h)
      PROVE  Authorised'
  BY <1>8, TypeOK, Authorised, RegisteredSteps DEF RegAppend, ReleaseNet, Goto
<1>9. ASSUME NEW h \in Handlers, RegReply(h)
      PROVE  Authorised'
  BY <1>9, TypeOK, Authorised, RegisteredSteps DEF RegReply, Sent, NotSent, Goto
<1>10. ASSUME NEW h \in Handlers, TellOthers(h)
      PROVE  Authorised'
  BY <1>10, TypeOK, Authorised, RegisteredSteps DEF TellOthers, AcquireNet, Goto
<1>11. ASSUME NEW h \in Handlers, TellOne(h)
      PROVE  Authorised'
  BY <1>11, TypeOK, Authorised, RegisteredSteps DEF TellOne, ReleaseNet, Goto, LoopEnds
<1>12. ASSUME NEW h \in Handlers, Told(h)
      PROVE  Authorised'
  BY <1>12, TypeOK, Authorised, RegisteredSteps DEF Told, ReleaseNet, Goto, LoopEnds
<1>13. ASSUME NEW h \in Handlers, InfTest(h)
      PROVE  Authorised'
  BY <1>13, TypeOK, Authorised, RegisteredSteps DEF InfTest, Goto
<1>14. ASSUME NEW h \in Handlers, InfAppend(h)
      PROVE  Authorised'
  BY <1>14, TypeOK, Authorised, RegisteredSteps DEF InfAppend, ReleaseNet, Goto
<1>15. ASSUME NEW h \in Handlers, Scan(h)
      PROVE  Authorised'
  <2>1. UNCHANGED <<req, registered>>
    BY <1>15 DEF Scan
  <2>2. CASE pc' = [pc EXCEPT ![h] = "path"]
    <3>1. /\ pc[h] = "retrieve" /\ idx[h] \in 1..Len(network)
          /\ network[idx[h]].addr = req[h].addr
          /\ network[idx[h]].sig = assemble_signature(req[h].sig, network[idx[h]].salt)
      BY <1>15, <2>2, TypeOK, ReqOK, LenProperties DEF Scan, Goto, NetType, ReqOK
    <3>2. <<req[h].addr, req[h].sig>> \in registered
      BY <3>1, Listed DEF Listed, assemble_signature
    <3>3. QED
      BY <2>1, <2>2, <3>2, TypeOK, Authorised
  <2>3. CASE pc' = pc \/ \E p \in {"bad_password", "peer_missing"} : pc' = [pc EXCEPT ![h] = p]
    BY <2>1, <2>3, TypeOK, Authorised
  <2>4. QED
    BY <1>15, <2>2, <2>3 DEF Scan, Goto
<1>16. ASSUME NEW h \in Handlers, Path(h)
      PROVE  Authorised'
  BY <1>16, TypeOK, Authorised, RegisteredSteps DEF Path, Goto
<1>17. ASSUME NEW h \in Handlers, Busy(h)
      PROVE  Authorised'
  BY <1>17, TypeOK, Authorised, RegisteredSteps DEF Busy, Goto
<1>18. ASSUME NEW h \in Handlers, BusyReply(h)
      PROVE  Authorised'
  BY <1>18, TypeOK, Authorised, RegisteredSteps DEF BusyReply, Sent, NotSent, Goto
<1>19. ASSUME NEW h \in Handlers, OpenFile(h)
      PROVE  Authorised'
  BY <1>19, TypeOK, Authorised, RegisteredSteps DEF OpenFile, Goto
<1>20. ASSUME NEW h \in Handlers, ServeFile(h)
      PROVE  Authorised'
  BY <1>20, TypeOK, Authorised, RegisteredSteps DEF ServeFile, Sent, NotSent, Goto
<1>21. ASSUME NEW h \in Handlers, NEW r \in Requests, Receive(h, r)
      PROVE  Authorised'
  BY <1>21, TypeOK, Authorised, RegisteredSteps DEF Receive, Goto
<1>22. ASSUME ClientStep \/ Tick \/ UNCHANGED vars
      PROVE  Authorised'
  BY <1>22, Authorised, ClientFrame
<1>23. QED
  BY <1>1, <1>2, <1>3, <1>4, <1>5, <1>6, <1>7, <1>8, <1>9, <1>10, <1>11, <1>12,
     <1>13, <1>14, <1>15, <1>16, <1>17, <1>18, <1>19, <1>20, <1>21, <1>22 DEF Next, Handle

\* A file is sent only to a request that passed.
LEMMA ServedStep ==
  ASSUME TypeOK, Authorised, ServedRegistered, [Next]_vars
  PROVE  ServedRegistered'
<1>1. ASSUME ClientStep \/ Tick \/ UNCHANGED vars
      PROVE  served' = served
  BY <1>1, ClientFrame
<1>2. \/ served' = served
      \/ \E h \in Handlers : ServeFile(h)
  BY <1>1 DEF Next, Handle, Receive, Stamp, Purge, Dispatch, SendError, Fallback, RegTest, RegExists,
         RegAppend, RegReply, TellOthers, TellOne, Told, InfTest, InfAppend, Scan, Path, Busy, BusyReply,
         OpenFile
<1>3. ASSUME NEW h \in Handlers, ServeFile(h)
      PROVE  ServedRegistered'
  <2>1. <<req[h].addr, req[h].sig>> \in registered /\ registered' = registered
    BY <1>3, Authorised DEF ServeFile, Authorised
  <2>2. \/ served' = served
        \/ served' = served \cup {[to |-> req[h].addr, sig |-> req[h].sig, content |-> data[h]]}
    BY <1>3 DEF ServeFile
  <2>3. ASSUME NEW s \in served'
        PROVE  <<s.to, s.sig>> \in registered'
    <3>1. CASE s \in served
      BY <2>1, <3>1, ServedRegistered DEF ServedRegistered
    <3>2. CASE s = [to |-> req[h].addr, sig |-> req[h].sig, content |-> data[h]]
      <4>1. s.to = req[h].addr /\ s.sig = req[h].sig
        BY <3>2
      <4>2. QED
        BY <2>1, <4>1
    <3>3. QED
      BY <2>2, <2>3, <3>1, <3>2
  <2>4. QED
    BY <2>3 DEF ServedRegistered
<1>4. QED
  BY <1>2, <1>3, RegisteredSteps, ServedRegistered DEF ServedRegistered

\* The inductive invariant.
Inv ==
    /\ TypeOK /\ ReqOK
    /\ OwnEntryFirst /\ DropOK
    /\ HoldersRelease /\ AlwaysAnswered
    /\ Fresh /\ AddressesDistinct
    /\ Listed /\ Authorised /\ ServedRegistered

\* The invariant holds initially.
LEMMA InvInit ==
  ASSUME Init
  PROVE  Inv
<1>1. TypeOK /\ ReqOK
  BY TypeInit
<1>2. network = <<MyEntry>> /\ Len(network) = 1 /\ network[1] = MyEntry
  BY DEF Init
<1>3. OwnEntryFirst /\ AddressesDistinct
  BY <1>2 DEF OwnEntryFirst, AddressesDistinct
<1>4. DropOK
  BY DEF Init, DropOK
<1>5. HoldersRelease
  BY ThreadsDistinct DEF Init, HoldersRelease
<1>6. AlwaysAnswered
  BY DEF Init, AlwaysAnswered
<1>7. Fresh /\ Authorised
  BY DEF Init, Fresh, Authorised
<1>8. Listed
  BY <1>2 DEF Listed, MyEntry, Entry
<1>9. ServedRegistered
  BY DEF Init, ServedRegistered
<1>10. QED
  BY <1>1, <1>3, <1>4, <1>5, <1>6, <1>7, <1>8, <1>9 DEF Inv

\* Every step preserves the invariant.
LEMMA InvStep ==
  ASSUME Inv, [Next]_vars
  PROVE  Inv'
  BY TypeStep, OwnStep, HoldersStep, AnsweredStep, FreshStep, DistinctStep, ListedStep, AuthorisedStep,
     ServedStep DEF Inv

\* The invariant always holds.
LEMMA InvAlways == Spec => []Inv
<1>1. Init => Inv
  BY InvInit
<1>2. Inv /\ [Next]_vars => Inv'
  BY InvStep
<1>3. QED
  BY <1>1, <1>2, PTL DEF Spec

\* The state of peer.py keeps its types: in particular no entry without an
\* address ever gets into network, though a request may come without one.
THEOREM PyTypeCorrect == Spec => []TypeOK
<1>1. Inv => TypeOK
  BY DEF Inv
<1>2. QED
  BY <1>1, InvAlways, PTL

\* However requests interleave and whatever expires, the peer's own entry stays
\* first in network; run_client's return with the mutex held is never reached.
THEOREM OwnEntryKept == Spec => []OwnEntryFirst
<1>1. Inv => OwnEntryFirst
  BY DEF Inv
<1>2. QED
  BY <1>1, InvAlways, PTL

\* With any number of handlers, network_mutex is held exactly by the thread that
\* is inside its critical section, as long as no release went wrong, and no
\* thread takes it along when it ends.
THEOREM MutexHolders == Spec => []HoldersRelease
<1>1. Inv => HoldersRelease
  BY DEF Inv
<1>2. QED
  BY <1>1, InvAlways, PTL

\* Concurrent REGISTER, INFORM and the client's merge never list an address
\* twice, as long as no thread released network_mutex for another one.
THEOREM OneEntryEach == Spec => []AddressesDistinct
<1>1. Inv => AddressesDistinct
  BY DEF Inv
<1>2. QED
  BY <1>1, InvAlways, PTL

\* Every request that is not an INFORM and whose replies could be sent has been
\* answered when handle returns.
THEOREM RequestsAnswered == Spec => []AlwaysAnswered
<1>1. Inv => AlwaysAnswered
  BY DEF Inv
<1>2. QED
  BY <1>1, InvAlways, PTL

\* _handle_request sends a file only to a peer that registered here with the
\* signature it gives, through every interleaving of registrations, expiry and
\* the scan of the list without the mutex.
THEOREM OnlyRegisteredServed == Spec => []ServedRegistered
<1>1. Inv => ServedRegistered
  BY DEF Inv
<1>2. QED
  BY <1>1, InvAlways, PTL

=============================================================================
