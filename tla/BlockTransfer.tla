--------------------------- MODULE BlockTransfer ----------------------------
(***************************************************************************)
(* One RETRIEVE between two peers of Opgave4: the serving peer reads the   *)
(* file, cuts it into blocks and writes them to the connection; the        *)
(* retrieving peer checks them, puts the file together and saves it.       *)
(* Either end may be the C peer (peer.c) or a Python peer (peer.py).       *)
(*                                                                         *)
(* A byte is a number; the SHA-256 of some bytes is modelled by the bytes  *)
(* themselves (no collisions) and the hash field the C peer leaves zero by *)
(* ZeroHash.  TCP delivers what was written in order, but a writer that    *)
(* dies may leave a last message cut short, and one recv() of the Python   *)
(* client may return less than it asked for.  A header that is cut short   *)
(* never gets a client further than its next read, which fails, so it is   *)
(* the same as the end of the stream.                                      *)
(***************************************************************************)
EXTENDS Integers, Sequences, SequencesExt, FiniteSets

CONSTANTS
    MAX_MSG_LEN, REPLY_HEADER_LEN,   \* common.h: 8196 and 80
    Bytes, EofByte,   \* EofByte: 0xFF, equal to EOF once stored in a char
    Files,            \* the contents a requested file may have
    NoFile,           \* the requested file does not exist; nothing saved
    ZeroHash,
    Servers, Clients, \* the programs at the two ends, among "c" and "py"
    MayDie,           \* whether the serving process may die or a write of it fail
    ShortReads        \* whether a recv() may return early

BLOCK == MAX_MSG_LEN - REPLY_HEADER_LEN

ASSUME TransferAssumption ==
    /\ REPLY_HEADER_LEN \in Nat \ {0} /\ MAX_MSG_LEN \in Nat
    /\ REPLY_HEADER_LEN < MAX_MSG_LEN
    /\ Bytes \subseteq Nat /\ EofByte \in Bytes
    /\ Files \subseteq Seq(Bytes)
    /\ Servers \subseteq {"c", "py"} /\ Clients \subseteq {"c", "py"}
    /\ MayDie \in BOOLEAN /\ ShortReads \in BOOLEAN

STATUS_OK == 1
STATUS_BAD_REQUEST == 5
STATUS_OTHER == 6

VARIABLES
    server, client,   \* which programs are at the two ends
    file,             \* the file on the server's disk, or NoFile
    data,             \* what the server read of it
    spc, tosend,      \* server: state, blocks not written yet
    wire, cut,        \* written and not yet read; the stream ended early
    cpc,              \* client: state
    count, total,     \* block_count and total_hash of the first header
    got,              \* client: block number -> its bytes, as stored
    overrun,          \* the C client has written past its buffer
    saved             \* the file the client wrote, or NoFile

serverVars == <<server, file, data, spc, tosend>>
clientVars == <<client, cpc, count, total, got, overrun, saved>>
vars == <<serverVars, wire, cut, clientVars>>

Init ==
    /\ server \in Servers /\ client \in Clients
    /\ file \in Files \cup {NoFile}
    /\ data = << >> /\ spc = "request" /\ tosend = << >>
    /\ wire = << >> /\ cut = FALSE
    /\ cpc = "first" /\ count = 0 /\ total = ZeroHash /\ got = << >>
    /\ overrun = FALSE /\ saved = NoFile

CeilDiv(n, d) == (n + d - 1) \div d

-----------------------------------------------------------------------------
(* The serving peer                                                        *)

\* The C loop stores fgetc's result in a char, so it stops at the first 0xFF.
UpToEof(f) ==
    LET stops == {i \in 1..Len(f) : f[i] = EofByte}
    IN  IF stops = {} THEN f
        ELSE SubSeq(f, 1, (CHOOSE i \in stops : \A j \in stops : i <= j) - 1)

Message(status, block, blocks, payload, hash, totalHash) ==
    [status |-> status, block |-> block, count |-> blocks, len |-> Len(payload),
     payload |-> payload, hash |-> hash, total |-> totalHash]

respondDropsRest(status, bytes) ==      \* mutant: the last block is no longer than the others
    LET blocks == CeilDiv(Len(bytes), MAX_MSG_LEN)
    IN  IF bytes = << >>
        THEN << Message(status, 0, 1, << >>, ZeroHash, ZeroHash) >>
        ELSE [i \in 1..blocks |->
                LET body == SubSeq(bytes, (i - 1) * BLOCK + 1,
                                   IF i * BLOCK < Len(bytes) THEN i * BLOCK ELSE Len(bytes))
                IN  Message(status, i - 1, blocks, body, body, bytes)]

respondFromOne(status, bytes) ==        \* mutant: blocks are numbered from one
    LET blocks == CeilDiv(Len(bytes), MAX_MSG_LEN)
    IN  IF bytes = << >>
        THEN << Message(status, 0, 1, << >>, ZeroHash, ZeroHash) >>
        ELSE [i \in 1..blocks |->
                LET last == IF i = blocks THEN Len(bytes) ELSE i * BLOCK
                    body == SubSeq(bytes, (i - 1) * BLOCK + 1, last)
                IN  Message(status, i, blocks, body, body, bytes)]

\* respond: the number of blocks is computed from MAX_MSG_LEN, the size of all
\* but the last from MAX_MSG_LEN - REPLY_HEADER_LEN; the last takes the rest.
respond(status, bytes) ==
    LET blocks == CeilDiv(Len(bytes), MAX_MSG_LEN)
    IN  IF bytes = << >>
        THEN << Message(status, 0, 1, << >>, ZeroHash, ZeroHash) >>
        ELSE [i \in 1..blocks |->
                LET last == IF i = blocks THEN Len(bytes) ELSE i * BLOCK
                    body == SubSeq(bytes, (i - 1) * BLOCK + 1, last)
                IN  Message(status, i - 1, blocks, body, body, bytes)]

\* _build_and_send_responses cuts the bytes evenly; ServeFile shuffles.
PyBlocks(status, bytes) ==
    LET blocks == IF bytes = << >> THEN 1 ELSE CeilDiv(Len(bytes), BLOCK)
    IN  [i \in 1..blocks |->
           LET body == SubSeq(bytes, (i - 1) * BLOCK + 1,
                              IF i * BLOCK < Len(bytes) THEN i * BLOCK ELSE Len(bytes))
           IN  Message(status, i - 1, blocks, body, body, bytes)]

\* A Python error reply carries a message text; one byte stands for it.
PyError(status) == PyBlocks(status, <<0>>)

Orders(s) == {[i \in 1..Len(s) |-> s[p[i]]] :
                p \in {f \in [1..Len(s) -> 1..Len(s)] : IsInjective(f)}}

ServeMissing ==
    /\ spc = "request" /\ file = NoFile
    /\ tosend' = IF server = "c" THEN respond(STATUS_BAD_REQUEST, << >>)
                                 ELSE PyError(STATUS_BAD_REQUEST)
    /\ spc' = "send"
    /\ UNCHANGED <<server, file, data, wire, cut, clientVars>>

ServeC ==
    /\ spc = "request" /\ file # NoFile /\ server = "c"
    /\ data' = UpToEof(file)
    /\ tosend' = respond(STATUS_OK, data')
    /\ spc' = "send"
    /\ UNCHANGED <<server, file, wire, cut, clientVars>>

\* The file is read as UTF-8 text, in which 0xFF does not occur: reading it
\* raises, and the handler answers with STATUS_OTHER.
ServePy ==
    /\ spc = "request" /\ file # NoFile /\ server = "py"
    /\ IF \E i \in 1..Len(file) : file[i] = EofByte
       THEN data' = data /\ tosend' = PyError(STATUS_OTHER)
       ELSE data' = file /\ tosend' \in Orders(PyBlocks(STATUS_OK, file))
    /\ spc' = "send"
    /\ UNCHANGED <<server, file, wire, cut, clientVars>>

Reading == cpc \in {"first", "next"}   \* the client has the connection open

ServerSend ==
    /\ spc = "send" /\ tosend # << >> /\ Reading
    /\ wire' = Append(wire, Head(tosend))
    /\ tosend' = Tail(tosend)
    /\ UNCHANGED <<server, file, data, spc, cut, clientVars>>

\* A write after the client has closed: the first ones may still be taken by
\* the socket.  After the reset a write fails, and respond returns, as the
\* handler of the Python peer does; or SIGPIPE ends the C process, which neither
\* handles nor ignores it.
ServerSendClosed ==
    /\ spc = "send" /\ tosend # << >> /\ ~Reading
    /\ \/ tosend' = Tail(tosend) /\ spc' = spc
       \/ tosend' = << >> /\ spc' = "closed"
       \/ tosend' = << >> /\ spc' = "killed" /\ server = "c"
    /\ UNCHANGED <<server, file, data, wire, cut, clientVars>>

ServerClose ==
    /\ spc = "send" /\ tosend = << >>
    /\ spc' = "closed"
    /\ UNCHANGED <<server, file, data, tosend, wire, cut, clientVars>>

\* The stream ends early; of the block being written any prefix may get through.
CutOff ==
    /\ tosend' = << >> /\ cut' = TRUE
    /\ \/ wire' = wire
       \/ /\ tosend # << >>
          /\ \E n \in 0..Head(tosend).len - 1 :
               wire' = Append(wire, [Head(tosend) EXCEPT !.payload = SubSeq(@, 1, n)])

\* The connection breaks under a write: respond returns, the handler of the
\* Python peer ends, and the connection is closed.
ServerWriteFails ==
    /\ MayDie /\ spc = "send" /\ tosend # << >>
    /\ spc' = "closed" /\ CutOff
    /\ UNCHANGED <<server, file, data, clientVars>>

\* The process dies.
ServerDies ==
    /\ MayDie /\ spc \in {"request", "send"}
    /\ spc' = "killed" /\ CutOff
    /\ UNCHANGED <<server, file, data, clientVars>>

-----------------------------------------------------------------------------
(* The retrieving peer                                                     *)

Held == Cardinality(DOMAIN got)
Content == FlattenSeq([i \in 1..Held |-> got[i - 1]])
Keep(block, bytes) ==
    got' = [n \in DOMAIN got \cup {block} |-> IF n = block THEN bytes ELSE got[n]]

Fail == cpc' = "failed" /\ UNCHANGED <<got, overrun>>

ExpectedFromOne(m) ==   \* mutant: off by one in the number expected
    m.status = STATUS_OK /\ m.block = Held + 1 /\ (m.len = 0 \/ m.payload # << >>)

\* The C client takes the blocks in order, starting with block 0, and needs
\* the body to begin to arrive.
Expected(m) == m.status = STATUS_OK /\ m.block = Held /\ (m.len = 0 \/ m.payload # << >>)
FirstHeader(m) ==
    /\ count' = IF cpc = "first" THEN m.count ELSE count
    /\ total' = IF cpc = "first" THEN m.total ELSE total
\* filebuf was allocated from the block_count of the first header.
Overruns(m) ==
    Len(Content) + m.len > (IF cpc = "first" THEN m.count ELSE count) * BLOCK

\* One block of receive_file_blocks.  If the stream ends inside the body, the
\* rest of it is whatever the buffer held; the hash is taken over all of it.
CBlock ==
    LET m == Head(wire) IN
    /\ client = "c" /\ Reading /\ wire # << >> /\ (cpc = "first" \/ Held < count)
    /\ wire' = Tail(wire)
    /\ FirstHeader(m)
    /\ IF Expected(m)
       THEN \E rest \in [1..m.len - Len(m.payload) -> Bytes] :
              IF m.payload \o rest = m.hash
              THEN /\ Keep(m.block, m.payload \o rest) /\ cpc' = "next"
                   /\ overrun' = (overrun \/ Overruns(m))
              ELSE Fail
       ELSE Fail
    /\ UNCHANGED <<serverVars, cut, client, saved>>

\* Writing past filebuf is undefined; besides going unnoticed (CBlock) it may
\* bring the process down.
CCrash ==
    /\ client = "c" /\ Reading /\ wire # << >> /\ (cpc = "first" \/ Held < count)
    /\ Expected(Head(wire)) /\ Overruns(Head(wire))
    /\ cpc' = "crashed" /\ overrun' = TRUE
    /\ UNCHANGED <<serverVars, wire, cut, client, count, total, got, saved>>

\* All blocks are there: compare the total hash, then write the file.
CSave ==
    /\ client = "c" /\ cpc = "next" /\ Held >= count
    /\ \/ Content = total /\ saved' = Content /\ cpc' = "saved"
       \/ Content # total /\ saved' = saved /\ cpc' = "failed"
    /\ UNCHANGED <<serverVars, wire, cut, client, count, total, got, overrun>>

PyBlockNoHash ==        \* mutant: the block checksum is not compared
    LET m == Head(wire) IN
    /\ client = "py" /\ Reading /\ wire # << >> /\ (cpc = "first" \/ Held < count)
    /\ wire' = Tail(wire)
    /\ FirstHeader(m)
    /\ \E n \in 0..Len(m.payload) :
         /\ n = Len(m.payload) \/ ShortReads
         /\ IF m.status = STATUS_OK
            THEN Keep(m.block, SubSeq(m.payload, 1, n)) /\ cpc' = "next" /\ overrun' = overrun
            ELSE Fail
    /\ UNCHANGED <<serverVars, cut, client, saved>>

\* One turn of send_to_server's loop: blocks in any order; the body is the n
\* bytes that a single recv() returned.
PyBlock ==
    LET m == Head(wire) IN
    /\ client = "py" /\ Reading /\ wire # << >> /\ (cpc = "first" \/ Held < count)
    /\ wire' = Tail(wire)
    /\ FirstHeader(m)
    /\ \E n \in 0..Len(m.payload) :
         /\ n = Len(m.payload) \/ ShortReads
         /\ IF m.status = STATUS_OK /\ SubSeq(m.payload, 1, n) = m.hash
            THEN Keep(m.block, SubSeq(m.payload, 1, n)) /\ cpc' = "next" /\ overrun' = overrun
            ELSE Fail
    /\ UNCHANGED <<serverVars, cut, client, saved>>

\* No block is missing: a wrong total checksum is reported, and the file is
\* written all the same.
PySave ==
    /\ client = "py" /\ cpc = "next" /\ Held = count
    /\ saved' = Content /\ cpc' = "saved"
    /\ UNCHANGED <<serverVars, wire, cut, client, count, total, got, overrun>>

StreamEndsIgnored ==    \* mutant: the end of a lost connection is read again and again
    /\ Reading /\ wire = << >> /\ (cpc = "first" \/ Held < count)
    /\ spc \in {"closed", "killed"}
    /\ cpc' = IF cut THEN cpc ELSE "failed"
    /\ UNCHANGED <<serverVars, wire, cut, client, count, total, got, overrun, saved>>

\* The stream ends where a header should begin: readn returns 0, or unpack
\* raises.
StreamEnds ==
    /\ Reading /\ wire = << >> /\ (cpc = "first" \/ Held < count)
    /\ spc \in {"closed", "killed"}
    /\ cpc' = "failed"
    /\ UNCHANGED <<serverVars, wire, cut, client, count, total, got, overrun, saved>>

\* fopen of the output file fails.
SaveFails ==
    /\ cpc = "next" /\ Held = count
    /\ cpc' = "failed"
    /\ UNCHANGED <<serverVars, wire, cut, client, count, total, got, overrun, saved>>

ServerStep == ServeMissing \/ ServeC \/ ServePy \/ ServerSend \/ ServerSendClosed \/ ServerClose
ClientStep == CBlock \/ CCrash \/ CSave \/ PyBlock \/ PySave \/ StreamEnds \/ SaveFails
Ended == spc \in {"closed", "killed"} /\ ~Reading
Next == ServerStep \/ ServerWriteFails \/ ServerDies \/ ClientStep \/ (Ended /\ UNCHANGED vars)

\* Both processes keep running unless they die, and TCP delivers unless it breaks.
Spec == Init /\ [][Next]_vars /\ WF_vars(ServerStep) /\ WF_vars(ClientStep)

-----------------------------------------------------------------------------
\* Type correctness; blocks are numbered below their count, on the wire and as
\* the client stores them.
TypeOK ==
    /\ server \in Servers /\ client \in Clients /\ file \in Files \cup {NoFile}
    /\ data \in Seq(Bytes)
    /\ spc \in {"request", "send", "closed", "killed"}
    /\ cpc \in {"first", "next", "saved", "failed", "crashed"}
    /\ \A s \in {wire, tosend} : \A i \in 1..Len(s) :
         s[i].block < s[i].count /\ Len(s[i].payload) <= s[i].len
    /\ DOMAIN got \subseteq 0..count - 1 \/ count = 0
    /\ cut \in BOOLEAN /\ overrun \in BOOLEAN

\* A file that is saved is exactly what the serving peer read, whatever order
\* the blocks came in, wherever the stream was cut and however little a read
\* returned: neither client saves part of a file.
SavedIsServed == saved # NoFile => saved = data

\* The order of the blocks does not matter to what they carry: before anything
\* is sent, the blocks of a reply, by number, are the data with nothing left
\* out or sent twice.
BlocksCoverData ==
    (spc = "send" /\ wire = << >> /\ cpc = "first" /\ tosend # << >> /\ tosend[1].status = STATUS_OK)
    => LET n == Len(tosend)
           at(b) == CHOOSE i \in 1..n : tosend[i].block = b
       IN  /\ {tosend[i].block : i \in 1..n} = 0..n - 1
           /\ \A i \in 1..n : tosend[i].count = n
           /\ FlattenSeq([b \in 1..n |-> tosend[at(b - 1)].payload]) = data

\* The C client and the C server agree: a C client that fails although the
\* server wrote all of a nonempty file fails only after it has every byte.
WholeTransferKept ==
    (cpc = "failed" /\ ~cut /\ client = "c" /\ server = "c" /\ file # NoFile /\ data # << >>)
    => Content = data

\* Neither end waits for the other for ever.
TransferEnds == <>Ended

-----------------------------------------------------------------------------
(* What comments and documents say and the code does not do                *)

\* "Alloker plads til alle blokke (maks stoerrelse)": the blocks fit.
BufferFits == ~overrun

\* The two programs agree on the format: a file that exists and whose blocks
\* all arrive passes the client's checks (only its disk may refuse it).
Complete == cpc \in {"saved", "failed", "crashed"} /\ ~cut /\ file # NoFile
FormatAgreed ==
    (Complete /\ client = "c" /\ server = "c" /\ cpc = "failed") => (Held = count /\ Content = total)

\* diff finds no difference between the file served and the file retrieved.
NoDifference == saved # NoFile => saved = file

\* A C client gets a Python peer's file.
RetrievedFromPy ==
    (Complete /\ client = "c" /\ server = "py" /\ data = file) => Content = file

\* A Python client returns the data of the reply.
DataReturned == (Complete /\ client = "py" /\ data = file) => Content = file

\* The C server goes on after a client has left: only its own death ends it.
ServerSurvives == spc = "killed" => cut
=============================================================================
