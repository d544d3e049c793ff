------------------------------ MODULE Transport -----------------------------
(***************************************************************************)
(* The ingest server (Server.cpp), the client (Client.cpp), frame          *)
(* reassembly (Protocol.cpp) and the sockets between them.                 *)
(*                                                                         *)
(* serve runs an accept loop and a pool of workers.  A worker takes a      *)
(* connection, reads what has arrived, reassembles frames and handles      *)
(* them one by one, blocking in recv and in send; mutex_ guards the        *)
(* statistics and is held across one send.  Peers are either library       *)
(* clients, which wait for every answer, or raw ones, which pipeline       *)
(* frames, send damaged ones, stop reading, or vanish.                     *)
(*                                                                         *)
(* A frame is [type, n], n numbering the frames of its peer; on the wire   *)
(* it is a header followed, unless its payload is empty, by a payload, and *)
(* a read returns any number of these units, so it may cut a frame in two. *)
(***************************************************************************)
EXTENDS Integers, Sequences, SequencesExt, FiniteSetsExt

CONSTANTS Clients,       \* peers that use TransportClient
          RawPeers,      \* peers that speak the protocol as they like
          NoOne,         \* no thread, no peer
          PoolSizes,     \* the values of max_connections of the servers looked at
          Budget,        \* stop_after_batches_, 0 for none
          MaxRequests,   \* bound: requests of a client
          RawScripts,    \* the sequences of frames a raw peer may send
          SendBuffer,    \* answers the kernel holds for a peer that does not read
          MaxBuffer      \* max_connection_buffer_bytes, in units

Peers == Clients \cup RawPeers
Workers == UNION {1..n : n \in PoolSizes}

Damaged == {"BadHeader", "BadChecksum"}
FrameTypes == {"Hello", "Batch", "StatusRequest", "Bye", "Welcome", "BatchResult",
               "StatusReply", "Error"} \cup Damaged
Answers == {"Welcome", "BatchResult", "StatusReply", "Error"}

ASSUME TransportAssumption ==
    /\ Clients \cap RawPeers = {}
    /\ NoOne \notin Clients \cup RawPeers
    /\ PoolSizes \subseteq Nat \ {0} /\ IsFiniteSet(PoolSizes)
    /\ Budget \in Nat /\ MaxRequests \in Nat
    /\ RawScripts \subseteq Seq(FrameTypes)
    /\ SendBuffer \in Nat \ {0} /\ MaxBuffer \in Nat \ {0}

VARIABLES pool,        \* pool_size
          loop,        \* accept loop: "select", "closing", "returned"
          stopping,    \* the stop token or stop_requested_
          backlog,     \* connections the kernel holds for accept
          queue,       \* accepted connections no worker has taken
          worker,      \* [Workers -> where it is, on whose connection, its frame]
          reader,      \* [Workers -> units in the FrameReader of its connection]
          mutex,       \* holder of mutex_
          stats,       \* TransportServerStats
          end,         \* [Peers -> the server's end: "none", "open", "closed"]
          peer,        \* [Peers -> where the peer is]
          up, down,    \* [Peers -> units, frames under way in each direction]
          sent,        \* history: [Peers -> types of the frames sent]
          handled,     \* history: [Peers -> frames given to handle_frame]
          ingested,    \* history: batches in the order the runtime ingested them
          told         \* history: [Clients -> numbers of the batches it knows applied]

accepting == <<pool, loop, stopping, backlog, queue>>
handling == <<worker, reader>>
counting == <<mutex, stats>>
wire == <<end, up, down>>
history == <<sent, handled, ingested, told>>
vars == <<accepting, handling, counting, wire, peer, history>>

\* An error that answers no frame in particular.
Refusal == [type |-> "Error", n |-> 0, ok |-> FALSE]

NoFrame == [type |-> "none", n |-> 0]
Idle == [at |-> "idle", peer |-> NoOne, frame |-> NoFrame, keep |-> TRUE, ok |-> TRUE]

Init ==
    /\ pool \in PoolSizes
    /\ loop = "select" /\ stopping = FALSE /\ backlog = <<>> /\ queue = <<>>
    /\ worker = [w \in Workers |-> Idle] /\ reader = [w \in Workers |-> <<>>]
    /\ mutex = NoOne
    /\ stats = [accepted |-> 0, rejected |-> 0, received |-> 0, damaged |-> 0,
                applied |-> 0, failed |-> 0]
    /\ end = [p \in Peers |-> "none"] /\ peer = [p \in Peers |-> "new"]
    /\ up = [p \in Peers |-> <<>>] /\ down = [p \in Peers |-> <<>>]
    /\ sent = [p \in Peers |-> <<>>] /\ handled = [p \in Peers |-> <<>>]
    /\ ingested = <<>> /\ told = [c \in Clients |-> {}]

-----------------------------------------------------------------------------
(* Frames and their reassembly. *)

\* encode_frame: a payload is a unit of its own unless it is empty.
Units(f) ==
    IF f.type \in {"Bye", "StatusRequest"} THEN <<<<f, "header">>>>
    ELSE <<<<f, "header">>, <<f, "payload">>>>

\* decode_frame at the front of a buffer: nothing yet, refused, or a frame.
\* The header's magic, version, type and length are looked at as soon as it is
\* there, the checksum once the payload is.
DecodeFrame(buffer) ==
    IF buffer = <<>> THEN "incomplete"
    ELSE LET f == buffer[1][1]
             whole == Len(buffer) >= Len(Units(f))
         IN CASE f.type = "BadHeader" \/ (whole /\ f.type = "BadChecksum") -> "refused"
              [] ~whole /\ f.type # "BadHeader" -> "incomplete"
              [] OTHER -> "complete"

\* FrameReader::next drops the frame it produced from the buffer.
\* Mutant: the rest of what was read is dropped with it.
ConsumedAll(buffer) == <<>>

Consumed(buffer) == SubSeq(buffer, Len(Units(buffer[1][1])) + 1, Len(buffer))

-----------------------------------------------------------------------------
(* The accept loop of serve. *)

\* The test at the top of the loop, joined to the step before it.
AfterTest == IF stopping THEN "closing" ELSE "select"

\* The same test, when the stop came just before it.
LoopStops ==
    /\ loop = "select" /\ stopping
    /\ loop' = "closing"
    /\ UNCHANGED <<handling, counting, wire, history, pool, stopping, queue, backlog, peer>>

\* select times out with nothing to accept: only here is the budget looked at.
SelectIdle ==
    /\ loop = "select" /\ backlog = <<>>
    /\ Budget > 0 /\ mutex = NoOne /\ stats.applied >= Budget
    /\ loop' = "closing"
    /\ UNCHANGED <<handling, counting, wire, history, pool, stopping, queue, backlog, peer>>

SelectFails ==
    /\ loop = "select"
    /\ loop' = "closing"
    /\ UNCHANGED <<handling, counting, wire, history, pool, stopping, queue, backlog, peer>>

\* Closing a socket with unread data resets the connection, and what the peer
\* had not read yet may be lost with it.
Closed(p) ==
    /\ end' = [end EXCEPT ![p] = "closed"]
    /\ up' = [up EXCEPT ![p] = <<>>]

AcceptFails ==
    /\ loop = "select" /\ backlog # <<>>
    /\ Closed(Head(backlog))
    /\ backlog' = Tail(backlog)
    /\ loop' = AfterTest
    /\ UNCHANGED <<handling, counting, history, pool, stopping, queue, down, peer>>

AcceptQueues ==
    /\ loop = "select" /\ backlog # <<>>
    /\ Len(queue) < pool
    /\ queue' = Append(queue, Head(backlog))
    /\ backlog' = Tail(backlog)
    /\ loop' = AfterTest
    /\ UNCHANGED <<handling, counting, wire, history, pool, stopping, peer>>

\* Mutant: a rejected connection is counted and forgotten.
AcceptRejectsSilently ==
    /\ loop = "select" /\ backlog # <<>> /\ mutex = NoOne
    /\ Len(queue) >= pool
    /\ stats' = [stats EXCEPT !.rejected = @ + 1]
    /\ backlog' = Tail(backlog)
    /\ loop' = AfterTest
    /\ UNCHANGED <<handling, wire, history, pool, stopping, queue, mutex, peer>>

\* The busy answer is sent under both mutexes; it is the first on its
\* connection, so it does not block.
AcceptRejects ==
    /\ loop = "select" /\ backlog # <<>> /\ mutex = NoOne
    /\ Len(queue) >= pool
    /\ stats' = [stats EXCEPT !.rejected = @ + 1]
    /\ LET p == Head(backlog) IN
         /\ Closed(p)
         /\ \E lost \in {FALSE, up[p] # <<>>} :
               down' = [down EXCEPT ![p] = IF lost THEN <<>> ELSE <<Refusal>>]
    /\ backlog' = Tail(backlog)
    /\ loop' = AfterTest
    /\ UNCHANGED <<handling, history, pool, stopping, queue, mutex, peer>>

\* closing has been set: serve joins the pool, then closes its socket.
ServeReturns ==
    /\ loop = "closing"
    /\ \A w \in 1..pool : worker[w].at = "exited"
    /\ loop' = "returned"
    /\ end' = [p \in Peers |-> IF p \in Range(backlog) THEN "closed" ELSE end[p]]
    /\ backlog' = <<>>
    /\ UNCHANGED <<handling, counting, history, pool, stopping, queue, up, down, peer>>

RequestStop ==
    /\ ~stopping /\ loop # "returned"
    /\ stopping' = TRUE
    /\ UNCHANGED <<handling, counting, wire, history, pool, loop, queue, backlog, peer>>

-----------------------------------------------------------------------------
(* The workers: the lambda of serve, handle_connection, handle_frame. *)

At(w, place) == w <= pool /\ worker[w].at = place

Moved(w, place) == worker' = [worker EXCEPT ![w].at = place]

\* A worker leaves only when closing is set and nothing is queued.
WorkerExits(w) ==
    /\ At(w, "idle") /\ loop = "closing" /\ queue = <<>>
    /\ Moved(w, "exited")
    /\ UNCHANGED <<accepting, counting, wire, history, reader, peer>>

TakeConnection(w) ==
    /\ At(w, "idle") /\ queue # <<>>
    /\ worker' = [worker EXCEPT ![w] = [Idle EXCEPT !.at = "taken", !.peer = Head(queue)]]
    /\ reader' = [reader EXCEPT ![w] = <<>>]
    /\ queue' = Tail(queue)
    /\ UNCHANGED <<counting, wire, history, pool, loop, stopping, backlog, peer>>

CountConnection(w) ==
    /\ At(w, "taken") /\ mutex = NoOne
    /\ stats' = [stats EXCEPT !.accepted = @ + 1]
    /\ Moved(w, "reading")
    /\ UNCHANGED <<accepting, wire, history, reader, mutex, peer>>

\* handle_connection returns: the socket is closed and the worker goes back to
\* the queue.
HangUp(w) ==
    /\ Closed(worker[w].peer)
    /\ worker' = [worker EXCEPT ![w] = Idle]
    /\ reader' = [reader EXCEPT ![w] = <<>>]

\* What a peer that was still sending has not read yet may be lost with the
\* reset.
MayLose(w) ==
    LET p == worker[w].peer IN
    \E lost \in {FALSE, up[p] # <<>>} : down' = IF lost THEN [down EXCEPT ![p] = <<>>] ELSE down

\* No complete frame is left: read on, unless a Bye was among the frames.
ReadsOn(w) == At(w, "reading") /\ DecodeFrame(reader[w]) = "incomplete" /\ worker[w].keep

\* recv returns what has arrived, in part or whole; a FrameReader that would
\* grow beyond its bound ends the connection without a word.
Receive(w) ==
    /\ ReadsOn(w)
    /\ LET p == worker[w].peer IN
         \E k \in 1..Len(up[p]) :
           \/ /\ Len(reader[w]) + k <= MaxBuffer
              /\ reader' = [reader EXCEPT ![w] = @ \o SubSeq(up[p], 1, k)]
              /\ up' = [up EXCEPT ![p] = SubSeq(@, k + 1, Len(@))]
              /\ UNCHANGED <<worker, end, down>>
           \/ /\ Len(reader[w]) + k > MaxBuffer
              /\ HangUp(w) /\ MayLose(w)
    /\ UNCHANGED <<accepting, counting, history, peer>>

\* The peer has closed and everything it sent has been read, or was lost.
ReceiveEnds(w) ==
    /\ ReadsOn(w)
    /\ peer[worker[w].peer] = "closed" /\ up[worker[w].peer] = <<>>
    /\ HangUp(w)
    /\ UNCHANGED <<accepting, counting, history, down, peer>>

ByeEnds(w) ==
    /\ At(w, "reading") /\ DecodeFrame(reader[w]) = "incomplete" /\ ~worker[w].keep
    /\ HangUp(w) /\ MayLose(w)
    /\ UNCHANGED <<accepting, counting, history, peer>>

\* handle_frame: where the worker goes with a frame of this type.
Handler(type) ==
    CASE type = "Bye" -> "reading" [] type = "Batch" -> "ingest" [] OTHER -> "reply"

\* A Bye is not answered; the frames that were read with it are still handled.
NextIsFrame(w) ==
    /\ At(w, "reading") /\ DecodeFrame(reader[w]) = "complete" /\ mutex = NoOne
    /\ LET f == reader[w][1][1] IN
         /\ worker' = [worker EXCEPT ![w].at = Handler(f.type),
                                     ![w].frame = IF f.type = "Bye" THEN NoFrame ELSE f,
                                     ![w].keep = @ /\ f.type # "Bye"]
         /\ handled' = [handled EXCEPT ![worker[w].peer] = Append(@, f)]
    /\ reader' = [reader EXCEPT ![w] = Consumed(@)]
    /\ stats' = [stats EXCEPT !.received = @ + 1]
    /\ UNCHANGED <<accepting, wire, mutex, peer, sent, ingested, told>>

\* A damaged frame: mutex_ is taken to count it and kept while the error is
\* sent.
NextIsRefused(w) ==
    /\ At(w, "reading") /\ DecodeFrame(reader[w]) = "refused" /\ mutex = NoOne
    /\ mutex' = w
    /\ stats' = [stats EXCEPT !.damaged = @ + 1]
    /\ Moved(w, "error")
    /\ UNCHANGED <<accepting, wire, history, reader, peer>>

\* Room for one more answer, or nobody at the other end to wait for.
CanSend(p) == Len(down[p]) < SendBuffer \/ peer[p] = "closed"

\* Mutant: mutex_ is not released on this path.
SendErrorKeepsMutex(w) ==
    /\ At(w, "error") /\ CanSend(worker[w].peer)
    /\ HangUp(w)
    /\ UNCHANGED <<accepting, counting, down, peer, history>>

SendError(w) ==
    /\ At(w, "error") /\ CanSend(worker[w].peer)
    /\ LET p == worker[w].peer IN
         \E lost \in {peer[p] = "closed", up[p] # <<>>} :
            down' = IF lost THEN [down EXCEPT ![p] = <<>>]
                    ELSE [down EXCEPT ![p] = Append(@, Refusal)]
    /\ HangUp(w)
    /\ mutex' = NoOne
    /\ UNCHANGED <<accepting, history, stats, peer>>

\* A batch is ingested and then counted: workers of other connections come in
\* between.
\* Mutant: a batch that failed is ingested anyway.
IngestAlways(w) ==
    /\ At(w, "ingest")
    /\ \E ok \in BOOLEAN : worker' = [worker EXCEPT ![w].at = "count", ![w].ok = ok]
    /\ ingested' = ingested \o <<<<worker[w].peer, worker[w].frame.n>>>>
    /\ UNCHANGED <<accepting, counting, wire, reader, peer, sent, handled, told>>

Ingest(w) ==
    /\ At(w, "ingest")
    /\ \E ok \in BOOLEAN :
         /\ worker' = [worker EXCEPT ![w].at = "count", ![w].ok = ok]
         /\ ingested' = ingested \o (IF ok THEN <<<<worker[w].peer, worker[w].frame.n>>>> ELSE <<>>)
    /\ UNCHANGED <<accepting, counting, wire, reader, peer, sent, handled, told>>

CountBatch(w) ==
    /\ At(w, "count") /\ mutex = NoOne
    /\ stats' = IF worker[w].ok THEN [stats EXCEPT !.applied = @ + 1] ELSE [stats EXCEPT !.failed = @ + 1]
    /\ Moved(w, "reply")
    /\ UNCHANGED <<accepting, wire, history, reader, mutex, peer>>

\* The type of the answer to a frame.
AnswerTo(type) ==
    CASE type = "Hello" -> "Welcome"
      [] type = "Batch" -> "BatchResult"
      [] type = "StatusRequest" -> "StatusReply"
      [] OTHER -> "Error"

\* The answer of a worker; n names the frame it answers.
Answer(w) ==
    [type |-> AnswerTo(worker[w].frame.type), n |-> worker[w].frame.n, ok |-> worker[w].ok]

\* Mutant: the case of the switch falls through and answers again.
ReplyFallsThrough(w) ==
    /\ At(w, "reply") /\ CanSend(worker[w].peer)
    /\ down' = [down EXCEPT ![worker[w].peer] = Append(@, Answer(w))]
    /\ \E place \in {"reply", "reading"} : Moved(w, place)
    /\ UNCHANGED <<accepting, counting, reader, end, up, peer, history>>

\* send_all: the answer goes out, or the peer is gone and the send fails, which
\* ends the connection.
Reply(w) ==
    /\ At(w, "reply") /\ CanSend(worker[w].peer)
    /\ LET p == worker[w].peer IN
         \/ /\ down' = IF peer[p] = "closed" THEN down ELSE [down EXCEPT ![p] = Append(@, Answer(w))]
            /\ worker' = [worker EXCEPT ![w] = [@ EXCEPT !.at = "reading", !.frame = NoFrame, !.ok = TRUE]]
            /\ UNCHANGED <<reader, end, up>>
         \/ peer[p] = "closed" /\ HangUp(w) /\ UNCHANGED down
    /\ UNCHANGED <<accepting, counting, history, peer>>
-----------------------------------------------------------------------------
(* TransportClient: every request waits for its answer. *)

\* What a client waits for.
Awaits == [welcome |-> "Welcome", batch |-> "BatchResult", status |-> "StatusReply"]

\* A frame leaves a peer, unless the server has closed its end.
SendFrame(p, type) ==
    /\ sent' = [sent EXCEPT ![p] = Append(@, type)]
    /\ up' = IF end[p] = "closed" THEN up
             ELSE [up EXCEPT ![p] = @ \o Units([type |-> type, n |-> Len(sent[p]) + 1])]

\* The kernel completes a connection before accept has seen it; once the server
\* has closed its socket there is nobody to connect to.
Connect(p, next) ==
    /\ loop # "returned"
    /\ backlog' = Append(backlog, p)
    /\ end' = [end EXCEPT ![p] = "open"]
    /\ peer' = [peer EXCEPT ![p] = next]

NoConnection(p) ==
    /\ loop = "returned"
    /\ peer' = [peer EXCEPT ![p] = "closed"]
    /\ UNCHANGED <<backlog, end, sent, up>>

ClientConnect(c) ==
    /\ peer[c] = "new"
    /\ \/ Connect(c, "welcome") /\ SendFrame(c, "Hello")
       \/ NoConnection(c)
    /\ UNCHANGED <<handling, counting, pool, loop, stopping, queue, down, handled, ingested, told>>

ClientRequest(c) ==
    /\ peer[c] = "ready" /\ Len(sent[c]) <= MaxRequests
    /\ \/ SendFrame(c, "Batch") /\ peer' = [peer EXCEPT ![c] = "batch"]
       \/ SendFrame(c, "StatusRequest") /\ peer' = [peer EXCEPT ![c] = "status"]
    /\ UNCHANGED <<accepting, handling, counting, end, down, handled, ingested, told>>

\* Any frame of another type than the one awaited fails the call.
ClientAnswered(c) ==
    /\ peer[c] \in DOMAIN Awaits /\ down[c] # <<>>
    /\ LET answer == Head(down[c]) IN
         /\ peer' = [peer EXCEPT ![c] = IF answer.type = Awaits[@] THEN "ready" ELSE "failed"]
         /\ told' = IF answer.type = "BatchResult" /\ peer[c] = "batch" /\ answer.ok
                     THEN [told EXCEPT ![c] = @ \cup {answer.n}] ELSE told
    /\ down' = [down EXCEPT ![c] = Tail(@)]
    /\ UNCHANGED <<accepting, handling, counting, end, up, sent, handled, ingested>>

\* The server has closed the connection and nothing more will come.
ClientCutOff(c) ==
    /\ peer[c] \in DOMAIN Awaits /\ down[c] = <<>> /\ end[c] = "closed"
    /\ peer' = [peer EXCEPT ![c] = "failed"]
    /\ UNCHANGED <<accepting, handling, counting, wire, history>>

ClientClose(c) ==
    /\ peer[c] \in {"ready", "failed"}
    /\ SendFrame(c, "Bye")
    /\ peer' = [peer EXCEPT ![c] = "closed"]
    /\ down' = [down EXCEPT ![c] = <<>>]
    /\ UNCHANGED <<accepting, handling, counting, end, handled, ingested, told>>

-----------------------------------------------------------------------------
(* Raw peers. *)

RawConnect(r) ==
    /\ peer[r] = "new"
    /\ \/ Connect(r, "open") /\ UNCHANGED <<sent, up>>
       \/ NoConnection(r)
    /\ UNCHANGED <<handling, counting, pool, loop, stopping, queue, down, handled, ingested, told>>

\* The next frame of a script, whatever has been answered.
RawSend(r) ==
    /\ peer[r] = "open"
    /\ \E script \in RawScripts :
         LET n == Len(sent[r]) IN
         /\ n < Len(script) /\ sent[r] = SubSeq(script, 1, n)
         /\ SendFrame(r, script[n + 1])
    /\ UNCHANGED <<accepting, handling, counting, end, down, peer, handled, ingested, told>>

RawRead(r) ==
    /\ peer[r] = "open" /\ down[r] # <<>>
    /\ down' = [down EXCEPT ![r] = Tail(@)]
    /\ UNCHANGED <<accepting, handling, counting, end, up, peer, history>>

\* A peer that goes away with answers unread may take what it sent with it.
RawClose(r) ==
    /\ peer[r] = "open"
    /\ peer' = [peer EXCEPT ![r] = "closed"]
    /\ \E lost \in {FALSE, down[r] # <<>>} : up' = IF lost THEN [up EXCEPT ![r] = <<>>] ELSE up
    /\ down' = [down EXCEPT ![r] = <<>>]
    /\ UNCHANGED <<accepting, handling, counting, end, history>>

-----------------------------------------------------------------------------

AcceptLoop ==
    \/ LoopStops \/ SelectIdle \/ SelectFails \/ AcceptFails \/ AcceptQueues
    \/ AcceptRejects \/ ServeReturns

Work(w) ==
    \/ WorkerExits(w) \/ TakeConnection(w) \/ CountConnection(w)
    \/ Receive(w) \/ ReceiveEnds(w)
    \/ ByeEnds(w) \/ NextIsFrame(w) \/ NextIsRefused(w) \/ SendError(w)
    \/ Ingest(w) \/ CountBatch(w) \/ Reply(w)

ClientStep(c) ==
    \/ ClientConnect(c) \/ ClientRequest(c) \/ ClientAnswered(c) \/ ClientCutOff(c) \/ ClientClose(c)

RawStep(r) == RawConnect(r) \/ RawSend(r) \/ RawRead(r) \/ RawClose(r)

Terminated ==
    /\ loop = "returned" /\ \A p \in Peers : peer[p] = "closed"
    /\ UNCHANGED vars

Next ==
    \/ AcceptLoop \/ RequestStop \/ Terminated
    \/ \E w \in Workers : Work(w)
    \/ \E c \in Clients : ClientStep(c)
    \/ \E r \in RawPeers : RawStep(r)

Spec == Init /\ [][Next]_vars

\* The threads run.  A client's calls return and its program closes it; no raw
\* peer stays connected for ever, which the code relies on and does not enforce.
FairSpec ==
    /\ Spec
    /\ WF_vars(AcceptLoop)
    /\ \A w \in Workers : WF_vars(Work(w))
    /\ \A c \in Clients : WF_vars(ClientAnswered(c) \/ ClientCutOff(c)) /\ WF_vars(ClientClose(c))
    /\ \A r \in RawPeers : WF_vars(RawClose(r))

-----------------------------------------------------------------------------
(* Properties. *)

\* However recv cuts the stream, the server handles exactly the frames a peer
\* sent, in their order, up to the first that is damaged, and when it waits for
\* more with nothing left to read it has handled all of them; it never buffers
\* more than its bound (FrameReader::append and next, handle_connection).
HandledInOrder ==
    /\ \A w \in Workers : Len(reader[w]) <= MaxBuffer
    /\ \A p \in Peers :
         /\ Len(handled[p]) <= Len(sent[p])
         /\ \A i \in 1..Len(handled[p]) :
               handled[p][i] = [type |-> sent[p][i], n |-> i] /\ sent[p][i] \notin Damaged
    /\ \A w \in 1..pool :
         LET p == worker[w].peer IN
         ReadsOn(w) /\ peer[p] # "closed" /\ up[p] = <<>>
            => Len(handled[p]) = Len(sent[p])

\* A client never takes one request's answer for another's: while it waits, at
\* most one frame is under way to it, and that one answers its last request or
\* refuses the connection; between requests nothing is under way
\* (TransportClient::receive_frame matches answers by type alone).
AnswerFitsRequest ==
    \A c \in Clients :
        /\ Len(down[c]) <= 1
        /\ peer[c] \in DOMAIN Awaits /\ down[c] # <<>> =>
             \/ down[c][1].n = Len(sent[c]) /\ down[c][1].type = Awaits[peer[c]]
             \/ down[c][1] = Refusal
        /\ peer[c] = "ready" => down[c] = <<>>

\* A batch is ingested at most once, a client that was told its batch was
\* applied finds it ingested, and batches_applied counts what was ingested but
\* for the workers between ingest_document and the counter (handle_frame).
AppliedMeansIngested ==
    /\ IsInjective(ingested)
    /\ \A c \in Clients : \A n \in told[c] : <<c, n>> \in Range(ingested)
    /\ stats.applied + Cardinality({w \in 1..pool : worker[w].at = "count" /\ worker[w].ok})
         = Len(ingested)

\* A stop is honoured: serve returns once its peers have gone, however many
\* connections were queued and whatever they were in the middle of.
StopEndsServe == stopping ~> loop = "returned"

\* No call of a client waits for ever: it is answered, refused or cut off.
ClientsReturn == \A c \in Clients : peer[c] \in DOMAIN Awaits ~> peer[c] \notin DOMAIN Awaits
=============================================================================
