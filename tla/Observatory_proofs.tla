------------------------- MODULE Observatory_proofs -------------------------
(***************************************************************************)
(* Proofs about the runtime, for any number of workers, clients, documents *)
(* and samples per document: types, the contiguity of the tickets, the     *)
(* ownership of documents by the workers that decode them, the order in    *)
(* which evidence reaches the store, the quiet after a stop, the           *)
(* refinement of OrderedApply and the accounting of all documents.         *)
(***************************************************************************)
EXTENDS Observatory, FiniteSetTheorems, SequenceTheorems, TLAPS

-----------------------------------------------------------------------------
(* The inductive invariant *)

NoWorkerRuns == \A w \in Workers : wpc[w] = "none"

\* Where the lifecycle is, which workers exist, and who may hold queue_mutex_
\* across steps.
Phases ==
    /\ state = "stopping" <=> lc \in {"request", "notify", "join", "discard", "persist"}
    /\ lc = "recovering" => state = "running"
    /\ state \in {"created", "stopped"} \/ lc \in {"recovering", "discard", "persist"}
         => NoWorkerRuns
    /\ \A w \in Workers \ pool : wpc[w] = "none"
    /\ holder \in Workers => wpc[holder] = "ready" /\ FrontDecoded
    /\ holder \in Clients => pool = {}

\* The queue is a function from tickets to documents, without a hole while
\* anything can be added to it or taken from it.
Tickets ==
    /\ pending \in [DOMAIN pending -> Document]
    /\ nextApply <= nextTicket
    /\ pool = {} => DOMAIN pending = {}
    /\ pool # {} /\ (DOMAIN pending # {} \/ state = "running")
         => DOMAIN pending = nextApply..(nextTicket - 1)

\* Whatever is in the store comes from documents older than those that wait;
\* of the document being applied, only the samples before the cursor.
Behind(entry) ==
    /\ entry[1] <= submitted
    /\ \A t \in DOMAIN pending :
         \/ entry[1] < pending[t].id
         \/ /\ holder \in Workers /\ t = nextApply
            /\ entry[1] = pending[t].id /\ entry[2] <= cursor
    /\ holder \in Clients => entry[1] < submitted \/ entry[2] <= cursor

Ordered ==
    /\ \A t \in DOMAIN pending : pending[t].id <= submitted
    /\ \A t, u \in DOMAIN pending : t < u => pending[t].id < pending[u].id
    /\ \A i \in DOMAIN log : Behind(log[i])
    /\ AppliedInSubmissionOrder

IInv == TypeOK /\ Phases /\ Tickets /\ DecodersOwnTheirDocument /\ Ordered

-----------------------------------------------------------------------------
Decoding == {w \in Workers : wpc[w] = "decoding"}

\* The workers that decode are finitely many, so in_flight_ can count them.
LEMMA DecodingFinite ==
    /\ IsFiniteSet(Decoding) /\ Cardinality(Decoding) \in Nat
    /\ Decoding = {} => Cardinality(Decoding) = 0
<1>1. IsFiniteSet(Decoding)
  BY ObservatoryAssumption, FS_Subset DEF Decoding
<1> QED
  BY <1>1, FS_CardinalityType, FS_EmptySet

\* A runtime that was just created satisfies the inductive invariant.
LEMMA InitIInv == Init => IInv
<1> SUFFICES ASSUME Init PROVE IInv
  OBVIOUS
<1> USE ObservatoryAssumption
<1>1. TypeOK
  <2>1. log \in Seq(Nat \X Nat) /\ finished \in Seq(Nat)
    BY DEF Init
  <2>2. /\ state \in RuntimeState /\ DOMAIN pending = {}
        /\ cursor \in 0..SamplesPerDoc
    BY DEF Init, RuntimeState
  <2>3. /\ wpc \in [Workers -> {"none", "ready", "asleep", "decoding", "exited"}]
        /\ wticket \in [Workers -> Nat]
        /\ drainer \in [Clients -> {"idle", "asleep", "ready"}]
    BY DEF Init
  <2> QED
    BY <2>1, <2>2, <2>3 DEF Init, TypeOK
<1>2. Phases
  BY DEF Init, Phases, NoWorkerRuns
<1>3. Tickets
  BY DEF Init, Tickets
<1>4. DecodersOwnTheirDocument
  <2>1. Decoding = {}
    BY DEF Init, Decoding
  <2> QED
    BY <2>1, DecodingFinite DEF Init, DecodersOwnTheirDocument, Decoding
<1>5. Ordered
  BY DEF Init, Ordered, AppliedInSubmissionOrder
<1> QED
  BY <1>1, <1>2, <1>3, <1>4, <1>5 DEF IInv

-----------------------------------------------------------------------------
(* Parts of the invariant that a step does not touch *)

WorkerPc == {"none", "ready", "asleep", "decoding", "exited"}
DrainPc == {"idle", "asleep", "ready"}

\* notify_all wakes sleepers and nobody else.
LEMMA WakeWorkers ==
    ASSUME wpc \in [Workers -> WorkerPc]
    PROVE  /\ WakeAll(wpc) \in [Workers -> WorkerPc]
           /\ \A w \in Workers : wpc[w] # "asleep" => WakeAll(wpc)[w] = wpc[w]
           /\ \A w \in Workers : wpc[w] = "asleep" => WakeAll(wpc)[w] = "ready"
BY DEF WakeAll, WorkerPc

\* notify_all on apply_cv_ keeps the drainers well typed.
LEMMA WakeDrainers ==
    ASSUME drainer \in [Clients -> DrainPc]
    PROVE  WakeAll(drainer) \in [Clients -> DrainPc]
BY DEF WakeAll, DrainPc

\* Tickets depends on the queue and its two ticket counters only.
LEMMA TicketsUnchanged ==
    ASSUME Tickets, UNCHANGED <<pool, pending, nextApply, nextTicket>>,
           state' = "running" => state = "running"
    PROVE  Tickets'
BY DEF Tickets

\* DecodersOwnTheirDocument survives a step that leaves the set of decoding workers.
LEMMA DecodersUnchanged ==
    ASSUME DecodersOwnTheirDocument, UNCHANGED <<pending, inFlight, wticket>>,
           \A w \in Workers : wpc'[w] = "decoding" <=> wpc[w] = "decoding"
    PROVE  DecodersOwnTheirDocument'
<1>1. Decoding' = Decoding
  BY DEF Decoding
<1> QED
  BY <1>1 DEF DecodersOwnTheirDocument, Decoding

\* Ordered depends on the queue, the log, the cursor and the holder only.
LEMMA OrderedUnchanged ==
    ASSUME Ordered, UNCHANGED <<pending, submitted, log, holder, cursor, nextApply>>
    PROVE  Ordered'
BY DEF Ordered, Behind, AppliedInSubmissionOrder, Before

-----------------------------------------------------------------------------
(* start and stop *)

\* start clears the queue and restarts both ticket counters together.
LEMMA StartBeginIInv ==
    ASSUME IInv, StartBegin
    PROVE  IInv'
<1> USE ObservatoryAssumption
<1>1. TypeOK'
  <2>0. stopRequested' \in BOOLEAN
    BY Zenon DEF StartBegin
  <2>1. /\ state' \in RuntimeState /\ DOMAIN pending' = {}
        /\ lc' \in {"idle", "recovering", "request", "notify", "join", "discard", "persist"}
        /\ nextTicket' \in Nat /\ nextApply' \in Nat
        /\ inFlight' \in Nat /\ queuedBatches' \in Nat /\ queuedSamples' \in Nat
    BY DEF StartBegin, RuntimeState
  <2>2. UNCHANGED <<pool, threads, counts, history>>
    BY DEF StartBegin
  <2> QED
    BY <2>0, <2>1, <2>2 DEF IInv, TypeOK, threads, counts, history
<1>2. Phases'
  BY DEF IInv, Phases, NoWorkerRuns, StartBegin, QueueLockFree, threads
<1>3. Tickets'
  BY DEF StartBegin, Tickets
<1>4. DecodersOwnTheirDocument'
  <2>1. Decoding' = {}
    BY DEF IInv, Phases, NoWorkerRuns, StartBegin, Decoding, threads
  <2>2. Cardinality(Decoding') = 0
    BY <2>1, FS_EmptySet
  <2> QED
    BY <2>1, <2>2 DEF StartBegin, DecodersOwnTheirDocument, Decoding
<1>5. Ordered'
  BY DEF IInv, Ordered, Behind, AppliedInSubmissionOrder, Before, StartBegin, QueueLockFree,
         threads, history
<1> QED
  BY <1>1, <1>2, <1>3, <1>4, <1>5 DEF IInv

\* start launches workers that decode nothing yet.
LEMMA StartWorkersIInv ==
    ASSUME IInv, StartWorkers
    PROVE  IInv'
<1> USE ObservatoryAssumption
<1>1. TypeOK'
  BY DEF IInv, TypeOK, StartWorkers, tickets, counts, history
<1>2. Phases'
  BY DEF IInv, Phases, NoWorkerRuns, StartWorkers, FrontDecoded, tickets
<1>3. Tickets'
  BY TicketsUnchanged DEF IInv, StartWorkers, tickets
<1>4. DecodersOwnTheirDocument'
  BY DecodersUnchanged DEF IInv, Phases, NoWorkerRuns, StartWorkers, tickets
<1>5. Ordered'
  BY OrderedUnchanged DEF IInv, StartWorkers, tickets, history
<1> QED
  BY <1>1, <1>2, <1>3, <1>4, <1>5 DEF IInv

\* The steps of the lifecycle that only move state, lc and the stop token.
LEMMA LifecycleIInv ==
    ASSUME IInv, StartFails \/ StopIdle \/ StopBegin \/ StopRequest \/ StopEnd
    PROVE  IInv'
<1> USE ObservatoryAssumption DEF StartFails, StopIdle, StopBegin, StopRequest, StopEnd
<1>1. UNCHANGED <<pool, tickets, threads, counts, history>>
  OBVIOUS
<1>2. TypeOK'
  <2>1. /\ state' \in RuntimeState /\ stopRequested' \in BOOLEAN
        /\ lc' \in {"idle", "recovering", "request", "notify", "join", "discard", "persist"}
    BY DEF IInv, TypeOK, RuntimeState
  <2> QED
    BY <1>1, <2>1 DEF IInv, TypeOK, tickets, threads, counts, history
<1>3. Phases'
  BY <1>1 DEF IInv, Phases, NoWorkerRuns, FrontDecoded, tickets, threads
<1>4. state' = "running" => state = "running"
  OBVIOUS
<1>5. Tickets'
  BY <1>1, <1>4, TicketsUnchanged DEF IInv, tickets
<1>6. DecodersOwnTheirDocument'
  BY <1>1, DecodersUnchanged DEF IInv, tickets, threads
<1>7. Ordered'
  BY <1>1, OrderedUnchanged DEF IInv, tickets, threads, history
<1> QED
  BY <1>2, <1>3, <1>5, <1>6, <1>7 DEF IInv

\* stop wakes sleepers without touching a decoding worker.
LEMMA StopNotifyIInv ==
    ASSUME IInv, StopNotify
    PROVE  IInv'
<1> USE ObservatoryAssumption
<1>0. /\ wpc' = WakeAll(wpc) /\ wpc' \in [Workers -> WorkerPc]
      /\ \A w \in Workers : wpc[w] # "asleep" => wpc'[w] = wpc[w]
      /\ \A w \in Workers : wpc[w] = "asleep" => wpc'[w] = "ready"
  BY WakeWorkers DEF IInv, TypeOK, StopNotify, WorkerPc
<1>1. TypeOK'
  BY <1>0 DEF IInv, TypeOK, StopNotify, WorkerPc, tickets, counts, history
<1>2. Phases'
  BY <1>0 DEF IInv, Phases, NoWorkerRuns, StopNotify, QueueLockFree, tickets
<1>3. Tickets'
  BY TicketsUnchanged DEF IInv, StopNotify, tickets
<1>4. DecodersOwnTheirDocument'
  BY <1>0, DecodersUnchanged DEF IInv, StopNotify, tickets
<1>5. Ordered'
  BY OrderedUnchanged DEF IInv, StopNotify, tickets, history
<1> QED
  BY <1>1, <1>2, <1>3, <1>4, <1>5 DEF IInv

\* stop joins workers that have all left their loop.
LEMMA StopJoinIInv ==
    ASSUME IInv, StopJoin
    PROVE  IInv'
<1> USE ObservatoryAssumption
<1>1. TypeOK'
  BY DEF IInv, TypeOK, StopJoin, tickets, counts, history
<1>2. Phases'
  BY DEF IInv, Phases, NoWorkerRuns, StopJoin, tickets
<1>3. Tickets'
  BY TicketsUnchanged DEF IInv, StopJoin, tickets
<1>4. DecodersOwnTheirDocument'
  <2>1. \A w \in Workers : wpc[w] # "decoding" /\ wpc'[w] # "decoding"
    BY DEF IInv, Phases, StopJoin
  <2> QED
    BY <2>1, DecodersUnchanged DEF IInv, StopJoin, tickets
<1>5. Ordered'
  BY OrderedUnchanged DEF IInv, StopJoin, tickets, history
<1> QED
  BY <1>1, <1>2, <1>3, <1>4, <1>5 DEF IInv

\* stop gives up what is queued once no worker is left.
LEMMA StopDiscardIInv ==
    ASSUME IInv, StopDiscard
    PROVE  IInv'
<1> USE ObservatoryAssumption
<1>0. dropped' \in Nat /\ drainer' \in [Clients -> DrainPc]
  <2>1. IsFiniteSet(DOMAIN pending)
    <3>1. DOMAIN pending = {} \/ DOMAIN pending = nextApply..(nextTicket - 1)
      BY DEF IInv, Tickets
    <3>2. IsFiniteSet(nextApply..(nextTicket - 1))
      <4>1. nextApply \in Int /\ nextTicket - 1 \in Int
        BY DEF IInv, TypeOK
      <4> QED
        BY <4>1, FS_Interval
    <3> QED
      BY <3>1, <3>2, FS_EmptySet
  <2>2. Cardinality(DOMAIN pending) \in Nat
    BY <2>1, FS_CardinalityType
  <2> QED
    BY <2>2, WakeDrainers DEF IInv, TypeOK, StopDiscard, DrainPc
<1>1. TypeOK'
  BY <1>0 DEF IInv, TypeOK, StopDiscard, DrainPc, history
<1>2. Phases'
  BY DEF IInv, Phases, NoWorkerRuns, StopDiscard, QueueLockFree
<1>3. Tickets'
  BY DEF IInv, Phases, StopDiscard, Tickets
<1>4. DecodersOwnTheirDocument'
  <2>1. Decoding' = {}
    BY DEF IInv, Phases, NoWorkerRuns, StopDiscard, Decoding
  <2>2. Cardinality(Decoding') = 0
    BY <2>1, FS_EmptySet
  <2> QED
    BY <2>1, <2>2 DEF StopDiscard, DecodersOwnTheirDocument, Decoding
<1>5. Ordered'
  BY DEF IInv, Ordered, Behind, AppliedInSubmissionOrder, Before, StopDiscard, QueueLockFree,
         history
<1> QED
  BY <1>1, <1>2, <1>3, <1>4, <1>5 DEF IInv

-----------------------------------------------------------------------------
(* submit_document and drain *)

\* submit_document queues the newest document under the newest ticket.
LEMMA SubmitIInv ==
    ASSUME IInv, NEW c \in Clients, NEW kind \in Kinds, Submit(c, kind)
    PROVE  IInv'
<1> USE ObservatoryAssumption
<1>0. /\ wpc' \in [Workers -> WorkerPc]
      /\ \A w \in Workers : wpc[w] # "asleep" => wpc'[w] = wpc[w]
      /\ \A w \in Workers : wpc[w] = "asleep" => wpc'[w] = "ready"
  BY WakeWorkers DEF IInv, TypeOK, Submit, WorkerPc
<1>1. /\ submitted' = submitted + 1 /\ submitted \in Nat
      /\ nextTicket \in Nat /\ nextApply \in Nat /\ nextTicket' = nextTicket + 1
  BY DEF IInv, TypeOK, Submit
<1>2. /\ NewDocument(kind) \in Document
      /\ NewDocument(kind).id = submitted + 1
  BY <1>1 DEF NewDocument, Document
<1>3. DOMAIN pending = nextApply..(nextTicket - 1) /\ nextTicket \notin DOMAIN pending
  BY <1>1 DEF IInv, Tickets, Submit
<1>4. /\ DOMAIN pending' = DOMAIN pending \cup {nextTicket}
      /\ pending' \in [DOMAIN pending' -> Document]
      /\ pending'[nextTicket] = NewDocument(kind)
      /\ \A t \in DOMAIN pending : pending'[t] = pending[t]
  BY <1>2, <1>3 DEF IInv, Tickets, Submit
<1>5. TypeOK'
  BY <1>0, <1>1, <1>3, <1>4 DEF IInv, TypeOK, Submit, WorkerPc, lifecycle, counts
<1>6. Phases'
  BY <1>0 DEF IInv, Phases, NoWorkerRuns, Submit, QueueLockFree, lifecycle
<1>7. Tickets'
  BY <1>1, <1>3, <1>4 DEF IInv, Tickets, Submit, lifecycle
<1>8. DecodersOwnTheirDocument'
  <2>1. Decoding' = Decoding /\ UNCHANGED <<inFlight, wticket>>
    BY <1>0 DEF Decoding, Submit
  <2> QED
    BY <1>0, <1>4, <2>1 DEF IInv, DecodersOwnTheirDocument, Decoding
<1>9. Ordered'
  <2>1. /\ UNCHANGED <<log, holder, cursor, nextApply>> /\ holder = NoOne
    BY DEF Submit, QueueLockFree
  <2>2. \A i \in DOMAIN log : log[i][1] \in Nat
    BY DEF IInv, TypeOK
  <2>3. \A t \in DOMAIN pending : pending[t].id \in Nat /\ t < nextTicket
    BY <1>1, <1>3 DEF IInv, Tickets, Document
  <2>4. /\ \A t \in DOMAIN pending' : pending'[t].id <= submitted'
        /\ \A t, u \in DOMAIN pending' : t < u => pending'[t].id < pending'[u].id
    BY <1>1, <1>2, <1>3, <1>4, <2>3 DEF IInv, Ordered
  <2>5. \A i \in DOMAIN log' : Behind(log[i])'
    BY <1>1, <1>2, <1>4, <2>1, <2>2 DEF IInv, Ordered, Behind
  <2>6. AppliedInSubmissionOrder'
    BY <2>1 DEF IInv, Ordered, AppliedInSubmissionOrder, Before
  <2> QED
    BY <2>4, <2>5, <2>6 DEF Ordered
<1> QED
  BY <1>5, <1>6, <1>7, <1>8, <1>9 DEF IInv

\* drain moves only the thread that calls it.
LEMMA DrainIInv ==
    ASSUME IInv, NEW c \in Clients, DrainWait(c) \/ DrainReturn(c)
    PROVE  IInv'
<1>0. UNCHANGED <<lifecycle, tickets, holder, cursor, wpc, wticket, counts, history>>
  BY DEF DrainWait, DrainReturn
<1>1. TypeOK'
  <2>1. drainer' \in [Clients -> {"idle", "asleep", "ready"}]
    BY DEF IInv, TypeOK, DrainWait, DrainReturn
  <2> QED
    BY <1>0, <2>1 DEF IInv, TypeOK, lifecycle, tickets, counts, history
<1>2. Phases'
  BY <1>0 DEF IInv, Phases, NoWorkerRuns, FrontDecoded, lifecycle, tickets
<1>3. Tickets'
  BY <1>0, TicketsUnchanged DEF IInv, lifecycle, tickets
<1>4. DecodersOwnTheirDocument'
  BY <1>0, DecodersUnchanged DEF IInv, tickets
<1>5. Ordered'
  BY <1>0, OrderedUnchanged DEF IInv, tickets, history
<1> QED
  BY <1>1, <1>2, <1>3, <1>4, <1>5 DEF IInv

\* Without workers submit_document issues a ticket and queues nothing.
LEMMA SubmitSyncIInv ==
    ASSUME IInv, NEW c \in Clients, NEW kind \in Kinds, SubmitSync(c, kind)
    PROVE  IInv'
<1> USE ObservatoryAssumption
<1>0. /\ pool = {} /\ holder = NoOne
      /\ submitted' = submitted + 1 /\ submitted \in Nat /\ nextTicket' = nextTicket + 1
      /\ UNCHANGED <<lifecycle, pending, nextApply, inFlight, queuedBatches, queuedSamples, wpc,
                     wticket, drainer, dropped, log>>
  BY DEF IInv, TypeOK, SubmitSync, QueueLockFree
<1>01. /\ holder' \in {NoOne, c} /\ cursor' \in 0..SamplesPerDoc
       /\ applied' \in Nat /\ decodeFailures' \in Nat /\ finished' \in Seq(Nat)
  <2>1. CASE SyncUndecodable
    BY <1>0, <2>1 DEF IInv, TypeOK, SyncUndecodable
  <2>2. CASE SyncRefused
    BY <1>0, <2>2 DEF IInv, TypeOK, SyncRefused
  <2>3. CASE SyncApply(c)
    BY <1>0, <2>3 DEF IInv, TypeOK, SyncApply
  <2> QED
    BY <2>1, <2>2, <2>3 DEF SubmitSync
<1>1. TypeOK'
  BY <1>0, <1>01 DEF IInv, TypeOK, lifecycle
<1>2. Phases'
  BY <1>0, <1>01 DEF IInv, Phases, NoWorkerRuns, lifecycle
<1>3. Tickets'
  BY <1>0 DEF IInv, TypeOK, Tickets, lifecycle
<1>4. DecodersOwnTheirDocument'
  BY <1>0, DecodersUnchanged DEF IInv
<1>5. Ordered'
  <2>1. \A i \in DOMAIN log : log[i][1] \in Nat
    BY DEF IInv, TypeOK
  <2>2. DOMAIN pending = {}
    BY <1>0 DEF IInv, Tickets
  <2> QED
    BY <1>0, <1>01, <2>1, <2>2 DEF IInv, Ordered, Behind, AppliedInSubmissionOrder, Before
<1> QED
  BY <1>1, <1>2, <1>3, <1>4, <1>5 DEF IInv

-----------------------------------------------------------------------------
(* worker_loop *)

\* A worker that sleeps or exits holds no document.
LEMMA WorkerIdleIInv ==
    ASSUME IInv, NEW w \in Workers, WorkerSleep(w) \/ WorkerExit(w)
    PROVE  IInv'
<1> USE ObservatoryAssumption
<1>0. /\ UNCHANGED <<lifecycle, tickets, holder, cursor, wticket, drainer, counts, history>>
      /\ wpc[w] = "ready" /\ holder = NoOne
      /\ wpc' = [wpc EXCEPT ![w] = "asleep"] \/ wpc' = [wpc EXCEPT ![w] = "exited"]
  BY DEF WorkerSleep, WorkerExit, AtTop, QueueLockFree
<1>1. /\ wpc' \in [Workers -> WorkerPc]
      /\ \A v \in Workers : v # w => wpc'[v] = wpc[v]
      /\ \A v \in Workers : wpc'[v] = "decoding" <=> wpc[v] = "decoding"
  BY <1>0 DEF IInv, TypeOK, WorkerPc
<1>2. TypeOK'
  BY <1>0, <1>1 DEF IInv, TypeOK, WorkerPc, lifecycle, tickets, counts, history
<1>3. Phases'
  BY <1>0, <1>1 DEF IInv, Phases, NoWorkerRuns, lifecycle
<1>4. Tickets'
  BY <1>0, TicketsUnchanged DEF IInv, lifecycle, tickets
<1>5. DecodersOwnTheirDocument'
  BY <1>0, <1>1, DecodersUnchanged DEF IInv, tickets
<1>6. Ordered'
  BY <1>0, OrderedUnchanged DEF IInv, tickets, history
<1> QED
  BY <1>2, <1>3, <1>4, <1>5, <1>6 DEF IInv

\* What taking or returning a document changes: the flags of one document.
LEMMA OrderedSameIds ==
    ASSUME Ordered, UNCHANGED <<submitted, log, holder, cursor, nextApply>>,
           DOMAIN pending' = DOMAIN pending,
           \A t \in DOMAIN pending : pending'[t].id = pending[t].id
    PROVE  Ordered'
BY DEF Ordered, Behind, AppliedInSubmissionOrder, Before

\* A worker takes a document that nobody decodes.
LEMMA BeginDecodeIInv ==
    ASSUME IInv, NEW w \in Workers, BeginDecode(w)
    PROVE  IInv'
<1> USE ObservatoryAssumption
<1>0. /\ UNCHANGED <<lifecycle, nextTicket, nextApply, queuedBatches, queuedSamples, holder,
                     cursor, drainer, counts, history>>
      /\ wpc[w] = "ready" /\ holder = NoOne
      /\ wpc' = [wpc EXCEPT ![w] = "decoding"] /\ inFlight' = inFlight + 1
  BY DEF BeginDecode, AtTop, QueueLockFree
<1>1. PICK t \in Undecoded : /\ pending' = [pending EXCEPT ![t].in_flight = TRUE]
                             /\ wticket' = [wticket EXCEPT ![w] = t]
  BY DEF BeginDecode
<1>2. /\ t \in DOMAIN pending /\ t \in Nat /\ ~pending[t].decoded /\ ~pending[t].in_flight
  BY <1>1 DEF Undecoded, IInv, TypeOK
<1>3. /\ DOMAIN pending' = DOMAIN pending /\ pending' \in [DOMAIN pending -> Document]
      /\ pending'[t].in_flight /\ pending'[t].decoded = pending[t].decoded
      /\ pending'[t].id = pending[t].id
      /\ \A u \in DOMAIN pending : u # t => pending'[u] = pending[u]
  BY <1>1, <1>2 DEF IInv, Tickets, Document
<1>4. /\ wpc' \in [Workers -> WorkerPc] /\ wticket' \in [Workers -> Nat]
      /\ wpc'[w] = "decoding" /\ wticket'[w] = t
      /\ \A v \in Workers : v # w => wpc'[v] = wpc[v] /\ wticket'[v] = wticket[v]
  BY <1>0, <1>1, <1>2 DEF IInv, TypeOK, WorkerPc
<1>5. TypeOK'
  BY <1>0, <1>3, <1>4 DEF IInv, TypeOK, WorkerPc, lifecycle, counts, history
<1>6. Phases'
  BY <1>0 DEF IInv, Phases, NoWorkerRuns, lifecycle
<1>7. Tickets'
  BY <1>0, <1>3 DEF IInv, Tickets, lifecycle
<1>8. DecodersOwnTheirDocument'
  <2>1. Decoding' = Decoding \cup {w} /\ w \notin Decoding
    BY <1>0, <1>4 DEF Decoding
  <2>2. Cardinality(Decoding') = Cardinality(Decoding) + 1
    BY <2>1, DecodingFinite, FS_AddElement
  <2>3. inFlight' = Cardinality(Decoding')
    BY <1>0, <2>2 DEF IInv, DecodersOwnTheirDocument, Decoding
  <2>4. \A v \in Workers : v # w /\ wpc[v] = "decoding" => wticket[v] # t
    BY <1>2 DEF IInv, DecodersOwnTheirDocument
  <2>5. \A v \in Workers : wpc'[v] = "decoding" =>
          /\ wticket'[v] \in DOMAIN pending'
          /\ pending'[wticket'[v]].in_flight /\ ~pending'[wticket'[v]].decoded
    BY <1>2, <1>3, <1>4, <2>4 DEF IInv, DecodersOwnTheirDocument
  <2>6. \A u, v \in Workers :
          wpc'[u] = "decoding" /\ wpc'[v] = "decoding" /\ wticket'[u] = wticket'[v] => u = v
    BY <1>4, <2>4 DEF IInv, DecodersOwnTheirDocument
  <2> QED
    BY <2>3, <2>5, <2>6 DEF DecodersOwnTheirDocument, Decoding
<1>9. Ordered'
  BY <1>0, <1>3, OrderedSameIds DEF IInv, history
<1> QED
  BY <1>5, <1>6, <1>7, <1>8, <1>9 DEF IInv

\* A worker hands its decoded document back.
LEMMA EndDecodeIInv ==
    ASSUME IInv, NEW w \in Workers, EndDecode(w)
    PROVE  IInv'
<1> USE ObservatoryAssumption
<1> DEFINE t == wticket[w]
<1>0. /\ UNCHANGED <<lifecycle, nextTicket, nextApply, queuedBatches, holder, cursor, wticket,
                     counts, history>>
      /\ wpc[w] = "decoding" /\ holder = NoOne
      /\ wpc' = [WakeAll(wpc) EXCEPT ![w] = "ready"] /\ inFlight' = inFlight - 1
      /\ drainer' = WakeAll(drainer)
  BY DEF EndDecode, QueueLockFree
<1>1. t \in DOMAIN pending /\ pending[t].in_flight /\ ~pending[t].decoded
  BY <1>0 DEF IInv, DecodersOwnTheirDocument
<1>2. /\ pending' = [pending EXCEPT ![t].in_flight = FALSE, ![t].decoded = TRUE]
      /\ queuedSamples' = queuedSamples + SamplesOf(pending[t].kind)
  BY <1>1 DEF EndDecode
<1>3. /\ DOMAIN pending' = DOMAIN pending /\ pending' \in [DOMAIN pending -> Document]
      /\ pending'[t].id = pending[t].id
      /\ \A u \in DOMAIN pending : u # t => pending'[u] = pending[u]
  BY <1>1, <1>2 DEF IInv, Tickets, Document
<1>4. /\ wpc' \in [Workers -> WorkerPc] /\ drainer' \in [Clients -> DrainPc]
      /\ wpc'[w] = "ready"
      /\ \A v \in Workers : v # w /\ wpc[v] # "asleep" => wpc'[v] = wpc[v]
      /\ \A v \in Workers : v # w /\ wpc[v] = "asleep" => wpc'[v] = "ready"
  <2>1. wpc \in [Workers -> WorkerPc] /\ drainer \in [Clients -> DrainPc]
    BY DEF IInv, TypeOK, WorkerPc, DrainPc
  <2>2. "ready" \in WorkerPc
    BY DEF WorkerPc
  <2> QED
    BY <1>0, <2>1, <2>2, WakeWorkers, WakeDrainers
<1>5. Decoding' = Decoding \ {w} /\ w \in Decoding
  BY <1>0, <1>4 DEF Decoding
<1>6. Cardinality(Decoding') = Cardinality(Decoding) - 1 /\ Cardinality(Decoding') \in Nat
  BY <1>5, DecodingFinite, FS_RemoveElement, FS_CardinalityType
<1>7. inFlight' = Cardinality(Decoding') /\ inFlight' \in Nat
  BY <1>0, <1>6 DEF IInv, DecodersOwnTheirDocument, Decoding
<1>8. TypeOK'
  <2>1. queuedSamples' \in Nat
    BY <1>1, <1>2 DEF IInv, TypeOK, SamplesOf
  <2> QED
    BY <1>0, <1>3, <1>4, <1>7, <2>1
    DEF IInv, TypeOK, WorkerPc, DrainPc, lifecycle, counts, history
<1>9. Phases'
  BY <1>0, <1>4 DEF IInv, Phases, NoWorkerRuns, lifecycle
<1>10. Tickets'
  BY <1>0, <1>3 DEF IInv, Tickets, lifecycle
<1>11. DecodersOwnTheirDocument'
  <2>1. \A v \in Workers : wpc'[v] = "decoding" =>
          v # w /\ wpc[v] = "decoding" /\ wticket[v] # t
    BY <1>0, <1>4 DEF IInv, DecodersOwnTheirDocument
  <2> QED
    BY <1>0, <1>3, <1>7, <2>1 DEF IInv, DecodersOwnTheirDocument, Decoding
<1>12. Ordered'
  BY <1>0, <1>3, OrderedSameIds DEF IInv, history
<1> QED
  BY <1>8, <1>9, <1>10, <1>11, <1>12 DEF IInv

\* The end of an application, by a worker that decoded nothing since: what
\* both of its callers share.
LEMMA FinishedIInv ==
    ASSUME IInv, NEW w \in Workers, FrontDecoded, Finished(pending[nextApply].id),
           wpc[w] = "ready", holder \in {NoOne, w}, holder' = NoOne,
           decodeFailures' \in Nat,
           UNCHANGED <<lifecycle, nextTicket, inFlight, queuedSamples, cursor, wticket,
                       dropped, submitted, log>>
    PROVE  IInv'
<1> USE ObservatoryAssumption
<1>0. /\ nextApply \in DOMAIN pending /\ pending[nextApply].decoded
      /\ nextApply \in Nat /\ nextTicket \in Nat /\ nextApply' = nextApply + 1
  BY DEF FrontDecoded, Finished, IInv, TypeOK
<1>1. DOMAIN pending = nextApply..(nextTicket - 1)
  BY <1>0 DEF IInv, Tickets
<1>2. /\ DOMAIN pending' = DOMAIN pending \ {nextApply}
      /\ pending' \in [DOMAIN pending' -> Document]
      /\ \A t \in DOMAIN pending' : pending'[t] = pending[t]
  BY DEF Finished, IInv, Tickets
<1>3. /\ wpc' \in [Workers -> WorkerPc] /\ drainer' \in [Clients -> DrainPc]
      /\ \A v \in Workers : wpc[v] # "asleep" => wpc'[v] = wpc[v]
      /\ \A v \in Workers : wpc[v] = "asleep" => wpc'[v] = "ready"
  BY WakeWorkers, WakeDrainers DEF Finished, IInv, TypeOK, WorkerPc, DrainPc
<1>4. TypeOK'
  <2>1. applied' \in Nat /\ queuedBatches' \in Nat
    BY DEF Finished, IInv, TypeOK
  <2>2. finished' \in Seq(Nat)
    <3>1. pending[nextApply].id \in Nat
      BY <1>0 DEF IInv, Tickets, Document
    <3> QED
      BY <3>1 DEF Finished, IInv, TypeOK
  <2>3. /\ DOMAIN pending' \subseteq Nat /\ nextApply' \in Nat
        /\ \A t \in DOMAIN pending' : pending'[t] \in Document
    <3>1. DOMAIN pending \subseteq Nat
      BY DEF IInv, TypeOK
    <3> QED
      BY <1>0, <1>2, <3>1
  <2>4. holder' \in Workers \cup Clients \cup {NoOne}
    OBVIOUS
  <2>5. UNCHANGED <<pool, state, lc, stopRequested>>
    BY DEF lifecycle
  <2> QED
    BY <1>3, <2>1, <2>2, <2>3, <2>4, <2>5 DEF IInv, TypeOK, WorkerPc, DrainPc
<1>5. Phases'
  BY <1>3 DEF IInv, Phases, NoWorkerRuns, lifecycle
<1>6. Tickets'
  BY <1>0, <1>1, <1>2 DEF IInv, Tickets, lifecycle
<1>7. DecodersOwnTheirDocument'
  <2>1. Decoding' = Decoding
    BY <1>3 DEF Decoding
  <2>2. \A v \in Workers : wpc'[v] = "decoding" =>
          wpc[v] = "decoding" /\ wticket[v] # nextApply
    BY <1>0, <1>3 DEF IInv, DecodersOwnTheirDocument
  <2> QED
    BY <1>2, <2>1, <2>2 DEF IInv, DecodersOwnTheirDocument, Decoding
<1>8. Ordered'
  <2>1. \A t \in DOMAIN pending' : t \in DOMAIN pending /\ t # nextApply
    BY <1>2
  <2>2. \A i \in DOMAIN log' : Behind(log[i])'
    BY <1>2, <2>1 DEF IInv, Ordered, Behind
  <2>3. AppliedInSubmissionOrder'
    BY DEF IInv, Ordered, AppliedInSubmissionOrder, Before
  <2> QED
    BY <1>2, <2>1, <2>2, <2>3 DEF IInv, Ordered
<1> QED
  BY <1>4, <1>5, <1>6, <1>7, <1>8 DEF IInv

\* A document without samples to ingest is finished at once.
LEMMA ApplyNothingIInv ==
    ASSUME IInv, NEW w \in Workers, ApplyNothing(w)
    PROVE  IInv'
<1>1. decodeFailures' \in Nat
  BY DEF ApplyNothing, IInv, TypeOK
<1> QED
  BY <1>1, FinishedIInv DEF ApplyNothing, AtTop, QueueLockFree

\* A worker finishes the document it applied.
LEMMA EndApplyIInv ==
    ASSUME IInv, NEW w \in Workers, EndApply(w)
    PROVE  IInv'
<1>1. decodeFailures' \in Nat
  BY DEF EndApply, IInv, TypeOK
<1>2. CurrentDoc = pending[nextApply].id
  BY ObservatoryAssumption DEF EndApply, CurrentDoc
<1>3. FrontDecoded /\ wpc[w] = "ready"
  BY DEF EndApply, IInv, Phases
<1> QED
  BY <1>1, <1>2, <1>3, FinishedIInv DEF EndApply

\* A worker starts to apply the oldest document and keeps queue_mutex_.
LEMMA BeginApplyIInv ==
    ASSUME IInv, NEW w \in Workers, BeginApply(w)
    PROVE  IInv'
<1> USE ObservatoryAssumption
<1>0. /\ UNCHANGED <<lifecycle, tickets, wpc, wticket, drainer, counts, history>>
      /\ holder = NoOne /\ holder' = w /\ cursor' = 0 /\ wpc[w] = "ready" /\ FrontDecoded
  BY DEF BeginApply, AtTop, QueueLockFree
<1>1. TypeOK'
  BY <1>0 DEF IInv, TypeOK, lifecycle, tickets, counts, history
<1>2. Phases'
  BY <1>0 DEF IInv, Phases, NoWorkerRuns, FrontDecoded, lifecycle, tickets
<1>3. Tickets'
  BY <1>0, TicketsUnchanged DEF IInv, lifecycle, tickets
<1>4. DecodersOwnTheirDocument'
  BY <1>0, DecodersUnchanged DEF IInv, tickets
<1>5. Ordered'
  <2>1. \A i \in DOMAIN log' : Behind(log[i])'
    BY <1>0 DEF IInv, Ordered, Behind, tickets, history
  <2> QED
    BY <1>0, <2>1 DEF IInv, Ordered, AppliedInSubmissionOrder, Before, tickets, history
<1> QED
  BY <1>1, <1>2, <1>3, <1>4, <1>5 DEF IInv

\* The sample ingested comes after everything ingested before it.
LEMMA IngestSampleIInv ==
    ASSUME IInv, IngestSample
    PROVE  IInv'
<1> USE ObservatoryAssumption
<1>0. /\ UNCHANGED <<lifecycle, tickets, holder, wpc, wticket, drainer, counts, submitted,
                     finished>>
      /\ cursor' = cursor + 1 /\ cursor < SamplesPerDoc /\ cursor \in Nat
      /\ (holder \in Workers \/ holder \in Clients)
  BY DEF IngestSample, IInv, TypeOK
<1>01. holder \in Workers => nextApply \in DOMAIN pending /\ CurrentDoc = pending[nextApply].id
  BY DEF IInv, Phases, FrontDecoded, CurrentDoc
<1>02. CurrentDoc \in Nat /\ CurrentDoc <= submitted /\ submitted \in Nat
  <2>1. CASE holder \in Clients
    BY <2>1 DEF CurrentDoc, IInv, TypeOK
  <2>2. CASE holder \in Workers
    BY <1>01, <2>2 DEF IInv, TypeOK, Tickets, Ordered, Document
  <2> QED
    BY <1>0, <2>1, <2>2
<1>03. Len(log) \in Nat
  BY DEF IInv, TypeOK
<1>1. PICK d \in Nat, k \in Nat, n \in Nat : d = CurrentDoc /\ k = cursor /\ n = Len(log)
  BY <1>0, <1>02, <1>03, Zenon
<1>2. /\ log \in Seq(Nat \X Nat) /\ DOMAIN log = 1..n
      /\ log' \in Seq(Nat \X Nat) /\ DOMAIN log' = 1..(n + 1)
      /\ \A i \in 1..n : log'[i] = log[i] /\ log[i] \in Nat \X Nat
      /\ log'[n + 1] = <<d, k + 1>>
  BY <1>1 DEF IInv, TypeOK, IngestSample
<1>3. TypeOK'
  BY <1>0, <1>2 DEF IInv, TypeOK, lifecycle, tickets, counts
<1>4. Phases'
  BY <1>0 DEF IInv, Phases, NoWorkerRuns, FrontDecoded, lifecycle, tickets
<1>5. Tickets'
  BY <1>0, TicketsUnchanged DEF IInv, lifecycle, tickets
<1>6. DecodersOwnTheirDocument'
  BY <1>0, DecodersUnchanged DEF IInv, tickets
<1>7. Ordered'
  <2>1. UNCHANGED <<pending, nextApply, holder, submitted>>
    BY <1>0 DEF tickets
  <2>2. \A i \in 1..n : Behind(log[i]) /\ log[i][1] \in Nat /\ log[i][2] \in Nat
    BY <1>2 DEF IInv, Ordered
  <2>3. \A i \in 1..n : Before(log[i], <<d, k + 1>>)
    <3>1. CASE holder \in Clients
      <4>1. d = submitted
        BY <1>1, <3>1 DEF CurrentDoc
      <4> QED
        BY <1>1, <2>2, <3>1, <4>1 DEF Before, Behind
    <3>2. CASE holder \in Workers
      BY <1>01, <1>1, <2>2, <3>2 DEF Before, Behind
    <3> QED
      BY <1>0, <3>1, <3>2
  <2>4. \A t \in DOMAIN pending :
             \/ d < pending[t].id
             \/ holder \in Workers /\ t = nextApply /\ d = pending[t].id
    <3>1. CASE holder \in Clients
      BY <3>1 DEF IInv, Phases, Tickets
    <3>2. CASE holder \in Workers
      <4>1. DOMAIN pending = nextApply..(nextTicket - 1)
        BY <1>01, <3>2 DEF IInv, Tickets
      <4>2. \A t \in DOMAIN pending : t = nextApply \/ nextApply < t
        BY <4>1 DEF IInv, TypeOK
      <4> QED
        BY <1>01, <1>1, <3>2, <4>2 DEF IInv, Ordered
    <3> QED
      BY <1>0, <3>1, <3>2
  <2>5. (\A i \in DOMAIN log : Behind(log[i]))'
    <3>1. ASSUME NEW i \in 1..n PROVE Behind(log[i])'
      <4>1. /\ Behind(log[i]) /\ log'[i] = log[i] /\ log[i][2] \in Nat
            /\ cursor = k /\ cursor' = k + 1
        BY <1>0, <1>1, <1>2, <2>2
      <4>2. log[i][2] <= cursor => log[i][2] <= cursor'
        BY <4>1
      <4> QED
        BY <2>1, <4>1, <4>2 DEF Behind
    <3>2. Behind(log[n + 1])'
      <4>1. <<d, k + 1>>[1] = d /\ <<d, k + 1>>[2] = k + 1
        OBVIOUS
      <4>2. d <= submitted' /\ cursor' = k + 1
        BY <1>0, <1>02, <1>1, <2>1
      <4> QED
        BY <1>1, <1>2, <2>1, <2>4, <4>1, <4>2 DEF Behind
    <3>3. \A i \in DOMAIN log' : i \in 1..n \/ i = n + 1
      BY <1>2
    <3> QED
      BY <3>1, <3>2, <3>3
  <2>6. AppliedInSubmissionOrder'
    <3>1. \A i, j \in 1..n : i < j => Before(log[i], log[j])
      BY <1>2 DEF IInv, Ordered, AppliedInSubmissionOrder
    <3>2. \A i, j \in 1..(n + 1) : i < j => i \in 1..n /\ (j \in 1..n \/ j = n + 1)
      OBVIOUS
    <3>3. \A i, j \in 1..(n + 1) : i < j => Before(log'[i], log'[j])
      <4> SUFFICES ASSUME NEW i \in 1..(n + 1), NEW j \in 1..(n + 1), i < j
                   PROVE  Before(log'[i], log'[j])
        OBVIOUS
      <4>1. i \in 1..n /\ log'[i] = log[i]
        BY <1>2, <3>2
      <4>2. CASE j \in 1..n
        BY <1>2, <3>1, <4>1, <4>2
      <4>3. CASE j = n + 1
        BY <1>2, <2>3, <4>1, <4>3
      <4> QED
        BY <3>2, <4>2, <4>3
    <3> QED
      BY <1>2, <3>3 DEF AppliedInSubmissionOrder, Before
  <2> QED
    BY <2>1, <2>5, <2>6 DEF IInv, Ordered
<1> QED
  BY <1>3, <1>4, <1>5, <1>6, <1>7 DEF IInv

\* A caller finishes the document it applied itself.
LEMMA EndApplySyncIInv ==
    ASSUME IInv, NEW c \in Clients, EndApplySync(c)
    PROVE  IInv'
<1> USE ObservatoryAssumption
<1>0. /\ UNCHANGED <<lifecycle, tickets, cursor, wpc, wticket, drainer, dropped, decodeFailures,
                     submitted, log>>
      /\ holder = c /\ holder' = NoOne
  BY DEF EndApplySync
<1>1. TypeOK'
  <2>1. applied' \in Nat /\ finished' \in Seq(Nat)
    BY DEF EndApplySync, IInv, TypeOK
  <2> QED
    BY <1>0, <2>1 DEF IInv, TypeOK, lifecycle, tickets
<1>2. Phases'
  BY <1>0 DEF IInv, Phases, NoWorkerRuns, lifecycle
<1>3. Tickets'
  BY <1>0, TicketsUnchanged DEF IInv, lifecycle, tickets
<1>4. DecodersOwnTheirDocument'
  BY <1>0, DecodersUnchanged DEF IInv, tickets
<1>5. Ordered'
  <2>1. DOMAIN pending = {} /\ UNCHANGED <<pending, submitted, log>>
    BY <1>0 DEF IInv, Phases, Tickets, tickets
  <2> QED
    BY <1>0, <2>1 DEF IInv, Ordered, Behind, AppliedInSubmissionOrder, Before
<1> QED
  BY <1>1, <1>2, <1>3, <1>4, <1>5 DEF IInv

-----------------------------------------------------------------------------
(* The invariant holds, and what follows from it *)

\* Every step of every thread preserves the inductive invariant.
LEMMA NextIInv == IInv /\ [Next]_vars => IInv'
<1> SUFFICES ASSUME IInv, [Next]_vars
             PROVE  IInv'
  OBVIOUS
<1>1. CASE StartBegin
  BY <1>1, StartBeginIInv
<1>2. CASE StopIdle \/ StopBegin
  BY <1>2, LifecycleIInv
<1>3. CASE Lifecycle
  BY <1>3, StartWorkersIInv, LifecycleIInv, StopNotifyIInv, StopJoinIInv, StopDiscardIInv
  DEF Lifecycle
<1>4. CASE IngestSample
  BY <1>4, IngestSampleIInv
<1>5. ASSUME NEW w \in Workers, Worker(w) PROVE IInv'
  BY <1>5, WorkerIdleIInv, BeginDecodeIInv, EndDecodeIInv, ApplyNothingIInv, BeginApplyIInv,
     EndApplyIInv DEF Worker
<1>6. ASSUME NEW c \in Clients, Client(c) PROVE IInv'
  BY <1>6, SubmitIInv, SubmitSyncIInv, DrainIInv, EndApplySyncIInv DEF Client
<1>7. CASE UNCHANGED vars
  <2>1. UNCHANGED <<lifecycle, tickets, threads, counts, history>>
    BY <1>7 DEF vars
  <2>2. TypeOK'
    BY <2>1 DEF IInv, TypeOK, lifecycle, tickets, threads, counts, history
  <2>3. Phases'
    BY <2>1 DEF IInv, Phases, NoWorkerRuns, FrontDecoded, lifecycle, tickets, threads
  <2>4. Tickets'
    BY <2>1, TicketsUnchanged DEF IInv, lifecycle, tickets
  <2>5. DecodersOwnTheirDocument'
    BY <2>1, DecodersUnchanged DEF IInv, tickets, threads
  <2>6. Ordered'
    BY <2>1, OrderedUnchanged DEF IInv, tickets, threads, history
  <2> QED
    BY <2>2, <2>3, <2>4, <2>5, <2>6 DEF IInv
<1> QED
  BY <1>1, <1>2, <1>3, <1>4, <1>5, <1>6, <1>7 DEF Next

\* The inductive invariant holds in every reachable state.
LEMMA SpecIInv == Spec => []IInv
BY InitIInv, NextIInv, PTL DEF Spec

\* Every variable of the runtime keeps its type, whatever the threads do.
THEOREM RuntimeTypes == Spec => []TypeOK
<1>1. IInv => TypeOK
  BY DEF IInv
<1> QED
  BY <1>1, SpecIInv, PTL

\* Evidence reaches the store in submission order and no sample twice,
\* for any number of workers and through any sequence of starts and stops.
THEOREM RuntimeAppliesInOrder == Spec => []AppliedInSubmissionOrder
<1>1. IInv => AppliedInSubmissionOrder
  BY DEF IInv, Ordered
<1> QED
  BY <1>1, SpecIInv, PTL

\* The worker that decodes outside queue_mutex_ keeps its document alive and
\* to itself, and in_flight_ counts exactly those workers.
THEOREM RuntimeDecodersOwn == Spec => []DecodersOwnTheirDocument
<1>1. IInv => DecodersOwnTheirDocument
  BY DEF IInv
<1> QED
  BY <1>1, SpecIInv, PTL

\* What waits is always the tickets from the next to be applied to the last
\* one issued.
THEOREM RuntimeTicketsContiguous == Spec => []TicketsContiguous
<1>1. IInv => TicketsContiguous
  <2> SUFFICES ASSUME IInv, pending # <<>>
               PROVE  DOMAIN pending = nextApply..(nextTicket - 1)
    BY DEF TicketsContiguous
  <2>1. pending \in [DOMAIN pending -> Document]
    BY DEF IInv, Tickets
  <2>2. DOMAIN pending # {}
    BY <2>1
  <2> QED
    BY <2>2 DEF IInv, Tickets
<1> QED
  BY <1>1, SpecIInv, PTL

\* Once stop has returned no worker runs, none holds queue_mutex_ inside the
\* store and nothing is being decoded, for any pool and any history of calls.
THEOREM RuntimeStoppedIsQuiet == Spec => []StoppedIsQuiet
<1>1. IInv => StoppedIsQuiet
  <2> SUFFICES ASSUME IInv, state = "stopped"
               PROVE  NoWorkerRuns /\ holder \notin Workers /\ inFlight = 0
    BY DEF StoppedIsQuiet, NoWorkerRuns
  <2>1. NoWorkerRuns
    BY DEF IInv, Phases
  <2>2. holder \notin Workers
    BY <2>1 DEF IInv, Phases, NoWorkerRuns
  <2>3. Decoding = {}
    BY <2>1 DEF NoWorkerRuns, Decoding
  <2>4. inFlight = 0
    BY <2>3, DecodingFinite DEF IInv, DecodersOwnTheirDocument, Decoding
  <2> QED
    BY <2>1, <2>2, <2>4
<1> QED
  BY <1>1, SpecIInv, PTL

-----------------------------------------------------------------------------
(* The pool implements the ordered queue *)

\* No more documents are submitted than the bound allows, and a caller that
\* applies a document itself has submitted it.
Submissions ==
    /\ submitted <= MaxDocs
    /\ holder \in Clients => 1 <= submitted

\* Only submit_document moves the number of documents, below its bound.
LEMMA NextSubmissions == IInv /\ Submissions /\ [Next]_vars => Submissions'
<1> SUFFICES ASSUME IInv, Submissions, [Next]_vars PROVE Submissions'
  OBVIOUS
<1> USE ObservatoryAssumption
<1>0. submitted \in Nat
  BY DEF IInv, TypeOK
<1>1. CASE UNCHANGED <<submitted, holder>>
  BY <1>1 DEF Submissions
<1>2. ASSUME NEW c \in Clients, NEW kind \in Kinds, Submit(c, kind) \/ SubmitSync(c, kind)
      PROVE  Submissions'
  <2>1. submitted' = submitted + 1 /\ submitted < MaxDocs
    BY <1>2 DEF Submit, SubmitSync
  <2> QED
    BY <1>0, <2>1 DEF Submissions
<1>3. ASSUME NEW w \in Workers, BeginApply(w) \/ EndApply(w) \/ ApplyNothing(w)
      PROVE  Submissions'
  <2>1. submitted' = submitted /\ holder' \notin Clients
    BY <1>3 DEF BeginApply, EndApply, ApplyNothing, AtTop, QueueLockFree, history
  <2> QED
    BY <2>1 DEF Submissions
<1>4. ASSUME NEW c \in Clients, EndApplySync(c)
      PROVE  Submissions'
  BY <1>4 DEF EndApplySync, Submissions
<1>5. CASE StartBegin \/ StopIdle \/ StopBegin \/ Lifecycle
  BY <1>1, <1>5 DEF StartBegin, StopIdle, StopBegin, Lifecycle, StartWorkers, StartFails,
     StopRequest, StopNotify, StopJoin, StopDiscard, StopEnd, threads, history
<1>6. ASSUME NEW w \in Workers,
             WorkerSleep(w) \/ WorkerExit(w) \/ BeginDecode(w) \/ EndDecode(w)
      PROVE  Submissions'
  BY <1>1, <1>6 DEF WorkerSleep, WorkerExit, BeginDecode, EndDecode, history
<1>7. ASSUME NEW c \in Clients, DrainWait(c) \/ DrainReturn(c)
      PROVE  Submissions'
  BY <1>1, <1>7 DEF DrainWait, DrainReturn, history
<1>8. CASE IngestSample \/ UNCHANGED vars
  BY <1>1, <1>8 DEF IngestSample, vars, threads, history
<1> QED
  BY <1>2, <1>3, <1>4, <1>5, <1>6, <1>7, <1>8 DEF Next, Worker, Client

\* The abstract queue: the documents that wait, oldest first.
Waiting == [i \in 1..Cardinality(DOMAIN pending) |-> pending[nextApply + i - 1].id]

\* How many documents wait.
Depth == IF DOMAIN pending = {} THEN 0 ELSE nextTicket - nextApply

\* What the abstract queue is made of.
WaitingShape ==
    /\ Depth \in Nat /\ Cardinality(DOMAIN pending) = Depth
    /\ DOMAIN pending # {} => DOMAIN pending = nextApply..(nextTicket - 1)
    /\ Waiting \in Seq(Nat) /\ Len(Waiting) = Depth
    /\ Waiting = [i \in 1..Depth |-> pending[nextApply + i - 1].id]

\* The queue of the abstract specification is read off the tickets.
LEMMA WaitingByTicket == IInv => WaitingShape
<1> SUFFICES ASSUME IInv PROVE WaitingShape
  OBVIOUS
<1>1. /\ nextApply \in Nat /\ nextTicket \in Nat /\ nextApply <= nextTicket
      /\ DOMAIN pending # {} => DOMAIN pending = nextApply..(nextTicket - 1)
  BY DEF IInv, TypeOK, Tickets
<1>2. Depth \in Nat /\ Cardinality(DOMAIN pending) = Depth
  <2>1. CASE DOMAIN pending = {}
    BY <2>1, FS_EmptySet DEF Depth
  <2>2. CASE DOMAIN pending # {}
    <3>1. nextApply \in Int /\ nextTicket - 1 \in Int
      BY <1>1
    <3>2. Cardinality(nextApply..(nextTicket - 1)) =
            IF nextApply > nextTicket - 1 THEN 0 ELSE nextTicket - 1 - nextApply + 1
      BY <3>1, FS_Interval, Zenon
    <3> QED
      BY <1>1, <2>2, <3>2 DEF Depth
  <2> QED
    BY <2>1, <2>2
<1>3. \A i \in 1..Depth : pending[nextApply + i - 1].id \in Nat
  <2> SUFFICES ASSUME NEW i \in 1..Depth PROVE pending[nextApply + i - 1].id \in Nat
    OBVIOUS
  <2>1. nextApply + i - 1 \in DOMAIN pending
    BY <1>1, <1>2 DEF Depth
  <2> QED
    BY <2>1 DEF IInv, Tickets, Document
<1>4. Waiting = [i \in 1..Depth |-> pending[nextApply + i - 1].id]
  BY <1>2 DEF Waiting
<1>5. Waiting \in Seq(Nat) /\ Len(Waiting) = Depth
  BY <1>2, <1>3, <1>4
<1> QED
  BY <1>1, <1>2, <1>4, <1>5 DEF WaitingShape

\* A sequence that extends another by one entry is that one appended.
LEMMA AppendByIndex ==
    ASSUME NEW S, NEW s \in Seq(S), NEW t \in Seq(S), NEW e \in S,
           Len(t) = Len(s) + 1, \A i \in 1..Len(s) : t[i] = s[i], t[Len(s) + 1] = e
    PROVE  t = Append(s, e)
<1>1. Append(s, e) \in Seq(S) /\ Len(Append(s, e)) = Len(t)
  OBVIOUS
<1>2. \A i \in 1..Len(t) : t[i] = Append(s, e)[i]
  OBVIOUS
<1> QED
  BY <1>1, <1>2, SeqEqual

\* The queue does not depend on the marks that decoding leaves in it.
LEMMA SameWaiting ==
    ASSUME IInv, DOMAIN pending' = DOMAIN pending, nextApply' = nextApply,
           \A t \in DOMAIN pending : pending'[t].id = pending[t].id
    PROVE  Waiting' = Waiting
<1>1. /\ Depth \in Nat /\ Cardinality(DOMAIN pending) = Depth
      /\ DOMAIN pending # {} => DOMAIN pending = nextApply..(nextTicket - 1)
  BY WaitingByTicket DEF WaitingShape
<1>2. nextApply \in Nat /\ nextTicket \in Nat
  BY DEF IInv, TypeOK
<1>3. \A i \in 1..Depth : pending'[nextApply + i - 1].id = pending[nextApply + i - 1].id
  <2> SUFFICES ASSUME NEW i \in 1..Depth
               PROVE  pending'[nextApply + i - 1].id = pending[nextApply + i - 1].id
    OBVIOUS
  <2> DEFINE t == nextApply + i - 1
  <2>0. DOMAIN pending # {} /\ Depth = nextTicket - nextApply
    <3>1. /\ DOMAIN pending = {} => Depth = 0
          /\ DOMAIN pending # {} => Depth = nextTicket - nextApply
      BY DEF Depth
    <3>2. Depth # 0
      BY <1>1
    <3> QED
      BY <3>1, <3>2
  <2>1. t \in DOMAIN pending
    BY <1>1, <1>2, <2>0
  <2> HIDE DEF t
  <2>2. pending'[t].id = pending[t].id
    BY <2>1
  <2> QED
    BY <2>2 DEF t
<1> QED
  BY <1>1, <1>3 DEF Waiting

\* An emptied queue is the empty sequence.
LEMMA NothingWaits ==
    ASSUME DOMAIN pending = {}
    PROVE  Waiting = << >>
BY FS_EmptySet DEF Waiting

\* A submitted document goes to the end of the abstract queue.
LEMMA SubmitRefines ==
    ASSUME IInv, NEW c \in Clients, NEW kind \in Kinds, Submit(c, kind)
    PROVE  Waiting' = Append(Waiting, submitted + 1)
<1>1. IInv'
  BY SubmitIInv
<1>2. WaitingShape /\ WaitingShape'
  BY <1>1, WaitingByTicket, PTL
<1>3. /\ nextApply \in Nat /\ nextTicket \in Nat /\ submitted \in Nat
      /\ DOMAIN pending = nextApply..(nextTicket - 1)
      /\ nextApply <= nextTicket
  BY DEF IInv, TypeOK, Tickets, Submit
<1>4. /\ DOMAIN pending' = DOMAIN pending \cup {nextTicket}
      /\ \A t \in DOMAIN pending : t # nextTicket => pending'[t] = pending[t]
      /\ pending'[nextTicket].id = submitted + 1
      /\ nextApply' = nextApply /\ nextTicket' = nextTicket + 1
  BY DEF Submit, NewDocument
<1>5. Depth = nextTicket - nextApply /\ Depth' = Depth + 1
  BY <1>3, <1>4 DEF Depth
<1> DEFINE old == Waiting
           new == Waiting'
           d == Depth
<1>6. /\ old \in Seq(Nat) /\ Len(old) = d /\ new \in Seq(Nat) /\ Len(new) = d + 1 /\ d \in Nat
  BY <1>2, <1>5 DEF WaitingShape
<1>7. \A i \in 1..d : new[i] = old[i]
  <2> SUFFICES ASSUME NEW i \in 1..d PROVE new[i] = old[i]
    OBVIOUS
  <2>1. old[i] = pending[nextApply + i - 1].id
    BY <1>2 DEF WaitingShape
  <2>2. new[i] = pending'[nextApply + i - 1].id
    BY <1>2, <1>4, <1>5, <1>6 DEF WaitingShape
  <2>3. nextApply + i - 1 \in DOMAIN pending /\ nextApply + i - 1 # nextTicket
    BY <1>3, <1>5
  <2> QED
    BY <1>4, <2>1, <2>2, <2>3
<1>8. new[d + 1] = submitted + 1
  <2>1. new[d + 1] = pending'[nextApply + (d + 1) - 1].id
    BY <1>2, <1>4, <1>5, <1>6 DEF WaitingShape
  <2>2. nextApply + (d + 1) - 1 = nextTicket
    BY <1>3, <1>5
  <2> QED
    BY <1>4, <2>1, <2>2
<1> HIDE DEF old, new, d
<1>9. new = Append(old, submitted + 1)
  BY <1>3, <1>6, <1>7, <1>8, AppendByIndex
<1> QED
  BY <1>9 DEF old, new

\* Applying the document of the next ticket takes the head of the abstract
\* queue and nothing else.
LEMMA FinishedRefines ==
    ASSUME IInv, IInv', FrontDecoded, UNCHANGED nextTicket,
           pending' = [t \in DOMAIN pending \ {nextApply} |-> pending[t]],
           nextApply' = nextApply + 1
    PROVE  /\ Waiting # << >> /\ Head(Waiting) = pending[nextApply].id
           /\ Waiting' = Tail(Waiting)
<1>2. WaitingShape /\ WaitingShape'
  BY WaitingByTicket, PTL
<1>3. /\ nextApply \in Nat /\ nextTicket \in Nat /\ nextApply \in DOMAIN pending
      /\ DOMAIN pending = nextApply..(nextTicket - 1)
  BY <1>2 DEF IInv, TypeOK, FrontDecoded, WaitingShape
<1>4. Depth = nextTicket - nextApply /\ Depth >= 1
  BY <1>3 DEF Depth
<1>5. /\ DOMAIN pending' = (nextApply + 1)..(nextTicket - 1)
      /\ \A t \in DOMAIN pending' : pending'[t] = pending[t]
  BY <1>3
<1>6. Depth' = Depth - 1
  BY <1>3, <1>4, <1>5 DEF Depth
<1> DEFINE old == Waiting
           new == Waiting'
           d == Depth
<1>7. /\ old \in Seq(Nat) /\ Len(old) = d /\ new \in Seq(Nat) /\ Len(new) = d - 1 /\ d \in Nat
      /\ d >= 1
  BY <1>2, <1>4, <1>6 DEF WaitingShape
<1>8. \A i \in 1..(d - 1) : new[i] = old[i + 1]
  <2> SUFFICES ASSUME NEW i \in 1..(d - 1) PROVE new[i] = old[i + 1]
    OBVIOUS
  <2>1. old[i + 1] = pending[nextApply + (i + 1) - 1].id
    BY <1>2, <1>7 DEF WaitingShape
  <2>2. new[i] = pending'[nextApply' + i - 1].id
    BY <1>2, <1>6, <1>7 DEF WaitingShape
  <2>3. nextApply' + i - 1 = nextApply + i /\ nextApply + (i + 1) - 1 = nextApply + i
    BY <1>3, <1>7
  <2>4. nextApply + i \in DOMAIN pending'
    BY <1>3, <1>4, <1>5, <1>7
  <2> QED
    BY <1>5, <2>1, <2>2, <2>3, <2>4
<1>9. old[1] = pending[nextApply].id
  <2>1. old[1] = pending[nextApply + 1 - 1].id
    BY <1>2, <1>7 DEF WaitingShape
  <2> QED
    BY <1>3, <2>1
<1> HIDE DEF old, new, d
<1>10. /\ old # << >> /\ Head(old) = pending[nextApply].id
       /\ Tail(old) \in Seq(Nat) /\ Len(Tail(old)) = d - 1
       /\ \A i \in 1..(d - 1) : Tail(old)[i] = old[i + 1]
  BY <1>7, <1>9
<1>11. new = Tail(old)
  BY <1>7, <1>8, <1>10, SeqEqual
<1> QED
  BY <1>10, <1>11 DEF old, new

\* Each step of the pool is a step of the ordered queue or leaves it alone.
LEMMA StepRefines ==
    ASSUME IInv, IInv', Submissions, Submissions', [Next]_vars
    PROVE  \/ UNCHANGED <<Waiting, finished>>
           \/ Waiting' = << >> /\ finished' = finished
           \/ /\ Len(Waiting) < MaxPending
              /\ \E d \in 1..MaxDocs : Waiting' = Append(Waiting, d)
              /\ finished' = finished
           \/ /\ Waiting = << >> /\ Waiting' = Waiting
              /\ \E d \in 1..MaxDocs : finished' = Append(finished, d)
           \/ /\ Waiting # << >> /\ Waiting' = Tail(Waiting)
              /\ finished' = Append(finished, Head(Waiting))
<1> USE ObservatoryAssumption
<1>0. submitted \in Nat /\ submitted' \in Nat /\ submitted <= MaxDocs /\ submitted' <= MaxDocs
  BY DEF IInv, TypeOK, Submissions
<1>1. CASE UNCHANGED <<pending, nextApply, finished>>
  BY <1>1 DEF Waiting
<1>2. CASE StartBegin \/ StopDiscard
  <2>1. pending' = << >> /\ finished' = finished
    BY <1>2 DEF StartBegin, StopDiscard, history
  <2>2. DOMAIN pending' = {}
    BY <2>1
  <2>3. Waiting' = << >>
    BY <2>2, FS_EmptySet DEF Waiting
  <2> QED
    BY <2>1, <2>3
<1>3. ASSUME NEW c \in Clients, NEW kind \in Kinds, Submit(c, kind)
      PROVE  /\ Len(Waiting) < MaxPending
             /\ \E d \in 1..MaxDocs : Waiting' = Append(Waiting, d)
             /\ finished' = finished
  <2>1. Waiting' = Append(Waiting, submitted + 1)
    BY <1>3, SubmitRefines
  <2>2. submitted + 1 \in 1..MaxDocs /\ finished' = finished
    BY <1>0, <1>3 DEF Submit
  <2>3. Len(Waiting) < MaxPending
    BY <1>3, WaitingByTicket DEF WaitingShape, Submit
  <2> QED
    BY <2>1, <2>2, <2>3
<1>4. ASSUME NEW c \in Clients, NEW kind \in Kinds, SubmitSync(c, kind)
      PROVE  \/ UNCHANGED <<Waiting, finished>>
             \/ /\ Waiting = << >> /\ Waiting' = Waiting
                /\ \E d \in 1..MaxDocs : finished' = Append(finished, d)
  <2>1. Waiting' = Waiting
    BY <1>4 DEF SubmitSync, Waiting
  <2>2. Waiting = << >>
    <3>1. DOMAIN pending = {}
      BY <1>4 DEF SubmitSync, IInv, Tickets
    <3> QED
      BY <3>1, NothingWaits
  <2>3. \/ finished' = finished
        \/ finished' = Append(finished, submitted + 1) /\ submitted + 1 \in 1..MaxDocs
    BY <1>0, <1>4 DEF SubmitSync, SyncUndecodable, SyncRefused, SyncApply
  <2> QED
    BY <2>1, <2>2, <2>3
<1>5. ASSUME NEW w \in Workers, ApplyNothing(w) \/ EndApply(w)
      PROVE  /\ Waiting # << >> /\ Waiting' = Tail(Waiting)
             /\ finished' = Append(finished, Head(Waiting))
  <2>1. FrontDecoded
    BY <1>5 DEF ApplyNothing, EndApply, IInv, Phases
  <2>2. /\ nextTicket' = nextTicket /\ nextApply' = nextApply + 1
        /\ pending' = [t \in DOMAIN pending \ {nextApply} |-> pending[t]]
        /\ finished' = Append(finished, pending[nextApply].id)
    BY <1>5 DEF ApplyNothing, EndApply, Finished, CurrentDoc
  <2> QED
    BY <2>1, <2>2, FinishedRefines
<1>6. ASSUME NEW c \in Clients, EndApplySync(c)
      PROVE  /\ Waiting = << >> /\ Waiting' = Waiting
             /\ \E d \in 1..MaxDocs : finished' = Append(finished, d)
  <2>1. Waiting' = Waiting /\ finished' = Append(finished, submitted)
    BY <1>6 DEF EndApplySync, Waiting, tickets
  <2>2. submitted \in 1..MaxDocs
    BY <1>0, <1>6 DEF EndApplySync, Submissions
  <2>3. DOMAIN pending = {}
    BY <1>6 DEF EndApplySync, IInv, Phases, Tickets
  <2> QED
    BY <2>1, <2>2, <2>3, NothingWaits
<1>7. ASSUME NEW w \in Workers, BeginDecode(w) \/ EndDecode(w)
      PROVE  UNCHANGED <<Waiting, finished>>
  <2>1. pending \in [DOMAIN pending -> Document]
    BY DEF IInv, Tickets
  <2>2. /\ DOMAIN pending' = DOMAIN pending
        /\ \A t \in DOMAIN pending : pending'[t].id = pending[t].id
    <3>1. CASE BeginDecode(w)
      <4>1. PICK t \in Undecoded : pending' = [pending EXCEPT ![t].in_flight = TRUE]
        BY <3>1 DEF BeginDecode
      <4> QED
        BY <2>1, <4>1 DEF Document
    <3>2. CASE EndDecode(w)
      <4> DEFINE t == wticket[w]
      <4>1. \/ pending' = pending
            \/ pending' = [pending EXCEPT ![t].in_flight = FALSE, ![t].decoded = TRUE]
        BY <3>2 DEF EndDecode
      <4> HIDE DEF t
      <4> QED
        BY <2>1, <4>1 DEF Document
    <3> QED
      BY <1>7, <3>1, <3>2
  <2>3. nextApply' = nextApply /\ finished' = finished
    BY <1>7 DEF BeginDecode, EndDecode, history
  <2> QED
    BY <2>2, <2>3, SameWaiting
<1>8. CASE StopIdle \/ StopBegin \/ IngestSample \/ UNCHANGED vars
  BY <1>1, <1>8 DEF StopIdle, StopBegin, IngestSample, vars, tickets, history
<1>9. CASE Lifecycle
  BY <1>1, <1>2, <1>9 DEF Lifecycle, StartWorkers, StartFails, StopRequest, StopNotify, StopJoin,
     StopEnd, tickets, history
<1>10. ASSUME NEW w \in Workers, WorkerSleep(w) \/ WorkerExit(w) \/ BeginApply(w)
       PROVE  UNCHANGED <<Waiting, finished>>
  BY <1>10 DEF WorkerSleep, WorkerExit, BeginApply, tickets, history, Waiting
<1>11. ASSUME NEW c \in Clients, DrainWait(c) \/ DrainReturn(c)
       PROVE  UNCHANGED <<Waiting, finished>>
  BY <1>11 DEF DrainWait, DrainReturn, tickets, history, Waiting
<1>12. ASSUME NEW w \in Workers, Worker(w)
       PROVE  \/ UNCHANGED <<Waiting, finished>>
              \/ /\ Waiting # << >> /\ Waiting' = Tail(Waiting)
                 /\ finished' = Append(finished, Head(Waiting))
  BY <1>5, <1>7, <1>10, <1>12 DEF Worker
<1> QED
  BY <1>2, <1>3, <1>4, <1>6, <1>8, <1>9, <1>11, <1>12 DEF Next, Client

\* The workers, however they share out decoding, implement a queue whose
\* documents are applied one at a time in the order they were submitted.
THEOREM RuntimeImplementsOrderedApply == Spec => ImplementsOrderedApply
<1>1. Init => Abstract!Init /\ Submissions
  <2> SUFFICES ASSUME Init PROVE Abstract!Init /\ Submissions
    OBVIOUS
  <2>1. DOMAIN pending = {} /\ finished = << >>
    BY DEF Init
  <2>2. Waiting = << >>
    BY <2>1, NothingWaits
  <2>3. Submissions
    BY ObservatoryAssumption DEF Init, Submissions
  <2> QED
    BY <2>1, <2>2, <2>3 DEF Abstract!Init, Waiting
<1>2. IInv /\ IInv' /\ Submissions /\ Submissions' /\ [Next]_vars
        => [Abstract!Next]_(Abstract!vars)
  <2> SUFFICES ASSUME IInv, IInv', Submissions, Submissions', [Next]_vars
               PROVE  [Abstract!Next]_(Abstract!vars)
    OBVIOUS
  <2> QED
    BY StepRefines DEF Abstract!Next, Abstract!Submit, Abstract!SubmitAndApply, Abstract!Apply,
       Abstract!Discard, Abstract!vars, Waiting
<1> QED
  BY <1>1, <1>2, SpecIInv, NextSubmissions, PTL DEF Spec, ImplementsOrderedApply, Abstract!Spec

-----------------------------------------------------------------------------
(* Every document is accounted for *)

\* A runtime that is not running has nothing queued, so that the next start
\* forgets nothing.  This is where a recovery that fails would break it: it
\* leaves what was submitted meanwhile in the queue of a "created" runtime.
EmptyWhenStopped ==
    state \in {"created", "stopped"} \/ lc = "persist" => DOMAIN pending = {}

AInv == EmptyWhenStopped /\ EveryDocumentAccounted

Queued == Cardinality(DOMAIN pending)

\* The number of documents that wait is the length of the abstract queue.
LEMMA QueuedIsLength == IInv => Queued \in Nat /\ Queued = Len(Waiting) /\ Waiting \in Seq(Nat)
BY WaitingByTicket DEF WaitingShape, Queued

\* The account depends on the counters, the pool, the size of the queue and
\* on whether queue_mutex_ is held.
LEMMA AccountUnchanged ==
    ASSUME EveryDocumentAccounted, Queued' = Queued,
           UNCHANGED <<pool, submitted, applied, dropped, decodeFailures>>,
           pool = {} => QueueLockFree' = QueueLockFree
    PROVE  EveryDocumentAccounted'
BY DEF EveryDocumentAccounted, Queued

\* Lifecycle steps other than start and the discarding stop leave the queue.
LEMMA LifecycleAccounts ==
    ASSUME IInv, AInv, StartWorkers \/ StopIdle \/ StopBegin \/ StopRequest \/ StopNotify
                       \/ StopJoin \/ StopEnd
    PROVE  AInv'
<1>1. /\ UNCHANGED <<pool, pending, holder, submitted, applied, dropped, decodeFailures>>
      /\ state' \in {"created", "stopped"} \/ lc' = "persist"
           => state \in {"created", "stopped"} \/ lc = "persist"
  BY DEF StartWorkers, StopIdle, StopBegin, StopRequest, StopNotify, StopJoin, StopEnd, tickets,
     threads, counts, history
<1>2. EmptyWhenStopped'
  BY <1>1 DEF AInv, EmptyWhenStopped
<1>3. EveryDocumentAccounted'
  BY <1>1, AccountUnchanged DEF AInv, Queued, QueueLockFree
<1> QED
  BY <1>2, <1>3 DEF AInv

\* start empties a queue that is empty already; stop counts what it drops.
LEMMA EmptyingAccounts ==
    ASSUME IInv, AInv, StartBegin \/ StopDiscard
    PROVE  AInv'
<1>1. DOMAIN pending' = {}
  BY DEF StartBegin, StopDiscard
<1>2. Queued' = 0
  BY <1>1, FS_EmptySet DEF Queued
<1>3. EmptyWhenStopped'
  BY <1>1 DEF EmptyWhenStopped
<1>4. UNCHANGED <<pool, holder, submitted, applied, decodeFailures>>
  BY DEF StartBegin, StopDiscard, threads, counts, history
<1>5. dropped' = dropped + Queued
  <2>1. CASE StartBegin
    <3>1. DOMAIN pending = {} /\ dropped' = dropped
      BY <2>1 DEF AInv, EmptyWhenStopped, StartBegin, counts
    <3>2. Queued = 0
      BY <3>1, FS_EmptySet DEF Queued
    <3> QED
      BY <3>1, <3>2 DEF IInv, TypeOK
  <2>2. CASE StopDiscard
    BY <2>2 DEF StopDiscard, Queued
  <2> QED
    BY <2>1, <2>2
<1>6. /\ Queued \in Nat /\ applied \in Nat /\ dropped \in Nat /\ decodeFailures \in Nat
  BY QueuedIsLength DEF IInv, TypeOK
<1>7. EveryDocumentAccounted'
  BY <1>2, <1>4, <1>5, <1>6 DEF AInv, EveryDocumentAccounted, Queued, QueueLockFree
<1> QED
  BY <1>3, <1>7 DEF AInv

\* A document that gets a ticket waits, or is being applied, or is counted.
LEMMA SubmittingAccounts ==
    ASSUME IInv, IInv', AInv, NEW c \in Clients, NEW kind \in Kinds,
           Submit(c, kind) \/ SubmitSync(c, kind)
    PROVE  AInv'
<1> USE ObservatoryAssumption
<1>1. /\ Queued \in Nat /\ applied \in Nat /\ dropped \in Nat /\ decodeFailures \in Nat
      /\ submitted \in Nat
  BY QueuedIsLength DEF IInv, TypeOK
<1>2. EmptyWhenStopped'
  <2>1. state' = "running" /\ lc' = lc /\ lc # "persist"
    BY DEF IInv, Phases, Submit, SubmitSync, lifecycle
  <2> QED
    BY <2>1 DEF EmptyWhenStopped
<1>3. CASE Submit(c, kind)
  <2>1. Waiting' = Append(Waiting, submitted + 1)
    BY <1>3, SubmitRefines
  <2>2. Queued' = Len(Waiting')
    <3>1. WaitingShape'
      BY WaitingByTicket, PTL
    <3> QED
      BY <3>1 DEF WaitingShape, Queued
  <2>3. Queued' = Queued + 1
    BY <1>1, <2>1, <2>2, QueuedIsLength
  <2>4. /\ pool # {} /\ submitted' = submitted + 1
        /\ UNCHANGED <<pool, applied, dropped, decodeFailures>>
    BY <1>3 DEF Submit, lifecycle, counts
  <2>5. EveryDocumentAccounted'
    BY <1>1, <2>3, <2>4 DEF AInv, EveryDocumentAccounted, Queued
  <2> QED
    BY <1>2, <2>5 DEF AInv
<1>4. CASE SubmitSync(c, kind)
  <2>1. /\ pool = {} /\ pool' = pool /\ QueueLockFree /\ submitted' = submitted + 1
        /\ Queued' = Queued /\ dropped' = dropped
    BY <1>4 DEF SubmitSync, lifecycle, Queued
  <2>2. \/ /\ decodeFailures' = decodeFailures + 1 /\ applied' = applied /\ QueueLockFree'
        \/ /\ applied' = applied + 1 /\ decodeFailures' = decodeFailures /\ QueueLockFree'
        \/ /\ applied' = applied /\ decodeFailures' = decodeFailures /\ ~QueueLockFree'
    BY <1>4, <2>1 DEF SubmitSync, SyncUndecodable, SyncRefused, SyncApply, QueueLockFree
  <2>3. EveryDocumentAccounted'
    BY <1>1, <2>1, <2>2 DEF AInv, EveryDocumentAccounted, Queued
  <2> QED
    BY <1>2, <2>3 DEF AInv
<1> QED
  BY <1>3, <1>4

\* A document that was applied leaves the queue and is counted as applied.
LEMMA FinishingAccounts ==
    ASSUME IInv, IInv', AInv, NEW w \in Workers, ApplyNothing(w) \/ EndApply(w)
    PROVE  AInv'
<1> USE ObservatoryAssumption
<1>1. /\ Queued \in Nat /\ applied \in Nat /\ dropped \in Nat /\ submitted \in Nat
  BY QueuedIsLength DEF IInv, TypeOK
<1>2. FrontDecoded /\ wpc[w] = "ready"
  BY DEF ApplyNothing, EndApply, AtTop, IInv, Phases
<1>3. pool # {} /\ state \notin {"created", "stopped"} /\ lc # "persist"
  BY <1>2 DEF IInv, Phases, NoWorkerRuns
<1>4. /\ nextTicket' = nextTicket /\ nextApply' = nextApply + 1
      /\ pending' = [t \in DOMAIN pending \ {nextApply} |-> pending[t]]
      /\ applied' = applied + 1
      /\ UNCHANGED <<pool, state, lc, submitted, dropped>>
  BY DEF ApplyNothing, EndApply, Finished, lifecycle
<1>5. Waiting # << >> /\ Waiting' = Tail(Waiting)
  BY <1>2, <1>4, FinishedRefines
<1>6. Queued' = Len(Waiting')
  <2>1. WaitingShape'
    BY WaitingByTicket, PTL
  <2> QED
    BY <2>1 DEF WaitingShape, Queued
<1>7. Queued' = Queued - 1
  BY <1>1, <1>5, <1>6, QueuedIsLength
<1>8. EveryDocumentAccounted'
  BY <1>1, <1>3, <1>4, <1>7 DEF AInv, EveryDocumentAccounted, Queued
<1>9. EmptyWhenStopped'
  BY <1>3, <1>4 DEF EmptyWhenStopped
<1> QED
  BY <1>8, <1>9 DEF AInv

\* A caller that applied its document itself gives it over to the count.
LEMMA EndApplySyncAccounts ==
    ASSUME IInv, AInv, NEW c \in Clients, EndApplySync(c)
    PROVE  AInv'
<1> USE ObservatoryAssumption
<1>1. pool = {} /\ ~QueueLockFree /\ QueueLockFree'
  BY DEF EndApplySync, IInv, Phases, QueueLockFree
<1>2. /\ UNCHANGED <<pool, state, lc, pending, submitted, dropped, decodeFailures>>
      /\ applied' = applied + 1
  BY DEF EndApplySync, lifecycle, tickets
<1>3. /\ Queued \in Nat /\ Queued' = Queued /\ applied \in Nat /\ dropped \in Nat
      /\ decodeFailures \in Nat /\ submitted \in Nat
  BY <1>2, QueuedIsLength DEF IInv, TypeOK, Queued
<1>4. EveryDocumentAccounted'
  BY <1>1, <1>2, <1>3 DEF AInv, EveryDocumentAccounted, Queued
<1> QED
  BY <1>2, <1>4 DEF AInv, EmptyWhenStopped

\* Everything else the threads do leaves the number of waiting documents and
\* the counters alone.
LEMMA WorkingAccounts ==
    ASSUME IInv, AInv,
           \/ IngestSample \/ UNCHANGED vars
           \/ \E w \in Workers : WorkerSleep(w) \/ WorkerExit(w) \/ BeginDecode(w)
                                 \/ EndDecode(w) \/ BeginApply(w)
           \/ \E c \in Clients : DrainWait(c) \/ DrainReturn(c)
    PROVE  AInv'
<1> USE ObservatoryAssumption
<1>1. UNCHANGED <<pool, state, lc, submitted, applied, dropped, decodeFailures>>
  BY DEF IngestSample, vars, WorkerSleep, WorkerExit, BeginDecode, EndDecode, BeginApply,
     DrainWait, DrainReturn, lifecycle, counts, history
<1>2. DOMAIN pending' = DOMAIN pending
  <2>1. ASSUME NEW w \in Workers, BeginDecode(w) \/ EndDecode(w)
        PROVE  DOMAIN pending' = DOMAIN pending
    <3> DEFINE mark(t) == [pending EXCEPT ![t].in_flight = FALSE, ![t].decoded = TRUE]
    <3>1. \/ \E t \in Undecoded : pending' = [pending EXCEPT ![t].in_flight = TRUE]
          \/ pending' = pending
          \/ pending' = mark(wticket[w])
      BY <2>1 DEF BeginDecode, EndDecode
    <3> QED
      BY <3>1
  <2>2. ASSUME UNCHANGED tickets PROVE DOMAIN pending' = DOMAIN pending
    BY <2>2 DEF tickets
  <2> QED
    BY <2>1, <2>2 DEF IngestSample, vars, WorkerSleep, WorkerExit, BeginApply, DrainWait,
       DrainReturn
<1>3. pool = {} => UNCHANGED QueueLockFree
  <2> SUFFICES ASSUME pool = {} PROVE UNCHANGED QueueLockFree
    OBVIOUS
  <2>1. \A w \in Workers : ~BeginApply(w)
    BY DEF IInv, Phases, BeginApply, AtTop
  <2> QED
    BY <2>1 DEF IngestSample, vars, threads, WorkerSleep, WorkerExit, BeginDecode, EndDecode,
       DrainWait, DrainReturn, QueueLockFree
<1>4. EveryDocumentAccounted'
  BY <1>1, <1>2, <1>3, AccountUnchanged DEF AInv, Queued
<1> QED
  BY <1>1, <1>2, <1>4 DEF AInv, EmptyWhenStopped

\* Where recovery cannot fail half way, every document that was ever given a
\* ticket is applied, dropped with a count, or still queued, for any pool, any
\* number of documents and any sequence of starts and stops.
THEOREM RuntimeAccountsForEveryDocument ==
    ASSUME ~RecoveryMayFail
    PROVE  Spec => []EveryDocumentAccounted
<1>1. Init => AInv
  <2> SUFFICES ASSUME Init PROVE AInv
    OBVIOUS
  <2>1. DOMAIN pending = {}
    BY DEF Init
  <2>2. Cardinality(DOMAIN pending) = 0
    BY <2>1, FS_EmptySet
  <2> QED
    BY <2>1, <2>2 DEF Init, AInv, EmptyWhenStopped, EveryDocumentAccounted, QueueLockFree
<1>2. IInv /\ IInv' /\ AInv /\ [Next]_vars => AInv'
  <2> SUFFICES ASSUME IInv, IInv', AInv, [Next]_vars PROVE AInv'
    OBVIOUS
  <2>1. CASE StartBegin \/ StopIdle \/ StopBegin \/ Lifecycle
    BY <2>1, LifecycleAccounts, EmptyingAccounts DEF Lifecycle, StartFails
  <2>2. ASSUME NEW w \in Workers, Worker(w) PROVE AInv'
    BY <2>2, FinishingAccounts, WorkingAccounts DEF Worker
  <2>3. ASSUME NEW c \in Clients, Client(c) PROVE AInv'
    BY <2>3, SubmittingAccounts, EndApplySyncAccounts, WorkingAccounts DEF Client
  <2>4. CASE IngestSample \/ UNCHANGED vars
    BY <2>4, WorkingAccounts
  <2> QED
    BY <2>1, <2>2, <2>3, <2>4 DEF Next
<1>3. AInv => EveryDocumentAccounted
  BY DEF AInv
<1> QED
  BY <1>1, <1>2, <1>3, SpecIInv, PTL DEF Spec
=============================================================================
