---------------------------- MODULE Observatory -----------------------------
(***************************************************************************)
(* The runtime facade (src/src/runtime/Observatory.cpp): its lifecycle     *)
(* (start, stop), the bounded queue of submitted documents and the pool    *)
(* of workers that decodes them in parallel and applies them in ticket     *)
(* order.                                                                  *)
(*                                                                         *)
(* Threads are the workers, the clients (which call submit_document and    *)
(* drain) and whoever holds lifecycle_mutex_ inside start or stop; lc says *)
(* where that caller is.  Everything done under queue_mutex_ is one step,  *)
(* except applying a document: the worker keeps queue_mutex_ while the     *)
(* store ingests sample after sample and polls the stop token between      *)
(* them, so holder names the thread that is inside apply_decoded.          *)
(*                                                                         *)
(* A document is its kind.  "good" decodes into SamplesPerDoc samples,     *)
(* "malformed" fails to decode, "badmeta" decodes but carries a metadata   *)
(* table the store refuses, which ends apply_decoded before any sample.    *)
(***************************************************************************)
EXTENDS Integers, Sequences, FiniteSets

CONSTANTS Workers,        \* the worker threads that may be configured
          Clients,        \* threads that submit and drain
          NoOne,          \* no thread holds queue_mutex_ across a step
          MaxPending,     \* max_pending_batches
          SamplesPerDoc,  \* samples a good document decodes into
          MaxDocs,        \* bound on the documents submitted
          RecoveryMayFail \* persistence is configured and may refuse to load

ASSUME ObservatoryAssumption ==
    /\ MaxPending \in Nat \ {0}
    /\ SamplesPerDoc \in Nat \ {0}
    /\ MaxDocs \in Nat
    /\ RecoveryMayFail \in BOOLEAN
    /\ Workers \cap Clients = {}
    /\ NoOne \notin Workers \cup Clients
    /\ IsFiniteSet(Workers)

VARIABLES
    pool,           \* the threads config_.runtime.worker_threads asks for
    state,          \* RuntimeState
    lc,             \* where the caller inside start or stop is
    stopRequested,  \* stop_source_
    pending,        \* pending_: ticket -> PendingDocument
    nextTicket, nextApply,           \* next_ticket_, next_apply_ticket_
    inFlight,                        \* in_flight_
    queuedBatches, queuedSamples,    \* queued_batches_, queued_samples_
    holder,         \* the thread inside apply_decoded, holding queue_mutex_
    cursor,         \* samples of that document ingested so far
    wpc,            \* what each worker is doing
    wticket,        \* the ticket a decoding worker works on
    drainer,        \* what each client's drain call is doing
    applied, dropped, decodeFailures,
    submitted,      \* history: documents given a ticket, over all starts
    log,            \* history: <<document, sample>> in order of ingestion
    finished        \* history: documents counted as applied, in order

lifecycle == <<pool, state, lc, stopRequested>>
tickets == <<pending, nextTicket, nextApply, inFlight, queuedBatches, queuedSamples>>
threads == <<holder, cursor, wpc, wticket, drainer>>
counts == <<applied, dropped, decodeFailures>>
history == <<submitted, log, finished>>
vars == <<lifecycle, tickets, threads, counts, history>>

Kinds == {"good", "malformed", "badmeta"}
RuntimeState == {"created", "running", "stopping", "stopped"}
Document == [id : Nat, kind : Kinds, in_flight : BOOLEAN, decoded : BOOLEAN]

NewDocument(kind) ==
    [id |-> submitted + 1, kind |-> kind, in_flight |-> FALSE, decoded |-> FALSE]

\* Samples that decoding a document yields.
SamplesOf(kind) == IF kind = "malformed" THEN 0 ELSE SamplesPerDoc

\* notify_all on queue_cv_ and on apply_cv_.
WakeAll(pc) == [t \in DOMAIN pc |-> IF pc[t] = "asleep" THEN "ready" ELSE pc[t]]

QueueLockFree == holder = NoOne

\* A runtime is configured once, with no worker or with some.
Init ==
    /\ pool \in SUBSET Workers
    /\ state = "created" /\ lc = "idle" /\ stopRequested = FALSE
    /\ pending = <<>>
    /\ nextTicket = 1 /\ nextApply = 1
    /\ inFlight = 0 /\ queuedBatches = 0 /\ queuedSamples = 0
    /\ holder = NoOne /\ cursor = 0
    /\ wpc = [w \in Workers |-> "none"]
    /\ wticket = [w \in Workers |-> 0]
    /\ drainer = [c \in Clients |-> "idle"]
    /\ applied = 0 /\ dropped = 0 /\ decodeFailures = 0
    /\ submitted = 0 /\ log = <<>> /\ finished = <<>>

-----------------------------------------------------------------------------
(* start *)

\* Mutant: the next ticket to apply survives a restart.
StartKeepsApplyTicket ==
    /\ lc = "idle" /\ state \in {"created", "stopped"}
    /\ QueueLockFree
    /\ state' = "running" /\ lc' = "recovering" /\ stopRequested' = FALSE
    /\ pending' = <<>>
    /\ nextTicket' = 1
    /\ inFlight' = 0 /\ queuedBatches' = 0 /\ queuedSamples' = 0
    /\ UNCHANGED <<pool, nextApply, threads, counts, history>>

\* start up to the recovery: the queue is emptied without telling anybody,
\* and the runtime says it is running before it has a worker.
StartBegin ==
    /\ lc = "idle" /\ state \in {"created", "stopped"}
    /\ QueueLockFree
    /\ state' = "running" /\ lc' = "recovering" /\ stopRequested' = FALSE
    /\ pending' = <<>>
    /\ nextTicket' = 1 /\ nextApply' = 1
    /\ inFlight' = 0 /\ queuedBatches' = 0 /\ queuedSamples' = 0
    /\ UNCHANGED <<pool, threads, counts, history>>

\* Recovery succeeded, or there is none: the workers are started.
StartWorkers ==
    /\ lc = "recovering"
    /\ lc' = "idle"
    /\ wpc' = [w \in Workers |-> IF w \in pool THEN "ready" ELSE "none"]
    /\ UNCHANGED <<pool, state, stopRequested, tickets, holder, cursor, wticket, drainer, counts,
                   history>>

\* recover returned an error.
StartFails ==
    /\ RecoveryMayFail
    /\ lc = "recovering"
    /\ lc' = "idle" /\ state' = "created"
    /\ UNCHANGED <<pool, stopRequested, tickets, threads, counts, history>>

-----------------------------------------------------------------------------
(* stop *)

\* stop of a runtime that is not running.
StopIdle ==
    /\ lc = "idle" /\ state \in {"created", "stopped"}
    /\ state' = "stopped"
    /\ UNCHANGED <<pool, lc, stopRequested, tickets, threads, counts, history>>

StopBegin ==
    /\ lc = "idle" /\ state = "running"
    /\ state' = "stopping" /\ lc' = "request"
    /\ UNCHANGED <<pool, stopRequested, tickets, threads, counts, history>>

StopRequest ==
    /\ lc = "request"
    /\ stopRequested' = TRUE /\ lc' = "notify"
    /\ UNCHANGED <<pool, state, tickets, threads, counts, history>>

\* Mutant: stop does not notify the workers that sleep.
StopNotifySilent ==
    /\ lc = "notify" /\ QueueLockFree
    /\ lc' = "join"
    /\ UNCHANGED <<pool, state, stopRequested, tickets, threads, counts, history>>

StopNotify ==
    /\ lc = "notify" /\ QueueLockFree
    /\ wpc' = WakeAll(wpc) /\ lc' = "join"
    /\ UNCHANGED <<pool, state, stopRequested, tickets, holder, cursor, wticket, drainer, counts,
                   history>>

\* Mutant: the workers are detached instead of joined.
StopJoinNoWait ==
    /\ lc = "join" /\ lc' = "discard"
    /\ UNCHANGED <<pool, state, stopRequested, tickets, threads, counts, history>>

StopJoin ==
    /\ lc = "join"
    /\ \A w \in pool : wpc[w] = "exited"
    /\ wpc' = [w \in Workers |-> "none"] /\ lc' = "discard"
    /\ UNCHANGED <<pool, state, stopRequested, tickets, holder, cursor, wticket, drainer, counts,
                   history>>

\* Mutant: what is still queued is cleared without being counted.
StopDiscardUncounted ==
    /\ lc = "discard" /\ QueueLockFree
    /\ pending' = <<>>
    /\ inFlight' = 0 /\ queuedBatches' = 0 /\ queuedSamples' = 0
    /\ drainer' = WakeAll(drainer)
    /\ lc' = "persist"
    /\ UNCHANGED <<pool, state, stopRequested, nextTicket, nextApply, holder, cursor, wpc, wticket,
                   counts, history>>

\* Mutant: drain is not told that the queue was emptied.
StopDiscardSilent ==
    /\ lc = "discard" /\ QueueLockFree
    /\ dropped' = dropped + Cardinality(DOMAIN pending)
    /\ pending' = <<>>
    /\ inFlight' = 0 /\ queuedBatches' = 0 /\ queuedSamples' = 0
    /\ lc' = "persist"
    /\ UNCHANGED <<pool, state, stopRequested, nextTicket, nextApply, threads, applied,
                   decodeFailures, history>>

\* What is still queued is counted and given up; drain is told.
StopDiscard ==
    /\ lc = "discard" /\ QueueLockFree
    /\ dropped' = dropped + Cardinality(DOMAIN pending)
    /\ pending' = <<>>
    /\ inFlight' = 0 /\ queuedBatches' = 0 /\ queuedSamples' = 0
    /\ drainer' = WakeAll(drainer)
    /\ lc' = "persist"
    /\ UNCHANGED <<pool, state, stopRequested, nextTicket, nextApply, holder, cursor, wpc, wticket,
                   applied, decodeFailures, history>>

\* persist_on_stop, whether it succeeds or not.
StopEnd ==
    /\ lc = "persist"
    /\ state' = "stopped" /\ lc' = "idle"
    /\ UNCHANGED <<pool, stopRequested, tickets, threads, counts, history>>

-----------------------------------------------------------------------------
(* submit_document and drain *)

\* The asynchronous path of submit_document; the refusals change nothing.
Submit(c, kind) ==
    /\ pool # {}
    /\ QueueLockFree /\ state = "running"
    /\ Cardinality(DOMAIN pending) < MaxPending
    /\ submitted < MaxDocs
    /\ pending' = [t \in DOMAIN pending \cup {nextTicket} |->
                     IF t = nextTicket THEN NewDocument(kind) ELSE pending[t]]
    /\ nextTicket' = nextTicket + 1
    /\ queuedBatches' = queuedBatches + 1
    /\ wpc' = WakeAll(wpc)
    /\ submitted' = submitted + 1
    /\ UNCHANGED <<lifecycle, nextApply, inFlight, queuedSamples, holder, cursor, wticket, drainer,
                   counts, log, finished>>

\* On the synchronous path a document that does not decode is only counted
\* as a decode failure,
SyncUndecodable ==
    /\ decodeFailures' = decodeFailures + 1
    /\ UNCHANGED <<holder, cursor, applied, finished>>

\* one whose metadata is refused is over at once,
SyncRefused ==
    /\ applied' = applied + 1
    /\ finished' = Append(finished, submitted + 1)
    /\ UNCHANGED <<holder, cursor, decodeFailures>>

\* and any other is applied by the caller under queue_mutex_.
SyncApply(c) ==
    /\ holder' = c /\ cursor' = 0
    /\ UNCHANGED <<applied, decodeFailures, finished>>

SubmitSync(c, kind) ==
    /\ pool = {}
    /\ QueueLockFree /\ state = "running"
    /\ submitted < MaxDocs
    /\ nextTicket' = nextTicket + 1
    /\ submitted' = submitted + 1
    /\ \/ kind = "malformed" /\ SyncUndecodable
       \/ kind = "badmeta" /\ SyncRefused
       \/ kind = "good" /\ SyncApply(c)
    /\ UNCHANGED <<lifecycle, pending, nextApply, inFlight, queuedBatches, queuedSamples, wpc,
                   wticket, drainer, dropped, log>>

Drained == pending = <<>> /\ inFlight = 0

\* drain finds work and waits on apply_cv_.
DrainWait(c) ==
    /\ drainer[c] \in {"idle", "ready"} /\ holder # c
    /\ QueueLockFree /\ ~Drained
    /\ drainer' = [drainer EXCEPT ![c] = "asleep"]
    /\ UNCHANGED <<lifecycle, tickets, holder, cursor, wpc, wticket, counts, history>>

\* drain was woken and finds nothing left.
DrainReturn(c) ==
    /\ drainer[c] = "ready"
    /\ QueueLockFree /\ Drained
    /\ drainer' = [drainer EXCEPT ![c] = "idle"]
    /\ UNCHANGED <<lifecycle, tickets, holder, cursor, wpc, wticket, counts, history>>

-----------------------------------------------------------------------------
(* worker_loop *)

FrontDecoded == nextApply \in DOMAIN pending /\ pending[nextApply].decoded
\* Mutant: a document that another worker decodes is taken again.
UndecodedOrInFlight == {t \in DOMAIN pending : ~pending[t].decoded}
Undecoded == {t \in DOMAIN pending : ~pending[t].decoded /\ ~pending[t].in_flight}

\* The top of the loop, with queue_mutex_ and no request to stop.
AtTop(w) == wpc[w] = "ready" /\ QueueLockFree /\ ~stopRequested

WorkerSleep(w) ==
    /\ AtTop(w) /\ ~FrontDecoded /\ Undecoded = {}
    /\ wpc' = [wpc EXCEPT ![w] = "asleep"]
    /\ UNCHANGED <<lifecycle, tickets, holder, cursor, wticket, drainer, counts, history>>

WorkerExit(w) ==
    /\ wpc[w] = "ready" /\ QueueLockFree /\ stopRequested
    /\ wpc' = [wpc EXCEPT ![w] = "exited"]
    /\ UNCHANGED <<lifecycle, tickets, holder, cursor, wticket, drainer, counts, history>>

\* The oldest document that nobody decodes is taken; the lock is released.
BeginDecode(w) ==
    /\ AtTop(w) /\ ~FrontDecoded
    /\ \E t \in Undecoded :
         /\ \A u \in Undecoded : t <= u
         /\ pending' = [pending EXCEPT ![t].in_flight = TRUE]
         /\ wticket' = [wticket EXCEPT ![w] = t]
    /\ inFlight' = inFlight + 1
    /\ wpc' = [wpc EXCEPT ![w] = "decoding"]
    /\ UNCHANGED <<lifecycle, nextTicket, nextApply, queuedBatches, queuedSamples, holder, cursor,
                   drainer, counts, history>>

\* Decoding is over and the lock is taken again.  A document that is gone by
\* now is left alone.
EndDecode(w) ==
    LET t == wticket[w] IN
    /\ wpc[w] = "decoding" /\ QueueLockFree
    /\ \/ /\ t \notin DOMAIN pending
          /\ UNCHANGED <<pending, queuedSamples>>
       \/ /\ t \in DOMAIN pending
          /\ pending' = [pending EXCEPT ![t].in_flight = FALSE, ![t].decoded = TRUE]
          /\ queuedSamples' = queuedSamples + SamplesOf(pending[t].kind)
    /\ inFlight' = inFlight - 1
    /\ wpc' = [WakeAll(wpc) EXCEPT ![w] = "ready"]
    /\ drainer' = WakeAll(drainer)
    /\ UNCHANGED <<lifecycle, nextTicket, nextApply, queuedBatches, holder, cursor, wticket,
                   counts, history>>

\* Mutant: the applied document stays in the queue.
FinishedKeepsDocument(id) ==
    /\ applied' = applied + 1
    /\ finished' = Append(finished, id)
    /\ queuedBatches' = IF queuedBatches > 0 THEN queuedBatches - 1 ELSE 0
    /\ wpc' = WakeAll(wpc)
    /\ drainer' = WakeAll(drainer)
    /\ UNCHANGED <<pending, nextApply>>

\* The end of an application, whatever its status: the document is counted
\* as applied and erased, and everybody is woken.
Finished(id) ==
    /\ applied' = applied + 1
    /\ finished' = Append(finished, id)
    /\ pending' = [t \in DOMAIN pending \ {nextApply} |-> pending[t]]
    /\ nextApply' = nextApply + 1
    /\ queuedBatches' = IF queuedBatches > 0 THEN queuedBatches - 1 ELSE 0
    /\ wpc' = WakeAll(wpc)
    /\ drainer' = WakeAll(drainer)

\* A document that did not decode, or whose metadata is refused, is over at
\* once.
ApplyNothing(w) ==
    /\ AtTop(w) /\ FrontDecoded
    /\ pending[nextApply].kind # "good"
    /\ decodeFailures' = decodeFailures + (IF pending[nextApply].kind = "malformed" THEN 1 ELSE 0)
    /\ Finished(pending[nextApply].id)
    /\ UNCHANGED <<lifecycle, nextTicket, inFlight, queuedSamples, holder, cursor, wticket,
                   dropped, submitted, log>>

BeginApply(w) ==
    /\ AtTop(w) /\ FrontDecoded
    /\ pending[nextApply].kind = "good"
    /\ holder' = w /\ cursor' = 0
    /\ UNCHANGED <<lifecycle, tickets, wpc, wticket, drainer, counts, history>>

\* The document that holder is applying.
CurrentDoc == IF holder \in Clients THEN submitted ELSE pending[nextApply].id

\* ingest_batch: the stop token is polled before every sample.
IngestSample ==
    /\ holder # NoOne /\ ~stopRequested
    /\ cursor < SamplesPerDoc
    /\ log' = Append(log, <<CurrentDoc, cursor + 1>>)
    /\ cursor' = cursor + 1
    /\ UNCHANGED <<lifecycle, tickets, holder, wpc, wticket, drainer, counts, submitted, finished>>

BatchOver == cursor = SamplesPerDoc \/ stopRequested

EndApply(w) ==
    /\ holder = w /\ BatchOver
    /\ holder' = NoOne
    /\ Finished(CurrentDoc)
    /\ UNCHANGED <<lifecycle, nextTicket, inFlight, queuedSamples, cursor, wticket,
                   dropped, decodeFailures, submitted, log>>

EndApplySync(c) ==
    /\ holder = c /\ BatchOver
    /\ holder' = NoOne
    /\ applied' = applied + 1
    /\ finished' = Append(finished, submitted)
    /\ UNCHANGED <<lifecycle, tickets, cursor, wpc, wticket, drainer, dropped, decodeFailures,
                   submitted, log>>

-----------------------------------------------------------------------------
Worker(w) ==
    \/ WorkerSleep(w) \/ WorkerExit(w) \/ BeginDecode(w) \/ EndDecode(w)
    \/ ApplyNothing(w) \/ BeginApply(w) \/ EndApply(w)

Client(c) ==
    \/ \E kind \in Kinds : Submit(c, kind) \/ SubmitSync(c, kind)
    \/ DrainWait(c) \/ DrainReturn(c) \/ EndApplySync(c)

\* The rest of a start or stop that has begun.
Lifecycle ==
    \/ StartWorkers \/ StartFails
    \/ StopRequest \/ StopNotify \/ StopJoin \/ StopDiscard \/ StopEnd

Next ==
    \/ StartBegin \/ StopIdle \/ StopBegin
    \/ Lifecycle
    \/ IngestSample
    \/ \E w \in Workers : Worker(w)
    \/ \E c \in Clients : Client(c)

Spec == Init /\ [][Next]_vars

\* Every thread that can run is scheduled: workers, the thread that is
\* applying, a caller inside start or stop, a drain that was woken.  Nobody
\* is obliged to call start, stop, submit_document or drain.
Fairness ==
    /\ WF_vars(Lifecycle)
    /\ WF_vars(IngestSample)
    /\ \A w \in Workers : WF_vars(Worker(w))
    /\ \A c \in Clients : WF_vars(EndApplySync(c)) /\ WF_vars(DrainReturn(c))

FairSpec == Spec /\ Fairness

-----------------------------------------------------------------------------
(* Properties *)

TypeOK ==
    /\ pool \subseteq Workers
    /\ state \in RuntimeState
    /\ lc \in {"idle", "recovering", "request", "notify", "join", "discard", "persist"}
    /\ stopRequested \in BOOLEAN
    /\ DOMAIN pending \subseteq Nat
    /\ \A t \in DOMAIN pending : pending[t] \in Document
    /\ nextTicket \in Nat /\ nextApply \in Nat
    /\ inFlight \in Nat /\ queuedBatches \in Nat /\ queuedSamples \in Nat
    /\ holder \in Workers \cup Clients \cup {NoOne}
    /\ cursor \in 0..SamplesPerDoc
    /\ wpc \in [Workers -> {"none", "ready", "asleep", "decoding", "exited"}]
    /\ wticket \in [Workers -> Nat]
    /\ drainer \in [Clients -> {"idle", "asleep", "ready"}]
    /\ applied \in Nat /\ dropped \in Nat /\ decodeFailures \in Nat
    /\ submitted \in Nat
    /\ log \in Seq(Nat \X Nat)
    /\ finished \in Seq(Nat)

Before(a, b) == a[1] < b[1] \/ (a[1] = b[1] /\ a[2] < b[2])

\* Evidence reaches the store in submission order, and within a document in
\* the document's order, however decoding is spread over the workers; no
\* sample is ingested twice (Observatory.hpp, threading contract).
AppliedInSubmissionOrder ==
    \A i, j \in DOMAIN log : i < j => Before(log[i], log[j])

\* Tickets never leave a hole: what waits is exactly the tickets from the
\* next to be applied to the last one issued.  With a hole the appliers
\* would wait for a ticket that never comes.
TicketsContiguous ==
    pending # <<>> => DOMAIN pending = nextApply..(nextTicket - 1)

\* A worker that decodes without queue_mutex_ works on a document that is
\* still in pending_ (it keeps a pointer to it), no document is decoded by
\* two workers, and in_flight_ counts exactly the workers outside the lock.
DecodersOwnTheirDocument ==
    /\ \A w \in Workers : wpc[w] = "decoding" =>
         /\ wticket[w] \in DOMAIN pending
         /\ pending[wticket[w]].in_flight /\ ~pending[wticket[w]].decoded
    /\ \A v, w \in Workers :
         wpc[v] = "decoding" /\ wpc[w] = "decoding" /\ wticket[v] = wticket[w] => v = w
    /\ inFlight = Cardinality({w \in Workers : wpc[w] = "decoding"})

\* Every ticket issued is accounted for: applied, dropped by stop with an
\* explicit count, or still queued.  (Without workers a document that does
\* not decode is counted as a decode failure only.)
EveryDocumentAccounted ==
    submitted = applied + dropped + Cardinality(DOMAIN pending)
                + (IF pool = {} THEN decodeFailures + (IF QueueLockFree THEN 0 ELSE 1) ELSE 0)

\* stop returns with no worker running, none inside the store and nothing in
\* flight, whatever start or stop was called before (Observatory.hpp: "Returns
\* once no worker is running").
StoppedIsQuiet ==
    state = "stopped" => /\ \A w \in Workers : wpc[w] = "none"
                         /\ holder \notin Workers /\ inFlight = 0

\* drain returns: whoever waits in drain is eventually released.
DrainReturns == \A c \in Clients : drainer[c] = "asleep" ~> drainer[c] = "idle"

\* stop returns: shutdown never waits for a worker that sleeps.
StopReturns == state = "stopping" ~> state = "stopped"

\* What is submitted to a running pool does not stay queued for ever.
QueueEmpties == pending # <<>> ~> pending = <<>>

\* The pool of workers implements a queue whose documents are applied one by
\* one in submission order (Observatory.hpp, threading contract).
Abstract == INSTANCE OrderedApply WITH
    Docs <- 1..MaxDocs,
    queue <- [i \in 1..Cardinality(DOMAIN pending) |-> pending[nextApply + i - 1].id],
    done <- finished

ImplementsOrderedApply == Abstract!Spec
=============================================================================
