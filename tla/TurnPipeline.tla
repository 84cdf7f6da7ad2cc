---------------------------- MODULE TurnPipeline ----------------------------
(***************************************************************************)
(* The debounce pipeline of ONE lead: the webhook's jobs, the inbound and  *)
(* media workers that push into the Redis buffer, the delayed BullMQ jobs  *)
(* that flush it as one turn, the Redis lock they share with the admin     *)
(* panel, and the suppression that purges all of it.                       *)
(*                                                                         *)
(* Every key and job id of the code carries tenantId and leadId, so leads  *)
(* do not interact here and one is enough.  A step of a process is one     *)
(* Redis or BullMQ command; commands are atomic, sequences of them are not.*)
(***************************************************************************)
EXTENDS Naturals, Sequences, FiniteSets, SequencesExt

CONSTANTS
    Texts,        \* messages whose job goes to the inbound queue
    Medias,       \* audio and image messages: their job goes to the media queue
    Inbound,      \* inbound workers, one per replica (concurrency 1 each)
    Media,        \* media workers, one per replica
    Panel,        \* admin requests that take the lock or purge the lead
    Free, Stale,  \* lock values: no key; a key whose owner is dead
    None          \* no job in hand

CONSTANTS         \* what a run lets happen, and its bounds
    SlowHolders,       \* TRUE: LOCK_TTL_MS may pass while the owner still works
    HoldersBeatRetry,  \* TRUE: an owner releases before LOCK_RETRY_DELAY_MS passes
    ProvidersFail,     \* TRUE: a turn or a transcription may throw
    MaxCrashes,        \* worker deaths (a second stall of a job would fail it)
    MaxManual,         \* manual messages sent from the panel
    MaxPurges          \* suppressions of the lead: 0 or 1

Messages  == Texts \cup Medias
JobIds    == {"turn", "retry"}      \* turnJobId and retryJobId of the lead
Workers   == Inbound \cup Media
Processes == Workers \cup Panel

ASSUME ConstantsAssumption ==
    /\ Texts \cap Medias = {}
    /\ Inbound \cap Media = {} /\ Workers \cap Panel = {}
    /\ Free \notin Processes /\ Stale \notin Processes /\ Free # Stale
    /\ None \notin Messages \cup JobIds /\ Messages \cap JobIds = {}
    /\ {SlowHolders, HoldersBeatRetry, ProvidersFail} \subseteq BOOLEAN
    /\ MaxCrashes \in {0, 1} /\ MaxManual \in Nat /\ MaxPurges \in {0, 1}

VARIABLES
    queue,      \* [Texts' and Medias' queues] waiting process-message jobs
    job,        \* the two jobs with a fixed id, as BullMQ knows them
    buffer,     \* the Redis list debounce:<tenant>:<lead>
    lock,       \* who set debounce:lock:<tenant>:<lead>; the key itself holds '1'
    leadExists, \* the lead's row (its messages go with it, onDelete: Cascade)
    pc, work, batch,   \* per process: next command, job in hand, entries read
    arrived, handled, lost,      \* history: what came in, what became of it
    crashes, manuals, purges     \* counters against the bounds

redis   == <<buffer, lock>>
local   == <<pc, work, batch>>
history == <<handled, lost>>
budget  == <<crashes, manuals, purges>>
vars    == <<queue, job, redis, leadExists, local, arrived, history, budget>>

PushPcs  == {"rpush", "pushDropRetry", "dropTurn", "addTurn"}
OwnerPcs == {"cancelRetry", "lrange", "del", "dispatch", "release",  \* a turn
             "manual"}                                              \* the panel
PurgePcs == {"delBuffer", "delLock", "purgeTurn", "purgeRetry", "deleteLead"}
Pcs == {"idle", "acquire", "requeueDrop", "requeueAdd", "finish"}
           \cup PushPcs \cup OwnerPcs \cup PurgePcs

TypeOK ==
    /\ queue \in [{"inbound", "media"} -> Seq(Messages)]
    /\ job \in [JobIds -> {"none", "delayed", "active", "ended"}]
    /\ buffer \in Seq(Messages)
    /\ lock \in Processes \cup {Free, Stale}
    /\ leadExists \in BOOLEAN
    /\ pc \in [Processes -> Pcs]
    /\ work \in [Processes -> Messages \cup JobIds \cup {None}]
    /\ batch \in [Processes -> Seq(Messages)]
    /\ arrived \in Seq(Messages)
    /\ handled \in Seq(Messages)
    /\ lost \subseteq Messages
    /\ crashes \in 0 .. MaxCrashes
    /\ manuals \in 0 .. MaxManual
    /\ purges \in 0 .. MaxPurges

Init ==
    /\ queue = [q \in {"inbound", "media"} |-> <<>>]
    /\ job = [j \in JobIds |-> "none"]
    /\ buffer = <<>> /\ lock = Free /\ leadExists = TRUE
    /\ pc = [p \in Processes |-> "idle"]
    /\ work = [p \in Processes |-> None]
    /\ batch = [p \in Processes |-> <<>>]
    /\ arrived = <<>> /\ handled = <<>> /\ lost = {}
    /\ crashes = 0 /\ manuals = 0 /\ purges = 0

-----------------------------------------------------------------------------
(* BullMQ: add() of an id that exists, whatever its state, adds nothing;   *)
(* remove() of an active job throws, which the caller swallows.            *)

Added(jobs, j)  == IF jobs[j] = "none" THEN [jobs EXCEPT ![j] = "delayed"] ELSE jobs

\* Mutant: a job that ended is left in place.
removeOnlyDelayed(jobs, j) ==
    IF jobs[j] = "delayed" THEN [jobs EXCEPT ![j] = "none"] ELSE jobs

removeJobIfExists(jobs, j) ==
    IF jobs[j] = "active" THEN jobs ELSE [jobs EXCEPT ![j] = "none"]

\* Process p goes from one command to the next.
Goto(p, from, to) == pc[p] = from /\ pc' = [pc EXCEPT ![p] = to]

\* Its job is over: p takes nothing further from it.
Idle(p, from) ==
    /\ Goto(p, from, "idle")
    /\ work' = [work EXCEPT ![p] = None]
    /\ batch' = [batch EXCEPT ![p] = <<>>]

-----------------------------------------------------------------------------
(* WebhookService.handleMessage, seen from the queues.                     *)

Arrive(m, q) ==
    /\ m \notin ToSet(arrived)
    /\ leadExists
    /\ q = IF m \in Medias THEN "media" ELSE "inbound"
    /\ arrived' = Append(arrived, m)
    /\ queue' = [queue EXCEPT ![q] = Append(@, m)]
    /\ UNCHANGED <<job, redis, leadExists, local, history, budget>>

\* Mutant: a job whose message is gone is put back instead of ignored.
TakeMessageOrRequeue(w) ==
    LET q == IF w \in Media THEN "media" ELSE "inbound" IN
    /\ pc[w] = "idle"
    /\ queue[q] # <<>>
    /\ \/ /\ leadExists
          /\ queue' = [queue EXCEPT ![q] = Tail(@)]
          /\ pc' = [pc EXCEPT ![w] = "rpush"]
          /\ work' = [work EXCEPT ![w] = Head(queue[q])]
       \/ /\ ~leadExists
          /\ queue' = [queue EXCEPT ![q] = Append(Tail(@), Head(@))]
          /\ UNCHANGED <<pc, work>>
    /\ UNCHANGED <<job, redis, leadExists, batch, arrived, history, budget>>

(* InboundProcessor.handleMessage and MediaProcessor.process: the message  *)
(* is looked up, and if its row is still there it goes on to push.         *)
TakeMessage(w) ==
    LET q == IF w \in Media THEN "media" ELSE "inbound" IN
    /\ pc[w] = "idle"
    /\ queue[q] # <<>>
    /\ queue' = [queue EXCEPT ![q] = Tail(@)]
    /\ \/ /\ leadExists
          /\ pc' = [pc EXCEPT ![w] = "rpush"]
          /\ work' = [work EXCEPT ![w] = Head(queue[q])]
          /\ UNCHANGED lost
       \/ /\ \/ ~leadExists                        \* "se ignora el job"
             \/ ProvidersFail /\ w \in Media       \* download, ffmpeg or STT throws
          /\ lost' = lost \cup {Head(queue[q])}
          /\ UNCHANGED <<pc, work>>
    /\ UNCHANGED <<job, redis, leadExists, batch, arrived, handled, budget>>

\* Mutant: LPUSH for RPUSH.
LPush(w) ==
    /\ Goto(w, "rpush", "pushDropRetry")
    /\ buffer' = <<work[w]>> \o buffer
    /\ UNCHANGED <<queue, job, lock, leadExists, work, batch, arrived, history, budget>>

(* push: RPUSH, then scheduleTurn.                                         *)
RPush(w) ==
    /\ Goto(w, "rpush", "pushDropRetry")
    /\ buffer' = Append(buffer, work[w])
    /\ UNCHANGED <<queue, job, lock, leadExists, work, batch, arrived, history, budget>>

CancelPendingRetry(w, from, to) ==
    /\ Goto(w, from, to)
    /\ job' = removeJobIfExists(job, "retry")
    /\ UNCHANGED <<queue, redis, leadExists, work, batch, arrived, history, budget>>

DropTurn(w) ==
    /\ Goto(w, "dropTurn", "addTurn")
    /\ job' = removeJobIfExists(job, "turn")
    /\ UNCHANGED <<queue, redis, leadExists, work, batch, arrived, history, budget>>

AddTurn(w) ==
    /\ Idle(w, "addTurn")
    /\ job' = Added(job, "turn")
    /\ UNCHANGED <<queue, redis, leadExists, arrived, history, budget>>

push(w) == \/ RPush(w)
           \/ CancelPendingRetry(w, "pushDropRetry", "dropTurn")
           \/ DropTurn(w)
           \/ AddTurn(w)

-----------------------------------------------------------------------------
(* DebounceBufferService.tryFlush, run by the job "turn" or "retry".       *)

\* The delay of job j is over and worker w takes it.
TakeTurn(w, j) ==
    /\ pc[w] = "idle" /\ job[j] = "delayed"
    /\ (HoldersBeatRetry /\ j = "retry") => lock = Free
    /\ job' = [job EXCEPT ![j] = "active"]
    /\ pc' = [pc EXCEPT ![w] = "acquire"]
    /\ work' = [work EXCEPT ![w] = j]
    /\ UNCHANGED <<queue, redis, leadExists, batch, arrived, history, budget>>

\* Mutant: SET without NX.
acquireAnyway(p, from, to) == lock' = p /\ Goto(p, from, to)

\* SET key '1' PX LOCK_TTL_MS NX, and where p goes when it answers OK.
acquireLock(p, from, to) ==
    /\ lock = Free
    /\ lock' = p
    /\ Goto(p, from, to)

Acquire(w) ==
    /\ acquireLock(w, "acquire", "cancelRetry")
    /\ UNCHANGED <<queue, job, buffer, leadExists, work, batch, arrived, history, budget>>

AcquireBusy(w) ==
    /\ lock # Free
    /\ Goto(w, "acquire", "requeueDrop")
    /\ UNCHANGED <<queue, job, redis, leadExists, work, batch, arrived, history, budget>>

\* Mutant: a busy lock drops the turn.
RequeueNothing(w) ==
    /\ Goto(w, "requeueAdd", "finish")
    /\ UNCHANGED <<queue, job, redis, leadExists, work, batch, arrived, history, budget>>

RequeueAdd(w) ==
    /\ Goto(w, "requeueAdd", "finish")
    /\ job' = Added(job, "retry")
    /\ UNCHANGED <<queue, redis, leadExists, work, batch, arrived, history, budget>>

scheduleRetry(w) == \/ CancelPendingRetry(w, "requeueDrop", "requeueAdd")
                    \/ RequeueAdd(w)

\* Mutant: DEL comes before LRANGE.
DelThenLRange(w) ==
    /\ Goto(w, "lrange", "del")
    /\ buffer' = <<>>
    /\ batch' = [batch EXCEPT ![w] = <<>>]
    /\ UNCHANGED <<queue, job, lock, leadExists, work, arrived, history, budget>>

(* popAll is two commands: LRANGE 0 -1, then DEL.                          *)
LRange(w) ==
    /\ Goto(w, "lrange", "del")
    /\ batch' = [batch EXCEPT ![w] = buffer]
    /\ UNCHANGED <<queue, job, redis, leadExists, work, arrived, history, budget>>

\* What DEL removes beyond what LRANGE read is gone.
Unread(w) == ToSet(buffer) \ ToSet(batch[w])

\* Mutant: LRANGE without DEL.
KeepBuffer(w) ==
    /\ Goto(w, "del", IF batch[w] = <<>> THEN "release" ELSE "dispatch")
    /\ UNCHANGED <<queue, job, redis, leadExists, work, batch, arrived, history, budget>>

DelBuffer(w) ==
    /\ Goto(w, "del", IF batch[w] = <<>> THEN "release" ELSE "dispatch")
    /\ buffer' = <<>>
    /\ lost' = lost \cup Unread(w)
    /\ UNCHANGED <<queue, job, lock, leadExists, work, batch, arrived, handled, budget>>

popAll(w) == LRange(w) \/ DelBuffer(w)

(* The handler of tryFlush is dispatchTurn: the engine gets the batch, or  *)
(* finds no lead and discards it, or throws; `finally` releases the lock.  *)
Dispatch(w) ==
    /\ Goto(w, "dispatch", "release")
    /\ \/ /\ leadExists
          /\ handled' = handled \o batch[w]
          /\ UNCHANGED lost
       \/ /\ ~leadExists \/ ProvidersFail
          /\ lost' = lost \cup ToSet(batch[w])
          /\ UNCHANGED handled
    /\ UNCHANGED <<queue, job, redis, leadExists, work, batch, arrived, budget>>

\* DEL key, whoever owns it now.
releaseLock == lock' = Free

Release(w) ==
    /\ Goto(w, "release", "finish")
    /\ releaseLock
    /\ UNCHANGED <<queue, job, buffer, leadExists, work, batch, arrived, history, budget>>

\* The job ends, completed or failed: no removeOnComplete, so its id stays.
Finish(w) ==
    /\ Idle(w, "finish")
    /\ job' = [job EXCEPT ![work[w]] = "ended"]
    /\ UNCHANGED <<queue, redis, leadExists, arrived, history, budget>>

tryFlush(w) == \/ Acquire(w) \/ AcquireBusy(w)
               \/ scheduleRetry(w)
               \/ CancelPendingRetry(w, "cancelRetry", "lrange")
               \/ popAll(w)
               \/ Dispatch(w)
               \/ Release(w)
               \/ Finish(w)

-----------------------------------------------------------------------------
(* The panel: sendManual under withLeadLock (a busy lock answers 409 and   *)
(* changes nothing), and suppress, which takes no lock.                    *)

StartManual(p) ==
    /\ manuals < MaxManual
    /\ leadExists
    /\ acquireLock(p, "idle", "manual")
    /\ manuals' = manuals + 1
    /\ UNCHANGED <<queue, job, buffer, leadExists, work, batch, arrived, history, crashes, purges>>

EndManual(p) ==
    /\ Goto(p, "manual", "idle")
    /\ releaseLock
    /\ UNCHANGED <<queue, job, buffer, leadExists, work, batch, arrived, history, budget>>

withLeadLock(p) == StartManual(p) \/ EndManual(p)

StartPurge(p) ==
    /\ purges < MaxPurges
    /\ leadExists                                 \* findLeadOrThrow
    /\ Goto(p, "idle", "delBuffer")
    /\ purges' = purges + 1
    /\ UNCHANGED <<queue, job, redis, leadExists, work, batch, arrived, history, crashes, manuals>>

PurgeBuffer(p) ==
    /\ Goto(p, "delBuffer", "delLock")
    /\ buffer' = <<>>
    /\ lost' = lost \cup ToSet(buffer)
    /\ UNCHANGED <<queue, job, lock, leadExists, work, batch, arrived, handled, budget>>

PurgeLock(p) ==
    /\ Goto(p, "delLock", "purgeTurn")
    /\ releaseLock
    /\ UNCHANGED <<queue, job, buffer, leadExists, work, batch, arrived, history, budget>>

PurgeTurn(p) ==
    /\ Goto(p, "purgeTurn", "purgeRetry")
    /\ job' = removeJobIfExists(job, "turn")
    /\ UNCHANGED <<queue, redis, leadExists, work, batch, arrived, history, budget>>

purgeLead(p) == \/ PurgeBuffer(p) \/ PurgeLock(p) \/ PurgeTurn(p)
                \/ CancelPendingRetry(p, "purgeRetry", "deleteLead")

DeleteLead(p) ==
    /\ Goto(p, "deleteLead", "idle")
    /\ leadExists' = FALSE
    /\ UNCHANGED <<queue, job, redis, work, batch, arrived, history, budget>>

suppress(p) == StartPurge(p) \/ purgeLead(p) \/ DeleteLead(p)

-----------------------------------------------------------------------------
(* The environment: Redis expires the lock, processes die.                 *)

ExpireLock ==
    /\ lock = Stale \/ (SlowHolders /\ lock \in Processes)
    /\ lock' = Free
    /\ UNCHANGED <<queue, job, buffer, leadExists, local, arrived, history, budget>>

(* BullMQ gives the job of a dead worker back, to be run again; what the   *)
(* worker had popped goes with it.                                         *)
Crash(p) ==
    /\ crashes < MaxCrashes
    /\ pc[p] # "idle"
    /\ crashes' = crashes + 1
    /\ pc' = [pc EXCEPT ![p] = "idle"]
    /\ work' = [work EXCEPT ![p] = None]
    /\ batch' = [batch EXCEPT ![p] = <<>>]
    /\ lock' = IF lock = p THEN Stale ELSE lock
    /\ job' = IF work[p] \in JobIds THEN [job EXCEPT ![work[p]] = "delayed"] ELSE job
    /\ queue' = IF work[p] \in Messages
                THEN [queue EXCEPT ![IF p \in Media THEN "media" ELSE "inbound"] = <<work[p]>> \o @]
                ELSE queue
    /\ lost' = IF pc[p] = "dispatch"
               THEN lost \cup ToSet(batch[p])
               ELSE lost
    /\ UNCHANGED <<buffer, leadExists, arrived, handled, manuals, purges>>

-----------------------------------------------------------------------------
WorkerStep(w) == \/ TakeMessage(w) \/ push(w)
                 \/ w \in Inbound /\ \E j \in JobIds : TakeTurn(w, j)
                 \/ tryFlush(w)

Next == \/ \E m \in Messages, q \in {"inbound", "media"} : Arrive(m, q)
        \/ \E w \in Workers : WorkerStep(w)
        \/ \E p \in Panel : withLeadLock(p) \/ suppress(p)
        \/ ExpireLock
        \/ \E p \in Processes : Crash(p)

Spec == Init /\ [][Next]_vars

(* Workers that have a job to run run it, delayed jobs fall due, a panel   *)
(* request that began ends, and Redis expires the keys of the dead.        *)
Fairness ==
    /\ \A w \in Workers : WF_vars(WorkerStep(w))
    /\ \A p \in Panel : WF_vars(EndManual(p))
    /\ WF_vars(lock = Stale /\ ExpireLock)

FairSpec == Spec /\ Fairness

-----------------------------------------------------------------------------
(* Safety.                                                                 *)

\* The lock's whole purpose (withLeadLock's comment): a bot turn and a manual
\* message, or two turns, never work on the lead at the same time.
MutualExclusion ==
    \A p, q \in Processes : pc[p] \in OwnerPcs /\ pc[q] \in OwnerPcs => p = q

\* A message is part of one turn at most, whichever worker or job flushes it;
\* only the job of a process that died may push its message a second time.
AtMostOnce == crashes = 0 => IsInjective(handled)

\* Whatever overlaps, fails or dies, a message that arrived waits in a queue, is in
\* a worker's hand, in the buffer or in a turn, or was answered; if it is nowhere it
\* was lost in a way that `lost` counts: no row, no transcription, pushed between the
\* two commands of popAll, popped by a turn that threw or died, or suppressed.
Waits(m) == \/ \E q \in DOMAIN queue : m \in ToSet(queue[q])
            \/ \E p \in Processes : pc[p] = "rpush" /\ work[p] = m
            \/ m \in ToSet(buffer)
            \/ \E p \in Processes : pc[p] = "dispatch" /\ m \in ToSet(batch[p])

Accounted == \A m \in ToSet(arrived) : Waits(m) \/ m \in ToSet(handled) \cup lost

\* Some process or timer will still look at what is in the buffer: scheduleTurn
\* and scheduleRetry exist so that a buffered message always has one.
WillFlush ==
    \/ \E j \in JobIds : job[j] = "delayed"
    \/ \E p \in Processes :
          pc[p] \in PushPcs \cup {"acquire", "requeueDrop", "requeueAdd", "cancelRetry", "lrange", "del"}

\* A buffered message never waits with nothing scheduled to read it.
NoStrandedEntry == buffer # <<>> => WillFlush

\* The texts of the lead, from what was answered to what is still queued, are
\* the ones that arrived, in that order: popAll, push and the queue together
\* neither drop, repeat nor reorder ("concatenado en orden").
Taken == IF \E w \in Inbound : pc[w] = "dispatch"
         THEN batch[CHOOSE w \in Inbound : pc[w] = "dispatch"]
         ELSE <<>>

InHand(w) == IF pc[w] = "rpush" THEN <<work[w]>> ELSE <<>>

Conservation ==
    \A w \in Inbound :
        arrived = handled \o Taken \o buffer \o InHand(w) \o queue["inbound"]

(* Liveness.                                                               *)

\* Every message that arrives is answered in some turn.
EveryMessageAnswered == \A m \in Messages : m \in ToSet(arrived) ~> m \in ToSet(handled)

\* After a suppression the lead's jobs and processes come to rest for good.
QuietAfterSuppression ==
    ~leadExists ~> [](/\ \A j \in JobIds : job[j] \notin {"delayed", "active"}
                      /\ \A p \in Processes : pc[p] = "idle"
                      /\ \A q \in DOMAIN queue : queue[q] = <<>>)

(* Refinement: what waits is what the turn in flight has taken and what    *)
(* the buffer holds.                                                       *)
Delivery == INSTANCE TurnDelivery WITH waiting <- Taken \o buffer

\* The pipeline delivers turns as its abstract specification says.
DeliversTurns == Delivery!Spec
=============================================================================
