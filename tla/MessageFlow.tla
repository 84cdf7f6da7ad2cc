---------------------------- MODULE MessageFlow ----------------------------
(***************************************************************************)
(* The messages of ONE lead from WhatsApp's webhook to the jobs that       *)
(* process them, and from the jobs that answer back to WhatsApp: the       *)
(* WebhookEvent that recognises a repeat, the Message rows, the outbound   *)
(* queue with its attempts, the manual message of the panel with its       *)
(* compensation, the daily purge and the suppression of the lead.          *)
(*                                                                         *)
(* A step is one await of the code.  Between two of them a request or a    *)
(* worker may throw or die, and everybody else may act.                    *)
(***************************************************************************)
EXTENDS Naturals, Sequences, FiniteSets, SequencesExt

CONSTANTS
    Texts, Audios, Unsupported,  \* what a customer may write, by type
    Payloads,     \* the bodies WhatsApp posts: sequences of messages
    Bot,          \* answers of the bot: stored once delivered
    Manual,       \* manual messages of the panel: stored before they are queued
    Requests,     \* webhook requests in progress at once
    Senders,      \* outbound workers, one per replica
    None,         \* no job in hand
    Attempts,     \* RETRY_JOB_OPTIONS.attempts: 5
    MaxDeliveries, MaxFaults, MaxSuppressions    \* bounds

Inbound == Texts \cup Audios \cup Unsupported
Answers == Bot \cup Manual

ASSUME FlowAssumption ==
    /\ Texts \cap Audios = {} /\ (Texts \cup Audios) \cap Unsupported = {}
    /\ Bot \cap Manual = {}
    /\ Payloads \subseteq Seq(Inbound)
    /\ None \notin Answers
    /\ Attempts \in Nat \ {0}
    /\ {MaxDeliveries, MaxFaults, MaxSuppressions} \subseteq Nat

VARIABLES
    event,      \* WebhookEvent rows, by wa_message_id
    old,        \* messages received more than 30 days ago: nobody repeats them
    lead,       \* the Lead row exists
    row,        \* Message rows, direction IN
    req,        \* per webhook request: next await, messages left of its payload
    waiting,    \* process-message jobs in the inbound and media queues
    buffered,   \* messages pushed to the debounce buffer and not purged
    outbound,   \* the outbound queue's wait list
    state,      \* per answer, its outbound job as BullMQ knows it
    attempts,   \* failed attempts of that job
    sender,     \* per outbound worker: next await, job in hand
    outRow,     \* per answer, how many Message rows OUT it has
    panel,      \* per manual message, next await of its request
    arrived, jobs, faulted, accepted, order,   \* history
    deliveries, faults, suppressions       \* counters against the bounds

inVars  == <<event, old, req, waiting, buffered, row, arrived, jobs>>
outVars == <<outbound, state, attempts, sender, accepted, order>>
bounds  == <<deliveries, faults, suppressions>>
vars    == <<inVars, lead, outVars, outRow, panel, faulted, bounds>>

ReqPcs    == {"idle", "record", "lead", "save", "enqueue"}
SenderPcs == {"idle", "send", "update", "upsert", "insert"}
JobStates == {"new", "waiting", "active", "delayed", "done", "failed"}

TypeOK ==
    /\ event \subseteq Inbound /\ old \subseteq Inbound /\ row \subseteq Inbound
    /\ lead \in BOOLEAN
    /\ req \in [Requests -> [pc: ReqPcs, msgs: Seq(Inbound)]]
    /\ \A r \in Requests : req[r].pc = "idle" <=> req[r].msgs = <<>>
    /\ waiting \subseteq Inbound /\ buffered \subseteq Inbound
    /\ outbound \in Seq(Answers)
    /\ state \in [Answers -> JobStates]
    /\ attempts \in [Answers -> 0 .. Attempts]
    /\ sender \in [Senders -> [pc: SenderPcs, job: Answers \cup {None}]]
    /\ \A s \in Senders : sender[s].pc # "idle" => sender[s].job \in Answers
    /\ outRow \in [Answers -> Nat]
    /\ panel \in [Manual -> {"new", "send", "compensate", "phantom", "end"}]
    /\ arrived \subseteq Inbound
    /\ jobs \in [Inbound -> Nat] /\ accepted \in [Answers -> Nat]
    /\ faulted \subseteq Inbound \cup Answers
    /\ order \in Seq(Answers)
    /\ deliveries \in 0 .. MaxDeliveries
    /\ faults \in 0 .. MaxFaults /\ suppressions \in 0 .. MaxSuppressions

Init ==
    /\ event = {} /\ old = {} /\ row = {} /\ lead = FALSE
    /\ req = [r \in Requests |-> [pc |-> "idle", msgs |-> <<>>]]
    /\ waiting = {} /\ buffered = {}
    /\ outbound = <<>> /\ state = [j \in Answers |-> "new"]
    /\ attempts = [j \in Answers |-> 0]
    /\ sender = [s \in Senders |-> [pc |-> "idle", job |-> None]]
    /\ outRow = [j \in Answers |-> 0] /\ panel = [j \in Manual |-> "new"]
    /\ jobs = [m \in Inbound |-> 0] /\ accepted = [j \in Answers |-> 0]
    /\ faulted = {} /\ arrived = {} /\ order = <<>>
    /\ deliveries = 0 /\ faults = 0 /\ suppressions = 0

-----------------------------------------------------------------------------
(* POST /webhook/whatsapp: handlePayload, one message after another.       *)

\* A request arrives; WhatsApp repeats one it has no 200 for, and others too,
\* for days but never for a month.
receive(r) ==
    /\ req[r].pc = "idle" /\ deliveries < MaxDeliveries
    /\ \E s \in Payloads :
         /\ s # <<>> /\ ToSet(s) \cap old = {}
         /\ req' = [req EXCEPT ![r] = [pc |-> "record", msgs |-> s]]
         /\ arrived' = arrived \cup ToSet(s)
    /\ deliveries' = deliveries + 1
    /\ UNCHANGED <<event, old, lead, row, waiting, buffered, outVars, outRow, panel,
                   jobs, faulted, faults, suppressions>>

\* Mutant: a message that throws ends the whole request.
NoMoreMessages(r) == req' = [req EXCEPT ![r] = [pc |-> "idle", msgs |-> <<>>]]

\* The loop of handleChange: on with the next message, or the 200.
NextMessage(r) ==
    req' = [req EXCEPT ![r] = [pc   |-> IF Len(@.msgs) = 1 THEN "idle" ELSE "record",
                               msgs |-> Tail(@.msgs)]]

Goto(r, pc) == req' = [req EXCEPT ![r].pc = pc]

Handling(r, pc) == req[r].pc = pc

\* The message request r is at.
Current(r) == Head(req[r].msgs)

\* The unique wa_message_id of WebhookEvent tells a repeat.
recordWebhookEvent(r) ==
    /\ Handling(r, "record")
    /\ IF Current(r) \in event
         THEN NextMessage(r) /\ UNCHANGED event
         ELSE Goto(r, "lead") /\ event' = event \cup {Current(r)}
    /\ UNCHANGED <<arrived, old, lead, row, waiting, buffered, outVars, outRow, panel, jobs,
                   faulted, bounds>>

findOrCreateByPhone(r) ==
    /\ Handling(r, "lead")
    /\ Goto(r, "save") /\ lead' = TRUE
    /\ UNCHANGED <<arrived, event, old, row, waiting, buffered, outVars, outRow, panel, jobs,
                   faulted, bounds>>

\* message.create: its own unique wa_message_id, and the lead must still be there.
SaveMessage(r) ==
    /\ Handling(r, "save")
    /\ IF lead /\ Current(r) \notin row
         THEN Goto(r, "enqueue") /\ row' = row \cup {Current(r)}
         ELSE NextMessage(r) /\ UNCHANGED row
    /\ UNCHANGED <<arrived, event, old, lead, waiting, buffered, outVars, outRow, panel, jobs,
                   faulted, bounds>>

handleMessage(r) ==
    /\ Handling(r, "enqueue")
    /\ NextMessage(r)
    /\ waiting' = waiting \cup {Current(r)}
    /\ jobs' = [jobs EXCEPT ![Current(r)] = @ + 1]
    /\ UNCHANGED <<arrived, event, old, lead, row, buffered, outVars, outRow, panel, faulted, bounds>>

\* Any await of a message throws: handleChange logs it and goes on.
HandlerThrows(r) ==
    /\ req[r].pc # "idle" /\ faults < MaxFaults
    /\ faults' = faults + 1 /\ faulted' = faulted \cup {Current(r)}
    /\ NextMessage(r)
    /\ UNCHANGED <<arrived, event, old, lead, row, waiting, buffered, outVars, outRow, panel, jobs,
                   deliveries, suppressions>>

\* The process dies: no 200, and what is left of the payload is not looked at.
RequestDies(r) ==
    /\ req[r].pc # "idle" /\ faults < MaxFaults
    /\ faults' = faults + 1 /\ faulted' = faulted \cup ToSet(req[r].msgs)
    /\ req' = [req EXCEPT ![r] = [pc |-> "idle", msgs |-> <<>>]]
    /\ UNCHANGED <<arrived, event, old, lead, row, waiting, buffered, outVars, outRow, panel, jobs,
                   deliveries, suppressions>>

-----------------------------------------------------------------------------
(* The inbound and media workers.                                          *)

\* Mutant: the last queued is the first sent.
sendTextFirst(j) ==
    /\ state[j] = "new"
    /\ state' = [state EXCEPT ![j] = "waiting"]
    /\ outbound' = <<j>> \o outbound /\ order' = Append(order, j)
    /\ UNCHANGED <<attempts, sender, accepted>>

\* MessagingService: one job per message, RETRY_JOB_OPTIONS.
sendText(j) ==
    /\ state[j] = "new"
    /\ state' = [state EXCEPT ![j] = "waiting"]
    /\ outbound' = Append(outbound, j) /\ order' = Append(order, j)
    /\ UNCHANGED <<attempts, sender, accepted>>

JobTaken(m) ==
    /\ m \in waiting /\ waiting' = waiting \ {m}
    /\ UNCHANGED <<arrived, event, old, lead, row, req, outRow, panel, jobs, bounds>>

\* The message is gone with its lead: the job is ignored.
MessageMissing(m) ==
    /\ JobTaken(m) /\ m \notin row
    /\ UNCHANGED <<buffered, faulted, outVars>>

\* A text, or an audio that was downloaded and transcribed, reaches the buffer.
push(m) ==
    /\ JobTaken(m) /\ m \in row /\ m \notin Unsupported
    /\ buffered' = buffered \cup {m}
    /\ UNCHANGED <<faulted, outVars>>

\* The download throws (Meta, 16 MB, 30 s), or ffmpeg, or both STT providers: the
\* job of the media queue has one attempt.
TranscriptionFails(m) ==
    /\ JobTaken(m) /\ m \in row /\ m \in Audios
    /\ faulted' = faulted \cup {m}
    /\ UNCHANGED <<buffered, outVars>>

\* A sticker is answered unless the lead is silenced (its state: LeadConversation).
respondUnsupported(m) ==
    /\ JobTaken(m) /\ m \in row /\ m \in Unsupported
    /\ (\E j \in Bot : sendText(j)) \/ UNCHANGED outVars
    /\ UNCHANGED <<buffered, faulted>>

\* A turn over what is buffered sends an answer (which and how many: LeadConversation).
handleTurn(j) ==
    /\ buffered # {}
    /\ sendText(j)
    /\ UNCHANGED <<inVars, lead, outRow, panel, faulted, bounds>>

-----------------------------------------------------------------------------
(* OutboundProcessor.                                                      *)

TakeJob(s) ==
    /\ sender[s].pc = "idle" /\ outbound # <<>>
    /\ sender' = [sender EXCEPT ![s] = [pc |-> "send", job |-> Head(outbound)]]
    /\ outbound' = Tail(outbound)
    /\ state' = [state EXCEPT ![Head(outbound)] = "active"]
    /\ UNCHANGED <<inVars, lead, attempts, accepted, order, outRow, panel, faulted, bounds>>

Step(s, from, to) ==
    /\ sender[s].pc = from
    /\ sender' = [sender EXCEPT ![s].pc = to]

\* The worker is done with its job, which is now in state to.
Leave(s, to) ==
    /\ sender' = [sender EXCEPT ![s] = [pc |-> "idle", job |-> None]]
    /\ state' = [state EXCEPT ![sender[s].job] = to]

\* WhatsApp accepts the message; what the database must know of it depends on its kind.
Send(s) ==
    /\ Step(s, "send", IF sender[s].job \in Manual THEN "update" ELSE "upsert")
    /\ accepted' = [accepted EXCEPT ![sender[s].job] = @ + 1]
    /\ UNCHANGED <<inVars, lead, outbound, state, attempts, order, outRow, panel, faulted,
                   bounds>>

\* Mutant: without messageId, the manual message is stored a second time.
StoreManualAgain(s) ==
    /\ sender[s].pc = "update"
    /\ Leave(s, "done")
    /\ outRow' = [outRow EXCEPT ![sender[s].job] = @ + 1]
    /\ UNCHANGED <<inVars, lead, outbound, attempts, accepted, order, panel, faulted, bounds>>

\* A manual message: its row learns the id (updateMany, no row is no error).
UpdateManual(s) ==
    /\ sender[s].pc = "update"
    /\ Leave(s, "done")
    /\ UNCHANGED <<inVars, lead, outbound, attempts, accepted, order, outRow, panel,
                   faulted, bounds>>

\* An answer of the bot: findOrCreateByPhone, then message.create.
UpsertLead(s) ==
    /\ Step(s, "upsert", "insert")
    /\ lead' = TRUE
    /\ UNCHANGED <<inVars, outbound, state, attempts, accepted, order, outRow, panel,
                   faulted, bounds>>

InsertRow(s) ==
    /\ sender[s].pc = "insert" /\ lead
    /\ outRow' = [outRow EXCEPT ![sender[s].job] = @ + 1]
    /\ Leave(s, "done")
    /\ UNCHANGED <<inVars, lead, outbound, attempts, accepted, order, panel, faulted, bounds>>

\* Mutant: the error is swallowed.
AttemptSwallowed(s) ==
    /\ sender[s].pc # "idle"
    /\ Leave(s, "done")
    /\ UNCHANGED <<inVars, lead, outbound, attempts, accepted, order, outRow, panel,
                   faulted, bounds>>

\* An attempt throws: at Meta, which may have accepted the message or not, or in the
\* database (always if the lead was deleted before message.create).  Then a
\* backoff, up to the last attempt.
AttemptFails(s) ==
    /\ sender[s].pc # "idle"
    /\ LET j == sender[s].job IN
         /\ attempts' = [attempts EXCEPT ![j] = @ + 1]
         /\ Leave(s, IF attempts[j] + 1 < Attempts THEN "delayed" ELSE "failed")
         /\ \/ UNCHANGED accepted
            \/ sender[s].pc = "send" /\ accepted' = [accepted EXCEPT ![j] = @ + 1]
    /\ UNCHANGED <<inVars, lead, outbound, order, outRow, panel, faulted, bounds>>

\* The backoff passes: the job waits again, wherever BullMQ puts it.
FallDue(j) ==
    /\ state[j] = "delayed"
    /\ state' = [state EXCEPT ![j] = "waiting"]
    /\ outbound' \in {Append(outbound, j), <<j>> \o outbound}
    /\ UNCHANGED <<inVars, lead, attempts, sender, accepted, order, outRow, panel,
                   faulted, bounds>>

\* The worker dies: BullMQ sees the job stall and lets it run again.
SenderDies(s) ==
    /\ sender[s].pc # "idle" /\ faults < MaxFaults
    /\ faults' = faults + 1 /\ faulted' = faulted \cup {sender[s].job}
    /\ Leave(s, "waiting")
    /\ outbound' = <<sender[s].job>> \o outbound
    /\ UNCHANGED <<inVars, lead, attempts, accepted, order, outRow, panel,
                   deliveries, suppressions>>

-----------------------------------------------------------------------------
(* sendManual: the row is committed, then the job is added.                *)

PanelUnchanged == UNCHANGED <<inVars, lead, faulted, deliveries, suppressions>>

CommitManual(j) ==
    /\ panel[j] = "new" /\ lead
    /\ panel' = [panel EXCEPT ![j] = "send"]
    /\ outRow' = [outRow EXCEPT ![j] = 1]
    /\ PanelUnchanged /\ UNCHANGED <<outVars, faults>>

EnqueueManual(j) ==
    /\ panel[j] = "send"
    /\ panel' = [panel EXCEPT ![j] = "end"]
    /\ sendText(j)
    /\ PanelUnchanged /\ UNCHANGED <<outRow, faults>>

EnqueueManualFails(j) ==
    /\ panel[j] = "send" /\ faults < MaxFaults
    /\ panel' = [panel EXCEPT ![j] = "compensate"] /\ faults' = faults + 1
    /\ PanelUnchanged /\ UNCHANGED <<outVars, outRow>>

\* The deleteMany may fail too, which is logged and leaves the row.
deleteMessageCompensating(j) ==
    /\ panel[j] = "compensate"
    /\ \/ /\ outRow' = [outRow EXCEPT ![j] = 0]
          /\ panel' = [panel EXCEPT ![j] = "end"]
          /\ UNCHANGED faults
       \/ /\ faults < MaxFaults /\ faults' = faults + 1
          /\ panel' = [panel EXCEPT ![j] = "phantom"]
          /\ UNCHANGED outRow
    /\ PanelUnchanged /\ UNCHANGED outVars

\* The process dies between the commit and the job.
PanelDies(j) ==
    /\ panel[j] \in {"send", "compensate"} /\ faults < MaxFaults
    /\ faults' = faults + 1 /\ panel' = [panel EXCEPT ![j] = "phantom"]
    /\ PanelUnchanged /\ UNCHANGED <<outVars, outRow>>

-----------------------------------------------------------------------------
(* Suppression of the lead, and the daily purge.                           *)

\* lead.delete cascades to the messages; purgeLead has emptied the buffer.  Jobs
\* already in a queue stay there.
suppress ==
    /\ lead /\ suppressions < MaxSuppressions
    /\ suppressions' = suppressions + 1
    /\ lead' = FALSE /\ row' = {} /\ buffered' = {}
    /\ outRow' = [j \in Answers |-> 0]
    /\ faulted' = faulted \cup {Current(r) : r \in {q \in Requests : req[q].pc # "idle"}}
    /\ UNCHANGED <<arrived, event, old, req, waiting, jobs, outVars, panel, deliveries, faults>>

\* WEBHOOK_EVENT_RETENTION_DAYS pass with nothing in progress.
MonthPasses ==
    /\ \A r \in Requests : req[r].pc = "idle"
    /\ waiting = {} /\ \A j \in Answers : state[j] \in {"new", "done", "failed"}
    /\ event \ old # {}
    /\ old' = old \cup event
    /\ UNCHANGED <<arrived, event, lead, req, row, waiting, buffered, jobs, outVars, outRow, panel,
                   faulted, bounds>>

\* Mutant: the cutoff is forgotten.
purgeAllEvents ==
    /\ event # {}
    /\ event' = {}
    /\ UNCHANGED <<arrived, old, lead, req, row, waiting, buffered, jobs, outVars, outRow, panel,
                   faulted, bounds>>

purgeWebhookEvents ==
    /\ event \cap old # {}
    /\ event' = event \ old
    /\ UNCHANGED <<arrived, old, lead, req, row, waiting, buffered, jobs, outVars, outRow, panel,
                   faulted, bounds>>

-----------------------------------------------------------------------------
RequestStep(r) ==
    \/ recordWebhookEvent(r) \/ findOrCreateByPhone(r) \/ SaveMessage(r) \/ handleMessage(r)

JobStep(m) ==
    \/ MessageMissing(m) \/ push(m) \/ TranscriptionFails(m) \/ respondUnsupported(m)

SenderStep(s) ==
    \/ TakeJob(s) \/ Send(s) \/ UpdateManual(s) \/ UpsertLead(s) \/ InsertRow(s)
    \/ AttemptFails(s)

PanelStep(j) ==
    EnqueueManual(j) \/ EnqueueManualFails(j) \/ deleteMessageCompensating(j)

Next ==
    \/ \E r \in Requests : receive(r) \/ RequestStep(r) \/ HandlerThrows(r) \/ RequestDies(r)
    \/ \E m \in Inbound : JobStep(m)
    \/ \E j \in Bot : handleTurn(j)
    \/ \E j \in Answers : FallDue(j)
    \/ \E s \in Senders : SenderStep(s) \/ SenderDies(s)
    \/ \E j \in Manual : CommitManual(j) \/ PanelStep(j) \/ PanelDies(j)
    \/ suppress \/ MonthPasses \/ purgeWebhookEvents

Spec == Init /\ [][Next]_vars

-----------------------------------------------------------------------------
\* A message of the customer is given to a worker at most once, however often
\* WhatsApp repeats it and whatever is suppressed or purged meanwhile
\* (webhook.service.ts:191, the unique keys and the 30 days).
EnqueuedOnce == \A m \in Inbound : jobs[m] <= 1

\* A message that WhatsApp has the 200 for was given to a worker, unless its own
\* processing threw: one message of a payload does not take another with it, nor
\* does a repeat that overlaps the first (webhook.service.ts:174).
LostOnlyByItsOwnFault ==
    \A m \in arrived \ faulted :
        jobs[m] = 1 \/ \E r \in Requests : m \in ToSet(req[r].msgs)

\* The timeline and what was sent: an answer of the bot has no more rows than times
\* WhatsApp took it.  A manual message is shown before it is sent, and stays shown
\* if it never is: it has at most one row, and none once its request ends without
\* having queued it, unless the compensation itself was cut short
\* (outbound.processor.ts:100, admin-lead-messaging.service.ts:148).
TimelineIsTrue ==
    /\ \A j \in Bot : outRow[j] <= accepted[j]
    /\ \A j \in Manual :
         /\ outRow[j] <= 1
         /\ panel[j] = "end" /\ state[j] = "new" => outRow[j] = 0

Before(j, k) == \E a, b \in 1 .. Len(order) : a < b /\ order[a] = j /\ order[b] = k

\* With one worker an answer is overtaken by a later one only if an attempt of it
\* failed (messaging.service.ts:8: the answers of a turn are independent jobs).
OvertakenOnlyByFailure ==
    \A j, k \in Answers :
        Before(j, k) /\ accepted[k] > 0 /\ accepted[j] = 0 => attempts[j] > 0 \/ j \in faulted

\* The outbound queue keeps the promise of OutboundDelivery, for which a job that
\* waits, runs or backs off is queued.
promised ==
    [j \in Answers |-> IF state[j] \in {"waiting", "active", "delayed"} THEN "queued" ELSE state[j]]

Delivery == INSTANCE OutboundDelivery WITH state <- promised

DeliversAnswers == Delivery!Spec
=============================================================================
