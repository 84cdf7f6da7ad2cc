-------------------------- MODULE LeadConversation --------------------------
(***************************************************************************)
(* The conversation of ONE lead as the columns of its row see it: the turn *)
(* of ConversationEngine.handleTurn, split where it reads, sends or writes; *)
(* the fixed answer to a message without text; the adviser's sendManual,   *)
(* optOut and release; and the clock the guardrails read.                  *)
(*                                                                         *)
(* handleTurn and the transaction of sendManual run under the lead's lock, *)
(* whose exclusion is TurnPipeline's theorem; the other requests take no   *)
(* lock.  Dates are kept as ages in ticks, each up to the limit the code   *)
(* compares it with.                                                       *)
(***************************************************************************)
EXTENDS Naturals, Sequences

CONSTANTS
    Null,                                           \* an absent date or request
    ServiceWindow, HandoffTimeout, SessionExpiration,      \* 24 h, 48 h, 30 days
    Arriving,      \* kinds of messages that come in: "text", "unsupported"
    MaxReplies     \* answers of one turn besides notice and apology

Active   == {"GREETING", "QUALIFICATION", "SEARCH_MATCH", "COMMERCIAL_QUALIFICATION", "SCHEDULING"}
Silenced == {"HUMAN_HANDOFF", "OPTED_OUT"}
State    == Active \cup Silenced
Kinds    == {"text", "unsupported"}
Actions  == {"opt_out", "handoff", "silenced", "handoff_timeout_release", "session_expired", "continue"}
Requests == {"opt_out", "handoff", "other"}      \* what the text asks, by the regexes
Speakers == {"turn", "unsupported", "manual"}    \* who may write to the lead

ASSUME ConversationAssumption ==
    /\ ServiceWindow \in Nat /\ HandoffTimeout \in Nat /\ SessionExpiration \in Nat
    /\ 0 < ServiceWindow /\ ServiceWindow <= HandoffTimeout /\ HandoffTimeout < SessionExpiration
    /\ Null \notin Nat /\ Null \notin State
    /\ Arriving \subseteq Kinds /\ MaxReplies \in Nat \ {0}

VARIABLES
    lead,       \* the columns of the row that steer the conversation
    inbox,      \* kinds of messages received and not attended to
    inboundAge, \* of the last Message with direction IN
    openVisit,  \* the lead has an Appointment PROPOSED or CONFIRMED
    turn,       \* the turn in progress
    unsupported,\* the answer to a message without text is about to be sent
    manual,     \* the adviser's message: "idle", "checked", "committed"
    release,    \* the target read by a release in progress, or Null
    outbound,   \* messages of the bot wait in the outbound queue
    noticed,    \* history: the notice of Ley 25.326 was sent in this session
    late        \* history: who works on a state of the lead that is no more

rows    == <<lead, inbox, inboundAge, openVisit>>
panel   == <<manual, release>>
history == <<noticed, late>>
vars    == <<rows, turn, unsupported, panel, outbound, history>>

Row == [state : State, handoffAt : 0 .. HandoffTimeout \cup {Null},
        lastMessageAt : 0 .. SessionExpiration,
        searched : BOOLEAN,      \* lastSearchIds is not empty
        greeted : BOOLEAN]       \* greetedAt is set

Turn == [pc : {"idle", "expire", "extract", "sendStop", "sendReformulate", "send"},
         action : Actions, lead : Row,
         out : Seq({"notice", "reply"}), next : State, greet : BOOLEAN]

TypeOK ==
    /\ lead \in Row
    /\ inbox \subseteq Kinds
    /\ inboundAge \in 0 .. ServiceWindow
    /\ openVisit \in BOOLEAN
    /\ turn \in Turn
    /\ unsupported \in BOOLEAN
    /\ manual \in {"idle", "checked", "committed"}
    /\ release \in {"QUALIFICATION", "SEARCH_MATCH", Null}
    /\ outbound \in BOOLEAN
    /\ noticed \in BOOLEAN
    /\ late \subseteq Speakers

\* A lead is created by its first message.
NewLead == [state |-> "GREETING", handoffAt |-> Null, lastMessageAt |-> 0,
            searched |-> FALSE, greeted |-> FALSE]

Idle(l) == [pc |-> "idle", action |-> "continue", lead |-> l, out |-> <<>>,
            next |-> "GREETING", greet |-> FALSE]

Init ==
    /\ lead = NewLead
    /\ \E k \in Arriving : inbox = {k}
    /\ inboundAge = 0
    /\ openVisit = FALSE
    /\ turn = Idle(NewLead)
    /\ unsupported = FALSE /\ manual = "idle" /\ release = Null /\ outbound = FALSE
    /\ noticed = FALSE /\ late = {}

\* The lead's lock is held by a turn or by the transaction of sendManual.
LockFree == turn.pc = "idle" /\ manual # "committed"

EndTurn == turn' = Idle(NewLead)

\* Who has looked at the row and not finished with it.
Busy == {a \in Speakers : CASE a = "turn"        -> turn.pc # "idle"
                             [] a = "unsupported" -> unsupported
                             [] a = "manual"      -> manual = "committed"}

\* A change of the state overtakes the answer without text, which takes no lock,
\* and, when it is not their own, the turn and the adviser's message.
Overtakes ==
    late' = Busy' \cap (late \cup
                (IF lead'.state = lead.state THEN {}
                 ELSE {"unsupported"}
                        \cup (IF UNCHANGED <<turn, manual>> THEN {"turn", "manual"} ELSE {})))

-----------------------------------------------------------------------------
(* The webhook: LeadsService.findOrCreateByPhone, Message.create, the job. *)

findOrCreateByPhone(l) == [l EXCEPT !.lastMessageAt = 0]

handleMessage(k) ==
    /\ lead' = findOrCreateByPhone(lead)
    /\ inbox' = inbox \cup {k}
    /\ inboundAge' = 0
    /\ UNCHANGED <<openVisit, turn, unsupported, panel, outbound, history>>

-----------------------------------------------------------------------------
(* Guardrails, evaluated on the row the turn read.                         *)

isHandoffTimedOut(l) == l.handoffAt = Null \/ l.handoffAt = HandoffTimeout

evaluate(l, r) ==
    CASE r = "opt_out" /\ l.state # "OPTED_OUT"   -> "opt_out"
      [] r = "handoff" /\ l.state \notin Silenced -> "handoff"
      [] l.state = "OPTED_OUT"                    -> "silenced"
      [] l.state = "HUMAN_HANDOFF" /\ r # "opt_out" ->
            IF isHandoffTimedOut(l) THEN "handoff_timeout_release" ELSE "silenced"
      [] l.state \in Active /\ r = "other" ->
            IF l.lastMessageAt = SessionExpiration THEN "session_expired" ELSE "continue"

\* Mutant: a released lead starts over.
releaseToGreeting(l) == "GREETING"

resolveReleaseState(l) == IF l.searched THEN "SEARCH_MATCH" ELSE "QUALIFICATION"

\* The columns action a sets, decided on the row l the turn read.
leadUpdate(a, l, row) ==
    CASE a = "opt_out" -> [row EXCEPT !.state = "OPTED_OUT"]
      [] a = "handoff" -> [row EXCEPT !.state = "HUMAN_HANDOFF", !.handoffAt = 0]
      [] a = "handoff_timeout_release" ->
            [row EXCEPT !.state = resolveReleaseState(l), !.handoffAt = Null]
      [] a = "session_expired" ->
            [row EXCEPT !.state = "GREETING", !.searched = FALSE, !.greeted = FALSE]
      [] OTHER -> row

effectiveLead == leadUpdate(turn.action, turn.lead, turn.lead)

-----------------------------------------------------------------------------
(* What a handler may answer to the lead l it is given, as far as the row  *)
(* goes: the next state, what becomes of lastSearchIds ("keep", "some",    *)
(* "none"), whether the notice opens the answer, whether a visit is made.  *)
(* What decides among them is the text, the filters and the stock.         *)

Result(next, shown) == [next |-> next, shown |-> shown, greet |-> FALSE, visit |-> FALSE]

qualificationHandle(l) ==
    {Result("QUALIFICATION", "keep"),           \* asks, warns or suggests zones
     Result("SEARCH_MATCH", "keep"),            \* the same cards as before, or none
     Result("SEARCH_MATCH", "some")}
      \cup (IF l.state = "SEARCH_MATCH" THEN {}
            ELSE {Result("QUALIFICATION", "none")})   \* the teaser found nothing left

greetingHandle(l) ==
    {[r EXCEPT !.greet = ~l.greeted] :
        r \in {Result("GREETING", "keep")} \cup qualificationHandle(l)}

enterScheduling == [Result("HUMAN_HANDOFF", "keep") EXCEPT !.visit = TRUE]

commercialProcess == {Result("COMMERCIAL_QUALIFICATION", "keep"), enterScheduling}

searchMatchHandle(l) ==
    {Result("SEARCH_MATCH", "keep")} \cup qualificationHandle(l)
      \cup (IF l.searched THEN commercialProcess ELSE {})

commercialHandle(l) == qualificationHandle(l) \cup commercialProcess

\* A buying signal or a change of subject is answered where the lead stands.
resolveResult(l) ==
    {Result(l.state, "keep")}
      \cup CASE l.state = "GREETING"      -> greetingHandle(l)
             [] l.state = "QUALIFICATION" -> qualificationHandle(l)
             [] l.state = "SEARCH_MATCH"  -> searchMatchHandle(l)
             [] l.state = "COMMERCIAL_QUALIFICATION" -> commercialHandle(l)
             [] l.state = "SCHEDULING"    -> {enterScheduling}
             [] OTHER -> {}

-----------------------------------------------------------------------------
(* ConversationEngine.handleTurn.                                          *)

Replies(n) == [i \in 1 .. n |-> "reply"]

\* The confirmation, the farewell or the apology of action a.
guardrailReplies(a) ==
    Replies(IF a \in {"opt_out", "handoff", "handoff_timeout_release"} THEN 1 ELSE 0)

\* An open visit vetoes the expiry.
decide(r) ==
    IF evaluate(lead, r) = "session_expired" /\ openVisit THEN "continue" ELSE evaluate(lead, r)

firstStep(a) == CASE a = "silenced" -> "idle"
                  [] a \in {"opt_out", "handoff"} -> "sendStop"
                  [] a = "session_expired" -> "expire"
                  [] OTHER -> "extract"

BeginTurn(r) ==
    /\ "text" \in inbox
    /\ LockFree
    /\ inbox' = inbox \ {"text"}
    /\ turn' = IF decide(r) = "silenced" THEN Idle(NewLead)
               ELSE [Idle(lead) EXCEPT
                        !.pc = firstStep(decide(r)),
                        !.action = decide(r),
                        !.out = IF firstStep(decide(r)) = "sendStop"
                                THEN guardrailReplies(decide(r)) ELSE <<>>]
    /\ UNCHANGED <<lead, inboundAge, openVisit, unsupported, panel, outbound, history>>

ExpireSession ==
    /\ turn.pc = "expire"
    /\ lead' = leadUpdate("session_expired", turn.lead, lead)
    /\ turn' = [turn EXCEPT !.pc = "extract"]
    /\ noticed' = FALSE
    /\ UNCHANGED <<inbox, inboundAge, openVisit, unsupported, panel, outbound>>
    /\ Overtakes

\* The LLM gives no valid extraction.
ExtractNothing ==
    /\ turn.pc = "extract"
    /\ turn' = [turn EXCEPT !.pc = "sendReformulate",
                            !.out = guardrailReplies(turn.action) \o <<"reply">>]
    /\ UNCHANGED <<rows, unsupported, panel, outbound, history>>

\* The handler answers, writing lastSearchIds and the appointment itself; the
\* row is read again and that reading is what sending and saving use.
Resolve(res, n) ==
    /\ turn.pc = "extract"
    /\ res \in resolveResult(effectiveLead)
    /\ n = 0 => res.next = "GREETING" /\ res.greet
    /\ lead' = [lead EXCEPT !.searched = CASE res.shown = "keep" -> @
                                           [] res.shown = "some" -> TRUE
                                           [] res.shown = "none" -> FALSE]
    /\ openVisit' = (openVisit \/ res.visit)
    /\ turn' = [turn EXCEPT !.pc = "send", !.lead = lead', !.next = res.next, !.greet = res.greet,
                            !.out = guardrailReplies(turn.action)
                                      \o (IF res.greet THEN <<"notice">> ELSE <<>>) \o Replies(n)]
    /\ UNCHANGED <<inbox, inboundAge, unsupported, panel, outbound, history>>

\* sendActions: one job of the outbound queue after the other.
SendAction ==
    /\ turn.out # <<>>
    /\ turn' = [turn EXCEPT !.out = Tail(@)]
    /\ outbound' = TRUE
    /\ noticed' = (noticed \/ Head(turn.out) = "notice")
    /\ UNCHANGED <<rows, unsupported, panel, late>>

\* All that turn.pc had to send is sent, and the row is saved.
Save(pc, row) ==
    /\ turn.pc = pc /\ turn.out = <<>>
    /\ lead' = row
    /\ EndTurn
    /\ UNCHANGED <<inbox, inboundAge, openVisit, unsupported, panel, outbound, noticed>>
    /\ Overtakes

SaveStop == Save("sendStop", leadUpdate(turn.action, turn.lead, lead))

SaveReformulate ==
    Save("sendReformulate", [leadUpdate(turn.action, turn.lead, lead) EXCEPT !.lastMessageAt = 0])

\* Mutant: greetedAt is not saved.
persistUngreeted ==
    Save("send", [lead EXCEPT
        !.state = turn.next,
        !.lastMessageAt = 0,
        !.handoffAt = IF turn.next = "HUMAN_HANDOFF" /\ turn.lead.state # "HUMAN_HANDOFF"
                      THEN 0 ELSE @])

persistLeadUpdate ==
    Save("send", [lead EXCEPT
        !.state = turn.next,
        !.lastMessageAt = 0,
        !.greeted = @ \/ (turn.greet /\ ~turn.lead.greeted),
        !.handoffAt = IF turn.next = "HUMAN_HANDOFF" /\ turn.lead.state # "HUMAN_HANDOFF"
                      THEN 0 ELSE @])

\* A query, a provider or Redis throws: the job fails and has no attempts left.
\* A notice the turn sent is forgotten unless greetedAt is saved.
TurnThrows ==
    /\ turn.pc # "idle"
    /\ EndTurn
    /\ noticed' = (noticed /\ lead.greeted)
    /\ UNCHANGED <<rows, unsupported, panel, outbound>>
    /\ Overtakes

handleTurn == \/ \E r \in Requests : BeginTurn(r)
              \/ ExpireSession
              \/ ExtractNothing
              \/ \E res \in resolveResult(effectiveLead), n \in 0 .. MaxReplies : Resolve(res, n)
              \/ SendAction
              \/ SaveStop \/ SaveReformulate \/ persistLeadUpdate
              \/ TurnThrows

-----------------------------------------------------------------------------
(* InboundProcessor.respondUnsupported: reads the row, then sends.         *)

ReadUnsupported ==
    /\ "unsupported" \in inbox /\ ~unsupported
    /\ inbox' = inbox \ {"unsupported"}
    /\ unsupported' = (lead.state \notin Silenced)
    /\ UNCHANGED <<lead, inboundAge, openVisit, turn, panel, outbound, history>>

SendUnsupported ==
    /\ unsupported
    /\ unsupported' = FALSE
    /\ outbound' = TRUE
    /\ UNCHANGED <<rows, turn, panel, noticed>>
    /\ Overtakes

respondUnsupported == ReadUnsupported \/ SendUnsupported

(* OutboundProcessor: what the bot enqueued reaches Meta and is saved as a *)
(* Message OUT of the lead, found by phone.                                *)
sendAndPersist ==
    /\ outbound
    /\ outbound' = FALSE
    /\ lead' = findOrCreateByPhone(lead)
    /\ UNCHANGED <<inbox, inboundAge, openVisit, turn, unsupported, panel, history>>

-----------------------------------------------------------------------------
(* The panel.                                                              *)

\* sendManual (1)-(3): the checks before the lock.
CheckManual ==
    /\ manual = "idle"
    /\ lead.state # "OPTED_OUT"
    /\ inboundAge < ServiceWindow
    /\ manual' = "checked"
    /\ UNCHANGED <<rows, turn, unsupported, release, outbound, history>>

\* Mutant: no lock around the transaction.
CommitUnlocked ==
    /\ manual = "checked"
    /\ lead.state # "OPTED_OUT"
    /\ lead' = [lead EXCEPT !.state = "HUMAN_HANDOFF", !.handoffAt = 0]
    /\ manual' = "committed"
    /\ UNCHANGED <<inbox, inboundAge, openVisit, turn, unsupported, release, outbound, noticed>>
    /\ Overtakes

\* (4), (4a): a busy lock or an opted-out lead answers 409 and writes nothing.
CommitManual ==
    /\ manual = "checked"
    /\ IF LockFree /\ lead.state # "OPTED_OUT"
       THEN /\ lead' = [lead EXCEPT !.state = "HUMAN_HANDOFF", !.handoffAt = 0]
            /\ manual' = "committed"
       ELSE manual' = "idle" /\ UNCHANGED lead
    /\ UNCHANGED <<inbox, inboundAge, openVisit, turn, unsupported, release, outbound, noticed>>
    /\ Overtakes

\* (4b): the adviser's message is queued, or queueing fails and it is deleted.
SendManual ==
    /\ manual = "committed"
    /\ manual' = "idle"
    /\ UNCHANGED <<rows, turn, unsupported, release, outbound, noticed>>
    /\ Overtakes

sendManual == CheckManual \/ CommitManual \/ SendManual

optOut ==
    /\ lead.state # "OPTED_OUT"
    /\ lead' = [lead EXCEPT !.state = "OPTED_OUT"]
    /\ UNCHANGED <<inbox, inboundAge, openVisit, turn, unsupported, panel, outbound, noticed>>
    /\ Overtakes

\* Mutant: the write does not ask for HUMAN_HANDOFF again.
ReleaseAnyState ==
    /\ release # Null
    /\ release' = Null
    /\ lead' = [lead EXCEPT !.state = release, !.handoffAt = Null]
    /\ UNCHANGED <<inbox, inboundAge, openVisit, turn, unsupported, manual, outbound, noticed>>
    /\ Overtakes

\* release reads the row in its transaction, which at READ COMMITTED sees no
\* snapshot, and writes it where the state still is HUMAN_HANDOFF.
ReadRelease ==
    /\ release = Null
    /\ release' = resolveReleaseState(lead)
    /\ UNCHANGED <<rows, turn, unsupported, manual, outbound, history>>

WriteRelease ==
    /\ release # Null
    /\ release' = Null
    /\ lead' = IF lead.state = "HUMAN_HANDOFF"
               THEN [lead EXCEPT !.state = release, !.handoffAt = Null] ELSE lead
    /\ UNCHANGED <<inbox, inboundAge, openVisit, turn, unsupported, manual, outbound, noticed>>
    /\ Overtakes

\* The agency closes or cancels the visit (or it is done).
closeVisit ==
    /\ openVisit
    /\ openVisit' = FALSE
    /\ UNCHANGED <<lead, inbox, inboundAge, turn, unsupported, panel, outbound, history>>

Panel == sendManual \/ optOut \/ ReadRelease \/ WriteRelease \/ closeVisit

-----------------------------------------------------------------------------
Older(age, limit) == IF age = Null \/ age = limit THEN age ELSE age + 1

\* A tick is a day or so: what runs under a lock or within a request is over.
Tick ==
    /\ LockFree /\ ~unsupported /\ ~outbound /\ manual = "idle" /\ release = Null
    /\ lead' = [lead EXCEPT !.handoffAt = Older(@, HandoffTimeout),
                            !.lastMessageAt = Older(@, SessionExpiration)]
    /\ inboundAge' = Older(inboundAge, ServiceWindow)
    /\ UNCHANGED <<inbox, openVisit, turn, unsupported, panel, outbound, history>>

Next == \/ \E k \in Arriving : handleMessage(k)
        \/ handleTurn
        \/ respondUnsupported
        \/ sendAndPersist
        \/ Panel
        \/ Tick

Spec == Init /\ [][Next]_vars

-----------------------------------------------------------------------------
BotSends == turn.out # <<>> /\ turn'.pc = turn.pc /\ turn'.out = Tail(turn.out)

\* docs/03-CONVERSACION.md, OPTED_OUT: "Terminal".  Nothing takes a lead out of it.
OptOutIsFinal == [][lead.state = "OPTED_OUT" => lead'.state = "OPTED_OUT"]_vars

\* An opt-out is undone by nothing but a turn that had read the row before it.
UndoneOnlyByLateTurn ==
    [][lead.state = "OPTED_OUT" => lead'.state = "OPTED_OUT" \/ "turn" \in late]_vars

\* Whoever writes to the lead read the row some steps ago: unless the panel has
\* changed the state since, the row still lets him.  Only the confirmation of an
\* opt-out and a turn that found the 48 hours over speak under HUMAN_HANDOFF; the
\* adviser speaks there and nowhere else.
SpeaksUnlessOvertaken ==
    [][/\ BotSends /\ "turn" \notin late =>
            /\ lead.state # "OPTED_OUT"
            /\ lead.state = "HUMAN_HANDOFF" => turn.action = "opt_out" \/ isHandoffTimedOut(lead)
       /\ unsupported /\ ~unsupported' /\ "unsupported" \notin late => lead.state \notin Silenced
       /\ manual = "committed" /\ manual' = "idle" /\ "manual" \notin late =>
            lead.state = "HUMAN_HANDOFF"]_vars

\* A lead in human hands has the date the 48 hours count from.
HandoffDated == lead.state = "HUMAN_HANDOFF" => lead.handoffAt # Null

\* The notice goes out once in a session, however many turns greet, unless the
\* turn that sent it threw before greetedAt was saved.
NoticeOnce == [][BotSends /\ Head(turn.out) = "notice" => ~noticed]_vars

-----------------------------------------------------------------------------
Lifecycle == INSTANCE LeadLifecycle WITH
    state <- lead.state,
    quiet <- IF lead.state = "HUMAN_HANDOFF" /\ lead.handoffAt # Null
             THEN lead.handoffAt ELSE HandoffTimeout,
    overtaken <- "turn" \in late

\* The conversation moves the lead as its lifecycle allows.
FollowsLifecycle == Lifecycle!Spec
=============================================================================
