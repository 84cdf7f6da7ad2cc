----------------------- MODULE LeadConversationProofs -----------------------
(***************************************************************************)
(* What holds of a lead's conversation whatever the limits of the clock    *)
(* and the number of answers, with turns that throw anywhere and with      *)
(* optOut and release inside the turns.                                    *)
(***************************************************************************)
EXTENDS LeadConversation, TLAPS

(* Only who has looked at the row can be late.                             *)
LateInv == late \subseteq Busy

(* A turn the panel has not overtaken still works for a lead that may be   *)
(* written to, and the lock keeps the adviser's message out.               *)
LockInv ==
    turn.pc # "idle" =>
       /\ manual # "committed"
       /\ "turn" \notin late => lead.state # "OPTED_OUT"

(* Each point of the turn is reached by some decisions of the guardrails.  *)
ActionInv ==
    /\ turn.pc = "expire" => turn.action = "session_expired"
    /\ turn.pc = "sendStop" => turn.action \in {"opt_out", "handoff"}
    /\ turn.pc \in {"extract", "sendReformulate", "send"}
          => turn.action \in {"handoff_timeout_release", "session_expired", "continue"}

(* A turn on a lead in human hands is an opt-out, or found the time over.  *)
HandoffInv ==
    turn.pc # "idle" /\ "turn" \notin late /\ lead.state = "HUMAN_HANDOFF"
       => \/ turn.action = "opt_out"
          \/ turn.action = "handoff_timeout_release" /\ isHandoffTimedOut(lead)

(* What the turn works with, against the row.                              *)
RowInv ==
    "turn" \notin late =>
    /\ turn.pc \in {"extract", "sendReformulate"} =>
          \/ turn.action = "continue" /\ turn.lead.state = lead.state
          \/ turn.action = "session_expired" /\ lead.state = "GREETING"
          \/ turn.action = "handoff_timeout_release" /\ lead.state = "HUMAN_HANDOFF"
    /\ turn.pc = "send" =>
          /\ turn.lead.state = lead.state
          /\ turn.next # "OPTED_OUT"
          /\ turn.next = "GREETING" => lead.state = "GREETING"

TurnInv == LockInv /\ ActionInv /\ HandoffInv /\ RowInv

(* What the others who speak found, unless they are late.                  *)
ManualInv == manual = "committed" /\ "manual" \notin late => lead.state = "HUMAN_HANDOFF"
UnsupportedInv == unsupported /\ "unsupported" \notin late => lead.state \notin Silenced

IInv == TypeOK /\ LateInv /\ TurnInv /\ ManualInv /\ UnsupportedInv

-----------------------------------------------------------------------------
(* Types of the operators.                                                 *)

LEMMA NewLeadType == NewLead \in Row
  BY ConversationAssumption DEF NewLead, Row, State, Active

LEMMA IdleType == ASSUME NEW l \in Row PROVE Idle(l) \in Turn
<1>1. <<>> \in Seq({"notice", "reply"}) OBVIOUS
<1> QED BY <1>1 DEF Idle, Turn, Actions, State, Active

LEMMA RepliesType == ASSUME NEW n \in Nat PROVE Replies(n) \in Seq({"notice", "reply"})
  BY DEF Replies

LEMMA GuardrailRepliesType == ASSUME NEW a PROVE guardrailReplies(a) \in Seq({"notice", "reply"})
  BY RepliesType DEF guardrailReplies

LEMMA LeadUpdateType ==
    ASSUME NEW a, NEW l \in Row, NEW row \in Row
    PROVE  leadUpdate(a, l, row) \in Row
<1> USE ConversationAssumption DEF Row, State, Active, Silenced
<1>1. CASE a = "opt_out"
  BY <1>1 DEF leadUpdate
<1>2. CASE a = "handoff"
  <2>1. 0 \in 0 .. HandoffTimeout OBVIOUS
  <2>2. leadUpdate(a, l, row) = [row EXCEPT !.state = "HUMAN_HANDOFF", !.handoffAt = 0]
    BY <1>2 DEF leadUpdate
  <2> QED BY <2>1, <2>2
<1>3. CASE a = "handoff_timeout_release"
  BY <1>3 DEF leadUpdate, resolveReleaseState
<1>4. CASE a = "session_expired"
  BY <1>4 DEF leadUpdate
<1>5. CASE a \notin {"opt_out", "handoff", "handoff_timeout_release", "session_expired"}
  BY <1>5 DEF leadUpdate
<1> QED BY <1>1, <1>2, <1>3, <1>4, <1>5

LEMMA EvaluateType == ASSUME NEW l \in Row, NEW r \in Requests PROVE evaluate(l, r) \in Actions
<1>1. CASE r = "opt_out" /\ l.state # "OPTED_OUT"
  BY <1>1 DEF evaluate, Actions, Silenced, Active
<1>2. CASE r = "handoff" /\ l.state \notin Silenced
  BY <1>2 DEF evaluate, Actions, Silenced, Active
<1>3. CASE l.state = "OPTED_OUT"
  BY <1>3 DEF evaluate, Actions, Silenced, Active
<1>4. CASE l.state = "HUMAN_HANDOFF" /\ r # "opt_out"
  BY <1>4 DEF evaluate, Actions, Silenced, Active
<1>5. CASE l.state \in Active /\ r = "other"
  BY <1>5 DEF evaluate, Actions, Silenced, Active
<1> QED BY <1>1, <1>2, <1>3, <1>4, <1>5 DEF Requests, Row, State, Silenced, Active

LEMMA DecideType == ASSUME lead \in Row, NEW r \in Requests PROVE decide(r) \in Actions
  BY EvaluateType DEF decide, Actions

Results == [next : State, shown : {"keep", "some", "none"}, greet : BOOLEAN, visit : BOOLEAN]

\* A result that neither greets again nor opts the lead out.
Onward == {r \in Results : r.next \notin {"GREETING", "OPTED_OUT"}}

LEMMA ResultType ==
    ASSUME NEW next \in State, NEW shown \in {"keep", "some", "none"}
    PROVE  Result(next, shown) \in Results /\ Result(next, shown).next = next
  BY DEF Result, Results

LEMMA QualificationType == ASSUME NEW l, NEW r \in qualificationHandle(l) PROVE r \in Onward
<1>1. PICK next \in {"QUALIFICATION", "SEARCH_MATCH"}, shown \in {"keep", "some", "none"} :
         r = Result(next, shown)
  BY DEF qualificationHandle
<1>2. next \in State
  BY DEF State, Active
<1> QED BY <1>1, <1>2, ResultType DEF Onward

LEMMA SchedulingType == enterScheduling \in Onward
  BY DEF enterScheduling, Result, Results, Onward, State, Silenced

LEMMA CommercialType == ASSUME NEW r \in commercialProcess PROVE r \in Onward
<1>1. "COMMERCIAL_QUALIFICATION" \in State
  BY DEF State, Active
<1> QED BY <1>1, ResultType, SchedulingType DEF commercialProcess, Onward

LEMMA GreetingType ==
    ASSUME NEW l \in Row, NEW r \in greetingHandle(l)
    PROVE  r \in Results /\ r.next # "OPTED_OUT"
<1>1. PICK q \in {Result("GREETING", "keep")} \cup qualificationHandle(l) :
         r = [q EXCEPT !.greet = ~l.greeted]
  BY DEF greetingHandle
<1>2. "GREETING" \in State
  BY DEF State, Active
<1>3. q \in Results /\ q.next # "OPTED_OUT"
  BY <1>2, QualificationType, ResultType DEF Onward
<1>4. l.greeted \in BOOLEAN
  BY DEF Row
<1> QED BY <1>1, <1>3, <1>4 DEF Results

(* No handler opts a lead out, and only a lead that is in GREETING stays   *)
(* there.                                                                  *)
LEMMA ResolveResultType ==
    ASSUME NEW l \in Row, NEW res \in resolveResult(l)
    PROVE  /\ res \in Results
           /\ res.next = "GREETING" => l.state = "GREETING"
           /\ res.next = "OPTED_OUT" => l.state = "OPTED_OUT"
<1>1. l.state \in State /\ "SEARCH_MATCH" \in State
  BY DEF Row, State, Active
<1>2. CASE res = Result(l.state, "keep")
  BY <1>1, <1>2, ResultType
<1>3. CASE l.state = "GREETING" /\ res \in greetingHandle(l)
  BY <1>3, GreetingType
<1>4. CASE res \in qualificationHandle(l)
  BY <1>4, QualificationType DEF Onward
<1>5. CASE res = Result("SEARCH_MATCH", "keep")
  BY <1>1, <1>5, ResultType
<1>6. CASE res \in commercialProcess
  BY <1>6, CommercialType DEF Onward
<1>7. CASE res = enterScheduling
  BY <1>7, SchedulingType DEF Onward
<1> QED
  BY <1>2, <1>3, <1>4, <1>5, <1>6, <1>7 DEF resolveResult, searchMatchHandle, commercialHandle

-----------------------------------------------------------------------------
LEMMA OvertakesType == Overtakes => (late \subseteq Speakers /\ LateInv)'
  BY DEF Overtakes, Busy, LateInv

LEMMA InitType == Init => TypeOK
<1> SUFFICES ASSUME Init PROVE TypeOK
  OBVIOUS
<1>1. lead \in Row /\ turn \in Turn
  BY NewLeadType, IdleType DEF Init
<1>2. inbox \subseteq Kinds
  BY ConversationAssumption DEF Init
<1>3. 0 \in 0 .. ServiceWindow
  BY ConversationAssumption
<1> QED BY <1>1, <1>2, <1>3 DEF Init, TypeOK

LEMMA StepType == TypeOK /\ [Next]_vars => TypeOK'
<1> SUFFICES ASSUME TypeOK, [Next]_vars PROVE TypeOK'
  OBVIOUS
<1> USE ConversationAssumption DEF TypeOK, rows, panel, history
<1>0. Idle(NewLead) \in Turn
  BY NewLeadType, IdleType
<1>1. ASSUME NEW k \in Arriving, handleMessage(k) PROVE TypeOK'
  <2>1. lead' \in Row /\ inboundAge' \in 0 .. ServiceWindow
    BY <1>1 DEF handleMessage, findOrCreateByPhone, Row
  <2> QED BY <1>1, <2>1 DEF handleMessage
<1>2. ASSUME NEW r \in Requests, BeginTurn(r) PROVE TypeOK'
  <2>1. decide(r) \in Actions
    BY DecideType
  <2>2. firstStep(decide(r)) \in {"idle", "expire", "extract", "sendStop"}
    BY DEF firstStep
  <2>3. guardrailReplies(decide(r)) \in Seq({"notice", "reply"}) /\ <<>> \in Seq({"notice", "reply"})
    BY GuardrailRepliesType
  <2>4. turn' \in Turn
    <3>1. Idle(lead) \in Turn
      BY IdleType
    <3> QED BY <1>0, <1>2, <2>1, <2>2, <2>3, <3>1 DEF BeginTurn, Turn
  <2> QED BY <1>2, <2>4 DEF BeginTurn
<1>3. CASE ExpireSession
  <2>1. turn.lead \in Row /\ turn' \in Turn
    BY <1>3 DEF ExpireSession, Turn
  <2>2. lead' \in Row
    BY <1>3, <2>1, LeadUpdateType DEF ExpireSession
  <2> QED BY <1>3, <2>1, <2>2, OvertakesType DEF ExpireSession
<1>4. CASE ExtractNothing
  <2>1. guardrailReplies(turn.action) \o <<"reply">> \in Seq({"notice", "reply"})
    BY GuardrailRepliesType
  <2>2. turn' \in Turn
    BY <1>4, <2>1 DEF ExtractNothing, Turn
  <2> QED BY <1>4, <2>2 DEF ExtractNothing
<1>5. ASSUME NEW res \in resolveResult(effectiveLead), NEW n \in 0 .. MaxReplies, Resolve(res, n)
      PROVE  TypeOK'
  <2>1. effectiveLead \in Row
    BY LeadUpdateType DEF effectiveLead, Turn
  <2>2. res \in Results
    BY <1>5, <2>1, ResolveResultType
  <2>3. lead' \in Row
    BY <1>5, <2>2 DEF Resolve, Results, Row
  <2>4. Replies(n) \in Seq({"notice", "reply"})
    BY RepliesType
  <2>5. guardrailReplies(turn.action) \in Seq({"notice", "reply"})
    BY GuardrailRepliesType
  <2>6. turn'.out \in Seq({"notice", "reply"}) /\ turn' \in Turn
    <3> DEFINE out == guardrailReplies(turn.action)
                        \o (IF res.greet THEN <<"notice">> ELSE <<>>) \o Replies(n)
    <3>1. out \in Seq({"notice", "reply"})
      <4>1. (IF res.greet THEN <<"notice">> ELSE <<>>) \in Seq({"notice", "reply"})
        <5>1. <<"notice">> \in Seq({"notice", "reply"}) /\ <<>> \in Seq({"notice", "reply"})
          OBVIOUS
        <5> QED BY <5>1, Zenon
      <4>2. ASSUME NEW s1 \in Seq({"notice", "reply"}), NEW s2 \in Seq({"notice", "reply"})
            PROVE  s1 \o s2 \in Seq({"notice", "reply"})
        OBVIOUS
      <4> QED BY <2>4, <2>5, <4>1, <4>2
    <3>2. turn' = [turn EXCEPT !.pc = "send", !.lead = lead', !.next = res.next,
                               !.greet = res.greet, !.out = out]
      BY <1>5 DEF Resolve
    <3> HIDE DEF out
    <3> QED BY <2>2, <2>3, <3>1, <3>2 DEF Turn, Results
  <2>7. openVisit' \in BOOLEAN
    BY <1>5, <2>2 DEF Resolve, Results
  <2> QED BY <1>5, <2>3, <2>6, <2>7 DEF Resolve
<1>6. CASE SendAction
  <2>1. turn.out \in Seq({"notice", "reply"}) /\ turn.out # <<>>
    BY <1>6 DEF SendAction, Turn
  <2>2. Tail(turn.out) \in Seq({"notice", "reply"})
    BY <2>1
  <2>3. turn' \in Turn
    BY <1>6, <2>2 DEF SendAction, Turn
  <2> QED BY <1>6, <2>3 DEF SendAction
<1>7. ASSUME NEW pc, NEW row \in Row, Save(pc, row) PROVE TypeOK'
  BY <1>0, <1>7, OvertakesType DEF Save, EndTurn
<1>8. CASE SaveStop \/ SaveReformulate \/ persistLeadUpdate
  <2>1. leadUpdate(turn.action, turn.lead, lead) \in Row
    BY LeadUpdateType DEF Turn
  <2>2. 0 \in 0 .. SessionExpiration /\ 0 \in 0 .. HandoffTimeout
    OBVIOUS
  <2>3. [leadUpdate(turn.action, turn.lead, lead) EXCEPT !.lastMessageAt = 0] \in Row
    BY <2>1, <2>2 DEF Row
  <2>4. [lead EXCEPT
            !.state = turn.next,
            !.lastMessageAt = 0,
            !.greeted = @ \/ (turn.greet /\ ~turn.lead.greeted),
            !.handoffAt = IF turn.next = "HUMAN_HANDOFF" /\ turn.lead.state # "HUMAN_HANDOFF"
                          THEN 0 ELSE @] \in Row
    BY <2>2 DEF Row, Turn
  <2> QED BY <1>7, <1>8, <2>1, <2>3, <2>4 DEF SaveStop, SaveReformulate, persistLeadUpdate
<1>9. CASE TurnThrows
  BY <1>0, <1>9, OvertakesType DEF TurnThrows, EndTurn, Row
<1>10. CASE respondUnsupported
  BY <1>10, OvertakesType DEF respondUnsupported, ReadUnsupported, SendUnsupported
<1>11. CASE Panel
  <2>1. resolveReleaseState(lead) \in {"QUALIFICATION", "SEARCH_MATCH"}
    BY DEF resolveReleaseState
  <2>2. /\ {"QUALIFICATION", "SEARCH_MATCH", "HUMAN_HANDOFF", "OPTED_OUT"} \subseteq State
        /\ 0 \in 0 .. HandoffTimeout
    BY DEF State, Active, Silenced
  <2>3. lead' \in Row
    BY <1>11, <2>2 DEF Panel, sendManual, CheckManual, CommitManual, SendManual, optOut,
                       ReadRelease, WriteRelease, closeVisit, Row
  <2> QED BY <1>11, <2>1, <2>3, OvertakesType
          DEF Panel, sendManual, CheckManual, CommitManual, SendManual, optOut,
              ReadRelease, WriteRelease, closeVisit
<1>12. CASE Tick
  <2>1. ASSUME NEW limit \in Nat, NEW age \in 0 .. limit \cup {Null}
        PROVE  Older(age, limit) \in 0 .. limit \cup {Null} /\ (age # Null => Older(age, limit) \in 0 .. limit)
    BY <2>1 DEF Older
  <2>2. lead' \in Row
    <3>1. /\ Older(lead.handoffAt, HandoffTimeout) \in 0 .. HandoffTimeout \cup {Null}
          /\ Older(lead.lastMessageAt, SessionExpiration) \in 0 .. SessionExpiration
      BY <2>1 DEF Row
    <3> QED BY <1>12, <3>1 DEF Tick, Row
  <2>3. inboundAge' \in 0 .. ServiceWindow
    BY <1>12, <2>1 DEF Tick
  <2> QED BY <1>12, <2>2, <2>3 DEF Tick
<1>13. CASE UNCHANGED vars
  BY <1>13 DEF vars
<1>14. CASE sendAndPersist
  <2>1. lead' \in Row BY <1>14 DEF sendAndPersist, findOrCreateByPhone, Row
  <2> QED BY <1>14, <2>1 DEF sendAndPersist
<1> QED
  BY <1>1, <1>2, <1>3, <1>4, <1>5, <1>6, <1>8, <1>9, <1>10, <1>11, <1>12, <1>13, <1>14 DEF Next, handleTurn

(* TypeOK is the type invariant of a lead's conversation.                  *)
THEOREM TypeCorrect == Spec => []TypeOK
<1> QED BY InitType, StepType, PTL DEF Spec

-----------------------------------------------------------------------------
LEMMA InitInv == Init => IInv
  BY InitType
  DEF Init, IInv, LateInv, TurnInv, LockInv, ActionInv, HandoffInv, RowInv, ManualInv, UnsupportedInv,
      NewLead, Idle

(* What the guardrails decide says something of the row they read.         *)
LEMMA EvaluateRow ==
    ASSUME NEW l \in Row, NEW r \in Requests
    PROVE  /\ l.state = "OPTED_OUT" => evaluate(l, r) = "silenced"
           /\ l.state = "HUMAN_HANDOFF" =>
                 evaluate(l, r) \in {"silenced", "opt_out", "handoff_timeout_release"}
           /\ evaluate(l, r) = "handoff_timeout_release" =>
                 l.state = "HUMAN_HANDOFF" /\ isHandoffTimedOut(l)
<1>1. CASE l.state = "OPTED_OUT"
  <2>1. evaluate(l, r) = "silenced"
    BY <1>1 DEF evaluate, Silenced, Active
  <2> QED BY <1>1, <2>1
<1>2. CASE l.state = "HUMAN_HANDOFF"
  <2>1. CASE r = "opt_out"
    <3>1. evaluate(l, r) = "opt_out"
      BY <1>2, <2>1 DEF evaluate, Silenced, Active
    <3> QED BY <1>2, <3>1
  <2>2. CASE r # "opt_out"
    <3>1. evaluate(l, r) = IF isHandoffTimedOut(l) THEN "handoff_timeout_release" ELSE "silenced"
      BY <1>2, <2>2 DEF evaluate, Silenced, Active
    <3> QED BY <1>2, <3>1
  <2> QED BY <2>1, <2>2
<1>3. CASE l.state \in Active
  <2>1. evaluate(l, r) \in {"opt_out", "handoff", "session_expired", "continue"}
    BY <1>3 DEF evaluate, Silenced, Active, Requests
  <2> QED BY <1>3, <2>1 DEF Active
<1> QED BY <1>1, <1>2, <1>3 DEF Row, State, Silenced

(* Who goes on is late from the first change that is not his own, and      *)
(* stays so.                                                               *)
LEMMA OvertakesWho ==
    ASSUME Overtakes
    PROVE  /\ \A a \in Busy' \cap late : a \in late'
           /\ lead'.state = lead.state => late' = Busy' \cap late
           /\ lead'.state # lead.state /\ UNCHANGED <<turn, manual>> => late' = Busy'
           /\ lead'.state # lead.state /\ "unsupported" \in Busy' => "unsupported" \in late'
           /\ turn' # turn => ("turn" \in late' <=> "turn" \in Busy' \cap late)
<1>1. Busy' \subseteq Speakers
  BY DEF Busy
<1>2. Busy' \cap ({"unsupported"} \cup {"turn", "manual"}) = Busy'
  BY <1>1 DEF Speakers
<1>3. lead'.state # lead.state /\ UNCHANGED <<turn, manual>> => late' = Busy'
  BY <1>2 DEF Overtakes
<1> QED BY <1>3 DEF Overtakes

LEMMA BusyWho ==
    /\ "turn" \in Busy <=> turn.pc # "idle"
    /\ "unsupported" \in Busy <=> unsupported
    /\ "manual" \in Busy <=> manual = "committed"
  BY DEF Busy, Speakers

LEMMA BusyNext ==
    /\ "turn" \in Busy' <=> turn'.pc # "idle"
    /\ "unsupported" \in Busy' <=> unsupported'
    /\ "manual" \in Busy' <=> manual' = "committed"
  BY DEF Busy, Speakers

LEMMA StepTurn == IInv /\ [Next]_vars => TurnInv'
<1> SUFFICES ASSUME TypeOK, LateInv, TurnInv, [Next]_vars PROVE TurnInv'
  BY DEF IInv
<1>0. /\ turn'.pc = "idle" => TurnInv'
      /\ EndTurn => turn'.pc = "idle"
      /\ Idle(NewLead).pc = "idle"
  BY DEF TurnInv, LockInv, ActionInv, HandoffInv, RowInv, EndTurn, Idle
\* A step that leaves the turn, the state and handoffAt alone.
<1>a. ASSUME UNCHANGED turn, lead'.state = lead.state, lead'.handoffAt = lead.handoffAt,
             turn.pc # "idle" => manual' # "committed",
             UNCHANGED late \/ Overtakes
      PROVE  TurnInv'
  <2>1. turn.pc # "idle" /\ "turn" \in late => "turn" \in late'
    BY <1>a, OvertakesWho, BusyNext
  <2> QED
    BY <1>a, <1>0, <2>1 DEF TurnInv, LockInv, ActionInv, HandoffInv, RowInv, isHandoffTimedOut
\* A step of the panel that changes the state under the turn.
<1>b. ASSUME UNCHANGED <<turn, manual>>, lead'.state # lead.state, Overtakes
      PROVE  TurnInv'
  <2>1. turn.pc # "idle" => "turn" \in late'
    BY <1>b, OvertakesWho, BusyNext
  <2> QED
    BY <1>b, <2>1 DEF TurnInv, LockInv, ActionInv, HandoffInv, RowInv
<1>1. ASSUME NEW k \in Arriving, handleMessage(k) PROVE TurnInv'
  BY <1>1, <1>a DEF handleMessage, findOrCreateByPhone, panel, history, TurnInv, LockInv, TypeOK, Row
<1>2. ASSUME NEW r \in Requests, BeginTurn(r) PROVE TurnInv'
  <2>1. UNCHANGED <<lead, panel, late>> /\ manual # "committed"
    BY <1>2 DEF BeginTurn, LockFree, history
  <2>2. CASE decide(r) = "silenced"
    BY <1>0, <1>2, <2>2 DEF BeginTurn
  <2>3. CASE decide(r) # "silenced"
    <3>1. /\ turn'.pc = firstStep(decide(r)) /\ turn'.action = decide(r) /\ turn'.lead = lead
      BY <1>2, <2>3, IdleType DEF BeginTurn, Turn, TypeOK, Idle
    <3>2. /\ lead.state # "OPTED_OUT"
          /\ lead.state = "HUMAN_HANDOFF" =>
                \/ decide(r) = "opt_out"
                \/ decide(r) = "handoff_timeout_release" /\ isHandoffTimedOut(lead)
          /\ decide(r) = "handoff_timeout_release" => lead.state = "HUMAN_HANDOFF"
      <4>1. lead \in Row
        BY DEF TypeOK
      <4>2. \/ decide(r) = evaluate(lead, r)
            \/ evaluate(lead, r) = "session_expired" /\ decide(r) = "continue"
        BY DEF decide, TypeOK
      <4> QED BY <2>3, <4>1, <4>2, EvaluateRow
    <3>3. decide(r) \in Actions
      BY DecideType DEF TypeOK
    <3>4. isHandoffTimedOut(lead)' <=> isHandoffTimedOut(lead)
      BY <2>1 DEF isHandoffTimedOut
    <3> QED
      BY <2>1, <2>3, <3>1, <3>2, <3>3, <3>4
      DEF panel, firstStep, Actions, TurnInv, LockInv, ActionInv, HandoffInv, RowInv
  <2> QED BY <2>2, <2>3
<1>3. CASE ExpireSession
  <2>1. /\ turn.pc = "expire" /\ turn.action = "session_expired"
        /\ turn'.pc = "extract" /\ turn'.action = "session_expired"
    BY <1>3 DEF ExpireSession, TypeOK, Turn, TurnInv, ActionInv
  <2>2. lead'.state = "GREETING"
    BY <1>3 DEF ExpireSession, leadUpdate, TypeOK, Row
  <2> QED
    BY <1>3, <2>1, <2>2
    DEF ExpireSession, panel, TurnInv, LockInv, ActionInv, HandoffInv, RowInv
<1>4. CASE ExtractNothing
  <2>1. turn.pc = "extract" /\ turn'.pc = "sendReformulate" /\ turn'.action = turn.action /\ turn'.lead = turn.lead
    BY <1>4 DEF ExtractNothing, TypeOK, Turn
  <2> QED
    BY <1>4, <2>1 DEF ExtractNothing, rows, panel, history, TurnInv, LockInv, ActionInv, HandoffInv, RowInv,
                      isHandoffTimedOut
<1>5. ASSUME NEW res \in resolveResult(effectiveLead), NEW n \in 0 .. MaxReplies, Resolve(res, n)
      PROVE  TurnInv'
  <2>1. /\ turn.pc = "extract"
        /\ turn'.pc = "send" /\ turn'.action = turn.action /\ turn'.lead = lead' /\ turn'.next = res.next
    BY <1>5 DEF Resolve, TypeOK, Turn
  <2>2. lead'.state = lead.state /\ lead'.handoffAt = lead.handoffAt /\ UNCHANGED <<panel, late>>
    BY <1>5 DEF Resolve, TypeOK, Row, history
  <2>3. effectiveLead \in Row
    BY LeadUpdateType DEF effectiveLead, TypeOK, Turn
  <2>4. "turn" \notin late =>
           /\ effectiveLead.state # "OPTED_OUT"
           /\ effectiveLead.state = "GREETING" => lead.state = "GREETING"
    <3> SUFFICES ASSUME "turn" \notin late
                 PROVE  /\ effectiveLead.state # "OPTED_OUT"
                        /\ effectiveLead.state = "GREETING" => lead.state = "GREETING"
      OBVIOUS
    <3>1. turn.lead \in Row
      BY DEF TypeOK, Turn
    <3>2. CASE turn.action = "continue"
      BY <2>1, <3>2 DEF effectiveLead, leadUpdate, TurnInv, LockInv, RowInv
    <3>3. CASE turn.action = "session_expired"
      BY <2>1, <3>1, <3>3 DEF effectiveLead, leadUpdate, Row, TurnInv, RowInv
    <3>4. CASE turn.action = "handoff_timeout_release"
      BY <2>1, <3>1, <3>4 DEF effectiveLead, leadUpdate, resolveReleaseState, Row
    <3> QED BY <2>1, <3>2, <3>3, <3>4 DEF TurnInv, ActionInv
  <2>5. "turn" \notin late => res.next # "OPTED_OUT" /\ (res.next = "GREETING" => lead.state = "GREETING")
    BY <2>3, <2>4, ResolveResultType
  <2> QED
    BY <2>1, <2>2, <2>5 DEF panel, TurnInv, LockInv, ActionInv, HandoffInv, RowInv, isHandoffTimedOut
<1>6. CASE SendAction
  <2>1. turn'.pc = turn.pc /\ turn'.action = turn.action /\ turn'.lead = turn.lead /\ turn'.next = turn.next
    BY <1>6 DEF SendAction, TypeOK, Turn
  <2> QED
    BY <1>6, <2>1 DEF SendAction, rows, panel, TurnInv, LockInv, ActionInv, HandoffInv, RowInv,
                      isHandoffTimedOut
<1>7. CASE SaveStop \/ SaveReformulate \/ persistLeadUpdate \/ TurnThrows
  BY <1>0, <1>7 DEF SaveStop, SaveReformulate, persistLeadUpdate, Save, TurnThrows
<1>8. CASE respondUnsupported
  BY <1>8, <1>a DEF respondUnsupported, ReadUnsupported, SendUnsupported, rows, panel, history, TurnInv, LockInv
<1>9. CASE Panel
  <2>1. CASE CheckManual \/ SendManual
    BY <1>a, <2>1 DEF CheckManual, SendManual, rows, history, TurnInv, LockInv
  <2>2. CASE CommitManual
    <3>1. CASE LockFree /\ lead.state # "OPTED_OUT"
      BY <1>0, <2>2, <3>1 DEF CommitManual, LockFree
    <3>2. CASE ~(LockFree /\ lead.state # "OPTED_OUT")
      BY <1>a, <2>2, <3>2 DEF CommitManual
    <3> QED BY <3>1, <3>2
  <2>3. CASE optOut
    BY <1>b, <2>3 DEF optOut, panel, TypeOK, Row
  <2>4. CASE ReadRelease \/ closeVisit
    BY <1>a, <2>4 DEF ReadRelease, closeVisit, rows, panel, history, TurnInv, LockInv
  <2>5. CASE WriteRelease
    <3>1. CASE lead.state = "HUMAN_HANDOFF"
      <4>1. release \in {"QUALIFICATION", "SEARCH_MATCH"}
        BY <2>5 DEF WriteRelease, TypeOK
      <4> QED BY <1>b, <2>5, <3>1, <4>1 DEF WriteRelease, TypeOK, Row
    <3>2. CASE lead.state # "HUMAN_HANDOFF"
      BY <1>a, <2>5, <3>2 DEF WriteRelease, TurnInv, LockInv
    <3> QED BY <3>1, <3>2
  <2> QED BY <1>9, <2>1, <2>2, <2>3, <2>4, <2>5 DEF Panel, sendManual
<1>10. CASE Tick
  BY <1>0, <1>10 DEF Tick, LockFree
<1>11. CASE UNCHANGED vars
  BY <1>11, <1>a DEF vars, rows, panel, history, TurnInv, LockInv
<1>12. CASE sendAndPersist
  BY <1>12, <1>a DEF sendAndPersist, findOrCreateByPhone, panel, history, TurnInv, LockInv, TypeOK, Row
<1> QED
  BY <1>1, <1>2, <1>3, <1>4, <1>5, <1>6, <1>7, <1>8, <1>9, <1>10, <1>11, <1>12
  DEF Next, handleTurn

LEMMA StepSpeakers == IInv /\ [Next]_vars => (LateInv /\ ManualInv /\ UnsupportedInv)'
<1> SUFFICES ASSUME TypeOK, LateInv, TurnInv, ManualInv, UnsupportedInv, [Next]_vars
             PROVE  LateInv' /\ ManualInv' /\ UnsupportedInv'
  BY DEF IInv
\* A step that leaves the state alone and at most ends what speaks.
<1>a. ASSUME lead'.state = lead.state,
             (UNCHANGED late /\ Busy \subseteq Busy') \/ Overtakes,
             manual' = "committed" => manual = "committed",
             unsupported' => unsupported \/ lead.state \notin Silenced
      PROVE  LateInv' /\ ManualInv' /\ UnsupportedInv'
  <2>1. LateInv'
    BY <1>a, OvertakesType DEF LateInv
  <2>2. /\ manual' = "committed" /\ "manual" \in late => "manual" \in late'
        /\ unsupported' /\ "unsupported" \in late => "unsupported" \in late'
    BY <1>a, OvertakesWho, BusyNext
  <2> QED BY <1>a, <2>1, <2>2 DEF ManualInv, UnsupportedInv
\* A step that changes the state under the adviser's message, or without one.
<1>b. ASSUME lead'.state # lead.state, Overtakes, UNCHANGED unsupported,
             manual' = "committed" =>
                lead'.state = "HUMAN_HANDOFF" \/ UNCHANGED <<turn, manual>>
      PROVE  LateInv' /\ ManualInv' /\ UnsupportedInv'
  <2>1. LateInv'
    BY <1>b, OvertakesType
  <2>2. /\ unsupported' => "unsupported" \in late'
        /\ manual' = "committed" => lead'.state = "HUMAN_HANDOFF" \/ "manual" \in late'
    BY <1>b, OvertakesWho, BusyNext
  <2> QED BY <2>1, <2>2 DEF ManualInv, UnsupportedInv
<1>1. ASSUME NEW k \in Arriving, handleMessage(k) PROVE LateInv' /\ ManualInv' /\ UnsupportedInv'
  <2>1. UNCHANGED <<late, turn, manual, unsupported>> /\ lead'.state = lead.state
    BY <1>1 DEF handleMessage, findOrCreateByPhone, panel, history, TypeOK, Row
  <2>2. Busy \subseteq Busy'
    BY <2>1 DEF Busy, Speakers
  <2> QED BY <1>a, <2>1, <2>2
<1>2. ASSUME NEW r \in Requests, BeginTurn(r) PROVE LateInv' /\ ManualInv' /\ UnsupportedInv'
  <2>1. UNCHANGED <<lead, late, manual, unsupported>> /\ turn.pc = "idle"
    BY <1>2 DEF BeginTurn, LockFree, panel, history
  <2>2. Busy \subseteq Busy'
    BY <2>1 DEF Busy, Speakers
  <2> QED BY <1>a, <2>1, <2>2
<1>3. CASE ExpireSession
  <2>1. /\ Overtakes /\ UNCHANGED <<manual, unsupported>> /\ manual # "committed"
    BY <1>3 DEF ExpireSession, panel, TurnInv, LockInv
  <2> QED BY <1>a, <1>b, <2>1
<1>4. CASE ExtractNothing \/ SendAction
  <2>1. UNCHANGED <<lead, late, manual, unsupported>> /\ (turn'.pc = "idle" => turn.pc = "idle")
    BY <1>4 DEF ExtractNothing, SendAction, rows, panel, history, TypeOK, Turn
  <2>2. Busy \subseteq Busy'
    BY <2>1 DEF Busy, Speakers
  <2> QED BY <1>a, <2>1, <2>2
<1>5. ASSUME NEW res \in resolveResult(effectiveLead), NEW n \in 0 .. MaxReplies, Resolve(res, n)
      PROVE  LateInv' /\ ManualInv' /\ UnsupportedInv'
  <2>1. UNCHANGED <<late, manual, unsupported>> /\ turn'.pc = "send" /\ lead'.state = lead.state
    BY <1>5 DEF Resolve, panel, history, TypeOK, Row, Turn
  <2>2. Busy \subseteq Busy'
    BY <2>1 DEF Busy, Speakers
  <2> QED BY <1>a, <2>1, <2>2
<1>6. CASE SaveStop \/ SaveReformulate \/ persistLeadUpdate \/ TurnThrows
  <2>1. Overtakes /\ UNCHANGED <<manual, unsupported>> /\ turn.pc # "idle"
    BY <1>6 DEF SaveStop, SaveReformulate, persistLeadUpdate, Save, TurnThrows, panel
  <2>2. manual' # "committed"
    BY <2>1 DEF TurnInv, LockInv
  <2> QED BY <1>a, <1>b, <2>1, <2>2
<1>7. CASE respondUnsupported
  <2>1. CASE ReadUnsupported
    <3>1. UNCHANGED <<lead, late, manual, turn>> /\ ~unsupported
      BY <2>1 DEF ReadUnsupported, panel, history
    <3>2. Busy \subseteq Busy'
      BY <3>1 DEF Busy, Speakers
    <3> QED BY <1>a, <2>1, <3>1, <3>2 DEF ReadUnsupported
  <2>2. CASE SendUnsupported
    BY <1>a, <2>2 DEF SendUnsupported, rows, panel
  <2> QED BY <1>7, <2>1, <2>2 DEF respondUnsupported
<1>8. CASE Panel
  <2>1. CASE CheckManual
    <3>1. UNCHANGED <<lead, late, turn, unsupported>> /\ manual = "idle" /\ manual' = "checked"
      BY <2>1 DEF CheckManual, rows, history
    <3>2. Busy \subseteq Busy'
      BY <3>1 DEF Busy, Speakers
    <3> QED BY <1>a, <3>1, <3>2
  <2>2. CASE CommitManual
    <3>1. CASE LockFree /\ lead.state # "OPTED_OUT"
      <4>1. /\ lead'.state = "HUMAN_HANDOFF" /\ Overtakes /\ UNCHANGED unsupported
        BY <2>2, <3>1 DEF CommitManual, TypeOK, Row
      <4>2. CASE lead.state = "HUMAN_HANDOFF"
        <5>1. unsupported' /\ "unsupported" \in late => "unsupported" \in late'
          BY <4>1, OvertakesWho, BusyNext
        <5> QED BY <4>1, <4>2, <5>1, OvertakesType DEF ManualInv, UnsupportedInv
      <4> QED BY <1>b, <4>1, <4>2
    <3>2. CASE ~(LockFree /\ lead.state # "OPTED_OUT")
      BY <1>a, <2>2, <3>2 DEF CommitManual
    <3> QED BY <3>1, <3>2
  <2>3. CASE SendManual
    BY <1>a, <2>3 DEF SendManual, rows
  <2>4. CASE optOut
    BY <1>b, <2>4 DEF optOut, panel, TypeOK, Row
  <2>5. CASE WriteRelease
    <3>1. CASE lead.state = "HUMAN_HANDOFF"
      <4>1. release \in {"QUALIFICATION", "SEARCH_MATCH"}
        BY <2>5 DEF WriteRelease, TypeOK
      <4> QED BY <1>b, <2>5, <3>1, <4>1 DEF WriteRelease, TypeOK, Row
    <3>2. CASE lead.state # "HUMAN_HANDOFF"
      BY <1>a, <2>5, <3>2 DEF WriteRelease
    <3> QED BY <3>1, <3>2
  <2>6. CASE ReadRelease \/ closeVisit
    <3>1. UNCHANGED <<lead, late, turn, manual, unsupported>>
      BY <2>6 DEF ReadRelease, closeVisit, rows, panel, history
    <3>2. Busy \subseteq Busy'
      BY <3>1 DEF Busy, Speakers
    <3> QED BY <1>a, <3>1, <3>2
  <2> QED BY <1>8, <2>1, <2>2, <2>3, <2>4, <2>5, <2>6 DEF Panel, sendManual
<1>9. CASE Tick \/ sendAndPersist
  <2>1. UNCHANGED <<late, turn, manual, unsupported>> /\ lead'.state = lead.state
    BY <1>9 DEF Tick, sendAndPersist, findOrCreateByPhone, panel, history, TypeOK, Row
  <2>2. Busy \subseteq Busy'
    BY <2>1 DEF Busy, Speakers
  <2> QED BY <1>a, <2>1, <2>2
<1>10. CASE UNCHANGED vars
  <2>1. UNCHANGED <<lead, late, turn, manual, unsupported>>
    BY <1>10 DEF vars, rows, panel, history
  <2>2. Busy \subseteq Busy'
    BY <2>1 DEF Busy, Speakers
  <2> QED BY <1>a, <2>1, <2>2
<1> QED
  BY <1>1, <1>2, <1>3, <1>4, <1>5, <1>6, <1>7, <1>8, <1>9, <1>10 DEF Next, handleTurn

LEMMA AlwaysInv == Spec => []IInv
<1>1. IInv /\ [Next]_vars => IInv'
  BY StepType, StepTurn, StepSpeakers DEF IInv
<1> QED BY <1>1, InitInv, PTL DEF Spec

(* A lead in human hands keeps the date the 48 hours count from: only a    *)
(* turn that the panel overtook can leave it there without one.            *)
THEOREM HandoffStaysDated ==
    Spec => [][HandoffDated => HandoffDated' \/ "turn" \in late]_vars
<1>1. IInv /\ [Next]_vars => [HandoffDated => HandoffDated' \/ "turn" \in late]_vars
  <2> SUFFICES ASSUME TypeOK, TurnInv, Next, HandoffDated, "turn" \notin late PROVE HandoffDated'
    BY DEF IInv
  <2> USE DEF HandoffDated
  <2>a. ASSUME lead'.state = lead.state, lead'.handoffAt = lead.handoffAt PROVE HandoffDated'
    BY <2>a
  <2>1. ASSUME NEW k \in Arriving, handleMessage(k) PROVE HandoffDated'
    BY <2>1, <2>a DEF handleMessage, findOrCreateByPhone, TypeOK, Row
  <2>2. ASSUME UNCHANGED lead PROVE HandoffDated'
    BY <2>2
  <2>3. CASE ExpireSession
    <3>1. lead'.state = "GREETING"
      BY <2>3 DEF ExpireSession, leadUpdate, TypeOK, Row
    <3> QED BY <3>1
  <2>4. ASSUME NEW res \in resolveResult(effectiveLead), NEW n \in 0 .. MaxReplies, Resolve(res, n)
        PROVE  HandoffDated'
    BY <2>4, <2>a DEF Resolve, TypeOK, Row
  <2>5. CASE SaveStop
    <3>1. turn.action \in {"opt_out", "handoff"} /\ lead' = leadUpdate(turn.action, turn.lead, lead)
      BY <2>5 DEF SaveStop, Save, TurnInv, ActionInv
    <3> QED BY <3>1, ConversationAssumption DEF leadUpdate, TypeOK, Row
  <2>6. CASE SaveReformulate
    <3>1. /\ turn.action \in {"handoff_timeout_release", "session_expired", "continue"}
          /\ lead' = [leadUpdate(turn.action, turn.lead, lead) EXCEPT !.lastMessageAt = 0]
      BY <2>6 DEF SaveReformulate, Save, TurnInv, ActionInv
    <3>2. leadUpdate(turn.action, turn.lead, lead) \in Row
      BY LeadUpdateType DEF TypeOK, Turn
    <3>3. lead'.state = leadUpdate(turn.action, turn.lead, lead).state
          /\ lead'.handoffAt = leadUpdate(turn.action, turn.lead, lead).handoffAt
      BY <3>1, <3>2 DEF Row
    <3> QED BY <3>1, <3>3 DEF leadUpdate, resolveReleaseState, TypeOK, Row
  <2>7. CASE persistLeadUpdate
    <3>1. /\ lead'.state = turn.next /\ turn.lead.state = lead.state
          /\ lead'.handoffAt = IF turn.next = "HUMAN_HANDOFF" /\ turn.lead.state # "HUMAN_HANDOFF"
                               THEN 0 ELSE lead.handoffAt
      BY <2>7 DEF persistLeadUpdate, Save, TypeOK, Row, TurnInv, RowInv
    <3> QED BY <3>1, ConversationAssumption
  <2>8. CASE Panel
    <3>1. CASE CheckManual \/ SendManual \/ ReadRelease \/ closeVisit
      BY <2>2, <3>1 DEF CheckManual, SendManual, ReadRelease, closeVisit, rows
    <3>2. CASE CommitManual
      <4>1. UNCHANGED lead \/ lead' = [lead EXCEPT !.state = "HUMAN_HANDOFF", !.handoffAt = 0]
        BY <3>2 DEF CommitManual
      <4>2. lead' = [lead EXCEPT !.state = "HUMAN_HANDOFF", !.handoffAt = 0] => lead'.handoffAt = 0
        BY DEF TypeOK, Row
      <4>3. 0 # Null
        BY ConversationAssumption
      <4> QED BY <2>2, <4>1, <4>2, <4>3
    <3>3. CASE optOut
      BY <3>3 DEF optOut, TypeOK, Row
    <3>4. CASE WriteRelease
      <4>1. UNCHANGED lead \/ lead'.state \in {"QUALIFICATION", "SEARCH_MATCH"}
        BY <3>4 DEF WriteRelease, TypeOK, Row
      <4> QED BY <2>2, <4>1
    <3> QED BY <2>8, <3>1, <3>2, <3>3, <3>4 DEF Panel, sendManual
  <2>9. CASE Tick
    <3>1. lead'.state = lead.state /\ lead'.handoffAt = Older(lead.handoffAt, HandoffTimeout)
      BY <2>9 DEF Tick, TypeOK, Row
    <3>2. lead.handoffAt # Null => Older(lead.handoffAt, HandoffTimeout) # Null
      BY ConversationAssumption DEF Older, TypeOK, Row
    <3> QED BY <3>1, <3>2
  <2>10. CASE sendAndPersist
    BY <2>10, <2>a DEF sendAndPersist, findOrCreateByPhone, TypeOK, Row
  <2>11. CASE respondUnsupported
    BY <2>2, <2>11 DEF respondUnsupported, ReadUnsupported, SendUnsupported, rows
  <2>12. CASE handleTurn
    BY <2>2, <2>3, <2>4, <2>5, <2>6, <2>7, <2>12
    DEF handleTurn, BeginTurn, ExtractNothing, SendAction, TurnThrows, rows
  <2> QED BY <2>1, <2>8, <2>9, <2>10, <2>11, <2>12 DEF Next
<1> QED BY <1>1, AlwaysInv, PTL DEF Spec

-----------------------------------------------------------------------------
(* One step of the conversation leaves OPTED_OUT only from a late turn: no *)
(* turn begins on such a lead, and the panel writes where the state is     *)
(* another.                                                                *)
LEMMA StepOptOut ==
    IInv /\ [Next]_vars => (lead.state = "OPTED_OUT" => lead'.state = "OPTED_OUT" \/ "turn" \in late)
<1> SUFFICES ASSUME TypeOK, LockInv, [Next]_vars, lead.state = "OPTED_OUT", "turn" \notin late
             PROVE  lead'.state = "OPTED_OUT"
  BY DEF IInv, TurnInv
<1>1. turn.pc = "idle"
  BY DEF LockInv
<1>2. ASSUME NEW k \in Arriving, handleMessage(k) PROVE lead'.state = "OPTED_OUT"
  BY <1>2 DEF handleMessage, findOrCreateByPhone, TypeOK, Row
<1>3. CASE handleTurn
  <2>1. UNCHANGED lead
    BY <1>1, <1>3
    DEF handleTurn, BeginTurn, ExpireSession, ExtractNothing, Resolve, SendAction, SaveStop,
        SaveReformulate, persistLeadUpdate, Save, TurnThrows, rows
  <2> QED BY <2>1
<1>4. CASE respondUnsupported
  BY <1>4 DEF respondUnsupported, ReadUnsupported, SendUnsupported, rows
<1>5. CASE Panel
  BY <1>5 DEF Panel, sendManual, CheckManual, CommitManual, SendManual, optOut,
              ReadRelease, WriteRelease, closeVisit, rows
<1>6. CASE Tick
  BY <1>6 DEF Tick, TypeOK, Row
<1>7. CASE UNCHANGED vars
  BY <1>7 DEF vars, rows
<1>8. CASE sendAndPersist
  BY <1>8 DEF sendAndPersist, findOrCreateByPhone, TypeOK, Row
<1> QED BY <1>2, <1>3, <1>4, <1>5, <1>6, <1>7, <1>8 DEF Next

(* UndoneOnlyByLateTurn: whatever interleaves or throws, an opt-out is     *)
(* undone by nothing but a turn that had read the row before it.           *)
THEOREM OptOutFinal == Spec => UndoneOnlyByLateTurn
<1>1. IInv /\ [Next]_vars =>
         [lead.state = "OPTED_OUT" => lead'.state = "OPTED_OUT" \/ "turn" \in late]_vars
  BY StepOptOut
<1> QED BY <1>1, AlwaysInv, PTL DEF Spec, UndoneOnlyByLateTurn

-----------------------------------------------------------------------------
(* Only a turn in progress has something to send.                          *)
OutInv == turn.pc = "idle" => turn.out = <<>>

LEMMA StepOut == TypeOK /\ OutInv /\ [Next]_vars => OutInv'
<1> SUFFICES ASSUME TypeOK, OutInv, [Next]_vars PROVE OutInv'
  OBVIOUS
<1> USE DEF OutInv
<1>0. EndTurn => OutInv'
  BY DEF EndTurn, Idle
<1>1. ASSUME UNCHANGED turn PROVE OutInv'
  BY <1>1
<1>2. ASSUME NEW r \in Requests, BeginTurn(r) PROVE OutInv'
  <2>1. CASE decide(r) = "silenced"
    BY <1>2, <2>1 DEF BeginTurn, Idle
  <2>2. CASE decide(r) # "silenced"
    <3>1. turn'.pc = firstStep(decide(r))
      BY <1>2, <2>2 DEF BeginTurn, Idle
    <3>2. firstStep(decide(r)) # "idle"
      BY <2>2 DEF firstStep
    <3> QED BY <3>1, <3>2
  <2> QED BY <2>1, <2>2
<1>3. CASE ExpireSession \/ ExtractNothing \/ SendAction
           \/ \E res \in resolveResult(effectiveLead), n \in 0 .. MaxReplies : Resolve(res, n)
  BY <1>3 DEF ExpireSession, ExtractNothing, SendAction, Resolve, TypeOK, Turn
<1>4. CASE SaveStop \/ SaveReformulate \/ persistLeadUpdate \/ TurnThrows
  BY <1>0, <1>4 DEF SaveStop, SaveReformulate, persistLeadUpdate, Save, TurnThrows
<1>5. CASE handleTurn
  BY <1>2, <1>3, <1>4, <1>5 DEF handleTurn
<1>6. CASE ~handleTurn
  BY <1>1, <1>6
  DEF Next, handleMessage, respondUnsupported, ReadUnsupported, SendUnsupported, sendAndPersist, Panel,
      sendManual, CheckManual, CommitManual, SendManual, optOut, ReadRelease, WriteRelease, closeVisit, Tick,
      rows, vars
<1> QED BY <1>5, <1>6

(* SpeaksUnlessOvertaken: whatever happens between the reading of the row  *)
(* and an enqueue of the turn, of the answer without text or of the        *)
(* adviser, the row still lets it, unless the panel changed the state.     *)
THEOREM SpeakOnlyWhenAllowed == Spec => SpeaksUnlessOvertaken
<1>1. Init => OutInv
  BY DEF Init, OutInv, Idle
<1>2. IInv /\ OutInv =>
         [/\ BotSends /\ "turn" \notin late =>
               /\ lead.state # "OPTED_OUT"
               /\ lead.state = "HUMAN_HANDOFF" => turn.action = "opt_out" \/ isHandoffTimedOut(lead)
          /\ unsupported /\ ~unsupported' /\ "unsupported" \notin late => lead.state \notin Silenced
          /\ manual = "committed" /\ manual' = "idle" /\ "manual" \notin late =>
               lead.state = "HUMAN_HANDOFF"]_vars
  BY DEF IInv, TurnInv, LockInv, HandoffInv, ManualInv, UnsupportedInv, OutInv, BotSends
<1>3. IInv /\ OutInv /\ [Next]_vars => OutInv'
  BY StepOut DEF IInv
<1> QED BY <1>1, <1>2, <1>3, AlwaysInv, PTL DEF Spec, SpeaksUnlessOvertaken

-----------------------------------------------------------------------------
(* The conversation implements its lifecycle.                              *)

quiet == IF lead.state = "HUMAN_HANDOFF" /\ lead.handoffAt # Null
         THEN lead.handoffAt ELSE HandoffTimeout

overtaken == "turn" \in late

LEMMA StepLifecycle ==
    IInv /\ IInv' /\ [Next]_vars => [Lifecycle!Next]_<<lead.state, quiet, overtaken>>
<1> SUFFICES ASSUME TypeOK, LateInv, TurnInv, TypeOK', LateInv', [Next]_vars
             PROVE  [Lifecycle!Next]_<<lead.state, quiet, overtaken>>
  BY DEF IInv
<1>0. Lifecycle!Active = Active /\ Lifecycle!State = State
  BY DEF Lifecycle!Active, Lifecycle!Silenced, Lifecycle!State, Active, Silenced, State
<1>p. quiet' = IF lead'.state = "HUMAN_HANDOFF" /\ lead'.handoffAt # Null
               THEN lead'.handoffAt ELSE HandoffTimeout
  BY DEF quiet
<1>q. isHandoffTimedOut(lead) => quiet = HandoffTimeout
  BY DEF isHandoffTimedOut, quiet
\* A turn that is late writes what it likes.
<1>o. ASSUME "turn" \in late PROVE Lifecycle!Next
  <2>1. lead'.state \in State /\ quiet' \in 0 .. HandoffTimeout /\ overtaken' \in BOOLEAN
    BY <1>p, ConversationAssumption DEF TypeOK, Row, overtaken
  <2> QED BY <1>0, <1>o, <2>1 DEF Lifecycle!Next, Lifecycle!Outrun, overtaken, quiet
\* The others' part in Overtakes, when the state does not change.
<1>a. ASSUME lead'.state = lead.state, lead'.handoffAt = lead.handoffAt, UNCHANGED turn,
             UNCHANGED late \/ Overtakes
      PROVE  [Lifecycle!Next]_<<lead.state, quiet, overtaken>>
  <2>1. overtaken' = overtaken
    <3>1. CASE UNCHANGED late
      BY <3>1 DEF overtaken
    <3>2. CASE Overtakes
      <4>1. ("turn" \in late') = ("turn" \in late)
        BY <1>a, <3>2, OvertakesWho, BusyWho, BusyNext DEF LateInv
      <4> QED BY <4>1 DEF overtaken
    <3> QED BY <1>a, <3>1, <3>2
  <2>2. quiet' = quiet
    BY <1>a DEF quiet
  <2> QED BY <1>a, <2>1, <2>2
\* What ends a turn that is not late, or keeps another going.
<1>k. ASSUME "turn" \notin late, Overtakes, turn' # turn PROVE overtaken' = overtaken
  <2>1. "turn" \notin late'
    BY <1>k, OvertakesWho
  <2> QED BY <1>k, <2>1 DEF overtaken
<1>b. ASSUME lead'.state = "HUMAN_HANDOFF", lead'.handoffAt = 0, lead.state # "OPTED_OUT",
             overtaken' = overtaken
      PROVE  Lifecycle!Next
  BY <1>b, <1>p, ConversationAssumption DEF Lifecycle!Next, Lifecycle!HandOff, overtaken, quiet
<1>c. ASSUME lead.state # "OPTED_OUT", lead'.state = "OPTED_OUT"
      PROVE  Lifecycle!Next
  <2>1. quiet' = HandoffTimeout /\ overtaken' \in BOOLEAN
    BY <1>c, <1>p DEF overtaken
  <2> QED BY <1>c, <2>1 DEF Lifecycle!Next, Lifecycle!OptOut, overtaken, quiet
\* The bot moves a lead that is not in human hands, or takes it back in time.
<1>d. ASSUME lead'.state \in Active \ {"GREETING"}, lead.state # "OPTED_OUT",
             lead.state = "HUMAN_HANDOFF" => isHandoffTimedOut(lead), overtaken' = overtaken
      PROVE  Lifecycle!Next
  <2>1. lead.state \in Active \/ lead.state = "HUMAN_HANDOFF"
    BY <1>d DEF TypeOK, Row, State, Silenced
  <2>2. quiet' = HandoffTimeout
    BY <1>d, <1>p DEF Active
  <2>3. CASE lead.state \in Active
    <3>1. quiet = HandoffTimeout
      BY <2>3 DEF Active, quiet
    <3> QED BY <1>d, <1>0, <2>2, <2>3, <3>1 DEF Lifecycle!Next, Lifecycle!Converse, overtaken, quiet
  <2>4. CASE lead.state = "HUMAN_HANDOFF"
    <3>1. quiet = HandoffTimeout
      BY <1>d, <1>q, <2>4
    <3> QED BY <1>d, <1>0, <2>2, <2>4, <3>1 DEF Lifecycle!Next, Lifecycle!Resume, overtaken, quiet
  <2> QED BY <2>1, <2>3, <2>4
<1>e. ASSUME lead.state \in Active, lead'.state = "GREETING", overtaken' = overtaken
      PROVE  Lifecycle!Next
  <2>1. quiet = HandoffTimeout /\ quiet' = HandoffTimeout
    BY <1>e, <1>p DEF Active, quiet
  <2> QED BY <1>e, <1>0, <2>1 DEF Lifecycle!Next, Lifecycle!Restart, overtaken, quiet
\* Nothing changes but who is still in time.
<1>f. ASSUME lead'.state = lead.state, lead'.handoffAt = lead.handoffAt, overtaken' = overtaken
      PROVE  [Lifecycle!Next]_<<lead.state, quiet, overtaken>>
  BY <1>f DEF quiet
<1>1. ASSUME NEW k \in Arriving, handleMessage(k)
      PROVE  [Lifecycle!Next]_<<lead.state, quiet, overtaken>>
  BY <1>1, <1>a DEF handleMessage, findOrCreateByPhone, history, TypeOK, Row
<1>2. ASSUME UNCHANGED <<lead, late>> PROVE [Lifecycle!Next]_<<lead.state, quiet, overtaken>>
  BY <1>2, <1>f DEF overtaken
<1>3. ASSUME ExpireSession, "turn" \notin late PROVE [Lifecycle!Next]_<<lead.state, quiet, overtaken>>
  <2>1. /\ turn.pc = "expire" /\ turn.action = "session_expired" /\ lead'.state = "GREETING"
        /\ turn' # turn /\ Overtakes
    BY <1>3 DEF ExpireSession, leadUpdate, TypeOK, Row, Turn, TurnInv, ActionInv
  <2>2. lead.state \notin Silenced
    BY <1>3, <2>1 DEF Silenced, TurnInv, LockInv, HandoffInv
  <2>3. lead.state \in Active
    BY <2>2 DEF TypeOK, Row, State
  <2> QED BY <1>3, <1>e, <1>k, <2>1, <2>3
<1>4. ASSUME NEW res \in resolveResult(effectiveLead), NEW n \in 0 .. MaxReplies, Resolve(res, n)
      PROVE  [Lifecycle!Next]_<<lead.state, quiet, overtaken>>
  BY <1>4, <1>f DEF Resolve, history, overtaken, TypeOK, Row
<1>5. ASSUME SaveStop, "turn" \notin late PROVE [Lifecycle!Next]_<<lead.state, quiet, overtaken>>
  <2>1. /\ turn.pc = "sendStop" /\ turn.action \in {"opt_out", "handoff"}
        /\ lead' = leadUpdate(turn.action, turn.lead, lead) /\ lead.state # "OPTED_OUT"
    BY <1>5 DEF SaveStop, Save, TurnInv, ActionInv, LockInv
  <2>2. overtaken' = overtaken
    BY <1>5, <1>k, <2>1 DEF SaveStop, Save, EndTurn, Idle
  <2>3. CASE turn.action = "opt_out"
    BY <1>c, <2>1, <2>3 DEF leadUpdate, TypeOK, Row
  <2>4. CASE turn.action = "handoff"
    BY <1>b, <2>1, <2>2, <2>4 DEF leadUpdate, TypeOK, Row
  <2> QED BY <2>1, <2>3, <2>4
<1>6. ASSUME SaveReformulate, "turn" \notin late
      PROVE  [Lifecycle!Next]_<<lead.state, quiet, overtaken>>
  <2>1. /\ turn.pc = "sendReformulate" /\ lead.state # "OPTED_OUT"
        /\ turn.action \in {"handoff_timeout_release", "session_expired", "continue"}
        /\ lead' = [leadUpdate(turn.action, turn.lead, lead) EXCEPT !.lastMessageAt = 0]
    BY <1>6 DEF SaveReformulate, Save, TurnInv, ActionInv, LockInv
  <2>2. overtaken' = overtaken
    BY <1>6, <1>k, <2>1 DEF SaveReformulate, Save, EndTurn, Idle
  <2>3. CASE turn.action = "continue"
    BY <1>f, <2>1, <2>2, <2>3 DEF leadUpdate, TypeOK, Row
  <2>4. CASE turn.action = "session_expired"
    BY <1>6, <1>f, <2>1, <2>2, <2>4 DEF leadUpdate, TypeOK, Row, TurnInv, RowInv
  <2>5. CASE turn.action = "handoff_timeout_release"
    <3>1. lead'.state \in {"QUALIFICATION", "SEARCH_MATCH"}
      BY <2>1, <2>5 DEF leadUpdate, resolveReleaseState, TypeOK, Row
    <3>2. lead.state = "HUMAN_HANDOFF" => isHandoffTimedOut(lead)
      BY <1>6, <2>1, <2>5 DEF TurnInv, HandoffInv
    <3> QED BY <1>d, <2>1, <2>2, <3>1, <3>2 DEF Active
  <2> QED BY <2>1, <2>3, <2>4, <2>5
<1>7. ASSUME persistLeadUpdate, "turn" \notin late
      PROVE  [Lifecycle!Next]_<<lead.state, quiet, overtaken>>
  <2>1. /\ turn.pc = "send" /\ lead.state # "OPTED_OUT" /\ turn.lead.state = lead.state
        /\ turn.next # "OPTED_OUT" /\ (turn.next = "GREETING" => lead.state = "GREETING")
        /\ turn.action \in {"handoff_timeout_release", "session_expired", "continue"}
    BY <1>7 DEF persistLeadUpdate, Save, TurnInv, ActionInv, LockInv, RowInv
  <2>2. /\ lead'.state = turn.next
        /\ lead'.handoffAt = IF turn.next = "HUMAN_HANDOFF" /\ turn.lead.state # "HUMAN_HANDOFF"
                             THEN 0 ELSE lead.handoffAt
    BY <1>7 DEF persistLeadUpdate, Save, TypeOK, Row
  <2>3. lead.state = "HUMAN_HANDOFF" => isHandoffTimedOut(lead)
    BY <1>7, <2>1 DEF TurnInv, HandoffInv
  <2>4. overtaken' = overtaken
    BY <1>7, <1>k, <2>1 DEF persistLeadUpdate, Save, EndTurn, Idle
  <2>5. CASE turn.next = "HUMAN_HANDOFF"
    BY <1>f, <1>b, <2>1, <2>2, <2>4, <2>5
  <2>6. CASE turn.next = "GREETING"
    BY <1>f, <2>1, <2>2, <2>4, <2>6
  <2>7. CASE turn.next \notin {"HUMAN_HANDOFF", "GREETING"}
    <3>1. turn.next \in Active \ {"GREETING"}
      BY <2>1, <2>7 DEF TypeOK, Turn, State, Silenced
    <3> QED BY <1>d, <2>1, <2>2, <2>3, <2>4, <3>1
  <2> QED BY <2>5, <2>6, <2>7
<1>8. CASE Panel
  <2>1. CASE CommitManual
    <3>1. CASE LockFree /\ lead.state # "OPTED_OUT"
      <4>1. turn.pc = "idle" /\ turn' = turn
        BY <2>1, <3>1 DEF CommitManual, LockFree
      <4>2. "turn" \notin late /\ "turn" \notin late'
        BY <4>1, BusyWho, BusyNext DEF LateInv
      <4>3. overtaken' = overtaken
        BY <4>2 DEF overtaken
      <4> QED BY <1>b, <2>1, <3>1, <4>3 DEF CommitManual, TypeOK, Row
    <3>2. CASE ~(LockFree /\ lead.state # "OPTED_OUT")
      BY <1>a, <2>1, <3>2 DEF CommitManual
    <3> QED BY <3>1, <3>2
  <2>2. CASE optOut
    BY <1>c, <2>2 DEF optOut, TypeOK, Row
  <2>3. CASE WriteRelease
    <3>1. CASE lead.state = "HUMAN_HANDOFF"
      <4>1. lead'.state \in {"QUALIFICATION", "SEARCH_MATCH"}
        BY <2>3, <3>1 DEF WriteRelease, TypeOK, Row
      <4>2. quiet' = HandoffTimeout /\ overtaken' \in BOOLEAN
        BY <1>p, <4>1 DEF overtaken
      <4> QED BY <3>1, <4>1, <4>2 DEF Lifecycle!Next, Lifecycle!Release, overtaken, quiet
    <3>2. CASE lead.state # "HUMAN_HANDOFF"
      BY <1>a, <2>3, <3>2 DEF WriteRelease
    <3> QED BY <3>1, <3>2
  <2>4. CASE SendManual
    BY <1>a, <2>4 DEF SendManual, rows
  <2>5. CASE CheckManual \/ ReadRelease \/ closeVisit
    BY <1>2, <2>5 DEF CheckManual, ReadRelease, closeVisit, rows, history
  <2> QED BY <1>8, <2>1, <2>2, <2>3, <2>4, <2>5 DEF Panel, sendManual
<1>9. CASE Tick
  <2>1. /\ lead'.state = lead.state /\ lead'.handoffAt = Older(lead.handoffAt, HandoffTimeout)
        /\ overtaken' = overtaken
    BY <1>9 DEF Tick, history, overtaken, TypeOK, Row
  <2>2. CASE lead.handoffAt \in {Null, HandoffTimeout}
    BY <1>f, <2>1, <2>2 DEF Older
  <2>3. CASE lead.state # "HUMAN_HANDOFF"
    BY <2>1, <2>3 DEF quiet
  <2>4. CASE lead.state = "HUMAN_HANDOFF" /\ lead.handoffAt \notin {Null, HandoffTimeout}
    <3>1. lead.handoffAt \in Nat /\ lead.handoffAt < HandoffTimeout /\ lead'.handoffAt = lead.handoffAt + 1
      BY <2>1, <2>4, ConversationAssumption DEF Older, TypeOK, Row
    <3>2. lead'.handoffAt # Null
      BY <3>1, ConversationAssumption
    <3>3. quiet = lead.handoffAt /\ quiet' = quiet + 1
      BY <1>p, <2>1, <2>4, <3>1, <3>2 DEF quiet
    <3> QED BY <2>1, <3>1, <3>3 DEF Lifecycle!Next, Lifecycle!Tick, overtaken, quiet
  <2> QED BY <2>2, <2>3, <2>4
<1>10. CASE UNCHANGED vars
  BY <1>2, <1>10 DEF vars, rows, history
<1>11. ASSUME TurnThrows, "turn" \notin late PROVE [Lifecycle!Next]_<<lead.state, quiet, overtaken>>
  BY <1>11, <1>f, <1>k DEF TurnThrows, rows, EndTurn, Idle
<1>12. CASE handleTurn
  BY <1>2, <1>o, <1>3, <1>4, <1>5, <1>6, <1>7, <1>11, <1>12
  DEF handleTurn, BeginTurn, ExtractNothing, SendAction, rows, history
<1>13. CASE respondUnsupported
  BY <1>2, <1>a, <1>13 DEF respondUnsupported, ReadUnsupported, SendUnsupported, rows, history
<1>14. CASE sendAndPersist
  BY <1>14, <1>a DEF sendAndPersist, findOrCreateByPhone, history, TypeOK, Row
<1> QED
  BY <1>1, <1>8, <1>9, <1>10, <1>12, <1>13, <1>14 DEF Next

(* FollowsLifecycle: every step of turns, messages, panel and clock is a   *)
(* step of the lead's lifecycle or leaves it alone, with optOut and        *)
(* release inside the turns.                                               *)
THEOREM ImplementsLifecycle == Spec => FollowsLifecycle
<1>1. Init => Lifecycle!Init
  BY DEF Init, NewLead, Lifecycle!Init
<1>2. IInv /\ IInv' /\ [Next]_vars => [Lifecycle!Next]_<<lead.state, quiet, overtaken>>
  BY StepLifecycle
<1> QED
  BY <1>1, <1>2, AlwaysInv, PTL
  DEF Spec, FollowsLifecycle, Lifecycle!Spec, Lifecycle!vars, quiet, overtaken

-----------------------------------------------------------------------------
(* The notice.                                                             *)

NoNotice(s)  == \A i \in 1 .. Len(s) : s[i] # "notice"
OneNotice(s) == \A i, j \in 1 .. Len(s) : s[i] = "notice" /\ s[j] = "notice" => i = j

(* The notice has been sent in this session: either the row says so, or    *)
(* the turn that sent it is about to write it.  Nothing but the turn       *)
(* writes greetedAt, so the turn still sees what the row holds.            *)
NoticeInv ==
    /\ noticed => \/ lead.greeted
                  \/ turn.pc = "send" /\ turn.greet /\ NoNotice(turn.out)
    /\ turn.pc # "send" => NoNotice(turn.out)
    /\ turn.pc \in {"extract", "sendReformulate"} =>
          IF turn.action = "session_expired" THEN ~noticed /\ ~lead.greeted
                                             ELSE turn.lead.greeted = lead.greeted
    /\ turn.pc = "send" =>
          /\ turn.lead.greeted = lead.greeted
          /\ turn.greet => ~lead.greeted
          /\ OneNotice(turn.out)
          /\ ~NoNotice(turn.out) => turn.greet /\ ~noticed

GreetInv == IInv /\ NoticeInv

LEMMA NoticeTail ==
    ASSUME NEW s \in Seq({"notice", "reply"}), s # <<>>
    PROVE  /\ NoNotice(s) => NoNotice(Tail(s))
           /\ OneNotice(s) => OneNotice(Tail(s))
           /\ OneNotice(s) /\ Head(s) = "notice" => NoNotice(Tail(s))
           /\ NoNotice(Tail(s)) /\ Head(s) # "notice" => NoNotice(s)
           /\ Head(s) = "notice" => ~NoNotice(s)
<1>1. /\ Len(s) \in Nat \ {0} /\ Len(Tail(s)) = Len(s) - 1 /\ Head(s) = s[1]
      /\ \A i \in 1 .. Len(Tail(s)) : Tail(s)[i] = s[i + 1]
  OBVIOUS
<1>2. NoNotice(s) => NoNotice(Tail(s))
  BY <1>1 DEF NoNotice
<1>3. OneNotice(s) => OneNotice(Tail(s))
  <2>1. SUFFICES ASSUME OneNotice(s), NEW i \in 1 .. Len(Tail(s)), NEW j \in 1 .. Len(Tail(s)),
                        Tail(s)[i] = "notice", Tail(s)[j] = "notice"
                 PROVE  i = j
    BY DEF OneNotice
  <2>2. /\ i + 1 \in 1 .. Len(s) /\ j + 1 \in 1 .. Len(s)
        /\ s[i + 1] = "notice" /\ s[j + 1] = "notice"
    BY <1>1, <2>1
  <2>3. i + 1 = j + 1
    BY <2>1, <2>2 DEF OneNotice
  <2> QED BY <2>3
<1>4. OneNotice(s) /\ Head(s) = "notice" => NoNotice(Tail(s))
  <2>1. SUFFICES ASSUME OneNotice(s), s[1] = "notice", NEW i \in 1 .. Len(Tail(s)),
                        Tail(s)[i] = "notice"
                 PROVE  FALSE
    BY <1>1 DEF NoNotice
  <2>2. 1 \in 1 .. Len(s) /\ i + 1 \in 1 .. Len(s) /\ s[i + 1] = "notice"
    BY <1>1, <2>1
  <2>3. i + 1 = 1
    BY <2>1, <2>2 DEF OneNotice
  <2> QED BY <2>3
<1>5. NoNotice(Tail(s)) /\ Head(s) # "notice" => NoNotice(s)
  <2>1. SUFFICES ASSUME NoNotice(Tail(s)), s[1] # "notice", NEW i \in 1 .. Len(s) PROVE s[i] # "notice"
    BY <1>1 DEF NoNotice
  <2>2. CASE i = 1
    BY <2>1, <2>2
  <2>3. CASE i # 1
    <3>1. i - 1 \in 1 .. Len(Tail(s)) /\ Tail(s)[i - 1] = s[i]
      BY <1>1, <2>3
    <3> QED BY <2>1, <3>1 DEF NoNotice
  <2> QED BY <2>2, <2>3
<1>6. Head(s) = "notice" => ~NoNotice(s)
  BY <1>1 DEF NoNotice
<1> QED BY <1>2, <1>3, <1>4, <1>5, <1>6

LEMMA RepliesNotice == ASSUME NEW n \in Nat PROVE NoNotice(Replies(n))
  BY DEF NoNotice, Replies

LEMMA GuardrailNotice == ASSUME NEW a PROVE NoNotice(guardrailReplies(a))
  BY RepliesNotice DEF guardrailReplies

LEMMA NoticeConcat ==
    ASSUME NEW s \in Seq({"notice", "reply"}), NEW t \in Seq({"notice", "reply"}),
           NoNotice(s), NoNotice(t)
    PROVE  NoNotice(s \o t)
<1>1. /\ Len(s) \in Nat /\ Len(t) \in Nat /\ Len(s \o t) = Len(s) + Len(t)
      /\ \A i \in 1 .. Len(s) + Len(t) : (s \o t)[i] = IF i <= Len(s) THEN s[i] ELSE t[i - Len(s)]
  OBVIOUS
<1> HIDE DEF NoNotice
<1>2. SUFFICES ASSUME NEW i \in 1 .. Len(s) + Len(t) PROVE (s \o t)[i] # "notice"
  BY <1>1 DEF NoNotice
<1>3. CASE i <= Len(s)
  BY <1>1, <1>3 DEF NoNotice
<1>4. CASE ~(i <= Len(s))
  <2>1. i - Len(s) \in 1 .. Len(t)
    BY <1>1, <1>4
  <2> QED BY <1>1, <1>4, <2>1 DEF NoNotice
<1> QED BY <1>3, <1>4

LEMMA OneNoticeConcat ==
    ASSUME NEW s \in Seq({"notice", "reply"}), NEW t \in Seq({"notice", "reply"}),
           NoNotice(s), NoNotice(t)
    PROVE  OneNotice((s \o <<"notice">>) \o t)
<1> DEFINE q == (s \o <<"notice">>) \o t
<1>1. /\ Len(s) \in Nat /\ Len(t) \in Nat /\ Len(q) = Len(s) + 1 + Len(t)
      /\ \A i \in 1 .. Len(s) : q[i] = s[i]
      /\ \A i \in Len(s) + 2 .. Len(s) + 1 + Len(t) : q[i] = t[i - (Len(s) + 1)]
  OBVIOUS
<1> HIDE DEF q
<1>2. ASSUME NEW i \in 1 .. Len(q), q[i] = "notice" PROVE i = Len(s) + 1
  <2>1. CASE i <= Len(s)
    BY <1>1, <1>2, <2>1 DEF NoNotice
  <2>2. CASE i > Len(s) + 1
    <3>1. i - (Len(s) + 1) \in 1 .. Len(t) /\ i \in Len(s) + 2 .. Len(s) + 1 + Len(t)
      BY <1>1, <2>2
    <3> QED BY <1>1, <1>2, <3>1 DEF NoNotice
  <2> QED BY <1>1, <2>1, <2>2
<1>3. OneNotice(q)
  BY <1>2 DEF OneNotice
<1> QED BY <1>3 DEF q

\* Only a greeting opens with the notice, and only to a lead not greeted yet.
LEMMA ResolveGreets ==
    ASSUME NEW l \in Row, NEW res \in resolveResult(l)
    PROVE  res.greet => ~l.greeted
<1>1. ASSUME NEW next, NEW shown PROVE Result(next, shown).greet = FALSE
  BY DEF Result
<1>2. ASSUME NEW r \in qualificationHandle(l) PROVE r.greet = FALSE
  BY <1>1, <1>2 DEF qualificationHandle
<1>3. enterScheduling.greet = FALSE
  BY DEF enterScheduling, Result
<1>4. ASSUME NEW r \in commercialProcess PROVE r.greet = FALSE
  BY <1>1, <1>3, <1>4 DEF commercialProcess
<1>5. ASSUME NEW r \in greetingHandle(l) PROVE r.greet = ~l.greeted
  <2>1. PICK q \in {Result("GREETING", "keep")} \cup qualificationHandle(l) :
           r = [q EXCEPT !.greet = ~l.greeted]
    BY <1>5 DEF greetingHandle
  <2>2. q \in Results
    BY QualificationType, ResultType DEF Onward, State, Active
  <2> QED BY <2>1, <2>2 DEF Results
<1>6. \/ res = Result(l.state, "keep") \/ res \in greetingHandle(l) \/ res \in qualificationHandle(l)
      \/ res = Result("SEARCH_MATCH", "keep") \/ res \in commercialProcess \/ res = enterScheduling
  BY DEF resolveResult, searchMatchHandle, commercialHandle, Row, State, Active, Silenced
<1> QED BY <1>1, <1>2, <1>3, <1>4, <1>5, <1>6

\* No guardrail but the expiry touches greetedAt.
LEMMA UpdateGreeted ==
    ASSUME NEW a, NEW l \in Row, NEW row \in Row
    PROVE  leadUpdate(a, l, row).greeted = IF a = "session_expired" THEN FALSE ELSE row.greeted
<1> USE DEF Row
<1>1. CASE a = "opt_out"
  BY <1>1 DEF leadUpdate
<1>2. CASE a = "handoff"
  BY <1>2 DEF leadUpdate
<1>3. CASE a = "handoff_timeout_release"
  BY <1>3 DEF leadUpdate
<1>4. CASE a = "session_expired"
  BY <1>4 DEF leadUpdate
<1>5. CASE a \notin {"opt_out", "handoff", "handoff_timeout_release", "session_expired"}
  BY <1>5 DEF leadUpdate
<1> QED BY <1>1, <1>2, <1>3, <1>4, <1>5

LEMMA StepGreet == GreetInv /\ [Next]_vars => NoticeInv'
<1> SUFFICES ASSUME TypeOK, ActionInv, NoticeInv, [Next]_vars PROVE NoticeInv'
  BY DEF GreetInv, IInv, TurnInv
<1> USE DEF rows, panel, history
<1>a. turn.lead \in Row /\ lead \in Row /\ turn.out \in Seq({"notice", "reply"})
  BY DEF TypeOK, Turn
<1>0. ASSUME UNCHANGED <<turn, noticed>>, lead'.greeted = lead.greeted PROVE NoticeInv'
  BY <1>0 DEF NoticeInv
<1>e. NoNotice(<<>>)
  BY DEF NoNotice
<1>b. ASSUME EndTurn, noticed' => lead'.greeted PROVE NoticeInv'
  BY <1>b, <1>e DEF EndTurn, Idle, NoticeInv
<1>1. ASSUME NEW k \in Arriving, handleMessage(k) PROVE NoticeInv'
  BY <1>0, <1>1, <1>a DEF handleMessage, findOrCreateByPhone, Row
<1>2. ASSUME NEW r \in Requests, BeginTurn(r) PROVE NoticeInv'
  <2>1. noticed => lead.greeted
    BY <1>2 DEF BeginTurn, LockFree, NoticeInv
  <2>2. CASE decide(r) = "silenced"
    BY <1>2, <1>b, <2>1, <2>2 DEF BeginTurn, EndTurn
  <2>3. CASE decide(r) # "silenced"
    <3> DEFINE out == IF firstStep(decide(r)) = "sendStop" THEN guardrailReplies(decide(r)) ELSE <<>>
    <3>1. turn' = [Idle(lead) EXCEPT !.pc = firstStep(decide(r)), !.action = decide(r), !.out = out]
      BY <1>2, <2>3 DEF BeginTurn
    <3>2. NoNotice(out)
      BY <1>e, GuardrailNotice
    <3> HIDE DEF out
    <3>3. turn'.pc = firstStep(decide(r)) /\ turn'.action = decide(r) /\ turn'.out = out /\ turn'.lead = lead
      BY <3>1 DEF Idle
    <3>4. decide(r) \in Actions
      BY DecideType, <1>a
    <3>5. UNCHANGED <<lead, noticed>>
      BY <1>2 DEF BeginTurn
    <3>6. /\ firstStep(decide(r)) = "sendStop" => decide(r) \in {"opt_out", "handoff"}
          /\ firstStep(decide(r)) = "expire" => decide(r) = "session_expired"
          /\ firstStep(decide(r)) = "extract" => decide(r) \in {"handoff_timeout_release", "continue"}
          /\ firstStep(decide(r)) \in {"sendStop", "expire", "extract"}
      BY <2>3, <3>4 DEF firstStep, Actions
    <3> QED BY <2>1, <3>2, <3>3, <3>5, <3>6 DEF NoticeInv
  <2> QED BY <2>2, <2>3
<1>3. CASE ExpireSession
  <2>1. ~noticed' /\ ~lead'.greeted
    BY <1>3, <1>a, UpdateGreeted DEF ExpireSession
  <2>2. turn'.pc = "extract" /\ turn'.action = turn.action /\ turn'.out = turn.out /\ turn.pc = "expire"
        /\ turn'.lead = turn.lead
    BY <1>3 DEF ExpireSession, TypeOK, Turn
  <2>3. turn.action = "session_expired"
    BY <1>3 DEF ExpireSession, ActionInv
  <2> QED BY <2>1, <2>2, <2>3 DEF NoticeInv
<1>4. CASE ExtractNothing
  <2>1. /\ turn'.pc = "sendReformulate" /\ turn'.action = turn.action /\ turn'.lead = turn.lead
        /\ turn'.out = guardrailReplies(turn.action) \o <<"reply">> /\ turn.pc = "extract"
        /\ UNCHANGED <<lead, noticed>>
    BY <1>4 DEF ExtractNothing, TypeOK, Turn
  <2>2. NoNotice(turn'.out)
    <3>1. NoNotice(<<"reply">>) /\ <<"reply">> \in Seq({"notice", "reply"})
      BY DEF NoNotice
    <3> QED BY <2>1, <3>1, GuardrailNotice, GuardrailRepliesType, NoticeConcat
  <2> QED BY <2>1, <2>2 DEF NoticeInv
<1>5. ASSUME NEW res \in resolveResult(effectiveLead), NEW n \in 0 .. MaxReplies, Resolve(res, n)
      PROVE  NoticeInv'
  <2>1. effectiveLead \in Row /\ effectiveLead.greeted = lead.greeted
    <3>1. turn.pc = "extract"
      BY <1>5 DEF Resolve
    <3>2. effectiveLead \in Row
      BY <1>a, LeadUpdateType DEF effectiveLead
    <3>3. effectiveLead.greeted = IF turn.action = "session_expired" THEN FALSE ELSE turn.lead.greeted
      BY <1>a, UpdateGreeted DEF effectiveLead
    <3>4. lead.greeted \in BOOLEAN
      BY <1>a DEF Row
    <3> QED BY <3>1, <3>2, <3>3, <3>4 DEF NoticeInv
  <2>2. res \in Results /\ (res.greet => ~lead.greeted)
    BY <2>1, ResolveResultType, ResolveGreets
  <2> DEFINE g   == guardrailReplies(turn.action)
             out == g \o (IF res.greet THEN <<"notice">> ELSE <<>>) \o Replies(n)
  <2>3. turn' = [turn EXCEPT !.pc = "send", !.lead = lead', !.next = res.next,
                             !.greet = res.greet, !.out = out]
    BY <1>5 DEF Resolve
  <2>4. /\ g \in Seq({"notice", "reply"}) /\ NoNotice(g)
        /\ Replies(n) \in Seq({"notice", "reply"}) /\ NoNotice(Replies(n))
    BY GuardrailNotice, GuardrailRepliesType, RepliesNotice, RepliesType, ConversationAssumption
  <2>5. OneNotice(out) /\ (~res.greet => NoNotice(out))
    <3> HIDE DEF g
    <3>1. CASE res.greet
      <4>1. out = (g \o <<"notice">>) \o Replies(n)
        BY <3>1
      <4> QED BY <2>4, <3>1, <4>1, OneNoticeConcat
    <3>2. CASE ~res.greet
      <4>1. NoNotice(g \o Replies(n))
        BY <2>4, NoticeConcat
      <4>2. g \o <<>> = g
        BY <2>4
      <4>3. out = g \o Replies(n)
        BY <3>2, <4>2
      <4> QED BY <4>1, <4>3 DEF NoNotice, OneNotice
    <3> QED BY <3>1, <3>2
  <2> HIDE DEF out
  <2>6. /\ turn'.pc = "send" /\ turn'.lead = lead' /\ turn'.greet = res.greet /\ turn'.out = out
        /\ turn'.action = turn.action /\ turn.pc = "extract"
    BY <1>5, <2>3 DEF Resolve, TypeOK, Turn
  <2>7. lead'.greeted = lead.greeted /\ UNCHANGED noticed
    BY <1>5, <1>a DEF Resolve, Row
  <2>8. noticed => lead.greeted
    BY <2>6 DEF NoticeInv
  <2> QED BY <2>2, <2>5, <2>6, <2>7, <2>8 DEF NoticeInv
<1>6. CASE SendAction
  <2>1. turn.out # <<>> /\ turn' = [turn EXCEPT !.out = Tail(turn.out)] /\ UNCHANGED lead
        /\ noticed' = (noticed \/ Head(turn.out) = "notice")
    BY <1>6 DEF SendAction
  <2>2. /\ turn'.pc = turn.pc /\ turn'.action = turn.action /\ turn'.lead = turn.lead
        /\ turn'.greet = turn.greet /\ turn'.out = Tail(turn.out)
    BY <2>1 DEF TypeOK, Turn
  <2>3. /\ NoNotice(turn.out) => NoNotice(Tail(turn.out))
        /\ OneNotice(turn.out) => OneNotice(Tail(turn.out))
        /\ OneNotice(turn.out) /\ Head(turn.out) = "notice" => NoNotice(Tail(turn.out))
        /\ NoNotice(Tail(turn.out)) /\ Head(turn.out) # "notice" => NoNotice(turn.out)
        /\ Head(turn.out) = "notice" => ~NoNotice(turn.out)
    BY <1>a, <2>1, NoticeTail
  <2>4. CASE turn.pc = "send"
    BY <2>1, <2>2, <2>3, <2>4 DEF NoticeInv
  <2>5. CASE turn.pc # "send"
    BY <2>1, <2>2, <2>3, <2>5 DEF NoticeInv
  <2> QED BY <2>4, <2>5
<1>7. CASE SaveStop
  <2>1. turn.pc = "sendStop" /\ lead' = leadUpdate(turn.action, turn.lead, lead) /\ EndTurn /\ UNCHANGED noticed
    BY <1>7 DEF SaveStop, Save
  <2>2. lead'.greeted = lead.greeted
    BY <1>a, <2>1, UpdateGreeted DEF ActionInv
  <2> QED BY <1>b, <2>1, <2>2 DEF NoticeInv
<1>8. CASE SaveReformulate
  <2>1. /\ turn.pc = "sendReformulate" /\ EndTurn /\ UNCHANGED noticed
        /\ lead' = [leadUpdate(turn.action, turn.lead, lead) EXCEPT !.lastMessageAt = 0]
    BY <1>8 DEF SaveReformulate, Save
  <2>2. leadUpdate(turn.action, turn.lead, lead) \in Row
    BY <1>a, LeadUpdateType
  <2>3. lead'.greeted = leadUpdate(turn.action, turn.lead, lead).greeted
    BY <2>1, <2>2 DEF Row
  <2>4. lead'.greeted = IF turn.action = "session_expired" THEN FALSE ELSE lead.greeted
    BY <1>a, <2>3, UpdateGreeted
  <2> QED BY <1>b, <2>1, <2>4 DEF NoticeInv
<1>9. CASE persistLeadUpdate
  <2>1. /\ turn.pc = "send" /\ turn.out = <<>> /\ EndTurn /\ UNCHANGED noticed
        /\ lead'.greeted = (lead.greeted \/ (turn.greet /\ ~turn.lead.greeted))
    BY <1>9, <1>a DEF persistLeadUpdate, Save, Row
  <2> QED BY <1>b, <2>1 DEF NoticeInv
<1>10. CASE respondUnsupported
  BY <1>0, <1>10 DEF respondUnsupported, ReadUnsupported, SendUnsupported
<1>11. CASE Panel
  BY <1>0, <1>11, <1>a DEF Panel, sendManual, CheckManual, CommitManual, SendManual, optOut, ReadRelease,
                     WriteRelease, closeVisit, Row
<1>12. CASE Tick
  BY <1>0, <1>12, <1>a DEF Tick, Row
<1>13. CASE UNCHANGED vars
  BY <1>0, <1>13 DEF vars
<1>14. CASE sendAndPersist
  BY <1>0, <1>14, <1>a DEF sendAndPersist, findOrCreateByPhone, Row
<1>15. CASE TurnThrows
  BY <1>b, <1>15 DEF TurnThrows
<1> QED
  BY <1>1, <1>2, <1>3, <1>4, <1>5, <1>6, <1>7, <1>8, <1>9, <1>10, <1>11, <1>12, <1>13, <1>14, <1>15
  DEF Next, handleTurn

LEMMA AlwaysGreet == Spec => []GreetInv
<1>1. Init => GreetInv
  <2>1. NoNotice(<<>>)
    BY DEF NoNotice
  <2> QED BY <2>1, InitInv DEF Init, GreetInv, NoticeInv, NewLead, Idle
<1>2. GreetInv /\ [Next]_vars => GreetInv'
  BY StepType, StepTurn, StepSpeakers, StepGreet DEF GreetInv, IInv
<1> QED BY <1>1, <1>2, PTL DEF Spec

(* NoticeOnce: the notice of Ley 25.326 goes out at most once in a session, *)
(* whatever the panel does meanwhile and however many turns greet, unless  *)
(* the turn that sent it threw before it could save greetedAt.             *)
THEOREM NoticeSentOnce == Spec => NoticeOnce
<1>1. GreetInv => [BotSends /\ Head(turn.out) = "notice" => ~noticed]_vars
  <2>1. SUFFICES ASSUME GreetInv, turn.out # <<>>, Head(turn.out) = "notice" PROVE ~noticed
    BY DEF BotSends
  <2>2. ~NoNotice(turn.out)
    BY <2>1, NoticeTail DEF GreetInv, IInv, TypeOK, Turn
  <2> QED BY <2>1, <2>2 DEF GreetInv, NoticeInv
<1> QED BY <1>1, AlwaysGreet, PTL DEF NoticeOnce
=============================================================================
