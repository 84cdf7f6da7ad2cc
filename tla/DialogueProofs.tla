---------------------------- MODULE DialogueProofs ----------------------------
(***************************************************************************)
(* What holds of a lead's dialogue whatever the stock and its changes, the *)
(* messages, what the LLM makes of them, and the turns that die.           *)
(***************************************************************************)
EXTENDS Dialogue, FiniteSetTheorems, TLAPS

IsFilters(x) == x = [c \in {"op", "zones", "price", "currency", "rooms", "garage", "offered",
                              "age"} |-> x[c]]
LeadColumns == {"stage", "f", "shown", "greeted", "named", "nameAsked", "answers", "asked", "pending",
                "stockAlert", "signal", "score"}
IsLead(x) == x = [c \in LeadColumns |-> x[c]] /\ IsFilters(x.f)
IsPlan(x) == x = [c \in {"pc", "row", "reply"} |-> x[c]]
TurnFields == {"pc", "u", "row", "cards", "reply", "wrote", "visit"}
IsTurn(x) == x = [c \in TurnFields |-> x[c]]

Shape == IsLead(lead) /\ IsTurn(turn) /\ IsLead(turn.row)

-----------------------------------------------------------------------------
(* Rows.                                                                   *)

\* What no handler but the commercial one, and the count, changes of a row.
SameRow(row, l) == /\ row.named = l.named /\ row.pending = l.pending /\ row.answers = l.answers
                   /\ row.asked = l.asked /\ row.signal = l.signal /\ row.score = l.score
                   /\ row.shown = l.shown

LEMMA CountedRow ==
    ASSUME NEW l, NEW u, IsLead(l)
    PROVE  LET row == Counted(l, u)
           IN /\ IsLead(row) /\ row.stage = l.stage /\ row.greeted = l.greeted
              /\ row.pending = l.pending /\ row.f.zones = l.f.zones /\ row.f.offered = l.f.offered
              /\ row.named = (l.named \/ u.name)
  BY DEF Counted, IsLead, LeadColumns, IsFilters

LEMMA SayPlan ==
    ASSUME NEW row, IsLead(row), NEW stage, NEW reply, NEW p, p = Say(row, stage, reply)
    PROVE  /\ IsPlan(p) /\ IsLead(p.row) /\ p.pc = "deliver" /\ p.row.stage = stage
           /\ p.reply = reply /\ p.row.f = row.f /\ SameRow(p.row, row) /\ p.row.greeted = row.greeted
  BY DEF Say, Plan, IsPlan, IsLead, LeadColumns, SameRow

LEMMA AskPlan ==
    ASSUME NEW row, IsLead(row), NEW f, IsFilters(f), NEW reply, NEW p, p = Ask(row, f, reply)
    PROVE  /\ IsPlan(p) /\ IsLead(p.row) /\ p.pc = "deliver" /\ p.row.stage = "QUALIFICATION"
           /\ p.reply = reply /\ p.row.f = f /\ SameRow(p.row, row) /\ p.row.greeted = row.greeted
<1>1. PICK r: r = [row EXCEPT !.f = f]
  OBVIOUS
<1>2. IsLead(r) /\ r.f = f /\ SameRow(r, row) /\ r.greeted = row.greeted
  BY <1>1 DEF IsLead, LeadColumns, SameRow
<1>3. p = Say(r, "QUALIFICATION", reply)
  BY <1>1 DEF Ask
<1>4. /\ IsPlan(p) /\ IsLead(p.row) /\ p.pc = "deliver" /\ p.row.stage = "QUALIFICATION"
      /\ p.reply = reply /\ p.row.f = r.f /\ SameRow(p.row, r) /\ p.row.greeted = r.greeted
  BY <1>2, <1>3, SayPlan
<1> QED BY <1>2, <1>4 DEF SameRow

LEMMA StepPlan ==
    ASSUME NEW row, IsLead(row), NEW f, IsFilters(f), NEW pc, NEW reply, NEW p,
           p = Plan(pc, [row EXCEPT !.f = f], reply)
    PROVE  /\ IsPlan(p) /\ IsLead(p.row) /\ p.pc = pc /\ p.row.stage = row.stage
           /\ p.row.f = f /\ SameRow(p.row, row) /\ p.row.greeted = row.greeted
  BY DEF Plan, IsPlan, IsLead, LeadColumns, SameRow

\* The filters offered other zones.
LEMMA OfferedFilters ==
    ASSUME NEW f, IsFilters(f), NEW s
    PROVE  /\ IsFilters([f EXCEPT !.offered = s]) /\ [f EXCEPT !.offered = s].zones = f.zones
           /\ IsFilters([f EXCEPT !.zones = {}, !.offered = s])
           /\ [f EXCEPT !.zones = {}, !.offered = s].zones = {}
           /\ IsFilters([f EXCEPT !.zones = s]) /\ [f EXCEPT !.zones = s].zones = s
  BY DEF IsFilters

\* What a question leaves in the row.
Asks(p, f, row) ==
    /\ IsPlan(p) /\ IsLead(p.row) /\ p.pc = "deliver" /\ p.row.stage = "QUALIFICATION"
    /\ p.row.f.zones \subseteq f.zones /\ SameRow(p.row, row) /\ p.row.greeted = row.greeted

LEMMA SuggestPlan ==
    ASSUME NEW row, IsLead(row), NEW f, IsFilters(f), NEW p \in suggestAlternativeZones(f, row)
    PROVE  Asks(p, f, row)
<1>1. PICK s: p = Ask(row, [f EXCEPT !.zones = {}, !.offered = s], "other zones")
  BY DEF suggestAlternativeZones
<1>2. PICK g: g = [f EXCEPT !.zones = {}, !.offered = s]
  OBVIOUS
<1>3. IsFilters(g) /\ g.zones = {}
  BY <1>2, OfferedFilters
<1>4. PICK reply: p = Ask(row, g, reply)
  BY <1>1, <1>2
<1>5. /\ IsPlan(p) /\ IsLead(p.row) /\ p.pc = "deliver" /\ p.row.stage = "QUALIFICATION"
      /\ p.row.f = g /\ SameRow(p.row, row) /\ p.row.greeted = row.greeted
  BY <1>3, <1>4, AskPlan
<1> QED BY <1>3, <1>5 DEF Asks

LEMMA MissingPlan ==
    ASSUME NEW u, NEW row, IsLead(row), NEW f, IsFilters(f), NEW p \in askMissingFilter(u, f, row)
    PROVE  Asks(p, f, row)
<1>1. (\E reply: p = Ask(row, f, reply)) \/ \E s: p = Ask(row, [f EXCEPT !.offered = s], "these zones?")
  BY Zenon DEF askMissingFilter
<1>2. ASSUME NEW g, IsFilters(g), g.zones = f.zones, NEW reply, p = Ask(row, g, reply) PROVE Asks(p, f, row)
  BY <1>2, AskPlan DEF Asks
<1>3. ASSUME NEW s, p = Ask(row, [f EXCEPT !.offered = s], "these zones?") PROVE Asks(p, f, row)
  BY <1>2, <1>3, OfferedFilters, Zenon
<1> QED BY <1>1, <1>2, <1>3

\* What the search for a property leads to from a state.
Qualifies(p, l, f, row) ==
    \/ Asks(p, f, row)
    \/ /\ IsPlan(p) /\ IsLead(p.row) /\ p.pc \in {"search", "teaser"}
       /\ p.pc = "teaser" => l.stage # "SEARCH_MATCH"
       /\ p.row.f = f /\ SameRow(p.row, row) /\ p.row.greeted = row.greeted

LEMMA QualifyPlan ==
    ASSUME NEW l, NEW u, NEW row, IsLead(row), NEW f, IsFilters(f),
           NEW p \in qualificationHandle(l, u, f, row)
    PROVE  Qualifies(p, l, f, row)
<1>1. CASE f.zones # {} /\ zonesWithStock(stock, f.zones, f.op) = {}
  BY <1>1, SuggestPlan, Zenon DEF qualificationHandle, Qualifies
<1>2. ASSUME NEW reply, p = Ask(row, f, reply) PROVE Qualifies(p, l, f, row)
  BY <1>2, AskPlan DEF Qualifies, Asks
<1>6. ASSUME NEW with, with \subseteq f.zones, NEW reply, p = Ask(row, [f EXCEPT !.zones = with], reply)
      PROVE  Qualifies(p, l, f, row)
  <2>1. PICK g: g = [f EXCEPT !.zones = with]
    OBVIOUS
  <2>2. IsFilters(g) /\ g.zones = with
    BY <2>1, OfferedFilters
  <2>3. p = Ask(row, g, reply)
    BY <1>6, <2>1
  <2>4. /\ IsPlan(p) /\ IsLead(p.row) /\ p.pc = "deliver" /\ p.row.stage = "QUALIFICATION"
        /\ p.row.f = g /\ SameRow(p.row, row) /\ p.row.greeted = row.greeted
    BY <2>2, <2>3, AskPlan
  <2> QED BY <1>6, <2>2, <2>4 DEF Qualifies, Asks
<1>7. zonesWithStock(stock, f.zones, f.op) \subseteq f.zones
  BY DEF zonesWithStock
<1>3. ASSUME NEW pc \in {"search", "teaser"}, pc = "teaser" => l.stage # "SEARCH_MATCH",
             NEW reply, p = Plan(pc, [row EXCEPT !.f = f], reply)
      PROVE  Qualifies(p, l, f, row)
  <2>1. /\ IsPlan(p) /\ IsLead(p.row) /\ p.pc = pc /\ p.row.f = f /\ SameRow(p.row, row)
        /\ p.row.greeted = row.greeted
    BY <1>3, StepPlan
  <2> QED BY <1>3, <2>1 DEF Qualifies
<1>4. ASSUME ~(f.zones # {} /\ zonesWithStock(stock, f.zones, f.op) = {})
      PROVE  \/ p = Ask(row, [f EXCEPT !.zones = zonesWithStock(stock, f.zones, f.op)], "nothing in some zones")
             \/ \E reply: p = Ask(row, f, reply)
             \/ p = Plan("search", [row EXCEPT !.f = f], "")
             \/ l.stage # "SEARCH_MATCH" /\ p = Plan("teaser", [row EXCEPT !.f = f], "")
             \/ p \in askMissingFilter(u, f, row)
  <2>1. CASE zonesWithStock(stock, f.zones, f.op) # f.zones
    BY <1>4, <2>1, Zenon DEF qualificationHandle
  <2>2. CASE zonesWithStock(stock, f.zones, f.op) = f.zones /\ u.price # 0 /\ f.op = "SALE" /\ isSuspiciousSalePrice(f)
    BY <1>4, <2>2, Zenon DEF qualificationHandle
  <2>3. CASE /\ zonesWithStock(stock, f.zones, f.op) = f.zones
             /\ ~(u.price # 0 /\ f.op = "SALE" /\ isSuspiciousSalePrice(f))
             /\ f.op # "none" /\ countFilledCoreFilters(f) >= 2
    BY <1>4, <2>3, Zenon DEF qualificationHandle
  <2>4. CASE /\ zonesWithStock(stock, f.zones, f.op) = f.zones
             /\ ~(u.price # 0 /\ f.op = "SALE" /\ isSuspiciousSalePrice(f))
             /\ ~(f.op # "none" /\ countFilledCoreFilters(f) >= 2)
    BY <1>4, <2>4, Zenon DEF qualificationHandle
  <2> QED BY <2>1, <2>2, <2>3, <2>4
<1>5. ASSUME p \in askMissingFilter(u, f, row) PROVE Qualifies(p, l, f, row)
  BY <1>5, MissingPlan DEF Qualifies
<1> QED BY <1>1, <1>2, <1>3, <1>4, <1>5, <1>6, <1>7, Zenon

-----------------------------------------------------------------------------
(* The greeting.                                                           *)

\* The first answer says who is speaking; the operation may have to be asked for.
Greets(p, l, f, row) ==
    /\ IsPlan(p) /\ IsLead(p.row) /\ p.row.greeted = TRUE
    /\ p.row.named = row.named /\ p.row.pending = row.pending
    /\ p.row.f.zones \subseteq f.zones
    /\ \/ p.pc = "deliver" /\ p.row.stage \in {"GREETING", "QUALIFICATION"}
       \/ p.pc \in {"search", "teaser"}

LEMMA GreetedRow ==
    ASSUME NEW row, IsLead(row), NEW f, IsFilters(f), NEW r,
           \/ r = [row EXCEPT !.greeted = TRUE]
           \/ r = [[row EXCEPT !.greeted = TRUE] EXCEPT !.nameAsked = TRUE]
           \/ r = [[row EXCEPT !.greeted = TRUE] EXCEPT !.f = f]
    PROVE  /\ IsLead(r) /\ r.greeted = TRUE /\ r.named = row.named /\ r.pending = row.pending
           /\ r.f.zones \in {row.f.zones, f.zones} /\ r.f \in {row.f, f}
<1>1. CASE r = [row EXCEPT !.greeted = TRUE]
  BY <1>1 DEF IsLead, LeadColumns
<1>2. CASE r = [[row EXCEPT !.greeted = TRUE] EXCEPT !.nameAsked = TRUE]
  BY <1>2 DEF IsLead, LeadColumns
<1>3. CASE r = [[row EXCEPT !.greeted = TRUE] EXCEPT !.f = f]
  BY <1>3 DEF IsLead, LeadColumns
<1> QED BY <1>1, <1>2, <1>3

LEMMA GreetPlan ==
    ASSUME NEW l, NEW u, NEW row, IsLead(row), NEW f, IsFilters(f),
           NEW p \in greetingHandle(l, u, f, row)
    PROVE  Greets(p, l, f, row)
<1>1. PICK g: g = [row EXCEPT !.greeted = TRUE]
  OBVIOUS
<1>2. IsLead(g) /\ g.greeted = TRUE /\ g.named = row.named /\ g.pending = row.pending
  BY <1>1, GreetedRow
<1>3. CASE f.op = "none" /\ ~hasStockInZone(stock, f.zones, "none")
  <2>1. PICK q \in suggestAlternativeZones(f, g): p = [q EXCEPT !.row.stage = "GREETING"]
    BY <1>1, <1>3, Zenon DEF greetingHandle
  <2>2. Asks(q, f, g)
    BY <1>2, SuggestPlan
  <2>3. PICK r: r = [q.row EXCEPT !.stage = "GREETING"]
    OBVIOUS
  <2>4. p = [q EXCEPT !.row = r] /\ IsPlan(q) /\ IsLead(q.row) /\ q.pc = "deliver"
        /\ q.row.f.zones \subseteq f.zones
    BY <2>1, <2>2, <2>3 DEF Asks
  <2>5. /\ IsLead(r) /\ r.stage = "GREETING" /\ r.f = q.row.f /\ r.named = q.row.named
        /\ r.pending = q.row.pending /\ r.greeted = q.row.greeted
    BY <2>3, <2>4 DEF IsLead, LeadColumns
  <2>6. IsPlan(p) /\ p.row = r /\ p.pc = "deliver"
    BY <2>4 DEF IsPlan
  <2> QED BY <1>2, <2>2, <2>4, <2>5, <2>6 DEF Greets, Asks, SameRow
<1>4. CASE f.op = "none" /\ hasStockInZone(stock, f.zones, "none")
  <2>1. PICK r: r = [g EXCEPT !.f = f]
    OBVIOUS
  <2>2. \E reply: p = Say(r, "GREETING", reply)
    BY <1>1, <1>4, <2>1, Zenon DEF greetingHandle
  <2>3. IsLead(r) /\ r.greeted = TRUE /\ r.named = row.named /\ r.pending = row.pending /\ r.f = f
    BY <1>1, <1>2, <2>1 DEF IsLead, LeadColumns
  <2>4. PICK reply: p = Say(r, "GREETING", reply)
    BY <2>2
  <2>5. PICK stage: stage = "GREETING" /\ p = Say(r, stage, reply)
    BY <2>4
  <2> QED BY <2>3, <2>5, SayPlan DEF Greets, SameRow
<1>5. CASE f.op # "none" /\ shouldAskName(l)
  <2>1. PICK r: r = [g EXCEPT !.nameAsked = TRUE]
    OBVIOUS
  <2>2. \E reply: p = Ask(r, f, reply)
    BY <1>1, <1>5, <2>1, Zenon DEF greetingHandle
  <2>3. IsLead(r) /\ r.greeted = TRUE /\ r.named = row.named /\ r.pending = row.pending
    BY <1>1, <1>2, <2>1 DEF IsLead, LeadColumns
  <2> QED BY <2>2, <2>3, AskPlan DEF Greets, SameRow
<1>6. CASE f.op # "none" /\ ~shouldAskName(l)
  <2>1. p \in qualificationHandle(l, u, f, g)
    BY <1>1, <1>6, Zenon DEF greetingHandle
  <2>2. Qualifies(p, l, f, g)
    BY <1>2, <2>1, QualifyPlan
  <2> QED BY <1>2, <2>2 DEF Greets, Qualifies, Asks, SameRow
<1> QED BY <1>3, <1>4, <1>5, <1>6

-----------------------------------------------------------------------------
(* The commercial questions and the visit.                                 *)

Commercial == "COMMERCIAL_QUALIFICATION"

\* What they leave in the row: the property pending is the one they were given.
Commits(p, f, row, pending) ==
    /\ IsPlan(p) /\ IsLead(p.row)
    /\ p.pc = "schedule" \/ (p.pc = "deliver" /\ p.row.stage = Commercial)
    /\ p.row.pending = pending /\ p.row.named = row.named /\ p.row.greeted = row.greeted
    /\ p.row.f \in {f, row.f}

LEMMA CommitPlan ==
    ASSUME NEW l, NEW u, NEW row, IsLead(row), NEW f, IsFilters(f), NEW asked, NEW pending,
           NEW p \in process(l, u, f, row, asked, pending)
    PROVE  Commits(p, f, row, pending)
<1>1. PICK answers, next: answers = WithAnswers(l, u) /\ next = Unasked(l.f.op, answers, asked)
  OBVIOUS
<1>2. CASE next = <<>>
  <2>1. PICK r: r = [row EXCEPT !.answers = answers, !.pending = pending]
    OBVIOUS
  <2>2. p = Plan("schedule", r, "")
    BY <1>1, <1>2, <2>1, Zenon DEF process
  <2>3. IsLead(r) /\ r.pending = pending /\ r.named = row.named /\ r.greeted = row.greeted /\ r.f = row.f
    BY <2>1 DEF IsLead, LeadColumns
  <2>4. IsPlan(p) /\ p.row = r /\ p.pc = "schedule"
    BY <2>2 DEF Plan, IsPlan
  <2> QED BY <2>3, <2>4 DEF Commits
<1>3. CASE next # <<>>
  <2>1. PICK r: r = [row EXCEPT !.f = f, !.answers = answers, !.pending = pending,
                                !.asked = Append(asked, Head(next))]
    OBVIOUS
  <2>2. p = Say(r, Commercial, "commercial question")
    BY <1>1, <1>3, <2>1, Zenon DEF process, Commercial
  <2>3. PICK more: r = [row EXCEPT !.f = f, !.answers = answers, !.pending = pending, !.asked = more]
    BY <2>1
  <2>4. IsLead(r) /\ r.pending = pending /\ r.named = row.named /\ r.greeted = row.greeted /\ r.f = f
    BY <2>3 DEF IsLead, LeadColumns
  <2>5. PICK stage, reply: stage = Commercial /\ p = Say(r, stage, reply)
    BY <2>2
  <2> QED BY <2>4, <2>5, SayPlan DEF Commits, SameRow
<1> QED BY <1>2, <1>3

-----------------------------------------------------------------------------
(* The dispatch.                                                           *)

\* The lead chooses one of the cards it was shown: Enters, for any row.
Chooses(l, u, f) ==
    /\ l.stage = "SEARCH_MATCH" /\ u.index # 0 /\ u.confirms
    /\ ~u.signal /\ ~hasUnansweredQuestion(u)
    /\ ~isRedirectable(l, u, f)
    /\ Exists(Indexed(l.shown, u.index))

\* The lead stays where it is.
Stays(p, l, row) ==
    /\ IsPlan(p) /\ IsLead(p.row) /\ p.pc = "deliver" /\ p.row.stage = l.stage
    /\ p.row.f = row.f /\ p.row.named = row.named /\ p.row.pending = row.pending
    /\ p.row.greeted = row.greeted

Decides(p, l, u, f, row) ==
    \/ Stays(p, l, row)
    \/ l.stage = "GREETING" /\ Greets(p, l, f, row)
    \/ l.stage # "GREETING" /\ Qualifies(p, l, f, row)
    \/ Chooses(l, u, f) /\ Commits(p, f, row, Indexed(l.shown, u.index))
    \/ l.stage = Commercial /\ Commits(p, f, row, l.pending)

LEMMA StayPlan ==
    ASSUME NEW l, NEW row, IsLead(row), NEW reply, NEW p, p = Say(row, l.stage, reply)
    PROVE  Stays(p, l, row)
<1>1. PICK stage: stage = l.stage /\ p = Say(row, stage, reply)
  OBVIOUS
<1> QED BY <1>1, SayPlan DEF Stays, SameRow

LEMMA MatchPlan ==
    ASSUME NEW l, NEW u, NEW row, IsLead(row), NEW f, IsFilters(f), l.stage = "SEARCH_MATCH",
           ~u.signal, ~isRedirectable(l, u, f), NEW p \in searchMatchHandle(l, u, f, row)
    PROVE  Decides(p, l, u, f, row)
<1>1. \/ p \in qualificationHandle(l, u, f, row)
      \/ \E reply: p = Say(row, "SEARCH_MATCH", reply)
      \/ /\ u.index # 0 /\ u.confirms /\ ~hasUnansweredQuestion(u) /\ Exists(Indexed(l.shown, u.index))
         /\ p \in process(l, u, f, row, <<>>, Indexed(l.shown, u.index))
  <2>1. CASE u.index # 0 /\ ~u.confirms
    BY <2>1, Zenon DEF searchMatchHandle
  <2>2. CASE u.index # 0 /\ u.confirms
    <3>1. CASE ~Exists(Indexed(l.shown, u.index))
      BY <2>2, <3>1, Zenon DEF searchMatchHandle
    <3>2. CASE Exists(Indexed(l.shown, u.index)) /\ hasUnansweredQuestion(u)
      BY <2>2, <3>2, Zenon DEF searchMatchHandle
    <3>3. CASE Exists(Indexed(l.shown, u.index)) /\ ~hasUnansweredQuestion(u)
      BY <2>2, <3>3, Zenon DEF searchMatchHandle
    <3> QED BY <3>1, <3>2, <3>3
  <2>3. CASE u.index = 0
    BY <2>3, Zenon DEF searchMatchHandle
  <2> QED BY <2>1, <2>2, <2>3
<1>2. ASSUME p \in qualificationHandle(l, u, f, row) PROVE Decides(p, l, u, f, row)
  BY <1>2, QualifyPlan DEF Decides
<1>3. ASSUME NEW reply, p = Say(row, "SEARCH_MATCH", reply) PROVE Decides(p, l, u, f, row)
  <2>1. p = Say(row, l.stage, reply)
    BY <1>3
  <2> QED BY <2>1, StayPlan DEF Decides
<1>4. ASSUME u.index # 0, u.confirms, ~hasUnansweredQuestion(u), Exists(Indexed(l.shown, u.index)),
             p \in process(l, u, f, row, <<>>, Indexed(l.shown, u.index))
      PROVE  Decides(p, l, u, f, row)
  <2>1. PICK asked, pending: /\ p \in process(l, u, f, row, asked, pending)
                             /\ pending = Indexed(l.shown, u.index)
    BY <1>4
  <2>2. Commits(p, f, row, pending)
    BY <2>1, CommitPlan
  <2>3. Chooses(l, u, f)
    BY <1>4 DEF Chooses
  <2> QED BY <2>1, <2>2, <2>3 DEF Decides
<1> QED BY <1>1, <1>2, <1>3, <1>4

LEMMA ResolvePlan ==
    ASSUME NEW l, IsLead(l), l.stage \in Active, NEW u, NEW f, IsFilters(f), NEW p \in resolveResult(l, u, f)
    PROVE  Decides(p, l, u, f, Counted(l, u))
<1>1. PICK row: row = Counted(l, u)
  OBVIOUS
<1>2. IsLead(row) /\ row.stage = l.stage /\ row.pending = l.pending
  BY <1>1, CountedRow
<1>3. CASE u.signal
  <2>1. PICK r: r = [row EXCEPT !.signal = TRUE]
    OBVIOUS
  <2>2. \E reply: p = Say(r, l.stage, reply)
    BY <1>1, <1>3, <2>1, Zenon DEF resolveResult
  <2>3. IsLead(r) /\ r.f = row.f /\ r.named = row.named /\ r.pending = row.pending /\ r.greeted = row.greeted
    BY <1>2, <2>1 DEF IsLead, LeadColumns
  <2>4. Stays(p, l, r)
    BY <2>2, <2>3, StayPlan
  <2>5. Stays(p, l, row)
    BY <2>3, <2>4 DEF Stays
  <2> QED BY <1>1, <2>5 DEF Decides
<1>4. CASE ~u.signal /\ isRedirectable(l, u, f)
  <2>1. \E reply: p = Say(row, l.stage, reply)
    BY <1>1, <1>4, Zenon DEF resolveResult
  <2> QED BY <1>1, <1>2, <2>1, StayPlan DEF Decides
<1>5. CASE ~u.signal /\ ~isRedirectable(l, u, f)
  <2>0. p \in CASE l.stage = "GREETING" -> greetingHandle(l, u, f, row)
                [] l.stage = "QUALIFICATION" -> qualificationHandle(l, u, f, row)
                [] l.stage = "SEARCH_MATCH" -> searchMatchHandle(l, u, f, row)
                [] l.stage = "COMMERCIAL_QUALIFICATION" -> commercialHandle(l, u, f, row)
                [] OTHER -> {}
    BY <1>1, <1>5, Zenon DEF resolveResult
  <2>1. CASE l.stage = "GREETING"
    <3>1. p \in greetingHandle(l, u, f, row)
      BY <2>0, <2>1
    <3> QED BY <1>1, <1>2, <2>1, <3>1, GreetPlan DEF Decides
  <2>2. CASE l.stage = "QUALIFICATION"
    <3>1. p \in qualificationHandle(l, u, f, row)
      BY <2>0, <2>2
    <3> QED BY <1>1, <1>2, <2>2, <3>1, QualifyPlan DEF Decides
  <2>3. CASE l.stage = "SEARCH_MATCH"
    <3>1. p \in searchMatchHandle(l, u, f, row)
      BY <2>0, <2>3
    <3> QED BY <1>1, <1>2, <1>5, <2>3, <3>1, MatchPlan
  <2>4. CASE l.stage = "COMMERCIAL_QUALIFICATION"
    <3>1. p \in commercialHandle(l, u, f, row)
      BY <2>0, <2>4
    <3>2. CASE hasNewFilterData(u)
      <4>1. p \in qualificationHandle(l, u, f, row)
        BY <3>1, <3>2 DEF commercialHandle
      <4> QED BY <1>1, <1>2, <2>4, <4>1, QualifyPlan DEF Decides
    <3>3. CASE ~hasNewFilterData(u)
      <4>1. PICK asked, pending: p \in process(l, u, f, row, asked, pending) /\ pending = l.pending
        BY <3>1, <3>3 DEF commercialHandle
      <4>2. Commits(p, f, row, pending)
        BY <1>2, <4>1, CommitPlan
      <4> QED BY <1>1, <2>4, <4>1, <4>2 DEF Decides, Commercial
    <3> QED BY <3>2, <3>3
  <2> QED BY <2>1, <2>2, <2>3, <2>4 DEF Active
<1> QED BY <1>3, <1>4, <1>5

\* What a turn may start with.
LEMMA MergedFilters ==
    ASSUME NEW f, NEW u
    PROVE  LET g == mergeFilters(f, u)
           IN IsFilters(g) /\ g.zones \subseteq f.zones \cup u.zones \cup f.offered
<1>1. MergedZones(f, u) \subseteq f.zones \cup u.zones
  BY DEF MergedZones
<1> QED BY <1>1 DEF mergeFilters, IsFilters

-----------------------------------------------------------------------------
(* What a step does to the turn and to the row.                            *)

\* The lists of cards.
IsList(s) == \E T: s \in Seq(T)

LEMMA OrderIsList ==
    ASSUME NEW ids, IsFiniteSet(ids), NEW key
    PROVE  IsList(InOrder(ids, key))
<1>1. Cardinality(ids) \in Nat
  BY FS_CardinalityType
<1>2. PICK s: s = InOrder(ids, key)
  OBVIOUS
<1>3. s = [k \in 1 .. Cardinality(ids) |-> s[k]]
  <2> DEFINE upTo(p) == {q \in ids: q = p \/ Precedes(key[q], key[p]) \/ (key[q] = key[p] /\ q < p)}
             kth(k) == CHOOSE p \in ids: Cardinality(upTo(p)) = k
  <2>1. s = [k \in 1 .. Cardinality(ids) |-> kth(k)]
    BY <1>2, Zenon DEF InOrder
  <2> HIDE DEF kth
  <2> QED BY <2>1
<1>4. s \in [1 .. Cardinality(ids) -> {s[k] : k \in 1 .. Cardinality(ids)}]
  BY <1>3
<1>5. s \in Seq({s[k] : k \in 1 .. Cardinality(ids)})
  BY <1>1, <1>4
<1> QED BY <1>2, <1>5 DEF IsList

LEMMA FirstIsList ==
    ASSUME NEW s, IsList(s)
    PROVE  IsList(FirstOf(s, RESULT_LIMIT))
<1>1. PICK T: s \in Seq(T)
  BY DEF IsList
<1>2. SubSeq(s, 1, IF Len(s) < 3 THEN Len(s) ELSE 3) \in Seq(T)
  BY <1>1
<1> QED BY <1>2 DEF IsList, FirstOf, RESULT_LIMIT

LEMMA StockFinite == \A S \in SUBSET DOMAIN stock: IsFiniteSet(S)
<1>1. DOMAIN stock \subseteq Properties
  BY DEF stock
<1> QED BY <1>1, DialogueAssumption, FS_Subset

LEMMA SearchLists ==
    ASSUME NEW f, NEW o \in search(stock, f)
    PROVE  IsList(o.found)
<1>1. CASE o.found = <<>>
  <2>1. <<>> \in Seq({})
    OBVIOUS
  <2> QED BY <1>1, <2>1 DEF IsList
<1>2. CASE o.found # <<>>
  <2>1. PICK attempt: o.found \in query(stock, f, attempt)
    <3> DEFINE tries == attempts(f)
               lucky == {i \in DOMAIN tries: Hits(stock, f, tries[i]) # {}}
               first == CHOOSE i \in lucky: \A j \in lucky: i <= j
               label == IF hasStockInZone(stock, f.zones, f.operation) THEN NoLabel ELSE "empty_zone"
    <3>1. IF lucky # {}
          THEN o \in {[found |-> s, relaxed |-> tries[first].label] : s \in query(stock, f, tries[first])}
          ELSE o \in {[found |-> <<>>, relaxed |-> label]}
      BY Zenon DEF search
    <3> HIDE DEF tries, lucky, first, label
    <3> QED BY <1>2, <3>1
  <2>2. PICK c \in Candidates(Hits(stock, f, attempt), f, attempt):
           o.found = FirstOf(Ranked(stock, c, f, attempt), RESULT_LIMIT)
    BY <2>1 DEF query
  <2>3. c \subseteq Hits(stock, f, attempt)
    BY <2>2 DEF Candidates
  <2>4. IsFiniteSet(c)
    BY <2>3, StockFinite DEF Hits
  <2>5. IsList(Ranked(stock, c, f, attempt))
    BY <2>4, OrderIsList DEF Ranked
  <2> QED BY <2>2, <2>5, FirstIsList
<1> QED BY <1>1, <1>2

LEMMA TeaserLists ==
    ASSUME NEW operation, NEW zones
    PROVE  IsList(teaserSearch(stock, operation, zones))
<1>1. PICK ids: ids = {p \in DOMAIN stock: stock[p].operation = operation /\ stock[p].zone \in zones}
  OBVIOUS
<1>2. PICK s: s = InOrder(ids, [p \in ids |-> <<0, toComparableArs(stock[p])>>])
  OBVIOUS
<1>3. IsList(s)
  BY <1>1, <1>2, StockFinite, OrderIsList
<1>4. teaserSearch(stock, operation, zones) = pickPriceRange(s)
  BY <1>1, <1>2 DEF teaserSearch
<1>5. IsList(pickPriceRange(s))
  <2>1. CASE pickPriceRange(s) = s
    BY <1>3, <2>1
  <2>2. CASE pickPriceRange(s) = << s[1], s[(Len(s) \div 2) + 1], s[Len(s)] >>
    <3>1. PICK a, b, c: pickPriceRange(s) = <<a, b, c>>
      BY <2>2
    <3>2. <<a, b, c>> \in Seq({a, b, c})
      OBVIOUS
    <3> QED BY <3>1, <3>2 DEF IsList
  <2> QED BY <2>1, <2>2 DEF pickPriceRange
<1> QED BY <1>4, <1>5

\* All the cards pass that the row lists.
LEMMA AllPass ==
    ASSUME IsList(turn.cards), turn.cards = lead.shown \/ turn.cards = <<>>
    PROVE  Passing(turn.cards) = turn.cards
<1>1. PICK T, cards: cards = turn.cards /\ cards \in Seq(T)
  BY DEF IsList
<1>2. PICK n \in Nat: n = Len(cards) /\ DOMAIN cards = 1 .. n /\ cards = [i \in 1 .. n |-> cards[i]]
  BY <1>1
<1>3. {i \in DOMAIN cards: isPropertyWhitelisted(cards[i])} = 1 .. n
  <2>1. CASE cards = lead.shown
    BY <1>2, <2>1 DEF isPropertyWhitelisted, ToSet
  <2>2. CASE cards = <<>>
    BY <1>2, <2>2
  <2> QED BY <1>1, <2>1, <2>2
<1> DEFINE kept == {i \in DOMAIN cards: isPropertyWhitelisted(cards[i])}
           nth(S, k) == CHOOSE i \in S: Cardinality({j \in S: j <= i}) = k
<1>4. Passing(cards) = [k \in 1 .. Cardinality(kept) |-> cards[nth(kept, k)]]
  BY DEF Passing
<1>5. ASSUME NEW k \in 1 .. n PROVE nth(1 .. n, k) = k
  <2>1. ASSUME NEW i \in 1 .. n PROVE Cardinality({j \in 1 .. n: j <= i}) = i
    <3>1. {j \in 1 .. n: j <= i} = 1 .. i
      OBVIOUS
    <3>2. Cardinality(1 .. i) = i
      BY FS_Interval
    <3> QED BY <3>1, <3>2
  <2> QED BY <2>1
<1>6. kept = 1 .. n /\ Cardinality(1 .. n) = n
  BY <1>3, FS_Interval
<1> HIDE DEF kept, nth
<1>7. Passing(cards) = [k \in 1 .. n |-> cards[k]]
  BY <1>4, <1>5, <1>6
<1> QED BY <1>1, <1>2, <1>7

-----------------------------------------------------------------------------
(* The inductive invariant.                                                *)

\* A turn's row takes nothing from anywhere but the lead's row and the message.
RowInv ==
    turn.pc # "idle" =>
        /\ turn.u \in Utterances
        /\ turn.row.f.zones \subseteq lead.f.zones \cup turn.u.zones \cup lead.f.offered
        /\ turn.row.named => lead.named \/ turn.u.name

\* The cards about to be sent are those of the row; when there are none it lists
\* what was seen, unless that was cut.
ScreenInv ==
    /\ turn.pc \in {"idle", "search", "teaser", "schedule", "deliver", "save"}
    /\ turn.pc \in {"search", "teaser", "schedule"} => turn.cards = <<>>
    /\ IF turn.pc = "deliver" /\ turn.cards # <<>> THEN lead.shown = turn.cards
       ELSE ~cut => lead.shown \in {<<>>, seen}

ListInv == turn.pc = "deliver" => IsList(turn.cards)

Ending == turn.pc \in {"deliver", "save"}

\* A second link takes a turn that died between the proposal and the row.
LinkInv ==
    /\ links \in Nat /\ deaths \in Nat /\ links <= 1 + deaths
    /\ turn.pc = "schedule" => links <= deaths
    /\ Ending /\ turn.row.stage = Commercial => links <= deaths
    /\ Ending /\ turn.row.stage = "HUMAN_HANDOFF" => turn.reply = "link"
    /\ lead.stage = Commercial /\ ~(Ending /\ turn.row.stage = "HUMAN_HANDOFF") => links <= deaths

\* Where a property is pending, it is the one last chosen.
PendingInv ==
    /\ turn.visit \in {NoProperty, chosen}
    /\ turn.pc = "schedule" \/ (Ending /\ turn.row.stage = Commercial) =>
          turn.row.pending \in {NoProperty, chosen}
    /\ lead.stage = Commercial => lead.pending \in {NoProperty, chosen}

ScoreInv == ~unscored => lead.score = calculateLeadScore(lead)

\* Where a turn that goes on to a search or a visit has come from.
PlanInv ==
    /\ turn.pc \in {"search", "teaser", "schedule"} => turn.wrote = "keep"
    /\ turn.pc \in {"search", "teaser"} =>
          /\ lead.stage \in Active
          /\ turn.pc = "teaser" => lead.stage # "SEARCH_MATCH"
          /\ IF lead.stage = "GREETING" THEN turn.row.greeted = TRUE ELSE turn.row.greeted = lead.greeted
    /\ turn.pc = "schedule" =>
          /\ lead.stage \in {"SEARCH_MATCH", Commercial}
          /\ lead.stage = "SEARCH_MATCH" => lead.shown # <<>>
          /\ turn.row.greeted = lead.greeted

DialogueInv == Shape /\ RowInv /\ ScreenInv /\ ListInv /\ LinkInv /\ PendingInv /\ ScoreInv /\ PlanInv

-----------------------------------------------------------------------------
(* What each step does, before the invariants are looked at one by one.    *)

Ready(t) == IsTurn(t) /\ IsLead(t.row)

\* The row but for lastSearchIds.
SameButShown(a, b) ==
    /\ IsLead(a) /\ a.stage = b.stage /\ a.f = b.f /\ a.greeted = b.greeted /\ a.named = b.named
    /\ a.answers = b.answers /\ a.asked = b.asked /\ a.pending = b.pending /\ a.signal = b.signal
    /\ a.score = b.score

LEMMA TurnStarts ==
    ASSUME Shape, NEW u, TakeTurn(u)
    PROVE  \E p: /\ IF u.understood THEN Decides(p, lead, u, mergeFilters(lead.f, u), Counted(lead, u))
                    ELSE Stays(p, lead, Counted(lead, Silence)) /\ p.reply = "reformulate"
                 /\ Ready(turn') /\ turn'.pc = p.pc /\ turn'.u = u /\ turn'.row = p.row
                 /\ turn'.reply = p.reply /\ turn'.cards = <<>> /\ turn'.visit = NoProperty
                 /\ turn'.wrote = "keep"
<1>0. IsLead(lead) /\ lead.stage \in Active
  BY DEF Shape, TakeTurn
<1>1. PICK p \in IF u.understood THEN resolveResult(lead, u, mergeFilters(lead.f, u)) ELSE {Reformulate(lead)}:
         turn' = [NoTurn EXCEPT !.pc = p.pc, !.u = u, !.row = p.row, !.reply = p.reply]
  BY DEF TakeTurn
<1>2. /\ IF u.understood THEN Decides(p, lead, u, mergeFilters(lead.f, u), Counted(lead, u))
         ELSE Stays(p, lead, Counted(lead, Silence)) /\ p.reply = "reformulate"
      /\ IsLead(p.row)
  <2>1. CASE u.understood
    <3>1. PICK f: f = mergeFilters(lead.f, u) /\ IsFilters(f)
      BY MergedFilters
    <3>2. p \in resolveResult(lead, u, f)
      BY <1>1, <2>1, <3>1
    <3>3. Decides(p, lead, u, f, Counted(lead, u))
      BY <1>0, <3>1, <3>2, ResolvePlan
    <3>4. PICK row: row = Counted(lead, u) /\ Decides(p, lead, u, f, row)
      BY <3>3
    <3>5. IsLead(p.row)
      BY <3>4 DEF Decides, Stays, Greets, Qualifies, Asks, Commits
    <3> QED BY <2>1, <3>1, <3>3, <3>5
  <2>2. CASE ~u.understood
    <3>1. PICK row: row = Counted(lead, Silence)
      OBVIOUS
    <3>2. /\ IsLead(row) /\ row.stage = lead.stage
      BY <1>0, <3>1, CountedRow
    <3>3. p = [pc |-> "deliver", row |-> row, reply |-> "reformulate"]
      BY <1>1, <2>2, <3>1 DEF Reformulate, Plan
    <3>4. IsPlan(p) /\ p.row = row /\ p.pc = "deliver" /\ p.reply = "reformulate"
      BY <3>3 DEF IsPlan
    <3> QED BY <2>2, <3>1, <3>2, <3>4 DEF Stays
  <2> QED BY <2>1, <2>2
<1>3. PICK pc, row, reply: pc = p.pc /\ row = p.row /\ reply = p.reply
  OBVIOUS
<1>4. turn' = [NoTurn EXCEPT !.pc = pc, !.u = u, !.row = row, !.reply = reply]
  BY <1>1, <1>3
<1>5. /\ IsTurn(turn') /\ turn'.pc = pc /\ turn'.u = u /\ turn'.row = row /\ turn'.reply = reply
      /\ turn'.cards = <<>> /\ turn'.visit = NoProperty /\ turn'.wrote = "keep"
  BY <1>4 DEF NoTurn, IsTurn, TurnFields
<1> QED BY <1>2, <1>3, <1>5 DEF Ready

LEMMA AnsweredOf ==
    ASSUME IsTurn(turn), NEW p, NEW cards, NEW wrote, IsLead(p.row), Answered(p, cards, wrote)
    PROVE  /\ Ready(turn') /\ turn'.pc = "deliver" /\ turn'.u = turn.u /\ turn'.row = p.row
           /\ turn'.reply = p.reply /\ turn'.cards = cards /\ turn'.wrote = wrote /\ turn'.visit = turn.visit
<1>1. PICK row, reply: row = p.row /\ reply = p.reply
  OBVIOUS
<1>2. turn' = [turn EXCEPT !.pc = "deliver", !.row = row, !.reply = reply, !.cards = cards, !.wrote = wrote]
  BY <1>1 DEF Answered
<1>3. /\ IsTurn(turn') /\ turn'.pc = "deliver" /\ turn'.u = turn.u /\ turn'.row = row
      /\ turn'.reply = reply /\ turn'.cards = cards /\ turn'.wrote = wrote /\ turn'.visit = turn.visit
  BY <1>2 DEF IsTurn, TurnFields
<1> QED BY <1>1, <1>3 DEF Ready

LEMMA ShownOf ==
    ASSUME NEW l, IsLead(l), NEW s
    PROVE  SameButShown([l EXCEPT !.shown = s], l) /\ [l EXCEPT !.shown = s].shown = s
  BY DEF SameButShown, IsLead, LeadColumns

\* A row on its way to the answer of a search.
AnswerRow(row, before) ==
    /\ IsLead(row) /\ row.f.zones \subseteq before.f.zones /\ row.named = before.named
    /\ row.greeted = before.greeted /\ row.pending = before.pending

LEMMA SearchPlan ==
    ASSUME Shape, NEW o
    PROVE  AnswerRow(SearchAnswer(o).row, turn.row) /\ SearchAnswer(o).row.stage = "SEARCH_MATCH"
<1>0. PICK row: row = turn.row /\ IsLead(row)
  BY DEF Shape
<1>1. ASSUME NEW r, IsLead(r), r.f = row.f, r.named = row.named, r.greeted = row.greeted,
             r.pending = row.pending, NEW reply, SearchAnswer(o) = Say(r, "SEARCH_MATCH", reply)
      PROVE  AnswerRow(SearchAnswer(o).row, turn.row) /\ SearchAnswer(o).row.stage = "SEARCH_MATCH"
  <2>1. PICK p, stage: p = Say(r, stage, reply) /\ p = SearchAnswer(o) /\ stage = "SEARCH_MATCH"
    BY <1>1
  <2>2. IsLead(p.row) /\ p.row.stage = stage /\ p.row.f = r.f /\ SameRow(p.row, r) /\ p.row.greeted = r.greeted
    BY <1>1, <2>1, SayPlan
  <2> QED BY <1>0, <1>1, <2>1, <2>2 DEF AnswerRow, SameRow
<1>3. \E r, reply, v: /\ SearchAnswer(o) = Say(r, "SEARCH_MATCH", reply)
                      /\ r \in {row, [row EXCEPT !.nameAsked = v], [row EXCEPT !.stockAlert = v]}
  <2>1. \/ \E reply: SearchAnswer(o) = Say(row, "SEARCH_MATCH", reply)
        \/ \E v, reply: SearchAnswer(o) = Say([row EXCEPT !.nameAsked = v], "SEARCH_MATCH", reply)
        \/ SearchAnswer(o) = NothingFits(row)
    BY <1>0, Zenon DEF SearchAnswer
  <2>2. \/ \E reply: NothingFits(row) = Say(row, "SEARCH_MATCH", reply)
        \/ \E v, reply: NothingFits(row) = Say([row EXCEPT !.nameAsked = v], "SEARCH_MATCH", reply)
        \/ \E v, reply: NothingFits(row) = Say([row EXCEPT !.stockAlert = v], "SEARCH_MATCH", reply)
    BY Zenon DEF NothingFits
  <2> QED BY <2>1, <2>2, Zenon
<1>4. PICK r, reply: /\ SearchAnswer(o) = Say(r, "SEARCH_MATCH", reply)
                     /\ IsLead(r) /\ r.f = row.f /\ r.named = row.named /\ r.greeted = row.greeted
                     /\ r.pending = row.pending
  <2>1. PICK r, reply, v: /\ SearchAnswer(o) = Say(r, "SEARCH_MATCH", reply)
                          /\ r \in {row, [row EXCEPT !.nameAsked = v], [row EXCEPT !.stockAlert = v]}
    BY <1>3
  <2>2. CASE r = row
    BY <1>0, <2>1, <2>2
  <2>3. CASE r = [row EXCEPT !.nameAsked = v]
    <3>1. /\ IsLead(r) /\ r.f = row.f /\ r.named = row.named /\ r.greeted = row.greeted
          /\ r.pending = row.pending
      BY <1>0, <2>3 DEF IsLead, LeadColumns
    <3> QED BY <2>1, <3>1
  <2>4. CASE r = [row EXCEPT !.stockAlert = v]
    <3>1. /\ IsLead(r) /\ r.f = row.f /\ r.named = row.named /\ r.greeted = row.greeted
          /\ r.pending = row.pending
      BY <1>0, <2>4 DEF IsLead, LeadColumns
    <3> QED BY <2>1, <3>1
  <2> QED BY <2>1, <2>2, <2>3, <2>4
<1> QED BY <1>1, <1>4

LEMMA SearchOf ==
    ASSUME Shape, Search
    PROVE  \E o: /\ IsList(o.found)
                 /\ SameButShown(lead', lead)
                 /\ lead'.shown = (IF o.found = <<>> THEN lead.shown ELSE o.found)
                 /\ Ready(turn') /\ turn'.pc = "deliver" /\ turn'.u = turn.u /\ turn'.visit = turn.visit
                 /\ AnswerRow(turn'.row, turn.row) /\ turn'.row.stage = "SEARCH_MATCH"
                 /\ turn'.cards \in {<<>>, o.found} /\ (turn'.cards = <<>> => lead'.shown = lead.shown)
                 /\ turn'.wrote \in {"keep", "some"}
<1>0. IsLead(lead) /\ IsTurn(turn)
  BY DEF Shape
<1>1. PICK o \in search(stock, SearchFilters(turn.row.f, turn.u)):
         /\ lead' = Recorded(o.found)
         /\ Answered(SearchAnswer(o), IF SameAsBefore(o) THEN <<>> ELSE o.found,
                     IF o.found = <<>> THEN "keep" ELSE "some")
  BY DEF Search
<1>2. IsList(o.found)
  BY SearchLists
<1>3. SameButShown(lead', lead) /\ lead'.shown = (IF o.found = <<>> THEN lead.shown ELSE o.found)
  <2>1. CASE o.found = <<>>
    BY <1>0, <1>1, <2>1 DEF Recorded, SameButShown
  <2>2. CASE o.found # <<>>
    BY <1>0, <1>1, <2>2, ShownOf DEF Recorded
  <2> QED BY <2>1, <2>2
<1>4. PICK cards, wrote: /\ Answered(SearchAnswer(o), cards, wrote)
                         /\ cards = IF SameAsBefore(o) THEN <<>> ELSE o.found
                         /\ wrote = IF o.found = <<>> THEN "keep" ELSE "some"
  BY <1>1
<1>5. /\ AnswerRow(SearchAnswer(o).row, turn.row) /\ SearchAnswer(o).row.stage = "SEARCH_MATCH"
      /\ IsLead(SearchAnswer(o).row)
  BY SearchPlan DEF AnswerRow
<1>6. /\ Ready(turn') /\ turn'.pc = "deliver" /\ turn'.u = turn.u /\ turn'.row = SearchAnswer(o).row
      /\ turn'.cards = cards /\ turn'.wrote = wrote /\ turn'.visit = turn.visit
  BY <1>0, <1>4, <1>5, AnsweredOf
<1>7. turn'.cards \in {<<>>, o.found} /\ (turn'.cards = <<>> => lead'.shown = lead.shown)
  BY <1>3, <1>4, <1>6 DEF SameAsBefore
<1> QED BY <1>2, <1>3, <1>4, <1>5, <1>6, <1>7

LEMMA TeaserOf ==
    ASSUME Shape, Teaser
    PROVE  /\ IsList(lead'.shown) /\ SameButShown(lead', lead)
           /\ Ready(turn') /\ turn'.pc = "deliver" /\ turn'.u = turn.u /\ turn'.visit = turn.visit
           /\ AnswerRow(turn'.row, turn.row) /\ turn'.cards = lead'.shown
           /\ \/ turn'.row.stage = "QUALIFICATION" /\ turn'.wrote = "none"
              \/ turn'.row.stage = "SEARCH_MATCH" /\ turn'.wrote = "some"
<1>0. IsLead(lead) /\ IsTurn(turn) /\ IsLead(turn.row)
  BY DEF Shape
<1>1. PICK cards: /\ cards = teaserSearch(stock, turn.row.f.op, turn.row.f.zones)
                  /\ lead' = [lead EXCEPT !.shown = cards]
                  /\ IF cards = <<>>
                     THEN \E p \in askMissingFilter(turn.u, turn.row.f, turn.row): Answered(p, <<>>, "none")
                     ELSE Answered(Say([turn.row EXCEPT !.nameAsked = @ \/ shouldAskName(lead)],
                                       "SEARCH_MATCH", "teaser"), cards, "some")
  BY Zenon DEF Teaser
<1>2. IsList(cards) /\ SameButShown(lead', lead) /\ lead'.shown = cards
  BY <1>0, <1>1, TeaserLists, ShownOf
<1>3. CASE cards = <<>>
  <2>1. PICK row, f: row = turn.row /\ f = turn.row.f /\ IsLead(row) /\ IsFilters(f)
    BY <1>0 DEF IsLead
  <2>2. PICK p \in askMissingFilter(turn.u, f, row): Answered(p, <<>>, "none")
    BY <1>1, <1>3, <2>1
  <2>3. Asks(p, f, row)
    BY <2>1, <2>2, MissingPlan
  <2>4. IsLead(p.row) /\ AnswerRow(p.row, turn.row) /\ p.row.stage = "QUALIFICATION"
    BY <2>1, <2>3 DEF Asks, AnswerRow, SameRow
  <2>5. PICK wrote, none: wrote = "none" /\ none = <<>> /\ Answered(p, none, wrote)
    BY <2>2
  <2> QED BY <1>0, <1>2, <1>3, <2>4, <2>5, AnsweredOf
<1>4. CASE cards # <<>>
  <2>1. PICK v, row: row = [turn.row EXCEPT !.nameAsked = v] /\ Answered(Say(row, "SEARCH_MATCH", "teaser"), cards, "some")
    BY <1>1, <1>4
  <2>2. IsLead(row) /\ row.f = turn.row.f /\ row.named = turn.row.named /\ row.greeted = turn.row.greeted
        /\ row.pending = turn.row.pending
    BY <1>0, <2>1 DEF IsLead, LeadColumns
  <2>3. PICK p, stage, reply, wrote: /\ p = Say(row, stage, reply) /\ stage = "SEARCH_MATCH"
                                     /\ wrote = "some" /\ Answered(p, cards, wrote)
    BY <2>1
  <2>4. IsLead(p.row) /\ p.row.stage = stage /\ p.row.f = row.f /\ SameRow(p.row, row) /\ p.row.greeted = row.greeted
    BY <2>2, <2>3, SayPlan
  <2>5. AnswerRow(p.row, turn.row)
    BY <2>2, <2>4 DEF AnswerRow, SameRow
  <2> QED BY <1>0, <1>2, <2>3, <2>4, <2>5, AnsweredOf
<1> QED BY <1>3, <1>4

LEMMA ScheduleOf ==
    ASSUME Shape, Schedule
    PROVE  /\ Ready(turn') /\ turn'.pc = "deliver" /\ turn'.u = turn.u /\ turn'.cards = turn.cards
           /\ turn'.wrote = turn.wrote
           /\ turn'.reply = "link" /\ turn'.visit \in {turn.row.pending, NoProperty}
           /\ turn'.row.stage = "HUMAN_HANDOFF" /\ turn'.row.f = turn.row.f
           /\ turn'.row.named = turn.row.named /\ turn'.row.greeted = turn.row.greeted
<1>1. PICK v, row: /\ v = IF Exists(turn.row.pending) THEN turn.row.pending ELSE NoProperty
                   /\ row = [turn.row EXCEPT !.stage = "HUMAN_HANDOFF", !.pending = NoProperty]
  OBVIOUS
<1>2. turn' = [turn EXCEPT !.pc = "deliver", !.reply = "link", !.visit = v, !.row = row]
  BY <1>1 DEF Schedule, Shape, IsTurn, TurnFields
<1>3. /\ IsLead(row) /\ row.stage = "HUMAN_HANDOFF" /\ row.f = turn.row.f /\ row.named = turn.row.named
      /\ row.greeted = turn.row.greeted
  BY <1>1 DEF Shape, IsLead, LeadColumns
<1>4. /\ IsTurn(turn') /\ turn'.pc = "deliver" /\ turn'.u = turn.u /\ turn'.cards = turn.cards
      /\ turn'.wrote = turn.wrote /\ turn'.reply = "link" /\ turn'.visit = v /\ turn'.row = row
  BY <1>2 DEF Shape, IsTurn, TurnFields
<1> QED BY <1>1, <1>3, <1>4 DEF Ready

LEMMA DeliverOf ==
    ASSUME Shape, Deliver
    PROVE  /\ Ready(turn') /\ turn'.pc = "save" /\ turn'.u = turn.u /\ turn'.row = turn.row
           /\ turn'.reply = turn.reply /\ turn'.visit = turn.visit
<1>1. turn' = [turn EXCEPT !.pc = "save"]
  BY DEF Deliver
<1> QED BY <1>1 DEF Shape, IsTurn, TurnFields, Ready

LEMMA IdleTurn == Ready(NoTurn) /\ NoTurn.pc = "idle" /\ NoTurn.visit = NoProperty
  BY DEF NoTurn, Ready, IsTurn, TurnFields, NewLead, IsLead, LeadColumns, NoFilters, IsFilters

LEMMA SaveOf ==
    ASSUME Shape, Save
    PROVE  /\ IsLead(lead') /\ turn' = NoTurn /\ lead'.shown = lead.shown
           /\ IF turn.reply = "reformulate"
              THEN /\ lead'.stage = lead.stage /\ lead'.pending = lead.pending /\ lead'.score = lead.score
                   /\ calculateLeadScore(lead') = calculateLeadScore(lead)
                   /\ lead'.f.zones = lead.f.zones /\ lead'.named = lead.named
              ELSE /\ lead'.stage = turn.row.stage /\ lead'.pending = turn.row.pending
                   /\ lead'.score = calculateLeadScore(lead')
                   /\ lead'.f = turn.row.f /\ lead'.named = turn.row.named
<1>1. CASE turn.reply = "reformulate"
  <2>1. PICK age: lead' = [lead EXCEPT !.f.age = age] /\ turn' = NoTurn
    BY <1>1 DEF Save
  <2>2. PICK f: f = [lead.f EXCEPT !.age = age]
    OBVIOUS
  <2>3. lead' = [lead EXCEPT !.f = f]
    BY <2>1, <2>2
  <2>4. IsFilters(f) /\ f.zones = lead.f.zones /\ f.op = lead.f.op /\ f.price = lead.f.price
    BY <2>2 DEF Shape, IsLead, IsFilters
  <2>5. /\ IsLead(lead') /\ lead'.f = f /\ lead'.shown = lead.shown /\ lead'.stage = lead.stage
        /\ lead'.pending = lead.pending /\ lead'.score = lead.score /\ lead'.named = lead.named
        /\ lead'.asked = lead.asked /\ lead'.answers = lead.answers /\ lead'.signal = lead.signal
    BY <2>3, <2>4 DEF Shape, IsLead, LeadColumns
  <2>6. calculateLeadScore(lead') = calculateLeadScore(lead)
    BY <2>4, <2>5 DEF calculateLeadScore
  <2> QED BY <1>1, <2>1, <2>4, <2>5, <2>6
<1>2. CASE turn.reply # "reformulate"
  <2>1. PICK row, shown, score: /\ row = turn.row /\ shown = lead.shown /\ score = calculateLeadScore(row)
                                /\ lead' = [row EXCEPT !.shown = shown, !.score = score] /\ turn' = NoTurn
    BY <1>2 DEF Save
  <2>2. /\ IsLead(lead') /\ lead'.f = row.f /\ lead'.shown = shown /\ lead'.stage = row.stage
        /\ lead'.pending = row.pending /\ lead'.score = score /\ lead'.named = row.named
        /\ lead'.asked = row.asked /\ lead'.answers = row.answers /\ lead'.signal = row.signal
    BY <2>1 DEF Shape, IsLead, LeadColumns
  <2>3. calculateLeadScore(lead') = calculateLeadScore(row)
    BY <2>2 DEF calculateLeadScore
  <2> QED BY <1>2, <2>1, <2>2, <2>3
<1> QED BY <1>1, <1>2

LEMMA NewRow ==
    /\ IsLead(NewLead) /\ NewLead.shown = <<>> /\ NewLead.stage = "GREETING"
    /\ NewLead.pending = NoProperty /\ NewLead.score = 0 /\ calculateLeadScore(NewLead) = 0
<1>1. IsLead(NewLead)
  BY DEF NewLead, IsLead, LeadColumns, NoFilters, IsFilters
<1>2. /\ NewLead.asked = <<>> /\ NewLead.answers = NoAnswers /\ NewLead.f.op = "none"
      /\ NewLead.f.price = 0 /\ NewLead.signal = FALSE /\ NewLead.named = FALSE
  BY DEF NewLead, NoFilters
<1>3. NoAnswers["timeline"] = "none"
  BY DEF NoAnswers, NoAnswer, Fields
<1>4. calculateLeadScore(NewLead) = 0
  BY <1>2, <1>3 DEF calculateLeadScore, Points, TimelineWeight
<1> QED BY <1>1, <1>4 DEF NewLead

LEMMA ExpiresOf ==
    ASSUME Shape, SessionExpires
    PROVE  IsLead(lead') /\ lead'.shown = <<>> /\ lead'.stage = "GREETING" /\ lead'.pending = NoProperty
<1>1. PICK named, score: lead' = [NewLead EXCEPT !.named = named, !.score = score]
  BY DEF SessionExpires
<1> QED BY <1>1, NewRow DEF IsLead, LeadColumns

\* The guardrails and the panel change the stage only.
LEMMA StageOf ==
    ASSUME Shape, NEW from, NEW to, SetStage(from, to)
    PROVE  /\ IsLead(lead') /\ lead'.stage = to /\ lead'.shown = lead.shown /\ lead'.pending = lead.pending
           /\ lead'.score = lead.score /\ calculateLeadScore(lead') = calculateLeadScore(lead)
<1>1. lead' = [lead EXCEPT !.stage = to]
  BY DEF SetStage
<1>2. /\ IsLead(lead') /\ lead'.stage = to /\ lead'.shown = lead.shown /\ lead'.pending = lead.pending
      /\ lead'.score = lead.score /\ lead'.f = lead.f /\ lead'.asked = lead.asked
      /\ lead'.answers = lead.answers /\ lead'.signal = lead.signal /\ lead'.named = lead.named
  BY <1>1 DEF Shape, IsLead, LeadColumns
<1> QED BY <1>2 DEF calculateLeadScore

-----------------------------------------------------------------------------
(* The invariant holds at first, and each step keeps it.                   *)

LEMMA InitDialogue == Init => DialogueInv
<1> SUFFICES ASSUME Init PROVE DialogueInv
  OBVIOUS
<1>1. /\ lead = NewLead /\ turn = NoTurn /\ links = 0 /\ deaths = 0 /\ seen = <<>> /\ cut = FALSE
      /\ chosen = NoProperty /\ unscored = FALSE
  BY DEF Init
<1>2. Shape
  BY <1>1, NewRow, IdleTurn DEF Shape, Ready
<1>3. turn.pc = "idle" /\ turn.visit = NoProperty
  BY <1>1, IdleTurn
<1>4. RowInv /\ ScreenInv /\ ListInv /\ LinkInv /\ PendingInv /\ ScoreInv /\ PlanInv
  BY <1>1, <1>3, NewRow
     DEF RowInv, ScreenInv, ListInv, LinkInv, PendingInv, ScoreInv, PlanInv, Ending, Commercial
<1> QED BY <1>2, <1>4 DEF DialogueInv

LEMMA KeepTakeTurn ==
    ASSUME DialogueInv, NEW u \in Utterances, TakeTurn(u)
    PROVE  DialogueInv'
<1>0. /\ Shape /\ RowInv /\ ScreenInv /\ LinkInv /\ PendingInv /\ ScoreInv
      /\ turn.pc = "idle" /\ lead.stage \in Active /\ IsLead(lead)
      /\ UNCHANGED <<lead, status, openVisit, changes, deaths, seen, cut, unscored>>
      /\ chosen' = (IF ~u.understood \/ ~Enters(u) THEN chosen
                    ELSE IF cut THEN Indexed(lead.shown, u.index) ELSE Indexed(seen, u.index))
      /\ links' = (IF u.understood /\ Enters(u) THEN 0 ELSE links)
  BY DEF DialogueInv, TakeTurn, Shape
<1>1. PICK p: /\ IF u.understood THEN Decides(p, lead, u, mergeFilters(lead.f, u), Counted(lead, u))
                 ELSE Stays(p, lead, Counted(lead, Silence)) /\ p.reply = "reformulate"
              /\ Ready(turn') /\ turn'.pc = p.pc /\ turn'.u = u /\ turn'.row = p.row
              /\ turn'.reply = p.reply /\ turn'.cards = <<>> /\ turn'.visit = NoProperty
              /\ turn'.wrote = "keep"
  BY <1>0, TurnStarts
<1>2. PICK f: f = mergeFilters(lead.f, u) /\ f.zones \subseteq lead.f.zones \cup u.zones \cup lead.f.offered
  BY MergedFilters
<1>3. PICK row: /\ row = IF u.understood THEN Counted(lead, u) ELSE Counted(lead, Silence)
                /\ row.greeted = lead.greeted /\ row.pending = lead.pending /\ row.f.zones = lead.f.zones
                /\ (u.understood => row.named = (lead.named \/ u.name))
                /\ (~u.understood => row.named = (lead.named \/ Silence.name))
  BY <1>0, CountedRow
<1>4. \/ Stays(p, lead, row)
      \/ u.understood /\ Decides(p, lead, u, f, row)
  BY <1>1, <1>2, <1>3
<1>n. ~Silence.name
  BY DEF Silence, sanitizeExtraction, sanitizeLeadName, Mute, NoName
<1>5. /\ IsPlan(p) /\ IsLead(p.row) /\ p.pc \in {"deliver", "search", "teaser", "schedule"}
      /\ p.row.named = row.named /\ p.row.f.zones \subseteq row.f.zones \cup f.zones
  BY <1>4 DEF Decides, Stays, Greets, Qualifies, Asks, Commits, SameRow
<1>6. \/ u.understood /\ Enters(u) /\ p.row.pending = Indexed(lead.shown, u.index)
      \/ lead.stage = Commercial /\ p.row.pending = lead.pending
      \/ p.pc # "schedule" /\ (p.pc = "deliver" => p.row.stage # Commercial)
  <2>1. CASE Stays(p, lead, row)
    BY <1>3, <2>1 DEF Stays
  <2>2. CASE u.understood /\ lead.stage = "GREETING" /\ Greets(p, lead, f, row)
    BY <2>2 DEF Greets, Commercial
  <2>3. CASE u.understood /\ lead.stage # "GREETING" /\ Qualifies(p, lead, f, row)
    BY <2>3 DEF Qualifies, Asks, Commercial
  <2>4. CASE u.understood /\ Chooses(lead, u, f) /\ Commits(p, f, row, Indexed(lead.shown, u.index))
    BY <1>2, <2>4 DEF Commits, Chooses, Enters
  <2>5. CASE u.understood /\ lead.stage = Commercial /\ Commits(p, f, row, lead.pending)
    BY <2>5 DEF Commits
  <2> QED BY <1>4, <2>1, <2>2, <2>3, <2>4, <2>5 DEF Decides
<1>7. Shape'
  BY <1>0, <1>1 DEF Shape, Ready
<1>8. RowInv'
  <2>1. p.row.named => lead.named \/ u.name
    BY <1>3, <1>n, <1>5
  <2>2. p.row.f.zones \subseteq lead.f.zones \cup u.zones \cup lead.f.offered
    BY <1>2, <1>3, <1>5
  <2> QED BY <1>0, <1>1, <2>1, <2>2 DEF RowInv
<1>9. ScreenInv' /\ ListInv'
  <2>1. IsList(<<>>)
    <3>1. <<>> \in Seq({})
      OBVIOUS
    <3> QED BY <3>1 DEF IsList
  <2> QED BY <1>0, <1>1, <1>5, <2>1 DEF ScreenInv, ListInv
<1>10. LinkInv'
  <2>1. p.pc = "deliver" => p.row.stage # "HUMAN_HANDOFF"
    BY <1>0, <1>4 DEF Decides, Stays, Greets, Qualifies, Asks, Commits, Active, Commercial
  <2>2. CASE u.understood /\ Enters(u)
    BY <1>0, <1>1, <1>5, <2>1, <2>2 DEF LinkInv, Ending
  <2>3. CASE ~(u.understood /\ Enters(u))
    <3>1. links' = links /\ (lead.stage = Commercial => links <= deaths)
      BY <1>0, <2>3 DEF LinkInv, Ending
    <3> QED BY <1>0, <1>1, <1>5, <1>6, <2>1, <2>3, <3>1 DEF LinkInv, Ending
  <2> QED BY <2>2, <2>3
<1>11. PendingInv'
  <2>1. CASE u.understood /\ Enters(u)
    <3>1. chosen' = Indexed(lead.shown, u.index)
      BY <1>0, <2>1 DEF ScreenInv, Enters, Indexed, Exists
    <3>2. lead.stage # Commercial
      BY <2>1 DEF Enters, Commercial
    <3> QED BY <1>0, <1>1, <1>5, <1>6, <3>1, <3>2 DEF PendingInv, Ending
  <2>2. CASE ~(u.understood /\ Enters(u))
    BY <1>0, <1>1, <1>5, <1>6, <2>2 DEF PendingInv, Ending
  <2> QED BY <2>1, <2>2
<1>12. ScoreInv'
  BY <1>0 DEF ScoreInv
<1>13. PlanInv'
  <2>1. p.pc \in {"search", "teaser"} =>
           /\ p.pc = "teaser" => lead.stage # "SEARCH_MATCH"
           /\ IF lead.stage = "GREETING" THEN p.row.greeted = TRUE ELSE p.row.greeted = lead.greeted
    BY <1>3, <1>4 DEF Decides, Stays, Greets, Qualifies, Asks, Commits
  <2>2. p.pc = "schedule" =>
           /\ lead.stage \in {"SEARCH_MATCH", Commercial}
           /\ lead.stage = "SEARCH_MATCH" => lead.shown # <<>>
           /\ p.row.greeted = lead.greeted
    BY <1>3, <1>4 DEF Decides, Stays, Greets, Qualifies, Asks, Commits, Chooses, Exists, Indexed, Commercial
  <2> QED BY <1>0, <1>1, <2>1, <2>2 DEF PlanInv
<1> QED BY <1>7, <1>8, <1>9, <1>10, <1>11, <1>12, <1>13 DEF DialogueInv

\* A search and a teaser: new cards for the row, and on their way to the lead.
LEMMA KeepAnswer ==
    ASSUME DialogueInv, NEW list, IsList(list), SameButShown(lead', lead), Ready(turn'),
           turn.pc \in {"search", "teaser"}, turn'.pc = "deliver", turn'.u = turn.u,
           turn'.visit = turn.visit, AnswerRow(turn'.row, turn.row),
           turn'.row.stage \in {"SEARCH_MATCH", "QUALIFICATION"},
           turn'.cards \in {<<>>, list}, lead'.shown \in {lead.shown, list},
           turn'.cards = <<>> => lead'.shown \in {lead.shown, <<>>},
           turn'.cards # <<>> => lead'.shown = list,
           UNCHANGED <<status, openVisit, counters, history>>
    PROVE  DialogueInv'
<1>0. /\ Shape /\ RowInv /\ ScreenInv /\ LinkInv /\ PendingInv /\ ScoreInv
      /\ UNCHANGED <<deaths, seen, cut, chosen, links, unscored>>
  BY DEF DialogueInv, counters, history
<1>1. Shape'
  BY DEF Shape, Ready, SameButShown
<1>2. RowInv'
  BY <1>0 DEF RowInv, SameButShown, AnswerRow
<1>3. ScreenInv' /\ ListInv'
  <2>1. IsList(<<>>)
    <3>1. <<>> \in Seq({})
      OBVIOUS
    <3> QED BY <3>1 DEF IsList
  <2> QED BY <1>0, <2>1 DEF ScreenInv, ListInv
<1>4. LinkInv' /\ PendingInv'
  BY <1>0 DEF LinkInv, PendingInv, Ending, SameButShown, Commercial
<1>5. ScoreInv'
  BY <1>0 DEF ScoreInv, SameButShown, calculateLeadScore
<1>6. PlanInv'
  BY DEF PlanInv
<1> QED BY <1>1, <1>2, <1>3, <1>4, <1>5, <1>6 DEF DialogueInv

LEMMA KeepSchedule == ASSUME DialogueInv, Schedule PROVE DialogueInv'
<1>0. /\ Shape /\ RowInv /\ ScreenInv /\ LinkInv /\ PendingInv /\ ScoreInv /\ turn.pc = "schedule"
      /\ UNCHANGED <<lead, status, counters, seen, cut, chosen, unscored>> /\ UNCHANGED deaths
      /\ links' = links + 1
  BY DEF DialogueInv, Schedule, counters
<1>1. /\ Ready(turn') /\ turn'.pc = "deliver" /\ turn'.u = turn.u /\ turn'.cards = turn.cards
      /\ turn'.reply = "link" /\ turn'.visit \in {turn.row.pending, NoProperty}
      /\ turn'.row.stage = "HUMAN_HANDOFF" /\ turn'.row.f = turn.row.f
      /\ turn'.row.named = turn.row.named /\ turn'.row.greeted = turn.row.greeted
  BY <1>0, ScheduleOf
<1>2. Shape' /\ RowInv' /\ ScoreInv' /\ PlanInv'
  BY <1>0, <1>1 DEF Shape, RowInv, ScoreInv, PlanInv, Ready
<1>3. ScreenInv' /\ ListInv'
  <2>1. IsList(<<>>)
    <3>1. <<>> \in Seq({})
      OBVIOUS
    <3> QED BY <3>1 DEF IsList
  <2> QED BY <1>0, <1>1, <2>1 DEF ScreenInv, ListInv
<1>4. LinkInv' /\ PendingInv'
  BY <1>0, <1>1 DEF LinkInv, PendingInv, Ending, Commercial
<1> QED BY <1>2, <1>3, <1>4 DEF DialogueInv

LEMMA KeepDeliver == ASSUME DialogueInv, Deliver PROVE DialogueInv'
<1>0. /\ Shape /\ RowInv /\ ScreenInv /\ ListInv /\ LinkInv /\ PendingInv /\ ScoreInv /\ turn.pc = "deliver"
      /\ UNCHANGED <<lead, status, openVisit, counters, chosen, links, unscored>> /\ UNCHANGED deaths
  BY DEF DialogueInv, Deliver, counters
<1>1. /\ Ready(turn') /\ turn'.pc = "save" /\ turn'.u = turn.u /\ turn'.row = turn.row
      /\ turn'.reply = turn.reply /\ turn'.visit = turn.visit
  BY <1>0, DeliverOf
<1>2. Shape' /\ RowInv' /\ ScoreInv' /\ PlanInv' /\ ListInv'
  BY <1>0, <1>1 DEF Shape, RowInv, ScoreInv, PlanInv, ListInv, Ready
<1>3. ScreenInv'
  <2>1. Passing(turn.cards) = turn.cards
    BY <1>0, AllPass DEF ListInv, ScreenInv
  <2>2. /\ seen' = IF turn.cards = <<>> THEN seen ELSE turn.cards
        /\ cut' = (cut /\ turn.cards = <<>>)
    BY <2>1 DEF Deliver
  <2> QED BY <1>0, <1>1, <2>2 DEF ScreenInv
<1>4. LinkInv' /\ PendingInv'
  BY <1>0, <1>1 DEF LinkInv, PendingInv, Ending
<1> QED BY <1>2, <1>3, <1>4 DEF DialogueInv

LEMMA KeepSave == ASSUME DialogueInv, Save PROVE DialogueInv'
<1>0. /\ Shape /\ RowInv /\ ScreenInv /\ LinkInv /\ PendingInv /\ ScoreInv /\ turn.pc = "save"
      /\ UNCHANGED <<status, openVisit, counters, seen, cut, chosen, links>> /\ UNCHANGED deaths
      /\ unscored' = (unscored /\ turn.reply = "reformulate")
  BY DEF DialogueInv, Save, counters
<1>1. /\ IsLead(lead') /\ turn' = NoTurn /\ lead'.shown = lead.shown
      /\ IF turn.reply = "reformulate"
         THEN /\ lead'.stage = lead.stage /\ lead'.pending = lead.pending /\ lead'.score = lead.score
              /\ calculateLeadScore(lead') = calculateLeadScore(lead)
         ELSE /\ lead'.stage = turn.row.stage /\ lead'.pending = turn.row.pending
              /\ lead'.score = calculateLeadScore(lead')
  BY <1>0, SaveOf
<1>2. Ready(turn') /\ turn'.pc = "idle" /\ turn'.visit = NoProperty
  BY <1>1, IdleTurn
<1>3. Shape' /\ RowInv' /\ ScreenInv' /\ ListInv' /\ PlanInv'
  BY <1>0, <1>1, <1>2 DEF Shape, RowInv, ScreenInv, ListInv, PlanInv, Ready
<1>4. LinkInv' /\ PendingInv'
  BY <1>0, <1>1, <1>2 DEF LinkInv, PendingInv, Ending, Commercial
<1>5. ScoreInv'
  BY <1>0, <1>1 DEF ScoreInv
<1> QED BY <1>3, <1>4, <1>5 DEF DialogueInv

LEMMA KeepDies == ASSUME DialogueInv, TurnDies PROVE DialogueInv'
<1>0. /\ Shape /\ ScreenInv /\ LinkInv /\ PendingInv /\ ScoreInv /\ turn.pc # "idle" /\ turn' = NoTurn
      /\ UNCHANGED <<lead, status, openVisit, turns, changes, seen, chosen, links, unscored>>
      /\ deaths' = deaths + 1 /\ cut' = (cut \/ (turn.pc = "deliver" /\ turn.cards # <<>>))
  BY DEF DialogueInv, TurnDies
<1>1. Ready(turn') /\ turn'.pc = "idle" /\ turn'.visit = NoProperty
  BY <1>0, IdleTurn
<1>2. Shape' /\ RowInv' /\ ScreenInv' /\ ListInv' /\ PlanInv' /\ ScoreInv'
  BY <1>0, <1>1 DEF Shape, RowInv, ScreenInv, ListInv, PlanInv, ScoreInv, Ready
<1>3. LinkInv' /\ PendingInv'
  BY <1>0, <1>1 DEF LinkInv, PendingInv, Ending
<1> QED BY <1>2, <1>3 DEF DialogueInv

\* Between turns.
LEMMA KeepBetween ==
    ASSUME DialogueInv, turn.pc = "idle", IsLead(lead'), UNCHANGED <<turn, deaths, seen, cut, chosen, links>>,
           lead'.shown \in {<<>>, lead.shown},
           lead'.stage # Commercial \/ (lead'.stage = lead.stage /\ lead'.pending = lead.pending),
           ~unscored' => ~unscored /\ lead'.score = lead.score /\ calculateLeadScore(lead') = calculateLeadScore(lead)
    PROVE  DialogueInv'
<1>0. Shape /\ ScreenInv /\ LinkInv /\ PendingInv /\ ScoreInv
  BY DEF DialogueInv
<1>1. Shape' /\ RowInv' /\ ScreenInv' /\ ListInv' /\ PlanInv' /\ ScoreInv'
  BY <1>0 DEF Shape, RowInv, ScreenInv, ListInv, PlanInv, ScoreInv
<1>2. LinkInv' /\ PendingInv'
  BY <1>0 DEF LinkInv, PendingInv, Ending
<1> QED BY <1>1, <1>2 DEF DialogueInv

LEMMA KeepDialogue == DialogueInv /\ [Next]_vars => DialogueInv'
<1> SUFFICES ASSUME DialogueInv, [Next]_vars PROVE DialogueInv'
  OBVIOUS
<1>0. Shape /\ ScreenInv
  BY DEF DialogueInv
<1>1. CASE \E u \in Utterances: TakeTurn(u)
  BY <1>1, KeepTakeTurn
<1>2. CASE Search
  <2>1. PICK o: /\ IsList(o.found)
                /\ SameButShown(lead', lead)
                /\ lead'.shown = (IF o.found = <<>> THEN lead.shown ELSE o.found)
                /\ Ready(turn') /\ turn'.pc = "deliver" /\ turn'.u = turn.u /\ turn'.visit = turn.visit
                /\ AnswerRow(turn'.row, turn.row) /\ turn'.row.stage = "SEARCH_MATCH"
                /\ turn'.cards \in {<<>>, o.found} /\ (turn'.cards = <<>> => lead'.shown = lead.shown)
    BY <1>0, <1>2, SearchOf
  <2>2. turn.pc = "search" /\ UNCHANGED <<status, openVisit, counters, history>>
    BY <1>2 DEF Search
  <2>3. PICK list: list = o.found
    OBVIOUS
  <2>4. /\ IsList(list) /\ turn'.cards \in {<<>>, list} /\ lead'.shown \in {lead.shown, list}
        /\ turn'.cards # <<>> => lead'.shown = list
    BY <2>1, <2>3
  <2> QED BY <2>1, <2>2, <2>4, KeepAnswer
<1>3. CASE Teaser
  <2>1. /\ IsList(lead'.shown) /\ SameButShown(lead', lead)
        /\ Ready(turn') /\ turn'.pc = "deliver" /\ turn'.u = turn.u /\ turn'.visit = turn.visit
        /\ AnswerRow(turn'.row, turn.row) /\ turn'.cards = lead'.shown
        /\ turn'.row.stage \in {"QUALIFICATION", "SEARCH_MATCH"}
    BY <1>0, <1>3, TeaserOf
  <2>2. turn.pc = "teaser" /\ UNCHANGED <<status, openVisit, counters, history>>
    BY <1>3 DEF Teaser
  <2>3. PICK list: list = lead'.shown
    OBVIOUS
  <2> QED BY <2>1, <2>2, <2>3, KeepAnswer
<1>4. CASE Schedule
  BY <1>4, KeepSchedule
<1>5. CASE Deliver
  BY <1>5, KeepDeliver
<1>6. CASE Save
  BY <1>6, KeepSave
<1>7. CASE TurnDies
  BY <1>7, KeepDies
<1>8. CASE SessionExpires
  <2>1. /\ turn.pc = "idle" /\ UNCHANGED <<turn, deaths, seen, cut, chosen, links>> /\ unscored' = TRUE
    BY <1>8 DEF SessionExpires, counters
  <2>2. IsLead(lead') /\ lead'.shown = <<>> /\ lead'.stage = "GREETING"
    BY <1>0, <1>8, ExpiresOf
  <2> QED BY <2>1, <2>2, KeepBetween DEF Commercial
<1>9. CASE AskForHuman \/ Release
  <2>1. PICK from, to: SetStage(from, to) /\ to # Commercial
    BY <1>9 DEF AskForHuman, Release, Commercial
  <2>2. turn.pc = "idle" /\ UNCHANGED <<turn, deaths, seen, cut, chosen, links, unscored>>
    BY <2>1 DEF SetStage, counters, history
  <2>3. /\ IsLead(lead') /\ lead'.stage = to /\ lead'.shown = lead.shown /\ lead'.score = lead.score
        /\ calculateLeadScore(lead') = calculateLeadScore(lead)
    BY <1>0, <2>1, StageOf
  <2> QED BY <2>1, <2>2, <2>3, KeepBetween
<1>10. CASE VisitCloses
  <2>1. turn.pc = "idle" /\ UNCHANGED <<lead, turn, deaths, seen, cut, chosen, links, unscored>>
    BY <1>10 DEF VisitCloses, counters, history
  <2> QED BY <1>0, <2>1, KeepBetween DEF Shape
<1>11. CASE StockChanges \/ UNCHANGED vars
  <2>1. UNCHANGED <<lead, turn, deaths, seen, cut, chosen, links, unscored>>
    BY <1>11 DEF StockChanges, vars, counters, history
  <2> QED BY <2>1 DEF DialogueInv, Shape, RowInv, ScreenInv, ListInv, LinkInv, PendingInv, ScoreInv, PlanInv,
                      Ending
<1> QED BY <1>1, <1>2, <1>3, <1>4, <1>5, <1>6, <1>7, <1>8, <1>9, <1>10, <1>11 DEF Next, handleTurn

LEMMA AlwaysDialogue == Spec => []DialogueInv
<1> QED BY InitDialogue, KeepDialogue, PTL DEF Spec

-----------------------------------------------------------------------------
(* ChoiceIsWhatWasSeen: whatever the stock does between the queries of a   *)
(* turn, the numbers a lead chooses by are those of the cards it last got, *)
(* unless a turn died between storing them and sending them.               *)
THEOREM ChoiceWasSeen == Spec => []ChoiceIsWhatWasSeen
<1>1. DialogueInv => ChoiceIsWhatWasSeen
  BY DEF DialogueInv, ScreenInv, ChoiceIsWhatWasSeen
<1> QED BY <1>1, AlwaysDialogue, PTL

(* VisitIsForTheChosen: the property pending through the commercial        *)
(* questions is the one the lead last chose, and the visit is for it.      *)
THEOREM VisitForTheChosen == Spec => []VisitIsForTheChosen
<1>1. DialogueInv => VisitIsForTheChosen
  BY DEF DialogueInv, PendingInv, VisitIsForTheChosen
<1> QED BY <1>1, AlwaysDialogue, PTL

(* OneLinkPerInterest: the state that proposes a visit is left before it   *)
(* could propose another, except by a turn that died.                      *)
THEOREM OneLink == Spec => []OneLinkPerInterest
<1>1. DialogueInv => OneLinkPerInterest
  BY DEF DialogueInv, LinkInv, OneLinkPerInterest
<1> QED BY <1>1, AlwaysDialogue, PTL

(* ScoreIsCurrent: whatever a turn, the guardrails and the panel write,    *)
(* the score stays that of the row.                                        *)
THEOREM ScoreCurrent == Spec => []ScoreIsCurrent
<1>1. DialogueInv => ScoreIsCurrent
  BY DEF DialogueInv, ScoreInv, ScoreIsCurrent
<1> QED BY <1>1, AlwaysDialogue, PTL

-----------------------------------------------------------------------------
(* What a message leaves in the row.                                       *)

\* Who writes all the words of a place the LLM names means that place, and who
\* writes the name the LLM took, if it may be one, gives it.
WrittenIsMeant ==
    \A m \in Messages:
        /\ \A n \in m.raw.zones: textMentionsNeighborhood(m.text, n) => normalizeNeighborhood(n) \in m.text.zones
        /\ sanitizeLeadName(m.raw.name, m.text) => m.text.presents

LEMMA MeantOnly ==
    ASSUME WrittenIsMeant, NEW u \in Utterances
    PROVE  u.zones \subseteq u.means.zones /\ (u.name => u.means.name)
<1>1. PICK m \in Messages: u = sanitizeExtraction(m.raw, m.text)
  BY DEF Utterances
<1>2. /\ u.zones = {normalizeNeighborhood(n) : n \in {k \in m.raw.zones: textMentionsNeighborhood(m.text, k)}}
      /\ u.name = sanitizeLeadName(m.raw.name, m.text)
      /\ u.means.zones = m.text.zones /\ u.means.name = m.text.presents
  BY <1>1 DEF sanitizeExtraction
<1> QED BY <1>2 DEF WrittenIsMeant

LEMMA OnlySaveEnds ==
    ASSUME DialogueInv, [Next]_vars, turn.pc = "save", turn'.pc = "idle", deaths' = deaths
    PROVE  Save
<1>1. deaths \in Nat
  BY DEF DialogueInv, LinkInv
<1>2. ~TurnDies
  BY <1>1 DEF TurnDies
<1>3. turn' # turn
  OBVIOUS
<1>4. ~(\E u \in Utterances: TakeTurn(u)) /\ ~Search /\ ~Teaser /\ ~Schedule /\ ~Deliver
  BY DEF TakeTurn, Search, Teaser, Schedule, Deliver
<1>5. ~SessionExpires /\ ~AskForHuman /\ ~Release /\ ~VisitCloses /\ ~StockChanges
  BY <1>3 DEF SessionExpires, AskForHuman, Release, SetStage, VisitCloses, StockChanges
<1> QED BY <1>2, <1>3, <1>4, <1>5 DEF Next, handleTurn, vars

(* NothingMadeUp: whatever the LLM repeats or makes up, a turn adds to the *)
(* row only places and a name the lead wrote.                              *)
THEOREM NothingInvented == ASSUME WrittenIsMeant PROVE Spec => NothingMadeUp
<1>1. ASSUME DialogueInv, [Next]_vars, turn.pc = "save", turn'.pc = "idle", deaths' = deaths
      PROVE  /\ lead'.f.zones \ lead.f.zones \subseteq turn.u.means.zones \cup lead.f.offered
             /\ lead'.named => lead.named \/ turn.u.means.name
  <2>1. Save /\ Shape
    BY <1>1, OnlySaveEnds DEF DialogueInv
  <2>2. /\ lead'.f.zones \in {lead.f.zones, turn.row.f.zones}
        /\ (lead'.named = lead.named \/ lead'.named = turn.row.named)
    BY <2>1, SaveOf
  <2>3. /\ turn.u \in Utterances
        /\ turn.row.f.zones \subseteq lead.f.zones \cup turn.u.zones \cup lead.f.offered
        /\ turn.row.named => lead.named \/ turn.u.name
    BY <1>1 DEF DialogueInv, RowInv
  <2>4. turn.u.zones \subseteq turn.u.means.zones /\ (turn.u.name => turn.u.means.name)
    BY <2>3, MeantOnly
  <2> QED BY <2>2, <2>3, <2>4
<1> QED BY <1>1, AlwaysDialogue, PTL DEF Spec, NothingMadeUp

-----------------------------------------------------------------------------
(* The handlers against those of LeadConversation.                         *)

Outcome(next, shown, greet, visit) == [next |-> next, shown |-> shown, greet |-> greet, visit |-> visit]

LEMMA ChangedOutcome ==
    ASSUME NEW next, NEW shown, NEW r, r = Outcome(next, shown, FALSE, FALSE), NEW v
    PROVE  /\ [r EXCEPT !.greet = v] = Outcome(next, shown, v, FALSE)
           /\ [r EXCEPT !.visit = v] = Outcome(next, shown, FALSE, v)
<1> DEFINE C == {"next", "shown", "greet", "visit"}
<1>1. /\ r = [c \in C |-> r[c]] /\ r.next = next /\ r.shown = shown /\ r.greet = FALSE /\ r.visit = FALSE
  BY DEF Outcome
<1>2. PICK g, w: g = Outcome(next, shown, v, FALSE) /\ w = Outcome(next, shown, FALSE, v)
  OBVIOUS
<1>3. /\ g = [c \in C |-> g[c]] /\ g.next = next /\ g.shown = shown /\ g.greet = v /\ g.visit = FALSE
      /\ w = [c \in C |-> w[c]] /\ w.next = next /\ w.shown = shown /\ w.greet = FALSE /\ w.visit = v
  BY <1>2 DEF Outcome
<1>4. [r EXCEPT !.greet = v] = g
  <2>1. PICK x: x = [r EXCEPT !.greet = v]
    OBVIOUS
  <2>2. x = [c \in C |-> x[c]] /\ x.next = next /\ x.shown = shown /\ x.greet = v /\ x.visit = FALSE
    BY <1>1, <2>1
  <2> QED BY <1>3, <2>1, <2>2
<1>5. [r EXCEPT !.visit = v] = w
  <2>1. PICK x: x = [r EXCEPT !.visit = v]
    OBVIOUS
  <2>2. x = [c \in C |-> x[c]] /\ x.next = next /\ x.shown = shown /\ x.greet = FALSE /\ x.visit = v
    BY <1>1, <2>1
  <2> QED BY <1>3, <2>1, <2>2
<1> QED BY <1>2, <1>4, <1>5

LEMMA StayAllowed ==
    ASSUME NEW l, NEW next, next = l.state
    PROVE  Outcome(next, "keep", FALSE, FALSE) \in Conversation!resolveResult(l)
  BY DEF Conversation!resolveResult, Conversation!Result, Outcome

\* What a search may end in.
Answers(l, next, shown) ==
    \/ next = "QUALIFICATION" /\ shown = "keep"
    \/ next = "SEARCH_MATCH" /\ shown \in {"keep", "some"}
    \/ next = "QUALIFICATION" /\ shown = "none" /\ l.state # "SEARCH_MATCH"

LEMMA QualifyAllowed ==
    ASSUME NEW l, NEW next, NEW shown, Answers(l, next, shown)
    PROVE  Outcome(next, shown, FALSE, FALSE) \in Conversation!qualificationHandle(l)
  BY DEF Answers, Conversation!qualificationHandle, Conversation!Result, Outcome

LEMMA AnswerAllowed ==
    ASSUME NEW l, l.state \in Active, NEW next, NEW shown, Answers(l, next, shown), NEW greet,
           greet = IF l.state = "GREETING" THEN ~l.greeted ELSE FALSE
    PROVE  Outcome(next, shown, greet, FALSE) \in Conversation!resolveResult(l)
<1>1. PICK r: r = Outcome(next, shown, FALSE, FALSE) /\ r \in Conversation!qualificationHandle(l)
  BY QualifyAllowed
<1>2. CASE l.state = "GREETING"
  <2>1. [r EXCEPT !.greet = ~l.greeted] \in Conversation!greetingHandle(l)
    BY <1>1 DEF Conversation!greetingHandle
  <2>2. PICK g: g = greet /\ g = ~l.greeted
    BY <1>2
  <2>3. [r EXCEPT !.greet = g] = Outcome(next, shown, g, FALSE)
    BY <1>1, ChangedOutcome
  <2> QED BY <1>2, <2>1, <2>2, <2>3 DEF Conversation!resolveResult
<1>3. CASE l.state # "GREETING"
  <2>1. r = Outcome(next, shown, greet, FALSE)
    BY <1>1, <1>3
  <2> QED BY <1>1, <1>3, <2>1
          DEF Active, Conversation!resolveResult, Conversation!searchMatchHandle, Conversation!commercialHandle
<1> QED BY <1>2, <1>3

LEMMA GreetingAllowed ==
    ASSUME NEW l, l.state = "GREETING", NEW greet, greet = ~l.greeted
    PROVE  Outcome("GREETING", "keep", greet, FALSE) \in Conversation!resolveResult(l)
<1>1. PICK r, next, shown: /\ r = Conversation!Result("GREETING", "keep") /\ next = "GREETING" /\ shown = "keep"
                           /\ r = Outcome(next, shown, FALSE, FALSE)
  BY DEF Conversation!Result, Outcome
<1>2. [r EXCEPT !.greet = ~l.greeted] \in Conversation!greetingHandle(l)
  BY <1>1 DEF Conversation!greetingHandle
<1>3. PICK g: g = greet /\ g = ~l.greeted
  OBVIOUS
<1>5. r = Outcome(next, shown, FALSE, FALSE)
  BY <1>1
<1>4. [r EXCEPT !.greet = g] = Outcome(next, shown, g, FALSE)
  BY <1>5, ChangedOutcome
<1> QED BY <1>1, <1>2, <1>3, <1>4 DEF Conversation!resolveResult

LEMMA CommercialAllowed ==
    ASSUME NEW l, (l.state = "SEARCH_MATCH" /\ l.searched) \/ l.state = Commercial
    PROVE  /\ Outcome(Commercial, "keep", FALSE, FALSE) \in Conversation!resolveResult(l)
           /\ Outcome("HUMAN_HANDOFF", "keep", FALSE, TRUE) \in Conversation!resolveResult(l)
<1>1. Outcome(Commercial, "keep", FALSE, FALSE) \in Conversation!commercialProcess
  BY DEF Conversation!commercialProcess, Conversation!Result, Outcome, Commercial
<1>3. Outcome("HUMAN_HANDOFF", "keep", FALSE, TRUE) \in Conversation!commercialProcess
  <2>1. PICK r, next, shown, yes: /\ r = Conversation!Result("HUMAN_HANDOFF", "keep") /\ yes = TRUE
                                  /\ next = "HUMAN_HANDOFF" /\ shown = "keep"
                                  /\ r = Outcome(next, shown, FALSE, FALSE)
    BY DEF Conversation!Result, Outcome
  <2>3. r = Outcome(next, shown, FALSE, FALSE)
    BY <2>1
  <2>2. [r EXCEPT !.visit = yes] = Outcome(next, shown, FALSE, yes)
    BY <2>3, ChangedOutcome
  <2> QED BY <2>1, <2>2 DEF Conversation!commercialProcess, Conversation!enterScheduling
<1>2. Conversation!commercialProcess \subseteq Conversation!resolveResult(l)
  BY DEF Commercial, Conversation!resolveResult, Conversation!searchMatchHandle, Conversation!commercialHandle
<1> QED BY <1>1, <1>2, <1>3

\* The lead as LeadConversation sees it.
SeenLead == [state |-> lead.stage, searched |-> lead.shown # <<>>, greeted |-> lead.greeted]

LEMMA SeenFields ==
    /\ SeenLead.state = lead.stage /\ SeenLead.searched = (lead.shown # <<>>)
    /\ SeenLead.greeted = lead.greeted
  BY DEF SeenLead

LEMMA TakeTurnFollows ==
    ASSUME DialogueInv, NEW u \in Utterances, TakeTurn(u), turn'.pc = "deliver", turn'.reply # "reformulate"
    PROVE  Outcome(turn'.row.stage, turn'.wrote, turn'.row.greeted /\ ~lead.greeted, links' > links)
             \in Conversation!resolveResult(SeenLead)
<1>0. Shape /\ links \in Nat /\ IsLead(lead) /\ lead.stage \in Active /\ links' \in {0, links}
  BY DEF DialogueInv, LinkInv, Shape, TakeTurn
<1>1. PICK p: /\ IF u.understood THEN Decides(p, lead, u, mergeFilters(lead.f, u), Counted(lead, u))
                 ELSE Stays(p, lead, Counted(lead, Silence)) /\ p.reply = "reformulate"
              /\ turn'.pc = p.pc /\ turn'.row = p.row /\ turn'.reply = p.reply /\ turn'.wrote = "keep"
  BY <1>0, TurnStarts
<1>2. PICK row, f, l, shown: /\ Decides(p, lead, u, f, row) /\ row.greeted = lead.greeted
                             /\ l = SeenLead /\ shown = "keep"
  BY <1>0, <1>1, CountedRow
<1>3. l.state = lead.stage /\ l.searched = (lead.shown # <<>>) /\ l.greeted = lead.greeted
  BY <1>2, SeenFields
<1>4. PICK next, greet: /\ next = p.row.stage /\ greet = (p.row.greeted /\ ~lead.greeted)
  OBVIOUS
<1>5. Outcome(next, shown, greet, FALSE) \in Conversation!resolveResult(l)
  <2>1. CASE Stays(p, lead, row)
    <3>1. next = l.state /\ greet = FALSE
      BY <1>2, <1>3, <1>4, <2>1 DEF Stays
    <3> QED BY <1>2, <3>1, StayAllowed
  <2>2. CASE lead.stage = "GREETING" /\ Greets(p, lead, f, row)
    <3>1. l.state = "GREETING" /\ greet = ~l.greeted /\ next \in {"GREETING", "QUALIFICATION"}
      BY <1>1, <1>3, <1>4, <2>2 DEF Greets
    <3>2. next = "QUALIFICATION" => Answers(l, next, shown)
      BY <1>2 DEF Answers
    <3>3. CASE next = "QUALIFICATION"
      BY <1>0, <1>3, <3>1, <3>2, <3>3, AnswerAllowed
    <3>4. CASE next = "GREETING"
      BY <1>2, <3>1, <3>4, GreetingAllowed
    <3> QED BY <3>1, <3>3, <3>4
  <2>3. CASE lead.stage # "GREETING" /\ Qualifies(p, lead, f, row)
    <3>1. greet = FALSE /\ next = "QUALIFICATION" /\ l.state # "GREETING"
      BY <1>1, <1>2, <1>3, <1>4, <2>3 DEF Qualifies, Asks, SameRow
    <3>2. Answers(l, next, shown)
      BY <1>2, <3>1 DEF Answers
    <3> QED BY <1>0, <1>3, <3>1, <3>2, AnswerAllowed
  <2>4. ASSUME NEW pending, Commits(p, f, row, pending),
               Chooses(lead, u, f) \/ lead.stage = Commercial
        PROVE  Outcome(next, shown, greet, FALSE) \in Conversation!resolveResult(l)
    <3>1. greet = FALSE /\ next = Commercial
      BY <1>1, <1>2, <1>4, <2>4 DEF Commits
    <3>2. (l.state = "SEARCH_MATCH" /\ l.searched) \/ l.state = Commercial
      <4>1. Chooses(lead, u, f) => lead.stage = "SEARCH_MATCH" /\ lead.shown # <<>>
        BY DEF Chooses, Exists, Indexed
      <4> QED BY <1>3, <2>4, <4>1, Zenon
    <3> QED BY <1>2, <3>1, <3>2, CommercialAllowed
  <2> QED BY <1>2, <2>1, <2>2, <2>3, <2>4 DEF Decides
<1>6. (links' > links) = FALSE
  BY <1>0
<1> QED BY <1>1, <1>2, <1>4, <1>5, <1>6

LEMMA SearchFollows ==
    ASSUME DialogueInv, Search \/ Teaser
    PROVE  Outcome(turn'.row.stage, turn'.wrote, turn'.row.greeted /\ ~lead.greeted, links' > links)
             \in Conversation!resolveResult(SeenLead)
<1>0. Shape /\ PlanInv /\ links \in Nat /\ links' = links /\ turn.pc \in {"search", "teaser"}
  BY DEF DialogueInv, LinkInv, Search, Teaser, history
<1>1. PICK l: l = SeenLead
  OBVIOUS
<1>2. l.state = lead.stage /\ l.greeted = lead.greeted /\ lead.stage \in Active
  BY <1>0, <1>1, SeenFields DEF PlanInv
<1>3. turn'.row.greeted = turn.row.greeted /\ Answers(l, turn'.row.stage, turn'.wrote)
  <2>1. CASE Search
    BY <1>0, <2>1, SearchOf DEF AnswerRow, Answers
  <2>2. CASE Teaser
    <3>1. l.state # "SEARCH_MATCH"
      BY <1>0, <1>2, <2>2 DEF PlanInv, Teaser
    <3> QED BY <1>0, <2>2, <3>1, TeaserOf DEF AnswerRow, Answers
  <2> QED BY <2>1, <2>2
<1>4. PICK next, shown, greet: /\ next = turn'.row.stage /\ shown = turn'.wrote
                               /\ greet = (turn'.row.greeted /\ ~lead.greeted)
  OBVIOUS
<1>5. greet = IF l.state = "GREETING" THEN ~l.greeted ELSE FALSE
  BY <1>0, <1>2, <1>3, <1>4 DEF PlanInv
<1>6. Outcome(next, shown, greet, FALSE) \in Conversation!resolveResult(l)
  BY <1>2, <1>3, <1>4, <1>5, AnswerAllowed
<1>7. (links' > links) = FALSE
  BY <1>0
<1> QED BY <1>1, <1>4, <1>6, <1>7

LEMMA ScheduleFollows ==
    ASSUME DialogueInv, Schedule
    PROVE  Outcome(turn'.row.stage, turn'.wrote, turn'.row.greeted /\ ~lead.greeted, links' > links)
             \in Conversation!resolveResult(SeenLead)
<1>0. Shape /\ PlanInv /\ links \in Nat /\ links' = links + 1 /\ turn.pc = "schedule"
  BY DEF DialogueInv, LinkInv, Schedule
<1>1. PICK l: l = SeenLead
  OBVIOUS
<1>2. (l.state = "SEARCH_MATCH" /\ l.searched) \/ l.state = Commercial
  BY <1>0, <1>1, SeenFields DEF PlanInv
<1>3. turn'.row.stage = "HUMAN_HANDOFF" /\ turn'.wrote = "keep" /\ turn'.row.greeted = lead.greeted
  BY <1>0, ScheduleOf DEF PlanInv
<1>4. PICK next, shown, greet, visit: /\ next = turn'.row.stage /\ shown = turn'.wrote
                                      /\ greet = (turn'.row.greeted /\ ~lead.greeted)
                                      /\ visit = (links' > links)
  OBVIOUS
<1>7. links' > links /\ ~(turn'.row.greeted /\ ~lead.greeted)
  BY <1>0, <1>3
<1>5. next = "HUMAN_HANDOFF" /\ shown = "keep" /\ greet = FALSE /\ visit = TRUE
  BY <1>3, <1>4, <1>7
<1>6. Outcome(next, shown, greet, visit) \in Conversation!resolveResult(l)
  BY <1>2, <1>5, CommercialAllowed
<1> QED BY <1>1, <1>4, <1>6

(* HandlersFollowConversation: every answer a handler gives, with what it  *)
(* writes on the way, is one that LeadConversation, and so all that is     *)
(* proved there of the state and of the privacy notice, allows for.        *)
THEOREM HandlersAllowed == Spec => HandlersFollowConversation
<1>1. ASSUME DialogueInv, [Next]_vars, turn.pc # "deliver", turn'.pc = "deliver", turn'.reply # "reformulate"
      PROVE  [next |-> turn'.row.stage, shown |-> turn'.wrote,
              greet |-> turn'.row.greeted /\ ~lead.greeted, visit |-> links' > links]
             \in Conversation!resolveResult([state |-> lead.stage, searched |-> lead.shown # <<>>,
                                             greeted |-> lead.greeted])
  <2>1. ~Deliver /\ ~Save /\ ~TurnDies
    BY <1>1, IdleTurn DEF Deliver, Save, TurnDies
  <2>2. turn' # turn
    BY <1>1
  <2>3. ~SessionExpires /\ ~AskForHuman /\ ~Release /\ ~VisitCloses /\ ~StockChanges
    BY <2>2 DEF SessionExpires, AskForHuman, Release, SetStage, VisitCloses, StockChanges
  <2>4. (\E u \in Utterances: TakeTurn(u)) \/ Search \/ Teaser \/ Schedule
    BY <1>1, <2>1, <2>2, <2>3 DEF Next, handleTurn, vars
  <2>5. Outcome(turn'.row.stage, turn'.wrote, turn'.row.greeted /\ ~lead.greeted, links' > links)
          \in Conversation!resolveResult(SeenLead)
    BY <1>1, <2>4, TakeTurnFollows, SearchFollows, ScheduleFollows
  <2> QED BY <2>5, Zenon DEF Outcome, SeenLead
<1> QED BY <1>1, AlwaysDialogue, PTL DEF Spec, HandlersFollowConversation
=============================================================================
