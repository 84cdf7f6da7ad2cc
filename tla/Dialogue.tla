------------------------------- MODULE Dialogue -------------------------------
(***************************************************************************)
(* What the bot says and remembers: the dispatch of a turn                 *)
(* (ConversationEngine.resolveResult), the handlers of each state, the     *)
(* search they call and the row they leave behind, while the agency        *)
(* changes its stock.  One lead; its turns exclude each other, which is    *)
(* TurnPipeline's theorem, and its guardrails are LeadConversation's: of   *)
(* them only what changes the row here is repeated.                        *)
(*                                                                         *)
(* A turn is split where it reads the stock or writes: dispatch, search    *)
(* (or teaser, or appointment), sending, saving.  Each query of the stock  *)
(* is atomic.  A message is what module Extraction makes of it: a record   *)
(* of the set Utterances.  LeadPropertyView, the alert to the agency and   *)
(* the push of a proposal only write elsewhere, and are left out.          *)
(***************************************************************************)
EXTENDS Extraction

CONSTANTS
    Attr,           \* Attr[p]: the columns of property p, which do not change here
    Messages,       \* what the lead may write, and what the LLM makes of it
    MaxTurns, MaxStockChanges, MaxDeaths     \* bounds

Properties == DOMAIN Attr
NoProperty == 0

ASSUME DialogueAssumption ==
    /\ Properties \subseteq Nat \ {0} /\ IsFiniteSet(Properties)
    /\ {MaxTurns, MaxStockChanges, MaxDeaths} \subseteq Nat

Active == {"GREETING", "QUALIFICATION", "SEARCH_MATCH", "COMMERCIAL_QUALIFICATION"}

VARIABLES
    lead,       \* the lead's row
    status,     \* status[p]: ACTIVE, PAUSED (or any other), DELETED
    openVisit,  \* the lead has an appointment PROPOSED or CONFIRMED
    turn,       \* the turn in progress
    turns, changes, deaths,              \* counters, up to the bounds
    seen, cut, chosen, links, unscored   \* history, see the end of the module

counters == <<turns, changes, deaths>>
history == <<seen, cut, chosen, links, unscored>>
vars == <<lead, status, openVisit, turn, counters, history>>

stock == [p \in {q \in Properties: status[q] = "ACTIVE"} |-> Attr[p]]

-----------------------------------------------------------------------------
(* The row.  f are its f* columns; age counts the turns since price or     *)
(* currency were last told, up to the limit isPriceStale looks at.         *)

STALE_PRICE_TURNS == 3

NoFilters == [op |-> "none", zones |-> {}, price |-> 0, currency |-> "none",
              rooms |-> 0, garage |-> FALSE, offered |-> {}, age |-> 0]

NewLead == [stage |-> "GREETING", f |-> NoFilters, shown |-> <<>>,
            greeted |-> FALSE, named |-> FALSE, nameAsked |-> FALSE,
            answers |-> NoAnswers, asked |-> <<>>, pending |-> NoProperty,
            stockAlert |-> FALSE, signal |-> FALSE, score |-> 0]

\* What is extracted, and kept of it.
Utterances == {sanitizeExtraction(m.raw, m.text) : m \in Messages}
Silence == sanitizeExtraction(Mute, Blank)

NoTurn == [pc |-> "idle", u |-> Silence, row |-> NewLead, cards |-> <<>>,
           reply |-> "", wrote |-> "keep", visit |-> NoProperty]

TypeOK ==
    /\ lead.stage \in Active \cup {"HUMAN_HANDOFF"}
    /\ lead.f.zones \subseteq Zones /\ lead.f.offered \subseteq Zones
    /\ lead.f.age \in 0 .. STALE_PRICE_TURNS + 1
    /\ lead.shown \in SeqOf(Properties, RESULT_LIMIT)
    /\ ToSet(lead.asked) \subseteq Fields /\ IsInjective(lead.asked)
    /\ lead.pending \in Properties \cup {NoProperty}
    /\ lead.score \in 0 .. 100
    /\ status \in [Properties -> {"ACTIVE", "PAUSED", "DELETED"}]
    /\ turn.pc \in {"idle", "search", "teaser", "schedule", "deliver", "save"}

Init ==
    /\ lead = NewLead
    /\ status = [p \in Properties |-> "ACTIVE"]
    /\ openVisit = FALSE
    /\ turn = NoTurn
    /\ turns = 0 /\ changes = 0 /\ deaths = 0
    /\ seen = <<>> /\ cut = FALSE /\ chosen = NoProperty /\ links = 0 /\ unscored = FALSE

-----------------------------------------------------------------------------
(* Score.                                                                  *)

TimelineWeight(v) == CASE v = "inmediato" -> 25 [] v = "1-3 meses" -> 15
                       [] v = "3-6 meses" -> 5 [] OTHER -> 0
PaymentWeight(v) == CASE v = "contado" -> 25 [] v \in {"credito", "mixto"} -> 10 [] OTHER -> 0
GuaranteeWeight(v) == CASE v \in {"propietaria", "caucion"} -> 20 [] v = "recibo" -> 10
                        [] v = "no_tiene" -> -15 [] OTHER -> 0
Points(cond, n) == IF cond THEN n ELSE 0

calculateLeadScore(l) ==
    LET sum == Points(l.asked # <<>>, 30)
               + TimelineWeight(l.answers["timeline"])
               + Points(l.f.op = "SALE", PaymentWeight(l.answers["paymentMethod"]))
               + Points(l.f.op = "RENT", GuaranteeWeight(l.answers["guarantee"]))
               + Points(l.signal, 15) + Points(l.named, 5) + Points(l.f.price # 0, 5)
    IN IF sum < 0 THEN 0 ELSE IF sum > 100 THEN 100 ELSE sum

-----------------------------------------------------------------------------
(* Filters.                                                                *)

Older(age) == IF age > STALE_PRICE_TURNS THEN age ELSE age + 1

hasNewFilterData(u) ==
    u.op # "none" \/ u.zones # {} \/ u.price # 0 \/ u.rooms # 0 \/ u.garage # "none"

MergedZones(f, u) == IF u.zones = {} THEN f.zones
                     ELSE IF u.intent = "change_filters" THEN u.zones
                     ELSE f.zones \cup u.zones

\* mergeFilters, the turn price or currency were told in, and a pending offer
\* of zones taken up without naming them.
mergeFilters(f, u) ==
    LET told == u.price # 0 \/ u.currency # "none"
        zones == MergedZones(f, u)
        takesOffer == f.offered # {} /\ zones = {} /\ u.accepts
    IN [op |-> IF u.op # "none" THEN u.op ELSE f.op,
        zones |-> IF takesOffer THEN f.offered ELSE zones,
        price |-> IF u.price # 0 THEN u.price ELSE f.price,
        currency |-> IF u.currency # "none" THEN u.currency ELSE f.currency,
        rooms |-> IF u.rooms # 0 THEN u.rooms ELSE f.rooms,
        garage |-> IF u.garage # "none" THEN u.garage = "yes" ELSE f.garage,
        offered |-> IF takesOffer THEN {} ELSE f.offered,
        age |-> IF told \/ (f.price = 0 /\ f.currency = "none") THEN 0 ELSE Older(f.age)]

countFilledCoreFilters(f) ==
    Points(f.zones # {}, 1) + Points(f.price # 0, 1) + Points(f.rooms # 0, 1)

isPriceStale(f) == f.price # 0 /\ f.age > STALE_PRICE_TURNS

isSuspiciousSalePrice(f) == \/ f.currency = "USD" /\ f.price < 20000
                            \/ f.currency = "ARS" /\ f.price < 5000000

-----------------------------------------------------------------------------
(* What a handler decides: the step that follows, the row the turn will    *)
(* save, and what is answered.  `row' is the row a turn saves in any case: *)
(* one turn more, and the name if it was told.                             *)

Counted(l, u) ==
    [l EXCEPT !.named = @ \/ u.name,
              !.f.age = IF l.f.price = 0 /\ l.f.currency = "none" THEN 0 ELSE Older(@)]

Plan(pc, row, reply) == [pc |-> pc, row |-> row, reply |-> reply]
Say(row, stage, reply) == Plan("deliver", [row EXCEPT !.stage = stage], reply)
Ask(row, f, reply) == Say([row EXCEPT !.f = f], "QUALIFICATION", reply)

shouldAskName(l) == ~l.named /\ ~l.nameAsked

\* Public: the greeting uses it as well.
suggestAlternativeZones(f, row) ==
    {Ask(row, [f EXCEPT !.zones = {}, !.offered = s], "other zones") :
        s \in UNION {Suggestions(stock, z, f.op) : z \in f.zones}}

\* The question for what is missing: zone, rooms, price.  Whom the zone is left
\* to offers the busiest ones; who was offered zones is offered them again.
askMissingFilter(u, f, row) ==
    LET busiest == topStockZones(stock, f.op, 2) \ {{}}
    IN IF f.zones = {} /\ u.delegates /\ busiest # {}
       THEN {Ask(row, [f EXCEPT !.offered = s], "these zones?") : s \in busiest}
       ELSE IF f.zones = {} /\ f.offered # {} THEN {Ask(row, f, "these zones, again?")}
       ELSE {Ask(row, f, "question")}

qualificationHandle(l, u, f, row) ==
    LET with == zonesWithStock(stock, f.zones, f.op)
    IN IF f.zones # {} /\ with = {} THEN suggestAlternativeZones(f, row)
       ELSE IF with # f.zones THEN {Ask(row, [f EXCEPT !.zones = with], "nothing in some zones")}
       ELSE IF u.price # 0 /\ f.op = "SALE" /\ isSuspiciousSalePrice(f)
            THEN {Ask(row, f, "dollars or pesos?")}
       ELSE IF f.op # "none" /\ countFilledCoreFilters(f) >= 2
            THEN {Plan("search", [row EXCEPT !.f = f], "")}
       ELSE IF l.stage # "SEARCH_MATCH" /\ f.op # "none" /\ f.zones # {}
            THEN {Plan("teaser", [row EXCEPT !.f = f], "")}
       ELSE askMissingFilter(u, f, row)

\* markGreeted goes with everything but the second question for the operation.
greetingHandle(l, u, f, row) ==
    LET greeted == [row EXCEPT !.greeted = TRUE]
    IN IF f.op = "none"
       THEN IF ~hasStockInZone(stock, f.zones, "none")
            THEN {[p EXCEPT !.row.stage = "GREETING"] : p \in suggestAlternativeZones(f, greeted)}
            ELSE {Say([greeted EXCEPT !.f = f], "GREETING",
                      IF l.greeted THEN "buy or rent?" ELSE "greeting")}
       ELSE IF shouldAskName(l)
            THEN {Ask([greeted EXCEPT !.nameAsked = TRUE], f, "name?")}
            ELSE qualificationHandle(l, u, f, greeted)

-----------------------------------------------------------------------------
(* Commercial qualification.                                               *)

MAX_COMMERCIAL_QUESTIONS == 2

QUESTION_ORDER(op) == CASE op = "RENT" -> <<"guarantee", "timeline">>
                        [] op = "SALE" -> <<"paymentMethod", "hasPropertyToSell">>
                        [] op = "TEMP_RENT" -> <<"timeline">>
                        [] OTHER -> <<>>

WithAnswers(l, u) ==
    [q \in Fields |-> IF u.answers[q] # NoAnswer THEN u.answers[q] ELSE l.answers[q]]

\* The fields still to be asked; what was asked or answered is not.
Unasked(op, answers, asked) ==
    IF Len(asked) >= MAX_COMMERCIAL_QUESTIONS THEN <<>>
    ELSE SelectSeq(QUESTION_ORDER(op),
                   LAMBDA q: q \notin ToSet(asked) /\ answers[q] = NoAnswer)

\* Mutant: the first property chosen stays.
KeepFirstPending(l, u, f, row, asked, pending) ==
    LET answers == WithAnswers(l, u)
        next == Unasked(l.f.op, answers, asked)
        first == IF l.pending # NoProperty THEN l.pending ELSE pending
    IN IF next = <<>>
       THEN {Plan("schedule", [row EXCEPT !.answers = answers, !.pending = first], "")}
       ELSE {Say([row EXCEPT !.f = f, !.answers = answers, !.pending = first,
                             !.asked = Append(asked, Head(next))],
                 "COMMERCIAL_QUALIFICATION", "commercial question")}

\* Once there is nothing to ask the visit is proposed; that turn saves neither
\* filters nor what had been asked before.
process(l, u, f, row, asked, pending) ==
    LET answers == WithAnswers(l, u)
        next == Unasked(l.f.op, answers, asked)
    IN IF next = <<>>
       THEN {Plan("schedule", [row EXCEPT !.answers = answers, !.pending = pending], "")}
       ELSE {Say([row EXCEPT !.f = f, !.answers = answers, !.pending = pending,
                             !.asked = Append(asked, Head(next))],
                 "COMMERCIAL_QUALIFICATION", "commercial question")}

commercialHandle(l, u, f, row) ==
    IF hasNewFilterData(u) THEN qualificationHandle(l, u, f, row)
    ELSE process(l, u, f, row, l.asked, l.pending)

-----------------------------------------------------------------------------
(* Search match.                                                           *)

Exists(p) == p # NoProperty /\ status[p] # "DELETED"

\* The id under the index the lead gave, paused or not.
Indexed(shown, i) == IF i \in DOMAIN shown THEN shown[i] ELSE NoProperty

\* A "?", or what the LLM takes for a question.
hasUnansweredQuestion(u) == u.question \/ u.intent = "ask_question"

searchMatchHandle(l, u, f, row) ==
    LET choice == Indexed(l.shown, u.index)
        only == Indexed(l.shown, 1)
    IN IF u.index # 0 /\ ~u.confirms
       THEN IF hasNewFilterData(u) THEN qualificationHandle(l, u, f, row)
            ELSE {Say(row, "SEARCH_MATCH", "which one?")}
       ELSE IF u.index # 0
       THEN IF ~Exists(choice) THEN {Say(row, "SEARCH_MATCH", "not among those")}
            ELSE IF hasUnansweredQuestion(u) THEN {Say(row, "SEARCH_MATCH", "answer")}
            ELSE process(l, u, f, row, <<>>, choice)
       ELSE IF hasUnansweredQuestion(u) /\ Len(l.shown) = 1 /\ Exists(only)
       THEN {Say(row, "SEARCH_MATCH", "answer")}
       ELSE qualificationHandle(l, u, f, row)

-----------------------------------------------------------------------------
(* The dispatch.                                                           *)

delegatesZone(u, f) == f.zones = {} /\ u.delegates

isRedirectable(l, u, f) ==
    /\ ~delegatesZone(u, f)
    /\ l.stage # "GREETING"
    /\ \/ u.intent = "off_topic"
       \/ u.intent = "ask_question" /\ ~hasNewFilterData(u)

\* A buying signal and a change of subject are answered where the lead stands;
\* what else the message said is not kept.
resolveResult(l, u, f) ==
    LET row == Counted(l, u)
    IN IF u.signal THEN {Say([row EXCEPT !.signal = TRUE], l.stage, "the adviser will tell")}
       ELSE IF isRedirectable(l, u, f) THEN {Say(row, l.stage, "redirect")}
       ELSE CASE l.stage = "GREETING" -> greetingHandle(l, u, f, row)
              [] l.stage = "QUALIFICATION" -> qualificationHandle(l, u, f, row)
              [] l.stage = "SEARCH_MATCH" -> searchMatchHandle(l, u, f, row)
              [] l.stage = "COMMERCIAL_QUALIFICATION" -> commercialHandle(l, u, f, row)
              [] OTHER -> {}

Reformulate(l) == Plan("deliver", Counted(l, Silence), "reformulate")

\* A choice of the lead reaches CommercialQualificationHandler.enter.
Enters(u) ==
    /\ lead.stage = "SEARCH_MATCH" /\ u.index # 0 /\ u.confirms
    /\ ~u.signal /\ ~hasUnansweredQuestion(u)
    /\ ~isRedirectable(lead, u, mergeFilters(lead.f, u))
    /\ Exists(Indexed(lead.shown, u.index))

\* The lead says u: extraction, merge, dispatch and the handler's first queries.
TakeTurn(u) ==
    /\ turn.pc = "idle" /\ turns < MaxTurns
    /\ lead.stage \in Active
    /\ \E p \in IF u.understood THEN resolveResult(lead, u, mergeFilters(lead.f, u))
                ELSE {Reformulate(lead)}:
          turn' = [NoTurn EXCEPT !.pc = p.pc, !.u = u, !.row = p.row, !.reply = p.reply]
    /\ turns' = turns + 1
    /\ chosen' = IF ~u.understood \/ ~Enters(u) THEN chosen
                 ELSE IF cut THEN Indexed(lead.shown, u.index) ELSE Indexed(seen, u.index)
    /\ links' = IF u.understood /\ Enters(u) THEN 0 ELSE links
    /\ UNCHANGED <<lead, status, openVisit, changes, deaths, seen, cut, unscored>>

-----------------------------------------------------------------------------
(* The search of a turn.                                                   *)

\* A budget told long ago is kept, and not applied.
SearchFilters(f, u) ==
    [operation |-> f.op, zones |-> f.zones, minRooms |-> f.rooms, garage |-> f.garage,
     maxPrice |-> IF isPriceStale(f) THEN 0 ELSE f.price,
     currency |-> IF isPriceStale(f) THEN "none" ELSE f.currency,
     flexible |-> u.flexible]

\* Mutant: the ids are stored as the database lists them.
RecordUnsorted(found) ==
    IF found = <<>> THEN lead
    ELSE [lead EXCEPT !.shown = SetToSortSeq(ToSet(found), LAMBDA p, q: p < q)]

\* A search that finds nothing leaves what the lead has on its screen.
Recorded(found) == IF found = <<>> THEN lead ELSE [lead EXCEPT !.shown = found]

SameAsBefore(o) == /\ lead.stage = "SEARCH_MATCH" /\ o.relaxed = NoLabel
                   /\ o.found # <<>> /\ o.found = lead.shown

\* No stock for what was asked, though the zone has some: a notice is offered,
\* and taken up by a short yes.
NothingFits(row) ==
    IF lead.stockAlert THEN Say(row, "SEARCH_MATCH", "nothing")
    ELSE IF ~hasNewFilterData(turn.u) /\ turn.u.accepts
         THEN Say([row EXCEPT !.stockAlert = TRUE], "SEARCH_MATCH", "will tell you")
    ELSE Say([row EXCEPT !.nameAsked = @ \/ shouldAskName(lead)], "SEARCH_MATCH", "shall I tell you?")

SearchAnswer(o) ==
    LET row == turn.row
    IN IF SameAsBefore(o) THEN Say(row, "SEARCH_MATCH", "the same")
       ELSE IF o.found # <<>>
       THEN Say([row EXCEPT !.nameAsked = @ \/ shouldAskName(lead)], "SEARCH_MATCH", o.relaxed)
       ELSE IF o.relaxed = NoLabel THEN NothingFits(row)
       ELSE Say(row, "SEARCH_MATCH", o.relaxed)

Answered(p, cards, wrote) ==
    turn' = [turn EXCEPT !.pc = "deliver", !.row = p.row, !.reply = p.reply,
                         !.cards = cards, !.wrote = wrote]

\* triggerSearch
Search ==
    /\ turn.pc = "search"
    /\ \E o \in search(stock, SearchFilters(turn.row.f, turn.u)):
          /\ lead' = Recorded(o.found)
          /\ Answered(SearchAnswer(o), IF SameAsBefore(o) THEN <<>> ELSE o.found,
                      IF o.found = <<>> THEN "keep" ELSE "some")
    /\ UNCHANGED <<status, openVisit, counters, history>>

\* triggerTeaser: the ids are stored even when there are none.
Teaser ==
    /\ turn.pc = "teaser"
    /\ LET cards == teaserSearch(stock, turn.row.f.op, turn.row.f.zones)
       IN /\ lead' = [lead EXCEPT !.shown = cards]
          /\ IF cards = <<>>
             THEN \E p \in askMissingFilter(turn.u, turn.row.f, turn.row): Answered(p, <<>>, "none")
             ELSE Answered(Say([turn.row EXCEPT !.nameAsked = @ \/ shouldAskName(lead)],
                               "SEARCH_MATCH", "teaser"), cards, "some")
    /\ UNCHANGED <<status, openVisit, counters, history>>

\* Mutant: the lead stays where it was.
ScheduleAndStay ==
    /\ turn.pc = "schedule"
    /\ openVisit' = TRUE /\ links' = links + 1
    /\ turn' = [turn EXCEPT !.pc = "deliver", !.reply = "link",
                    !.visit = IF Exists(turn.row.pending) THEN turn.row.pending ELSE NoProperty,
                    !.row.stage = "COMMERCIAL_QUALIFICATION"]
    /\ UNCHANGED <<lead, status, counters, seen, cut, chosen, unscored>>

\* enterScheduling: the appointment exists before anything is sent or saved.
Schedule ==
    /\ turn.pc = "schedule"
    /\ openVisit' = TRUE /\ links' = links + 1
    /\ turn' = [turn EXCEPT !.pc = "deliver", !.reply = "link",
                    !.visit = IF Exists(turn.row.pending) THEN turn.row.pending ELSE NoProperty,
                    !.row.stage = "HUMAN_HANDOFF", !.row.pending = NoProperty]
    /\ UNCHANGED <<lead, status, counters, seen, cut, chosen, unscored>>

-----------------------------------------------------------------------------
(* The end of a turn.                                                      *)

isPropertyWhitelisted(p) == p \in ToSet(lead.shown)

\* sendActions: the cards, numbered, that the row read again lets pass.
Passing(cards) ==
    LET kept == {i \in DOMAIN cards: isPropertyWhitelisted(cards[i])}
    IN [n \in 1 .. Cardinality(kept) |->
           cards[CHOOSE i \in kept: Cardinality({j \in kept: j <= i}) = n]]

Deliver ==
    /\ turn.pc = "deliver"
    /\ LET sent == Passing(turn.cards)
       IN /\ seen' = IF sent = <<>> THEN seen ELSE sent
          /\ cut' = (cut /\ sent = <<>>)
    /\ turn' = [turn EXCEPT !.pc = "save"]
    /\ UNCHANGED <<lead, status, openVisit, counters, chosen, links, unscored>>

\* Mutant: the score is that of the row the turn began with.
SaveScoredBefore ==
    /\ turn.pc = "save"
    /\ lead' = IF turn.reply = "reformulate" THEN [lead EXCEPT !.f.age = turn.row.f.age]
               ELSE [turn.row EXCEPT !.shown = lead.shown, !.score = calculateLeadScore(lead)]
    /\ unscored' = (unscored /\ turn.reply = "reformulate")
    /\ turn' = NoTurn
    /\ UNCHANGED <<status, openVisit, counters, seen, cut, chosen, links>>

\* persistLeadUpdate.  A turn that was not understood saves its count only.
Save ==
    /\ turn.pc = "save"
    /\ lead' = IF turn.reply = "reformulate" THEN [lead EXCEPT !.f.age = turn.row.f.age]
               ELSE [turn.row EXCEPT !.shown = lead.shown, !.score = calculateLeadScore(turn.row)]
    /\ unscored' = (unscored /\ turn.reply = "reformulate")
    /\ turn' = NoTurn
    /\ UNCHANGED <<status, openVisit, counters, seen, cut, chosen, links>>

\* A query or a provider throws, or the process dies; the job has no attempts left.
TurnDies ==
    /\ turn.pc # "idle" /\ deaths < MaxDeaths
    /\ deaths' = deaths + 1
    /\ turn' = NoTurn
    /\ cut' = (cut \/ (turn.pc = "deliver" /\ turn.cards # <<>>))
    /\ UNCHANGED <<lead, status, openVisit, turns, changes, seen, chosen, links, unscored>>

-----------------------------------------------------------------------------
(* The guardrails and the agency.                                          *)

\* session_expired: everything but the name, and the score, starts anew.
SessionExpires ==
    /\ turn.pc = "idle" /\ lead.stage \in Active /\ ~openVisit
    /\ lead' = [NewLead EXCEPT !.named = lead.named, !.score = lead.score]
    /\ unscored' = TRUE
    /\ UNCHANGED <<status, openVisit, turn, counters, seen, cut, chosen, links>>

SetStage(from, to) ==
    /\ turn.pc = "idle" /\ lead.stage \in from
    /\ lead' = [lead EXCEPT !.stage = to]
    /\ UNCHANGED <<status, openVisit, turn, counters, history>>

AskForHuman == SetStage(Active, "HUMAN_HANDOFF")

\* By the panel, or by the 48 hours.
Release == SetStage({"HUMAN_HANDOFF"}, IF lead.shown # <<>> THEN "SEARCH_MATCH" ELSE "QUALIFICATION")

VisitCloses ==
    /\ openVisit /\ turn.pc = "idle"
    /\ openVisit' = FALSE
    /\ UNCHANGED <<lead, status, turn, counters, history>>

\* The agency pauses, reactivates or deletes a property, at any point of a turn.
StockChanges ==
    /\ changes < MaxStockChanges
    /\ \E p \in Properties, s \in {"ACTIVE", "PAUSED", "DELETED"}:
          /\ status[p] \notin {"DELETED", s}
          /\ status' = [status EXCEPT ![p] = s]
    /\ changes' = changes + 1
    /\ UNCHANGED <<lead, openVisit, turn, turns, deaths, history>>

handleTurn == \/ \E u \in Utterances: TakeTurn(u)
              \/ Search \/ Teaser \/ Schedule \/ Deliver \/ Save \/ TurnDies

Next == \/ handleTurn
        \/ SessionExpires \/ AskForHuman \/ Release \/ VisitCloses
        \/ StockChanges

Spec == Init /\ [][Next]_vars

-----------------------------------------------------------------------------
(* History.  seen: the cards of the last answer that had some, as they were *)
(* numbered; cut: ids were stored whose cards never left; chosen: the one   *)
(* the lead meant in its last choice, read off what it had seen (off what   *)
(* was stored, if cut); links: appointments proposed since that choice;     *)
(* unscored: the session began anew and no turn has been scored since.      *)

\* The numbers a lead chooses by are those it has on its screen: lastSearchIds is
\* what was last sent, in its order, unless a turn died between storing the ids
\* and sending the cards.
ChoiceIsWhatWasSeen == turn.pc \in {"idle", "save"} /\ ~cut => lead.shown \in {<<>>, seen}

\* A visit is proposed for the card the lead last chose or, if it is deleted, for
\* none: whatever was asked, searched or chosen before in between.
VisitIsForTheChosen == turn.visit \in {NoProperty, chosen}

\* One choice gets one link to the agenda, and one more for each turn that died.
OneLinkPerInterest == links <= 1 + deaths

\* The score the panel sorts by is that of the row, unless the session was reset
\* and the turn that did so was not understood.
ScoreIsCurrent == turn.pc = "idle" /\ ~unscored => lead.score = calculateLeadScore(lead)

\* The row takes from a message only what the lead wrote in it: no place the LLM
\* repeats from earlier turns comes back, no name is made up.  (A place may also be
\* one of those offered, taken up by a yes.)
NothingMadeUp ==
    [][turn.pc = "save" /\ turn'.pc = "idle" /\ deaths' = deaths =>
          /\ lead'.f.zones \ lead.f.zones \subseteq turn.u.means.zones \cup lead.f.offered
          /\ lead'.named => lead.named \/ turn.u.means.name]_vars

Conversation == INSTANCE LeadConversation WITH
    Null <- "null", ServiceWindow <- 1, HandoffTimeout <- 2, SessionExpiration <- 3,
    Arriving <- {}, MaxReplies <- 1, inbox <- {}, inboundAge <- 0, unsupported <- FALSE,
    manual <- "idle", release <- "null", outbound <- FALSE, noticed <- FALSE, late <- {}

\* What the handlers do to the row is among what LeadConversation lets them.
HandlersFollowConversation ==
    [][turn.pc # "deliver" /\ turn'.pc = "deliver" /\ turn'.reply # "reformulate" =>
          [next |-> turn'.row.stage, shown |-> turn'.wrote,
           greet |-> turn'.row.greeted /\ ~lead.greeted, visit |-> links' > links]
          \in Conversation!resolveResult([state |-> lead.stage, searched |-> lead.shown # <<>>,
                                          greeted |-> lead.greeted])]_vars

=============================================================================
