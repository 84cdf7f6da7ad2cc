--------------------------------- MODULE Panel ---------------------------------
(***************************************************************************)
(* One browser tab of the panel, its person, the server and the others who *)
(* write there: the screens (PanelScreens), the wizard (Onboarding), a     *)
(* customer's page (PublicAgenda) and the session under them (PanelClient),*)
(* composed.                                                               *)
(***************************************************************************)
EXTENDS PublicAgenda

vars == <<session_vars, calls, page, typed, server_vars, unheard, heard, wizard, left>>

TypeOK ==
    /\ valid \subseteq Tokens /\ issued \in 0 .. Cardinality(Tokens)
    /\ {stored, session} \subseteq Tokens \cup {Nobody} /\ refused \subseteq Tokens
    /\ page.at \in Screens \cup {"home", "login", "wizard", "public"}
    /\ page.shown \in {"content", "spinner", "error", "done"} /\ page.touched \subseteq Cols
    /\ DOMAIN page.values = Cols /\ DOMAIN page.data = Cols
    /\ \A c \in Cols: {row[c], page.values[c], page.data[c]} \subseteq Value
    /\ \A k \in Slots: calls[k].st \in {"free", "prompt", "sent", "done", "no", "bad", "401", "broken"}
    /\ wizard.phase \in Phases /\ wizard.step \in 1 .. 3
    /\ page.agenda.slots \subseteq Hours /\ held.offered \subseteq Days \X Hours

PlanFields == {"at", "push", "screens", "buttons", "logins", "logouts", "presses", "opens", "drafts",
               "others", "losses", "refusals", "reloads", "ends", "visits"}

\* A tab is opened on the panel, on the wizard or on a customer's link.
ASSUME PlansAssumption ==
    \A plan \in Plans: /\ plan = [f \in PlanFields |-> plan[f]]
                       /\ plan.at \in {"login", "wizard", "public"} /\ plan.screens \subseteq Screens

Init ==
    /\ left \in Plans
    /\ valid = {} /\ issued = 0 /\ stored = Nobody /\ session = Nobody /\ refused = {}
    /\ calls = [k \in Slots |-> IF left.at = "public" /\ k = 1 THEN AskDetails ELSE Free]
    /\ page = CASE left.at = "login" -> LoginScreen
                [] left.at = "wizard" -> Screen("wizard")
                [] left.at = "public" -> AgendaPage
    /\ typed = 0 /\ row = NothingTyped
    /\ made = [d \in Drafts |-> 0] /\ unheard = made /\ heard = {}
    /\ wizard = NewWizard /\ held = [tenant |-> FALSE, owner |-> FALSE, record |-> TRUE, stock |-> FALSE,
                                      visit |-> "PROPOSED", taken |-> {}, offered |-> {}, mine |-> {}]

-----------------------------------------------------------------------------
(* The server.                                                             *)

Writes == {"assign", "update", "config"}
Inserts == {"note", "reply", "create", "newPerson"}

\* A lead or a property that is gone is a 404 for what is asked of it.
OfTheRecord == LeadCalls \cup {"update", "status", "remove"}

\* The person's email is unique; nothing else that is typed is.
Accepts(call) ==
    CASE call.kind \in OfTheRecord -> held.record
      [] call.kind = "newPerson" -> made[call.draft] = 0
      [] call.kind = "tenant" -> SlugFree
      [] call.kind = "bootstrap" -> NoOwnerYet
      [] call.kind = "ownerLogin" -> OwnerMayLogin
      [] call.kind \in WithNothing -> StillProposed
      [] call.kind = "config" -> \A c \in DOMAIN call.body: c = Required => call.body[c] >= 0
      [] OTHER -> TRUE

\* A new session, for an answer that carries its token.
Issue(call) == IF call.kind \in WithPassword THEN issued + 1 ELSE Nobody

\* The columns the body names, and no other.
Saved(call) == IF call.kind \in Writes
               THEN [c \in Cols |-> IF c \in DOMAIN call.body THEN call.body[c] ELSE row[c]] ELSE row

\* Logging in opens a session and logging out closes it; deactivating or resetting a
\* person closes hers, and the person may be the one at the panel.
Sessions(call) == CASE call.kind \in WithPassword -> {valid \cup {issued + 1}}
                    [] call.kind = "logout" -> {valid \ {call.token}}
                    [] call.kind \in Unguarded -> {valid, {}}
                    [] OTHER -> {valid}

Holding(call) == CASE call.kind = "tenant" -> TenantInserted
                   [] call.kind = "bootstrap" -> OwnerInserted
                   [] call.kind \in {"suppress", "remove"} -> [held EXCEPT !.record = FALSE]
                   [] call.kind = "import" -> [held EXCEPT !.stock = TRUE]
                   [] call.kind \in WithNothing -> Visited(call)
                   [] OTHER -> held

\* What the answer carries.
Result(call) == CASE call.kind \in WithPassword -> issued + 1
                  [] call.kind = "slots" -> getAvailableSlots(call.body[1])
                  [] call.kind = "count" -> held.stock
                  [] call.kind \in {"import", "webhook", "card", "photo", "details", "book"} -> << >>
                  [] OTHER -> row'

\* What a request changes, and the record its answer shows.
Apply(k) ==
    LET call == calls[k] IN
    /\ Issue(call) \in Tokens \cup {Nobody}
    /\ valid' \in Sessions(call)
    /\ issued' = IF call.kind \in WithPassword THEN issued + 1 ELSE issued
    /\ row' = Saved(call)
    /\ made' = IF call.kind \in Inserts THEN [made EXCEPT ![call.draft] = @ + 1] ELSE made
    /\ held' = Holding(call)
    /\ calls' = [calls EXCEPT ![k].st = "done",
                     ![k].result = Result(call)]

\* The answer to a tab that has been reloaded goes nowhere.
Unsent(k, cs) == IF calls[k].alive = "dropped" THEN [cs EXCEPT ![k] = Free] ELSE cs

Refuse(k, status) ==
    /\ calls' = Unsent(k, [calls EXCEPT ![k].st = status])
    /\ UNCHANGED <<valid, issued, server_vars, unheard>>

ServeOk(k) ==
    /\ Admitted(calls[k]) /\ Accepts(calls[k]) /\ calls[k].alive # "dropped"
    /\ Apply(k) /\ UNCHANGED <<unheard, left>>

\* The same, for a tab that has been reloaded.
ServeDropped(k) ==
    /\ Admitted(calls[k]) /\ Accepts(calls[k]) /\ calls[k].alive = "dropped"
    /\ calls[k].kind \notin WithPassword
    /\ valid' \in Sessions(calls[k])
    /\ row' = Saved(calls[k])
    /\ made' = IF calls[k].kind \in Inserts THEN [made EXCEPT ![calls[k].draft] = @ + 1] ELSE made
    /\ unheard' = IF calls[k].kind \in Inserts
                  THEN [unheard EXCEPT ![calls[k].draft] = @ + 1] ELSE unheard
    /\ held' = Holding(calls[k])
    /\ calls' = Ended(k)
    /\ UNCHANGED <<issued, left>>

\* 409 and 400 for what is not accepted; any other refusal of what is not possible now.
ServeNo(k) ==
    \/ ~Accepts(calls[k]) /\ Admitted(calls[k]) /\ calls[k].kind \notin WithPassword
       /\ Refuse(k, "no") /\ UNCHANGED left
    \/ Admitted(calls[k]) /\ left.refusals > 0 /\ left' = [left EXCEPT !.refusals = @ - 1]
       /\ Refuse(k, "bad")

\* 401: the session, or the password, is not accepted.
Serve401(k) ==
    \/ (~Admitted(calls[k]) \/ (calls[k].kind = "ownerLogin" /\ ~Accepts(calls[k])))
       /\ Refuse(k, "401") /\ UNCHANGED left
    \/ calls[k].kind = "login" /\ left.refusals > 0 /\ left' = [left EXCEPT !.refusals = @ - 1]
       /\ Refuse(k, "401")

Serve(k) ==
    /\ calls[k].st = "sent"
    /\ ServeOk(k) \/ ServeDropped(k) \/ ServeNo(k) \/ Serve401(k)
    /\ UNCHANGED <<stored, session, refused, page, typed, heard, wizard>>

\* Somebody else saves a column.
OthersSave(c) ==
    /\ left.others > 0 /\ row[c] # Theirs
    /\ left' = [left EXCEPT !.others = @ - 1]
    /\ row' = [row EXCEPT ![c] = Theirs]
    /\ UNCHANGED <<session_vars, calls, page, typed, made, held, unheard, heard, wizard>>

-----------------------------------------------------------------------------
(* Answers.                                                                *)

AfterOk(k) ==
    LET kind == calls[k].kind IN
    CASE kind \in Loads -> Loaded(k)
      [] kind = "assign" -> AssignmentSaved(k)
      [] kind = "config" -> ConfigSaved(k)
      [] kind \in {"create", "update"} -> CloseAndFetch(k)
      [] kind = "note" -> NoteAdded(k)
      [] kind \in {"reply", "release"} -> FetchLead(k)
      [] kind \in {"newPerson", "deactivate", "reset"} -> FetchPeople(k)
      [] kind \in {"contacted", "optOut"} -> LeadUpdated(k)
      [] kind \in {"status", "remove"} -> FetchStock(k)
      [] kind = "suppress" -> Suppressed(k)
      [] kind = "visit" -> VisitUpdated(k)
      [] kind = "photo" -> PhotoUploaded(k)
      [] kind \in WithNothing -> AgendaAnswered(k, TRUE)

OfAScreen(k) == calls[k].kind \notin WithPassword \cup WithMasterKey \cup ReadinessCalls
                                     \cup {"me", "logout"}

\* Functions of the page that is mounted, or of one that is gone.
ScreenOk(k) ==
    /\ OfAScreen(k)
    /\ IF calls[k].alive = "gone"
       THEN IF calls[k].kind = "suppress" /\ session # Nobody THEN Suppressed(k) ELSE Unmounted(k)
       ELSE AfterOk(k)
    /\ heard' = IF calls[k].kind \notin Writes \cup Inserts THEN heard
                ELSE heard \cup {calls[k].draft} \cup {calls[k].body[c] : c \in DOMAIN calls[k].body}
    /\ UNCHANGED <<stored, session, wizard>>

AuthOk(k) ==
    /\ \/ calls[k].kind = "login" /\ LoginAnswered(k)
       \/ calls[k].kind = "me" /\ MeAnswered(k)
       \/ calls[k].kind = "logout" /\ LogoutEnded(k)
    /\ UNCHANGED <<heard, wizard>>

WizardOk(k) ==
    /\ \/ calls[k].kind = "tenant" /\ TenantCreated(k)
       \/ calls[k].kind = "bootstrap" /\ OwnerCreated(k)
       \/ calls[k].kind = "ownerLogin" /\ OwnerLoggedIn(k)
    /\ UNCHANGED <<stored, session, page, heard>>

ReadinessEnded(k, ok) ==
    /\ calls[k].kind \in ReadinessCalls /\ ReadinessAnswered(k, ok)
    /\ UNCHANGED <<stored, session>>

DeliverOk(k) ==
    /\ calls[k].st = "done"
    /\ ScreenOk(k) \/ AuthOk(k) \/ WizardOk(k) \/ (ReadinessEnded(k, TRUE) /\ UNCHANGED heard)
    /\ UNCHANGED <<valid, issued, refused, typed, server_vars, unheard, left>>

ScreenError(k) ==
    /\ OfAScreen(k)
    /\ IF calls[k].kind \in WithNothing THEN AgendaAnswered(k, FALSE) ELSE
       IF calls[k].kind \in Loads
       THEN IF calls[k].alive = "page" THEN LoadFailed(k) ELSE page' = page /\ calls' = Ended(k)
       ELSE Failed(k)
    /\ UNCHANGED <<stored, session, wizard>>

AuthError(k) ==
    /\ \/ calls[k].kind \in {"login", "me"} /\ LoginFailed(k)
       \/ calls[k].kind = "logout" /\ LogoutEnded(k)
    /\ UNCHANGED wizard

WizardError(k) ==
    /\ \/ calls[k].kind = "tenant" /\ TenantFailed(k, calls[k].st)
       \/ calls[k].kind = "bootstrap" /\ OwnerFailed(k, calls[k].st)
       \/ calls[k].kind = "ownerLogin" /\ OwnerLoginFailed(k, calls[k].st)
    /\ UNCHANGED <<stored, session, page>>

DeliverError(k) ==
    /\ calls[k].st \in {"no", "bad", "broken"}
    /\ ScreenError(k) \/ AuthError(k) \/ WizardError(k) \/ ReadinessEnded(k, FALSE)
    /\ UNCHANGED <<valid, issued, refused, typed, server_vars, unheard, heard, left>>

\* request() calls the callback before it throws.
Deliver401(k) ==
    /\ calls[k].st = "401"
    /\ SignedOut(k)
    /\ refused' = refused \cup ({calls[k].token} \ {Nobody})
    /\ wizard' = IF calls[k].kind = "ownerLogin"
                 THEN [wizard EXCEPT !.phase = "login-error", !.error = "401"] ELSE wizard
    /\ UNCHANGED <<valid, issued, typed, server_vars, unheard, heard, left>>

Deliver(k) == DeliverOk(k) \/ DeliverError(k) \/ Deliver401(k)
-----------------------------------------------------------------------------
Person ==
    \/ PressLogin \/ PressLogout \/ Reload \/ \E k \in Slots: AnswerPrompt(k)
    \/ \E at \in left.screens: Open(at)
    \/ \E c \in Cols: TypeField(c)
    \/ \E b \in Boxes: TypeText(b)
    \/ SaveAssignment \/ SaveProperty \/ CreateProperty \/ SaveConfig
    \/ AddNote \/ SendReply \/ CreatePerson
    \/ \E kind \in {"edit", "create"}: OpenModal(kind)
    \/ CloseModal
    \/ \E b \in left.buttons: PressButton(b)
    \/ PressCreateTenant \/ RetryBootstrap \/ RetryLogin
    \/ ToStep2 \/ PressImport \/ ToStep3 \/ SaveWizardConfig
    \/ UploadPhoto
    \/ \E d \in Days: PickDay(d)
    \/ \E h \in Hours: PickSlot(h)
    \/ PressBook

World == SessionEnds \/ OthersVisits \/ \E c \in Cols: OthersSave(c)

Next == Person \/ World \/ \E k \in Slots: Serve(k) \/ Deliver(k) \/ Lose(k)

\* The server answers what reaches it, and the browser settles every fetch.
FairSpec == Init /\ [][Next]_vars /\ \A k \in Slots: WF_vars(Serve(k)) /\ WF_vars(Deliver(k))
-----------------------------------------------------------------------------
(* A token the server has refused is never again the tab's, whatever late  *)
(* answer, reload or new login follows (http-client.ts, AuthContext.tsx,   *)
(* session-store.ts).                                                      *)
RefusedStaysOut == {stored, session} \cap refused = {}

(* A save puts nothing back: what it replaces with, the person typed and   *)
(* has not yet been told that it was saved.  So a value another panel      *)
(* wrote meanwhile is overwritten only by newer typing, or by the retry of *)
(* a save whose answer was lost (TenantConfigForm, PropertyForm and        *)
(* AssignmentControl send what is touched, and forget it when saved).      *)
NothingPutBack ==
    [][\A c \in Cols: row'[c] \in {row[c], Theirs} \/ row'[c] \notin heard \cup {0}]_vars

(* A note, a reply or a property is inserted at most once for each time it *)
(* was typed, and once more for each answer that was lost; a person once,  *)
(* whatever is lost (the busy flags of the forms, and the unique email).   *)
OnceUnlessLost == \A d \in Drafts: made[d] <= 1 + unheard[d]

(* The hour a customer has picked was free on the day picked when the      *)
(* server was last asked, unless days were picked so fast that the answer  *)
(* of one came under another (PublicSchedulingPage.tsx, whose flag for     *)
(* loading is one for all: neither it nor the server looks again).         *)
OfferedWasFree ==
    page.agenda.slot # 0 /\ ~page.agenda.mixed => Picked \in held.offered

(* The customer's page ends by saying what happened: with success its      *)
(* visit was confirmed once, and with an error not at all, but for an      *)
(* answer that was lost (handleConfirm, confirmPublic).                    *)
TellsWhatHappened ==
    AtAgenda => /\ page.shown = "done" => Cardinality(held.mine) = 1
                /\ page.shown = "error" => held.mine = {} \/ "book" \in wizard.unheard

(* Whatever is refused, lost or answered out of order, no screen waits for *)
(* ever: spinners and disabled buttons of what is still mounted end.       *)
Waiting == \/ page.loading \/ page.busy # {}
           \/ wizard.submitting \/ wizard.phase \in {"bootstrapping", "logging-in"}
NothingWaitsForEver == Waiting ~> ~Waiting
=============================================================================
