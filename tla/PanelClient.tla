------------------------------ MODULE PanelClient ------------------------------
(***************************************************************************)
(* What every screen of the panel stands on: the calls of api/endpoints.ts *)
(* over the wire (http-client.ts), useApi, and the session of one browser  *)
(* tab (session-store.ts, AuthContext.tsx) against the sessions the server *)
(* accepts.                                                                *)
(*                                                                         *)
(* A call is sent, answered by the server, and its answer continues the    *)
(* function that awaits it.  Calls are not ordered among themselves; an    *)
(* answer may never come, whether or not the server did what was asked.    *)
(* A continuation runs even if the component that awaits it is gone: it    *)
(* then changes no state of that component, but still does the rest.       *)
(***************************************************************************)
EXTENDS Integers, FiniteSets, Sequences, TLC

CONSTANTS
    Tokens,     \* session tokens the server may issue, 1 .. n
    Slots,      \* calls that may be under way at once, 1 .. n
    Cols,       \* columns of the record a screen edits
    Drafts,     \* what the person types, in order: 1 .. n
    Plans       \* what the person and the world may do in a behaviour: bounds

Counted(S) == IsFiniteSet(S) /\ S = 1 .. Cardinality(S)

\* A record has a required column, and another one.
ASSUME PanelAssumption == /\ Counted(Tokens) /\ Counted(Slots) /\ Counted(Drafts)
                          /\ \E a, b \in Cols: a # b

VARIABLES
    valid, issued,      \* server: sessions it accepts, how many it has issued
    stored, session,    \* tab: sessionStorage, and the state of AuthProvider
    refused,            \* history: tokens a 401 has come back for
    calls,              \* [Slots -> a call, or Free]
    page,               \* the mounted screen
    typed,              \* drafts typed so far
    row,                \* server: the record the screen edits, [Cols -> value]
    made,               \* server: [Drafts -> how many rows were inserted from it]
    unheard,            \* history: [Drafts -> requests done whose answer was lost]
    heard,              \* history: drafts whose save was answered with success
    wizard,             \* the wizard of onboarding; its field unheard is history
    held,               \* what else the server holds
    left                \* what is left of the plan

session_vars == <<valid, issued, stored, session, refused>>
server_vars == <<row, made, held>>

Nobody == 0
NoDraft == 0
Theirs == 99            \* a value written from another panel

\* Values of a column: 0 as found, a draft d, or -d: the blank that d typed.
Value == {0, Theirs} \cup Drafts \cup {-d : d \in Drafts}

-----------------------------------------------------------------------------
(* The calls of endpoints.ts, by what authorises them.                     *)

PersonCalls == {"me", "logout", "people", "newPerson", "deactivate", "reset"}
LeadCalls == {"lead", "note", "reply", "contacted", "optOut", "release", "suppress", "assign"}
QueueCalls == {"queue"}
PropertyCalls == {"stock", "create", "update", "status", "remove", "photo"}
AppointmentCalls == {"visits", "visit"}
ConfigCalls == {"config"}
ReadinessCalls == {"import", "webhook", "card", "count"}
PushCalls == {"push"}
WithToken == PersonCalls \cup LeadCalls \cup QueueCalls \cup PropertyCalls \cup AppointmentCalls
             \cup ConfigCalls \cup ReadinessCalls \cup PushCalls
WithNothing == {"details", "slots", "book"}
WithMasterKey == {"tenant", "bootstrap"}
WithPassword == {"login", "ownerLogin"}

Free == [kind |-> "none", st |-> "free", alive |-> "gone", token |-> Nobody, draft |-> NoDraft,
         body |-> << >>, result |-> << >>]

\* request(): a free slot takes the call; which one says nothing.
Available == {k \in Slots: calls[k] = Free}
NextSlot == CHOOSE k \in Available: TRUE

Call(kind, token, draft, body) ==
    [Free EXCEPT !.kind = kind, !.st = "sent", !.alive = "form", !.token = token,
                 !.draft = draft, !.body = body]
Send(call) == Available # {} /\ calls' = [calls EXCEPT ![NextSlot] = call]

\* Calls made one after the other without waiting.
SendAll(cs) ==
    /\ Cardinality(Available) >= Len(cs)
    /\ LET at(k) == Cardinality({j \in Available: j <= k})
       IN calls' = [k \in Slots |-> IF k \in Available /\ at(k) <= Len(cs) THEN cs[at(k)] ELSE calls[k]]

\* What the end of call k leaves on the wire; next, if any, is sent at once.
Ended(k) == [calls EXCEPT ![k] = Free]
Followed(k, next) == [calls EXCEPT ![k] = next]

\* Components unmount: their calls go on without them.
Orphans(cs, from, to) ==
    [k \in Slots |-> IF cs[k].alive \in from THEN [cs[k] EXCEPT !.alive = to] ELSE cs[k]]
Left(cs) == Orphans(cs, {"form", "page"}, "gone")
Dropped(cs) == [k \in Slots |-> IF cs[k].st = "sent" /\ cs[k].kind \notin WithPassword
                                THEN [cs[k] EXCEPT !.alive = "dropped"] ELSE Free]

-----------------------------------------------------------------------------
(* A screen.  useApi: `loading` is one flag, whatever the calls under way. *)

Boxes == {"note", "reply", "create", "newPerson"}
EmptyBoxes == [b \in Boxes |-> NoDraft]
NothingTyped == [c \in Cols |-> 0]

\* What a customer has picked on the public agenda; mixed is history.
NothingPicked == [day |-> 0, slot |-> 0, slots |-> {}, mixed |-> FALSE]

Screen(at) == [at |-> at, shown |-> "content", loading |-> FALSE, data |-> NothingTyped,
               modal |-> "none", values |-> NothingTyped, touched |-> {}, text |-> EmptyBoxes,
               busy |-> {}, replyable |-> FALSE, agenda |-> NothingPicked]

LoginScreen == Screen("login")

-----------------------------------------------------------------------------
(* AuthContext.                                                            *)

\* Without a session ProtectedRoute redirects to the login page; the public routes stay.
Public == page.at \in {"login", "wizard", "public"}
ToLogin(k) ==
    /\ page' = IF ~Public THEN LoginScreen
               ELSE IF calls[k].kind \in {"login", "me"} THEN [page EXCEPT !.busy = @ \ {"login"}]
               ELSE IF calls[k].alive = "form" THEN [page EXCEPT !.busy = @ \ {calls[k].kind}]
               ELSE page
    /\ calls' = IF Public THEN Ended(k) ELSE Left(Ended(k))

\* Mutant: the 401 callback forgets the tab's storage.
SignedOutKept(k) == session' = Nobody /\ stored' = stored /\ ToLogin(k)

\* The onUnauthorized callback: whatever call the 401 answers, the session goes.
SignedOut(k) == session' = Nobody /\ stored' = Nobody /\ ToLogin(k)

\* LoginPage.handleSubmit, guarded by `loading`.
PressLogin ==
    /\ page.at = "login" /\ "login" \notin page.busy /\ left.logins > 0
    /\ Send(Call("login", Nobody, NoDraft, << >>))
    /\ page' = [page EXCEPT !.busy = @ \cup {"login"}]
    /\ left' = [left EXCEPT !.logins = @ - 1]
    /\ UNCHANGED <<session_vars, typed, server_vars, unheard, heard, wizard>>

\* login(): the token of the first answer is used for getMe, and only then kept.
LoginAnswered(k) ==
    /\ calls' = Followed(k, Call("me", calls[k].result, NoDraft, << >>))
    /\ UNCHANGED <<stored, session, page>>

\* AppLayout's effect: registerPushSubscriptionOnce, with the token it was mounted with,
\* waits for the permission to notify before it calls.
Register(token) == [Call("push", token, NoDraft, << >>) EXCEPT !.st = "prompt", !.alive = "gone"]

MeAnswered(k) ==
    /\ stored' = calls[k].token /\ session' = calls[k].token
    /\ page' = Screen("home")
    /\ calls' = IF left.push THEN Followed(k, Register(calls[k].token)) ELSE Ended(k)

\* The permission is given, or refused, or found given.
AnswerPrompt(k) ==
    /\ calls[k].st = "prompt"
    /\ calls' \in {[calls EXCEPT ![k].st = "sent"], Ended(k)}
    /\ UNCHANGED <<session_vars, page, typed, server_vars, unheard, heard, wizard, left>>

LoginFailed(k) ==
    /\ page' = [page EXCEPT !.busy = @ \ {"login"}]
    /\ calls' = Ended(k)
    /\ UNCHANGED <<stored, session>>

\* logout(): the token of the render it was pressed in; no guard.
PressLogout ==
    /\ session # Nobody /\ left.logouts > 0
    /\ Send(Call("logout", session, NoDraft, << >>))
    /\ left' = [left EXCEPT !.logouts = @ - 1]
    /\ UNCHANGED <<session_vars, page, typed, server_vars, unheard, heard, wizard>>

\* Its finally, and AppLayout's navigate: whatever came back, and whenever.
LogoutEnded(k) == session' = Nobody /\ stored' = Nobody /\ ToLogin(k)

\* The tab is reloaded: AuthProvider starts from session-store.  (The screen of the
\* URL is mounted anew: here from "home", by Open.)
Reload ==
    /\ left.reloads > 0 /\ page.at \notin {"wizard", "public"} /\ Available # {}
    /\ left' = [left EXCEPT !.reloads = @ - 1]
    /\ session' = stored
    /\ page' = IF stored = Nobody THEN LoginScreen ELSE Screen("home")
    /\ calls' = IF left.push /\ stored # Nobody
                THEN [Dropped(calls) EXCEPT ![NextSlot] = Register(stored)] ELSE Dropped(calls)
    /\ unheard' = [d \in Drafts |-> unheard[d] + Cardinality({k \in Slots:
                       calls[k].draft = d /\ calls[k].st = "done"})]
    /\ UNCHANGED <<valid, issued, stored, refused, typed, server_vars, heard, wizard>>

-----------------------------------------------------------------------------
(* The server's sessions, as Accounts models them.                         *)

\* A session ends elsewhere: it expires, its person is deactivated.
SessionEnds ==
    \E t \in valid:
        /\ left.ends > 0 /\ left' = [left EXCEPT !.ends = @ - 1]
        /\ valid' = valid \ {t}
        /\ UNCHANGED <<issued, stored, session, refused, calls, page, typed, server_vars,
                       unheard, heard, wizard>>

\* PersonSessionGuard and the guards of the master key and of passwords.
Admitted(call) == call.kind \in WithToken => call.token \in valid

\* No answer will come: the request was lost, or its answer was.
Lose(k) ==
    /\ calls[k].st \in {"sent", "done"} /\ calls[k].alive # "dropped" /\ left.losses > 0
    /\ left' = [left EXCEPT !.losses = @ - 1]
    /\ calls' = [calls EXCEPT ![k].st = "broken"]
    /\ unheard' = IF calls[k].st = "done" /\ calls[k].draft # NoDraft
                  THEN [unheard EXCEPT ![calls[k].draft] = @ + 1] ELSE unheard
    /\ wizard' = IF calls[k].st = "done" /\ calls[k].kind \in WithMasterKey \cup {"book"}
                 THEN [wizard EXCEPT !.unheard = @ \cup {calls[k].kind}] ELSE wizard
    /\ UNCHANGED <<session_vars, page, typed, server_vars, heard>>
=============================================================================
