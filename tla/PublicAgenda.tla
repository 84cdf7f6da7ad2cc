----------------------------- MODULE PublicAgenda -----------------------------
(***************************************************************************)
(* The page a customer opens from the link the bot sent                    *)
(* (PublicSchedulingPage.tsx), against the public endpoints of its visit.  *)
(* Other customers' visits of the agency, and the panel's actions on this  *)
(* one, go on meanwhile (held.taken, held.visit).                          *)
(*                                                                         *)
(* Here a confirmation is one step; what its reading and its writing let   *)
(* through is module Visits.  Dates are the server's own days, as with a   *)
(* server whose clock is UTC: `new Date` reads a date alone as UTC.        *)
(***************************************************************************)
EXTENDS Onboarding

CONSTANTS Days, Hours   \* 1 .. n: the days offered, the half hours of workHours

AtAgenda == page.at = "public"
Choosing == AtAgenda /\ page.shown = "content" /\ ~page.loading
Picked == <<page.agenda.day, page.agenda.slot>>

\* The page as it is mounted, asking for the visit it is about.
AgendaPage == [Screen("public") EXCEPT !.loading = TRUE]
AskDetails == Call("details", Nobody, NoDraft, << >>)

\* The answer about the visit, or its error, which is all there is then.
DetailsAnswered(k, ok) ==
    /\ Show([page EXCEPT !.loading = FALSE, !.shown = IF ok THEN @ ELSE "error"])
    /\ calls' = Ended(k)

Asking == \E k \in Slots: calls[k].kind = "slots"

\* Mutant: the hour picked stays when the day changes.
PickDayKeepingHour(d) ==
    /\ Choosing /\ left.presses > 0
    /\ left' = [left EXCEPT !.presses = @ - 1]
    /\ Send(Call("slots", Nobody, NoDraft, <<d>>))
    /\ Show([page EXCEPT !.agenda.day = d, !.agenda.mixed = Asking, !.busy = @ \cup {"slots"}])
    /\ UNCHANGED <<session_vars, typed, server_vars, unheard, heard, wizard>>

\* handleDateChange.
PickDay(d) ==
    /\ Choosing /\ left.presses > 0
    /\ left' = [left EXCEPT !.presses = @ - 1]
    /\ Send(Call("slots", Nobody, NoDraft, <<d>>))
    /\ Show([page EXCEPT !.agenda.day = d, !.agenda.slot = 0, !.agenda.mixed = Asking,
                         !.busy = @ \cup {"slots"}])
    /\ UNCHANGED <<session_vars, typed, server_vars, unheard, heard, wizard>>

\* Whichever day they are of; the flag `loadingSlots` is one for all calls.
SlotsAnswered(k, ok) ==
    /\ Show([page EXCEPT !.agenda.slots = IF ok THEN calls[k].result ELSE {},
                         !.busy = @ \ {"slots"}])
    /\ calls' = Ended(k)

PickSlot(h) ==
    /\ Choosing /\ "slots" \notin page.busy /\ h \in page.agenda.slots /\ h # page.agenda.slot
    /\ Show([page EXCEPT !.agenda.slot = h])
    /\ UNCHANGED <<session_vars, calls, typed, server_vars, unheard, heard, wizard, left>>

\* Mutant: the button stays enabled while confirming.
PressBookAgain ==
    /\ Choosing /\ page.agenda.slot # 0 /\ left.presses > 0
    /\ left' = [left EXCEPT !.presses = @ - 1]
    /\ Send(Call("book", Nobody, NoDraft, Picked))
    /\ UNCHANGED <<session_vars, page, typed, server_vars, unheard, heard, wizard>>

\* handleConfirm, whose button is there once an hour is picked.
PressBook ==
    /\ Choosing /\ page.agenda.slot # 0 /\ "book" \notin page.busy /\ left.presses > 0
    /\ left' = [left EXCEPT !.presses = @ - 1]
    /\ Send(Call("book", Nobody, NoDraft, Picked))
    /\ Show([page EXCEPT !.busy = @ \cup {"book"}])
    /\ UNCHANGED <<session_vars, typed, server_vars, unheard, heard, wizard>>

\* Success or error: either way the page ends, and an error hides a success.
BookAnswered(k, ok) ==
    /\ Show([page EXCEPT !.shown = IF ok /\ @ # "error" THEN "done" ELSE "error", !.busy = @ \ {"book"}])
    /\ calls' = Ended(k)

AgendaAnswered(k, ok) ==
    \/ calls[k].kind = "details" /\ DetailsAnswered(k, ok)
    \/ calls[k].kind = "slots" /\ SlotsAnswered(k, ok)
    \/ calls[k].kind = "book" /\ BookAnswered(k, ok)

-----------------------------------------------------------------------------
(* The server.                                                             *)

\* findProposedOrThrow, and the first reading of confirmPublic.
StillProposed == held.visit = "PROPOSED"

\* getAvailableSlots: the half hours of the day without a confirmed visit at that time.
getAvailableSlots(d) == {h \in Hours: <<d, h>> \notin held.taken}

\* A request that was admitted: confirmPublic does not look at the other visits.
\* offered and mine are history: what the server said was free, and what the page wrote.
Visited(call) ==
    CASE call.kind = "slots" ->
            [held EXCEPT !.offered = @ \cup ({call.body[1]} \X getAvailableSlots(call.body[1]))]
      [] call.kind = "book" -> [held EXCEPT !.visit = "CONFIRMED", !.mine = @ \cup {call.body}]
      [] OTHER -> held

\* Another customer's visit is confirmed, or this one is confirmed or closed elsewhere.
OthersVisits ==
    /\ left.visits > 0 /\ left' = [left EXCEPT !.visits = @ - 1]
    /\ \/ \E at \in (Days \X Hours) \ held.taken: held' = [held EXCEPT !.taken = @ \cup {at}]
       \/ StillProposed /\ held' = [held EXCEPT !.visit = "ELSEWHERE"]
    /\ UNCHANGED <<session_vars, calls, page, typed, row, made, unheard, heard, wizard>>
=============================================================================
