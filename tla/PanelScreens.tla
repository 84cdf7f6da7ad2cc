----------------------------- MODULE PanelScreens -----------------------------
(***************************************************************************)
(* The screens of the panel that change things: the ficha of a lead, the   *)
(* stock of properties, the people, the configuration and the agenda.  For *)
(* each component: what pressing its button sends, and how the function    *)
(* that awaits the answer goes on.                                         *)
(*                                                                         *)
(* A screen edits one record of Cols.  The GETs of the notes and of the    *)
(* people to assign only draw, and are left out; so are filters and pages  *)
(* of lists.  The ficha waits for the messages as it waits for its record  *)
(* and shows an error of either: that second GET is left out too.          *)
(***************************************************************************)
EXTENDS PanelClient

Screens == {"ficha", "queue", "stock", "people", "config", "agenda"}

\* The screens with the controls of a lead: its ficha, and its row of the calls to make.
OfALead == {"ficha", "queue"}

\* The GET of each screen's record.  TenantConfigPage has none: its form begins blank.
LoadOf == [ficha |-> "lead", queue |-> "queue", stock |-> "stock", people |-> "people", agenda |-> "visits"]
Loads == {LoadOf[at] : at \in DOMAIN LoadOf}

Load(at, token) == [Call(LoadOf[at], token, NoDraft, << >>) EXCEPT !.alive = "page"]

\* The buttons of a screen that edit nothing on it, by what their answer leads to.
Buttons == [ficha |-> {"contacted", "optOut", "release", "suppress"}, queue |-> {"contacted"},
            stock |-> {"status", "remove"}, people |-> {"deactivate", "reset"},
            agenda |-> {"visit"}, config |-> {}]

\* Which components guard against a second press.
Unguarded == {"deactivate", "reset"}

BoxesOf == [ficha |-> {"note", "reply"}, queue |-> {"note"}, stock |-> {"create"}, people |-> {"newPerson"},
            agenda |-> {}, config |-> {}]

On(at) == page.at = at /\ session # Nobody
OnALead == page.at \in OfALead /\ session # Nobody /\ page.shown = "content"
Show(next) == page' = next

\* Pressing spends the plan and sends a call of this render's token.
Press(kind, draft, body) ==
    /\ kind \notin page.busy /\ left.presses > 0
    /\ Send(Call(kind, session, draft, body))
    /\ left' = [left EXCEPT !.presses = @ - 1]
    /\ Show([page EXCEPT !.busy = IF kind \in Unguarded THEN @ ELSE @ \cup {kind}])
    /\ UNCHANGED <<session_vars, typed, server_vars, unheard, heard, wizard>>

-----------------------------------------------------------------------------
(* Opening a screen, and its record's answer.                              *)

\* A link is followed: the old screen unmounts, the new one asks for its record.
Open(at) ==
    /\ session # Nobody /\ page.at \notin {"login", "wizard", "public", at} /\ left.opens > 0
    /\ left' = [left EXCEPT !.opens = @ - 1]
    /\ IF at \in DOMAIN LoadOf
       THEN /\ Show([Screen(at) EXCEPT !.loading = TRUE, !.shown =
                        IF at \in OfALead THEN "spinner" ELSE "content"])
            /\ Available # {} /\ calls' = [Left(calls) EXCEPT ![NextSlot] = Load(at, session)]
       ELSE Show(Screen(at)) /\ calls' = Left(calls)
    /\ UNCHANGED <<session_vars, typed, server_vars, unheard, heard, wizard>>

\* Mutant: an answered GET leaves `loading` set.
LoadedStill(k) == Show([page EXCEPT !.data = calls[k].result]) /\ calls' = Ended(k)

\* The children of the ficha mount with the lead that came first after the spinner.  Of
\* all answers with a lead, only those of the ficha's own GETs carry lastInboundAt, which
\* here is less than 24 hours ago.
Loaded(k) ==
    /\ Show([page EXCEPT !.loading = FALSE, !.data = calls[k].result, !.shown = "content",
                         !.replyable = page.at = "ficha", !.values = IF page.shown = "spinner" THEN calls[k].result ELSE @])
    /\ calls' = Ended(k)

\* The ficha, the queue and the people show the error instead of everything else.
LoadFailed(k) ==
    /\ Show([page EXCEPT !.loading = FALSE,
                         !.shown = IF page.at \in OfALead \cup {"people"} THEN "error" ELSE @])
    /\ calls' = Ended(k)

-----------------------------------------------------------------------------
(* Typing.  Inputs are disabled while their form is busy; NoteForm's is not.*)

Editing == CASE page.at \in OfALead -> page.shown = "content" /\ "assign" \notin page.busy
             [] page.at = "stock" -> page.modal = "edit" /\ "update" \notin page.busy
             [] page.at = "config" -> "config" \notin page.busy
             [] page.at = "wizard" -> wizard.step = 3 /\ "config" \notin page.busy
             [] OTHER -> FALSE

\* A field is changed, or blanked, and marked as touched.
TypeField(c) ==
    /\ Editing /\ typed < left.drafts
    /\ typed' = typed + 1
    /\ \E value \in {typed + 1, -(typed + 1)}:
          Show([page EXCEPT !.values[c] = value, !.touched = @ \cup {c}])
    /\ UNCHANGED <<session_vars, calls, server_vars, unheard, heard, wizard, left>>

Writable(b) == /\ b \in BoxesOf[page.at] /\ page.shown = "content"
               /\ b = "note" \/ b \notin page.busy
               /\ b = "create" => page.modal = "create"
               /\ b = "reply" => page.replyable

TypeText(b) ==
    /\ page.at \in Screens /\ Writable(b) /\ typed < left.drafts
    /\ typed' = typed + 1
    /\ Show([page EXCEPT !.text[b] = typed + 1])
    /\ UNCHANGED <<session_vars, calls, server_vars, unheard, heard, wizard, left>>

-----------------------------------------------------------------------------
(* Forms that write columns.                                               *)

\* A PATCH of the touched fields alone.
Touched == [c \in page.touched |-> page.values[c]]

\* AssignmentControl.handleSave; a blank is an explicit null.
SaveAssignment == OnALead /\ Press("assign", NoDraft, Touched)

\* Mutant: a save leaves its fields touched.
AssignmentSavedStill(k) ==
    /\ Show([page EXCEPT !.data = calls[k].result, !.busy = @ \ {"assign"}])
    /\ calls' = Ended(k)

\* onUpdated(setLead) is the page's; the rest needs the component.
AssignmentSaved(k) ==
    /\ Show(IF calls[k].alive = "form"
            THEN [page EXCEPT !.data = calls[k].result, !.touched = {}, !.busy = @ \ {"assign"},
                              !.replyable = FALSE]
            ELSE [page EXCEPT !.data = calls[k].result, !.replyable = FALSE])
    /\ calls' = Ended(k)

\* PropertyForm.handleSubmit in mode edit: column 1 is required (validateRequired), and
\* the blank of another one is undefined, which JSON leaves out.
Required == CHOOSE c \in Cols: TRUE
PropertyBody == [c \in {d \in page.touched: page.values[d] >= 0} |-> page.values[c]]
SaveProperty == /\ On("stock") /\ page.modal = "edit" /\ page.values[Required] >= 0
                /\ Press("update", NoDraft, PropertyBody)

\* Mode create: every field goes.
CreateProperty == /\ On("stock") /\ page.modal = "create" /\ page.text["create"] # NoDraft
                  /\ Press("create", page.text["create"], << >>)

\* PhotoListEditor.handleFileChange, guarded by `uploading`: the list that the answer will
\* make is the one of this render with the photo at its end.
Photos == CHOOSE c \in Cols: c # Required
UploadPhoto ==
    /\ On("stock") /\ page.modal # "none" /\ "photo" \notin page.busy /\ typed < left.drafts
    /\ typed' = typed + 1
    /\ Send(Call("photo", session, typed + 1, << >>))
    /\ Show([page EXCEPT !.busy = @ \cup {"photo"}])
    /\ UNCHANGED <<session_vars, server_vars, unheard, heard, wizard, left>>

\* Whatever was done to the list meanwhile; the form may be saving, or gone.
PhotoUploaded(k) ==
    /\ Show(IF calls[k].alive = "form"
            THEN [page EXCEPT !.values[Photos] = calls[k].draft, !.touched = @ \cup {Photos},
                              !.busy = @ \ {"photo"}]
            ELSE page)
    /\ calls' = Ended(k)

\* The form in the modal unmounts.
Unmodalled(cs) == [k \in Slots |-> IF cs[k].kind \in {"create", "update", "photo"} /\ cs[k].alive = "form"
                                   THEN [cs[k] EXCEPT !.alive = "page"] ELSE cs[k]]

\* handleSaved, the page's: whatever modal is open closes, and the list is fetched.
CloseAndFetch(k) ==
    /\ Show([page EXCEPT !.modal = "none", !.values = NothingTyped, !.touched = {},
                         !.text = EmptyBoxes, !.busy = @ \ {"create", "update", "photo"}, !.loading = TRUE])
    /\ calls' = Unmodalled(Followed(k, Load("stock", calls[k].token)))

\* TenantConfigForm.handleSubmit: trims, and sends blanks.
SaveConfig == On("config") /\ Press("config", NoDraft, Touched)

\* (In the wizard, with the wizard's own session.)
ConfigSaved(k) ==
    /\ Show([page EXCEPT !.values = calls[k].result, !.touched = {}, !.busy = @ \ {"config"}])
    /\ calls' = Ended(k)

\* PropertiesPage: a modal opens on the row of the last list, and closes by Escape or a
\* click outside whatever its form is doing.
OpenModal(kind) ==
    /\ On("stock") /\ page.modal = "none" /\ left.opens > 0
    /\ kind = "edit" => ~page.loading
    /\ left' = [left EXCEPT !.opens = @ - 1]
    /\ Show([page EXCEPT !.modal = kind, !.touched = {},
                         !.values = IF kind = "edit" THEN page.data ELSE NothingTyped])
    /\ UNCHANGED <<session_vars, calls, typed, server_vars, unheard, heard, wizard>>

CloseModal ==
    /\ On("stock") /\ page.modal # "none" /\ left.opens > 0
    /\ left' = [left EXCEPT !.opens = @ - 1]
    /\ Show([page EXCEPT !.modal = "none", !.touched = {}, !.values = NothingTyped,
                         !.text = EmptyBoxes, !.busy = @ \ {"create", "update", "photo"}])
    /\ calls' = Unmodalled(calls)
    /\ UNCHANGED <<session_vars, typed, server_vars, unheard, heard, wizard>>

-----------------------------------------------------------------------------
(* Boxes whose text becomes a row.                                         *)

\* Mutant: the button stays enabled while the note is being saved.
AddNoteAgain == /\ OnALead /\ page.text["note"] # NoDraft
                /\ left.presses > 0 /\ left' = [left EXCEPT !.presses = @ - 1]
                /\ Send(Call("note", session, page.text["note"], << >>))
                /\ UNCHANGED <<session_vars, page, typed, server_vars, unheard, heard, wizard>>

\* NoteForm.handleSubmit; its answer empties the box, whatever is in it by then.
AddNote == /\ OnALead /\ page.text["note"] # NoDraft
           /\ Press("note", page.text["note"], << >>)

NoteAdded(k) ==
    /\ Show(IF calls[k].alive = "form"
            THEN [page EXCEPT !.text["note"] = NoDraft, !.busy = @ \ {"note"}] ELSE page)
    /\ calls' = Ended(k)

\* ManualReplyBox.handleSend, canSend; onSent fetches the lead again.
SendReply == /\ On("ficha") /\ page.shown = "content" /\ page.replyable /\ page.text["reply"] # NoDraft
             /\ Press("reply", page.text["reply"], << >>)

\* handleManualReplySent and onReleased, the page's: fetchLead() unmounts everything
\* under the ficha until it is answered.
FetchLead(k) ==
    /\ Show([Screen("ficha") EXCEPT !.shown = "spinner", !.loading = TRUE, !.data = page.data])
    /\ calls' = Orphans(Followed(k, Load("ficha", calls[k].token)), {"form"}, "page")

\* PeoplePage.handleCreate.
CreatePerson == /\ On("people") /\ page.shown = "content" /\ page.text["newPerson"] # NoDraft
                /\ Press("newPerson", page.text["newPerson"], << >>)

\* handleCreate, handleDeactivate, handleResetPassword: what follows a success.
FetchPeople(k) ==
    /\ Show([page EXCEPT !.text["newPerson"] = IF calls[k].kind = "newPerson" THEN NoDraft ELSE @,
                         !.busy = @ \ {calls[k].kind}, !.loading = TRUE, !.shown = "content"])
    /\ calls' = Followed(k, Load("people", calls[k].token))

-----------------------------------------------------------------------------
(* Buttons.                                                                *)

\* ContactedToggle, OptOutButton, ReleaseHandoffButton, SuppressLeadButton, the controls
\* of a property, the rows of people and of the agenda.
PressButton(b) ==
    /\ page.at \in Screens /\ On(page.at) /\ b \in Buttons[page.at] /\ page.shown = "content"
    /\ Press(b, NoDraft, << >>)

\* ContactedToggle and OptOutButton: setLead with what came back, however old.
LeadUpdated(k) ==
    /\ Show([page EXCEPT !.data = calls[k].result, !.replyable = FALSE,
                         !.busy = IF calls[k].alive = "form" THEN @ \ {calls[k].kind} ELSE @])
    /\ calls' = Ended(k)

\* handleStatusUpdated, handleDeleted.
FetchStock(k) ==
    /\ Show([page EXCEPT !.busy = @ \ {calls[k].kind}, !.loading = TRUE])
    /\ calls' = Followed(k, Load("stock", calls[k].token))

\* SuppressLeadButton: to the list of leads.
Suppressed(k) == Show(Screen("home")) /\ calls' = Left(Ended(k))

\* AppointmentRow.runAction.
VisitUpdated(k) == Show([page EXCEPT !.busy = @ \ {"visit"}]) /\ calls' = Ended(k)

\* Every handler's catch: the form is as it was, and may be sent again.
Failed(k) ==
    /\ Show(IF calls[k].alive = "form" THEN [page EXCEPT !.busy = @ \ {calls[k].kind}] ELSE page)
    /\ calls' = Ended(k)

\* What is left of a continuation whose page has gone: the GET it ends with, if any.
Fetching == [reply |-> "ficha", release |-> "ficha", create |-> "stock", update |-> "stock",
             status |-> "stock", remove |-> "stock", newPerson |-> "people",
             deactivate |-> "people", reset |-> "people"]
Unmounted(k) ==
    /\ Show(page)
    /\ calls' = IF calls[k].kind \in DOMAIN Fetching
                THEN Followed(k, [Load(Fetching[calls[k].kind], calls[k].token) EXCEPT !.alive = "gone"])
                ELSE Ended(k)
=============================================================================
