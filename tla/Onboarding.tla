------------------------------ MODULE Onboarding ------------------------------
(***************************************************************************)
(* The registration of an agency: the three steps of OnboardingWizardPage  *)
(* with TenantCreateForm, CsvUploader, TenantConfigForm, WebhookStatusCard *)
(* and ReadinessChecklist, against TenantsAdminService and the bootstrap   *)
(* of the owner (PeopleService, modelled in Accounts).  One agency, with   *)
(* its slug and its number; the wizard runs without a session and keeps    *)
(* the token of its own login to itself.                                   *)
(***************************************************************************)
EXTENDS PanelScreens

Phases == {"form", "bootstrapping", "bootstrap-error", "logging-in", "login-error", "ready"}

\* stocked is the number of properties as it was answered once (0, or more), told whether
\* the status of the webhook was.
NewWizard == [phase |-> "form", submitting |-> FALSE, known |-> FALSE, password |-> FALSE,
              token |-> Nobody, error |-> "none", unheard |-> {},
              step |-> 1, stocked |-> FALSE, told |-> FALSE]

Wizard(next) == wizard' = next
AtWizard == page.at = "wizard"

\* TenantCreateForm.handleSubmit, guarded by `submitting`; shown until the tenant is known.
PressCreateTenant ==
    /\ AtWizard /\ ~wizard.known /\ ~wizard.submitting /\ left.presses > 0
    /\ left' = [left EXCEPT !.presses = @ - 1]
    /\ Send(Call("tenant", Nobody, NoDraft, << >>))
    /\ Wizard([wizard EXCEPT !.submitting = TRUE, !.error = "none"])
    /\ UNCHANGED <<session_vars, page, typed, server_vars, unheard, heard>>

\* create: the slug and the number are unique (P2002).
SlugFree == ~held.tenant
TenantInserted == [held EXCEPT !.tenant = TRUE]

\* bootstrapOwner: only for a tenant without an owner.
NoOwnerYet == held.tenant /\ ~held.owner
OwnerInserted == [held EXCEPT !.owner = TRUE]

\* The owner's password, and only hers, opens a session.
OwnerMayLogin == held.owner /\ wizard.password

\* handleTenantCreated, runBootstrap.
TenantCreated(k) ==
    /\ Wizard([wizard EXCEPT !.phase = "bootstrapping", !.known = TRUE, !.password = TRUE,
                             !.submitting = FALSE])
    /\ calls' = Followed(k, Call("bootstrap", Nobody, NoDraft, << >>))

TenantFailed(k, error) ==
    Wizard([wizard EXCEPT !.submitting = FALSE, !.error = error]) /\ calls' = Ended(k)

\* runBootstrap goes on with runLogin.
OwnerCreated(k) ==
    /\ Wizard([wizard EXCEPT !.phase = "logging-in"])
    /\ calls' = Followed(k, Call("ownerLogin", Nobody, NoDraft, << >>))

OwnerFailed(k, error) ==
    Wizard([wizard EXCEPT !.phase = "bootstrap-error", !.error = error]) /\ calls' = Ended(k)

\* runLogin keeps the token, and only then forgets the password.
OwnerLoggedIn(k) ==
    /\ Wizard([wizard EXCEPT !.phase = "ready", !.token = calls[k].result, !.password = FALSE])
    /\ calls' = Ended(k)

OwnerLoginFailed(k, error) ==
    Wizard([wizard EXCEPT !.phase = "login-error", !.error = error]) /\ calls' = Ended(k)

\* The two buttons "Reintentar".
Retry(from, phase, kind) ==
    /\ AtWizard /\ wizard.phase = from /\ left.presses > 0
    /\ left' = [left EXCEPT !.presses = @ - 1]
    /\ Send(Call(kind, Nobody, NoDraft, << >>))
    /\ Wizard([wizard EXCEPT !.phase = phase, !.error = "none"])
    /\ UNCHANGED <<session_vars, page, typed, server_vars, unheard, heard>>

RetryBootstrap == Retry("bootstrap-error", "bootstrapping", "bootstrap")

RetryLogin == Retry("login-error", "logging-in", "ownerLogin")

-----------------------------------------------------------------------------
(* Steps 2 and 3.                                                          *)

ToStep2 ==
    /\ AtWizard /\ wizard.step = 1 /\ wizard.phase = "ready" /\ left.opens > 0
    /\ left' = [left EXCEPT !.opens = @ - 1]
    /\ Wizard([wizard EXCEPT !.step = 2])
    /\ UNCHANGED <<session_vars, calls, page, typed, server_vars, unheard, heard>>

\* CsvUploader.handleSubmit, guarded by `uploading`.
PressImport ==
    /\ AtWizard /\ wizard.step = 2 /\ "import" \notin page.busy /\ left.presses > 0
    /\ left' = [left EXCEPT !.presses = @ - 1]
    /\ Send(Call("import", wizard.token, NoDraft, << >>))
    /\ Show([page EXCEPT !.busy = @ \cup {"import"}])
    /\ UNCHANGED <<session_vars, typed, server_vars, unheard, heard, wizard>>

\* "Continuar", whatever the import is doing: the uploader unmounts; the effect of step 3
\* asks for the status of the webhook and the number of properties, once, and
\* WebhookStatusCard for the status again.
ToStep3 ==
    LET ask(kind, by) == [Call(kind, wizard.token, NoDraft, << >>) EXCEPT !.alive = by]
    IN
    /\ AtWizard /\ wizard.step = 2 /\ left.opens > 0
    /\ left' = [left EXCEPT !.opens = @ - 1]
    /\ Wizard([wizard EXCEPT !.step = 3])
    /\ Show([page EXCEPT !.busy = @ \ {"import"}, !.loading = TRUE])
    /\ SendAll(<<ask("card", "page"), ask("webhook", "page"), ask("count", "page")>>)
    /\ UNCHANGED <<session_vars, typed, server_vars, unheard, heard>>

\* An answer of these four, or its error; the last two errors are swallowed.
ReadinessAnswered(k, ok) ==
    LET call == calls[k] IN
    /\ Show(CASE call.kind = "import" -> [page EXCEPT !.busy = @ \ {"import"}]
              [] call.kind = "card" -> [page EXCEPT !.loading = FALSE]
              [] OTHER -> page)
    /\ Wizard(CASE call.kind = "webhook" /\ ok -> [wizard EXCEPT !.told = TRUE]
                [] call.kind = "count" /\ ok -> [wizard EXCEPT !.stocked = call.result]
                [] OTHER -> wizard)
    /\ calls' = Ended(k)

SaveWizardConfig ==
    /\ AtWizard /\ wizard.step = 3 /\ "config" \notin page.busy /\ left.presses > 0
    /\ left' = [left EXCEPT !.presses = @ - 1]
    /\ Send(Call("config", wizard.token, NoDraft, Touched))
    /\ Show([page EXCEPT !.busy = @ \cup {"config"}])
    /\ UNCHANGED <<session_vars, typed, server_vars, unheard, heard, wizard>>
=============================================================================
