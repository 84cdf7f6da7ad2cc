----------------------------- MODULE PanelProofs -----------------------------
(***************************************************************************)
(* What holds of a tab of the panel, of the wizard and of a customer's     *)
(* page for any number of calls under way, sessions, screens opened, and   *)
(* answers that are late, refused or lost.                                 *)
(***************************************************************************)
EXTENDS Panel, FiniteSetTheorems, TLAPS

CallFields == {"kind", "st", "alive", "token", "draft", "body", "result"}
PageFields == {"at", "shown", "loading", "data", "modal", "values", "touched", "text", "busy",
               "replyable", "agenda"}
AgendaFields == {"day", "slot", "slots", "mixed"}
WizardFields == {"phase", "submitting", "known", "password", "token", "error", "unheard", "step",
                 "stocked", "told"}

IsCall(x)   == x = [f \in CallFields |-> x[f]]
IsPage(x)   == /\ x = [f \in PageFields |-> x[f]]
               /\ x.text = [b \in Boxes |-> x.text[b]]
               /\ x.agenda = [f \in AgendaFields |-> x.agenda[f]]
IsWizard(x) == x = [f \in WizardFields |-> x[f]]

Shape == /\ calls = [k \in Slots |-> calls[k]] /\ \A k \in Slots: IsCall(calls[k])
         /\ IsWizard(wizard)

-----------------------------------------------------------------------------
(* The wire: what a slot holds after a step.                               *)

LEMMA FreeCall == /\ IsCall(Free) /\ Free.kind = "none" /\ Free.st = "free" /\ Free.alive = "gone"
                  /\ Free.token = Nobody /\ Free.draft = NoDraft /\ Free.body = << >>
  BY DEF Free, IsCall, CallFields

LEMMA CallIs ==
    ASSUME NEW kind, NEW token, NEW draft, NEW body, NEW c, c = Call(kind, token, draft, body)
    PROVE  /\ IsCall(c) /\ c.kind = kind /\ c.st = "sent" /\ c.alive = "form" /\ c.token = token
           /\ c.draft = draft /\ c.body = body
  BY DEF Call, Free, IsCall, CallFields

LEMMA LoadIs ==
    ASSUME NEW at, NEW token, NEW c, c = Load(at, token)
    PROVE  /\ IsCall(c) /\ c.kind = LoadOf[at] /\ c.st = "sent" /\ c.alive = "page"
           /\ c.token = token /\ c.draft = NoDraft
  BY DEF Load, Call, Free, IsCall, CallFields

LEMMA RegisterIs ==
    ASSUME NEW token, NEW c, c = Register(token)
    PROVE  /\ IsCall(c) /\ c.kind = "push" /\ c.st = "prompt" /\ c.alive = "gone"
           /\ c.token = token /\ c.draft = NoDraft
  BY DEF Register, Call, Free, IsCall, CallFields

LEMMA NextSlotIs == Available # {} => NextSlot \in Slots /\ calls[NextSlot] = Free
  BY DEF Available, NextSlot

\* One slot changes.
LEMMA OneSlot ==
    ASSUME Shape, NEW n \in Slots, NEW c, IsCall(c), calls' = [calls EXCEPT ![n] = c]
    PROVE  /\ calls' = [k \in Slots |-> calls'[k]] /\ \A k \in Slots: IsCall(calls'[k])
           /\ calls'[n] = c /\ \A k \in Slots \ {n}: calls'[k] = calls[k]
  BY DEF Shape

LEMMA SendIs ==
    ASSUME Shape, NEW c, IsCall(c), Send(c)
    PROVE  /\ calls' = [k \in Slots |-> calls'[k]] /\ \A k \in Slots: IsCall(calls'[k])
           /\ \E n \in Slots: /\ calls[n] = Free /\ calls'[n] = c
                              /\ \A k \in Slots \ {n}: calls'[k] = calls[k]
  BY NextSlotIs DEF Shape, Send

LEMMA EndedIs ==
    ASSUME Shape, NEW n \in Slots, calls' = Ended(n)
    PROVE  /\ calls' = [k \in Slots |-> calls'[k]] /\ \A k \in Slots: IsCall(calls'[k])
           /\ calls'[n] = Free /\ \A k \in Slots \ {n}: calls'[k] = calls[k]
  BY OneSlot, FreeCall DEF Ended

LEMMA FollowedIs ==
    ASSUME Shape, NEW n \in Slots, NEW c, IsCall(c), calls' = Followed(n, c)
    PROVE  /\ calls' = [k \in Slots |-> calls'[k]] /\ \A k \in Slots: IsCall(calls'[k])
           /\ calls'[n] = c /\ \A k \in Slots \ {n}: calls'[k] = calls[k]
  BY OneSlot DEF Followed

\* The same request, wherever its component has gone.
SameRequest(d, c) == /\ IsCall(d) /\ d.kind = c.kind /\ d.st = c.st /\ d.token = c.token
                     /\ d.draft = c.draft /\ d.body = c.body /\ d.result = c.result

LEMMA OrphansAre ==
    ASSUME NEW cs, NEW from, NEW to, \A k \in Slots: IsCall(cs[k]), NEW k \in Slots
    PROVE  /\ SameRequest(Orphans(cs, from, to)[k], cs[k])
           /\ Orphans(cs, from, to)[k].alive = (IF cs[k].alive \in from THEN to ELSE cs[k].alive)
           /\ cs[k].alive \notin from => Orphans(cs, from, to)[k] = cs[k]
  BY DEF Orphans, SameRequest, IsCall, CallFields

LEMMA OrphansShape == ASSUME NEW cs, NEW from, NEW to
                      PROVE  Orphans(cs, from, to) = [k \in Slots |-> Orphans(cs, from, to)[k]]
  BY DEF Orphans

LEMMA UnmodalledAre ==
    ASSUME NEW cs, \A k \in Slots: IsCall(cs[k]), NEW k \in Slots
    PROVE  /\ SameRequest(Unmodalled(cs)[k], cs[k])
           /\ Unmodalled(cs)[k].alive = (IF cs[k].kind \in {"create", "update", "photo"} /\ cs[k].alive = "form"
                                         THEN "page" ELSE cs[k].alive)
           /\ cs[k].kind \notin {"create", "update", "photo"} => Unmodalled(cs)[k] = cs[k]
  BY DEF Unmodalled, SameRequest, IsCall, CallFields

LEMMA UnmodalledShape == ASSUME NEW cs PROVE Unmodalled(cs) = [k \in Slots |-> Unmodalled(cs)[k]]
  BY DEF Unmodalled

LEMMA DroppedAre ==
    ASSUME NEW cs, \A k \in Slots: IsCall(cs[k]), NEW k \in Slots
    PROVE  \/ Dropped(cs)[k] = Free /\ ~(cs[k].st = "sent" /\ cs[k].kind \notin WithPassword)
           \/ /\ cs[k].st = "sent" /\ cs[k].kind \notin WithPassword
              /\ SameRequest(Dropped(cs)[k], cs[k]) /\ Dropped(cs)[k].alive = "dropped"
  BY DEF Dropped, SameRequest, IsCall, CallFields

LEMMA DroppedShape == ASSUME NEW cs PROVE Dropped(cs) = [k \in Slots |-> Dropped(cs)[k]]
  BY DEF Dropped

\* Several slots at once.
LEMMA SendAllIs ==
    ASSUME Shape, NEW cs, Len(cs) = 3, \A i \in 1 .. 3: IsCall(cs[i]), SendAll(cs)
    PROVE  /\ calls' = [k \in Slots |-> calls'[k]] /\ \A k \in Slots: IsCall(calls'[k])
           /\ \A k \in Slots: calls'[k] = calls[k] \/ (calls[k] = Free /\ \E i \in 1 .. 3: calls'[k] = cs[i])
<1> DEFINE at(k) == Cardinality({j \in Available: j <= k})
<1>1. IsFiniteSet(Slots) /\ Slots \subseteq Int /\ Available \subseteq Slots
  BY PanelAssumption, FS_CardinalityType DEF Counted, Available
<1>2. ASSUME NEW k \in Available PROVE at(k) \in Nat /\ at(k) # 0
  <2>1. IsFiniteSet({j \in Available: j <= k})
    BY <1>1, FS_Subset
  <2>2. k \in {j \in Available: j <= k}
    BY <1>1
  <2> QED BY <2>1, <2>2, FS_CardinalityType, FS_EmptySet
<1>3. calls' = [k \in Slots |-> IF k \in Available /\ at(k) <= Len(cs) THEN cs[at(k)] ELSE calls[k]]
  BY DEF SendAll
<1> HIDE DEF at
<1>4. \A k \in Slots: \/ calls'[k] = calls[k]
                      \/ k \in Available /\ \E i \in 1 .. 3: calls'[k] = cs[i]
  <2> TAKE k \in Slots
  <2>1. PICK i: i = at(k)
    OBVIOUS
  <2>2. calls'[k] = IF k \in Available /\ i <= 3 THEN cs[i] ELSE calls[k]
    BY <1>3, <2>1
  <2>3. k \in Available /\ i <= 3 => i \in 1 .. 3
    BY <1>2, <2>1
  <2>4. CASE k \in Available /\ i <= 3
    <3>1. calls'[k] = cs[i]
      BY <2>2, <2>4
    <3> QED BY <2>3, <2>4, <3>1
  <2>5. CASE ~(k \in Available /\ i <= 3)
    BY <2>2, <2>5
  <2> QED BY <2>4, <2>5
<1> QED BY <1>3, <1>4 DEF Available, Shape

-----------------------------------------------------------------------------
(* Tokens.  What a login has brought and nobody has used yet (the answer   *)
(* of a login, the token getMe is asked with) is of that one call alone.   *)
Secret(c) == c.kind = "me" \/ (c.kind \in WithPassword /\ c.st = "done")
SecretOf(c) == IF c.kind = "me" THEN c.token ELSE c.result

Kept == {stored, session, wizard.token}

IssuedInv == /\ issued \in Nat /\ refused \subseteq 1 .. issued /\ Kept \subseteq 0 .. issued
             /\ \A k \in Slots: /\ calls[k].token \in 0 .. issued
                                /\ Secret(calls[k]) => SecretOf(calls[k]) \in 1 .. issued
                                /\ calls[k].kind \in WithPassword => calls[k].token = Nobody
SoleInv == \A k \in Slots: Secret(calls[k]) =>
               /\ SecretOf(calls[k]) \notin refused \cup Kept
               /\ \A j \in Slots \ {k}: /\ SecretOf(calls[k]) # calls[j].token
                                        /\ Secret(calls[j]) => SecretOf(calls[k]) # SecretOf(calls[j])
TokenInv == Shape /\ IssuedInv /\ SoleInv /\ RefusedStaysOut

LEMMA InitTokens == Init => TokenInv
<1> SUFFICES ASSUME Init PROVE TokenInv
  OBVIOUS
<1>1. PICK first: first = AskDetails
  OBVIOUS
<1>2. IsCall(first) /\ first.kind = "details" /\ first.token = Nobody
  BY <1>1 DEF AskDetails, Call, Free, IsCall, CallFields
<1>3. /\ calls = [k \in Slots |-> calls[k]]
      /\ \A k \in Slots: IsCall(calls[k]) /\ calls[k].kind \in {"none", "details"} /\ calls[k].token = Nobody
  BY <1>1, <1>2, FreeCall DEF Init
<1>4. issued = 0 /\ refused = {} /\ stored = Nobody /\ session = Nobody /\ wizard = NewWizard
  BY DEF Init
<1>5. IsWizard(wizard) /\ wizard.token = Nobody
  BY <1>4 DEF NewWizard, IsWizard, WizardFields
<1>6. \A k \in Slots: ~Secret(calls[k]) /\ calls[k].kind \notin WithPassword
  BY <1>3 DEF Secret, WithPassword
<1> QED BY <1>3, <1>4, <1>5, <1>6 DEF TokenInv, Shape, IssuedInv, SoleInv, RefusedStaysOut, Kept, Nobody

(* What most steps do: a slot keeps its token and learns no secret, or     *)
(* takes a token that is known already.                                    *)
Known == {Nobody} \cup Kept \cup {calls[j].token : j \in {i \in Slots: calls[i].kind # "me"}}

Remains(d, c) == /\ d.token = c.token
                 /\ d.kind \in WithPassword => c.kind \in WithPassword
                 /\ Secret(d) => Secret(c) /\ SecretOf(d) = SecretOf(c)
Plain(d) == ~Secret(d) /\ d.token \in Known /\ (d.kind \in WithPassword => d.token = Nobody)

Quiet == /\ Shape' /\ UNCHANGED <<issued, refused>> /\ wizard'.token = wizard.token
         /\ {stored', session'} \subseteq {Nobody, stored, session}
         /\ \A k \in Slots: Remains(calls'[k], calls[k]) \/ Plain(calls'[k])

LEMMA QuietStep == ASSUME TokenInv, Quiet PROVE TokenInv'
<1> USE DEF Nobody
<1>1. \A k \in Slots: Secret(calls[k]) => SecretOf(calls[k]) \notin Known
  BY DEF TokenInv, IssuedInv, SoleInv, Known, Kept, Secret, SecretOf, WithPassword
<1>2. \A k \in Slots: Secret(calls'[k]) => Secret(calls[k]) /\ SecretOf(calls'[k]) = SecretOf(calls[k])
                                           /\ calls'[k].token = calls[k].token
  BY DEF Quiet, Remains, Plain
<1>3. \A k \in Slots: calls'[k].token = calls[k].token \/ calls'[k].token \in Known
  BY DEF Quiet, Remains, Plain
<1>4. Known \subseteq 0 .. issued
  BY DEF TokenInv, IssuedInv, Known, Kept
<1>5. Kept' \subseteq Kept \cup {Nobody}
  BY DEF Quiet, Kept
<1>6. IssuedInv'
  <2>1. \A k \in Slots: calls'[k].kind \in WithPassword => calls'[k].token = Nobody
    BY DEF TokenInv, IssuedInv, Quiet, Remains, Plain
  <2>2. \A k \in Slots: calls'[k].token \in 0 .. issued
    BY <1>3, <1>4 DEF TokenInv, IssuedInv
  <2>3. \A k \in Slots: Secret(calls'[k]) => SecretOf(calls'[k]) \in 1 .. issued
    BY <1>2 DEF TokenInv, IssuedInv
  <2> QED BY <1>5, <2>1, <2>2, <2>3 DEF TokenInv, IssuedInv, Quiet
<1>7. SoleInv'
  BY <1>1, <1>2, <1>3, <1>5 DEF TokenInv, IssuedInv, SoleInv, Quiet
<1>8. RefusedStaysOut'
  BY DEF TokenInv, IssuedInv, RefusedStaysOut, Quiet
<1> QED BY <1>6, <1>7, <1>8 DEF TokenInv, Quiet

LEMMA FreeIsPlain == Plain(Free)
  BY FreeCall DEF Plain, Secret, WithPassword, Known, Nobody

\* Nothing but the screen changes, or what the server holds besides sessions.
LEMMA SameWire ==
    ASSUME TokenInv, UNCHANGED <<issued, stored, session, refused, calls>>, IsWizard(wizard'),
           wizard'.token = wizard.token
    PROVE  TokenInv'
<1>1. Quiet
  BY DEF TokenInv, Shape, Quiet, Remains
<1> QED BY <1>1, QuietStep

\* A call is sent.
LEMMA SentQuiet ==
    ASSUME TokenInv, NEW c, IsCall(c), Send(c), c.st = "sent", c.kind # "me", c.token \in Known,
           c.kind \in WithPassword => c.token = Nobody,
           UNCHANGED <<issued, stored, session, refused>>, IsWizard(wizard'), wizard'.token = wizard.token
    PROVE  TokenInv'
<1>1. /\ calls' = [k \in Slots |-> calls'[k]] /\ \A k \in Slots: IsCall(calls'[k])
      /\ \E n \in Slots: /\ calls[n] = Free /\ calls'[n] = c
                         /\ \A k \in Slots \ {n}: calls'[k] = calls[k]
  BY SendIs DEF TokenInv
<1>2. Plain(c)
  BY DEF Plain, Secret
<1>3. \A k \in Slots: Remains(calls'[k], calls[k]) \/ Plain(calls'[k])
  BY <1>1, <1>2 DEF Remains
<1>4. Quiet
  BY <1>1, <1>3 DEF Quiet, Shape
<1> QED BY <1>4, QuietStep

\* One slot changes, to something plain.
LEMMA SlotQuiet ==
    ASSUME TokenInv, NEW n \in Slots, NEW c, IsCall(c), Remains(c, calls[n]) \/ Plain(c),
           calls' = [calls EXCEPT ![n] = c],
           {stored', session'} \subseteq {Nobody, stored, session},
           UNCHANGED <<issued, refused>>, IsWizard(wizard'), wizard'.token = wizard.token
    PROVE  TokenInv'
<1>1. /\ calls' = [k \in Slots |-> calls'[k]] /\ \A k \in Slots: IsCall(calls'[k])
      /\ calls'[n] = c /\ \A k \in Slots \ {n}: calls'[k] = calls[k]
  BY OneSlot DEF TokenInv
<1>2. \A k \in Slots: Remains(calls'[k], calls[k]) \/ Plain(calls'[k])
  BY <1>1 DEF Remains
<1>3. Quiet
  BY <1>1, <1>2 DEF Quiet, Shape
<1> QED BY <1>3, QuietStep

LEMMA PressQuiet ==
    ASSUME TokenInv, NEW kind, kind \notin WithPassword \cup {"me"}, NEW draft, NEW body,
           Press(kind, draft, body)
    PROVE  TokenInv'
<1>1. PICK c: c = Call(kind, session, draft, body)
  OBVIOUS
<1>2. Send(c) /\ UNCHANGED <<issued, stored, session, refused, wizard>>
  BY <1>1 DEF Press, session_vars
<1>3. c.token \in Known /\ c.kind = kind /\ c.st = "sent" /\ IsCall(c)
  BY <1>1, CallIs DEF Known, Kept
<1> QED BY <1>2, <1>3, SentQuiet DEF TokenInv, Shape

\* Calls that nothing, or the wizard's own token, authorises.
LEMMA SendQuiet ==
    ASSUME TokenInv, NEW kind, kind # "me", NEW token, token \in {Nobody, wizard.token},
           kind \in WithPassword => token = Nobody, NEW draft, NEW body,
           Send(Call(kind, token, draft, body)),
           UNCHANGED <<issued, stored, session, refused>>, IsWizard(wizard'), wizard'.token = wizard.token
    PROVE  TokenInv'
<1>1. PICK c: c = Call(kind, token, draft, body)
  OBVIOUS
<1>3. c.token \in Known /\ c.kind = kind /\ c.token = token /\ c.st = "sent" /\ IsCall(c)
  BY <1>1, CallIs DEF Known, Kept
<1> QED BY <1>1, <1>3, SentQuiet DEF TokenInv, Shape

LEMMA PersonTokens == ASSUME TokenInv, Person PROVE TokenInv'
<1> USE DEF WithPassword
<1>w. IsWizard(wizard)
  BY DEF TokenInv, Shape
<1>1. CASE PressLogin
  <2>1. PICK kind: kind = "login" OBVIOUS
  <2>2. Send(Call(kind, Nobody, NoDraft, << >>)) /\ UNCHANGED <<issued, stored, session, refused, wizard>>
    BY <1>1, <2>1 DEF PressLogin, session_vars
  <2> QED BY <1>w, <2>1, <2>2, SendQuiet
<1>2. CASE PressLogout
  <2>1. PICK kind: kind = "logout" OBVIOUS
  <2>2. PICK c: c = Call(kind, session, NoDraft, << >>) OBVIOUS
  <2>3. Send(c) /\ UNCHANGED <<issued, stored, session, refused, wizard>>
    BY <1>2, <2>1, <2>2 DEF PressLogout, session_vars
  <2>4. IsCall(c) /\ c.kind = kind /\ c.token \in Known /\ c.st = "sent"
    BY <2>2, CallIs DEF Known, Kept
  <2> QED BY <1>w, <2>1, <2>3, <2>4, SentQuiet
<1>3. CASE Reload
  <2>1. PICK r: r = Register(stored) OBVIOUS
  <2>2. IsCall(r) /\ Plain(r)
    BY <2>1, RegisterIs DEF Plain, Secret, Known, Kept
  <2>3. /\ UNCHANGED <<issued, stored, refused, wizard>> /\ session' = stored
        /\ calls' = Dropped(calls) \/ calls' = [Dropped(calls) EXCEPT ![NextSlot] = r]
        /\ NextSlot \in Slots
    BY <1>3, <2>1, NextSlotIs DEF Reload
  <2>4. /\ calls' = [k \in Slots |-> calls'[k]]
        /\ \A k \in Slots: calls'[k] = Dropped(calls)[k] \/ calls'[k] = r
    BY <2>3, DroppedShape
  <2>5. \A k \in Slots: IsCall(calls'[k]) /\ (Remains(calls'[k], calls[k]) \/ Plain(calls'[k]))
    BY <2>2, <2>4, DroppedAre, FreeCall, FreeIsPlain DEF TokenInv, Shape, SameRequest, Remains, Secret, SecretOf
  <2>6. Quiet
    BY <1>w, <2>3, <2>4, <2>5 DEF Quiet, Shape
  <2> QED BY <2>6, QuietStep
<1>4. ASSUME NEW k \in Slots, AnswerPrompt(k) PROVE TokenInv'
  <2>1. PICK c: c = [calls[k] EXCEPT !.st = "sent"] OBVIOUS
  <2>2. /\ UNCHANGED <<issued, stored, session, refused, wizard>>
        /\ calls' = [calls EXCEPT ![k] = c] \/ calls' = [calls EXCEPT ![k] = Free]
    BY <1>4, <2>1 DEF AnswerPrompt, session_vars, Ended, TokenInv, Shape
  <2>3. IsCall(c) /\ Remains(c, calls[k])
    BY <2>1 DEF TokenInv, Shape, IsCall, CallFields, Remains, Secret, SecretOf
  <2> QED BY <1>w, <2>2, <2>3, SlotQuiet, FreeCall, FreeIsPlain
<1>5. ASSUME NEW at, Open(at) PROVE TokenInv'
  <2>1. PICK c: c = Load(at, session) OBVIOUS
  <2>2. /\ UNCHANGED <<issued, stored, session, refused, wizard>>
        /\ \/ at \in DOMAIN LoadOf /\ NextSlot \in Slots /\ calls' = [Left(calls) EXCEPT ![NextSlot] = c]
           \/ calls' = Left(calls)
    BY <1>5, <2>1, NextSlotIs DEF Open, session_vars
  <2>3. at \in DOMAIN LoadOf => IsCall(c) /\ Plain(c)
    BY <2>1, LoadIs DEF LoadOf, Plain, Secret, Known, Kept
  <2>4. \A k \in Slots: IsCall(Left(calls)[k]) /\ Remains(Left(calls)[k], calls[k])
    BY OrphansAre DEF Left, TokenInv, Shape, SameRequest, Remains, Secret, SecretOf
  <2>5. Left(calls) = [k \in Slots |-> Left(calls)[k]]
    BY OrphansShape DEF Left
  <2>6. /\ calls' = [k \in Slots |-> calls'[k]]
        /\ \A k \in Slots: \/ calls'[k] = Left(calls)[k]
                           \/ at \in DOMAIN LoadOf /\ calls'[k] = c
    BY <2>2, <2>5
  <2>7. Quiet
    BY <1>w, <2>2, <2>3, <2>4, <2>6 DEF Quiet, Shape
  <2> QED BY <2>7, QuietStep
<1>6. CASE \/ \E c \in Cols: TypeField(c)
           \/ \E b \in Boxes: TypeText(b)
           \/ \E kind \in {"edit", "create"}: OpenModal(kind)
           \/ \E h \in Hours: PickSlot(h)
  <2>1. UNCHANGED <<issued, stored, session, refused, calls, wizard>>
    BY <1>6 DEF TypeField, TypeText, OpenModal, PickSlot, session_vars
  <2> QED BY <1>w, <2>1, SameWire
<1>7. CASE SaveAssignment \/ SaveProperty \/ CreateProperty \/ SaveConfig \/ AddNote \/ SendReply \/ CreatePerson
  <2>1. \E kind \in {"assign", "update", "create", "config", "note", "reply", "newPerson"}: \E draft, body:
           Press(kind, draft, body)
    BY <1>7 DEF SaveAssignment, SaveProperty, CreateProperty, SaveConfig, AddNote, SendReply, CreatePerson
  <2> QED BY <2>1, PressQuiet
<1>8. CASE CloseModal
  <2>1. UNCHANGED <<issued, stored, session, refused, wizard>> /\ calls' = Unmodalled(calls)
    BY <1>8 DEF CloseModal, session_vars
  <2>2. \A k \in Slots: IsCall(calls'[k]) /\ Remains(calls'[k], calls[k])
    BY <2>1, UnmodalledAre DEF TokenInv, Shape, SameRequest, Remains, Secret, SecretOf
  <2>3. Quiet
    BY <1>w, <2>1, <2>2, UnmodalledShape DEF Quiet, Shape
  <2> QED BY <2>3, QuietStep
<1>9. ASSUME NEW b, PressButton(b) PROVE TokenInv'
  <2>1. b \notin {"me", "login", "ownerLogin"}
    BY <1>9 DEF PressButton, Buttons, Screens
  <2> QED BY <1>9, <2>1, PressQuiet DEF PressButton
<1>10. CASE PressCreateTenant
  <2>1. PICK kind: kind = "tenant" OBVIOUS
  <2>2. /\ Send(Call(kind, Nobody, NoDraft, << >>)) /\ UNCHANGED <<issued, stored, session, refused>>
        /\ wizard' = [wizard EXCEPT !.submitting = TRUE, !.error = "none"]
    BY <1>10, <2>1 DEF PressCreateTenant, session_vars, Wizard
  <2>3. IsWizard(wizard') /\ wizard'.token = wizard.token
    BY <1>w, <2>2 DEF IsWizard, WizardFields
  <2> QED BY <2>1, <2>2, <2>3, SendQuiet
<1>11. CASE RetryBootstrap \/ RetryLogin
  <2>1. PICK kind \in {"bootstrap", "ownerLogin"}: \E from, next: Retry(from, next, kind)
    BY <1>11 DEF RetryBootstrap, RetryLogin
  <2>2. /\ Send(Call(kind, Nobody, NoDraft, << >>)) /\ UNCHANGED <<issued, stored, session, refused>>
        /\ \E next: wizard' = [wizard EXCEPT !.phase = next, !.error = "none"]
    BY <2>1 DEF Retry, session_vars, Wizard
  <2>3. IsWizard(wizard') /\ wizard'.token = wizard.token
    BY <1>w, <2>2 DEF IsWizard, WizardFields
  <2> QED BY <2>1, <2>2, <2>3, SendQuiet
<1>12. CASE ToStep2
  <2>1. /\ UNCHANGED <<issued, stored, session, refused, calls>> /\ wizard' = [wizard EXCEPT !.step = 2]
    BY <1>12 DEF ToStep2, session_vars, Wizard
  <2>2. IsWizard(wizard') /\ wizard'.token = wizard.token
    BY <1>w, <2>1 DEF IsWizard, WizardFields
  <2> QED BY <2>1, <2>2, SameWire
<1>13. CASE PressImport \/ SaveWizardConfig
  <2>1. \E kind \in {"import", "config"}: \E body:
            /\ Send(Call(kind, wizard.token, NoDraft, body))
            /\ UNCHANGED <<issued, stored, session, refused, wizard>>
    BY <1>13 DEF PressImport, SaveWizardConfig, session_vars
  <2> QED BY <1>w, <2>1, SendQuiet
<1>14. CASE ToStep3
  <2> DEFINE ask(kind) == [Call(kind, wizard.token, NoDraft, << >>) EXCEPT !.alive = "page"]
  <2>1. PICK cs: cs = <<ask("card"), ask("webhook"), ask("count")>>
    OBVIOUS
  <2>2. /\ SendAll(cs) /\ UNCHANGED <<issued, stored, session, refused>>
        /\ wizard' = [wizard EXCEPT !.step = 3]
    BY <1>14, <2>1 DEF ToStep3, session_vars, Wizard
  <2>3. IsWizard(wizard') /\ wizard'.token = wizard.token
    BY <1>w, <2>2 DEF IsWizard, WizardFields
  <2>4. \A i \in 1 .. 3: IsCall(cs[i]) /\ Plain(cs[i])
    <3>1. ASSUME NEW kind, kind \notin {"me", "login", "ownerLogin"}
          PROVE  IsCall(ask(kind)) /\ Plain(ask(kind))
      <4>1. PICK c: c = Call(kind, wizard.token, NoDraft, << >>)
        OBVIOUS
      <4>2. PICK d: d = [c EXCEPT !.alive = "page"]
        OBVIOUS
      <4>3. IsCall(d) /\ d.kind = kind /\ d.st = "sent" /\ d.token = wizard.token
        BY <4>1, <4>2, CallIs DEF IsCall, CallFields
      <4>4. Plain(d)
        BY <3>1, <4>3 DEF Plain, Secret, Known, Kept
      <4> QED BY <4>1, <4>2, <4>3, <4>4
    <3> HIDE DEF ask
    <3> QED BY <2>1, <3>1
  <2>5. /\ calls' = [k \in Slots |-> calls'[k]] /\ \A k \in Slots: IsCall(calls'[k])
        /\ \A k \in Slots: calls'[k] = calls[k] \/ (calls[k] = Free /\ \E i \in 1 .. 3: calls'[k] = cs[i])
    BY <2>1, <2>2, <2>4, SendAllIs DEF TokenInv
  <2>6. Quiet
    BY <2>2, <2>3, <2>4, <2>5 DEF Quiet, Shape, Remains
  <2> QED BY <2>6, QuietStep
<1>15. CASE UploadPhoto
  <2>1. PICK kind: kind = "photo" OBVIOUS
  <2>2. PICK c: c = Call(kind, session, typed + 1, << >>) OBVIOUS
  <2>3. Send(c) /\ UNCHANGED <<issued, stored, session, refused, wizard>>
    BY <1>15, <2>1, <2>2 DEF UploadPhoto, session_vars
  <2>4. IsCall(c) /\ c.kind = kind /\ c.token \in Known /\ c.st = "sent"
    BY <2>2, CallIs DEF Known, Kept
  <2> QED BY <1>w, <2>1, <2>3, <2>4, SentQuiet
<1>16. CASE (\E d \in Days: PickDay(d)) \/ PressBook
  <2>1. \E kind \in {"slots", "book"}: \E body:
            /\ Send(Call(kind, Nobody, NoDraft, body))
            /\ UNCHANGED <<issued, stored, session, refused, wizard>>
    BY <1>16 DEF PickDay, PressBook, session_vars
  <2> QED BY <1>w, <2>1, SendQuiet
<1> QED BY <1>1, <1>2, <1>3, <1>4, <1>5, <1>6, <1>7, <1>8, <1>9, <1>10, <1>11, <1>12, <1>13, <1>14,
           <1>15, <1>16 DEF Person

-----------------------------------------------------------------------------
(* The server, and what is lost.                                           *)

LEMMA ServeTokens == ASSUME TokenInv, NEW k \in Slots, Serve(k) PROVE TokenInv'
<1>1. /\ IsWizard(wizard) /\ IsCall(calls[k]) /\ calls[k].st = "sent"
      /\ UNCHANGED <<stored, session, refused, wizard>>
  BY DEF Serve, TokenInv, Shape
<1>2. CASE ServeOk(k) /\ calls[k].kind \in WithPassword
  <2>0. Result(calls[k]) = issued + 1
    BY <1>2 DEF Result, WithPassword, WithNothing
  <2>1. /\ issued' = issued + 1
        /\ calls' = [calls EXCEPT ![k].st = "done", ![k].result = issued + 1]
    BY <1>2, <2>0 DEF ServeOk, Apply
  <2>2. PICK c: c = [calls[k] EXCEPT !.st = "done", !.result = issued + 1]
    OBVIOUS
  <2>3. IsCall(c) /\ c.kind = calls[k].kind /\ c.token = calls[k].token /\ c.result = issued + 1
    BY <1>1, <2>2 DEF IsCall, CallFields
  <2>4. calls' = [calls EXCEPT ![k] = c]
    BY <2>1, <2>2 DEF TokenInv, Shape
  <2>5. /\ calls' = [j \in Slots |-> calls'[j]] /\ \A j \in Slots: IsCall(calls'[j])
        /\ calls'[k] = c /\ \A j \in Slots \ {k}: calls'[j] = calls[j]
    BY <2>3, <2>4, OneSlot DEF TokenInv
  <2>6. issued \in Nat /\ c.kind # "me" /\ SecretOf(c) = issued + 1 /\ c.token = Nobody
    BY <1>2, <2>3 DEF TokenInv, IssuedInv, SecretOf, WithPassword
  <2>7. IssuedInv'
    <3>1. \A j \in Slots: /\ calls'[j].token \in 0 .. issued
                          /\ calls'[j].kind \in WithPassword => calls'[j].token = Nobody
      BY <2>5, <2>6 DEF TokenInv, IssuedInv, Nobody
    <3>2. \A j \in Slots: Secret(calls'[j]) => SecretOf(calls'[j]) \in 1 .. issued + 1
      BY <2>5, <2>6 DEF TokenInv, IssuedInv
    <3>3. Kept' = Kept /\ refused' = refused
      BY <1>1 DEF Kept
    <3>4. 0 .. issued \subseteq 0 .. issued + 1 /\ 1 .. issued \subseteq 1 .. issued + 1 /\ issued + 1 \in Nat
      BY <2>6
    <3> QED BY <2>1, <3>1, <3>2, <3>3, <3>4 DEF TokenInv, IssuedInv
  <2>8. issued + 1 \notin refused \cup Kept
        /\ \A j \in Slots: calls[j].token # issued + 1 /\ (Secret(calls[j]) => SecretOf(calls[j]) # issued + 1)
    BY DEF TokenInv, IssuedInv
  <2>9. Kept' = Kept /\ refused' = refused
    BY <1>1 DEF Kept
  <2>10. SoleInv'
    <3> SUFFICES ASSUME NEW i \in Slots, Secret(calls'[i])
                 PROVE  /\ SecretOf(calls'[i]) \notin refused \cup Kept
                        /\ \A j \in Slots \ {i}: /\ SecretOf(calls'[i]) # calls'[j].token
                                                 /\ Secret(calls'[j]) => SecretOf(calls'[i]) # SecretOf(calls'[j])
      BY <2>9 DEF SoleInv
    <3>1. CASE i = k
      BY <2>5, <2>6, <2>8, <3>1
    <3>2. CASE i # k
      BY <2>5, <2>6, <2>8, <3>2 DEF TokenInv, SoleInv, IssuedInv, Nobody
    <3> QED BY <3>1, <3>2
  <2> QED BY <1>1, <2>5, <2>7, <2>10 DEF TokenInv, Shape, RefusedStaysOut
<1>3. CASE ServeOk(k) /\ calls[k].kind \notin WithPassword
  <2>1. issued' = issued /\ \E result: calls' = [calls EXCEPT ![k].st = "done", ![k].result = result]
    BY <1>3 DEF ServeOk, Apply
  <2>2. PICK result: calls' = [calls EXCEPT ![k].st = "done", ![k].result = result]
    BY <2>1
  <2>3. PICK c: c = [calls[k] EXCEPT !.st = "done", !.result = result]
    OBVIOUS
  <2>4. IsCall(c) /\ c.kind = calls[k].kind /\ c.token = calls[k].token
    BY <1>1, <2>3 DEF IsCall, CallFields
  <2>5. calls' = [calls EXCEPT ![k] = c]
    BY <2>2, <2>3 DEF TokenInv, Shape
  <2>6. Remains(c, calls[k])
    BY <1>3, <2>4 DEF Remains, Secret, SecretOf
  <2> QED BY <1>1, <2>1, <2>4, <2>5, <2>6, SlotQuiet
<1>4. CASE ServeDropped(k)
  <2>1. calls' = [calls EXCEPT ![k] = Free] /\ issued' = issued
    BY <1>4 DEF ServeDropped, Ended
  <2> QED BY <1>1, <2>1, SlotQuiet, FreeCall, FreeIsPlain
<1>5. CASE ServeNo(k) \/ Serve401(k)
  <2>1. PICK status \in {"no", "bad", "401"}: Refuse(k, status)
    BY <1>5 DEF ServeNo, Serve401
  <2>2. PICK c: c = [calls[k] EXCEPT !.st = status]
    OBVIOUS
  <2>3. IsCall(c) /\ c.kind = calls[k].kind /\ c.token = calls[k].token /\ c.st = status
    BY <1>1, <2>2 DEF IsCall, CallFields
  <2>4. /\ UNCHANGED issued
        /\ calls' = [calls EXCEPT ![k] = c] \/ calls' = [calls EXCEPT ![k] = Free]
    BY <2>1, <2>2 DEF Refuse, Unsent, TokenInv, Shape
  <2>5. Remains(c, calls[k])
    BY <2>1, <2>3 DEF Remains, Secret, SecretOf
  <2> QED BY <1>1, <2>3, <2>4, <2>5, SlotQuiet, FreeCall, FreeIsPlain
<1> QED BY <1>2, <1>3, <1>4, <1>5 DEF Serve

LEMMA WorldTokens == ASSUME TokenInv, World PROVE TokenInv'
<1>1. UNCHANGED <<issued, stored, session, refused, calls, wizard>>
  BY DEF World, SessionEnds, OthersVisits, OthersSave, session_vars
<1> QED BY <1>1, SameWire DEF TokenInv, Shape

LEMMA LoseTokens == ASSUME TokenInv, NEW k \in Slots, Lose(k) PROVE TokenInv'
<1>1. IsWizard(wizard) /\ IsCall(calls[k])
  BY DEF TokenInv, Shape
<1>2. PICK c: c = [calls[k] EXCEPT !.st = "broken"]
  OBVIOUS
<1>3. IsCall(c) /\ c.kind = calls[k].kind /\ c.token = calls[k].token /\ c.st = "broken"
  BY <1>1, <1>2 DEF IsCall, CallFields
<1>4. /\ UNCHANGED <<issued, stored, session, refused>>
      /\ calls' = [calls EXCEPT ![k] = c]
      /\ wizard' = wizard \/ \E x: wizard' = [wizard EXCEPT !.unheard = x]
  BY <1>2 DEF Lose, session_vars, TokenInv, Shape
<1>5. IsWizard(wizard') /\ wizard'.token = wizard.token
  BY <1>1, <1>4 DEF IsWizard, WizardFields
<1>6. Remains(c, calls[k])
  BY <1>3 DEF Remains, Secret, SecretOf
<1> QED BY <1>3, <1>4, <1>5, <1>6, SlotQuiet

-----------------------------------------------------------------------------
(* Answers.                                                                *)

\* The function that awaited k ends, or goes on with one call more of a known token; what
\* was mounted may unmount.
LEMMA AnswerQuiet ==
    ASSUME TokenInv, NEW k \in Slots, NEW c, Plain(c),
           calls' = [j \in Slots |-> calls'[j]],
           \A j \in Slots: SameRequest(calls'[j], IF j = k THEN c ELSE calls[j]),
           {stored', session'} \subseteq {Nobody, stored, session}, UNCHANGED <<issued, refused>>,
           IsWizard(wizard'), wizard'.token = wizard.token
    PROVE  TokenInv'
<1>1. \A j \in Slots: Remains(calls'[j], calls[j]) \/ Plain(calls'[j])
  BY DEF SameRequest, Remains, Plain, Secret, SecretOf
<1>2. Quiet
  BY <1>1 DEF Quiet, Shape, SameRequest
<1> QED BY <1>2, QuietStep

\* What an answered call leaves on the wire.
Leaves(k, c) == /\ calls' = [j \in Slots |-> calls'[j]]
                /\ \A j \in Slots: SameRequest(calls'[j], IF j = k THEN c ELSE calls[j])

LEMMA EndedLeaves ==
    ASSUME Shape, NEW k \in Slots, calls' = Ended(k) \/ calls' = Left(Ended(k)) \/ calls' = Unmodalled(Ended(k))
    PROVE  Leaves(k, Free)
<1> DEFINE cs == Ended(k)
<1>1. /\ cs = [j \in Slots |-> cs[j]] /\ \A j \in Slots: cs[j] = IF j = k THEN Free ELSE calls[j]
  BY DEF Shape, Ended
<1>2. \A j \in Slots: IsCall(cs[j])
  BY <1>1, FreeCall DEF Shape
<1> HIDE DEF cs
<1>3. \A j \in Slots: SameRequest(cs[j], cs[j])
  BY <1>2 DEF SameRequest
<1>4. \A j \in Slots: SameRequest(Left(cs)[j], cs[j])
  BY <1>2, OrphansAre DEF Left
<1>5. \A j \in Slots: SameRequest(Unmodalled(cs)[j], cs[j])
  BY <1>2, UnmodalledAre
<1>6. /\ Left(cs) = [j \in Slots |-> Left(cs)[j]] /\ Unmodalled(cs) = [j \in Slots |-> Unmodalled(cs)[j]]
  BY OrphansShape, UnmodalledShape DEF Left
<1>7. calls' = cs \/ calls' = Left(cs) \/ calls' = Unmodalled(cs)
  BY DEF cs
<1> QED BY <1>1, <1>3, <1>4, <1>5, <1>6, <1>7 DEF Leaves

LEMMA FollowedLeaves ==
    ASSUME Shape, NEW k \in Slots, NEW c, IsCall(c), NEW from, NEW to,
           \/ calls' = Followed(k, c) \/ calls' = Unmodalled(Followed(k, c))
           \/ calls' = Orphans(Followed(k, c), from, to)
    PROVE  Leaves(k, c)
<1> DEFINE cs == Followed(k, c)
<1>1. /\ cs = [j \in Slots |-> cs[j]] /\ \A j \in Slots: cs[j] = IF j = k THEN c ELSE calls[j]
  BY DEF Shape, Followed
<1>2. \A j \in Slots: IsCall(cs[j])
  BY <1>1 DEF Shape
<1> HIDE DEF cs
<1>3. \A j \in Slots: SameRequest(cs[j], cs[j])
  BY <1>2 DEF SameRequest
<1>4. \A j \in Slots: SameRequest(Orphans(cs, from, to)[j], cs[j])
  BY <1>2, OrphansAre
<1>5. \A j \in Slots: SameRequest(Unmodalled(cs)[j], cs[j])
  BY <1>2, UnmodalledAre
<1>6. /\ Orphans(cs, from, to) = [j \in Slots |-> Orphans(cs, from, to)[j]]
      /\ Unmodalled(cs) = [j \in Slots |-> Unmodalled(cs)[j]]
  BY OrphansShape, UnmodalledShape
<1>7. calls' = cs \/ calls' = Orphans(cs, from, to) \/ calls' = Unmodalled(cs)
  BY DEF cs
<1> QED BY <1>1, <1>3, <1>4, <1>5, <1>6, <1>7 DEF Leaves

LEMMA AnyLoadIs ==
    ASSUME NEW at \in DOMAIN LoadOf, NEW token, NEW c,
           c = Load(at, token) \/ c = [Load(at, token) EXCEPT !.alive = "gone"]
    PROVE  /\ IsCall(c) /\ c.kind = LoadOf[at] /\ c.kind \in Loads /\ c.st = "sent"
           /\ c.token = token /\ c.draft = NoDraft
<1>1. PICK d: d = Load(at, token)
  OBVIOUS
<1>2. /\ IsCall(d) /\ d.kind = LoadOf[at] /\ d.st = "sent" /\ d.token = token /\ d.draft = NoDraft
  BY <1>1, LoadIs
<1>3. c = d \/ c = [d EXCEPT !.alive = "gone"]
  BY <1>1
<1> QED BY <1>2, <1>3 DEF IsCall, CallFields, Loads

LEMMA LoadKinds == Loads \subseteq {"lead", "queue", "stock", "people", "visits"} /\ DOMAIN LoadOf \subseteq Screens
  BY DEF Loads, LoadOf, Screens

-----------------------------------------------------------------------------
(* A call: who waits for its answer.                                       *)
Kinds == WithToken \cup WithNothing \cup WithMasterKey \cup WithPassword \cup {"none"}

\* The page that asked them stays until it is closed.
Anchored == WithNothing \cup WithMasterKey

Lives(c) == /\ c.kind \in Kinds /\ c.alive \in {"form", "page", "gone", "dropped"}
            /\ c.kind = "none" => c = Free
            /\ c.kind = "push" => c.alive \in {"gone", "dropped"}
            /\ c.kind \in Anchored => c.alive = "form"
            /\ c.alive = "dropped" => c.st = "sent" /\ c.kind \notin WithPassword

LEMMA KindList ==
    Kinds = {"me", "logout", "people", "newPerson", "deactivate", "reset", "lead", "note", "reply",
             "contacted", "optOut", "release", "suppress", "assign", "queue", "stock", "create", "update",
             "status", "remove", "photo", "visits", "visit", "config", "import", "webhook", "card", "count",
             "push", "details", "slots", "book", "tenant", "bootstrap", "login", "ownerLogin", "none"}
  BY DEF Anchored, Kinds, WithToken, WithNothing, WithMasterKey, WithPassword, PersonCalls, LeadCalls, QueueCalls,
         PropertyCalls, AppointmentCalls, ConfigCalls, ReadinessCalls, PushCalls

\* Which function goes on, by what was asked.
LEMMA AfterOkIs ==
    ASSUME NEW k \in Slots, Lives(calls[k]), calls[k].st = "done", calls[k].alive # "gone", OfAScreen(k),
           AfterOk(k), NEW kind, kind = calls[k].kind
    PROVE  \/ kind \in Loads /\ Loaded(k)
           \/ kind = "assign" /\ AssignmentSaved(k)
           \/ kind = "config" /\ ConfigSaved(k)
           \/ kind \in {"create", "update"} /\ CloseAndFetch(k)
           \/ kind = "note" /\ NoteAdded(k)
           \/ kind \in {"reply", "release"} /\ FetchLead(k)
           \/ kind \in {"newPerson", "deactivate", "reset"} /\ FetchPeople(k)
           \/ kind \in {"contacted", "optOut"} /\ LeadUpdated(k)
           \/ kind \in {"status", "remove"} /\ FetchStock(k)
           \/ kind = "suppress" /\ Suppressed(k)
           \/ kind = "visit" /\ VisitUpdated(k)
           \/ kind = "photo" /\ PhotoUploaded(k)
           \/ kind \in WithNothing /\ \E ok: AgendaAnswered(k, ok)
<1>1. kind \notin {"none", "push"}
  BY FreeCall DEF Anchored, WithMasterKey, Lives
<1>2. kind \notin WithPassword \cup WithMasterKey \cup ReadinessCalls \cup {"me", "logout"}
  BY DEF OfAScreen
<1>3. Loads = {"lead", "queue", "stock", "people", "visits"}
  BY DEF Loads, LoadOf
<1>4. kind \in Loads \cup WithNothing
      \cup {"assign", "config", "create", "update", "note", "reply", "release", "newPerson", "deactivate",
            "reset", "contacted", "optOut", "status", "remove", "suppress", "visit", "photo"}
  BY <1>1, <1>2, <1>3, KindList DEF Anchored, Lives, WithNothing, WithPassword, WithMasterKey, ReadinessCalls
<1>5. CASE kind \in Loads
  BY <1>3, <1>5 DEF Anchored, WithMasterKey, AfterOk, WithNothing
<1>6. CASE kind = "assign"
  BY <1>3, <1>6 DEF Anchored, WithMasterKey, AfterOk, WithNothing
<1>7. CASE kind = "config"
  BY <1>3, <1>7 DEF Anchored, WithMasterKey, AfterOk, WithNothing
<1>8. CASE kind \in {"create", "update"}
  BY <1>3, <1>8 DEF Anchored, WithMasterKey, AfterOk, WithNothing
<1>9. CASE kind = "note"
  BY <1>3, <1>9 DEF Anchored, WithMasterKey, AfterOk, WithNothing
<1>10. CASE kind \in {"reply", "release"}
  BY <1>3, <1>10 DEF Anchored, WithMasterKey, AfterOk, WithNothing
<1>11. CASE kind \in {"newPerson", "deactivate", "reset"}
  BY <1>3, <1>11 DEF Anchored, WithMasterKey, AfterOk, WithNothing
<1>12. CASE kind \in {"contacted", "optOut"}
  BY <1>3, <1>12 DEF Anchored, WithMasterKey, AfterOk, WithNothing
<1>13. CASE kind \in {"status", "remove"}
  BY <1>3, <1>13 DEF Anchored, WithMasterKey, AfterOk, WithNothing
<1>14. CASE kind = "suppress"
  BY <1>3, <1>14 DEF Anchored, WithMasterKey, AfterOk, WithNothing
<1>15. CASE kind = "visit"
  BY <1>3, <1>15 DEF Anchored, WithMasterKey, AfterOk, WithNothing
<1>16. CASE kind = "photo"
  BY <1>3, <1>16 DEF Anchored, WithMasterKey, AfterOk, WithNothing
<1>17. CASE kind \in WithNothing
  BY <1>3, <1>17 DEF Anchored, WithMasterKey, AfterOk, WithNothing
<1> QED BY <1>3, <1>4, <1>5, <1>6, <1>7, <1>8, <1>9, <1>10, <1>11, <1>12, <1>13, <1>14, <1>15, <1>16, <1>17

\* How the functions of the screens go on: nothing more is asked, or a record again.
LEMMA ScreenLeaves ==
    ASSUME Shape, NEW k \in Slots, Lives(calls[k]),
           (calls[k].st = "done" /\ ScreenOk(k)) \/ ScreenError(k)
    PROVE  \E c: /\ Leaves(k, c)
                 /\ c = Free \/ (c.kind \in Loads /\ c.token = calls[k].token /\ c.st = "sent" /\ c.draft = NoDraft)
<1> DEFINE Good(c) == c = Free \/ (c.kind \in Loads /\ c.token = calls[k].token /\ c.st = "sent" /\ c.draft = NoDraft)
<1> DEFINE Goal == \E c: Leaves(k, c) /\ Good(c)
<1>e. ASSUME calls' = Ended(k) \/ calls' = Left(Ended(k)) PROVE Goal
  BY <1>e, EndedLeaves
<1>f. ASSUME NEW at \in DOMAIN LoadOf, NEW from, NEW to, NEW c,
             c = Load(at, calls[k].token) \/ c = [Load(at, calls[k].token) EXCEPT !.alive = "gone"],
             \/ calls' = Followed(k, c) \/ calls' = Unmodalled(Followed(k, c))
             \/ calls' = Orphans(Followed(k, c), from, to)
      PROVE  Goal
  <2>1. IsCall(c) /\ Good(c)
    BY <1>f, AnyLoadIs
  <2> QED BY <1>f, <2>1, FollowedLeaves
<1>d. {"stock", "ficha", "people"} \subseteq DOMAIN LoadOf
  BY DEF LoadOf
<1>1. CASE ScreenError(k)
  <2>1. calls' = Ended(k)
    BY <1>1 DEF ScreenError, AgendaAnswered, DetailsAnswered, SlotsAnswered, BookAnswered, LoadFailed, Failed
  <2> QED BY <1>e, <2>1
<1>2. CASE calls[k].st = "done" /\ ScreenOk(k)
  <2>1. CASE calls[k].alive = "gone" /\ Unmounted(k)
    <3>1. CASE calls[k].kind \in DOMAIN Fetching
      <4>1. PICK at: at = Fetching[calls[k].kind]
        OBVIOUS
      <4>2. at \in DOMAIN LoadOf
        BY <3>1, <4>1 DEF Fetching, LoadOf
      <4>3. PICK c: c = [Load(at, calls[k].token) EXCEPT !.alive = "gone"]
        OBVIOUS
      <4>4. calls' = Followed(k, c)
        BY <2>1, <3>1, <4>1, <4>3 DEF Unmounted
      <4> QED BY <1>f, <4>2, <4>3, <4>4
    <3>2. CASE calls[k].kind \notin DOMAIN Fetching
      BY <1>e, <2>1, <3>2 DEF Unmounted
    <3> QED BY <3>1, <3>2
  <2>2. CASE Suppressed(k)
    BY <1>e, <2>2 DEF Suppressed
  <2>3. CASE calls[k].alive # "gone" /\ AfterOk(k)
    <3>1. CASE \/ Loaded(k) \/ AssignmentSaved(k) \/ ConfigSaved(k) \/ NoteAdded(k) \/ LeadUpdated(k)
               \/ VisitUpdated(k) \/ PhotoUploaded(k) \/ \E ok: AgendaAnswered(k, ok)
      <4>1. calls' = Ended(k)
        BY <3>1 DEF Loaded, AssignmentSaved, ConfigSaved, NoteAdded, LeadUpdated, VisitUpdated,
                    PhotoUploaded, AgendaAnswered, DetailsAnswered, SlotsAnswered, BookAnswered
      <4> QED BY <1>e, <4>1
    <3>2. CASE CloseAndFetch(k) \/ FetchLead(k) \/ FetchPeople(k) \/ FetchStock(k)
      <4>1. PICK at \in {"stock", "ficha", "people"}:
              LET c == Load(at, calls[k].token)
              IN  \/ calls' = Followed(k, c) \/ calls' = Unmodalled(Followed(k, c))
                  \/ calls' = Orphans(Followed(k, c), {"form"}, "page")
        BY <3>2 DEF CloseAndFetch, FetchLead, FetchPeople, FetchStock
      <4> QED BY <1>d, <1>f, <4>1
    <3>3. CASE Suppressed(k)
      BY <2>2, <3>3
    <3> QED BY <1>2, <2>3, <3>1, <3>2, <3>3, AfterOkIs DEF ScreenOk
  <2> QED BY <1>2, <2>1, <2>2, <2>3 DEF ScreenOk
<1> QED BY <1>1, <1>2

\* A token that a login has brought is handed over: to getMe, to the session, to the wizard.
LEMMA HandOver ==
    ASSUME TokenInv, NEW k \in Slots, NEW s, Secret(calls[k]), s = SecretOf(calls[k]),
           NEW c, IsCall(c), calls' = [calls EXCEPT ![k] = c],
           UNCHANGED <<issued, refused>>, IsWizard(wizard'),
           c.kind \notin WithPassword, c.token \in {s, Nobody},
           Secret(c) => SecretOf(c) = s /\ Kept' = Kept, Kept' \subseteq Kept \cup {s},
           {stored', session'} \subseteq {stored, session, s}
    PROVE  TokenInv'
<1>1. /\ calls' = [j \in Slots |-> calls'[j]] /\ \A j \in Slots: IsCall(calls'[j])
      /\ calls'[k] = c /\ \A j \in Slots \ {k}: calls'[j] = calls[j]
  BY OneSlot DEF TokenInv
<1>2. /\ issued \in Nat /\ s \in 1 .. issued /\ s # Nobody /\ s \notin refused \cup Kept
      /\ \A j \in Slots \ {k}: s # calls[j].token /\ (Secret(calls[j]) => s # SecretOf(calls[j]))
  BY DEF TokenInv, IssuedInv, SoleInv, Nobody
<1>3. IssuedInv'
  <2>1. \A j \in Slots: /\ calls'[j].token \in 0 .. issued
                        /\ calls'[j].kind \in WithPassword => calls'[j].token = Nobody
    BY <1>1, <1>2 DEF TokenInv, IssuedInv, Nobody
  <2>2. \A j \in Slots: Secret(calls'[j]) => SecretOf(calls'[j]) \in 1 .. issued
    BY <1>1, <1>2 DEF TokenInv, IssuedInv
  <2>3. Kept' \subseteq 0 .. issued
    BY <1>2 DEF TokenInv, IssuedInv
  <2> QED BY <2>1, <2>2, <2>3 DEF TokenInv, IssuedInv
<1>4. SoleInv'
  <2> SUFFICES ASSUME NEW i \in Slots, Secret(calls'[i])
               PROVE  /\ SecretOf(calls'[i]) \notin refused \cup Kept'
                      /\ \A j \in Slots \ {i}: /\ SecretOf(calls'[i]) # calls'[j].token
                                               /\ Secret(calls'[j]) => SecretOf(calls'[i]) # SecretOf(calls'[j])
    BY DEF SoleInv
  <2>1. CASE i = k
    BY <1>1, <1>2, <2>1
  <2>2. CASE i # k
    <3>1. /\ Secret(calls[i]) /\ calls'[i] = calls[i] /\ SecretOf(calls[i]) # s
          /\ SecretOf(calls[i]) # Nobody /\ SecretOf(calls[i]) \notin refused \cup Kept
          /\ \A j \in Slots \ {i}: /\ SecretOf(calls[i]) # calls[j].token
                                   /\ Secret(calls[j]) => SecretOf(calls[i]) # SecretOf(calls[j])
      BY <1>1, <1>2, <2>2 DEF TokenInv, SoleInv, IssuedInv, Nobody
    <3> QED BY <1>1, <3>1
  <2> QED BY <2>1, <2>2
<1>5. RefusedStaysOut'
  BY <1>2 DEF TokenInv, RefusedStaysOut, Kept
<1> QED BY <1>1, <1>3, <1>4, <1>5 DEF TokenInv, Shape

\* The 401: its token is refused, and the tab keeps none.
LEMMA RefusedTokens == ASSUME TokenInv, NEW k \in Slots, Deliver401(k) PROVE TokenInv'
<1>1. /\ stored' = Nobody /\ session' = Nobody /\ issued' = issued
      /\ refused' = refused \cup ({calls[k].token} \ {Nobody}) /\ calls[k].st = "401"
      /\ calls' = Ended(k) \/ calls' = Left(Ended(k))
  BY DEF Deliver401, SignedOut, ToLogin
<1>2. IsWizard(wizard') /\ wizard'.token = wizard.token
  <2>1. wizard' = wizard \/ wizard' = [wizard EXCEPT !.phase = "login-error", !.error = "401"]
    BY DEF Deliver401
  <2> QED BY <2>1 DEF TokenInv, Shape, IsWizard, WizardFields
<1>3. Leaves(k, Free)
  BY <1>1, EndedLeaves DEF TokenInv
<1>4. \A j \in Slots: /\ calls'[j].token \in {Nobody, calls[j].token}
                      /\ calls'[j].kind \in WithPassword => calls'[j].token = Nobody
                      /\ Secret(calls'[j]) => j # k /\ Secret(calls[j]) /\ SecretOf(calls'[j]) = SecretOf(calls[j])
  BY <1>3, FreeCall DEF Leaves, SameRequest, Secret, SecretOf, WithPassword, TokenInv, IssuedInv
<1>5. Kept' \subseteq Kept \cup {Nobody}
  BY <1>1, <1>2 DEF Kept
<1>6. IssuedInv'
  <2>1. \A j \in Slots: calls'[j].token \in 0 .. issued
    BY <1>4 DEF TokenInv, IssuedInv, Nobody
  <2>2. \A j \in Slots: Secret(calls'[j]) => SecretOf(calls'[j]) \in 1 .. issued
    BY <1>4 DEF TokenInv, IssuedInv
  <2>3. Kept' \subseteq 0 .. issued
    BY <1>5 DEF TokenInv, IssuedInv, Nobody
  <2>4. calls[k].token # Nobody => calls[k].token \in 1 .. issued
    BY DEF TokenInv, IssuedInv, Nobody
  <2>5. refused' \subseteq 1 .. issued
    BY <1>1, <2>4 DEF TokenInv, IssuedInv
  <2> QED BY <1>1, <1>4, <2>1, <2>2, <2>3, <2>5 DEF TokenInv, IssuedInv
<1>7. SoleInv'
  <2> SUFFICES ASSUME NEW i \in Slots, Secret(calls'[i])
               PROVE  /\ SecretOf(calls'[i]) \notin refused' \cup Kept'
                      /\ \A j \in Slots \ {i}: /\ SecretOf(calls'[i]) # calls'[j].token
                                               /\ Secret(calls'[j]) => SecretOf(calls'[i]) # SecretOf(calls'[j])
    BY DEF SoleInv
  <2>1. PICK s: s = SecretOf(calls[i])
    OBVIOUS
  <2>2. /\ i # k /\ SecretOf(calls'[i]) = s /\ s # Nobody /\ s \notin refused \cup Kept
        /\ \A j \in Slots \ {i}: s # calls[j].token /\ (Secret(calls[j]) => s # SecretOf(calls[j]))
    BY <1>4, <2>1 DEF TokenInv, SoleInv, IssuedInv, Nobody
  <2>3. s \notin refused' \cup Kept'
    BY <1>1, <1>5, <2>2
  <2>4. \A j \in Slots \ {i}: /\ s # calls'[j].token
                              /\ Secret(calls'[j]) => s # SecretOf(calls'[j])
    BY <1>4, <2>2
  <2> QED BY <2>2, <2>3, <2>4
<1>8. RefusedStaysOut'
  BY <1>1, <1>6 DEF RefusedStaysOut, IssuedInv, Nobody
<1> QED BY <1>2, <1>3, <1>6, <1>7, <1>8 DEF TokenInv, Shape, Leaves, SameRequest

LEMMA DeliverTokens ==
    ASSUME TokenInv, NEW k \in Slots, Lives(calls[k]), DeliverOk(k) \/ DeliverError(k)
    PROVE  TokenInv'
<1> USE DEF WithPassword
<1>1. UNCHANGED <<issued, refused>> /\ IsWizard(wizard) /\ IsCall(calls[k]) /\ Shape
  BY DEF DeliverOk, DeliverError, TokenInv, Shape
\* It ends, or asks again.
<1>2. ASSUME NEW c, Leaves(k, c),
             c = Free \/ (c.kind \in Loads /\ c.token = calls[k].token /\ c.st = "sent"),
             calls[k].kind # "me" \/ c = Free,
             {stored', session'} \subseteq {Nobody, stored, session},
             IsWizard(wizard'), wizard'.token = wizard.token
      PROVE  TokenInv'
  <2>1. Plain(c)
    BY <1>2, FreeIsPlain, LoadKinds DEF Plain, Secret, Known
  <2> QED BY <1>1, <1>2, <2>1, AnswerQuiet DEF Leaves
<1>3. CASE calls[k].st = "done" /\ ScreenOk(k)
  <2>1. calls[k].kind # "me" /\ UNCHANGED <<stored, session, wizard>>
    BY <1>3 DEF ScreenOk, OfAScreen
  <2> QED BY <1>1, <1>2, <1>3, <2>1, ScreenLeaves
<1>4. CASE ScreenError(k)
  <2>1. calls[k].kind # "me" /\ UNCHANGED <<stored, session, wizard>>
    BY <1>4 DEF ScreenError, OfAScreen
  <2> QED BY <1>1, <1>2, <1>4, <2>1, ScreenLeaves
<1>5. CASE wizard' = wizard /\ (LogoutEnded(k) \/ LoginFailed(k))
  <2>1. /\ calls' = Ended(k) \/ calls' = Left(Ended(k))
        /\ {stored', session'} \subseteq {Nobody, stored, session}
    BY <1>5 DEF LogoutEnded, LoginFailed, ToLogin
  <2>2. Leaves(k, Free)
    BY <1>1, <2>1, EndedLeaves
  <2> QED BY <1>1, <1>2, <1>5, <2>1, <2>2
<1>6. CASE wizard' = wizard /\ calls[k].st = "done" /\ calls[k].kind = "login" /\ LoginAnswered(k)
  <2>1. PICK kind: kind = "me"
    OBVIOUS
  <2>2. PICK c: c = Call(kind, calls[k].result, NoDraft, << >>)
    OBVIOUS
  <2>3. IsCall(c) /\ c.kind = "me" /\ c.token = calls[k].result
    BY <2>1, <2>2, CallIs
  <2>4. calls' = [calls EXCEPT ![k] = c] /\ UNCHANGED <<stored, session>> /\ Kept' = Kept
    BY <1>6, <2>1, <2>2 DEF LoginAnswered, Followed, Kept
  <2>5. Secret(calls[k]) /\ SecretOf(calls[k]) = calls[k].result /\ SecretOf(c) = calls[k].result
    BY <1>6, <2>3 DEF Secret, SecretOf
  <2> QED BY <1>1, <1>6, <2>3, <2>4, <2>5, HandOver
<1>7. CASE wizard' = wizard /\ calls[k].kind = "me" /\ MeAnswered(k)
  <2>1. PICK s: s = calls[k].token
    OBVIOUS
  <2>2. PICK r: r = Register(s)
    OBVIOUS
  <2>3. IsCall(r) /\ r.token = s /\ r.kind = "push" /\ ~Secret(r)
    BY <2>2, RegisterIs DEF Secret
  <2>4. /\ calls' = [calls EXCEPT ![k] = r] \/ calls' = [calls EXCEPT ![k] = Free]
        /\ stored' = s /\ session' = s
    BY <1>7, <2>1, <2>2 DEF MeAnswered, Followed, Ended
  <2>5. Kept' \subseteq Kept \cup {s}
    BY <1>7, <2>4 DEF Kept
  <2>6. Secret(calls[k]) /\ SecretOf(calls[k]) = s
    BY <1>7, <2>1 DEF Secret, SecretOf
  <2>7. ~Secret(Free)
    BY FreeCall DEF Secret
  <2> QED BY <1>1, <1>7, <2>3, <2>4, <2>5, <2>6, <2>7, FreeCall, HandOver
<1>8. CASE WizardOk(k) /\ calls[k].st = "done"
  <2>0. UNCHANGED <<stored, session>>
    BY <1>8 DEF WizardOk
  <2>1. CASE TenantCreated(k) \/ OwnerCreated(k)
    <3>1. \E kind \in {"bootstrap", "ownerLogin"}: calls' = Followed(k, Call(kind, Nobody, NoDraft, << >>))
      BY <2>1 DEF TenantCreated, OwnerCreated
    <3>2. PICK kind \in {"bootstrap", "ownerLogin"}: calls' = Followed(k, Call(kind, Nobody, NoDraft, << >>))
      BY <3>1
    <3>3. PICK c: c = Call(kind, Nobody, NoDraft, << >>)
      OBVIOUS
    <3>4. IsCall(c) /\ c.kind = kind /\ c.token = Nobody /\ c.st = "sent"
      BY <3>3, CallIs
    <3>5. Plain(c)
      BY <3>2, <3>4 DEF Plain, Secret, Known
    <3>6. IsWizard(wizard') /\ wizard'.token = wizard.token
      BY <1>1, <2>1 DEF TenantCreated, OwnerCreated, Wizard, IsWizard, WizardFields
    <3>7. Leaves(k, c)
      BY <1>1, <3>2, <3>3, <3>4, FollowedLeaves
    <3> QED BY <1>1, <2>0, <3>5, <3>6, <3>7, AnswerQuiet DEF Leaves
  <2>2. CASE calls[k].kind = "ownerLogin" /\ OwnerLoggedIn(k)
    <3>1. PICK s: s = calls[k].result
      OBVIOUS
    <3>2. /\ wizard' = [wizard EXCEPT !.phase = "ready", !.token = s, !.password = FALSE]
          /\ calls' = [calls EXCEPT ![k] = Free]
      BY <2>2, <3>1 DEF OwnerLoggedIn, Wizard, Ended
    <3>3. IsWizard(wizard') /\ wizard'.token = s
      BY <1>1, <3>2 DEF IsWizard, WizardFields
    <3>4. Kept' \subseteq Kept \cup {s}
      BY <2>0, <3>3 DEF Kept
    <3>5. Secret(calls[k]) /\ SecretOf(calls[k]) = s
      BY <1>8, <2>2, <3>1 DEF Secret, SecretOf
    <3>6. ~Secret(Free)
      BY FreeCall DEF Secret
    <3> QED BY <1>1, <2>0, <3>2, <3>3, <3>4, <3>5, <3>6, FreeCall, HandOver
  <2> QED BY <1>8, <2>1, <2>2 DEF WizardOk
<1>9. CASE WizardError(k)
  <2>1. UNCHANGED <<stored, session>> /\ calls' = Ended(k)
    BY <1>9 DEF WizardError, TenantFailed, OwnerFailed, OwnerLoginFailed
  <2>2. IsWizard(wizard') /\ wizard'.token = wizard.token
    BY <1>1, <1>9 DEF WizardError, TenantFailed, OwnerFailed, OwnerLoginFailed, Wizard, IsWizard, WizardFields
  <2> QED BY <1>1, <1>2, <2>1, <2>2, EndedLeaves
<1>10. CASE ReadinessEnded(k, TRUE) \/ ReadinessEnded(k, FALSE)
  <2>1. UNCHANGED <<stored, session>> /\ calls' = Ended(k)
    BY <1>10 DEF ReadinessEnded, ReadinessAnswered
  <2>2. wizard' \in {wizard, [wizard EXCEPT !.told = TRUE], [wizard EXCEPT !.stocked = calls[k].result]}
    BY <1>10 DEF ReadinessEnded, ReadinessAnswered, Wizard
  <2>3. IsWizard(wizard') /\ wizard'.token = wizard.token
    BY <1>1, <2>2 DEF IsWizard, WizardFields
  <2> QED BY <1>1, <1>2, <2>1, <2>3, EndedLeaves
<1> QED BY <1>3, <1>4, <1>5, <1>6, <1>7, <1>8, <1>9, <1>10
        DEF DeliverOk, DeliverError, AuthOk, AuthError

-----------------------------------------------------------------------------
(* Pages, and the calls that belong to them.                               *)
Guarded == Writes \cup Inserts \cup {"book"}
LoginCalls == {"login", "me"}

\* The page that may still await a call of a kind.
AtHome(kind, at) ==
    /\ kind \in LoginCalls => at = "login"
    /\ kind \in {"note", "contacted", "assign"} => at \in OfALead
    /\ kind \in {"lead", "reply", "release", "optOut", "suppress"} => at = "ficha"
    /\ kind = "queue" => at = "queue"
    /\ kind \in {"stock", "create", "update", "status", "remove", "photo"} => at = "stock"
    /\ kind \in {"people", "newPerson", "deactivate", "reset"} => at = "people"
    /\ kind \in {"visits", "visit"} => at = "agenda"
    /\ kind = "config" => at \in {"config", "wizard"}
    /\ kind \in ReadinessCalls \cup WithMasterKey \cup {"ownerLogin"} => at = "wizard"
    /\ kind \in WithNothing => at = "public"
    /\ kind = "logout" => at \notin {"login", "wizard", "public"}

PageShape == /\ IsPage(page) /\ left = [f \in PlanFields |-> left[f]] /\ left.screens \subseteq Screens
             /\ page.at \in Screens \cup {"home", "login", "wizard", "public"}

ScreenInv == /\ PageShape
             /\ stored = session /\ (Public <=> session = Nobody)
             /\ page.shown = "spinner" => page.at \in OfALead /\ page.touched = {}
             /\ page.at # "public" => page.agenda = NothingPicked

Fits(c, p) == /\ Lives(c)
              /\ c.alive \in {"form", "page"} => AtHome(c.kind, p.at)
              /\ p.at = "public" => c.kind \in WithNothing \cup {"none"}
              /\ c.alive = "page" /\ c.kind \in Guarded => p.at \in {"ficha", "stock"}
              /\ c.alive = "form" /\ c.kind \in Guarded => c.kind \in p.busy
              /\ c.kind \in LoginCalls /\ c.alive # "dropped" => c.alive = "form" /\ "login" \in p.busy

CallInv == \A k \in Slots: Fits(calls[k], page)

\* Of what a flag guards there is one.
Twin(c, d) == \/ c.kind \in Guarded /\ c.kind = d.kind /\ c.alive = "form" /\ d.alive = "form"
              \/ {c.kind, d.kind} \subseteq LoginCalls /\ c.alive = "form" /\ d.alive = "form"
OneInv == \A k \in Slots: \A j \in Slots \ {k}: ~Twin(calls[k], calls[j])

PageInv == Shape /\ ScreenInv /\ CallInv /\ OneInv

LEMMA ScreenIs ==
    ASSUME NEW at, NEW p, p = Screen(at)
    PROVE  /\ IsPage(p) /\ p.at = at /\ p.shown = "content" /\ p.touched = {} /\ p.busy = {}
           /\ p.text = EmptyBoxes /\ p.agenda = NothingPicked /\ p.values = NothingTyped
  BY DEF Screen, IsPage, PageFields, EmptyBoxes, NothingTyped, NothingPicked, AgendaFields

\* A call that was under way goes on, in the page that is there now.
Stays(d, c, p, q) ==
    /\ SameRequest(d, c)
    /\ q.at = "public" => p.at = "public"
    /\ d.alive \in {"form", "page", "gone", "dropped"}
    /\ d.alive \in {"form", "page"} => c.alive \in {"form", "page"} /\ q.at = p.at
    /\ d.alive = "form" => c.alive = "form" /\ (c.kind \in Guarded => c.kind \in q.busy)
    /\ d.alive = "page" /\ c.kind \in Guarded => q.at \in {"ficha", "stock"}
    /\ d.alive = "dropped" => c.st = "sent" /\ c.kind \notin WithPassword
    /\ c.kind \in Anchored => d.alive = c.alive
    /\ c.kind \in LoginCalls /\ d.alive # "dropped" => d.alive = c.alive /\ "login" \in q.busy
    /\ c.kind = "push" => d.alive \in {"gone", "dropped"}
    /\ c.kind = "none" => d = c

LEMMA StaysFits ==
    ASSUME NEW c, NEW d, NEW p, NEW q, Fits(c, p), Stays(d, c, p, q) PROVE Fits(d, q)
<1>1. Lives(d)
  BY DEF Anchored, WithMasterKey, Fits, Stays, Lives, SameRequest
<1>2. d.alive \in {"form", "page"} => AtHome(d.kind, q.at)
  BY DEF Fits, Stays, SameRequest
<1>3. q.at = "public" => d.kind \in WithNothing \cup {"none"}
  BY DEF Fits, Stays, SameRequest
<1>4. /\ d.alive = "page" /\ d.kind \in Guarded => q.at \in {"ficha", "stock"}
      /\ d.alive = "form" /\ d.kind \in Guarded => d.kind \in q.busy
  BY DEF Stays, SameRequest
<1>5. d.kind \in LoginCalls /\ d.alive # "dropped" => d.alive = "form" /\ "login" \in q.busy
  BY DEF Fits, Stays, SameRequest
<1> QED BY <1>1, <1>2, <1>3, <1>4, <1>5 DEF Fits

LEMMA PageStep ==
    ASSUME PageInv, Shape', ScreenInv', NEW n \in Slots,
           \A j \in Slots \ {n}: Stays(calls'[j], calls[j], page, page'),
           Fits(calls'[n], page'),
           \A j \in Slots \ {n}: ~Twin(calls'[n], calls'[j])
    PROVE  PageInv'
<1>1. CallInv'
  <2> SUFFICES ASSUME NEW j \in Slots PROVE Fits(calls'[j], page')
    BY DEF CallInv
  <2>1. Fits(calls[j], page)
    BY DEF PageInv, CallInv
  <2> QED BY <2>1, StaysFits
<1>2. \A k, j \in Slots \ {n}: Twin(calls'[k], calls'[j]) => Twin(calls[k], calls[j])
  BY DEF Stays, SameRequest, Twin, LoginCalls
<1>3. OneInv'
  <2> SUFFICES ASSUME NEW k \in Slots, NEW j \in Slots \ {k}, Twin(calls'[k], calls'[j]) PROVE FALSE
    BY DEF OneInv
  <2>1. Twin(calls'[j], calls'[k])
    BY DEF Twin
  <2> QED BY <1>2, <2>1 DEF PageInv, OneInv
<1> QED BY <1>1, <1>3 DEF PageInv

LEMMA SameStays ==
    ASSUME NEW c, IsCall(c), NEW p, NEW q, Fits(c, p), q.at = p.at,
           c.alive = "form" /\ c.kind \in Guarded => c.kind \in q.busy,
           c.kind \in LoginCalls /\ c.alive # "dropped" => "login" \in q.busy
    PROVE  Stays(c, c, p, q)
<1>1. Lives(c)
  BY DEF Fits
<1>2. SameRequest(c, c)
  BY DEF SameRequest
<1> QED BY <1>1, <1>2 DEF Anchored, WithMasterKey, Stays, Fits, Lives

\* Only the page changes.
LEMMA StillPage ==
    ASSUME PageInv, calls' = calls, IsWizard(wizard'), ScreenInv', page'.at = page.at, page'.busy = page.busy
    PROVE  PageInv'
<1>1. Shape' /\ \A k \in Slots: Fits(calls'[k], page') /\ (\A j \in Slots \ {k}: ~Twin(calls'[k], calls'[j]))
  BY DEF PageInv, Shape, CallInv, OneInv, Fits
<1> QED BY <1>1 DEF PageInv, CallInv, OneInv

\* A call is sent by what is mounted, whose flag was down and is up now.
LEMMA SentPage ==
    ASSUME PageInv, IsWizard(wizard'), ScreenInv', NEW c, IsCall(c), Send(c), c.alive = "form",
           c.kind \in Kinds \ {"me", "none", "push"}, AtHome(c.kind, page.at),
           page.at = "public" => c.kind \in WithNothing,
           page'.at = page.at, page.busy \subseteq page'.busy,
           c.kind \in Guarded => c.kind \notin page.busy /\ c.kind \in page'.busy,
           c.kind = "login" => "login" \notin page.busy /\ "login" \in page'.busy
    PROVE  PageInv'
<1>1. PICK n \in Slots: /\ calls[n] = Free /\ calls'[n] = c
                        /\ \A k \in Slots \ {n}: calls'[k] = calls[k]
  BY SendIs DEF PageInv
<1>2. Shape'
  BY SendIs DEF PageInv, Shape
<1>3. \A j \in Slots \ {n}: Stays(calls'[j], calls[j], page, page')
  BY <1>1, SameStays DEF PageInv, Shape, CallInv, Fits
<1>4. Fits(c, page')
  BY DEF Anchored, WithMasterKey, Fits, Lives, LoginCalls
<1>5. \A j \in Slots \ {n}: ~Twin(c, calls[j])
  BY DEF PageInv, CallInv, Fits, Twin, LoginCalls
<1> QED BY <1>1, <1>2, <1>3, <1>4, <1>5, PageStep

\* The function that awaited k goes on, and may put its own flag down.
Released(k) == {kind \in {calls[k].kind}: kind \in Guarded => calls[k].alive = "form"}
               \cup {kind \in {"login"}: calls[k].kind \in LoginCalls /\ calls[k].alive # "dropped"}

LEMMA AnswerPage ==
    ASSUME PageInv, IsWizard(wizard'), ScreenInv', NEW k \in Slots, NEW c, IsCall(c),
           calls' = [calls EXCEPT ![k] = c], page'.at = page.at, page.busy \ Released(k) \subseteq page'.busy,
           Fits(c, page'), c.alive = "form" => c.kind \notin Guarded \cup LoginCalls
    PROVE  PageInv'
<1>1. /\ Shape' /\ calls'[k] = c /\ \A j \in Slots \ {k}: calls'[j] = calls[j]
  BY OneSlot DEF PageInv, Shape
<1>2. ASSUME NEW j \in Slots \ {k} PROVE Stays(calls'[j], calls[j], page, page')
  <2>1. ~Twin(calls[j], calls[k]) /\ Fits(calls[j], page) /\ Fits(calls[k], page) /\ IsCall(calls[j])
    BY DEF PageInv, CallInv, OneInv, Shape
  <2>2. calls[j].alive = "form" /\ calls[j].kind \in Guarded => calls[j].kind \in page'.busy
    BY <2>1 DEF Fits, Twin, Released, Guarded, Writes, Inserts, LoginCalls
  <2>3. calls[j].kind \in LoginCalls /\ calls[j].alive # "dropped" => "login" \in page'.busy
    BY <2>1 DEF Anchored, WithMasterKey, Fits, Lives, WithPassword, Twin, Released, LoginCalls
  <2> QED BY <1>1, <2>1, <2>2, <2>3, SameStays
<1>3. \A j \in Slots \ {k}: ~Twin(c, calls[j])
  BY DEF Twin
<1> QED BY <1>1, <1>2, <1>3, PageStep

FreeFits == \A p: Fits(Free, p)

LEMMA FreeDoesFit == FreeFits
  BY FreeCall, KindList DEF Anchored, WithMasterKey, FreeFits, Fits, Lives, Guarded, Writes, Inserts, LoginCalls, WithNothing, WithPassword

\* A whole page goes: what it awaited goes on without it.
LEMMA LeavePage ==
    ASSUME PageInv, Shape', ScreenInv', page'.at # "public", NEW c, Fits(c, page'),
           c.alive = "form" => c.kind \notin Guarded \cup LoginCalls,
           \A j \in Slots: \/ calls'[j] = c
                           \/ calls'[j] = Free
                           \/ /\ SameRequest(calls'[j], calls[j]) /\ calls[j].kind \notin Anchored \cup {"none"}
                              /\ \/ calls'[j].alive = "gone" /\ calls[j].kind \notin LoginCalls
                                 \/ calls'[j].alive = "dropped" /\ calls[j].st = "sent"
                                    /\ calls[j].kind \notin WithPassword
    PROVE  PageInv'
<1>1. ASSUME NEW j \in Slots PROVE Fits(calls'[j], page')
  <2>1. Fits(calls[j], page) /\ FreeFits
    BY FreeDoesFit DEF PageInv, CallInv
  <2>2. CASE /\ SameRequest(calls'[j], calls[j]) /\ calls[j].kind \notin Anchored \cup {"none"}
             /\ \/ calls'[j].alive = "gone" /\ calls[j].kind \notin LoginCalls
                \/ calls'[j].alive = "dropped" /\ calls[j].st = "sent" /\ calls[j].kind \notin WithPassword
    <3>1. Lives(calls'[j])
      BY <2>1, <2>2 DEF Anchored, WithMasterKey, Fits, Lives, SameRequest
    <3> QED BY <2>2, <3>1 DEF Fits, SameRequest
  <2> QED BY <2>1, <2>2 DEF FreeFits
<1>2. \A j \in Slots: calls'[j].alive = "form" => calls'[j].kind \notin Guarded \cup LoginCalls
  BY FreeCall
<1> QED BY <1>1, <1>2 DEF PageInv, CallInv, OneInv, Twin

\* Part of a page goes: what it awaited is now the page's.
LEMMA OrphanPage ==
    ASSUME PageInv, Shape', ScreenInv', page'.at = page.at, page.at \in {"ficha", "stock"},
           NEW k \in Slots, NEW c, Fits(c, page'), c.alive = "form" => c.kind \notin Guarded \cup LoginCalls,
           \A j \in Slots: \/ calls'[j] = c
                           \/ /\ SameRequest(calls'[j], calls[j])
                              /\ calls[j].kind \in Anchored \cup {"none"} => calls'[j] = calls[j]
                              /\ \/ calls'[j].alive = calls[j].alive
                                 \/ calls[j].alive = "form" /\ calls'[j].alive = "page"
                              /\ calls'[j].alive = "form" => calls[j].kind \notin Guarded
    PROVE  PageInv'
<1>1. ASSUME NEW j \in Slots PROVE Fits(calls'[j], page')
  <2>1. Fits(calls[j], page)
    BY DEF PageInv, CallInv
  <2>2. CASE /\ SameRequest(calls'[j], calls[j])
             /\ calls[j].kind \in Anchored \cup {"none"} => calls'[j] = calls[j]
             /\ \/ calls'[j].alive = calls[j].alive
                \/ calls[j].alive = "form" /\ calls'[j].alive = "page"
             /\ calls'[j].alive = "form" => calls[j].kind \notin Guarded
    <3>1. Lives(calls'[j])
      <4>1. calls[j].alive = "form" => calls[j].kind # "push"
        BY <2>1 DEF Anchored, WithMasterKey, Fits, Lives
      <4> QED BY <2>1, <2>2, <4>1 DEF Anchored, WithMasterKey, Fits, Lives, SameRequest
    <3>2. calls[j].kind \in LoginCalls => calls[j].alive = "dropped"
      BY <2>1 DEF Fits, AtHome, LoginCalls
    <3> QED BY <2>1, <2>2, <3>1, <3>2 DEF Fits, SameRequest
  <2> QED BY <2>2
<1>2. \A j \in Slots: calls'[j].alive = "form" => calls'[j].kind \notin Guarded \cup LoginCalls
  BY DEF PageInv, CallInv, Fits, AtHome, LoginCalls, SameRequest
<1> QED BY <1>1, <1>2 DEF PageInv, CallInv, OneInv, Twin

-----------------------------------------------------------------------------
(* What every step does to the plan.                                       *)
Budget == {"logins", "logouts", "presses", "opens", "others", "losses", "refusals", "reloads", "ends", "visits"}
Spent == left' = left \/ \E f \in Budget: left' = [left EXCEPT ![f] = left[f] - 1]

LEMMA PressSpends == ASSUME NEW kind, NEW draft, NEW body, Press(kind, draft, body) PROVE Spent
  BY DEF Press, Spent, Budget

LEMMA PersonSpends == ASSUME Person PROVE Spent
<1>1. CASE PressLogin \/ PressLogout \/ Reload \/ \E k \in Slots: AnswerPrompt(k)
  BY <1>1 DEF PressLogin, PressLogout, Reload, AnswerPrompt, Spent, Budget
<1>2. CASE \/ \E at \in left.screens: Open(at)
           \/ \E c \in Cols: TypeField(c)
           \/ \E b \in Boxes: TypeText(b)
           \/ \E kind \in {"edit", "create"}: OpenModal(kind)
           \/ CloseModal
  BY <1>2 DEF Open, TypeField, TypeText, OpenModal, CloseModal, Spent, Budget
<1>3. CASE \/ SaveAssignment \/ SaveProperty \/ CreateProperty \/ SaveConfig
           \/ AddNote \/ SendReply \/ CreatePerson
           \/ \E b \in left.buttons: PressButton(b)
  BY <1>3, PressSpends DEF SaveAssignment, SaveProperty, CreateProperty, SaveConfig, AddNote, SendReply,
                           CreatePerson, PressButton
<1>4. CASE PressCreateTenant \/ RetryBootstrap \/ RetryLogin \/ ToStep2 \/ PressImport
  BY <1>4 DEF PressCreateTenant, RetryBootstrap, RetryLogin, Retry, ToStep2, PressImport, Spent, Budget
<1>5. CASE ToStep3 \/ SaveWizardConfig \/ UploadPhoto
  BY <1>5 DEF ToStep3, SaveWizardConfig, UploadPhoto, Spent, Budget
<1>6. CASE (\E d \in Days: PickDay(d)) \/ (\E h \in Hours: PickSlot(h)) \/ PressBook
  BY <1>6 DEF PickDay, PickSlot, PressBook, Spent, Budget
<1> QED BY <1>1, <1>2, <1>3, <1>4, <1>5, <1>6 DEF Person

LEMMA OthersSpend == ASSUME NEW k \in Slots, World \/ Serve(k) \/ Deliver(k) \/ Lose(k) PROVE Spent
<1>1. CASE World
  BY <1>1 DEF World, SessionEnds, OthersVisits, OthersSave, Spent, Budget
<1>2. CASE Serve(k)
  BY <1>2 DEF Serve, ServeOk, ServeDropped, ServeNo, Serve401, Spent, Budget
<1>3. CASE Deliver(k)
  BY <1>3 DEF Deliver, DeliverOk, DeliverError, Deliver401, Spent
<1>4. CASE Lose(k)
  BY <1>4 DEF Lose, Spent, Budget
<1> QED BY <1>1, <1>2, <1>3, <1>4

LEMMA SpentKeeps ==
    ASSUME left = [f \in PlanFields |-> left[f]], left.screens \subseteq Screens, Spent
    PROVE  left' = [f \in PlanFields |-> left'[f]] /\ left'.screens \subseteq Screens
  BY DEF Spent, Budget, PlanFields

LEMMA InitPages == Init => PageInv
<1> SUFFICES ASSUME Init PROVE PageInv
  OBVIOUS
<1>1. Shape
  BY InitTokens DEF TokenInv
<1>2. /\ left = [f \in PlanFields |-> left[f]] /\ left.screens \subseteq Screens
      /\ left.at \in {"login", "wizard", "public"}
  BY PlansAssumption DEF Init
<1>3. /\ stored = Nobody /\ session = Nobody
      /\ calls = [k \in Slots |-> IF left.at = "public" /\ k = 1 THEN AskDetails ELSE Free]
  BY DEF Init
<1>4. PICK first: first = AskDetails
  OBVIOUS
<1>5. /\ IsCall(first) /\ first.kind = "details" /\ first.alive = "form" /\ first.st = "sent"
  BY <1>4 DEF AskDetails, Call, Free, IsCall, CallFields
<1>6. /\ IsPage(page) /\ page.at = left.at /\ page.shown = "content" /\ page.touched = {}
      /\ page.agenda = NothingPicked
  <2>1. \/ left.at = "login" /\ page = Screen("login")
        \/ left.at = "wizard" /\ page = Screen("wizard")
        \/ left.at = "public" /\ page = AgendaPage
    <3>0. page = CASE left.at = "login" -> LoginScreen
                   [] left.at = "wizard" -> Screen("wizard")
                   [] left.at = "public" -> AgendaPage
      BY DEF Init
    <3>1. CASE left.at = "login"
      BY <3>0, <3>1 DEF LoginScreen
    <3>2. CASE left.at = "wizard"
      BY <3>0, <3>2
    <3>3. CASE left.at = "public"
      BY <3>0, <3>3
    <3> QED BY <1>2, <3>1, <3>2, <3>3
  <2>2. AgendaPage = [Screen("public") EXCEPT !.loading = TRUE]
    BY DEF AgendaPage
  <2>3. PICK at: at = left.at
    OBVIOUS
  <2>4. PICK p: p = Screen(at)
    OBVIOUS
  <2>5. /\ IsPage(p) /\ p.at = at /\ p.shown = "content" /\ p.touched = {} /\ p.agenda = NothingPicked
    BY <2>4, ScreenIs
  <2>6. page = p \/ page = [p EXCEPT !.loading = TRUE]
    BY <2>1, <2>2, <2>3, <2>4
  <2> QED BY <2>3, <2>5, <2>6 DEF IsPage, PageFields
<1>7. ScreenInv
  BY <1>2, <1>3, <1>6 DEF ScreenInv, PageShape, Public
<1>8. \A k \in Slots: Fits(calls[k], page)
  <2>1. \A k \in Slots: calls[k] = Free \/ (calls[k] = first /\ left.at = "public")
    BY <1>3, <1>4
  <2>2. left.at = "public" => Fits(first, page)
    BY <1>5, <1>6, KindList DEF Anchored, WithMasterKey, Fits, Lives, AtHome, Guarded, Writes, Inserts, LoginCalls, WithNothing,
       ReadinessCalls, WithMasterKey, WithPassword
  <2> QED BY <2>1, <2>2, FreeDoesFit DEF FreeFits
<1>9. \A k, j \in Slots: ~Twin(calls[k], calls[j])
  <2>1. \A k \in Slots: calls[k].kind \in {"none", "details"}
    BY <1>3, <1>4, <1>5, FreeCall
  <2> QED BY <2>1 DEF Twin, Guarded, Writes, Inserts, LoginCalls
<1> QED BY <1>1, <1>7, <1>8, <1>9 DEF PageInv, CallInv, OneInv

LEMMA ScreenSame ==
    ASSUME ScreenInv, Spent, IsPage(page'), page'.at = page.at,
           page'.agenda = page.agenda \/ page.at = "public",
           page'.shown = "spinner" => page.shown = "spinner" /\ page'.touched = page.touched,
           UNCHANGED <<stored, session>>
    PROVE  ScreenInv'
  BY SpentKeeps DEF ScreenInv, PageShape, Public

LEMMA ScreenNew ==
    ASSUME ScreenInv, Spent, IsPage(page'), page'.at \in Screens \cup {"home", "login"},
           page'.agenda = NothingPicked, page'.touched = {},
           page'.shown = "spinner" => page'.at \in OfALead,
           stored' = session', page'.at = "login" <=> session' = Nobody
    PROVE  ScreenInv'
  BY SpentKeeps DEF ScreenInv, PageShape, Public, Screens

LEMMA AtScreen == Screens \cap {"home", "login", "wizard", "public"} = {} /\ OfALead \subseteq Screens
  BY DEF Screens, OfALead

LEMMA GuardedKinds ==
    /\ Guarded = {"assign", "update", "config", "note", "reply", "create", "newPerson", "book"}
    /\ Guarded \subseteq Kinds \ {"me", "none", "push", "login"} /\ Guarded \cap Unguarded = {}
  BY KindList DEF Guarded, Writes, Inserts, Unguarded

LEMMA PressPage ==
    ASSUME PageInv, Spent, NEW kind, NEW draft, NEW body, Press(kind, draft, body),
           kind \in Kinds \ {"me", "none", "push", "login"}, AtHome(kind, page.at), page.at # "public"
    PROVE  PageInv'
<1>1. PICK c: c = Call(kind, session, draft, body)
  OBVIOUS
<1>2. IsCall(c) /\ c.kind = kind /\ c.alive = "form"
  BY <1>1, CallIs
<1>3. /\ Send(c) /\ UNCHANGED <<stored, session, wizard>> /\ kind \notin page.busy
      /\ page' = [page EXCEPT !.busy = IF kind \in Unguarded THEN @ ELSE @ \cup {kind}]
  BY <1>1 DEF Press, session_vars, Show
<1>4. IsPage(page)
  BY DEF PageInv, ScreenInv, PageShape
<1>5. /\ IsPage(page') /\ page'.at = page.at /\ page'.agenda = page.agenda /\ page'.shown = page.shown
      /\ page'.touched = page.touched
      /\ page'.busy = IF kind \in Unguarded THEN page.busy ELSE page.busy \cup {kind}
  BY <1>3, <1>4 DEF IsPage, PageFields
<1>6. ScreenInv'
  BY <1>3, <1>5, ScreenSame DEF PageInv
<1> QED BY <1>2, <1>3, <1>5, <1>6, GuardedKinds, SentPage DEF PageInv, Shape

\* A page that changes in place.
LEMMA PageSame ==
    ASSUME PageInv, Spent, UNCHANGED <<calls, stored, session>>, IsWizard(wizard'), IsPage(page'),
           page'.at = page.at, page'.busy = page.busy,
           page'.agenda = page.agenda \/ page.at = "public",
           page'.shown = "spinner" => page.shown = "spinner" /\ page'.touched = page.touched
    PROVE  PageInv'
<1>1. ScreenInv'
  BY ScreenSame DEF PageInv
<1> QED BY <1>1, StillPage

\* A button of a page that is not the panel's, whose flag may go up.
LEMMA AskPage ==
    ASSUME PageInv, Spent, NEW kind, NEW token, NEW draft, NEW body, Send(Call(kind, token, draft, body)),
           UNCHANGED <<stored, session>>, IsWizard(wizard'), IsPage(page'),
           page'.at = page.at, page.busy \subseteq page'.busy,
           page'.agenda = page.agenda \/ page.at = "public", page'.shown = page.shown, page'.touched = page.touched,
           kind \in Kinds \ {"me", "none", "push"}, AtHome(kind, page.at),
           page.at = "public" => kind \in WithNothing,
           kind \in Guarded => kind \notin page.busy /\ kind \in page'.busy,
           kind = "login" => "login" \notin page.busy /\ "login" \in page'.busy
    PROVE  PageInv'
<1>1. PICK c: c = Call(kind, token, draft, body)
  OBVIOUS
<1>2. IsCall(c) /\ c.kind = kind /\ c.alive = "form"
  BY <1>1, CallIs
<1>3. ScreenInv'
  BY ScreenSame DEF PageInv
<1> QED BY <1>1, <1>2, <1>3, SentPage

LEMMA LeftAre ==
    ASSUME PageInv, ~Public, NEW cs, cs = [k \in Slots |-> cs[k]],
           \A k \in Slots: cs[k] = calls[k] \/ cs[k] = Free
    PROVE  /\ Left(cs) = [k \in Slots |-> Left(cs)[k]] /\ \A k \in Slots: IsCall(Left(cs)[k])
           /\ \A j \in Slots: \/ Left(cs)[j] = Free
                              \/ /\ SameRequest(Left(cs)[j], calls[j]) /\ calls[j].kind \notin Anchored \cup {"none"}
                                 /\ \/ Left(cs)[j].alive = "gone" /\ calls[j].kind \notin LoginCalls
                                    \/ Left(cs)[j].alive = "dropped" /\ calls[j].st = "sent"
                                       /\ calls[j].kind \notin WithPassword
<1>1. \A k \in Slots: IsCall(cs[k])
  BY FreeCall DEF PageInv, Shape
<1>2. ASSUME NEW j \in Slots
      PROVE  \/ Left(cs)[j] = Free
             \/ /\ SameRequest(Left(cs)[j], calls[j]) /\ calls[j].kind \notin Anchored \cup {"none"}
                /\ \/ Left(cs)[j].alive = "gone" /\ calls[j].kind \notin LoginCalls
                   \/ Left(cs)[j].alive = "dropped" /\ calls[j].st = "sent" /\ calls[j].kind \notin WithPassword
  <2>1. /\ SameRequest(Left(cs)[j], cs[j])
        /\ Left(cs)[j].alive = (IF cs[j].alive \in {"form", "page"} THEN "gone" ELSE cs[j].alive)
        /\ cs[j].alive \notin {"form", "page"} => Left(cs)[j] = cs[j]
    BY <1>1, OrphansAre DEF Left
  <2>2. Fits(calls[j], page)
    BY DEF PageInv, CallInv
  <2>3. calls[j].kind \notin Anchored
    BY <2>2 DEF Anchored, WithMasterKey, Fits, Lives, AtHome, Public
  <2>4. calls[j].kind \in LoginCalls => calls[j].alive = "dropped"
    BY <2>2 DEF Fits, AtHome, Public
  <2>5. CASE cs[j] = Free
    BY <2>1, <2>5, FreeCall
  <2>6. CASE cs[j] = calls[j]
    BY <2>1, <2>2, <2>3, <2>4, <2>6, FreeCall DEF Anchored, WithMasterKey, Fits, Lives
  <2> QED BY <2>5, <2>6
<1> QED BY <1>2, OrphansShape, FreeCall DEF Left, SameRequest

LEMMA PersonPages == ASSUME PageInv, Person PROVE PageInv'
<1>s. Spent
  BY PersonSpends
<1>p. /\ IsPage(page) /\ IsWizard(wizard) /\ ScreenInv /\ Shape
      /\ page.at \in Screens \cup {"home", "login", "wizard", "public"}
      /\ (Public <=> session = Nobody) /\ stored = session
  BY DEF PageInv, ScreenInv, PageShape, Shape
<1>1. CASE PressLogin
  <2>1. PICK kind: kind = "login"
    OBVIOUS
  <2>2. /\ Send(Call(kind, Nobody, NoDraft, << >>)) /\ UNCHANGED <<stored, session, wizard>>
        /\ page' = [page EXCEPT !.busy = @ \cup {"login"}] /\ page.at = "login" /\ "login" \notin page.busy
    BY <1>1, <2>1 DEF PressLogin, session_vars
  <2>3. /\ IsPage(page') /\ page'.at = page.at /\ page'.agenda = page.agenda /\ page'.shown = page.shown
        /\ page'.touched = page.touched /\ page'.busy = page.busy \cup {"login"}
    BY <1>p, <2>2 DEF IsPage, PageFields
  <2>4. AtHome(kind, page.at) /\ kind \in Kinds \ {"me", "none", "push"} /\ kind \notin Guarded
    BY <2>1, <2>2, KindList, GuardedKinds DEF Anchored, AtHome, LoginCalls, ReadinessCalls, WithMasterKey, WithNothing
  <2> QED BY <1>s, <1>p, <2>1, <2>2, <2>3, <2>4, AskPage
<1>2. CASE PressLogout
  <2>1. PICK kind: kind = "logout"
    OBVIOUS
  <2>2. /\ Send(Call(kind, session, NoDraft, << >>)) /\ UNCHANGED <<stored, session, wizard, page>>
        /\ session # Nobody
    BY <1>2, <2>1 DEF PressLogout, session_vars
  <2>4. AtHome(kind, page.at) /\ kind \in Kinds \ {"me", "none", "push"} /\ kind \notin Guarded
    BY <1>p, <2>1, <2>2, KindList, GuardedKinds
       DEF Anchored, AtHome, LoginCalls, ReadinessCalls, WithMasterKey, WithNothing, Public
  <2> QED BY <1>s, <1>p, <2>1, <2>2, <2>4, AskPage DEF Public
<1>3. CASE Reload
  <2>1. PICK r: r = Register(stored)
    OBVIOUS
  <2>2. /\ IsCall(r) /\ r.kind = "push" /\ r.alive = "gone"
    BY <2>1, RegisterIs
  <2>3. /\ UNCHANGED <<stored, wizard>> /\ session' = stored /\ page.at \notin {"wizard", "public"}
        /\ page' = (IF stored = Nobody THEN LoginScreen ELSE Screen("home"))
        /\ calls' = Dropped(calls) \/ calls' = [Dropped(calls) EXCEPT ![NextSlot] = r]
        /\ NextSlot \in Slots
    BY <1>3, <2>1, NextSlotIs DEF Reload
  <2>4. PICK at \in {"login", "home"}: page' = Screen(at) /\ (at = "login" <=> stored = Nobody)
    BY <2>3 DEF LoginScreen
  <2>5. /\ IsPage(page') /\ page'.at = at /\ page'.shown = "content" /\ page'.touched = {}
        /\ page'.agenda = NothingPicked
    BY <2>4, ScreenIs
  <2>6. ScreenInv'
    BY <1>s, <1>p, <2>3, <2>4, <2>5, ScreenNew
  <2>7. /\ calls' = [k \in Slots |-> calls'[k]]
        /\ \A k \in Slots: calls'[k] = Dropped(calls)[k] \/ calls'[k] = r
    BY <2>3, DroppedShape
  <2>8. \A j \in Slots: /\ IsCall(calls'[j])
                        /\ \/ calls'[j] = r
                           \/ calls'[j] = Free
                           \/ /\ SameRequest(calls'[j], calls[j]) /\ calls[j].kind \notin Anchored \cup {"none"}
                              /\ calls'[j].alive = "dropped" /\ calls[j].st = "sent"
                              /\ calls[j].kind \notin WithPassword
    <3> SUFFICES ASSUME NEW j \in Slots, calls'[j] = Dropped(calls)[j], calls'[j] # Free
                 PROVE  /\ IsCall(calls'[j])
                        /\ SameRequest(calls'[j], calls[j]) /\ calls[j].kind \notin Anchored \cup {"none"}
                        /\ calls'[j].alive = "dropped" /\ calls[j].st = "sent"
                        /\ calls[j].kind \notin WithPassword
      BY <2>2, <2>7, FreeCall
    <3>1. /\ SameRequest(calls'[j], calls[j]) /\ calls'[j].alive = "dropped" /\ calls[j].st = "sent"
          /\ calls[j].kind \notin WithPassword
      BY DroppedAre DEF PageInv, Shape
    <3>2. Fits(calls[j], page)
      BY DEF PageInv, CallInv
    <3>3. calls[j].kind \notin Anchored
      BY <2>3, <3>2 DEF Anchored, WithMasterKey, Fits, Lives, AtHome
    <3>4. calls[j].kind # "none"
      BY <3>1, <3>2, FreeCall DEF Anchored, WithMasterKey, Fits, Lives
    <3> QED BY <3>1, <3>3, <3>4 DEF SameRequest
  <2>9. Fits(r, page')
    BY <2>2, <2>5, KindList, GuardedKinds DEF Anchored, WithMasterKey, Fits, Lives, LoginCalls, WithNothing, WithPassword
  <2>10. Shape'
    BY <1>p, <2>3, <2>7, <2>8 DEF Shape
  <2> QED BY <2>2, <2>5, <2>6, <2>8, <2>9, <2>10, LeavePage
<1>4. ASSUME NEW k \in Slots, AnswerPrompt(k) PROVE PageInv'
  <2>1. PICK c: c = [calls[k] EXCEPT !.st = "sent"]
    OBVIOUS
  <2>2. /\ UNCHANGED <<stored, session, wizard, page>> /\ calls[k].st = "prompt"
        /\ calls' = [calls EXCEPT ![k] = c] \/ calls' = [calls EXCEPT ![k] = Free]
    BY <1>4, <2>1 DEF AnswerPrompt, session_vars, Ended, PageInv, Shape
  <2>3. IsCall(c) /\ c.kind = calls[k].kind /\ c.alive = calls[k].alive /\ c.st = "sent" /\ Fits(calls[k], page)
    BY <2>1 DEF PageInv, Shape, CallInv, IsCall, CallFields
  <2>4. CASE calls' = [calls EXCEPT ![k] = Free]
    <3>1. ScreenInv' /\ Fits(Free, page') /\ Free.alive # "form"
      BY <1>s, <1>p, <2>2, ScreenSame, FreeDoesFit, FreeCall DEF FreeFits
    <3> QED BY <1>p, <2>2, <2>4, <3>1, FreeCall, AnswerPage
  <2>5. CASE calls' = [calls EXCEPT ![k] = c]
    <3>1. ScreenInv'
      BY <1>s, <1>p, <2>2, ScreenSame
    <3>2. calls[k].kind # "none"
      BY <2>2, <2>3, FreeCall DEF Anchored, WithMasterKey, Fits, Lives
    <3>3. Fits(c, page)
      BY <2>3, <3>2 DEF Anchored, WithMasterKey, Fits, Lives
    <3>4. Shape' /\ calls'[k] = c /\ \A j \in Slots \ {k}: calls'[j] = calls[j]
      BY <1>p, <2>2, <2>3, <2>5, OneSlot DEF Shape
    <3>5. \A j \in Slots \ {k}: Stays(calls'[j], calls[j], page, page') /\ ~Twin(calls[k], calls[j])
      BY <2>2, <3>4, SameStays DEF PageInv, Shape, CallInv, OneInv, Fits
    <3>6. \A j \in Slots \ {k}: ~Twin(c, calls'[j])
      BY <2>3, <3>4, <3>5 DEF Twin
    <3> QED BY <2>2, <3>1, <3>3, <3>4, <3>5, <3>6, PageStep
  <2> QED BY <2>2, <2>4, <2>5
<1>5. ASSUME NEW at \in left.screens, Open(at) PROVE PageInv'
  <2>0. at \in Screens
    BY <1>5 DEF PageInv, ScreenInv, PageShape
  <2>1. PICK c: c = Load(at, session)
    OBVIOUS
  <2>2. /\ UNCHANGED <<stored, session, wizard>> /\ session # Nobody /\ ~Public
        /\ \/ /\ at \in DOMAIN LoadOf /\ NextSlot \in Slots /\ calls[NextSlot] = Free
              /\ calls' = [Left(calls) EXCEPT ![NextSlot] = c]
              /\ page' = [Screen(at) EXCEPT !.loading = TRUE,
                              !.shown = IF at \in OfALead THEN "spinner" ELSE "content"]
           \/ calls' = Left(calls) /\ page' = Screen(at)
    BY <1>p, <1>5, <2>1, NextSlotIs DEF Open, session_vars, Show
  <2>3. PICK new: new = Screen(at)
    OBVIOUS
  <2>4. /\ IsPage(new) /\ new.at = at /\ new.shown = "content" /\ new.touched = {} /\ new.agenda = NothingPicked
    BY <2>3, ScreenIs
  <2>5. /\ IsPage(page') /\ page'.at = at /\ page'.touched = {} /\ page'.agenda = NothingPicked
        /\ page'.shown = "spinner" => at \in OfALead
    BY <2>2, <2>3, <2>4 DEF IsPage, PageFields
  <2>6. ScreenInv'
    BY <1>s, <1>p, <2>0, <2>2, <2>5, AtScreen, ScreenNew DEF Public
  <2>7. /\ Left(calls) = [k \in Slots |-> Left(calls)[k]] /\ \A k \in Slots: IsCall(Left(calls)[k])
        /\ \A j \in Slots: \/ Left(calls)[j] = Free
                           \/ /\ SameRequest(Left(calls)[j], calls[j])
                              /\ calls[j].kind \notin Anchored \cup {"none"}
                              /\ \/ Left(calls)[j].alive = "gone" /\ calls[j].kind \notin LoginCalls
                                 \/ Left(calls)[j].alive = "dropped" /\ calls[j].st = "sent"
                                    /\ calls[j].kind \notin WithPassword
    BY <1>p, <2>2, LeftAre DEF Shape
  <2>8. at \in DOMAIN LoadOf => IsCall(c) /\ c.kind = LoadOf[at] /\ c.alive = "page"
    BY <2>1, LoadIs
  <2>9. PICK d: d = IF at \in DOMAIN LoadOf THEN c ELSE Free
    OBVIOUS
  <2>10. IsCall(d) /\ Fits(d, page') /\ d.alive # "form"
    <3>1. CASE at \in DOMAIN LoadOf
      <4>1. d.kind = LoadOf[at] /\ d.alive = "page" /\ d.kind \in {"lead", "queue", "stock", "people", "visits"}
        BY <2>8, <2>9, <3>1 DEF LoadOf
      <4>2. AtHome(d.kind, at)
        BY <3>1, <4>1 DEF Anchored, AtHome, LoadOf, LoginCalls, ReadinessCalls, WithMasterKey, WithNothing
      <4> QED BY <2>0, <2>5, <2>8, <2>9, <3>1, <4>1, <4>2, KindList, GuardedKinds, AtScreen
              DEF Anchored, WithMasterKey, Fits, Lives, LoginCalls, WithNothing, WithPassword
    <3>2. CASE at \notin DOMAIN LoadOf
      BY <2>9, <3>2, FreeCall, FreeDoesFit DEF FreeFits
    <3> QED BY <3>1, <3>2
  <2>11. /\ calls' = [k \in Slots |-> calls'[k]]
         /\ \A k \in Slots: calls'[k] = Left(calls)[k] \/ calls'[k] = d
    BY <2>2, <2>7, <2>9
  <2>12. Shape'
    BY <1>p, <2>2, <2>7, <2>10, <2>11 DEF Shape
  <2>13. page'.at # "public"
    BY <2>0, <2>5, AtScreen
  <2> QED BY <2>6, <2>7, <2>10, <2>11, <2>12, <2>13, LeavePage
<1>6. CASE \/ \E c \in Cols: TypeField(c)
           \/ \E b \in Boxes: TypeText(b)
           \/ \E kind \in {"edit", "create"}: OpenModal(kind)
           \/ \E h \in Hours: PickSlot(h)
  <2>1. CASE \E c \in Cols: TypeField(c)
    <3>1. /\ UNCHANGED <<calls, stored, session, wizard>> /\ Editing
          /\ \E c \in Cols: \E value: page' = [page EXCEPT !.values[c] = value, !.touched = @ \cup {c}]
      BY <2>1 DEF TypeField, session_vars, Show
    <3>2. /\ IsPage(page') /\ page'.at = page.at /\ page'.agenda = page.agenda /\ page'.shown = page.shown
          /\ page'.busy = page.busy
      BY <1>p, <3>1 DEF IsPage, PageFields
    <3>3. page.shown # "spinner"
      BY <1>p, <3>1 DEF Editing, ScreenInv, OfALead
    <3> QED BY <1>s, <1>p, <3>1, <3>2, <3>3, PageSame
  <2>2. CASE \E b \in Boxes: TypeText(b)
    <3>1. /\ UNCHANGED <<calls, stored, session, wizard>>
          /\ \E b \in Boxes: page' = [page EXCEPT !.text[b] = typed + 1]
      BY <2>2 DEF TypeText, session_vars, Show
    <3>2. /\ IsPage(page') /\ page'.at = page.at /\ page'.agenda = page.agenda /\ page'.shown = page.shown
          /\ page'.busy = page.busy /\ page'.touched = page.touched
      BY <1>p, <3>1 DEF IsPage, PageFields
    <3> QED BY <1>s, <1>p, <3>1, <3>2, PageSame
  <2>3. CASE \E kind \in {"edit", "create"}: OpenModal(kind)
    <3>1. /\ UNCHANGED <<calls, stored, session, wizard>> /\ page.at = "stock"
          /\ \E kind: page' = [page EXCEPT !.modal = kind, !.touched = {},
                                  !.values = IF kind = "edit" THEN page.data ELSE NothingTyped]
      BY <2>3 DEF OpenModal, session_vars, Show, On
    <3>2. /\ IsPage(page') /\ page'.at = page.at /\ page'.agenda = page.agenda /\ page'.shown = page.shown
          /\ page'.busy = page.busy
      BY <1>p, <3>1 DEF IsPage, PageFields
    <3>3. page.shown # "spinner"
      BY <1>p, <3>1 DEF ScreenInv, OfALead
    <3> QED BY <1>s, <1>p, <3>1, <3>2, <3>3, PageSame
  <2>4. CASE \E h \in Hours: PickSlot(h)
    <3>1. /\ UNCHANGED <<calls, stored, session, wizard>> /\ page.at = "public"
          /\ \E h \in Hours: page' = [page EXCEPT !.agenda.slot = h]
      BY <2>4 DEF PickSlot, session_vars, Show, Choosing, AtAgenda
    <3>2. /\ IsPage(page') /\ page'.at = page.at /\ page'.shown = page.shown
          /\ page'.busy = page.busy /\ page'.touched = page.touched
      BY <1>p, <3>1 DEF IsPage, PageFields, AgendaFields
    <3> QED BY <1>s, <1>p, <3>1, <3>2, PageSame
  <2> QED BY <1>6, <2>1, <2>2, <2>3, <2>4
<1>7. CASE SaveAssignment \/ SaveProperty \/ CreateProperty \/ SaveConfig \/ AddNote \/ SendReply \/ CreatePerson
  <2>1. PICK kind \in {"assign", "update", "create", "config", "note", "reply", "newPerson"}:
           /\ \E draft, body: Press(kind, draft, body)
           /\ kind \in {"assign", "note"} => page.at \in OfALead
           /\ kind \in {"update", "create"} => page.at = "stock"
           /\ kind = "config" => page.at = "config"
           /\ kind = "reply" => page.at = "ficha"
           /\ kind = "newPerson" => page.at = "people"
    BY <1>7 DEF SaveAssignment, SaveProperty, CreateProperty, SaveConfig, AddNote, SendReply, CreatePerson,
                OnALead, On
  <2>2. AtHome(kind, page.at) /\ page.at # "public"
    BY <2>1, AtScreen DEF Anchored, AtHome, LoginCalls, ReadinessCalls, WithMasterKey, WithNothing
  <2>3. kind \in Kinds \ {"me", "none", "push", "login"}
    BY KindList
  <2> QED BY <1>s, <2>1, <2>2, <2>3, PressPage
<1>8. CASE CloseModal
  <2>1. /\ UNCHANGED <<stored, session, wizard>> /\ calls' = Unmodalled(calls) /\ page.at = "stock"
        /\ page' = [page EXCEPT !.modal = "none", !.touched = {}, !.values = NothingTyped,
                         !.text = EmptyBoxes, !.busy = @ \ {"create", "update", "photo"}]
    BY <1>8 DEF CloseModal, session_vars, On, Show
  <2>2. /\ IsPage(page') /\ page'.at = page.at /\ page'.agenda = page.agenda /\ page'.shown = page.shown
        /\ page'.touched = {}
    BY <1>p, <2>1 DEF IsPage, PageFields, NothingTyped, EmptyBoxes
  <2>3. page.shown # "spinner"
    BY <1>p, <2>1 DEF ScreenInv, OfALead
  <2>4. ScreenInv'
    BY <1>s, <1>p, <2>1, <2>2, <2>3, ScreenSame
  <2>5. \A j \in Slots: /\ SameRequest(calls'[j], calls[j])
                        /\ calls'[j].alive = (IF calls[j].kind \in {"create", "update", "photo"} /\ calls[j].alive = "form"
                                              THEN "page" ELSE calls[j].alive)
                        /\ calls[j].kind \notin {"create", "update", "photo"} => calls'[j] = calls[j]
    BY <1>p, <2>1, UnmodalledAre DEF Shape
  <2>6. \A j \in Slots: calls[j].kind \in Anchored \cup {"none"} => calls'[j] = calls[j]
    BY <2>5 DEF Anchored, WithMasterKey, WithNothing
  <2>7. \A j \in Slots: calls'[j].alive = "form" => calls[j].kind \notin Guarded
    BY <2>1, <2>5, GuardedKinds DEF Anchored, WithMasterKey, PageInv, CallInv, Fits, AtHome, OfALead, WithNothing
  <2>8. Shape'
    BY <1>p, <2>1, <2>5, UnmodalledShape DEF Shape, SameRequest
  <2>9. Fits(Free, page') /\ Free.alive # "form"
    BY FreeDoesFit, FreeCall DEF FreeFits
  <2>10. \A j \in Slots: calls'[j].alive = calls[j].alive \/ (calls[j].alive = "form" /\ calls'[j].alive = "page")
    BY <2>5
  <2>11. Slots = {} => PageInv'
    BY <2>4, <2>8 DEF PageInv, CallInv, OneInv
  <2> QED BY <2>1, <2>2, <2>4, <2>5, <2>6, <2>7, <2>8, <2>9, <2>10, <2>11, OrphanPage
<1>9. ASSUME NEW b \in left.buttons, PressButton(b) PROVE PageInv'
  <2>1. page.at \in Screens /\ b \in Buttons[page.at] /\ Press(b, NoDraft, << >>)
    BY <1>9 DEF PressButton
  <2>2. /\ b \in {"contacted", "optOut", "release", "suppress", "status", "remove", "deactivate", "reset", "visit"}
        /\ b = "contacted" => page.at \in OfALead
        /\ b \in {"optOut", "release", "suppress"} => page.at = "ficha"
        /\ b \in {"status", "remove"} => page.at = "stock"
        /\ b \in {"deactivate", "reset"} => page.at = "people"
        /\ b = "visit" => page.at = "agenda"
    BY <2>1 DEF Buttons, Screens, OfALead
  <2>3. AtHome(b, page.at) /\ page.at # "public"
    BY <2>1, <2>2, AtScreen DEF Anchored, AtHome, LoginCalls, ReadinessCalls, WithMasterKey, WithNothing
  <2>4. b \in Kinds \ {"me", "none", "push", "login"}
    BY <2>2, KindList
  <2> QED BY <1>s, <2>1, <2>3, <2>4, PressPage
<1>10. CASE PressCreateTenant \/ RetryBootstrap \/ RetryLogin
  <2>1. PICK kind \in {"tenant", "bootstrap", "ownerLogin"}: Send(Call(kind, Nobody, NoDraft, << >>))
    BY <1>10 DEF PressCreateTenant, RetryBootstrap, RetryLogin, Retry
  <2>2. /\ UNCHANGED <<stored, session, page>> /\ page.at = "wizard"
        /\ \E next: \/ wizard' = [wizard EXCEPT !.phase = next, !.error = "none"]
                    \/ wizard' = [wizard EXCEPT !.submitting = next, !.error = "none"]
    BY <1>10 DEF PressCreateTenant, RetryBootstrap, RetryLogin, Retry, session_vars, AtWizard, Wizard
  <2>3. IsWizard(wizard')
    BY <1>p, <2>2 DEF IsWizard, WizardFields
  <2>4. AtHome(kind, page.at) /\ kind \in Kinds \ {"me", "none", "push"} /\ kind \notin Guarded
    BY <2>1, <2>2, KindList, GuardedKinds DEF Anchored, AtHome, LoginCalls, ReadinessCalls, WithMasterKey, WithNothing
  <2> QED BY <1>s, <1>p, <2>1, <2>2, <2>3, <2>4, AskPage
<1>12. CASE ToStep2
  <2>1. /\ UNCHANGED <<stored, session, page, calls>> /\ wizard' = [wizard EXCEPT !.step = 2]
    BY <1>12 DEF ToStep2, session_vars, Wizard
  <2>2. IsWizard(wizard')
    BY <1>p, <2>1 DEF IsWizard, WizardFields
  <2> QED BY <1>s, <1>p, <2>1, <2>2, PageSame
<1>13. CASE PressImport \/ SaveWizardConfig
  <2>1. PICK kind \in {"import", "config"}:
            /\ \E body: Send(Call(kind, wizard.token, NoDraft, body))
            /\ kind \notin page.busy /\ page' = [page EXCEPT !.busy = @ \cup {kind}]
    BY <1>13 DEF PressImport, SaveWizardConfig, Show
  <2>2. UNCHANGED <<stored, session, wizard>> /\ page.at = "wizard"
    BY <1>13 DEF PressImport, SaveWizardConfig, session_vars, AtWizard
  <2>3. /\ IsPage(page') /\ page'.at = page.at /\ page'.agenda = page.agenda /\ page'.shown = page.shown
        /\ page'.touched = page.touched /\ page'.busy = page.busy \cup {kind}
    BY <1>p, <2>1 DEF IsPage, PageFields
  <2>4. AtHome(kind, page.at) /\ kind \in Kinds \ {"me", "none", "push", "login"}
    BY <2>1, <2>2, KindList DEF Anchored, AtHome, LoginCalls, ReadinessCalls, WithMasterKey, WithNothing
  <2> QED BY <1>s, <1>p, <2>1, <2>2, <2>3, <2>4, AskPage
<1>14. CASE ToStep3
  <2> DEFINE ask(kind) == [Call(kind, wizard.token, NoDraft, << >>) EXCEPT !.alive = "page"]
  <2>1. PICK cs: cs = <<ask("card"), ask("webhook"), ask("count")>>
    OBVIOUS
  <2>2. /\ SendAll(cs) /\ UNCHANGED <<stored, session>> /\ page.at = "wizard"
        /\ wizard' = [wizard EXCEPT !.step = 3]
        /\ page' = [page EXCEPT !.busy = @ \ {"import"}, !.loading = TRUE]
    BY <1>14, <2>1 DEF ToStep3, session_vars, Wizard, AtWizard, Show
  <2>3. IsWizard(wizard')
    BY <1>p, <2>2 DEF IsWizard, WizardFields
  <2>4. /\ IsPage(page') /\ page'.at = page.at /\ page'.agenda = page.agenda /\ page'.shown = page.shown
        /\ page'.touched = page.touched /\ page'.busy = page.busy \ {"import"}
    BY <1>p, <2>2 DEF IsPage, PageFields
  <2>5. \A i \in 1 .. 3: IsCall(cs[i]) /\ Fits(cs[i], page') /\ cs[i].alive = "page"
    <3>1. ASSUME NEW kind \in {"card", "webhook", "count"}
          PROVE  IsCall(ask(kind)) /\ Fits(ask(kind), page') /\ ask(kind).alive = "page"
      <4>1. PICK c: c = Call(kind, wizard.token, NoDraft, << >>)
        OBVIOUS
      <4>2. PICK d: d = [c EXCEPT !.alive = "page"]
        OBVIOUS
      <4>3. IsCall(d) /\ d.kind = kind /\ d.st = "sent" /\ d.alive = "page"
        BY <4>1, <4>2, CallIs DEF IsCall, CallFields
      <4>4. AtHome(kind, "wizard")
        BY <3>1 DEF Anchored, WithMasterKey, AtHome, LoginCalls, WithNothing
      <4>5. Fits(d, page')
        BY <2>2, <2>4, <3>1, <4>3, <4>4, KindList, GuardedKinds DEF Anchored, WithMasterKey, Fits, Lives, LoginCalls, WithNothing, WithPassword
      <4> QED BY <4>1, <4>2, <4>3, <4>5
    <3> HIDE DEF ask
    <3>2. cs[1] = ask("card") /\ cs[2] = ask("webhook") /\ cs[3] = ask("count")
      BY <2>1
    <3>3. \A i \in 1 .. 3: \E kind \in {"card", "webhook", "count"}: cs[i] = ask(kind)
      BY <3>2
    <3> QED BY <3>1, <3>3
  <2>6. /\ calls' = [k \in Slots |-> calls'[k]] /\ \A k \in Slots: IsCall(calls'[k])
        /\ \A k \in Slots: calls'[k] = calls[k] \/ (calls[k] = Free /\ \E i \in 1 .. 3: calls'[k] = cs[i])
    BY <1>p, <2>1, <2>2, <2>5, SendAllIs
  <2>7. ScreenInv'
    BY <1>s, <1>p, <2>2, <2>4, ScreenSame
  <2>8. ASSUME NEW k \in Slots PROVE Fits(calls'[k], page')
    <3>1. Fits(calls[k], page)
      BY DEF PageInv, CallInv
    <3>2. CASE calls'[k] = calls[k]
      BY <2>2, <2>4, <3>1, <3>2, GuardedKinds DEF Fits, AtHome, LoginCalls
    <3> QED BY <2>5, <2>6, <3>2
  <2>9. ASSUME NEW k \in Slots, NEW j \in Slots \ {k} PROVE ~Twin(calls'[k], calls'[j])
    <3>1. ~Twin(calls[k], calls[j])
      BY DEF PageInv, OneInv
    <3>2. /\ calls'[k] = calls[k] \/ calls'[k].alive = "page"
          /\ calls'[j] = calls[j] \/ calls'[j].alive = "page"
      BY <2>5, <2>6
    <3> QED BY <3>1, <3>2 DEF Twin
  <2> QED BY <2>3, <2>6, <2>7, <2>8, <2>9 DEF PageInv, Shape, CallInv, OneInv
<1>15. CASE UploadPhoto
  <2>1. PICK kind: kind = "photo"
    OBVIOUS
  <2>2. /\ Send(Call(kind, session, typed + 1, << >>)) /\ UNCHANGED <<stored, session, wizard>>
        /\ page.at = "stock" /\ page' = [page EXCEPT !.busy = @ \cup {"photo"}]
    BY <1>15, <2>1 DEF UploadPhoto, session_vars, On, Show
  <2>3. /\ IsPage(page') /\ page'.at = page.at /\ page'.agenda = page.agenda /\ page'.shown = page.shown
        /\ page'.touched = page.touched /\ page'.busy = page.busy \cup {"photo"}
    BY <1>p, <2>2 DEF IsPage, PageFields
  <2>4. AtHome(kind, page.at) /\ kind \in Kinds \ {"me", "none", "push", "login"} /\ kind \notin Guarded
    BY <2>1, <2>2, KindList, GuardedKinds DEF Anchored, AtHome, LoginCalls, ReadinessCalls, WithMasterKey, WithNothing
  <2> QED BY <1>s, <1>p, <2>2, <2>3, <2>4, AskPage
<1>16. CASE (\E d \in Days: PickDay(d)) \/ PressBook
  <2>1. /\ UNCHANGED <<stored, session, wizard>> /\ page.at = "public"
    BY <1>16 DEF PickDay, PressBook, session_vars, Choosing, AtAgenda
  <2>2. CASE \E d \in Days: PickDay(d)
    <3>1. PICK kind: kind = "slots"
      OBVIOUS
    <3>2. PICK d \in Days: PickDay(d)
      BY <2>2
    <3>3. /\ Send(Call(kind, Nobody, NoDraft, <<d>>))
          /\ page' = [page EXCEPT !.agenda.day = d, !.agenda.slot = 0, !.agenda.mixed = Asking,
                           !.busy = @ \cup {"slots"}]
      BY <3>1, <3>2 DEF PickDay, Show
    <3>4. /\ IsPage(page') /\ page'.at = page.at /\ page'.shown = page.shown
          /\ page'.touched = page.touched /\ page'.busy = page.busy \cup {"slots"}
      BY <1>p, <3>3 DEF IsPage, PageFields, AgendaFields
    <3>5. /\ AtHome(kind, page.at) /\ kind \in Kinds \ {"me", "none", "push", "login"}
          /\ kind \in WithNothing /\ kind \notin Guarded
      BY <2>1, <3>1, KindList, GuardedKinds DEF Anchored, AtHome, LoginCalls, ReadinessCalls, WithMasterKey, WithNothing
    <3> QED BY <1>s, <1>p, <2>1, <3>3, <3>4, <3>5, AskPage
  <2>3. CASE PressBook
    <3>1. PICK kind: kind = "book"
      OBVIOUS
    <3>3. /\ Send(Call(kind, Nobody, NoDraft, Picked)) /\ "book" \notin page.busy
          /\ page' = [page EXCEPT !.busy = @ \cup {"book"}]
      BY <2>3, <3>1 DEF PressBook, Show
    <3>4. /\ IsPage(page') /\ page'.at = page.at /\ page'.shown = page.shown
          /\ page'.touched = page.touched /\ page'.busy = page.busy \cup {"book"}
      BY <1>p, <3>3 DEF IsPage, PageFields
    <3>5. /\ AtHome(kind, page.at) /\ kind \in Kinds \ {"me", "none", "push", "login"}
          /\ kind \in WithNothing
      BY <2>1, <3>1, KindList DEF Anchored, AtHome, LoginCalls, ReadinessCalls, WithMasterKey, WithNothing
    <3> QED BY <1>s, <1>p, <2>1, <3>1, <3>3, <3>4, <3>5, AskPage
  <2> QED BY <1>16, <2>2, <2>3
<1> QED BY <1>1, <1>2, <1>3, <1>4, <1>5, <1>6, <1>7, <1>8, <1>9, <1>10, <1>12, <1>13, <1>14,
           <1>15, <1>16 DEF Person

\* The state of one call changes, or it is over.
LEMMA SlotPage ==
    ASSUME PageInv, Spent, NEW k \in Slots, NEW c, IsCall(c), calls[k].st # "free",
           c.kind = calls[k].kind, c.alive = calls[k].alive, c.alive # "dropped",
           calls' = [calls EXCEPT ![k] = c] \/ calls' = [calls EXCEPT ![k] = Free],
           UNCHANGED <<page, stored, session>>, IsWizard(wizard')
    PROVE  PageInv'
<1>1. ScreenInv'
  BY ScreenSame DEF PageInv, ScreenInv, PageShape
<1>2. Fits(calls[k], page) /\ calls[k].kind # "none"
  BY FreeCall DEF Anchored, WithMasterKey, PageInv, CallInv, Fits, Lives
<1>3. Fits(c, page')
  BY <1>2 DEF Anchored, WithMasterKey, Fits, Lives
<1>4. CASE calls' = [calls EXCEPT ![k] = c]
  <2>1. Shape' /\ calls'[k] = c /\ \A j \in Slots \ {k}: calls'[j] = calls[j]
    BY <1>4, OneSlot DEF PageInv, Shape
  <2>2. \A j \in Slots \ {k}: Stays(calls'[j], calls[j], page, page') /\ ~Twin(calls[k], calls[j])
    BY <2>1, SameStays DEF PageInv, Shape, CallInv, OneInv, Fits
  <2>3. \A j \in Slots \ {k}: ~Twin(c, calls'[j])
    BY <2>1, <2>2 DEF Twin
  <2> QED BY <1>1, <1>3, <2>1, <2>2, <2>3, PageStep
<1>5. CASE calls' = [calls EXCEPT ![k] = Free]
  <2>1. Fits(Free, page') /\ Free.alive # "form"
    BY FreeDoesFit, FreeCall DEF FreeFits
  <2> QED BY <1>1, <1>5, <2>1, FreeCall, AnswerPage
<1> QED BY <1>4, <1>5

\* The call is over, and its page as it was.
LEMMA OverPage ==
    ASSUME PageInv, Spent, NEW k \in Slots, calls' = [calls EXCEPT ![k] = Free],
           UNCHANGED <<page, stored, session>>, IsWizard(wizard')
    PROVE  PageInv'
<1>1. ScreenInv'
  BY ScreenSame DEF PageInv, ScreenInv, PageShape
<1>2. Fits(Free, page') /\ Free.alive # "form"
  BY FreeDoesFit, FreeCall DEF FreeFits
<1> QED BY <1>1, <1>2, FreeCall, AnswerPage

LEMMA ServePages == ASSUME PageInv, NEW k \in Slots, Serve(k) PROVE PageInv'
<1>1. /\ IsWizard(wizard) /\ IsCall(calls[k]) /\ calls[k].st = "sent" /\ Spent
      /\ UNCHANGED <<stored, session, wizard, page>>
  BY OthersSpend DEF Serve, PageInv, Shape
<1>2. CASE ServeOk(k)
  <2>1. calls[k].alive # "dropped" /\ \E result: calls' = [calls EXCEPT ![k].st = "done", ![k].result = result]
    BY <1>2 DEF ServeOk, Apply
  <2>2. PICK result: calls' = [calls EXCEPT ![k].st = "done", ![k].result = result]
    BY <2>1
  <2>3. PICK c: c = [calls[k] EXCEPT !.st = "done", !.result = result]
    OBVIOUS
  <2>4. IsCall(c) /\ c.kind = calls[k].kind /\ c.alive = calls[k].alive
    BY <1>1, <2>3 DEF IsCall, CallFields
  <2>5. calls' = [calls EXCEPT ![k] = c]
    BY <2>2, <2>3 DEF PageInv, Shape
  <2> QED BY <1>1, <2>1, <2>4, <2>5, SlotPage
<1>3. CASE ServeDropped(k)
  BY <1>1, <1>3, OverPage DEF ServeDropped, Ended
<1>4. CASE ServeNo(k) \/ Serve401(k)
  <2>1. PICK status \in {"no", "bad", "401"}: Refuse(k, status)
    BY <1>4 DEF ServeNo, Serve401
  <2>2. PICK c: c = [calls[k] EXCEPT !.st = status]
    OBVIOUS
  <2>3. IsCall(c) /\ c.kind = calls[k].kind /\ c.alive = calls[k].alive
    BY <1>1, <2>2 DEF IsCall, CallFields
  <2>4. CASE calls[k].alive = "dropped"
    <3>1. calls' = [calls EXCEPT ![k] = Free]
      BY <2>1, <2>4 DEF Refuse, Unsent, PageInv, Shape
    <3> QED BY <1>1, <3>1, OverPage
  <2>5. CASE calls[k].alive # "dropped"
    <3>1. calls' = [calls EXCEPT ![k] = c]
      BY <2>1, <2>2, <2>5 DEF Refuse, Unsent, PageInv, Shape
    <3> QED BY <1>1, <2>3, <2>5, <3>1, SlotPage
  <2> QED BY <2>4, <2>5
<1> QED BY <1>1, <1>2, <1>3, <1>4 DEF Serve

LEMMA WorldPages == ASSUME PageInv, World PROVE PageInv'
<1>1. UNCHANGED <<stored, session, calls, wizard, page>> /\ Spent
  <2>1. CASE SessionEnds \/ OthersVisits
    BY <2>1 DEF SessionEnds, OthersVisits, session_vars, Spent, Budget
  <2>2. CASE \E c \in Cols: OthersSave(c)
    BY <2>2 DEF OthersSave, session_vars, Spent, Budget
  <2> QED BY <2>1, <2>2 DEF World
<1> QED BY <1>1, PageSame DEF PageInv, Shape, ScreenInv, PageShape

LEMMA LosePages == ASSUME PageInv, NEW k \in Slots, Lose(k) PROVE PageInv'
<1>1. IsWizard(wizard) /\ IsCall(calls[k]) /\ Spent
  BY OthersSpend DEF PageInv, Shape
<1>2. PICK c: c = [calls[k] EXCEPT !.st = "broken"]
  OBVIOUS
<1>3. IsCall(c) /\ c.kind = calls[k].kind /\ c.alive = calls[k].alive
  BY <1>1, <1>2 DEF IsCall, CallFields
<1>4. /\ UNCHANGED <<stored, session, page>> /\ calls[k].st # "free" /\ calls[k].alive # "dropped"
      /\ calls' = [calls EXCEPT ![k] = c]
      /\ wizard' = wizard \/ \E x: wizard' = [wizard EXCEPT !.unheard = x]
  BY <1>2 DEF Lose, session_vars, PageInv, Shape
<1>5. IsWizard(wizard')
  BY <1>1, <1>4 DEF IsWizard, WizardFields
<1> QED BY <1>1, <1>3, <1>4, <1>5, SlotPage

-----------------------------------------------------------------------------
(* Answers.                                                                *)

\* The function goes on in the page that is there, and may ask again.
LEMMA GoesOn ==
    ASSUME PageInv, Spent, NEW k \in Slots, NEW c, IsCall(c), Fits(c, page'),
           c.alive = "form" => c.kind \notin Guarded \cup LoginCalls,
           calls' = [calls EXCEPT ![k] = c], UNCHANGED <<stored, session>>, IsWizard(wizard'),
           IsPage(page'), page'.at = page.at, page.busy \ Released(k) \subseteq page'.busy,
           page'.agenda = page.agenda \/ page.at = "public",
           page'.shown = "spinner" => page.shown = "spinner" /\ page'.touched = page.touched
    PROVE  PageInv'
<1>1. ScreenInv'
  BY ScreenSame DEF PageInv
<1> QED BY <1>1, AnswerPage

LEMMA Ends ==
    ASSUME PageInv, Spent, NEW k \in Slots, calls' = Ended(k), UNCHANGED <<stored, session>>, IsWizard(wizard'),
           IsPage(page'), page'.at = page.at, page.busy \ Released(k) \subseteq page'.busy,
           page'.agenda = page.agenda \/ page.at = "public",
           page'.shown = "spinner" => page.shown = "spinner" /\ page'.touched = page.touched
    PROVE  PageInv'
<1>1. Fits(Free, page') /\ Free.alive # "form" /\ calls' = [calls EXCEPT ![k] = Free]
  BY FreeDoesFit, FreeCall DEF FreeFits, Ended
<1> QED BY <1>1, FreeCall, GoesOn

\* A GET that a function of a page ends with, mounted or not.
LEMMA LoadFits ==
    ASSUME NEW at \in DOMAIN LoadOf, NEW token, NEW c, NEW p, p.at # "public",
           (c = Load(at, token) /\ p.at = at) \/ c = [Load(at, token) EXCEPT !.alive = "gone"]
    PROVE  IsCall(c) /\ Fits(c, p) /\ c.alive # "form" /\ c.kind \notin Anchored \cup {"none"}
<1>1. PICK d: d = Load(at, token)
  OBVIOUS
<1>2. /\ IsCall(d) /\ d.kind = LoadOf[at] /\ d.alive = "page" /\ d.st = "sent"
  BY <1>1, LoadIs
<1>3. (c = d /\ p.at = at) \/ c = [d EXCEPT !.alive = "gone"]
  BY <1>1
<1>4. IsCall(c) /\ c.kind = LoadOf[at] /\ ((c.alive = "page" /\ p.at = at) \/ c.alive = "gone")
  BY <1>2, <1>3 DEF IsCall, CallFields
<1>5. c.kind \in {"lead", "queue", "stock", "people", "visits"}
  BY <1>4 DEF LoadOf
<1>6. AtHome(c.kind, at)
  BY <1>4, <1>5 DEF Anchored, AtHome, LoadOf, LoginCalls, ReadinessCalls, WithMasterKey, WithNothing
<1> QED BY <1>4, <1>5, <1>6, KindList, GuardedKinds DEF Anchored, WithMasterKey, Fits, Lives, LoginCalls, WithNothing, WithPassword

LEMMA UnmodalledGoes ==
    ASSUME PageInv, Spent, page.at = "stock", NEW k \in Slots, NEW c, IsCall(c), Fits(c, page'), c.alive # "form",
           c.kind \notin Anchored \cup {"none"}, calls' = Unmodalled(Followed(k, c)),
           UNCHANGED <<stored, session>>, IsWizard(wizard'), IsPage(page'), page'.at = page.at,
           page'.agenda = page.agenda, page'.shown # "spinner"
    PROVE  PageInv'
<1>1. ScreenInv'
  BY ScreenSame DEF PageInv
<1>2. PICK cs: cs = Followed(k, c)
  OBVIOUS
<1>3. \A j \in Slots: IsCall(cs[j]) /\ cs[j] = IF j = k THEN c ELSE calls[j]
  BY <1>2 DEF Followed, PageInv, Shape
<1>4. \A j \in Slots: /\ SameRequest(calls'[j], cs[j])
                      /\ calls'[j].alive = (IF cs[j].kind \in {"create", "update", "photo"} /\ cs[j].alive = "form"
                                            THEN "page" ELSE cs[j].alive)
                      /\ cs[j].kind \notin {"create", "update", "photo"} => calls'[j] = cs[j]
                      /\ cs[j].alive # "form" => calls'[j] = cs[j]
  <2> SUFFICES ASSUME NEW j \in Slots
               PROVE  /\ SameRequest(calls'[j], cs[j])
                      /\ calls'[j].alive = (IF cs[j].kind \in {"create", "update", "photo"} /\ cs[j].alive = "form"
                                            THEN "page" ELSE cs[j].alive)
                      /\ cs[j].kind \notin {"create", "update", "photo"} => calls'[j] = cs[j]
                      /\ cs[j].alive # "form" => calls'[j] = cs[j]
    OBVIOUS
  <2>1. calls' = Unmodalled(cs)
    BY <1>2
  <2>2. cs[j].alive # "form" => Unmodalled(cs)[j] = cs[j]
    BY DEF Unmodalled
  <2> QED BY <1>3, <2>1, <2>2, UnmodalledAre
<1>5. Shape'
  BY <1>2, <1>4, UnmodalledShape DEF Shape, SameRequest
<1>6. ASSUME NEW j \in Slots, j # k
      PROVE  /\ SameRequest(calls'[j], calls[j])
             /\ calls[j].kind \in Anchored \cup {"none"} => calls'[j] = calls[j]
             /\ calls'[j].alive = calls[j].alive \/ (calls[j].alive = "form" /\ calls'[j].alive = "page")
             /\ calls'[j].alive = "form" => calls[j].kind \notin Guarded
  <2>1. Fits(calls[j], page) /\ cs[j] = calls[j]
    BY <1>3, <1>6 DEF PageInv, CallInv
  <2>2. calls'[j].alive = "form" => calls[j].kind \notin Guarded
    BY <1>4, <2>1, GuardedKinds DEF Anchored, WithMasterKey, Fits, AtHome, OfALead, WithNothing
  <2>3. calls[j].kind \in Anchored \cup {"none"} => calls'[j] = calls[j]
    BY <1>4, <2>1 DEF Anchored, WithMasterKey, WithNothing
  <2> QED BY <1>4, <2>1, <2>2, <2>3
<1>7. calls'[k] = c
  BY <1>3, <1>4
<1> QED BY <1>1, <1>5, <1>6, <1>7, OrphanPage

LEMMA FichaGoes ==
    ASSUME PageInv, Spent, page.at = "ficha", NEW k \in Slots, NEW c, IsCall(c), Fits(c, page'), c.alive # "form",
           calls' = Orphans(Followed(k, c), {"form"}, "page"),
           UNCHANGED <<stored, session>>, IsWizard(wizard'), IsPage(page'), page'.at = "ficha",
           page'.agenda = NothingPicked, page'.touched = {}
    PROVE  PageInv'
<1>1. ScreenInv'
  BY ScreenNew, AtScreen DEF PageInv, ScreenInv, Screens, OfALead, Public
<1>2. PICK cs: cs = Followed(k, c)
  OBVIOUS
<1>3. \A j \in Slots: IsCall(cs[j]) /\ cs[j] = IF j = k THEN c ELSE calls[j]
  BY <1>2 DEF Followed, PageInv, Shape
<1>4. \A j \in Slots: /\ SameRequest(calls'[j], cs[j])
                      /\ calls'[j].alive = (IF cs[j].alive = "form" THEN "page" ELSE cs[j].alive)
                      /\ cs[j].alive # "form" => calls'[j] = cs[j]
  <2> SUFFICES ASSUME NEW j \in Slots
               PROVE  /\ SameRequest(calls'[j], cs[j])
                      /\ calls'[j].alive = (IF cs[j].alive = "form" THEN "page" ELSE cs[j].alive)
                      /\ cs[j].alive # "form" => calls'[j] = cs[j]
    OBVIOUS
  <2>1. PICK from, to: from = {"form"} /\ to = "page"
    OBVIOUS
  <2>2. calls' = Orphans(cs, from, to)
    BY <1>2, <2>1
  <2> QED BY <1>3, <2>1, <2>2, OrphansAre
<1>5. Shape'
  BY <1>2, <1>4, OrphansShape DEF Shape, SameRequest
<1>6. ASSUME NEW j \in Slots, j # k
      PROVE  /\ SameRequest(calls'[j], calls[j])
             /\ calls[j].kind \in Anchored \cup {"none"} => calls'[j] = calls[j]
             /\ calls'[j].alive = calls[j].alive \/ (calls[j].alive = "form" /\ calls'[j].alive = "page")
             /\ calls'[j].alive # "form"
  <2>1. Fits(calls[j], page) /\ cs[j] = calls[j]
    BY <1>3, <1>6 DEF PageInv, CallInv
  <2>2. calls[j].kind \notin Anchored
    BY <2>1 DEF Anchored, WithMasterKey, Fits, Lives, AtHome
  <2>3. calls[j].kind = "none" => calls'[j] = calls[j]
    BY <1>4, <2>1, FreeCall DEF Anchored, WithMasterKey, Fits, Lives
  <2> QED BY <1>4, <2>1, <2>2, <2>3
<1>7. calls'[k] = c
  BY <1>3, <1>4
<1> QED BY <1>1, <1>5, <1>6, <1>7, OrphanPage

\* The page goes, for the login page or for the list of leads.
LEMMA PageGoes ==
    ASSUME PageInv, Spent, ~Public, NEW k \in Slots, calls' = Left(Ended(k)), NEW at \in {"login", "home"},
           page' = Screen(at), stored' = session', at = "login" <=> session' = Nobody, IsWizard(wizard')
    PROVE  PageInv'
<1>1. /\ IsPage(page') /\ page'.at = at /\ page'.shown = "content" /\ page'.touched = {}
      /\ page'.agenda = NothingPicked
  BY ScreenIs
<1>2. ScreenInv'
  BY <1>1, ScreenNew DEF PageInv
<1>3. PICK cs: cs = Ended(k)
  OBVIOUS
<1>4. cs = [j \in Slots |-> cs[j]] /\ \A j \in Slots: cs[j] = calls[j] \/ cs[j] = Free
  BY <1>3 DEF Ended, PageInv, Shape
<1>5. calls' = Left(cs)
  BY <1>3
<1>6. Fits(Free, page') /\ Free.alive # "form" /\ page'.at # "public"
  BY <1>1, FreeDoesFit, FreeCall DEF FreeFits
<1>7. /\ Left(cs) = [j \in Slots |-> Left(cs)[j]] /\ \A j \in Slots: IsCall(Left(cs)[j])
      /\ \A j \in Slots: \/ Left(cs)[j] = Free
                         \/ /\ SameRequest(Left(cs)[j], calls[j]) /\ calls[j].kind \notin Anchored \cup {"none"}
                            /\ \/ Left(cs)[j].alive = "gone" /\ calls[j].kind \notin LoginCalls
                               \/ Left(cs)[j].alive = "dropped" /\ calls[j].st = "sent"
                                  /\ calls[j].kind \notin WithPassword
  BY <1>4, LeftAre
<1>8. Shape'
  BY <1>5, <1>7 DEF Shape
<1> QED BY <1>2, <1>5, <1>6, <1>7, <1>8, LeavePage

LEMMA ScreenPages ==
    ASSUME PageInv, Spent, NEW k \in Slots, (calls[k].st = "done" /\ ScreenOk(k)) \/ ScreenError(k)
    PROVE  PageInv'
<1> DEFINE kind == calls[k].kind
<1>p. /\ IsPage(page) /\ IsWizard(wizard) /\ ScreenInv /\ Fits(calls[k], page) /\ Lives(calls[k])
      /\ (Public <=> session = Nobody) /\ stored = session
      /\ page.shown = "spinner" => page.at \in OfALead /\ page.touched = {}
  BY DEF PageInv, ScreenInv, PageShape, Shape, CallInv, Fits
<1>u. UNCHANGED <<stored, session, wizard>> /\ OfAScreen(k)
  BY DEF ScreenOk, ScreenError
<1>k. /\ kind \notin LoginCalls
      /\ page.at = "public" => kind \in WithNothing \cup {"none"}
      /\ calls[k].alive \in {"form", "page"} => AtHome(kind, page.at)
      /\ calls[k].alive = "page" /\ kind \in Guarded => page.at \in {"ficha", "stock"}
      /\ kind \in WithNothing => calls[k].alive = "form"
      /\ kind = "none" => calls[k] = Free
  BY <1>p, <1>u DEF Anchored, WithMasterKey, Fits, Lives, OfAScreen, LoginCalls, WithPassword
<1>r. /\ calls[k].alive = "form" => Released(k) = {kind}
      /\ kind \notin Guarded => Released(k) = {kind}
  BY <1>k DEF Released
<1> HIDE DEF kind
<1>n. page.at # "public" => kind \notin WithNothing
  BY <1>k DEF AtHome, kind
\* The answer of one of the agenda's.
<1>a. ASSUME kind \in WithNothing, NEW ok, AgendaAnswered(k, ok) PROVE PageInv'
  <2>1. calls' = Ended(k) /\ calls[k].alive = "form" /\ page.at = "public"
    BY <1>k, <1>n, <1>a DEF AgendaAnswered, DetailsAnswered, SlotsAnswered, BookAnswered
  <2>2. CASE kind = "details" /\ DetailsAnswered(k, ok)
    <3>1. page' = [page EXCEPT !.loading = FALSE, !.shown = IF ok THEN @ ELSE "error"]
      BY <2>2 DEF DetailsAnswered, Show
    <3>2. /\ IsPage(page') /\ page'.at = page.at /\ page'.busy = page.busy /\ page'.touched = page.touched
          /\ page'.shown = "spinner" => page.shown = "spinner"
      BY <1>p, <3>1 DEF IsPage, PageFields
    <3> QED BY <1>p, <1>u, <2>1, <3>2, Ends
  <2>3. CASE kind = "slots" /\ SlotsAnswered(k, ok)
    <3>1. page' = [page EXCEPT !.agenda.slots = IF ok THEN calls[k].result ELSE {}, !.busy = @ \ {"slots"}]
      BY <2>3 DEF SlotsAnswered, Show
    <3>2. /\ IsPage(page') /\ page'.at = page.at /\ page'.busy = page.busy \ {"slots"}
          /\ page'.touched = page.touched /\ page'.shown = page.shown
      BY <1>p, <3>1 DEF IsPage, PageFields, AgendaFields
    <3> QED BY <1>p, <1>u, <1>r, <2>1, <2>3, <3>2, Ends
  <2>4. CASE kind = "book" /\ BookAnswered(k, ok)
    <3>1. page' = [page EXCEPT !.shown = IF ok /\ @ # "error" THEN "done" ELSE "error", !.busy = @ \ {"book"}]
      BY <2>4 DEF BookAnswered, Show
    <3>2. /\ IsPage(page') /\ page'.at = page.at /\ page'.busy = page.busy \ {"book"}
          /\ page'.touched = page.touched /\ page'.shown \in {"done", "error"}
      BY <1>p, <3>1 DEF IsPage, PageFields
    <3> QED BY <1>p, <1>u, <1>r, <2>1, <2>4, <3>2, Ends
  <2> QED BY <1>a, <2>2, <2>3, <2>4 DEF AgendaAnswered, kind
\* The page as it was.
<1>b. ASSUME calls' = Ended(k), page' = page PROVE PageInv'
  BY <1>p, <1>u, <1>b, OverPage DEF Ended
\* A flag put down, and what is shown changed, outside a customer's page.
<1>c. ASSUME calls' = Ended(k), IsPage(page'), page'.at = page.at, page'.agenda = page.agenda,
             \/ page'.busy = page.busy
             \/ page'.busy = page.busy \ {kind} /\ (calls[k].alive = "form" \/ kind \notin Guarded),
             page'.shown = "spinner" => page.shown = "spinner" /\ page'.touched = {}
      PROVE  PageInv'
  <2>1. page.busy \ Released(k) \subseteq page'.busy
    BY <1>c, <1>r
  <2> QED BY <1>p, <1>u, <1>c, <2>1, Ends
<1>1. CASE ScreenError(k)
  <2>1. CASE kind \in WithNothing
    BY <1>1, <1>a, <2>1 DEF ScreenError, kind
  <2>2. CASE kind \notin WithNothing /\ kind \in Loads /\ calls[k].alive = "page"
    <3>1. /\ calls' = Ended(k)
          /\ page' = [page EXCEPT !.loading = FALSE,
                         !.shown = IF page.at \in OfALead \cup {"people"} THEN "error" ELSE @]
      BY <1>1, <2>2 DEF ScreenError, LoadFailed, Show, kind
    <3>2. /\ IsPage(page') /\ page'.at = page.at /\ page'.busy = page.busy /\ page'.agenda = page.agenda
          /\ page'.shown = "error" \/ (page'.shown = page.shown /\ page.at \notin OfALead)
      BY <1>p, <3>1 DEF IsPage, PageFields
    <3> QED BY <1>p, <1>c, <3>1, <3>2
  <2>3. CASE kind \notin WithNothing /\ kind \in Loads /\ calls[k].alive # "page"
    BY <1>1, <1>b, <2>3 DEF ScreenError, kind
  <2>4. CASE kind \notin WithNothing /\ kind \notin Loads
    <3>1. Failed(k)
      BY <1>1, <2>4 DEF ScreenError, kind
    <3>2. CASE calls[k].alive = "form"
      <4>1. calls' = Ended(k) /\ page' = [page EXCEPT !.busy = @ \ {kind}]
        BY <3>1, <3>2 DEF Failed, Show, kind
      <4>2. /\ IsPage(page') /\ page'.at = page.at /\ page'.busy = page.busy \ {kind}
            /\ page'.agenda = page.agenda /\ page'.shown = page.shown /\ page'.touched = page.touched
        BY <1>p, <4>1 DEF IsPage, PageFields
      <4> QED BY <1>p, <1>c, <3>2, <4>1, <4>2
    <3>3. CASE calls[k].alive # "form"
      BY <1>b, <3>1, <3>3 DEF Failed, Show
    <3> QED BY <3>2, <3>3
  <2> QED BY <2>1, <2>2, <2>3, <2>4
<1>s. ASSUME Suppressed(k), session # Nobody PROVE PageInv'
  <2>1. PICK at: at = "home"
    OBVIOUS
  <2>2. calls' = Left(Ended(k)) /\ page' = Screen(at) /\ stored' = session' /\ session' # Nobody /\ ~Public
    BY <1>p, <1>u, <1>s, <2>1 DEF Suppressed, Show
  <2> QED BY <1>p, <1>u, <2>1, <2>2, PageGoes
<1>2. CASE calls[k].st = "done" /\ ScreenOk(k) /\ calls[k].alive = "gone"
  <2>1. CASE Unmounted(k)
    <3>1. CASE kind \in DOMAIN Fetching
      <4>1. PICK at: at = Fetching[kind]
        OBVIOUS
      <4>2. at \in DOMAIN LoadOf /\ kind \notin WithNothing \cup {"none"}
        BY <3>1, <4>1 DEF Anchored, WithMasterKey, Fetching, LoadOf, WithNothing
      <4>3. PICK c: c = [Load(at, calls[k].token) EXCEPT !.alive = "gone"]
        OBVIOUS
      <4>4. calls' = [calls EXCEPT ![k] = c] /\ page' = page
        BY <2>1, <3>1, <4>1, <4>3 DEF Unmounted, Followed, Show, kind
      <4>5. page.at # "public"
        BY <1>k, <4>2
      <4>6. IsCall(c) /\ Fits(c, page') /\ c.alive # "form"
        BY <4>2, <4>3, <4>4, <4>5, LoadFits
      <4> QED BY <1>p, <1>u, <4>4, <4>6, GoesOn
    <3>2. CASE kind \notin DOMAIN Fetching
      BY <1>b, <2>1, <3>2 DEF Unmounted, Show, kind
    <3> QED BY <3>1, <3>2
  <2> QED BY <1>2, <1>s, <2>1 DEF ScreenOk
<1>3. CASE calls[k].st = "done" /\ ScreenOk(k) /\ calls[k].alive # "gone"
  <2>0. /\ AtHome(kind, page.at) /\ calls[k].alive \in {"form", "page"}
        /\ kind \in Guarded /\ page.at \notin {"ficha", "stock"} => calls[k].alive = "form"
    BY <1>p, <1>k, <1>3 DEF Anchored, WithMasterKey, Lives
  <2>1. CASE kind \in Loads /\ Loaded(k)
    <3>1. /\ calls' = Ended(k)
          /\ page' = [page EXCEPT !.loading = FALSE, !.data = calls[k].result, !.shown = "content",
                         !.replyable = page.at = "ficha",
                         !.values = IF page.shown = "spinner" THEN calls[k].result ELSE @]
      BY <2>1 DEF Loaded, Show
    <3>2. /\ IsPage(page') /\ page'.at = page.at /\ page'.busy = page.busy /\ page'.agenda = page.agenda
          /\ page'.shown = "content"
      BY <1>p, <3>1 DEF IsPage, PageFields
    <3> QED BY <1>c, <3>1, <3>2
  <2>2. CASE kind = "assign" /\ AssignmentSaved(k)
    <3>1. CASE calls[k].alive = "form"
      <4>1. /\ calls' = Ended(k)
            /\ page' = [page EXCEPT !.data = calls[k].result, !.touched = {}, !.busy = @ \ {"assign"},
                                    !.replyable = FALSE]
        BY <2>2, <3>1 DEF AssignmentSaved, Show
      <4>2. /\ IsPage(page') /\ page'.at = page.at /\ page'.busy = page.busy \ {kind}
            /\ page'.agenda = page.agenda /\ page'.shown = page.shown /\ page'.touched = {}
        BY <1>p, <2>2, <4>1 DEF IsPage, PageFields
      <4> QED BY <1>c, <3>1, <4>1, <4>2
    <3>2. CASE calls[k].alive # "form"
      <4>1. /\ calls' = Ended(k)
            /\ page' = [page EXCEPT !.data = calls[k].result, !.replyable = FALSE]
        BY <2>2, <3>2 DEF AssignmentSaved, Show
      <4>2. /\ IsPage(page') /\ page'.at = page.at /\ page'.busy = page.busy
            /\ page'.agenda = page.agenda /\ page'.shown = page.shown /\ page'.touched = page.touched
        BY <1>p, <4>1 DEF IsPage, PageFields
      <4> QED BY <1>p, <1>c, <4>1, <4>2
    <3> QED BY <3>1, <3>2
  <2>3. CASE kind = "config" /\ ConfigSaved(k)
    <3>1. /\ calls' = Ended(k)
          /\ page' = [page EXCEPT !.values = calls[k].result, !.touched = {}, !.busy = @ \ {"config"}]
      BY <2>3 DEF ConfigSaved, Show
    <3>2. /\ IsPage(page') /\ page'.at = page.at /\ page'.busy = page.busy \ {kind}
          /\ page'.agenda = page.agenda /\ page'.shown = page.shown /\ page'.touched = {}
      BY <1>p, <2>3, <3>1 DEF IsPage, PageFields
    <3>3. calls[k].alive = "form"
      BY <2>0, <2>3, GuardedKinds DEF AtHome
    <3> QED BY <1>c, <3>1, <3>2, <3>3
  <2>4. CASE kind \in {"create", "update"} /\ CloseAndFetch(k)
    <3>1. PICK at: at = "stock"
      OBVIOUS
    <3>2. PICK c: c = Load(at, calls[k].token)
      OBVIOUS
    <3>3. /\ calls' = Unmodalled(Followed(k, c)) /\ page.at = at /\ page.at = "stock"
          /\ page' = [page EXCEPT !.modal = "none", !.values = NothingTyped, !.touched = {},
                         !.text = EmptyBoxes, !.busy = @ \ {"create", "update", "photo"}, !.loading = TRUE]
      BY <2>0, <2>4, <3>1, <3>2 DEF CloseAndFetch, AtHome, Show
    <3>4. /\ IsPage(page') /\ page'.at = page.at /\ page'.agenda = page.agenda /\ page'.shown = page.shown
      BY <1>p, <3>3 DEF IsPage, PageFields, EmptyBoxes, NothingTyped
    <3>5. page.shown # "spinner" /\ at \in DOMAIN LoadOf /\ page'.at # "public"
      BY <1>p, <3>1, <3>3, <3>4 DEF OfALead, LoadOf
    <3>6. IsCall(c) /\ Fits(c, page') /\ c.alive # "form" /\ c.kind \notin Anchored \cup {"none"}
      BY <3>2, <3>3, <3>4, <3>5, LoadFits
    <3> QED BY <1>p, <1>u, <3>3, <3>4, <3>5, <3>6, UnmodalledGoes
  <2>5. CASE kind = "note" /\ NoteAdded(k)
    <3>1. CASE calls[k].alive = "form"
      <4>1. calls' = Ended(k) /\ page' = [page EXCEPT !.text["note"] = NoDraft, !.busy = @ \ {"note"}]
        BY <2>5, <3>1 DEF NoteAdded, Show
      <4>2. /\ IsPage(page') /\ page'.at = page.at /\ page'.busy = page.busy \ {kind}
            /\ page'.agenda = page.agenda /\ page'.shown = page.shown /\ page'.touched = page.touched
        BY <1>p, <2>5, <4>1 DEF IsPage, PageFields
      <4> QED BY <1>p, <1>c, <3>1, <4>1, <4>2
    <3>2. CASE calls[k].alive # "form"
      BY <1>b, <2>5, <3>2 DEF NoteAdded, Show
    <3> QED BY <3>1, <3>2
  <2>6. CASE kind \in {"reply", "release"} /\ FetchLead(k)
    <3>1. PICK at: at = "ficha"
      OBVIOUS
    <3>2. PICK c: c = Load(at, calls[k].token)
      OBVIOUS
    <3>3. PICK new: new = Screen(at)
      OBVIOUS
    <3>4. /\ calls' = Orphans(Followed(k, c), {"form"}, "page") /\ page.at = at
          /\ page' = [new EXCEPT !.shown = "spinner", !.loading = TRUE, !.data = page.data]
      BY <2>0, <2>6, <3>1, <3>2, <3>3 DEF FetchLead, AtHome, Show
    <3>5. IsPage(new) /\ new.at = at /\ new.touched = {} /\ new.agenda = NothingPicked
      BY <3>3, ScreenIs
    <3>6. /\ IsPage(page') /\ page'.at = at /\ page'.agenda = NothingPicked /\ page'.touched = {}
      BY <3>4, <3>5 DEF IsPage, PageFields
    <3>7. at \in DOMAIN LoadOf /\ page'.at # "public"
      BY <3>1, <3>6 DEF LoadOf
    <3>8. IsCall(c) /\ Fits(c, page') /\ c.alive # "form"
      BY <3>2, <3>6, <3>7, LoadFits
    <3> QED BY <1>p, <1>u, <3>1, <3>4, <3>6, <3>8, FichaGoes
  <2>7. CASE kind \in {"newPerson", "deactivate", "reset"} /\ FetchPeople(k)
    <3>1. PICK at: at = "people"
      OBVIOUS
    <3>2. PICK c: c = Load(at, calls[k].token)
      OBVIOUS
    <3>3. /\ calls' = [calls EXCEPT ![k] = c] /\ page.at = at
          /\ \E x: page' = [page EXCEPT !.text["newPerson"] = x,
                                        !.busy = @ \ {kind}, !.loading = TRUE, !.shown = "content"]
      BY <2>0, <2>7, <3>1, <3>2 DEF FetchPeople, AtHome, Show, Followed, kind
    <3>4. /\ IsPage(page') /\ page'.at = page.at /\ page'.busy = page.busy \ {kind}
          /\ page'.agenda = page.agenda /\ page'.shown = "content"
      BY <1>p, <3>3 DEF IsPage, PageFields
    <3>5. at \in DOMAIN LoadOf /\ page'.at # "public" /\ page'.at = at
      BY <3>1, <3>3, <3>4 DEF LoadOf
    <3>6. IsCall(c) /\ Fits(c, page') /\ c.alive # "form"
      BY <3>2, <3>5, LoadFits
    <3>7. page.busy \ Released(k) \subseteq page'.busy
      BY <1>r, <2>0, <3>1, <3>3, <3>4
    <3> QED BY <1>p, <1>u, <3>3, <3>4, <3>6, <3>7, GoesOn
  <2>8. CASE kind \in {"contacted", "optOut"} /\ LeadUpdated(k)
    <3>1. /\ calls' = Ended(k)
          /\ page' = [page EXCEPT !.data = calls[k].result, !.replyable = FALSE,
                         !.busy = IF calls[k].alive = "form" THEN @ \ {kind} ELSE @]
      BY <2>8 DEF LeadUpdated, Show, kind
    <3>2. /\ IsPage(page') /\ page'.at = page.at /\ page'.busy \in {page.busy, page.busy \ {kind}}
          /\ page'.agenda = page.agenda /\ page'.shown = page.shown /\ page'.touched = page.touched
      BY <1>p, <3>1 DEF IsPage, PageFields
    <3>3. kind \notin Guarded
      BY <2>8, GuardedKinds
    <3> QED BY <1>p, <1>c, <3>1, <3>2, <3>3
  <2>9. CASE kind \in {"status", "remove"} /\ FetchStock(k)
    <3>1. PICK at: at = "stock"
      OBVIOUS
    <3>2. PICK c: c = Load(at, calls[k].token)
      OBVIOUS
    <3>3. /\ calls' = [calls EXCEPT ![k] = c] /\ page.at = at
          /\ page' = [page EXCEPT !.busy = @ \ {kind}, !.loading = TRUE]
      BY <2>0, <2>9, <3>1, <3>2 DEF FetchStock, AtHome, Show, Followed, kind
    <3>4. /\ IsPage(page') /\ page'.at = page.at /\ page'.busy = page.busy \ {kind}
          /\ page'.agenda = page.agenda /\ page'.shown = page.shown /\ page'.touched = page.touched
      BY <1>p, <3>3 DEF IsPage, PageFields
    <3>5. at \in DOMAIN LoadOf /\ page'.at # "public" /\ page'.at = at
      BY <3>1, <3>3, <3>4 DEF LoadOf
    <3>6. IsCall(c) /\ Fits(c, page') /\ c.alive # "form" /\ kind \notin Guarded
      BY <2>9, <3>2, <3>5, LoadFits, GuardedKinds
    <3>7. page.busy \ Released(k) \subseteq page'.busy
      BY <1>r, <3>4, <3>6
    <3> QED BY <1>p, <1>u, <3>3, <3>4, <3>6, <3>7, GoesOn
  <2>10. CASE kind = "suppress" /\ Suppressed(k)
    <3>1. session # Nobody
      BY <1>p, <2>0, <2>10 DEF AtHome, Public
    <3> QED BY <1>s, <2>10, <3>1
  <2>11. CASE kind = "visit" /\ VisitUpdated(k)
    <3>1. calls' = Ended(k) /\ page' = [page EXCEPT !.busy = @ \ {"visit"}]
      BY <2>11 DEF VisitUpdated, Show
    <3>2. /\ IsPage(page') /\ page'.at = page.at /\ page'.busy = page.busy \ {kind} /\ kind \notin Guarded
          /\ page'.agenda = page.agenda /\ page'.shown = page.shown /\ page'.touched = page.touched
      BY <1>p, <2>11, <3>1, GuardedKinds DEF IsPage, PageFields
    <3> QED BY <1>p, <1>c, <3>1, <3>2
  <2>12. CASE kind = "photo" /\ PhotoUploaded(k)
    <3>1. CASE calls[k].alive = "form"
      <4>1. /\ calls' = Ended(k) /\ page.at = "stock"
            /\ page' = [page EXCEPT !.values[Photos] = calls[k].draft, !.touched = @ \cup {Photos},
                                    !.busy = @ \ {"photo"}]
        BY <2>0, <2>12, <3>1 DEF PhotoUploaded, Show, AtHome
      <4>2. /\ IsPage(page') /\ page'.at = page.at /\ page'.busy = page.busy \ {kind}
            /\ page'.agenda = page.agenda /\ page'.shown = page.shown
        BY <1>p, <2>12, <4>1 DEF IsPage, PageFields
      <4>3. page.shown # "spinner"
        BY <1>p, <4>1 DEF OfALead
      <4> QED BY <1>c, <3>1, <4>1, <4>2, <4>3
    <3>2. CASE calls[k].alive # "form"
      BY <1>b, <2>12, <3>2 DEF PhotoUploaded, Show
    <3> QED BY <3>1, <3>2
  <2>13. CASE kind \in WithNothing /\ \E ok: AgendaAnswered(k, ok)
    BY <1>a, <2>13
  <2>14. AfterOk(k)
    BY <1>3 DEF ScreenOk
  <2>15. PICK kd: kd = kind
    OBVIOUS
  <2>16. kd = calls[k].kind /\ calls[k].st = "done" /\ calls[k].alive # "gone"
    BY <1>3, <2>15 DEF kind
  <2>18. k \in Slots /\ Lives(calls[k]) /\ OfAScreen(k)
    BY <1>p, <1>u
  <2>17. \/ kd \in Loads /\ Loaded(k)
         \/ kd = "assign" /\ AssignmentSaved(k)
         \/ kd = "config" /\ ConfigSaved(k)
         \/ kd \in {"create", "update"} /\ CloseAndFetch(k)
         \/ kd = "note" /\ NoteAdded(k)
         \/ kd \in {"reply", "release"} /\ FetchLead(k)
         \/ kd \in {"newPerson", "deactivate", "reset"} /\ FetchPeople(k)
         \/ kd \in {"contacted", "optOut"} /\ LeadUpdated(k)
         \/ kd \in {"status", "remove"} /\ FetchStock(k)
         \/ kd = "suppress" /\ Suppressed(k)
         \/ kd = "visit" /\ VisitUpdated(k)
         \/ kd = "photo" /\ PhotoUploaded(k)
         \/ kd \in WithNothing /\ \E ok: AgendaAnswered(k, ok)
    BY ONLY <2>14, <2>16, <2>18, AfterOkIs
  <2> QED BY ONLY <2>1, <2>2, <2>3, <2>4, <2>5, <2>6, <2>7, <2>8, <2>9, <2>10, <2>11, <2>12, <2>13, <2>15, <2>17
<1> QED BY <1>1, <1>2, <1>3

\* The session goes, and with it the screen, if it is one of the panel's.
LEMMA SignedOutPages ==
    ASSUME PageInv, Spent, NEW k \in Slots, calls[k].st # "sent", SignedOut(k), IsWizard(wizard')
    PROVE  PageInv'
<1>1. /\ stored' = Nobody /\ session' = Nobody /\ ToLogin(k) /\ IsPage(page) /\ Fits(calls[k], page)
      /\ (Public <=> session = Nobody) /\ stored = session
  BY DEF SignedOut, PageInv, ScreenInv, PageShape, CallInv
<1>2. CASE ~Public
  <2>1. PICK at: at = "login"
    OBVIOUS
  <2>2. page' = Screen(at) /\ calls' = Left(Ended(k))
    BY <1>1, <1>2, <2>1 DEF ToLogin, LoginScreen
  <2> QED BY <1>1, <1>2, <2>1, <2>2, PageGoes
<1>3. CASE Public
  <2>1. calls' = Ended(k) /\ UNCHANGED <<stored, session>>
    BY <1>1, <1>3 DEF ToLogin
  <2>2. \/ page' = page
        \/ calls[k].kind \in {"login", "me"} /\ page' = [page EXCEPT !.busy = @ \ {"login"}]
        \/ calls[k].alive = "form" /\ page' = [page EXCEPT !.busy = @ \ {calls[k].kind}]
    BY <1>1, <1>3 DEF ToLogin
  <2>3. /\ IsPage(page') /\ page'.at = page.at /\ page'.agenda = page.agenda /\ page'.shown = page.shown
        /\ page'.touched = page.touched
        /\ \/ page'.busy = page.busy
           \/ calls[k].kind \in {"login", "me"} /\ page'.busy = page.busy \ {"login"}
           \/ calls[k].alive = "form" /\ page'.busy = page.busy \ {calls[k].kind}
    BY <1>1, <2>2 DEF IsPage, PageFields
  <2>4. calls[k].alive # "dropped"
    BY <1>1 DEF Fits, Lives
  <2>5. page.busy \ Released(k) \subseteq page'.busy
    BY <2>3, <2>4 DEF Released, LoginCalls
  <2> QED BY <2>1, <2>3, <2>5, Ends
<1> QED BY <1>2, <1>3

LEMMA LoginFailedPages ==
    ASSUME PageInv, Spent, NEW k \in Slots, calls[k].kind \in LoginCalls, calls[k].st # "sent",
           LoginFailed(k), IsWizard(wizard')
    PROVE  PageInv'
<1>1. /\ page' = [page EXCEPT !.busy = @ \ {"login"}] /\ calls' = Ended(k) /\ UNCHANGED <<stored, session>>
      /\ IsPage(page) /\ Fits(calls[k], page)
  BY DEF LoginFailed, PageInv, ScreenInv, PageShape, CallInv
<1>2. /\ IsPage(page') /\ page'.at = page.at /\ page'.agenda = page.agenda /\ page'.shown = page.shown
      /\ page'.touched = page.touched /\ page'.busy = page.busy \ {"login"}
  BY <1>1 DEF IsPage, PageFields
<1>3. calls[k].alive # "dropped"
  BY <1>1 DEF Fits, Lives
<1>4. page.busy \ Released(k) \subseteq page'.busy
  BY <1>2, <1>3 DEF Released
<1> QED BY <1>1, <1>2, <1>4, Ends

LEMMA LoginAnsweredPages ==
    ASSUME PageInv, Spent, NEW k \in Slots, calls[k].kind = "login", calls[k].st = "done",
           LoginAnswered(k), IsWizard(wizard')
    PROVE  PageInv'
<1>1. PICK kind: kind = "me"
  OBVIOUS
<1>2. PICK c: c = Call(kind, calls[k].result, NoDraft, << >>)
  OBVIOUS
<1>3. IsCall(c) /\ c.kind = "me" /\ c.alive = "form"
  BY <1>1, <1>2, CallIs
<1>4. calls' = [calls EXCEPT ![k] = c] /\ UNCHANGED <<stored, session, page>>
  BY <1>1, <1>2 DEF LoginAnswered, Followed
<1>5. Fits(calls[k], page) /\ calls[k].alive = "form" /\ "login" \in page.busy /\ page.at = "login"
  BY DEF PageInv, CallInv, Fits, Lives, LoginCalls, AtHome
<1>6. AtHome("me", "login")
  BY DEF AtHome, OfALead, ReadinessCalls, WithMasterKey, WithNothing
<1>7. Fits(c, page')
  BY <1>3, <1>4, <1>5, <1>6, KindList, GuardedKinds
     DEF Fits, Lives, LoginCalls, Anchored, WithMasterKey, WithNothing, WithPassword
<1>8. ScreenInv'
  BY <1>4, ScreenSame DEF PageInv, ScreenInv, PageShape
<1>9. Shape' /\ calls'[k] = c /\ \A j \in Slots \ {k}: calls'[j] = calls[j]
  BY <1>3, <1>4, OneSlot DEF PageInv, Shape
<1>10. \A j \in Slots \ {k}: Stays(calls'[j], calls[j], page, page') /\ ~Twin(calls[k], calls[j])
  BY <1>4, <1>9, SameStays DEF PageInv, Shape, CallInv, OneInv, Fits
<1>11. \A j \in Slots \ {k}: ~Twin(c, calls'[j])
  BY <1>3, <1>5, <1>9, <1>10, GuardedKinds DEF Twin, LoginCalls
<1> QED BY <1>7, <1>8, <1>9, <1>11, <1>10, PageStep

LEMMA MeAnsweredPages ==
    ASSUME PageInv, TokenInv, Spent, NEW k \in Slots, calls[k].kind = "me", calls[k].st = "done",
           MeAnswered(k), IsWizard(wizard')
    PROVE  PageInv'
<1>1. PICK r: r = Register(calls[k].token)
  OBVIOUS
<1>2. IsCall(r) /\ r.kind = "push" /\ r.alive = "gone"
  BY <1>1, RegisterIs
<1>3. PICK c \in {r, Free}: calls' = [calls EXCEPT ![k] = c]
  BY <1>1 DEF MeAnswered, Followed, Ended
<1>4. PICK at: at = "home"
  OBVIOUS
<1>5. page' = Screen(at) /\ stored' = calls[k].token /\ session' = calls[k].token
  BY <1>4 DEF MeAnswered
<1>6. session' # Nobody
  BY <1>5 DEF TokenInv, IssuedInv, Secret, SecretOf, Nobody
<1>7. /\ IsPage(page') /\ page'.at = at /\ page'.shown = "content" /\ page'.touched = {}
      /\ page'.agenda = NothingPicked
  BY <1>5, ScreenIs
<1>8. ScreenInv'
  BY <1>4, <1>5, <1>6, <1>7, ScreenNew DEF PageInv
<1>9. IsCall(c) /\ Fits(c, page') /\ c.alive # "form"
  <2>1. Fits(r, page')
    BY <1>2, <1>4, <1>7, KindList, GuardedKinds
       DEF Fits, Lives, LoginCalls, Anchored, WithMasterKey, WithNothing, WithPassword
  <2> QED BY <1>2, <1>3, <2>1, FreeCall, FreeDoesFit DEF FreeFits
<1>10. Shape' /\ calls'[k] = c /\ \A j \in Slots \ {k}: calls'[j] = calls[j]
  BY <1>3, <1>9, OneSlot DEF PageInv, Shape
<1>11. Fits(calls[k], page) /\ calls[k].alive = "form" /\ page.at = "login"
  BY DEF PageInv, CallInv, Fits, Lives, LoginCalls, AtHome
\* What the login page awaits is this call alone.
<1>12. ASSUME NEW j \in Slots \ {k}, calls[j] # Free
       PROVE  /\ SameRequest(calls'[j], calls[j]) /\ calls[j].kind \notin Anchored \cup {"none"}
              /\ \/ calls'[j].alive = "gone" /\ calls[j].kind \notin LoginCalls
                 \/ calls'[j].alive = "dropped" /\ calls[j].st = "sent" /\ calls[j].kind \notin WithPassword
  <2>1. Fits(calls[j], page) /\ ~Twin(calls[k], calls[j]) /\ IsCall(calls[j])
    BY DEF PageInv, CallInv, OneInv, Shape
  <2>2. calls[j].kind \notin LoginCalls \/ calls[j].alive = "dropped"
    BY <1>11, <2>1 DEF Fits, Twin, LoginCalls
  <2>3. calls[j].alive \notin {"form", "page"}
    <3>1. ASSUME calls[j].alive \in {"form", "page"} PROVE FALSE
      <4>1. AtHome(calls[j].kind, "login") /\ calls[j].kind \notin LoginCalls \cup {"none", "push"}
            /\ calls[j].kind \in Kinds
        BY <1>11, <1>12, <2>1, <2>2, <3>1 DEF Fits, Lives
      <4> QED BY <4>1, KindList DEF AtHome, LoginCalls, OfALead, WithNothing, WithMasterKey, ReadinessCalls
    <3> QED BY <3>1
  <2> QED BY <1>10, <1>12, <2>1, <2>2, <2>3 DEF Fits, Lives, SameRequest
<1>13. page'.at # "public"
  BY <1>4, <1>7
<1>14. \A j \in Slots: \/ calls'[j] = c
                       \/ calls'[j] = Free
                       \/ /\ SameRequest(calls'[j], calls[j]) /\ calls[j].kind \notin Anchored \cup {"none"}
                          /\ \/ calls'[j].alive = "gone" /\ calls[j].kind \notin LoginCalls
                             \/ calls'[j].alive = "dropped" /\ calls[j].st = "sent"
                                /\ calls[j].kind \notin WithPassword
  BY <1>10, <1>12
<1> QED BY <1>8, <1>9, <1>10, <1>13, <1>14, LeavePage

LEMMA WizardPages ==
    ASSUME PageInv, Spent, NEW k \in Slots, WizardOk(k) \/ WizardError(k)
    PROVE  PageInv'
<1>1. UNCHANGED <<stored, session, page>> /\ IsWizard(wizard) /\ Fits(calls[k], page)
  BY DEF WizardOk, WizardError, PageInv, Shape, CallInv
<1>2. IsWizard(wizard')
  BY <1>1 DEF WizardOk, WizardError, TenantCreated, OwnerCreated, OwnerLoggedIn, TenantFailed, OwnerFailed,
              OwnerLoginFailed, Wizard, IsWizard, WizardFields
<1>3. CASE calls' = Ended(k)
  BY <1>1, <1>2, <1>3, OverPage DEF Ended
<1>4. CASE calls[k].kind \in WithMasterKey
           /\ \E kind \in {"bootstrap", "ownerLogin"}: calls' = Followed(k, Call(kind, Nobody, NoDraft, << >>))
  <2>1. PICK kind \in {"bootstrap", "ownerLogin"}: calls' = Followed(k, Call(kind, Nobody, NoDraft, << >>))
    BY <1>4
  <2>2. PICK c: c = Call(kind, Nobody, NoDraft, << >>)
    OBVIOUS
  <2>3. IsCall(c) /\ c.kind = kind /\ c.alive = "form" /\ calls' = [calls EXCEPT ![k] = c]
    BY <2>1, <2>2, CallIs DEF Followed
  <2>4. page.at = "wizard"
    BY <1>1, <1>4 DEF Fits, Lives, AtHome, Anchored
  <2>5. Fits(c, page')
    BY <1>1, <2>1, <2>3, <2>4, KindList, GuardedKinds
       DEF Fits, Lives, AtHome, LoginCalls, OfALead, Anchored, WithMasterKey, WithNothing, WithPassword,
           ReadinessCalls
  <2>6. c.kind \notin Guarded \cup LoginCalls
    BY <2>1, <2>3, GuardedKinds DEF LoginCalls
  <2> QED BY <1>1, <1>2, <2>3, <2>5, <2>6, GoesOn DEF PageInv, ScreenInv, PageShape
<1>5. WizardOk(k) => \/ calls' = Ended(k)
                     \/ /\ calls[k].kind \in WithMasterKey
                        /\ \E kind \in {"bootstrap", "ownerLogin"}:
                               calls' = Followed(k, Call(kind, Nobody, NoDraft, << >>))
  BY DEF WizardOk, TenantCreated, OwnerCreated, OwnerLoggedIn, WithMasterKey
<1>6. WizardError(k) => calls' = Ended(k)
  BY DEF WizardError, TenantFailed, OwnerFailed, OwnerLoginFailed
<1> QED BY <1>3, <1>4, <1>5, <1>6

LEMMA ReadinessPages ==
    ASSUME PageInv, Spent, NEW k \in Slots, NEW ok, ReadinessEnded(k, ok)
    PROVE  PageInv'
<1>1. /\ UNCHANGED <<stored, session>> /\ IsWizard(wizard) /\ Fits(calls[k], page) /\ IsPage(page)
      /\ calls' = Ended(k) /\ calls[k].kind \in ReadinessCalls
  BY DEF ReadinessEnded, ReadinessAnswered, PageInv, Shape, CallInv, ScreenInv, PageShape
<1>2. wizard' \in {wizard, [wizard EXCEPT !.told = TRUE], [wizard EXCEPT !.stocked = calls[k].result]}
  BY DEF ReadinessEnded, ReadinessAnswered, Wizard
<1>3. IsWizard(wizard')
  BY <1>1, <1>2 DEF IsWizard, WizardFields
<1>4. \/ page' = page \/ page' = [page EXCEPT !.loading = FALSE]
      \/ calls[k].kind = "import" /\ page' = [page EXCEPT !.busy = @ \ {"import"}]
  BY DEF ReadinessEnded, ReadinessAnswered, Show
<1>5. /\ IsPage(page') /\ page'.at = page.at /\ page'.agenda = page.agenda /\ page'.shown = page.shown
      /\ page'.touched = page.touched
      /\ page'.busy = page.busy \/ (calls[k].kind = "import" /\ page'.busy = page.busy \ {"import"})
  BY <1>1, <1>4 DEF IsPage, PageFields
<1>6. page.busy \ Released(k) \subseteq page'.busy
  BY <1>5, GuardedKinds DEF Released
<1> QED BY <1>1, <1>3, <1>5, <1>6, Ends

LEMMA DeliverPages == ASSUME PageInv, TokenInv, NEW k \in Slots, Deliver(k) PROVE PageInv'
<1>1. Spent /\ calls[k].st # "sent" /\ IsWizard(wizard)
  BY OthersSpend DEF Deliver, DeliverOk, DeliverError, Deliver401, PageInv, Shape
<1>2. CASE DeliverOk(k)
  <2>1. CASE ScreenOk(k)
    BY <1>1, <1>2, <2>1, ScreenPages DEF DeliverOk
  <2>2. CASE AuthOk(k)
    BY <1>1, <1>2, <2>2, LoginAnsweredPages, MeAnsweredPages, SignedOutPages
       DEF DeliverOk, AuthOk, LogoutEnded, SignedOut
  <2>3. CASE WizardOk(k)
    BY <1>1, <2>3, WizardPages
  <2>4. PICK ok: ok = TRUE
    OBVIOUS
  <2>5. CASE ReadinessEnded(k, ok)
    BY <1>1, <2>5, ReadinessPages
  <2> QED BY <1>2, <2>1, <2>2, <2>3, <2>4, <2>5 DEF DeliverOk
<1>3. CASE DeliverError(k)
  <2>1. CASE ScreenError(k)
    BY <1>1, <2>1, ScreenPages
  <2>2. CASE AuthError(k)
    BY <1>1, <2>2, LoginFailedPages, SignedOutPages DEF AuthError, LogoutEnded, SignedOut, LoginCalls
  <2>3. CASE WizardError(k)
    BY <1>1, <2>3, WizardPages
  <2>4. PICK ok: ok = FALSE
    OBVIOUS
  <2>5. CASE ReadinessEnded(k, ok)
    BY <1>1, <2>5, ReadinessPages
  <2> QED BY <1>3, <2>1, <2>2, <2>3, <2>4, <2>5 DEF DeliverError
<1>4. CASE Deliver401(k)
  <2>1. wizard' = wizard \/ wizard' = [wizard EXCEPT !.phase = "login-error", !.error = "401"]
    BY <1>4 DEF Deliver401
  <2>2. IsWizard(wizard')
    BY <1>1, <2>1 DEF IsWizard, WizardFields
  <2> QED BY <1>1, <1>4, <2>2, SignedOutPages DEF Deliver401
<1> QED BY <1>2, <1>3, <1>4 DEF Deliver

-----------------------------------------------------------------------------
(* The invariant is inductive: a token that only one call carries is still *)
(* unknown to the tab, so no 401 can have refused it.                      *)
SessionInv == TokenInv /\ PageInv

LEMMA SessionStep == ASSUME SessionInv, [Next]_vars PROVE SessionInv'
<1>1. CASE UNCHANGED vars
  <2>1. /\ UNCHANGED <<issued, stored, session, refused, calls, wizard, page, left>>
    BY <1>1 DEF vars, session_vars
  <2>2. TokenInv'
    BY <2>1, SameWire DEF SessionInv, TokenInv, Shape
  <2>3. PageInv'
    BY <2>1, PageSame DEF SessionInv, PageInv, Shape, ScreenInv, PageShape, Spent
  <2> QED BY <2>2, <2>3 DEF SessionInv
<1>2. CASE Person
  BY <1>2, PersonTokens, PersonPages DEF SessionInv
<1>3. CASE World
  BY <1>3, WorldTokens, WorldPages DEF SessionInv
<1>4. ASSUME NEW k \in Slots, Serve(k) \/ Deliver(k) \/ Lose(k) PROVE SessionInv'
  <2>1. Lives(calls[k])
    BY DEF SessionInv, PageInv, CallInv, Fits
  <2>2. TokenInv'
    BY <1>4, <2>1, ServeTokens, LoseTokens, DeliverTokens, RefusedTokens DEF SessionInv, Deliver
  <2>3. PageInv'
    BY <1>4, ServePages, LosePages, DeliverPages DEF SessionInv
  <2> QED BY <2>2, <2>3 DEF SessionInv
<1> QED BY <1>1, <1>2, <1>3, <1>4 DEF Next

LEMMA SessionHolds == FairSpec => []SessionInv
<1>1. Init => SessionInv
  BY InitTokens, InitPages DEF SessionInv
<1>2. SessionInv /\ [Next]_vars => SessionInv'
  BY SessionStep
<1> QED BY <1>1, <1>2, PTL DEF FairSpec

(* For any number of logins, reloads, logouts and late answers, whatever   *)
(* is refused or lost: no token that a 401 has come back for is in the     *)
(* tab's storage or in AuthProvider's state (AuthContext.tsx,              *)
(* http-client.ts, session-store.ts).                                      *)
THEOREM TokensStayOut == FairSpec => []RefusedStaysOut
<1>1. SessionInv => RefusedStaysOut
  BY DEF SessionInv, TokenInv
<1> QED BY <1>1, SessionHolds, PTL

-----------------------------------------------------------------------------
(* A customer's page.  Its calls are the only ones of the tab, and none is *)
(* refused for its session.                                                *)
HeldFields == {"tenant", "owner", "record", "stock", "visit", "taken", "offered", "mine"}

IsHeld(h) == h = [f \in HeldFields |-> h[f]]

Answered == {"sent", "done", "no", "bad", "broken"}
AskedOnly == \A k \in Slots: calls[k].kind \in WithNothing => calls[k].st \in Answered

\* The hours shown are of the day picked, while answers come one at a time.
HoursInv ==
    /\ \A k \in Slots: calls[k].kind = "slots" =>
           /\ calls[k].st = "done" => \A h \in calls[k].result: <<calls[k].body[1], h>> \in held.offered
           /\ ~page.agenda.mixed => calls[k].body[1] = page.agenda.day
    /\ ~page.agenda.mixed =>
           /\ "slots" \notin page.busy => \A h \in page.agenda.slots: <<page.agenda.day, h>> \in held.offered
           /\ page.agenda.slot # 0 => Picked \in held.offered

\* One confirmation is under way or none, and nothing before the details have come.
BookInv ==
    /\ held.mine = {} \/ (held.visit # "PROPOSED" /\ \E b: held.mine = {b})
    /\ held.mine # {} => \/ page.shown = "done" \/ "book" \in wizard.unheard
                         \/ \E k \in Slots: calls[k].kind = "book" /\ calls[k].st = "done"
    /\ page.shown = "done" => held.mine # {}
    /\ page.shown = "error" => held.mine = {} \/ "book" \in wizard.unheard
    /\ \A k \in Slots: calls[k].kind = "book" =>
           /\ page.shown = "content"
           /\ calls[k].st = "done" => held.mine # {}
    /\ \A k \in Slots: calls[k].kind = "details" =>
           /\ page.loading /\ held.mine = {} /\ \A j \in Slots \ {k}: calls[j].kind = "none"

AgendaInv == /\ IsHeld(held)
             /\ AtAgenda => AskedOnly /\ HoursInv /\ BookInv

\* The customer's page is where the tab was opened, or never.
LEMMA PersonNeverOpens == ASSUME IsPage(page), PageInv, Person, page'.at = "public" PROVE page.at = "public"
<1> USE DEF IsPage, PageFields
<1>p. ASSUME NEW kind, NEW draft, NEW body, Press(kind, draft, body) PROVE page.at = "public"
  BY <1>p DEF Press, Show
<1>1. CASE PressLogin \/ PressLogout \/ Reload \/ \E k \in Slots: AnswerPrompt(k)
  BY <1>1 DEF PressLogin, PressLogout, Reload, AnswerPrompt, Screen, LoginScreen
<1>2. CASE \E at \in left.screens: Open(at)
  <2>1. PICK at \in Screens: Open(at)
    BY <1>2 DEF PageInv, ScreenInv, PageShape
  <2>2. PICK new: new = Screen(at)
    OBVIOUS
  <2>3. page' = new \/ \E x: page' = [new EXCEPT !.loading = TRUE, !.shown = x]
    BY <2>1, <2>2 DEF Open, Show
  <2>4. IsPage(new) /\ new.at = at
    BY <2>2, ScreenIs
  <2>5. page'.at = at
    BY <2>3, <2>4
  <2> QED BY <2>5, AtScreen
<1>3. CASE \/ \E c \in Cols: TypeField(c)
           \/ \E b \in Boxes: TypeText(b)
           \/ \E kind \in {"edit", "create"}: OpenModal(kind)
           \/ CloseModal
  BY <1>3 DEF TypeField, TypeText, OpenModal, CloseModal, Show
<1>4. CASE \/ SaveAssignment \/ SaveProperty \/ CreateProperty \/ SaveConfig
           \/ AddNote \/ SendReply \/ CreatePerson
           \/ \E b \in left.buttons: PressButton(b)
  BY <1>4, <1>p DEF SaveAssignment, SaveProperty, CreateProperty, SaveConfig, AddNote, SendReply, CreatePerson,
                    PressButton
<1>5. CASE PressCreateTenant \/ RetryBootstrap \/ RetryLogin \/ ToStep2 \/ PressImport
  BY <1>5 DEF PressCreateTenant, RetryBootstrap, RetryLogin, Retry, ToStep2, PressImport, Show
<1>6. CASE ToStep3 \/ SaveWizardConfig \/ UploadPhoto
  BY <1>6 DEF ToStep3, SaveWizardConfig, UploadPhoto, Show
<1>7. CASE (\E d \in Days: PickDay(d)) \/ (\E h \in Hours: PickSlot(h)) \/ PressBook
  BY <1>7 DEF PickDay, PickSlot, PressBook, Choosing, AtAgenda
<1> QED BY <1>1, <1>2, <1>3, <1>4, <1>5, <1>6, <1>7 DEF Person

LEMMA AnswerNeverOpens ==
    ASSUME IsPage(page), PageInv, NEW k \in Slots, Deliver(k), page'.at = "public"
    PROVE  page.at = "public"
<1> USE DEF IsPage, PageFields, Show
<1>0. Lives(calls[k])
  BY DEF PageInv, CallInv, Fits
<1>a. ASSUME NEW ok, AgendaAnswered(k, ok) PROVE page.at = "public"
  BY <1>a DEF AgendaAnswered, DetailsAnswered, SlotsAnswered, BookAnswered
<1>t. ASSUME ToLogin(k) PROVE page.at = "public"
  BY <1>t DEF ToLogin, LoginScreen, Screen
<1>s. ASSUME Suppressed(k) PROVE page.at = "public"
  BY <1>s DEF Suppressed, Screen
<1>1. CASE ScreenError(k)
  <2>1. PICK ok: ok = FALSE
    OBVIOUS
  <2>2. CASE AgendaAnswered(k, ok)
    BY <1>a, <2>2
  <2>3. CASE LoadFailed(k) \/ page' = page \/ Failed(k)
    BY <2>3 DEF LoadFailed, Failed
  <2> QED BY <1>1, <2>1, <2>2, <2>3 DEF ScreenError
<1>2. CASE ScreenOk(k) /\ calls[k].st = "done"
  <2>1. CASE calls[k].alive = "gone"
    BY <1>2, <1>s, <2>1 DEF ScreenOk, Unmounted
  <2>2. CASE calls[k].alive # "gone"
    <3>1. CASE Loaded(k) \/ AssignmentSaved(k) \/ ConfigSaved(k) \/ CloseAndFetch(k)
      BY <3>1 DEF Loaded, AssignmentSaved, ConfigSaved, CloseAndFetch
    <3>2. CASE NoteAdded(k) \/ FetchLead(k) \/ FetchPeople(k) \/ LeadUpdated(k) \/ FetchStock(k)
      BY <3>2 DEF NoteAdded, FetchLead, FetchPeople, LeadUpdated, FetchStock, Screen
    <3>3. CASE VisitUpdated(k) \/ PhotoUploaded(k)
      BY <3>3 DEF VisitUpdated, PhotoUploaded
    <3>4. PICK kd: kd = calls[k].kind
      OBVIOUS
    <3>5. AfterOk(k) /\ OfAScreen(k) /\ calls[k].st = "done"
      BY <1>2, <2>2 DEF ScreenOk
    <3>6. \/ Loaded(k) \/ AssignmentSaved(k) \/ ConfigSaved(k) \/ CloseAndFetch(k)
          \/ NoteAdded(k) \/ FetchLead(k) \/ FetchPeople(k) \/ LeadUpdated(k) \/ FetchStock(k)
          \/ Suppressed(k) \/ VisitUpdated(k) \/ PhotoUploaded(k) \/ \E ok: AgendaAnswered(k, ok)
      BY <1>0, <2>2, <3>4, <3>5, AfterOkIs
    <3> QED BY <1>a, <1>s, <3>1, <3>2, <3>3, <3>6
  <2> QED BY <2>1, <2>2
<1>3. CASE AuthOk(k)
  BY <1>3, <1>t DEF AuthOk, LoginAnswered, MeAnswered, LogoutEnded, Screen
<1>4. CASE AuthError(k)
  BY <1>4, <1>t DEF AuthError, LoginFailed, LogoutEnded
<1>5. CASE WizardOk(k) \/ WizardError(k)
  BY <1>5 DEF WizardOk, WizardError
<1>6. ASSUME NEW ok, ReadinessEnded(k, ok) PROVE page.at = "public"
  BY <1>6 DEF ReadinessEnded, ReadinessAnswered
<1>7. PICK yes, no: yes = TRUE /\ no = FALSE
  OBVIOUS
<1>8. CASE ReadinessEnded(k, yes) \/ ReadinessEnded(k, no)
  BY <1>6, <1>8
<1>9. CASE Deliver401(k)
  BY <1>9, <1>t DEF Deliver401, SignedOut
<1> QED BY <1>1, <1>2, <1>3, <1>4, <1>5, <1>7, <1>8, <1>9 DEF Deliver, DeliverOk, DeliverError

LEMMA NeverOpened == ASSUME PageInv, [Next]_vars, page'.at = "public" PROVE page.at = "public"
<1>0. IsPage(page)
  BY DEF PageInv, ScreenInv, PageShape
<1>1. CASE page' = page
  BY <1>1
<1>2. CASE Person
  BY <1>0, <1>2, PersonNeverOpens
<1>3. CASE \E k \in Slots: Deliver(k)
  BY <1>0, <1>3, AnswerNeverOpens
<1>4. World => page' = page
  BY DEF World, SessionEnds, OthersVisits, OthersSave
<1>5. \A k \in Slots: Serve(k) \/ Lose(k) => page' = page
  BY DEF Serve, Lose
<1>6. UNCHANGED vars => page' = page
  BY DEF vars
<1> QED BY <1>1, <1>2, <1>3, <1>4, <1>5, <1>6 DEF Next

\* Nothing the person does is the server's doing.
LEMMA PersonKeepsServer == ASSUME Person PROVE UNCHANGED server_vars
<1> USE DEF server_vars
<1>p. ASSUME NEW kind, NEW draft, NEW body, Press(kind, draft, body) PROVE UNCHANGED server_vars
  BY <1>p DEF Press
<1>1. CASE PressLogin \/ PressLogout \/ Reload \/ \E k \in Slots: AnswerPrompt(k)
  BY <1>1 DEF PressLogin, PressLogout, Reload, AnswerPrompt
<1>2. CASE \/ \E at \in left.screens: Open(at)
           \/ \E c \in Cols: TypeField(c)
           \/ \E b \in Boxes: TypeText(b)
           \/ \E kind \in {"edit", "create"}: OpenModal(kind)
           \/ CloseModal
  BY <1>2 DEF Open, TypeField, TypeText, OpenModal, CloseModal
<1>3. CASE \/ SaveAssignment \/ SaveProperty \/ CreateProperty \/ SaveConfig
           \/ AddNote \/ SendReply \/ CreatePerson
           \/ \E b \in left.buttons: PressButton(b)
  BY <1>3, <1>p DEF SaveAssignment, SaveProperty, CreateProperty, SaveConfig, AddNote, SendReply,
                    CreatePerson, PressButton
<1>4. CASE PressCreateTenant \/ RetryBootstrap \/ RetryLogin \/ ToStep2 \/ PressImport
  BY <1>4 DEF PressCreateTenant, RetryBootstrap, RetryLogin, Retry, ToStep2, PressImport
<1>5. CASE ToStep3 \/ SaveWizardConfig \/ UploadPhoto
  BY <1>5 DEF ToStep3, SaveWizardConfig, UploadPhoto
<1>6. CASE (\E d \in Days: PickDay(d)) \/ (\E h \in Hours: PickSlot(h)) \/ PressBook
  BY <1>6 DEF PickDay, PickSlot, PressBook
<1> QED BY <1>1, <1>2, <1>3, <1>4, <1>5, <1>6 DEF Person

\* What a call of the agenda does to what the server holds.
LEMMA HoldingIs ==
    ASSUME IsHeld(held), NEW c, NEW h, h = Holding(c)
    PROVE  /\ IsHeld(h)
           /\ c.kind \in WithNothing => h = Visited(c)
<1>1. c.kind \in WithNothing => h = Visited(c)
  BY DEF Holding, WithNothing
<1>2. IsHeld(Visited(c))
  BY DEF Visited, IsHeld, HeldFields
<1>3. h \in {TenantInserted, OwnerInserted, [held EXCEPT !.record = FALSE], [held EXCEPT !.stock = TRUE], held}
      \/ h = Visited(c)
  BY DEF Holding
<1>4. /\ IsHeld(TenantInserted) /\ IsHeld(OwnerInserted) /\ IsHeld([held EXCEPT !.record = FALSE])
      /\ IsHeld([held EXCEPT !.stock = TRUE])
  BY DEF TenantInserted, OwnerInserted, IsHeld, HeldFields
<1> QED BY <1>1, <1>2, <1>3, <1>4

LEMMA HeldStep == ASSUME IsHeld(held), [Next]_vars PROVE IsHeld(held')
<1>1. CASE held' = held
  BY <1>1
<1>2. Person \/ UNCHANGED vars => held' = held
  BY PersonKeepsServer DEF server_vars, vars
<1>3. CASE World
  BY <1>3 DEF World, SessionEnds, OthersVisits, OthersSave, server_vars, IsHeld, HeldFields
<1>4. ASSUME NEW k \in Slots, Serve(k) PROVE IsHeld(held')
  <2>1. held' = held \/ held' = Holding(calls[k])
    BY <1>4 DEF Serve, ServeOk, Apply, ServeDropped, ServeNo, Serve401, Refuse, server_vars
  <2> QED BY <2>1, HoldingIs
<1>5. \A k \in Slots: Deliver(k) \/ Lose(k) => held' = held
  BY DEF Deliver, DeliverOk, DeliverError, Deliver401, Lose, server_vars
<1> QED BY <1>1, <1>2, <1>3, <1>4, <1>5 DEF Next

\* What there is to press on a customer's page.
LEMMA PersonAtAgenda ==
    ASSUME PageInv, AtAgenda, Person
    PROVE  (\E d \in Days: PickDay(d)) \/ (\E h \in Hours: PickSlot(h)) \/ PressBook
           \/ \E k \in Slots: AnswerPrompt(k)
<1>0. page.at = "public" /\ session = Nobody
  BY DEF PageInv, ScreenInv, Public, AtAgenda
<1>1. ~PressLogin /\ ~PressLogout /\ ~Reload
  BY <1>0 DEF PressLogin, PressLogout, Reload
<1>2. /\ \A at: ~Open(at)
      /\ \A c: ~TypeField(c)
      /\ \A b: ~TypeText(b)
      /\ \A kind: ~OpenModal(kind)
      /\ ~CloseModal
  BY <1>0 DEF Open, TypeField, Editing, OfALead, TypeText, Screens, OpenModal, CloseModal, On
<1>3. /\ ~SaveAssignment /\ ~SaveProperty /\ ~CreateProperty /\ ~SaveConfig
      /\ ~AddNote /\ ~SendReply /\ ~CreatePerson
      /\ \A b: ~PressButton(b)
  BY <1>0 DEF SaveAssignment, SaveProperty, CreateProperty, SaveConfig, AddNote, SendReply,
              CreatePerson, PressButton, OnALead, On
<1>4. /\ ~PressCreateTenant /\ ~RetryBootstrap /\ ~RetryLogin /\ ~ToStep2 /\ ~PressImport
      /\ ~ToStep3 /\ ~SaveWizardConfig /\ ~UploadPhoto
  BY <1>0 DEF PressCreateTenant, RetryBootstrap, RetryLogin, Retry, ToStep2, PressImport, ToStep3,
              SaveWizardConfig, UploadPhoto, AtWizard, On
<1> QED BY <1>1, <1>2, <1>3, <1>4 DEF Person

\* And what an answer does there.
LEMMA DeliverAtAgenda ==
    ASSUME PageInv, AtAgenda, AskedOnly, NEW k \in Slots, Deliver(k), NEW ok, ok = (calls[k].st = "done")
    PROVE  /\ calls[k].kind \in WithNothing /\ AgendaAnswered(k, ok)
           /\ UNCHANGED <<stored, session, wizard, held>> /\ calls[k].st \in Answered \ {"sent"}
<1>0. Fits(calls[k], page) /\ page.at = "public"
  BY DEF PageInv, CallInv, AtAgenda
<1>1. calls[k].st \in {"done", "no", "bad", "broken", "401"}
  BY DEF Deliver, DeliverOk, DeliverError, Deliver401
<1>2. calls[k].kind \in WithNothing
  BY <1>0, <1>1, FreeCall DEF Fits, Lives
<1>3. /\ calls[k].kind \notin WithPassword \cup WithMasterKey \cup ReadinessCalls \cup {"me", "logout", "login"}
      /\ calls[k].kind \notin Loads /\ calls[k].kind # "suppress"
  BY <1>2, LoadKinds DEF WithNothing, WithPassword, WithMasterKey, ReadinessCalls
<1>4. calls[k].st \in Answered \ {"sent"} /\ calls[k].st # "401" /\ calls[k].alive = "form"
  BY <1>0, <1>1, <1>2 DEF AskedOnly, Answered, Fits, Lives, Anchored
<1>5. CASE DeliverOk(k)
  <2>1. PICK yes: yes = TRUE
    OBVIOUS
  <2>2. ScreenOk(k)
    BY <1>3, <1>5 DEF DeliverOk, AuthOk, WizardOk, ReadinessEnded, WithPassword, WithMasterKey
  <2>3. AfterOk(k)
    BY <1>4, <2>2 DEF ScreenOk
  <2>4. calls[k].kind \in {"details", "slots", "book"}
    BY <1>2 DEF WithNothing
  <2>5. AgendaAnswered(k, TRUE)
    BY <1>3, <2>3, <2>4 DEF AfterOk, WithNothing
  <2>6. ok = TRUE
    BY <1>5 DEF DeliverOk
  <2>7. AgendaAnswered(k, ok)
    BY <2>5, <2>6
  <2> QED BY <1>2, <1>4, <1>5, <2>2, <2>7 DEF DeliverOk, ScreenOk, server_vars
<1>6. CASE DeliverError(k)
  <2>2. ScreenError(k)
    BY <1>3, <1>6 DEF DeliverError, AuthError, WizardError, ReadinessEnded, WithPassword, WithMasterKey
  <2>3. ok = FALSE
    BY <1>6 DEF DeliverError
  <2>4. AgendaAnswered(k, FALSE)
    BY <1>2, <2>2 DEF ScreenError
  <2>5. AgendaAnswered(k, ok)
    BY <2>3, <2>4
  <2> QED BY <1>2, <1>4, <1>6, <2>2, <2>5 DEF DeliverError, ScreenError, server_vars
<1> QED BY <1>4, <1>5, <1>6 DEF Deliver, Deliver401

LEMMA ServeAtAgenda ==
    ASSUME PageInv, AtAgenda, IsHeld(held), NEW k \in Slots, Serve(k)
    PROVE  /\ calls[k].kind \in WithNothing /\ UNCHANGED <<page, wizard>>
           /\ \E c: /\ IsCall(c) /\ calls' = [calls EXCEPT ![k] = c]
                    /\ c.kind = calls[k].kind /\ c.body = calls[k].body
                    /\ \/ c.st \in {"no", "bad"} /\ held' = held
                       \/ /\ c.st = "done" /\ StillProposed /\ held' = Visited(calls[k])
                          /\ c.kind = "slots" => c.result = getAvailableSlots(c.body[1])
<1>0. Fits(calls[k], page) /\ page.at = "public" /\ IsCall(calls[k]) /\ calls[k].st = "sent"
  BY DEF PageInv, CallInv, AtAgenda, Shape, Serve
<1>1. calls[k].kind \in WithNothing
  BY <1>0, FreeCall DEF Fits, Lives
<1>2. /\ calls[k].kind \notin WithPassword \cup OfTheRecord \cup WithToken
      /\ calls[k].kind \notin {"newPerson", "tenant", "bootstrap", "ownerLogin", "login", "config"}
      /\ calls[k].alive = "form"
  BY <1>0, <1>1 DEF WithNothing, WithPassword, OfTheRecord, LeadCalls, WithToken, PersonCalls, QueueCalls,
         PropertyCalls, AppointmentCalls, ConfigCalls, ReadinessCalls, PushCalls, Fits, Lives, Anchored
<1>3. Accepts(calls[k]) => StillProposed
  BY <1>1, <1>2 DEF Accepts
<1>4. UNCHANGED <<page, wizard>>
  BY DEF Serve
<1>5. CASE ServeOk(k)
  <2>1. StillProposed /\ held' = Visited(calls[k])
    BY <1>1, <1>3, <1>5, HoldingIs DEF ServeOk, Apply
  <2>2. PICK result: result = Result(calls[k])
    OBVIOUS
  <2>3. calls[k].kind = "slots" => result = getAvailableSlots(calls[k].body[1])
    BY <1>2, <2>2 DEF Result, WithPassword
  <2>4. PICK c: c = [calls[k] EXCEPT !.st = "done", !.result = result]
    OBVIOUS
  <2>5. IsCall(c) /\ c.kind = calls[k].kind /\ c.body = calls[k].body /\ c.st = "done" /\ c.result = result
    BY <1>0, <2>4 DEF IsCall, CallFields
  <2>6. calls' = [calls EXCEPT ![k] = c]
    BY <1>5, <2>2, <2>4 DEF ServeOk, Apply, PageInv, Shape
  <2> QED BY <1>1, <1>4, <2>1, <2>3, <2>5, <2>6
<1>6. CASE ServeNo(k) \/ Serve401(k)
  <2>1. ~Serve401(k)
    BY <1>2 DEF Serve401, Admitted
  <2>2. PICK status \in {"no", "bad"}: Refuse(k, status)
    BY <1>6, <2>1 DEF ServeNo
  <2>3. PICK c: c = [calls[k] EXCEPT !.st = status]
    OBVIOUS
  <2>4. IsCall(c) /\ c.kind = calls[k].kind /\ c.body = calls[k].body /\ c.st = status
    BY <1>0, <2>3 DEF IsCall, CallFields
  <2>5. calls' = [calls EXCEPT ![k] = c] /\ held' = held
    BY <1>2, <2>2, <2>3 DEF Refuse, Unsent, server_vars, PageInv, Shape
  <2> QED BY <1>1, <1>4, <2>4, <2>5
<1>7. ~ServeDropped(k)
  BY <1>2 DEF ServeDropped
<1> QED BY <1>5, <1>6, <1>7 DEF Serve

LEMMA AgendaFieldsAre ==
    ASSUME PageInv
    PROVE  IsPage(page) /\ page.agenda = [f \in AgendaFields |-> page.agenda[f]] /\ IsWizard(wizard) /\ Shape
  BY DEF PageInv, ScreenInv, PageShape, IsPage, Shape

LEMMA AgendaStart == Init => AgendaInv
<1> SUFFICES ASSUME Init PROVE AgendaInv
  OBVIOUS
<1>1. /\ IsHeld(held) /\ held.mine = {}
  BY DEF Init, IsHeld, HeldFields
<1>2. PICK first: first = AskDetails
  OBVIOUS
<1>3. /\ IsCall(first) /\ first.kind = "details" /\ first.st = "sent"
  BY <1>2 DEF AskDetails, Call, Free, IsCall, CallFields
<1>4. \A k \in Slots: calls[k] = Free \/ (calls[k] = first /\ k = 1)
  BY <1>2 DEF Init
<1>5. ASSUME AtAgenda PROVE page.loading /\ page.shown = "content" /\ page.agenda = NothingPicked
  <2>1. left.at = "public"
    <3>1. left.at \in {"login", "wizard", "public"}
      BY PlansAssumption DEF Init
    <3>2. ASSUME left.at = "login" PROVE FALSE
      <4>1. page = LoginScreen
        BY <3>2 DEF Init
      <4> QED BY <1>5, <4>1 DEF AtAgenda, LoginScreen, Screen
    <3>3. ASSUME left.at = "wizard" PROVE FALSE
      <4>1. page = Screen("wizard")
        BY <3>3 DEF Init
      <4> QED BY <1>5, <4>1 DEF AtAgenda, Screen
    <3> QED BY <3>1, <3>2, <3>3
  <2>2. page = AgendaPage
    BY <2>1 DEF Init
  <2> QED BY <2>2 DEF AgendaPage, Screen
<1>6. ASSUME AtAgenda PROVE AskedOnly /\ HoursInv /\ BookInv
  <2>1. AskedOnly
    BY <1>3, <1>4, FreeCall DEF AskedOnly, Answered, WithNothing
  <2>2. HoursInv
    BY <1>3, <1>4, <1>5, <1>6, FreeCall DEF HoursInv, NothingPicked
  <2>3. BookInv
    BY <1>1, <1>3, <1>4, <1>5, <1>6, FreeCall DEF BookInv
  <2> QED BY <2>1, <2>2, <2>3
<1> QED BY <1>1, <1>6 DEF AgendaInv

LEMMA PickDayKeeps ==
    ASSUME PageInv, AtAgenda, AgendaInv, NEW d \in Days, PickDay(d)
    PROVE  AskedOnly' /\ HoursInv' /\ BookInv'
<1>1. PICK kind: kind = "slots"
  OBVIOUS
<1>2. PICK body: body = <<d>>
  OBVIOUS
<1>3. PICK c: c = Call(kind, Nobody, NoDraft, body)
  OBVIOUS
<1>4. IsCall(c) /\ c.kind = "slots" /\ c.st = "sent" /\ c.body[1] = d
  BY <1>1, <1>2, <1>3, CallIs
<1>5. /\ Send(c) /\ UNCHANGED <<wizard, held>> /\ Choosing
      /\ page' = [page EXCEPT !.agenda.day = d, !.agenda.slot = 0, !.agenda.mixed = Asking,
                              !.busy = @ \cup {"slots"}]
  BY <1>1, <1>2, <1>3 DEF PickDay, Show, server_vars
<1>6. PICK n \in Slots: /\ calls[n] = Free /\ calls'[n] = c
                        /\ \A k \in Slots \ {n}: calls'[k] = calls[k]
  BY <1>4, <1>5, SendIs DEF PageInv
<1>7. /\ page'.shown = page.shown /\ page'.loading = page.loading /\ "slots" \in page'.busy
      /\ page'.agenda.slot = 0 /\ page'.agenda.day = d /\ page'.agenda.mixed = Asking
  BY <1>5, AgendaFieldsAre DEF IsPage, PageFields, AgendaFields
<1>8. AskedOnly'
  BY <1>4, <1>6 DEF AgendaInv, AskedOnly, Answered
<1>9. HoursInv'
  BY <1>4, <1>5, <1>6, <1>7 DEF AgendaInv, HoursInv, Asking
<1>10. BookInv'
  <2>1. \A k \in Slots: calls[k].kind # "details"
    BY <1>5 DEF AgendaInv, BookInv, Choosing
  <2>2. \A k \in Slots: (calls[k].kind = "book" <=> calls'[k].kind = "book") /\ calls'[k].kind # "details"
                        /\ (calls[k].kind = "book" => calls'[k] = calls[k])
    BY <1>4, <1>6, <2>1, FreeCall
  <2>3. UNCHANGED <<held, wizard>> /\ page'.shown = page.shown
    BY <1>5, <1>7
  <2> QED BY <2>2, <2>3 DEF AgendaInv, BookInv
<1> QED BY <1>8, <1>9, <1>10

LEMMA PressBookKeeps ==
    ASSUME PageInv, AtAgenda, AgendaInv, PressBook
    PROVE  AskedOnly' /\ HoursInv' /\ BookInv'
<1>1. PICK kind: kind = "book"
  OBVIOUS
<1>3. PICK c: c = Call(kind, Nobody, NoDraft, Picked)
  OBVIOUS
<1>4. IsCall(c) /\ c.kind = "book" /\ c.st = "sent"
  BY <1>1, <1>3, CallIs
<1>5. /\ Send(c) /\ UNCHANGED <<wizard, held>> /\ Choosing /\ page' = [page EXCEPT !.busy = @ \cup {"book"}]
  BY <1>1, <1>3 DEF PressBook, Show, server_vars
<1>6. PICK n \in Slots: /\ calls[n] = Free /\ calls'[n] = c
                        /\ \A k \in Slots \ {n}: calls'[k] = calls[k]
  BY <1>4, <1>5, SendIs DEF PageInv
<1>7. /\ page'.shown = page.shown /\ page'.loading = page.loading /\ page'.busy = page.busy \cup {"book"}
      /\ page'.agenda = page.agenda
  BY <1>5, AgendaFieldsAre DEF IsPage, PageFields
<1>8. AskedOnly'
  BY <1>4, <1>6 DEF AgendaInv, AskedOnly, Answered
<1>9. HoursInv'
  BY <1>4, <1>5, <1>6, <1>7 DEF AgendaInv, HoursInv, Picked
<1>10. BookInv'
  <2>1. \A k \in Slots: calls[k].kind # "details"
    BY <1>5 DEF AgendaInv, BookInv, Choosing
  <2>2. \A k \in Slots: /\ calls'[k].kind # "details"
                        /\ calls[k].kind = "book" => calls'[k] = calls[k]
                        /\ calls'[k].kind = "book" => calls'[k].st = "sent" \/ calls'[k] = calls[k]
    BY <1>4, <1>6, <2>1, FreeCall
  <2>3. UNCHANGED <<held, wizard>> /\ page'.shown = page.shown /\ page.shown = "content"
    BY <1>5, <1>7 DEF Choosing
  <2> QED BY <2>2, <2>3 DEF AgendaInv, BookInv
<1> QED BY <1>8, <1>9, <1>10

LEMMA PickSlotKeeps ==
    ASSUME PageInv, AtAgenda, AgendaInv, NEW h \in Hours, PickSlot(h)
    PROVE  AskedOnly' /\ HoursInv' /\ BookInv'
<1>1. /\ UNCHANGED <<calls, wizard, held>> /\ page' = [page EXCEPT !.agenda.slot = h]
      /\ "slots" \notin page.busy /\ h \in page.agenda.slots
  BY DEF PickSlot, Show, server_vars
<1>2. /\ page'.shown = page.shown /\ page'.loading = page.loading /\ page'.busy = page.busy
      /\ page'.agenda.day = page.agenda.day /\ page'.agenda.slot = h
      /\ page'.agenda.slots = page.agenda.slots /\ page'.agenda.mixed = page.agenda.mixed
  BY <1>1, AgendaFieldsAre DEF IsPage, PageFields, AgendaFields
<1>3. AskedOnly'
  BY <1>1 DEF AgendaInv, AskedOnly
<1>4. HoursInv'
  BY <1>1, <1>2 DEF AgendaInv, HoursInv, Picked
<1>5. BookInv'
  BY <1>1, <1>2 DEF AgendaInv, BookInv
<1> QED BY <1>3, <1>4, <1>5

\* What others do: an hour is taken, or the visit is confirmed or closed elsewhere.
LEMMA WorldKeepsAgenda ==
    ASSUME AtAgenda, AgendaInv, World
    PROVE  AskedOnly' /\ HoursInv' /\ BookInv'
<1>1. /\ UNCHANGED <<calls, page, wizard>> /\ held'.mine = held.mine /\ held'.offered = held.offered
      /\ held'.visit = held.visit \/ held'.visit = "ELSEWHERE"
  BY DEF World, SessionEnds, OthersVisits, OthersSave, server_vars, AgendaInv, IsHeld, HeldFields
<1>2. AskedOnly' /\ HoursInv'
  BY <1>1 DEF AgendaInv, AskedOnly, HoursInv, Picked
<1>3. BookInv'
  BY <1>1 DEF AgendaInv, BookInv
<1> QED BY <1>2, <1>3

LEMMA ServeKeepsAgenda ==
    ASSUME PageInv, AtAgenda, AgendaInv, NEW k \in Slots, Serve(k)
    PROVE  AskedOnly' /\ HoursInv' /\ BookInv'
<1>0. calls[k].kind \in WithNothing /\ UNCHANGED <<page, wizard>> /\ IsHeld(held) /\ calls[k].st = "sent"
  BY ServeAtAgenda DEF AgendaInv, Serve
<1>1. PICK c: /\ IsCall(c) /\ calls' = [calls EXCEPT ![k] = c]
              /\ c.kind = calls[k].kind /\ c.body = calls[k].body
              /\ \/ c.st \in {"no", "bad"} /\ held' = held
                 \/ /\ c.st = "done" /\ StillProposed /\ held' = Visited(calls[k])
                    /\ c.kind = "slots" => c.result = getAvailableSlots(c.body[1])
  BY <1>0, ServeAtAgenda
<1>2. calls'[k] = c /\ \A j \in Slots \ {k}: calls'[j] = calls[j]
  BY <1>1, OneSlot DEF PageInv
<1>3. AskedOnly'
  BY <1>1, <1>2 DEF AgendaInv, AskedOnly, Answered
<1>4. CASE held' = held /\ c.st \in {"no", "bad"}
  <2>1. HoursInv'
    BY <1>0, <1>1, <1>2, <1>4 DEF AgendaInv, HoursInv, Picked
  <2>2. BookInv'
    <3>1. \A j \in Slots: calls'[j].kind = calls[j].kind /\ (calls'[j].st = "done" => calls'[j] = calls[j])
                          /\ (calls[j].st = "done" => calls'[j] = calls[j])
      BY <1>0, <1>1, <1>2, <1>4
    <3> QED BY <1>0, <1>4, <3>1 DEF AgendaInv, BookInv
  <2> QED BY <1>3, <2>1, <2>2
<1>5. CASE /\ c.st = "done" /\ StillProposed /\ held' = Visited(calls[k])
           /\ c.kind = "slots" => c.result = getAvailableSlots(c.body[1])
  <2>1. CASE c.kind = "slots"
    <3>1. /\ held'.mine = held.mine /\ held'.visit = held.visit
          /\ held'.offered = held.offered \cup ({c.body[1]} \X getAvailableSlots(c.body[1]))
      BY <1>0, <1>1, <1>5, <2>1 DEF Visited, IsHeld, HeldFields
    <3>2. \A h \in c.result: <<c.body[1], h>> \in held'.offered
      BY <1>5, <2>1, <3>1
    <3>3. HoursInv'
      BY <1>0, <1>1, <1>2, <3>1, <3>2 DEF AgendaInv, HoursInv, Picked
    <3>4. BookInv'
      <4>1. \A j \in Slots: calls'[j].kind = calls[j].kind /\ (calls[j].kind = "book" => calls'[j] = calls[j])
        BY <1>1, <1>2, <2>1
      <4> QED BY <1>0, <3>1, <4>1 DEF AgendaInv, BookInv
    <3> QED BY <1>3, <3>3, <3>4
  <2>2. CASE c.kind = "book"
    <3>1. /\ held'.mine = held.mine \cup {calls[k].body} /\ held'.visit = "CONFIRMED"
          /\ held'.offered = held.offered
      BY <1>0, <1>1, <1>5, <2>2 DEF Visited, IsHeld, HeldFields
    <3>2. HoursInv'
      BY <1>0, <1>1, <1>2, <2>2, <3>1 DEF AgendaInv, HoursInv, Picked
    <3>3. held.mine = {}
      BY <1>5 DEF AgendaInv, BookInv, StillProposed
    <3>4. held'.mine = {calls[k].body} /\ held'.mine # {}
      BY <3>1, <3>3
    <3>5. page.shown = "content"
      BY <1>1, <2>2 DEF AgendaInv, BookInv
    <3>6. \A j \in Slots: calls[j].kind # "details"
      BY <1>1, <2>2 DEF AgendaInv, BookInv
    <3>7. \A j \in Slots: calls'[j].kind = calls[j].kind
      BY <1>1, <1>2
    <3>8. BookInv'
      <4>1. held'.mine = {} \/ (held'.visit # "PROPOSED" /\ \E b: held'.mine = {b})
        BY <3>1, <3>4
      <4>2. calls'[k].kind = "book" /\ calls'[k].st = "done"
        BY <1>2, <1>5, <2>2
      <4> QED BY <1>0, <3>4, <3>5, <3>6, <3>7, <4>1, <4>2 DEF BookInv
    <3> QED BY <1>3, <3>2, <3>8
  <2>3. CASE c.kind = "details"
    <3>1. held' = held
      BY <1>1, <1>5, <2>3 DEF Visited
    <3>2. HoursInv'
      BY <1>0, <1>1, <1>2, <2>3, <3>1 DEF AgendaInv, HoursInv, Picked
    <3>3. BookInv'
      <4>1. \A j \in Slots: calls'[j].kind = calls[j].kind /\ (calls[j].kind = "book" => calls'[j] = calls[j])
        BY <1>1, <1>2, <2>3
      <4> QED BY <1>0, <3>1, <4>1 DEF AgendaInv, BookInv
    <3> QED BY <1>3, <3>2, <3>3
  <2> QED BY <1>0, <1>1, <2>1, <2>2, <2>3 DEF WithNothing
<1> QED BY <1>1, <1>4, <1>5

LEMMA LoseKeepsAgenda ==
    ASSUME PageInv, AtAgenda, AgendaInv, NEW k \in Slots, Lose(k)
    PROVE  AskedOnly' /\ HoursInv' /\ BookInv'
<1>1. PICK c: c = [calls[k] EXCEPT !.st = "broken"]
  OBVIOUS
<1>2. IsCall(c) /\ c.kind = calls[k].kind /\ c.body = calls[k].body /\ c.st = "broken"
  BY <1>1 DEF PageInv, Shape, IsCall, CallFields
<1>3. /\ calls' = [calls EXCEPT ![k] = c] /\ UNCHANGED <<page, held>>
      /\ \/ wizard' = wizard
         \/ wizard' = [wizard EXCEPT !.unheard = @ \cup {calls[k].kind}]
      /\ calls[k].st = "done" /\ calls[k].kind = "book" =>
             wizard' = [wizard EXCEPT !.unheard = @ \cup {calls[k].kind}]
  BY <1>1 DEF Lose, server_vars, PageInv, Shape
<1>4. calls'[k] = c /\ \A j \in Slots \ {k}: calls'[j] = calls[j]
  BY <1>2, <1>3, OneSlot DEF PageInv
<1>5. /\ wizard.unheard \subseteq wizard'.unheard
      /\ calls[k].st = "done" /\ calls[k].kind = "book" => "book" \in wizard'.unheard
  BY <1>3, AgendaFieldsAre DEF IsWizard, WizardFields
<1>6. AskedOnly'
  BY <1>2, <1>4 DEF AgendaInv, AskedOnly, Answered
<1>7. HoursInv'
  BY <1>2, <1>3, <1>4 DEF AgendaInv, HoursInv, Picked
<1>8. BookInv'
  BY <1>2, <1>3, <1>4, <1>5 DEF AgendaInv, BookInv
<1> QED BY <1>6, <1>7, <1>8

LEMMA DeliverKeepsAgenda ==
    ASSUME PageInv, AtAgenda, AgendaInv, NEW k \in Slots, Deliver(k)
    PROVE  AskedOnly' /\ HoursInv' /\ BookInv'
<1>1. PICK ok: ok = (calls[k].st = "done")
  OBVIOUS
<1>2. /\ calls[k].kind \in WithNothing /\ AgendaAnswered(k, ok)
      /\ UNCHANGED <<wizard, held>> /\ calls[k].st \in Answered \ {"sent"}
  BY <1>1, DeliverAtAgenda DEF AgendaInv
<1>3. calls' = Ended(k)
  BY <1>2 DEF AgendaAnswered, DetailsAnswered, SlotsAnswered, BookAnswered
<1>4. calls'[k] = Free /\ \A j \in Slots \ {k}: calls'[j] = calls[j]
  BY <1>3, EndedIs DEF PageInv
<1>5. \A j \in Slots: calls'[j] = Free \/ (j # k /\ calls'[j] = calls[j])
  BY <1>4
<1>6. AskedOnly'
  BY <1>5, FreeCall DEF AgendaInv, AskedOnly, WithNothing
<1>7. CASE calls[k].kind = "details" /\ DetailsAnswered(k, ok)
  <2>1. page' = [page EXCEPT !.loading = FALSE, !.shown = IF ok THEN @ ELSE "error"]
    BY <1>7 DEF DetailsAnswered, Show
  <2>2. /\ page'.shown \in {page.shown, "error"} /\ page'.agenda = page.agenda /\ page'.busy = page.busy
    BY <2>1, AgendaFieldsAre DEF IsPage, PageFields
  <2>3. held.mine = {} /\ \A j \in Slots \ {k}: calls[j].kind = "none"
    BY <1>7 DEF AgendaInv, BookInv
  <2>4. \A j \in Slots: calls'[j].kind = "none"
    BY <1>5, <2>3, FreeCall
  <2>5. HoursInv'
    BY <1>2, <2>2, <2>4 DEF AgendaInv, HoursInv, Picked
  <2>6. BookInv'
    BY <1>2, <2>2, <2>3, <2>4 DEF AgendaInv, BookInv
  <2> QED BY <1>6, <2>5, <2>6
<1>8. CASE calls[k].kind = "slots" /\ SlotsAnswered(k, ok)
  <2>1. page' = [page EXCEPT !.agenda.slots = IF ok THEN calls[k].result ELSE {}, !.busy = @ \ {"slots"}]
    BY <1>8 DEF SlotsAnswered, Show
  <2>2. /\ page'.shown = page.shown /\ page'.loading = page.loading
        /\ page'.agenda.day = page.agenda.day /\ page'.agenda.slot = page.agenda.slot
        /\ page'.agenda.mixed = page.agenda.mixed
        /\ page'.agenda.slots = IF ok THEN calls[k].result ELSE {}
    BY <2>1, AgendaFieldsAre DEF IsPage, PageFields, AgendaFields
  <2>3. ~page.agenda.mixed => \A h \in page'.agenda.slots: <<page.agenda.day, h>> \in held.offered
    BY <1>1, <1>8, <2>2 DEF AgendaInv, HoursInv
  <2>4. HoursInv'
    BY <1>2, <1>5, <2>2, <2>3, FreeCall DEF AgendaInv, HoursInv, Picked
  <2>5. BookInv'
    <3>1. \A j \in Slots: /\ calls[j].kind = "book" => calls'[j] = calls[j]
                          /\ calls'[j].kind \in {"book", "details"} => j # k /\ calls'[j] = calls[j]
      BY <1>4, <1>5, <1>8, FreeCall
    <3>2. \A j \in Slots: calls[j].kind # "details"
      BY <1>8 DEF AgendaInv, BookInv
    <3>3. UNCHANGED <<held, wizard>> /\ page'.shown = page.shown
      BY <1>2, <2>2
    <3> QED BY <3>1, <3>2, <3>3 DEF AgendaInv, BookInv
  <2> QED BY <1>6, <2>4, <2>5
<1>9. CASE calls[k].kind = "book" /\ BookAnswered(k, ok)
  <2>1. page' = [page EXCEPT !.shown = IF ok /\ @ # "error" THEN "done" ELSE "error", !.busy = @ \ {"book"}]
    BY <1>9 DEF BookAnswered, Show
  <2>2. page.shown = "content" /\ \A j \in Slots: calls[j].kind # "details"
    BY <1>9 DEF AgendaInv, BookInv
  <2>3. /\ page'.shown = (IF ok THEN "done" ELSE "error") /\ page'.agenda = page.agenda
        /\ "slots" \in page'.busy <=> "slots" \in page.busy
    BY <2>1, <2>2, AgendaFieldsAre DEF IsPage, PageFields
  <2>4. \A j \in Slots \ {k}: calls[j].kind # "book"
    <3>1. \A j \in Slots: calls[j].kind = "book" => calls[j].alive = "form"
      BY DEF PageInv, CallInv, Fits, Lives, Anchored, WithNothing
    <3> QED BY <1>9, <3>1 DEF PageInv, OneInv, Twin, Guarded
  <2>5. HoursInv'
    BY <1>2, <1>5, <2>3, FreeCall DEF AgendaInv, HoursInv, Picked
  <2>6. BookInv'
    <3>1. \A j \in Slots: calls'[j].kind \notin {"book", "details"}
      BY <1>5, <2>2, <2>4, FreeCall
    <3>2. CASE ok
      <4>1. held.mine # {} /\ page'.shown = "done"
        BY <1>1, <1>9, <2>3, <3>2 DEF AgendaInv, BookInv
      <4> QED BY <1>2, <3>1, <4>1 DEF AgendaInv, BookInv
    <3>3. CASE ~ok
      <4>1. page'.shown = "error" /\ (held.mine = {} \/ "book" \in wizard.unheard)
        BY <1>1, <2>2, <2>3, <2>4, <3>3 DEF AgendaInv, BookInv
      <4> QED BY <1>2, <3>1, <4>1 DEF AgendaInv, BookInv
    <3> QED BY <3>2, <3>3
  <2> QED BY <1>6, <2>5, <2>6
<1> QED BY <1>2, <1>7, <1>8, <1>9 DEF AgendaAnswered

LEMMA AgendaStep == ASSUME PageInv, AgendaInv, [Next]_vars PROVE AgendaInv'
<1>1. IsHeld(held')
  BY HeldStep DEF AgendaInv
<1>2. ASSUME AtAgenda' PROVE AskedOnly' /\ HoursInv' /\ BookInv'
  <2>1. AtAgenda
    BY <1>2, NeverOpened DEF AtAgenda
  <2>2. CASE UNCHANGED vars
    <3>1. UNCHANGED <<calls, page, wizard, held>>
      BY <2>2 DEF vars, server_vars
    <3> QED BY <2>1, <3>1 DEF AgendaInv, AskedOnly, HoursInv, BookInv, Picked
  <2>3. CASE Person
    <3>1. \A k \in Slots: ~AnswerPrompt(k)
      <4>1. ASSUME NEW k \in Slots, AnswerPrompt(k) PROVE FALSE
        <5>1. Fits(calls[k], page) /\ calls[k].st = "prompt" /\ page.at = "public"
          BY <2>1, <4>1 DEF AnswerPrompt, PageInv, CallInv, AtAgenda
        <5> QED BY <2>1, <5>1, FreeCall DEF Fits, Lives, AgendaInv, AskedOnly, Answered
      <4> QED BY <4>1
    <3> QED BY <2>1, <2>3, <3>1, PersonAtAgenda, PickDayKeeps, PickSlotKeeps, PressBookKeeps
  <2>4. CASE World
    BY <2>1, <2>4, WorldKeepsAgenda
  <2>5. CASE \E k \in Slots: Serve(k) \/ Deliver(k) \/ Lose(k)
    BY <2>1, <2>5, ServeKeepsAgenda, DeliverKeepsAgenda, LoseKeepsAgenda
  <2> QED BY <2>2, <2>3, <2>4, <2>5 DEF Next
<1> QED BY <1>1, <1>2 DEF AgendaInv

LEMMA AgendaHolds == FairSpec => []AgendaInv
<1>1. Init => AgendaInv
  BY AgendaStart
<1>2. SessionInv /\ AgendaInv /\ [Next]_vars => AgendaInv'
  BY AgendaStep DEF SessionInv
<1> QED BY <1>1, <1>2, SessionHolds, PTL DEF FairSpec

(* For any number of days picked and any answers that are late, refused or *)
(* lost: the hour that is picked was free on its day when the server was   *)
(* last asked, unless a day was picked under an answer to come             *)
(* (handleDateChange, getAvailableSlots).                                  *)
THEOREM PickedWasOffered == FairSpec => []OfferedWasFree
<1>1. SessionInv /\ AgendaInv => OfferedWasFree
  <2> SUFFICES ASSUME PageInv, AgendaInv, page.agenda.slot # 0, ~page.agenda.mixed PROVE Picked \in held.offered
    BY DEF SessionInv, OfferedWasFree
  <2>1. AtAgenda
    BY DEF PageInv, ScreenInv, NothingPicked, AtAgenda
  <2> QED BY <2>1 DEF AgendaInv, HoursInv
<1> QED BY <1>1, SessionHolds, AgendaHolds, PTL

(* However often a customer presses and whatever is lost: a page that ends *)
(* with success has confirmed its visit once, and one that ends with an    *)
(* error has not, but for an answer that was lost (handleConfirm,          *)
(* confirmPublic).                                                         *)
THEOREM SaysWhatHappened == FairSpec => []TellsWhatHappened
<1>1. AgendaInv => TellsWhatHappened
  <2> SUFFICES ASSUME AgendaInv, AtAgenda
               PROVE  /\ page.shown = "done" => Cardinality(held.mine) = 1
                      /\ page.shown = "error" => held.mine = {} \/ "book" \in wizard.unheard
    BY DEF TellsWhatHappened
  <2>1. ASSUME page.shown = "done" PROVE Cardinality(held.mine) = 1
    <3>1. PICK b: held.mine = {b}
      BY <2>1 DEF AgendaInv, BookInv
    <3> QED BY <3>1, FS_Singleton
  <2> QED BY <2>1 DEF AgendaInv, BookInv
<1> QED BY <1>1, AgendaHolds, PTL

-----------------------------------------------------------------------------
(* What is typed in a box becomes a row once; what is typed in a field is  *)
(* saved until it is heard that it was, and never after.                   *)

Inserting(c) == c.kind \in Inserts

\* What a box holds is what was typed there, and no other box has it.
BoxInv ==
    /\ typed \in Nat /\ \A b \in Boxes: page.text[b] \in 0 .. typed
    /\ \A b \in Boxes: \A c \in Boxes \ {b}: page.text[b] # NoDraft => page.text[b] # page.text[c]

\* A draft is in one request at a time, and while a box has it, in one that the form of
\* this box awaits.
DraftsOnce(k) ==
    /\ calls[k].draft \in 1 .. typed
    /\ \A b \in Boxes: page.text[b] = calls[k].draft => calls[k].kind = b /\ calls[k].alive = "form"
    /\ \A j \in Slots \ {k}: Inserting(calls[j]) => calls[j].draft # calls[k].draft
WireInv == \A k \in Slots: Inserting(calls[k]) => DraftsOnce(k)

\* A draft that may still be inserted: not yet typed, in a box, or on its way.
OnItsWay(c, d) == Inserting(c) /\ c.draft = d /\ c.st = "sent" /\ c.alive # "dropped"
Insertable(d) == \/ d > typed \/ \E b \in Boxes: page.text[b] = d
                 \/ \E k \in Slots: OnItsWay(calls[k], d)
Inserted(c, d) == Inserting(c) /\ c.draft = d /\ c.st = "done"
CountInv ==
    /\ made = [d \in Drafts |-> made[d]] /\ unheard = [d \in Drafts |-> unheard[d]]
    /\ \A d \in Drafts:
          /\ made[d] \in Nat /\ unheard[d] \in Nat /\ made[d] <= 1 + unheard[d]
          /\ Insertable(d) => \/ made[d] <= unheard[d] \/ \E k \in Slots: Inserted(calls[k], d)

DraftInv == BoxInv /\ WireInv /\ CountInv

\* What is typed in the fields and not yet saved; what a save carries; a photo that is
\* being uploaded; what the rows to come are typed from.
Entered == {page.values[c] : c \in page.touched}
BodyOf(call) == IF call.kind \in Writes THEN {call.body[c] : c \in DOMAIN call.body} ELSE {}
PhotoOf(call) == IF call.kind = "photo" THEN {call.draft} ELSE {}
Lines == {NoDraft} \cup {page.text[b] : b \in Boxes}
         \cup {calls[k].draft : k \in {i \in Slots: Inserting(calls[i])}}

\* What carries what was typed, and what shows a record.
Saver(c) == c.kind \in Writes \cup Inserts \cup {"photo"}
Showing == Loads \cup {"assign", "config", "contacted", "optOut"}

IsRow(r) == r = [c \in Cols |-> r[c]]
RowsInv == /\ IsRow(row) /\ IsRow(page.values) /\ IsRow(page.data) /\ page.touched \subseteq Cols
           /\ \A k \in Slots: /\ calls[k].st = "done" /\ calls[k].kind \in Showing => IsRow(calls[k].result)
                              /\ calls[k].st = "prompt" => ~Saver(calls[k])

\* Only what is typed from now on is out of these numbers.
ReachInv == /\ Entered \cup Lines \cup heard \subseteq -typed .. typed
            /\ \A k \in Slots: BodyOf(calls[k]) \cup PhotoOf(calls[k]) \subseteq -typed .. typed

\* What is entered, or on its way to be saved, has not been heard of, and is of no box.
NewsInv == /\ Entered \cap (heard \cup Lines) = {}
           /\ \A k \in Slots: BodyOf(calls[k]) \cap (heard \cup Lines) = {}
           /\ \A k \in Slots: PhotoOf(calls[k]) \cap (heard \cup Lines \cup Entered) = {}

\* It is on its way once, and is still entered only in the form that awaits it.
OneWay(k) ==
    /\ calls[k].kind \in Writes => calls[k].draft = NoDraft
    /\ Inserting(calls[k]) => DOMAIN calls[k].body = {}
    /\ BodyOf(calls[k]) \cap Entered # {} => calls[k].alive = "form"
    /\ \A j \in Slots \ {k}: /\ BodyOf(calls[k]) \cap BodyOf(calls[j]) = {}
                             /\ PhotoOf(calls[k]) \cap PhotoOf(calls[j]) = {}
    /\ \A j \in Slots: PhotoOf(calls[k]) \cap BodyOf(calls[j]) = {}
OneWayInv == \A k \in Slots: OneWay(k)

ValueInv == ReachInv /\ NewsInv /\ OneWayInv

\* The page and its forms are mounted anew, or emptied.
Emptied == page'.text = EmptyBoxes /\ page'.touched = {}

\* A call that was under way goes on; what it carries may lose its form with what is in it.
Onward(d, c) == /\ SameRequest(d, c) /\ (c.alive = "dropped" => d.alive = "dropped")
                /\ d.alive = c.alive \/ Emptied

\* It ends; an insert that was done has emptied its box.
Settled(d, c) == /\ ~Inserting(d)
                 /\ Inserting(c) /\ c.st = "done" /\ c.alive = "form" => page'.text[c.kind] = NoDraft

\* Boxes are left or emptied, and so are fields; what is shown are records.
OnlyEmptied == \A b \in Boxes: page'.text[b] \in {page.text[b], NoDraft}
FieldsKept == page'.touched = {} \/ (page'.touched = page.touched /\ page'.values = page.values)
PageCalm == OnlyEmptied /\ FieldsKept /\ IsRow(page'.values) /\ IsRow(page'.data)

\* Nothing typed is sent or asked for.
WireCalm == \A j \in Slots: \/ Onward(calls'[j], calls[j])
                            \/ ~Saver(calls'[j]) /\ calls'[j].st # "done" /\ Settled(calls'[j], calls[j])

\* A call carries what it did, or a box is sent.
Carries(d, c) == /\ d.kind = c.kind /\ d.draft = c.draft /\ d.body = c.body
                 /\ d.alive = c.alive \/ Emptied
BoxSent(d) == Inserting(d) /\ d.draft \in Lines /\ DOMAIN d.body = {}

LEMMA DraftNumbers == \A d \in Drafts: d \in Nat /\ d # NoDraft
<1>1. Cardinality(Drafts) \in Nat
  BY PanelAssumption, FS_CardinalityType DEF Counted
<1> QED BY <1>1, PanelAssumption DEF Counted, NoDraft

LEMMA DraftsGoOn ==
    ASSUME DraftInv, OnlyEmptied, UNCHANGED <<typed, made>>,
           \A j \in Slots: Onward(calls'[j], calls[j]) \/ Settled(calls'[j], calls[j]),
           unheard' = [d \in Drafts |-> unheard'[d]],
           \A d \in Drafts: unheard'[d] \in Nat /\ unheard[d] <= unheard'[d]
    PROVE  DraftInv'
<1>1. BoxInv'
  BY DEF DraftInv, BoxInv, OnlyEmptied, NoDraft
<1>2. \A j \in Slots: Inserting(calls'[j]) => Inserting(calls[j]) /\ Onward(calls'[j], calls[j])
  BY DEF Settled, Onward, SameRequest, Inserting
<1>3. \A b \in Boxes: \A d: d # NoDraft /\ page'.text[b] = d => page.text[b] = d /\ page'.text # EmptyBoxes
  BY DEF OnlyEmptied, EmptyBoxes
<1>4. WireInv'
  <2> SUFFICES ASSUME NEW k \in Slots, Inserting(calls'[k]) PROVE DraftsOnce(k)'
    BY DEF WireInv
  <2>1. Inserting(calls[k]) /\ DraftsOnce(k) /\ Onward(calls'[k], calls[k])
    BY <1>2 DEF DraftInv, WireInv
  <2>2. calls'[k].draft = calls[k].draft /\ calls'[k].draft \in 1 .. typed /\ calls'[k].draft # NoDraft
    BY <2>1 DEF Onward, SameRequest, DraftsOnce, DraftInv, BoxInv, NoDraft
  <2>3. \A b \in Boxes: page'.text[b] = calls'[k].draft => calls'[k].kind = b /\ calls'[k].alive = "form"
    BY <1>3, <2>1, <2>2 DEF Onward, SameRequest, DraftsOnce, Emptied
  <2>4. \A j \in Slots \ {k}: Inserting(calls'[j]) => calls'[j].draft # calls'[k].draft
    BY <1>2, <2>1 DEF Onward, SameRequest, DraftsOnce
  <2> QED BY <2>1, <2>2, <2>3, <2>4 DEF DraftsOnce, Onward, SameRequest
<1>5. CountInv'
  <2> SUFFICES ASSUME NEW d \in Drafts, Insertable(d)', ~(made[d] <= unheard[d])
               PROVE  \E k \in Slots: Inserted(calls'[k], d)
    BY DEF DraftInv, CountInv
  <2>1. d # NoDraft
    BY DraftNumbers
  <2>2. ASSUME NEW k \in Slots, OnItsWay(calls'[k], d) PROVE OnItsWay(calls[k], d)
    BY <1>2, <2>2 DEF OnItsWay, Onward, SameRequest
  <2>3. Insertable(d)
    BY <1>3, <2>1, <2>2 DEF Insertable
  <2>4. PICK k \in Slots: Inserted(calls[k], d)
    BY <2>3 DEF DraftInv, CountInv
  <2>5. DraftsOnce(k) /\ calls[k].draft = d
    BY <2>4 DEF Inserted, DraftInv, WireInv
  <2>6. CASE Onward(calls'[k], calls[k])
    BY <2>4, <2>6 DEF Inserted, Inserting, Onward, SameRequest
  <2>7. CASE Settled(calls'[k], calls[k])
    <3>1. ASSUME NEW b \in Boxes, page'.text[b] = d PROVE FALSE
      BY <1>3, <2>1, <2>4, <2>5, <2>7, <3>1 DEF DraftsOnce, Settled, Inserted
    <3>2. ASSUME NEW j \in Slots, OnItsWay(calls'[j], d) PROVE FALSE
      <4>1. OnItsWay(calls[j], d)
        BY <2>2, <3>2
      <4> QED BY <2>4, <2>5, <4>1 DEF DraftsOnce, OnItsWay, Inserted
    <3>3. ~(d > typed)
      BY <2>5, <2>1 DEF DraftsOnce, DraftInv, BoxInv
    <3> QED BY <3>1, <3>2, <3>3 DEF Insertable
  <2> QED BY <2>6, <2>7
<1> QED BY <1>1, <1>4, <1>5 DEF DraftInv

\* What is heard is of no field, save or photo that goes on.
LEMMA ValuesGoOn ==
    ASSUME ValueInv, OnlyEmptied, FieldsKept, typed' = typed,
           \A j \in Slots: Carries(calls'[j], calls[j]) \/ ~Saver(calls'[j]) \/ BoxSent(calls'[j]),
           NEW H, heard' = heard \cup H, H \subseteq -typed .. typed, H \cap Entered' = {},
           \A j \in Slots: H \cap (BodyOf(calls'[j]) \cup PhotoOf(calls'[j])) = {}
    PROVE  ValueInv'
<1>1. Entered' \subseteq Entered
  BY DEF FieldsKept, Entered
<1>2. \A j \in Slots: \/ /\ Carries(calls'[j], calls[j]) /\ BodyOf(calls'[j]) = BodyOf(calls[j])
                         /\ PhotoOf(calls'[j]) = PhotoOf(calls[j])
                      \/ BodyOf(calls'[j]) = {} /\ PhotoOf(calls'[j]) = {}
  <2> TAKE j \in Slots
  <2>1. CASE Carries(calls'[j], calls[j])
    BY <2>1 DEF Carries, BodyOf, PhotoOf
  <2>2. CASE ~Saver(calls'[j]) \/ BoxSent(calls'[j])
    BY <2>2 DEF Saver, BoxSent, Inserting, Inserts, Writes, BodyOf, PhotoOf
  <2> QED BY <2>1, <2>2
<1>3. \A j \in Slots: /\ calls'[j].kind \in Writes => Carries(calls'[j], calls[j])
                      /\ Inserting(calls'[j]) => Carries(calls'[j], calls[j]) \/ BoxSent(calls'[j])
  BY DEF Saver, Inserting, BoxSent, Inserts, Writes
<1>4. Lines' \subseteq Lines
  <2>1. \A b \in Boxes: page'.text[b] \in Lines
    BY DEF OnlyEmptied, Lines
  <2>2. ASSUME NEW j \in Slots, Inserting(calls'[j]) PROVE calls'[j].draft \in Lines
    <3>1. CASE Carries(calls'[j], calls[j])
      BY <2>2, <3>1 DEF Carries, Inserting, Lines
    <3>2. CASE BoxSent(calls'[j])
      BY <3>2 DEF BoxSent
    <3> QED BY <1>3, <2>2, <3>1, <3>2
  <2> QED BY <2>1, <2>2 DEF Lines
<1>5. ReachInv'
  BY <1>1, <1>2, <1>4 DEF ValueInv, ReachInv
<1>6. NewsInv'
  <2>1. Entered' \cap (heard' \cup Lines') = {}
    BY <1>1, <1>4 DEF ValueInv, NewsInv
  <2>2. ASSUME NEW k \in Slots
        PROVE  /\ BodyOf(calls'[k]) \cap (heard' \cup Lines') = {}
               /\ PhotoOf(calls'[k]) \cap (heard' \cup Lines' \cup Entered') = {}
    BY <1>1, <1>2, <1>4 DEF ValueInv, NewsInv
  <2> QED BY <2>1, <2>2 DEF NewsInv
<1>7. ASSUME NEW k \in Slots PROVE OneWay(k)'
  <2>1. OneWay(k)
    BY DEF ValueInv, OneWayInv
  <2>b. /\ calls[k].kind \in Writes => calls[k].draft = NoDraft
        /\ Inserting(calls[k]) => DOMAIN calls[k].body = {}
    BY <2>1 DEF OneWay
  <2>2. calls'[k].kind \in Writes => calls'[k].draft = NoDraft
    BY <1>3, <2>b DEF Carries
  <2>3. ASSUME Inserting(calls'[k]) PROVE DOMAIN calls'[k].body = {}
    <3>1. CASE Carries(calls'[k], calls[k])
      BY <2>3, <2>b, <3>1 DEF Carries, Inserting
    <3>2. CASE BoxSent(calls'[k])
      BY <3>2 DEF BoxSent
    <3> QED BY <1>3, <2>3, <3>1, <3>2
  <2>4. ASSUME BodyOf(calls'[k]) \cap Entered' # {} PROVE calls'[k].alive = "form"
    <3>1. Carries(calls'[k], calls[k]) /\ BodyOf(calls[k]) \cap Entered # {} /\ Entered' # {}
      BY <1>1, <1>2, <2>4
    <3>2. ~Emptied
      BY <3>1 DEF Entered, Emptied
    <3> QED BY <2>1, <3>1, <3>2 DEF Carries, OneWay
  <2>5. ASSUME NEW j \in Slots
        PROVE  /\ j # k => /\ BodyOf(calls'[k]) \cap BodyOf(calls'[j]) = {}
                           /\ PhotoOf(calls'[k]) \cap PhotoOf(calls'[j]) = {}
               /\ PhotoOf(calls'[k]) \cap BodyOf(calls'[j]) = {}
    BY <1>2, <2>1 DEF OneWay
  <2> QED BY <2>2, <2>3, <2>4, <2>5 DEF OneWay
<1> QED BY <1>5, <1>6, <1>7 DEF ValueInv, OneWayInv

\* Nothing is heard.
LEMMA ValuesStay ==
    ASSUME ValueInv, OnlyEmptied, FieldsKept, UNCHANGED <<typed, heard>>,
           \A j \in Slots: Carries(calls'[j], calls[j]) \/ ~Saver(calls'[j]) \/ BoxSent(calls'[j])
    PROVE  ValueInv'
<1>1. PICK H: H = {}
  OBVIOUS
<1>2. heard' = heard \cup H /\ H \subseteq -typed .. typed
  BY <1>1
<1>3. H \cap Entered' = {} /\ \A j \in Slots: H \cap (BodyOf(calls'[j]) \cup PhotoOf(calls'[j])) = {}
  BY <1>1
<1> HIDE <1>1
<1> QED BY <1>2, <1>3, ValuesGoOn

LEMMA RowsGoOn == ASSUME RowsInv, WireCalm, PageCalm, row' = row PROVE RowsInv'
<1>1. ASSUME NEW k \in Slots
      PROVE  /\ calls'[k].st = "done" /\ calls'[k].kind \in Showing => IsRow(calls'[k].result)
             /\ calls'[k].st = "prompt" => ~Saver(calls'[k])
  BY DEF RowsInv, WireCalm, Onward, SameRequest, Saver
<1>2. page'.touched \subseteq Cols
  BY DEF RowsInv, PageCalm, FieldsKept
<1> QED BY <1>1, <1>2 DEF RowsInv, PageCalm, IsRow

TypingInv == DraftInv /\ RowsInv /\ ValueInv

LEMMA CalmDrafts == ASSUME TypingInv, WireCalm, OnlyEmptied, UNCHANGED <<typed, made, unheard>> PROVE DraftInv'
  BY DraftsGoOn DEF TypingInv, WireCalm, DraftInv, CountInv

LEMMA CalmWire ==
    ASSUME WireCalm, NEW j \in Slots PROVE Carries(calls'[j], calls[j]) \/ ~Saver(calls'[j])
  BY DEF WireCalm, Onward, SameRequest, Carries

\* A step that types, saves, and answers nothing.
LEMMA CalmStep ==
    ASSUME TypingInv, WireCalm, PageCalm, UNCHANGED <<typed, made, row, heard>>,
           \/ unheard' = unheard
           \/ /\ unheard' = [d \in Drafts |-> unheard'[d]]
              /\ \A d \in Drafts: unheard'[d] \in Nat /\ unheard[d] <= unheard'[d]
    PROVE  TypingInv'
<1>1. DraftInv'
  <2>1. CASE unheard' = unheard
    BY <2>1, CalmDrafts DEF PageCalm
  <2>2. CASE unheard' # unheard
    BY <2>2, DraftsGoOn DEF TypingInv, WireCalm, PageCalm
  <2> QED BY <2>1, <2>2
<1>2. ValueInv'
  BY CalmWire, ValuesStay DEF TypingInv, PageCalm
<1> QED BY <1>1, <1>2, RowsGoOn DEF TypingInv

\* What is entered is as it was, or anew.
SameEntry == /\ page'.text = page.text /\ page'.touched = page.touched
             /\ page'.values = page.values /\ page'.data = page.data
NewEntry == page'.text = EmptyBoxes /\ page'.touched = {} /\ IsRow(page'.values) /\ IsRow(page'.data)

LEMMA EntryCalm == ASSUME RowsInv, SameEntry \/ NewEntry PROVE PageCalm
  BY DEF RowsInv, SameEntry, NewEntry, PageCalm, OnlyEmptied, FieldsKept, EmptyBoxes

LEMMA SameOnward == ASSUME NEW c, IsCall(c) PROVE Onward(c, c)
  BY DEF Onward, SameRequest

LEMMA EmptyingOnward ==
    ASSUME Emptied, NEW cs, \A k \in Slots: IsCall(cs[k]), NEW d, NEW j \in Slots,
           \/ d = Left(cs)[j] \/ d = Orphans(cs, {"form"}, "page")[j] \/ d = Unmodalled(cs)[j]
    PROVE  Onward(d, cs[j])
<1>1. CASE d = Left(cs)[j]
  BY <1>1, OrphansAre DEF Left, Onward
<1>2. CASE d = Orphans(cs, {"form"}, "page")[j]
  BY <1>2, OrphansAre DEF Onward
<1>3. CASE d = Unmodalled(cs)[j]
  BY <1>3, UnmodalledAre DEF Onward
<1> QED BY <1>1, <1>2, <1>3

\* A call that carries nothing.
Asks(c) == IsCall(c) /\ ~Saver(c) /\ c.st # "done"

LEMMA FreeAsks == Asks(Free)
  BY FreeCall DEF Asks, Saver, Writes, Inserts

LEMMA LoadAsks ==
    ASSUME NEW at \in DOMAIN LoadOf, NEW token, NEW c,
           c = Load(at, token) \/ c = [Load(at, token) EXCEPT !.alive = "gone"]
    PROVE  Asks(c)
  BY AnyLoadIs, LoadKinds DEF Asks, Saver, Writes, Inserts

\* The function that awaited k goes on.
LEMMA AnswerCalm ==
    ASSUME Shape, NEW k \in Slots, NEW c, Asks(c),
           Inserting(calls[k]) /\ calls[k].st = "done" /\ calls[k].alive = "form"
              => page'.text[calls[k].kind] = NoDraft,
           \/ calls' = Followed(k, c)
           \/ /\ Emptied
              /\ \/ calls' = Left(Followed(k, c)) \/ calls' = Unmodalled(Followed(k, c))
                 \/ calls' = Orphans(Followed(k, c), {"form"}, "page")
    PROVE  WireCalm /\ ~Saver(calls'[k])
<1> DEFINE cs == Followed(k, c)
<1>1. /\ cs[k] = c /\ \A j \in Slots \ {k}: cs[j] = calls[j]
      /\ \A j \in Slots: IsCall(cs[j])
  BY DEF Followed, Shape, Asks
<1>2. \/ calls' = cs
      \/ /\ Emptied
         /\ calls' = Left(cs) \/ calls' = Unmodalled(cs) \/ calls' = Orphans(cs, {"form"}, "page")
  OBVIOUS
<1> HIDE DEF cs
<1>3. \A j \in Slots: Onward(calls'[j], cs[j])
  BY <1>1, <1>2, SameOnward, EmptyingOnward
<1>4. ~Saver(calls'[k]) /\ calls'[k].st # "done"
  BY <1>1, <1>3 DEF Onward, SameRequest, Saver, Asks
<1>5. Settled(calls'[k], calls[k])
  BY <1>4 DEF Settled, Saver, Inserting
<1>6. \A j \in Slots \ {k}: Onward(calls'[j], calls[j])
  BY <1>1, <1>3
<1> QED BY <1>4, <1>5, <1>6 DEF WireCalm

LEMMA EndedCalm ==
    ASSUME Shape, NEW k \in Slots, calls' = Ended(k),
           Inserting(calls[k]) /\ calls[k].st = "done" /\ calls[k].alive = "form"
              => page'.text[calls[k].kind] = NoDraft
    PROVE  WireCalm /\ ~Saver(calls'[k])
<1>1. PICK c: c = Free
  OBVIOUS
<1>2. Asks(c) /\ calls' = Followed(k, c)
  BY <1>1, FreeAsks DEF Ended, Followed
<1> QED BY <1>2, AnswerCalm

\* What is sent carries nothing.
LEMMA SendCalm == ASSUME Shape, NEW c, Asks(c), Send(c) PROVE WireCalm
<1>1. PICK n \in Slots: /\ calls[n] = Free /\ calls'[n] = c
                        /\ \A k \in Slots \ {n}: calls'[k] = calls[k]
  BY SendIs DEF Asks
<1>2. Settled(calls'[n], calls[n])
  BY <1>1, FreeCall DEF Settled, Inserting, Inserts, Asks, Saver
<1> QED BY <1>1, <1>2, SameOnward DEF Shape, WireCalm, Asks

LEMMA StillCalm == ASSUME Shape, calls' = calls PROVE WireCalm
  BY SameOnward DEF Shape, WireCalm

LEMMA NothingIsRow == IsRow(NothingTyped)
  BY DEF IsRow, NothingTyped

LEMMA ScreenEmpty ==
    ASSUME NEW at, NEW p, p = Screen(at)
    PROVE  p.text = EmptyBoxes /\ p.touched = {} /\ IsRow(p.values) /\ IsRow(p.data)
  BY NothingIsRow DEF Screen

LEMMA ScreenAnew == ASSUME NEW at, page' = Screen(at) PROVE NewEntry /\ Emptied
  BY ScreenEmpty DEF NewEntry, Emptied

\* The answer to one insert changes no more than its own count.
LEMMA ServeOkDrafts ==
    ASSUME DraftInv, Shape, NEW k \in Slots, calls[k].st = "sent", ServeOk(k), UNCHANGED <<page, typed>>
    PROVE  DraftInv'
<1>1. /\ \A j \in Slots \ {k}: calls'[j] = calls[j]
      /\ calls'[k].kind = calls[k].kind /\ calls'[k].draft = calls[k].draft /\ calls'[k].alive = calls[k].alive
      /\ calls'[k].st = "done" /\ unheard' = unheard /\ calls[k].alive # "dropped"
      /\ made' = IF Inserting(calls[k]) THEN [made EXCEPT ![calls[k].draft] = @ + 1] ELSE made
  BY DEF ServeOk, Apply, Shape, IsCall, CallFields, Inserting
<1>2. BoxInv'
  BY DEF DraftInv, BoxInv
<1>3. WireInv'
  BY <1>1 DEF DraftInv, WireInv, DraftsOnce, Inserting
<1>4. CASE ~Inserting(calls[k])
  <2>1. \A d \in Drafts: Insertable(d)' => Insertable(d)
    BY <1>1, <1>4 DEF Insertable, OnItsWay, Inserting
  <2>2. \A d \in Drafts: \A j \in Slots: Inserted(calls[j], d) => Inserted(calls'[j], d)
    BY <1>1, <1>4 DEF Inserted, Inserting
  <2>3. CountInv'
    BY <1>1, <1>4, <2>1, <2>2 DEF DraftInv, CountInv
  <2> QED BY <1>2, <1>3, <2>3 DEF DraftInv
<1>5. CASE Inserting(calls[k])
  <2>1. DraftsOnce(k) /\ DraftsOnce(k)'
    BY <1>1, <1>3, <1>5 DEF DraftInv, WireInv, Inserting
  <2>2. ASSUME NEW d \in Drafts
        PROVE  /\ made'[d] \in Nat /\ made'[d] <= 1 + unheard[d]
               /\ Insertable(d)' => made'[d] <= unheard[d] \/ \E j \in Slots: Inserted(calls'[j], d)
    <3>1. CASE d = calls[k].draft
      <4>1. Insertable(d) /\ \A j \in Slots: ~Inserted(calls[j], d)
        BY <1>1, <1>5, <2>1, <3>1 DEF Insertable, OnItsWay, Inserted, DraftsOnce
      <4>2. made[d] \in Nat /\ made[d] <= unheard[d] /\ made'[d] = made[d] + 1
        BY <1>1, <1>5, <3>1, <4>1 DEF DraftInv, CountInv
      <4>3. Inserted(calls'[k], d)
        BY <1>1, <1>5, <3>1 DEF Inserted, Inserting
      <4> QED BY <4>2, <4>3 DEF DraftInv, CountInv
    <3>2. CASE d # calls[k].draft
      <4>1. made'[d] = made[d]
        BY <1>1, <1>5, <3>2 DEF DraftInv, CountInv
      <4>2. Insertable(d)' => Insertable(d)
        BY <1>1, <3>2 DEF Insertable, OnItsWay, Inserting
      <4>3. \A j \in Slots: Inserted(calls[j], d) => Inserted(calls'[j], d)
        BY <1>1, <3>2 DEF Inserted, Inserting
      <4> QED BY <4>1, <4>2, <4>3 DEF DraftInv, CountInv
    <3> QED BY <3>1, <3>2
  <2>3. made' = [d \in Drafts |-> made'[d]]
    BY <1>1 DEF DraftInv, CountInv
  <2>4. CountInv'
    BY <1>1, <2>2, <2>3 DEF DraftInv, CountInv
  <2> QED BY <1>2, <1>3, <2>4 DEF DraftInv
<1> QED BY <1>4, <1>5

LEMMA ServeDroppedDrafts ==
    ASSUME DraftInv, Shape, NEW k \in Slots, calls[k].st = "sent", ServeDropped(k), UNCHANGED <<page, typed>>
    PROVE  DraftInv'
<1>1. /\ \A j \in Slots \ {k}: calls'[j] = calls[j]
      /\ calls'[k] = Free /\ calls[k].alive = "dropped"
      /\ made' = IF Inserting(calls[k]) THEN [made EXCEPT ![calls[k].draft] = @ + 1] ELSE made
      /\ unheard' = IF Inserting(calls[k]) THEN [unheard EXCEPT ![calls[k].draft] = @ + 1] ELSE unheard
  BY EndedIs DEF ServeDropped, Inserting
<1>2. ~Inserting(calls'[k])
  BY <1>1, FreeCall DEF Inserting, Inserts
<1>3. BoxInv'
  BY DEF DraftInv, BoxInv
<1>4. WireInv'
  BY <1>1, <1>2 DEF DraftInv, WireInv, DraftsOnce
<1>5. \A d \in Drafts: Insertable(d)' => Insertable(d)
  BY <1>1, <1>2 DEF Insertable, OnItsWay
<1>6. \A d \in Drafts: \A j \in Slots: Inserted(calls[j], d) => Inserted(calls'[j], d)
  BY <1>1 DEF Inserted
<1>7. \A d \in Drafts: \E n \in {0, 1}: made'[d] = made[d] + n /\ unheard'[d] = unheard[d] + n
  BY <1>1 DEF DraftInv, CountInv
<1>8. made' = [d \in Drafts |-> made'[d]] /\ unheard' = [d \in Drafts |-> unheard'[d]]
  BY <1>1 DEF DraftInv, CountInv
<1>9. CountInv'
  BY <1>5, <1>6, <1>7, <1>8 DEF DraftInv, CountInv
<1> QED BY <1>3, <1>4, <1>9 DEF DraftInv

\* A call whose answer is a refusal, or none; what was inserted unheard is counted so.
LEMMA RefusedDrafts ==
    ASSUME DraftInv, Shape, NEW k \in Slots, UNCHANGED <<page, typed, made>>,
           \A j \in Slots \ {k}: calls'[j] = calls[j],
           \/ ~Inserting(calls'[k])
           \/ /\ calls'[k].kind = calls[k].kind /\ calls'[k].draft = calls[k].draft
              /\ calls'[k].alive = calls[k].alive /\ calls'[k].st \notin {"sent", "done", "prompt"},
           \/ unheard' = unheard /\ calls[k].st # "done"
           \/ calls[k].draft # NoDraft /\ unheard' = [unheard EXCEPT ![calls[k].draft] = @ + 1]
           \/ ~Inserting(calls[k]) /\ unheard' = unheard
    PROVE  DraftInv'
<1>1. BoxInv'
  BY DEF DraftInv, BoxInv
<1>2. Inserting(calls'[k]) => /\ Inserting(calls[k]) /\ calls'[k].kind = calls[k].kind
                              /\ calls'[k].draft = calls[k].draft /\ calls'[k].alive = calls[k].alive
                              /\ calls'[k].st \notin {"sent", "done", "prompt"}
  BY DEF Inserting
<1>3. WireInv'
  BY <1>2 DEF DraftInv, WireInv, DraftsOnce
<1>4. unheard' = [d \in Drafts |-> unheard'[d]]
  BY DEF DraftInv, CountInv
<1>5. ASSUME NEW d \in Drafts
      PROVE  /\ unheard'[d] \in Nat /\ made[d] <= 1 + unheard'[d]
             /\ Insertable(d)' => made[d] <= unheard'[d] \/ \E j \in Slots: Inserted(calls'[j], d)
  <2>1. unheard'[d] \in Nat /\ unheard[d] <= unheard'[d]
    BY DEF DraftInv, CountInv
  <2>2. Insertable(d)' => Insertable(d)
    BY <1>2 DEF Insertable, OnItsWay
  <2>3. CASE \E j \in Slots \ {k}: Inserted(calls[j], d)
    BY <2>1, <2>3 DEF DraftInv, CountInv, Inserted
  <2>4. CASE Inserted(calls[k], d)
    <3>1. unheard'[d] = unheard[d] + 1
      BY <2>4 DEF Inserted, DraftInv, CountInv
    <3> QED BY <2>1, <3>1 DEF DraftInv, CountInv
  <2>5. CASE \A j \in Slots: ~Inserted(calls[j], d)
    BY <2>1, <2>2, <2>5 DEF DraftInv, CountInv
  <2> QED BY <2>3, <2>4, <2>5
<1>6. CountInv'
  BY <1>4, <1>5 DEF DraftInv, CountInv
<1> QED BY <1>1, <1>3, <1>6 DEF DraftInv

LEMMA ServeDrafts == ASSUME DraftInv, Shape, NEW k \in Slots, Serve(k) PROVE DraftInv'
<1>1. calls[k].st = "sent" /\ UNCHANGED <<page, typed>>
  BY DEF Serve
<1>2. ASSUME NEW status \in {"no", "bad", "401"}, Refuse(k, status) PROVE DraftInv'
  <2>1. /\ \A j \in Slots \ {k}: calls'[j] = calls[j]
        /\ \/ calls'[k] = Free
           \/ /\ calls'[k].kind = calls[k].kind /\ calls'[k].draft = calls[k].draft
              /\ calls'[k].alive = calls[k].alive /\ calls'[k].st = status
        /\ UNCHANGED <<made, unheard>>
    BY <1>2 DEF Refuse, Unsent, Shape, IsCall, CallFields, server_vars
  <2> QED BY <1>1, <1>2, <2>1, FreeCall, RefusedDrafts DEF Inserting, Inserts
<1>3. CASE ServeOk(k)
  BY <1>1, <1>3, ServeOkDrafts
<1>4. CASE ServeDropped(k)
  BY <1>1, <1>4, ServeDroppedDrafts
<1>5. CASE ServeNo(k)
  BY <1>2, <1>5 DEF ServeNo
<1>6. CASE Serve401(k)
  BY <1>2, <1>6 DEF Serve401
<1> QED BY <1>3, <1>4, <1>5, <1>6 DEF Serve

LEMMA LoseDrafts == ASSUME DraftInv, Shape, NEW k \in Slots, Lose(k) PROVE DraftInv'
<1>1. /\ \A j \in Slots \ {k}: calls'[j] = calls[j]
      /\ calls'[k].kind = calls[k].kind /\ calls'[k].draft = calls[k].draft
      /\ calls'[k].alive = calls[k].alive /\ calls'[k].st = "broken" /\ UNCHANGED <<page, typed, made>>
  BY DEF Lose, Shape, IsCall, CallFields, server_vars
<1>2. \/ unheard' = unheard /\ calls[k].st # "done"
      \/ calls[k].draft # NoDraft /\ unheard' = [unheard EXCEPT ![calls[k].draft] = @ + 1]
      \/ ~Inserting(calls[k]) /\ unheard' = unheard
  <2>1. Inserting(calls[k]) => calls[k].draft # NoDraft
    BY DEF DraftInv, WireInv, DraftsOnce, BoxInv, NoDraft
  <2> QED BY <2>1 DEF Lose
<1> QED BY <1>1, <1>2, RefusedDrafts

\* The page does not know.
LEMMA ValuesWait ==
    ASSUME ValueInv, UNCHANGED <<page, typed, heard>>,
           \A j \in Slots: Carries(calls'[j], calls[j]) \/ ~Saver(calls'[j])
    PROVE  ValueInv'
  BY ValuesStay DEF OnlyEmptied, FieldsKept

LEMMA SavedIsRow == ASSUME IsRow(row), NEW call PROVE IsRow(Saved(call))
  BY DEF IsRow, Saved

LEMMA RowsWait ==
    ASSUME RowsInv, NEW k \in Slots, SameEntry, IsRow(row'),
           \A j \in Slots \ {k}: calls'[j] = calls[j],
           /\ calls'[k].st = "done" /\ calls'[k].kind \in Showing => IsRow(calls'[k].result)
           /\ calls'[k].st = "prompt" => ~Saver(calls'[k])
    PROVE  RowsInv'
<1>1. ASSUME NEW j \in Slots
      PROVE  /\ calls'[j].st = "done" /\ calls'[j].kind \in Showing => IsRow(calls'[j].result)
             /\ calls'[j].st = "prompt" => ~Saver(calls'[j])
  BY DEF RowsInv
<1> QED BY <1>1 DEF RowsInv, IsRow, SameEntry

\* What a save replaces with has not been heard of.
LEMMA SavedIsNew ==
    ASSUME NewsInv, NEW k \in Slots, NEW c \in Cols
    PROVE  Saved(calls[k])[c] = row[c] \/ Saved(calls[k])[c] \notin heard \cup {0}
<1>1. CASE calls[k].kind \in Writes /\ c \in DOMAIN calls[k].body
  <2>1. Saved(calls[k])[c] = calls[k].body[c] /\ calls[k].body[c] \in BodyOf(calls[k])
    BY <1>1 DEF Saved, BodyOf
  <2>2. 0 \in Lines
    BY DEF Lines, NoDraft
  <2> QED BY <2>1, <2>2 DEF NewsInv
<1>2. CASE ~(calls[k].kind \in Writes /\ c \in DOMAIN calls[k].body)
  BY <1>2 DEF Saved
<1> QED BY <1>1, <1>2

NewsOnly == \A c \in Cols: row'[c] \in {row[c], Theirs} \/ row'[c] \notin heard \cup {0}

LEMMA ServeTyping ==
    ASSUME TypingInv, Shape, NEW k \in Slots, Serve(k)
    PROVE  TypingInv' /\ NewsOnly
<1>1. UNCHANGED <<page, typed, heard>>
  BY DEF Serve
<1>2. /\ \A j \in Slots \ {k}: calls'[j] = calls[j]
      /\ \/ calls'[k] = Free
         \/ /\ Carries(calls'[k], calls[k]) /\ calls'[k].st # "prompt"
            /\ calls'[k].st = "done" => calls'[k].result = Result(calls[k])
      /\ row' = row \/ row' = Saved(calls[k])
  <2>1. CASE ServeOk(k)
    BY <2>1 DEF ServeOk, Apply, Shape, IsCall, CallFields, Carries
  <2>2. CASE ServeDropped(k)
    BY <2>2 DEF ServeDropped, Ended, Shape
  <2>3. ASSUME NEW status \in {"no", "bad", "401"}, Refuse(k, status)
        PROVE  /\ \A j \in Slots \ {k}: calls'[j] = calls[j]
               /\ calls'[k] = Free \/ (Carries(calls'[k], calls[k]) /\ calls'[k].st = status)
               /\ row' = row
    BY <2>3 DEF Refuse, Unsent, Shape, IsCall, CallFields, Carries, server_vars
  <2>4. CASE ServeNo(k) \/ Serve401(k)
    BY <2>3, <2>4 DEF ServeNo, Serve401
  <2> QED BY <2>1, <2>2, <2>4 DEF Serve
<1>3. DraftInv'
  BY ServeDrafts DEF TypingInv
<1>4. ~Saver(Free) /\ Free.st = "free"
  BY FreeAsks, FreeCall DEF Asks
<1>5. ValueInv'
  <2>1. \A j \in Slots \ {k}: Carries(calls'[j], calls[j])
    BY <1>2 DEF Carries
  <2> QED BY <1>1, <1>2, <1>4, <2>1, ValuesWait DEF TypingInv
<1>6. IsRow(row')
  BY <1>2, SavedIsRow DEF TypingInv, RowsInv
<1>7. ASSUME calls'[k].st = "done", calls'[k].kind \in Showing PROVE IsRow(calls'[k].result)
  <2>1. calls'[k].result = Result(calls[k]) /\ calls[k].kind \in Showing
    BY <1>2, <1>4, <1>7 DEF Carries
  <2>2. Result(calls[k]) = row'
    BY <2>1, LoadKinds DEF Result, Showing, WithPassword
  <2> QED BY <1>6, <2>1, <2>2
<1>8. RowsInv'
  <2>1. calls'[k].st # "prompt"
    BY <1>2, <1>4
  <2> QED BY <1>1, <1>2, <1>6, <1>7, <2>1, RowsWait DEF TypingInv, SameEntry
<1>9. NewsOnly
  BY <1>2, SavedIsNew DEF NewsOnly, TypingInv, ValueInv
<1> QED BY <1>3, <1>5, <1>8, <1>9 DEF TypingInv

LEMMA LoseTyping == ASSUME TypingInv, Shape, NEW k \in Slots, Lose(k) PROVE TypingInv'
<1>1. /\ \A j \in Slots \ {k}: calls'[j] = calls[j]
      /\ Carries(calls'[k], calls[k]) /\ calls'[k].st = "broken" /\ UNCHANGED <<page, typed, heard, row>>
  BY DEF Lose, Shape, IsCall, CallFields, server_vars, Carries
<1>2. DraftInv'
  BY LoseDrafts DEF TypingInv
<1>3. ValueInv'
  BY <1>1, ValuesWait DEF TypingInv, Carries
<1>4. RowsInv'
  BY <1>1, RowsWait DEF TypingInv, RowsInv, SameEntry
<1> QED BY <1>2, <1>3, <1>4 DEF TypingInv

\* The others, and the clock.
LEMMA WorldTyping == ASSUME TypingInv, Shape, World PROVE TypingInv' /\ NewsOnly
<1>1. /\ UNCHANGED <<calls, page, typed, made, unheard, heard>>
      /\ row' = row \/ \E c \in Cols: row' = [row EXCEPT ![c] = Theirs]
  BY DEF World, SessionEnds, OthersVisits, OthersSave, server_vars
<1>2. WireCalm /\ OnlyEmptied
  BY <1>1, StillCalm DEF OnlyEmptied
<1>3. DraftInv'
  BY <1>1, <1>2, CalmDrafts
<1>4. ValueInv'
  BY <1>1, ValuesWait DEF TypingInv, Carries
<1>5. IsRow(row') /\ NewsOnly
  BY <1>1 DEF TypingInv, RowsInv, IsRow, NewsOnly
<1>6. RowsInv'
  BY <1>1, <1>5 DEF TypingInv, RowsInv
<1> QED BY <1>3, <1>4, <1>5, <1>6 DEF TypingInv

\* What is saved is no more entered where it was.
Forgotten(k) == calls[k].alive = "form" /\ calls[k].kind \in Writes => page'.touched = {}
Hearing(k) == heard' = IF calls[k].kind \notin Writes \cup Inserts THEN heard
                       ELSE heard \cup {calls[k].draft} \cup {calls[k].body[c] : c \in DOMAIN calls[k].body}

LEMMA AnswerTyping ==
    ASSUME TypingInv, NEW k \in Slots, WireCalm, ~Saver(calls'[k]), PageCalm,
           UNCHANGED <<typed, made, unheard, row>>, heard' = heard \/ (Forgotten(k) /\ Hearing(k))
    PROVE  TypingInv'
<1>1. CASE heard' = heard
  BY <1>1, CalmStep
<1>2. CASE /\ Forgotten(k) /\ calls[k].kind \in Writes \cup Inserts
           /\ heard' = heard \cup {calls[k].draft} \cup {calls[k].body[c] : c \in DOMAIN calls[k].body}
  <2>1. OneWay(k)
    BY DEF TypingInv, ValueInv, OneWayInv
  <2>2. PICK H: H = {calls[k].draft} \cup {calls[k].body[c] : c \in DOMAIN calls[k].body}
    OBVIOUS
  <2>3. calls[k].draft \in Lines
    BY <1>2, <2>1 DEF OneWay, Lines, Inserting
  <2>4. H \subseteq Lines \cup BodyOf(calls[k])
    BY <1>2, <2>1, <2>2, <2>3 DEF OneWay, Inserting, BodyOf
  <2>5. heard' = heard \cup H
    BY <1>2, <2>2
  <2> HIDE <2>2
  <2>6. H \subseteq -typed .. typed
    BY <2>4 DEF TypingInv, ValueInv, ReachInv
  <2>7. H \cap Entered' = {}
    <3>1. CASE page'.touched = {}
      BY <3>1 DEF Entered
    <3>2. CASE page'.touched # {}
      <4>1. Entered' = Entered
        BY <3>2 DEF PageCalm, FieldsKept, Entered
      <4>2. BodyOf(calls[k]) \cap Entered = {}
        BY <1>2, <2>1, <3>2 DEF OneWay, Forgotten, BodyOf
      <4> QED BY <2>4, <4>1, <4>2 DEF TypingInv, ValueInv, NewsInv
    <3> QED BY <3>1, <3>2
  <2>8. ASSUME NEW j \in Slots PROVE H \cap (BodyOf(calls'[j]) \cup PhotoOf(calls'[j])) = {}
    <3>1. CASE ~Saver(calls'[j])
      BY <3>1 DEF Saver, BodyOf, PhotoOf
    <3>2. CASE Saver(calls'[j]) /\ j # k
      <4>1. BodyOf(calls'[j]) = BodyOf(calls[j]) /\ PhotoOf(calls'[j]) = PhotoOf(calls[j])
        BY <3>2, CalmWire DEF Carries, BodyOf, PhotoOf
      <4>2. BodyOf(calls[k]) \cap BodyOf(calls[j]) = {}
        BY <2>1, <3>2 DEF OneWay
      <4>3. BodyOf(calls[k]) \cap PhotoOf(calls[j]) = {}
        BY DEF TypingInv, ValueInv, OneWayInv, OneWay
      <4> QED BY <2>4, <4>1, <4>2, <4>3 DEF TypingInv, ValueInv, NewsInv
    <3> QED BY <3>1, <3>2
  <2>9. ValueInv'
    BY <2>5, <2>6, <2>7, <2>8, CalmWire, ValuesGoOn DEF TypingInv, PageCalm
  <2>10. DraftInv'
    BY CalmDrafts DEF PageCalm
  <2> QED BY <2>9, <2>10, RowsGoOn DEF TypingInv
<1> QED BY <1>1, <1>2 DEF Hearing

\* The photo becomes what is entered in its field.
LEMMA PhotoTyping ==
    ASSUME TypingInv, Shape, IsPage(page), NEW k \in Slots, calls[k].kind = "photo", PhotoUploaded(k),
           UNCHANGED <<typed, made, unheard, row, heard>>
    PROVE  TypingInv'
<1>1. calls' = Ended(k) /\ ~Inserting(calls[k])
  BY DEF PhotoUploaded, Inserting, Inserts
<1>2. WireCalm /\ ~Saver(calls'[k])
  BY <1>1, EndedCalm
<1>3. CASE calls[k].alive # "form"
  <2>1. page' = page
    BY <1>3 DEF PhotoUploaded, Show
  <2> QED BY <1>2, <2>1, EntryCalm, AnswerTyping DEF SameEntry, TypingInv
<1>4. CASE calls[k].alive = "form"
  <2>1. Photos \in Cols
    BY PanelAssumption DEF Photos
  <2>2. page' = [page EXCEPT !.values[Photos] = calls[k].draft, !.touched = @ \cup {Photos}, !.busy = @ \ {"photo"}]
    BY <1>4 DEF PhotoUploaded, Show
  <2>3. /\ page'.text = page.text /\ page'.data = page.data /\ page'.touched = page.touched \cup {Photos}
        /\ page'.values = [page.values EXCEPT ![Photos] = calls[k].draft]
    BY <2>2 DEF IsPage, PageFields
  <2>4. IsRow(page'.values) /\ IsRow(page'.data) /\ page'.touched \subseteq Cols
    BY <2>1, <2>3 DEF TypingInv, RowsInv, IsRow
  <2>5. RowsInv'
    BY <1>2, <2>4 DEF WireCalm, Onward, SameRequest, TypingInv, RowsInv, IsRow, Saver
  <2>6. DraftInv'
    BY <1>2, <2>3, CalmDrafts DEF OnlyEmptied
  <2>7. Entered' \subseteq Entered \cup PhotoOf(calls[k])
    <3>1. PhotoOf(calls[k]) = {calls[k].draft}
      BY DEF PhotoOf
    <3>2. ASSUME NEW c \in page'.touched PROVE page'.values[c] \in Entered \cup {calls[k].draft}
      <4>1. c = Photos \/ c \in page.touched
        BY <2>3
      <4>2. page'.values[c] = IF c = Photos THEN calls[k].draft ELSE page.values[c]
        BY <2>1, <2>3, <4>1 DEF TypingInv, RowsInv, IsRow
      <4> QED BY <4>1, <4>2 DEF Entered
    <3> QED BY <3>1, <3>2 DEF Entered
  <2>8. /\ calls'[k] = Free /\ BodyOf(Free) = {} /\ PhotoOf(Free) = {} /\ ~Inserting(Free)
        /\ \A j \in Slots \ {k}: calls'[j] = calls[j]
    BY <1>1, EndedIs, FreeCall DEF BodyOf, PhotoOf, Inserting, Writes, Inserts
  <2>9. Lines' = Lines
    BY <1>1, <2>3, <2>8 DEF Lines
  <2>10. /\ PhotoOf(calls[k]) \cap (heard \cup Lines) = {} /\ PhotoOf(calls[k]) \subseteq -typed .. typed
         /\ \A j \in Slots: BodyOf(calls[j]) \cap PhotoOf(calls[k]) = {}
         /\ \A j \in Slots \ {k}: PhotoOf(calls[j]) \cap PhotoOf(calls[k]) = {}
    BY DEF TypingInv, ValueInv, NewsInv, ReachInv, OneWayInv, OneWay
  <2>11. ReachInv' /\ NewsInv'
    BY <2>7, <2>8, <2>9, <2>10 DEF TypingInv, ValueInv, ReachInv, NewsInv
  <2>12. ASSUME NEW j \in Slots PROVE OneWay(j)'
    <3>1. CASE j = k
      BY <2>8, <3>1, FreeCall DEF OneWay, Writes
    <3>2. CASE j # k
      <4>1. calls'[j] = calls[j] /\ OneWay(j)
        BY <2>8, <3>2 DEF TypingInv, ValueInv, OneWayInv
      <4>2. BodyOf(calls'[j]) \cap Entered' # {} => calls'[j].alive = "form"
        BY <2>7, <2>10, <4>1 DEF OneWay
      <4>3. ASSUME NEW i \in Slots
            PROVE  /\ i # j => /\ BodyOf(calls'[j]) \cap BodyOf(calls'[i]) = {}
                               /\ PhotoOf(calls'[j]) \cap PhotoOf(calls'[i]) = {}
                   /\ PhotoOf(calls'[j]) \cap BodyOf(calls'[i]) = {}
        BY <2>8, <4>1 DEF OneWay
      <4> QED BY <4>1, <4>2, <4>3 DEF OneWay
    <3> QED BY <3>1, <3>2
  <2> QED BY <2>5, <2>6, <2>11, <2>12 DEF TypingInv, ValueInv, OneWayInv
<1> QED BY <1>3, <1>4

\* How the functions of the screens go on.
LEMMA ScreenTyping ==
    ASSUME TypingInv, Shape, IsPage(page), NEW k \in Slots, Lives(calls[k]),
           page.shown = "spinner" => page.touched = {},
           (calls[k].st = "done" /\ ScreenOk(k)) \/ (calls[k].st # "done" /\ ScreenError(k) /\ heard' = heard),
           UNCHANGED <<typed, made, unheard, row>>
    PROVE  TypingInv'
<1> DEFINE kind == calls[k].kind
<1>d. {"stock", "ficha", "people"} \subseteq DOMAIN LoadOf
  BY DEF LoadOf
<1>i. Inserting(calls[k]) <=> kind \in {"note", "reply", "create", "newPerson"}
  BY DEF Inserting, Inserts
<1>r. RowsInv /\ IsRow(page.values) /\ IsRow(page.data)
  BY DEF TypingInv, RowsInv
<1>s. Hearing(k) \/ heard' = heard
  BY DEF ScreenOk, Hearing
\* Its end, or what it asks next.
<1>e. ASSUME WireCalm, ~Saver(calls'[k]), PageCalm, Forgotten(k) PROVE TypingInv'
  BY <1>e, <1>s, AnswerTyping
<1>1. CASE calls[k].st # "done" /\ ScreenError(k)
  <2>1. calls' = Ended(k)
    BY <1>1 DEF ScreenError, AgendaAnswered, DetailsAnswered, SlotsAnswered, BookAnswered, LoadFailed, Failed
  <2>2. SameEntry
    <3>1. CASE kind \in WithNothing
      BY <1>1, <3>1 DEF ScreenError, AgendaAnswered, DetailsAnswered, SlotsAnswered, BookAnswered, Show,
                        IsPage, PageFields, SameEntry
    <3>2. CASE kind \notin WithNothing
      BY <1>1, <3>2 DEF ScreenError, LoadFailed, Failed, Show, IsPage, PageFields, SameEntry
    <3> QED BY <3>1, <3>2
  <2> QED BY <1>1, <1>r, <2>1, <2>2, EndedCalm, EntryCalm, AnswerTyping
<1>2. CASE calls[k].alive = "gone" /\ Unmounted(k)
  <2>1. PageCalm /\ Forgotten(k)
    BY <1>2, <1>r, EntryCalm DEF Unmounted, Show, SameEntry, Forgotten
  <2>2. CASE kind \in DOMAIN Fetching
    <3>1. PICK at: at = Fetching[kind]
      OBVIOUS
    <3>2. at \in DOMAIN LoadOf
      BY <2>2, <3>1 DEF Fetching, LoadOf
    <3>3. PICK c: c = [Load(at, calls[k].token) EXCEPT !.alive = "gone"]
      OBVIOUS
    <3>4. Asks(c) /\ calls' = Followed(k, c)
      BY <1>2, <2>2, <3>1, <3>2, <3>3, LoadAsks DEF Unmounted
    <3> QED BY <1>2, <1>e, <2>1, <3>4, AnswerCalm
  <2>3. CASE kind \notin DOMAIN Fetching
    BY <1>2, <1>e, <2>1, <2>3, EndedCalm DEF Unmounted
  <2> QED BY <2>2, <2>3
<1>3. CASE Suppressed(k)
  <2>1. PICK at: at = "home"
    OBVIOUS
  <2>2. NewEntry /\ Emptied
    BY <1>3, <2>1, ScreenAnew DEF Suppressed, Show
  <2>3. PICK c: c = Free
    OBVIOUS
  <2>4. Asks(c) /\ calls' = Left(Followed(k, c))
    BY <1>3, <2>3, FreeAsks DEF Suppressed, Ended, Followed
  <2>5. Inserting(calls[k]) => page'.text[kind] = NoDraft
    BY <1>i, <2>2 DEF Boxes, NewEntry, EmptyBoxes
  <2> QED BY <1>e, <1>r, <2>2, <2>4, <2>5, AnswerCalm, EntryCalm DEF Forgotten, NewEntry
<1>4. CASE kind \in {"contacted", "optOut"} /\ LeadUpdated(k) /\ calls[k].st = "done"
  <2>1. PICK r: r = calls[k].result
    OBVIOUS
  <2>2. IsRow(r)
    BY <1>4, <2>1 DEF TypingInv, RowsInv, Showing
  <2>3. page'.text = page.text /\ page'.touched = page.touched /\ page'.values = page.values /\ page'.data = r
    BY <1>4, <2>1 DEF LeadUpdated, Show, IsPage, PageFields
  <2>4. PageCalm /\ Forgotten(k)
    BY <1>4, <1>r, <2>2, <2>3 DEF PageCalm, OnlyEmptied, FieldsKept, Forgotten, Writes
  <2> QED BY <1>4, <1>e, <1>i, <2>4, EndedCalm DEF LeadUpdated
<1>5. CASE kind = "note" /\ NoteAdded(k)
  <2>1. calls' = Ended(k) /\ Forgotten(k)
    BY <1>5 DEF NoteAdded, Forgotten, Writes
  <2>2. CASE calls[k].alive = "form"
    <3>1. page' = [page EXCEPT !.text["note"] = NoDraft, !.busy = @ \ {"note"}]
      BY <1>5, <2>2 DEF NoteAdded, Show
    <3>2. /\ page'.text = [page.text EXCEPT !["note"] = NoDraft] /\ page'.touched = page.touched
          /\ page'.values = page.values /\ page'.data = page.data
      BY <3>1 DEF IsPage, PageFields
    <3>3. OnlyEmptied /\ page'.text["note"] = NoDraft
      BY <3>2 DEF IsPage, OnlyEmptied, Boxes
    <3>4. PageCalm
      BY <1>r, <3>2, <3>3 DEF PageCalm, FieldsKept
    <3> QED BY <1>5, <1>e, <2>1, <3>3, <3>4, EndedCalm
  <2>3. CASE calls[k].alive # "form"
    <3>1. SameEntry
      BY <1>5, <2>3 DEF NoteAdded, Show, SameEntry
    <3> QED BY <1>e, <1>r, <2>1, <2>3, <3>1, EndedCalm, EntryCalm
  <2> QED BY <2>2, <2>3
<1>6. CASE kind \notin Writes /\ FetchLead(k)
  <2>1. PICK at: at = "ficha"
    OBVIOUS
  <2>2. PICK c: c = Load(at, calls[k].token)
    OBVIOUS
  <2>3. Asks(c) /\ calls' = Orphans(Followed(k, c), {"form"}, "page")
    BY <1>6, <1>d, <2>1, <2>2, LoadAsks DEF FetchLead
  <2>4. PICK new: new = Screen(at)
    OBVIOUS
  <2>5. IsPage(new) /\ new.text = EmptyBoxes /\ new.touched = {} /\ IsRow(new.values)
    BY <2>4, ScreenIs, ScreenEmpty
  <2>6. page' = [new EXCEPT !.shown = "spinner", !.loading = TRUE, !.data = page.data]
    BY <1>6, <2>1, <2>4 DEF FetchLead, Show
  <2>7. page'.text = EmptyBoxes /\ page'.touched = {} /\ page'.values = new.values /\ page'.data = page.data
    BY <2>5, <2>6 DEF IsPage, PageFields
  <2>8. NewEntry /\ Emptied
    BY <1>r, <2>5, <2>7 DEF NewEntry, Emptied
  <2>9. Inserting(calls[k]) => page'.text[kind] = NoDraft
    BY <1>i, <2>7 DEF Boxes, EmptyBoxes
  <2> QED BY <1>6, <1>e, <1>r, <2>3, <2>8, <2>9, AnswerCalm, EntryCalm DEF Forgotten
<1>7. CASE CloseAndFetch(k)
  <2>1. PICK at: at = "stock"
    OBVIOUS
  <2>2. PICK c: c = Load(at, calls[k].token)
    OBVIOUS
  <2>3. Asks(c) /\ calls' = Unmodalled(Followed(k, c))
    BY <1>7, <1>d, <2>1, <2>2, LoadAsks DEF CloseAndFetch
  <2>4. page'.text = EmptyBoxes /\ page'.touched = {} /\ page'.values = NothingTyped /\ page'.data = page.data
    BY <1>7 DEF CloseAndFetch, Show, IsPage, PageFields
  <2>5. NewEntry /\ Emptied
    BY <1>r, <2>4, NothingIsRow DEF NewEntry, Emptied
  <2>6. Inserting(calls[k]) => page'.text[kind] = NoDraft
    BY <1>i, <2>4 DEF Boxes, EmptyBoxes
  <2> QED BY <1>e, <1>r, <2>3, <2>4, <2>5, <2>6, AnswerCalm, EntryCalm DEF Forgotten
<1>8. CASE kind \in {"newPerson", "deactivate", "reset"} /\ FetchPeople(k)
  <2>1. PICK at: at = "people"
    OBVIOUS
  <2>2. PICK c: c = Load(at, calls[k].token)
    OBVIOUS
  <2>3. Asks(c) /\ calls' = Followed(k, c)
    BY <1>8, <1>d, <2>1, <2>2, LoadAsks DEF FetchPeople
  <2>4. PICK d: d = IF kind = "newPerson" THEN NoDraft ELSE page.text["newPerson"]
    OBVIOUS
  <2>5. page' = [page EXCEPT !.text["newPerson"] = d, !.busy = @ \ {kind}, !.loading = TRUE, !.shown = "content"]
    BY <1>8, <2>4 DEF FetchPeople, Show
  <2>6. /\ page'.text = [page.text EXCEPT !["newPerson"] = d] /\ page'.touched = page.touched
        /\ page'.values = page.values /\ page'.data = page.data
    BY <2>5 DEF IsPage, PageFields
  <2>7. OnlyEmptied
    BY <2>4, <2>6 DEF IsPage, OnlyEmptied, Boxes
  <2>8. PageCalm /\ Forgotten(k)
    BY <1>8, <1>r, <2>6, <2>7 DEF PageCalm, FieldsKept, Forgotten, Writes
  <2>9. Inserting(calls[k]) => page'.text[kind] = NoDraft
    BY <1>8, <1>i, <2>4, <2>6 DEF IsPage, Boxes
  <2> QED BY <1>e, <2>3, <2>8, <2>9, AnswerCalm
<1>9. CASE kind \in {"status", "remove"} /\ FetchStock(k)
  <2>1. PICK at: at = "stock"
    OBVIOUS
  <2>2. PICK c: c = Load(at, calls[k].token)
    OBVIOUS
  <2>3. Asks(c) /\ calls' = Followed(k, c)
    BY <1>9, <1>d, <2>1, <2>2, LoadAsks DEF FetchStock
  <2>4. SameEntry /\ Forgotten(k)
    BY <1>9 DEF FetchStock, Show, IsPage, PageFields, SameEntry, Forgotten, Writes
  <2> QED BY <1>9, <1>e, <1>i, <1>r, <2>3, <2>4, EntryCalm, AnswerCalm
<1>10. CASE kind \in Loads /\ Loaded(k) /\ calls[k].st = "done"
  <2>1. PICK r: r = calls[k].result
    OBVIOUS
  <2>2. IsRow(r)
    BY <1>10, <2>1 DEF TypingInv, RowsInv, Showing
  <2>3. /\ page'.text = page.text /\ page'.touched = page.touched /\ page'.data = r
        /\ page'.values = IF page.shown = "spinner" THEN r ELSE page.values
    BY <1>10, <2>1 DEF Loaded, Show, IsPage, PageFields
  <2>4. PageCalm
    BY <1>r, <2>2, <2>3 DEF PageCalm, OnlyEmptied, FieldsKept
  <2>5. calls' = Ended(k) /\ kind \notin Inserts \cup Writes
    BY <1>10, LoadKinds DEF Loaded, Inserts, Writes
  <2> QED BY <1>e, <2>4, <2>5, EndedCalm DEF Inserting, Forgotten
<1>11. CASE kind = "assign" /\ AssignmentSaved(k) /\ calls[k].st = "done"
  <2>1. PICK r: r = calls[k].result
    OBVIOUS
  <2>2. IsRow(r)
    BY <1>11, <2>1 DEF TypingInv, RowsInv, Showing
  <2>3. /\ page'.text = page.text /\ page'.values = page.values /\ page'.data = r
        /\ page'.touched = IF calls[k].alive = "form" THEN {} ELSE page.touched
    BY <1>11, <2>1 DEF AssignmentSaved, Show, IsPage, PageFields
  <2>4. PageCalm /\ Forgotten(k)
    BY <1>r, <2>2, <2>3 DEF PageCalm, OnlyEmptied, FieldsKept, Forgotten
  <2> QED BY <1>11, <1>e, <1>i, <2>4, EndedCalm DEF AssignmentSaved
<1>12. CASE kind = "config" /\ ConfigSaved(k) /\ calls[k].st = "done"
  <2>1. PICK r: r = calls[k].result
    OBVIOUS
  <2>2. IsRow(r)
    BY <1>12, <2>1 DEF TypingInv, RowsInv, Showing
  <2>3. page'.text = page.text /\ page'.values = r /\ page'.data = page.data /\ page'.touched = {}
    BY <1>12, <2>1 DEF ConfigSaved, Show, IsPage, PageFields
  <2>4. PageCalm /\ Forgotten(k)
    BY <1>r, <2>2, <2>3 DEF PageCalm, OnlyEmptied, FieldsKept, Forgotten
  <2> QED BY <1>12, <1>e, <1>i, <2>4, EndedCalm DEF ConfigSaved
<1>13. CASE kind = "photo" /\ PhotoUploaded(k) /\ Hearing(k)
  BY <1>13, PhotoTyping DEF Hearing, Writes, Inserts
<1>14. CASE kind = "visit" /\ VisitUpdated(k)
  <2>1. calls' = Ended(k) /\ SameEntry
    BY <1>14 DEF VisitUpdated, Show, IsPage, PageFields, SameEntry
  <2> QED BY <1>14, <1>e, <1>i, <1>r, <2>1, EndedCalm, EntryCalm DEF Forgotten, Writes
<1>15. CASE kind \in WithNothing /\ \E ok: AgendaAnswered(k, ok)
  <2>1. calls' = Ended(k) /\ SameEntry
    BY <1>15 DEF AgendaAnswered, DetailsAnswered, SlotsAnswered, BookAnswered, Show, IsPage, PageFields, SameEntry
  <2>2. kind \notin Inserts \cup Writes
    BY <1>15 DEF Inserts, Writes, WithNothing
  <2> QED BY <1>e, <1>r, <2>1, <2>2, EndedCalm, EntryCalm DEF Forgotten, Inserting
<1>16. CASE calls[k].st = "done" /\ calls[k].alive # "gone" /\ OfAScreen(k) /\ AfterOk(k) /\ Hearing(k)
  <2>1. {"reply", "release"} \cap Writes = {}
    BY DEF Writes
  <2> QED BY <1>3, <1>4, <1>5, <1>6, <1>7, <1>8, <1>9, <1>10, <1>11, <1>12, <1>13, <1>14, <1>15, <1>16, <2>1, AfterOkIs
<1> QED BY <1>1, <1>2, <1>3, <1>16 DEF ScreenOk, Hearing

LEMMA SignedOutTyping ==
    ASSUME TypingInv, Shape, IsPage(page), NEW k \in Slots, ToLogin(k),
           ~Inserting(calls[k]) \/ calls[k].st # "done", UNCHANGED <<typed, made, unheard, row, heard>>
    PROVE  TypingInv'
<1>r. RowsInv
  BY DEF TypingInv
<1>1. CASE ~Public
  <2>1. PICK c: c = Free
    OBVIOUS
  <2>2. Asks(c) /\ calls' = Left(Followed(k, c))
    BY <1>1, <2>1, FreeAsks DEF ToLogin, Ended, Followed
  <2>3. PICK at: at = "login"
    OBVIOUS
  <2>4. NewEntry /\ Emptied
    BY <1>1, <2>3, ScreenAnew DEF ToLogin, LoginScreen
  <2> QED BY <1>r, <2>2, <2>4, AnswerCalm, EntryCalm, AnswerTyping
<1>2. CASE Public
  <2>1. calls' = Ended(k) /\ SameEntry
    BY <1>2 DEF ToLogin, IsPage, PageFields, SameEntry
  <2> QED BY <1>r, <2>1, EndedCalm, EntryCalm, AnswerTyping
<1> QED BY <1>1, <1>2

LEMMA DeliverTyping ==
    ASSUME TypingInv, PageInv, NEW k \in Slots, Deliver(k)
    PROVE  TypingInv'
<1>1. /\ Shape /\ IsPage(page) /\ Lives(calls[k]) /\ UNCHANGED <<typed, made, unheard, row>>
      /\ page.shown = "spinner" => page.touched = {}
  BY DEF PageInv, ScreenInv, PageShape, CallInv, Fits, Deliver, DeliverOk, DeliverError, Deliver401, server_vars
<1>r. RowsInv
  BY DEF TypingInv
<1>2. ASSUME NEW c, Asks(c), ~Inserting(calls[k]), calls' = Followed(k, c), SameEntry \/ NewEntry, heard' = heard
      PROVE  TypingInv'
  <2>1. WireCalm /\ ~Saver(calls'[k])
    BY <1>1, <1>2, AnswerCalm
  <2> QED BY <1>1, <1>2, <1>r, <2>1, EntryCalm, AnswerTyping
<1>3. ASSUME ~Inserting(calls[k]), calls' = Ended(k), SameEntry, heard' = heard PROVE TypingInv'
  <2>1. WireCalm /\ ~Saver(calls'[k])
    BY <1>1, <1>3, EndedCalm
  <2> QED BY <1>1, <1>3, <1>r, <2>1, EntryCalm, AnswerTyping
<1>4. ASSUME \/ calls[k].kind \in WithPassword \cup WithMasterKey \cup ReadinessCalls \cup {"me", "logout"}
      PROVE  ~Inserting(calls[k])
  BY <1>4 DEF Inserting, Inserts, WithPassword, WithMasterKey, ReadinessCalls
<1>5. CASE (DeliverOk(k) /\ ScreenOk(k)) \/ (DeliverError(k) /\ ScreenError(k))
  BY <1>1, <1>5, ScreenTyping DEF DeliverOk, DeliverError
<1>a. ASSUME NEW kind \in {"me", "bootstrap", "ownerLogin"}, NEW token,
             calls' = Followed(k, Call(kind, token, NoDraft, << >>)), page' = page, heard' = heard, ~Inserting(calls[k])
      PROVE  TypingInv'
  <2>1. PICK c: c = Call(kind, token, NoDraft, << >>)
    OBVIOUS
  <2>2. Asks(c) /\ calls' = Followed(k, c)
    BY <1>a, <2>1, CallIs DEF Asks, Saver, Writes, Inserts
  <2> QED BY <1>2, <1>a, <2>2 DEF SameEntry
<1>6. CASE calls[k].kind = "login" /\ LoginAnswered(k) /\ heard' = heard
  <2>1. PICK kind \in {"me"}: TRUE
    OBVIOUS
  <2> QED BY <1>4, <1>6, <1>a, <2>1 DEF WithPassword, LoginAnswered
<1>7. CASE calls[k].kind = "me" /\ MeAnswered(k) /\ heard' = heard
  <2>1. PICK r: r = Register(calls[k].token)
    OBVIOUS
  <2>2. PICK c \in {r, Free}: calls' = Followed(k, c)
    BY <1>7, <2>1 DEF MeAnswered, Followed, Ended
  <2>3. Asks(c)
    BY <2>1, <2>2, RegisterIs, FreeAsks DEF Asks, Saver, Writes, Inserts
  <2>4. PICK at: at = "home"
    OBVIOUS
  <2>5. NewEntry
    BY <1>7, <2>4, ScreenAnew DEF MeAnswered
  <2> QED BY <1>2, <1>4, <1>7, <2>2, <2>3, <2>5
<1>8. CASE calls[k].kind = "logout" /\ LogoutEnded(k) /\ heard' = heard
  BY <1>1, <1>4, <1>8, SignedOutTyping DEF LogoutEnded
<1>9. CASE calls[k].kind \in {"login", "me"} /\ LoginFailed(k) /\ heard' = heard
  <2>1. calls' = Ended(k) /\ SameEntry
    BY <1>1, <1>9 DEF LoginFailed, IsPage, PageFields, SameEntry
  <2> QED BY <1>3, <1>4, <1>9, <2>1 DEF WithPassword
<1>10. CASE (WizardOk(k) \/ WizardError(k)) /\ heard' = heard
  <2>1. ~Inserting(calls[k]) /\ page' = page
    BY <1>4, <1>10 DEF WizardOk, WizardError, WithMasterKey, WithPassword
  <2>2. \/ calls' = Ended(k)
        \/ \E kind \in {"bootstrap", "ownerLogin"}: calls' = Followed(k, Call(kind, Nobody, NoDraft, << >>))
    BY <1>10 DEF WizardOk, WizardError, TenantCreated, OwnerCreated, OwnerLoggedIn, TenantFailed, OwnerFailed,
                 OwnerLoginFailed
  <2> QED BY <1>3, <1>10, <1>a, <2>1, <2>2 DEF SameEntry
<1>11. ASSUME NEW ok, ReadinessEnded(k, ok), heard' = heard PROVE TypingInv'
  <2>1. calls' = Ended(k) /\ SameEntry
    BY <1>1, <1>11 DEF ReadinessEnded, ReadinessAnswered, Show, IsPage, PageFields, SameEntry
  <2> QED BY <1>3, <1>4, <1>11, <2>1 DEF ReadinessEnded
<1>12. CASE Deliver401(k)
  BY <1>1, <1>12, SignedOutTyping DEF Deliver401, SignedOut, server_vars
<1>13. PICK yes, no: yes = TRUE /\ no = FALSE
  OBVIOUS
<1>14. CASE DeliverOk(k)
  BY <1>5, <1>6, <1>7, <1>8, <1>10, <1>11, <1>13, <1>14 DEF DeliverOk, AuthOk, WizardOk
<1>15. CASE DeliverError(k)
  BY <1>5, <1>8, <1>9, <1>10, <1>11, <1>13, <1>15 DEF DeliverError, AuthError
<1> QED BY <1>12, <1>14, <1>15 DEF Deliver

-----------------------------------------------------------------------------
(* What the person does.                                                   *)

LEMMA AskTyping ==
    ASSUME TypingInv, Shape, NEW kind \in Kinds, ~(kind \in Writes \cup Inserts \cup {"photo"}),
           NEW token, NEW draft, NEW body, Send(Call(kind, token, draft, body)), SameEntry,
           UNCHANGED <<typed, made, unheard, row, heard>>
    PROVE  TypingInv'
<1>1. PICK c: c = Call(kind, token, draft, body)
  OBVIOUS
<1>2. Asks(c)
  BY <1>1, CallIs DEF Asks, Saver
<1> QED BY <1>1, <1>2, SendCalm, EntryCalm, CalmStep DEF TypingInv

\* Nothing is sent.
LEMMA StillTyping ==
    ASSUME TypingInv, Shape, calls' = calls, SameEntry \/ NewEntry, UNCHANGED <<typed, made, unheard, row, heard>>
    PROVE  TypingInv'
  BY StillCalm, EntryCalm, CalmStep DEF TypingInv

\* A new draft, in a box or in none.
LEMMA TypedDrafts ==
    ASSUME DraftInv, Shape, UNCHANGED <<calls, made, unheard>>, typed' = typed + 1,
           \A b \in Boxes: page'.text[b] \in {page.text[b], typed + 1},
           \A b \in Boxes: \A c \in Boxes \ {b}: ~(page'.text[b] = typed + 1 /\ page'.text[c] = typed + 1)
    PROVE  DraftInv'
<1>1. typed \in Nat /\ \A b \in Boxes: page.text[b] \in 0 .. typed
  BY DEF DraftInv, BoxInv
<1>2. BoxInv'
  BY <1>1 DEF DraftInv, BoxInv, NoDraft
<1>3. WireInv'
  BY <1>1 DEF DraftInv, WireInv, DraftsOnce
<1>4. \A d \in Drafts: Insertable(d)' => Insertable(d)
  BY <1>1, DraftNumbers DEF Insertable
<1>5. CountInv'
  BY <1>4 DEF DraftInv, CountInv
<1> QED BY <1>2, <1>3, <1>5 DEF DraftInv

\* UploadPhoto's draft is of no box.
LEMMA UploadDrafts ==
    ASSUME DraftInv, Shape, IsPage(page), UploadPhoto
    PROVE  DraftInv'
<1>1. PICK kind: kind = "photo"
  OBVIOUS
<1>2. PICK c: c = Call(kind, session, typed + 1, << >>)
  OBVIOUS
<1>3. IsCall(c) /\ ~Inserting(c)
  BY <1>1, <1>2, CallIs DEF Inserting, Inserts
<1>4. /\ Send(c) /\ typed' = typed + 1 /\ UNCHANGED <<made, unheard>>
      /\ page' = [page EXCEPT !.busy = @ \cup {"photo"}]
  BY <1>1, <1>2 DEF UploadPhoto, Show, server_vars
<1>5. page'.text = page.text
  BY <1>4 DEF IsPage, PageFields
<1>6. PICK n \in Slots: calls[n] = Free /\ calls'[n] = c /\ \A k \in Slots \ {n}: calls'[k] = calls[k]
  BY <1>3, <1>4, SendIs
<1>7. ~Inserting(calls[n])
  BY <1>6, FreeCall DEF Inserting, Inserts
<1>8. typed \in Nat /\ BoxInv'
  BY <1>4, <1>5 DEF DraftInv, BoxInv
<1>9. \A j \in Slots: Inserting(calls'[j]) => j # n /\ calls'[j] = calls[j]
  BY <1>3, <1>6
<1>10. WireInv'
  BY <1>4, <1>5, <1>8, <1>9 DEF DraftInv, WireInv, DraftsOnce
<1>11. \A d \in Drafts: Insertable(d)' => Insertable(d)
  BY <1>4, <1>5, <1>8, <1>9, DraftNumbers DEF Insertable, OnItsWay
<1>12. \A d \in Drafts: \A j \in Slots: Inserted(calls[j], d) => Inserted(calls'[j], d)
  BY <1>6, <1>7 DEF Inserted
<1>13. CountInv'
  BY <1>4, <1>11, <1>12 DEF DraftInv, CountInv
<1> QED BY <1>8, <1>10, <1>13 DEF DraftInv

\* A box is sent: nothing under way carries its draft, for its form would be busy.
LEMMA InsertDrafts ==
    ASSUME DraftInv, PageInv, NEW b \in Boxes, b \in Inserts, page.text[b] # NoDraft, Press(b, page.text[b], << >>)
    PROVE  DraftInv'
<1>1. PICK c: c = Call(b, session, page.text[b], << >>)
  OBVIOUS
<1>2. IsCall(c) /\ c.kind = b /\ c.draft = page.text[b] /\ c.st = "sent" /\ c.alive = "form" /\ Inserting(c)
  BY <1>1, CallIs DEF Inserting
<1>3. /\ Send(c) /\ b \notin page.busy /\ UNCHANGED <<typed, made, unheard>>
      /\ page' = [page EXCEPT !.busy = IF b \in Unguarded THEN @ ELSE @ \cup {b}]
  BY <1>1 DEF Press, Show, server_vars
<1>4. page'.text = page.text /\ Shape
  BY <1>3 DEF PageInv, ScreenInv, PageShape, IsPage, PageFields
<1>5. PICK n \in Slots: calls[n] = Free /\ calls'[n] = c /\ \A k \in Slots \ {n}: calls'[k] = calls[k]
  BY <1>2, <1>3, <1>4, SendIs
<1>6. ~Inserting(calls[n])
  BY <1>5, FreeCall DEF Inserting, Inserts
<1>7. \A k \in Slots: Inserting(calls[k]) => calls[k].draft # page.text[b]
  <2> SUFFICES ASSUME NEW k \in Slots, Inserting(calls[k]), calls[k].draft = page.text[b] PROVE FALSE
    OBVIOUS
  <2>1. calls[k].kind = b /\ calls[k].alive = "form"
    BY DEF DraftInv, WireInv, DraftsOnce
  <2>2. Fits(calls[k], page)
    BY DEF PageInv, CallInv
  <2> QED BY <1>3, <2>1, <2>2 DEF Fits, Guarded
<1>8. BoxInv' /\ page.text[b] \in 1 .. typed
  BY <1>3, <1>4 DEF DraftInv, BoxInv, NoDraft
<1>9. WireInv'
  <2> SUFFICES ASSUME NEW k \in Slots, Inserting(calls'[k]) PROVE DraftsOnce(k)'
    BY DEF WireInv
  <2>1. CASE k = n
    <3>1. calls'[k].draft \in 1 .. typed'
      BY <1>2, <1>3, <1>5, <1>8, <2>1
    <3>2. \A a \in Boxes: page'.text[a] = calls'[k].draft => calls'[k].kind = a /\ calls'[k].alive = "form"
      BY <1>2, <1>4, <1>5, <2>1 DEF DraftInv, BoxInv
    <3>3. \A j \in Slots \ {k}: Inserting(calls'[j]) => calls'[j].draft # calls'[k].draft
      BY <1>2, <1>5, <1>7, <2>1
    <3> QED BY <3>1, <3>2, <3>3 DEF DraftsOnce
  <2>2. CASE k # n
    <3>1. Inserting(calls[k]) /\ DraftsOnce(k) /\ calls'[k] = calls[k]
      BY <1>5, <2>2 DEF DraftInv, WireInv
    <3> QED BY <1>2, <1>3, <1>4, <1>5, <1>7, <3>1 DEF DraftsOnce
  <2> QED BY <2>1, <2>2
<1>10. \A d \in Drafts: Insertable(d)' => Insertable(d)
  BY <1>2, <1>3, <1>4, <1>5 DEF Insertable, OnItsWay
<1>11. \A d \in Drafts: \A j \in Slots: Inserted(calls[j], d) => Inserted(calls'[j], d)
  BY <1>5, <1>6 DEF Inserted
<1>12. CountInv'
  BY <1>3, <1>10, <1>11 DEF DraftInv, CountInv
<1> QED BY <1>8, <1>9, <1>12 DEF DraftInv

LEMMA InsertTyping ==
    ASSUME TypingInv, PageInv, NEW b \in Boxes, b \in Inserts, page.text[b] # NoDraft, Press(b, page.text[b], << >>)
    PROVE  TypingInv'
<1>1. PICK c: c = Call(b, session, page.text[b], << >>)
  OBVIOUS
<1>2. IsCall(c) /\ c.kind = b /\ c.draft = page.text[b] /\ c.st = "sent" /\ c.body = << >>
  BY <1>1, CallIs
<1>3. /\ Send(c) /\ UNCHANGED <<typed, row, heard>> /\ Shape
      /\ page' = [page EXCEPT !.busy = IF b \in Unguarded THEN @ ELSE @ \cup {b}]
  BY <1>1 DEF Press, Show, server_vars, PageInv
<1>4. SameEntry
  BY <1>3 DEF PageInv, ScreenInv, PageShape, IsPage, PageFields, SameEntry
<1>5. PICK n \in Slots: calls'[n] = c /\ \A k \in Slots \ {n}: calls'[k] = calls[k]
  BY <1>2, <1>3, SendIs
<1>6. BoxSent(c)
  BY <1>2 DEF BoxSent, Inserting, Lines
<1>7. ValueInv'
  <2>1. \A j \in Slots: Carries(calls'[j], calls[j]) \/ BoxSent(calls'[j])
    BY <1>5, <1>6 DEF Carries
  <2> QED BY <1>3, <1>4, <2>1, ValuesStay DEF TypingInv, SameEntry, OnlyEmptied, FieldsKept
<1>8. RowsInv'
  BY <1>2, <1>3, <1>4, <1>5, RowsWait DEF TypingInv, RowsInv
<1>9. DraftInv'
  BY InsertDrafts DEF TypingInv
<1> QED BY <1>7, <1>8, <1>9 DEF TypingInv

\* A form is sent: nothing under way carries what is in it, for it would be busy.
LEMMA WriteTyping ==
    ASSUME TypingInv, PageInv, NEW kind \in Writes, kind \notin page.busy, AtHome(kind, page.at),
           NEW token, NEW body, {body[c] : c \in DOMAIN body} \subseteq Entered,
           Send(Call(kind, token, NoDraft, body)), SameEntry, UNCHANGED <<typed, made, unheard, row, heard>>
    PROVE  TypingInv'
<1>1. PICK c: c = Call(kind, token, NoDraft, body)
  OBVIOUS
<1>2. IsCall(c) /\ c.kind = kind /\ c.draft = NoDraft /\ c.st = "sent" /\ c.body = body /\ c.alive = "form"
  BY <1>1, CallIs
<1>3. PICK n \in Slots: calls[n] = Free /\ calls'[n] = c /\ \A k \in Slots \ {n}: calls'[k] = calls[k]
  BY <1>1, <1>2, SendIs DEF PageInv
<1>4. ~Inserting(c) /\ PhotoOf(c) = {} /\ BodyOf(c) \subseteq Entered
  BY <1>2 DEF Inserting, Inserts, Writes, PhotoOf, BodyOf
<1>5. ASSUME NEW j \in Slots PROVE BodyOf(calls[j]) \cap Entered = {}
  <2> SUFFICES ASSUME BodyOf(calls[j]) \cap Entered # {} PROVE FALSE
    OBVIOUS
  <2>1. calls[j].alive = "form" /\ calls[j].kind \in Writes
    BY DEF TypingInv, ValueInv, OneWayInv, OneWay, BodyOf
  <2>2. Fits(calls[j], page)
    BY DEF PageInv, CallInv
  <2>3. calls[j].kind = kind
    BY <2>1, <2>2 DEF Fits, AtHome, Writes, OfALead
  <2> QED BY <2>1, <2>2, <2>3 DEF Fits, Guarded
<1>6. DraftInv'
  <2>1. ~Inserting(calls[n])
    BY <1>3, FreeCall DEF Inserting, Inserts
  <2>2. \A j \in Slots: Onward(calls'[j], calls[j]) \/ Settled(calls'[j], calls[j])
    BY <1>3, <1>4, <2>1, SameOnward DEF PageInv, Shape, Settled
  <2> QED BY <2>2, DraftsGoOn DEF TypingInv, DraftInv, CountInv, SameEntry, OnlyEmptied
<1>7. RowsInv'
  BY <1>2, <1>3, RowsWait DEF TypingInv, RowsInv
<1>8. Entered' = Entered /\ Lines' = Lines
  <2>1. ~Inserting(calls[n])
    BY <1>3, FreeCall DEF Inserting, Inserts
  <2> QED BY <1>3, <1>4, <2>1 DEF SameEntry, Entered, Lines
<1>9. ReachInv' /\ NewsInv'
  BY <1>3, <1>4, <1>8 DEF TypingInv, ValueInv, ReachInv, NewsInv
<1>10. ASSUME NEW j \in Slots PROVE OneWay(j)'
  <2>1. CASE j = n
    <3>1. \A i \in Slots \ {n}: BodyOf(c) \cap BodyOf(calls[i]) = {} /\ PhotoOf(calls[i]) \cap BodyOf(c) = {}
      BY <1>4, <1>5 DEF TypingInv, ValueInv, NewsInv
    <3> QED BY <1>2, <1>3, <1>4, <2>1, <3>1 DEF OneWay
  <2>2. CASE j # n
    <3>1. OneWay(j) /\ calls'[j] = calls[j]
      BY <1>3, <2>2 DEF TypingInv, ValueInv, OneWayInv
    <3>2. BodyOf(calls[j]) \cap BodyOf(c) = {} /\ PhotoOf(calls[j]) \cap BodyOf(c) = {}
      BY <1>4, <1>5 DEF TypingInv, ValueInv, NewsInv
    <3> QED BY <1>3, <1>4, <1>8, <3>1, <3>2 DEF OneWay
  <2> QED BY <2>1, <2>2
<1> QED BY <1>6, <1>7, <1>9, <1>10 DEF TypingInv, ValueInv, OneWayInv

\* What is typed now is of nothing else.
LEMMA ValuesTyped ==
    ASSUME ValueInv, typed \in Nat, typed' = typed + 1, UNCHANGED <<calls, heard>>, NEW A, NEW B, A \cap B = {},
           A \cup B \subseteq {typed + 1, -(typed + 1)}, Entered' \subseteq Entered \cup A, Lines' \subseteq Lines \cup B
    PROVE  ValueInv'
<1>1. /\ (A \cup B) \cap (-typed .. typed) = {} /\ A \cup B \subseteq -typed' .. typed'
      /\ -typed .. typed \subseteq -typed' .. typed'
  OBVIOUS
<1>2. Entered \cup Lines \cup heard \subseteq -typed .. typed
  BY DEF ValueInv, ReachInv
<1>3. \A k \in Slots: BodyOf(calls[k]) \cup PhotoOf(calls[k]) \subseteq -typed .. typed
  BY DEF ValueInv, ReachInv
<1>4. ReachInv'
  BY <1>1, <1>2, <1>3 DEF ReachInv
<1>5. Entered' \cap (heard' \cup Lines') = {}
  BY <1>1, <1>2 DEF ValueInv, NewsInv
<1>6. ASSUME NEW k \in Slots
      PROVE  /\ BodyOf(calls[k]) \cap (heard \cup Lines') = {}
             /\ PhotoOf(calls[k]) \cap (heard \cup Lines' \cup Entered') = {}
             /\ BodyOf(calls[k]) \cap Entered' \subseteq Entered
  BY <1>1, <1>3 DEF ValueInv, NewsInv
<1>7. NewsInv'
  BY <1>5, <1>6 DEF NewsInv
<1>8. OneWayInv'
  BY <1>6 DEF ValueInv, OneWayInv, OneWay
<1> QED BY <1>4, <1>7, <1>8 DEF ValueInv

\* A photo is its own draft, till its upload is answered.
LEMMA UploadTyping == ASSUME TypingInv, PageInv, UploadPhoto PROVE TypingInv'
<1>p. Shape /\ IsPage(page)
  BY DEF PageInv, ScreenInv, PageShape
<1>1. PICK kind: kind = "photo"
  OBVIOUS
<1>2. PICK c: c = Call(kind, session, typed + 1, << >>)
  OBVIOUS
<1>3. IsCall(c) /\ c.kind = kind /\ c.draft = typed + 1 /\ c.st = "sent"
  BY <1>1, <1>2, CallIs
<1>4. ~Inserting(c) /\ kind \notin Writes /\ BodyOf(c) = {} /\ PhotoOf(c) = {typed + 1}
  BY <1>1, <1>3 DEF Inserting, Inserts, Writes, BodyOf, PhotoOf
<1>5. /\ Send(c) /\ typed' = typed + 1 /\ UNCHANGED <<row, heard>>
      /\ page' = [page EXCEPT !.busy = @ \cup {"photo"}]
  BY <1>1, <1>2 DEF UploadPhoto, Show, server_vars
<1>6. SameEntry
  BY <1>p, <1>5 DEF IsPage, PageFields, SameEntry
<1>7. PICK n \in Slots: calls[n] = Free /\ calls'[n] = c /\ \A k \in Slots \ {n}: calls'[k] = calls[k]
  BY <1>3, <1>5, <1>p, SendIs
<1>8. DraftInv'
  BY <1>p, UploadDrafts DEF TypingInv
<1>9. RowsInv'
  BY <1>3, <1>5, <1>6, <1>7, RowsWait DEF TypingInv, RowsInv
<1>10. Entered' = Entered /\ Lines' = Lines
  <2>1. ~Inserting(calls[n])
    BY <1>7, FreeCall DEF Inserting, Inserts
  <2> QED BY <1>4, <1>6, <1>7, <2>1 DEF SameEntry, Entered, Lines
<1>11. typed \in Nat /\ typed + 1 \notin -typed .. typed /\ -typed .. typed \subseteq -typed' .. typed'
       /\ typed + 1 \in -typed' .. typed'
  BY <1>5 DEF TypingInv, DraftInv, BoxInv
<1>12. /\ Entered \cup Lines \cup heard \subseteq -typed .. typed
       /\ \A k \in Slots: BodyOf(calls[k]) \cup PhotoOf(calls[k]) \subseteq -typed .. typed
  BY DEF TypingInv, ValueInv, ReachInv
<1>13. ReachInv'
  BY <1>4, <1>5, <1>7, <1>10, <1>11, <1>12 DEF ReachInv
<1>14. NewsInv'
  BY <1>4, <1>5, <1>7, <1>10, <1>11, <1>12 DEF TypingInv, ValueInv, NewsInv
<1>15. ASSUME NEW j \in Slots PROVE OneWay(j)'
  <2>1. CASE j = n
    <3>1. \A i \in Slots \ {n}: PhotoOf(c) \cap (BodyOf(calls[i]) \cup PhotoOf(calls[i])) = {}
      BY <1>4, <1>11, <1>12
    <3> QED BY <1>1, <1>3, <1>4, <1>7, <2>1, <3>1 DEF OneWay
  <2>2. CASE j # n
    <3>1. OneWay(j) /\ calls'[j] = calls[j]
      BY <1>7, <2>2 DEF TypingInv, ValueInv, OneWayInv
    <3>2. PhotoOf(calls[j]) \cap PhotoOf(c) = {}
      BY <1>4, <1>11, <1>12
    <3> QED BY <1>4, <1>7, <1>10, <3>1, <3>2 DEF OneWay
  <2> QED BY <2>1, <2>2
<1> QED BY <1>8, <1>9, <1>13, <1>14, <1>15 DEF TypingInv, ValueInv, OneWayInv

LEMMA FieldTyping == ASSUME TypingInv, PageInv, NEW c \in Cols, TypeField(c) PROVE TypingInv'
<1>p. Shape /\ IsPage(page)
  BY DEF PageInv, ScreenInv, PageShape
<1>1. PICK v \in {typed + 1, -(typed + 1)}: page' = [page EXCEPT !.values[c] = v, !.touched = @ \cup {c}]
  BY DEF TypeField, Show
<1>2. typed' = typed + 1 /\ UNCHANGED <<calls, row, made, unheard, heard>>
  BY DEF TypeField, server_vars
<1>3. /\ page'.text = page.text /\ page'.data = page.data /\ page'.touched = page.touched \cup {c}
      /\ page'.values = [page.values EXCEPT ![c] = v]
  BY <1>1, <1>p DEF IsPage, PageFields
<1>4. RowsInv'
  BY <1>2, <1>3 DEF TypingInv, RowsInv, IsRow
<1>5. typed \in Nat /\ \A b \in Boxes: page.text[b] # typed + 1
  BY DEF TypingInv, DraftInv, BoxInv
<1>6. DraftInv'
  BY <1>p, <1>2, <1>3, <1>5, TypedDrafts DEF TypingInv
<1>7. PICK A, B: A = {v} /\ B = {}
  OBVIOUS
<1>8. A \cap B = {} /\ A \cup B \subseteq {typed + 1, -(typed + 1)}
  BY <1>7
<1>9. Entered' \subseteq Entered \cup A
  <2>1. ASSUME NEW d \in page'.touched PROVE page'.values[d] \in Entered \cup {v}
    <3>1. d = c \/ d \in page.touched
      BY <1>3
    <3>2. page'.values[d] = IF d = c THEN v ELSE page.values[d]
      BY <1>3, <3>1 DEF TypingInv, RowsInv, IsRow
    <3> QED BY <3>1, <3>2 DEF Entered
  <2> QED BY <1>7, <2>1 DEF Entered
<1>10. Lines' \subseteq Lines \cup B
  BY <1>2, <1>3 DEF Lines
<1> HIDE <1>7
<1>11. ValueInv'
  BY <1>2, <1>5, <1>8, <1>9, <1>10, ValuesTyped DEF TypingInv
<1> QED BY <1>4, <1>6, <1>11 DEF TypingInv

LEMMA TextTyping == ASSUME TypingInv, PageInv, NEW b \in Boxes, TypeText(b) PROVE TypingInv'
<1>p. Shape /\ IsPage(page)
  BY DEF PageInv, ScreenInv, PageShape
<1>1. /\ page' = [page EXCEPT !.text[b] = typed + 1] /\ typed' = typed + 1
      /\ UNCHANGED <<calls, row, made, unheard, heard>>
  BY DEF TypeText, Show, server_vars
<1>2. /\ page'.text = [page.text EXCEPT ![b] = typed + 1] /\ page'.touched = page.touched
      /\ page'.values = page.values /\ page'.data = page.data
  BY <1>p, <1>1 DEF IsPage, PageFields
<1>3. page'.text[b] = typed + 1 /\ \A a \in Boxes \ {b}: page'.text[a] = page.text[a]
  BY <1>p, <1>2 DEF IsPage
<1>4. RowsInv'
  BY <1>1, <1>2 DEF TypingInv, RowsInv, IsRow
<1>5. typed \in Nat /\ \A a \in Boxes: page.text[a] # typed + 1
  BY DEF TypingInv, DraftInv, BoxInv
<1>6. DraftInv'
  BY <1>p, <1>1, <1>3, <1>5, TypedDrafts DEF TypingInv
<1>7. PICK A, B: A = {} /\ B = {typed + 1}
  OBVIOUS
<1>8. A \cap B = {} /\ A \cup B \subseteq {typed + 1, -(typed + 1)}
  BY <1>7
<1>9. Entered' \subseteq Entered \cup A
  BY <1>2 DEF Entered
<1>10. Lines' \subseteq Lines \cup B
  <2>1. \A a \in Boxes: page'.text[a] \in Lines \cup B
    BY <1>3, <1>7 DEF Lines
  <2> QED BY <1>1, <2>1 DEF Lines
<1> HIDE <1>7
<1>11. ValueInv'
  BY <1>1, <1>5, <1>8, <1>9, <1>10, ValuesTyped DEF TypingInv
<1> QED BY <1>4, <1>6, <1>11 DEF TypingInv

\* A new page, without what was typed in the old one.
LEMMA ReloadTyping == ASSUME TypingInv, PageInv, Reload PROVE TypingInv'
<1>p. Shape
  BY DEF PageInv
<1>1. PICK r: r = Register(stored)
  OBVIOUS
<1>2. IsCall(r) /\ ~Saver(r) /\ ~Inserting(r) /\ r.st # "done"
  BY <1>1, RegisterIs DEF Saver, Inserting, Writes, Inserts
<1>3. /\ UNCHANGED <<typed, made, row, heard>> /\ NextSlot \in Slots
      /\ calls' = Dropped(calls) \/ calls' = [Dropped(calls) EXCEPT ![NextSlot] = r]
  BY <1>1, NextSlotIs DEF Reload, server_vars
<1>4. PICK at \in {"login", "home"}: page' = Screen(at)
  BY DEF Reload, LoginScreen
<1>5. NewEntry /\ Emptied
  BY <1>4, ScreenAnew
<1>6. \A j \in Slots: calls'[j] = r \/ calls'[j] = Dropped(calls)[j]
  BY <1>3, DroppedShape
<1>7. \A j \in Slots: Inserting(calls[j]) => page'.text[calls[j].kind] = NoDraft
  BY <1>5 DEF NewEntry, EmptyBoxes, Inserting, Inserts, Boxes
<1>8. WireCalm
  <2>1. ASSUME NEW j \in Slots
        PROVE  \/ Onward(calls'[j], calls[j])
               \/ ~Saver(calls'[j]) /\ calls'[j].st # "done" /\ Settled(calls'[j], calls[j])
    <3>1. CASE calls'[j] = r
      BY <1>2, <1>7, <3>1 DEF Settled
    <3>2. CASE calls'[j] = Dropped(calls)[j] /\ calls'[j] # Free
      BY <1>p, <1>5, <3>2, DroppedAre DEF Shape, Onward
    <3>3. CASE calls'[j] = Free
      BY <1>7, <3>3, FreeAsks DEF Asks, Settled, Saver, Inserting
    <3> QED BY <1>6, <3>1, <3>2, <3>3
  <2> QED BY <2>1 DEF WireCalm
<1>9. /\ unheard' = [d \in Drafts |-> unheard'[d]]
      /\ \A d \in Drafts: unheard'[d] \in Nat /\ unheard[d] <= unheard'[d]
  <2> DEFINE lost(d) == {k \in Slots: calls[k].draft = d /\ calls[k].st = "done"}
  <2>1. unheard' = [d \in Drafts |-> unheard[d] + Cardinality(lost(d))]
    BY DEF Reload
  <2>2. \A d \in Drafts: Cardinality(lost(d)) \in Nat
    <3> TAKE d \in Drafts
    <3>1. IsFiniteSet(Slots)
      BY PanelAssumption DEF Counted
    <3>2. IsFiniteSet(lost(d))
      BY <3>1, FS_Subset
    <3> QED BY <3>2, FS_CardinalityType
  <2> HIDE DEF lost
  <2> QED BY <2>1, <2>2 DEF TypingInv, DraftInv, CountInv
<1>10. PageCalm
  BY <1>5, EntryCalm DEF TypingInv
<1> QED BY <1>3, <1>8, <1>9, <1>10, CalmStep

LEMMA OpenTyping == ASSUME TypingInv, PageInv, NEW at \in left.screens, Open(at) PROVE TypingInv'
<1>p. Shape
  BY DEF PageInv
<1>1. PICK c: c = Load(at, session)
  OBVIOUS
<1>2. /\ UNCHANGED <<typed, made, unheard, row, heard>>
      /\ \/ /\ at \in DOMAIN LoadOf /\ NextSlot \in Slots /\ calls[NextSlot] = Free
            /\ calls' = [Left(calls) EXCEPT ![NextSlot] = c]
            /\ page' = [Screen(at) EXCEPT !.loading = TRUE,
                            !.shown = IF at \in OfALead THEN "spinner" ELSE "content"]
         \/ calls' = Left(calls) /\ page' = Screen(at)
  BY <1>1, NextSlotIs DEF Open, Show, server_vars
<1>3. PICK new: new = Screen(at)
  OBVIOUS
<1>4. IsPage(new) /\ new.text = EmptyBoxes /\ new.touched = {} /\ IsRow(new.values) /\ IsRow(new.data)
  BY <1>3, ScreenIs, ScreenEmpty
<1>5. /\ page'.text = new.text /\ page'.touched = new.touched
      /\ page'.values = new.values /\ page'.data = new.data
  BY <1>2, <1>3, <1>4 DEF IsPage, PageFields
<1>6. NewEntry /\ Emptied
  BY <1>4, <1>5 DEF NewEntry, Emptied
<1>7. \A j \in Slots: Onward(Left(calls)[j], calls[j])
  BY <1>p, <1>6, EmptyingOnward DEF Shape
<1>8. WireCalm
  <2>1. CASE calls' = Left(calls)
    BY <1>7, <2>1 DEF WireCalm
  <2>2. CASE /\ at \in DOMAIN LoadOf /\ NextSlot \in Slots /\ calls[NextSlot] = Free
             /\ calls' = [Left(calls) EXCEPT ![NextSlot] = c]
    <3>1. Left(calls) = [j \in Slots |-> Left(calls)[j]]
      BY OrphansShape DEF Left
    <3>2. calls'[NextSlot] = c /\ \A j \in Slots \ {NextSlot}: calls'[j] = Left(calls)[j]
      BY <2>2, <3>1
    <3>3. ~Saver(c) /\ c.st # "done" /\ Settled(c, calls[NextSlot])
      BY <1>1, <2>2, LoadAsks, FreeAsks DEF Asks, Settled, Saver, Inserting
    <3> QED BY <1>7, <3>2, <3>3 DEF WireCalm
  <2> QED BY <1>2, <2>1, <2>2
<1>9. PageCalm
  BY <1>6, EntryCalm DEF TypingInv
<1> QED BY <1>2, <1>8, <1>9, CalmStep

\* The modal of the stock.
LEMMA ModalTyping ==
    ASSUME TypingInv, PageInv, CloseModal \/ \E kind \in {"edit", "create"}: OpenModal(kind)
    PROVE  TypingInv'
<1>p. Shape /\ IsPage(page) /\ IsRow(page.values) /\ IsRow(page.data)
  BY DEF PageInv, ScreenInv, PageShape, TypingInv, RowsInv
<1>1. CASE CloseModal
  <2>1. /\ page'.text = EmptyBoxes /\ page'.touched = {} /\ page'.values = NothingTyped /\ page'.data = page.data
        /\ calls' = Unmodalled(calls) /\ UNCHANGED <<typed, made, unheard, row, heard>>
    BY <1>1, <1>p DEF CloseModal, Show, IsPage, PageFields, server_vars
  <2>2. NewEntry /\ Emptied
    BY <1>p, <2>1, NothingIsRow DEF NewEntry, Emptied
  <2>3. WireCalm
    BY <1>p, <2>1, <2>2, EmptyingOnward DEF Shape, WireCalm
  <2>4. PageCalm
    BY <2>2, EntryCalm DEF TypingInv
  <2> QED BY <2>1, <2>3, <2>4, CalmStep
<1>2. ASSUME NEW kind \in {"edit", "create"}, OpenModal(kind) PROVE TypingInv'
  <2>1. PICK v: v = IF kind = "edit" THEN page.data ELSE NothingTyped
    OBVIOUS
  <2>2. IsRow(v)
    BY <1>p, <2>1, NothingIsRow
  <2>3. /\ page' = [page EXCEPT !.modal = kind, !.touched = {}, !.values = v]
        /\ calls' = calls /\ UNCHANGED <<typed, made, unheard, row, heard>>
    BY <1>2, <2>1 DEF OpenModal, Show, server_vars
  <2>4. page'.text = page.text /\ page'.touched = {} /\ page'.values = v /\ page'.data = page.data
    BY <1>p, <2>3 DEF IsPage, PageFields
  <2>5. PageCalm
    BY <1>p, <2>2, <2>4 DEF PageCalm, OnlyEmptied, FieldsKept
  <2> QED BY <1>p, <2>3, <2>5, StillCalm, CalmStep
<1> QED BY <1>1, <1>2

LEMMA PromptTyping == ASSUME TypingInv, Shape, NEW k \in Slots, AnswerPrompt(k) PROVE TypingInv'
<1>1. PICK c: c = [calls[k] EXCEPT !.st = "sent"]
  OBVIOUS
<1>2. /\ calls[k].st = "prompt" /\ UNCHANGED <<page, typed, made, unheard, row, heard>>
      /\ calls' = Followed(k, c) \/ calls' = Followed(k, Free)
  BY <1>1 DEF AnswerPrompt, Ended, Followed, Shape, server_vars
<1>3. ~Saver(calls[k]) /\ ~Inserting(calls[k])
  BY <1>2 DEF TypingInv, RowsInv, Saver, Inserting
<1>4. Asks(c)
  BY <1>1, <1>3 DEF Shape, IsCall, CallFields, Asks, Saver
<1>5. PICK d \in {c, Free}: calls' = Followed(k, d)
  BY <1>2
<1>6. Asks(d)
  BY <1>4, <1>5, FreeAsks
<1>7. WireCalm
  BY <1>3, <1>5, <1>6, AnswerCalm
<1>8. PageCalm
  BY <1>2, EntryCalm DEF TypingInv, SameEntry
<1> QED BY <1>2, <1>7, <1>8, CalmStep

\* What is touched is saved.
LEMMA SaveTyping ==
    ASSUME TypingInv, PageInv, SaveAssignment \/ SaveProperty \/ SaveConfig \/ SaveWizardConfig
    PROVE  TypingInv'
<1>p. IsPage(page)
  BY DEF PageInv, ScreenInv, PageShape
<1>1. PICK assign, update, config: assign = "assign" /\ update = "update" /\ config = "config"
  OBVIOUS
<1>2. {assign, update, config} \subseteq Writes
  BY <1>1 DEF Writes
<1>3. /\ page.at \in OfALead => AtHome(assign, page.at)
      /\ page.at = "stock" => AtHome(update, page.at)
      /\ page.at \in {"config", "wizard"} => AtHome(config, page.at)
  BY <1>1 DEF AtHome, LoginCalls, ReadinessCalls, WithMasterKey, WithNothing
<1>4. ASSUME NEW body, body = Touched \/ body = PropertyBody PROVE {body[c] : c \in DOMAIN body} \subseteq Entered
  BY <1>4 DEF Touched, PropertyBody, Entered
<1>5. ASSUME NEW kind \in Writes, NEW body, body = Touched \/ body = PropertyBody,
             Press(kind, NoDraft, body), AtHome(kind, page.at)
      PROVE  TypingInv'
  <2>1. /\ kind \notin page.busy /\ Send(Call(kind, session, NoDraft, body))
        /\ page' = [page EXCEPT !.busy = IF kind \in Unguarded THEN @ ELSE @ \cup {kind}]
        /\ UNCHANGED <<typed, made, unheard, row, heard>>
    BY <1>5 DEF Press, Show, server_vars
  <2>2. SameEntry
    BY <1>p, <2>1 DEF IsPage, PageFields, SameEntry
  <2>3. {body[c] : c \in DOMAIN body} \subseteq Entered
    BY <1>4, <1>5
  <2> QED BY <1>5, <2>1, <2>2, <2>3, WriteTyping
<1>6. PICK entered, some: entered = Touched /\ some = PropertyBody
  OBVIOUS
<1>7. CASE SaveWizardConfig
  <2>1. /\ config \notin page.busy /\ Send(Call(config, wizard.token, NoDraft, entered)) /\ page.at = "wizard"
        /\ page' = [page EXCEPT !.busy = @ \cup {config}] /\ UNCHANGED <<typed, made, unheard, row, heard>>
    BY <1>1, <1>6, <1>7 DEF SaveWizardConfig, AtWizard, Show, server_vars
  <2>2. SameEntry
    BY <1>p, <2>1 DEF IsPage, PageFields, SameEntry
  <2>3. {entered[c] : c \in DOMAIN entered} \subseteq Entered
    BY <1>4, <1>6
  <2> QED BY <1>2, <1>3, <2>1, <2>2, <2>3, WriteTyping
<1>8. CASE SaveAssignment
  <2>1. page.at \in OfALead /\ Press(assign, NoDraft, entered)
    BY <1>1, <1>6, <1>8 DEF SaveAssignment, OnALead
  <2> QED BY <1>2, <1>3, <1>5, <1>6, <2>1
<1>9. CASE SaveProperty
  <2>1. page.at = "stock" /\ Press(update, NoDraft, some)
    BY <1>1, <1>6, <1>9 DEF SaveProperty, On
  <2> QED BY <1>2, <1>3, <1>5, <1>6, <2>1
<1>10. CASE SaveConfig
  <2>1. page.at = "config" /\ Press(config, NoDraft, entered)
    BY <1>1, <1>6, <1>10 DEF SaveConfig, On
  <2> QED BY <1>2, <1>3, <1>5, <1>6, <2>1
<1> QED BY <1>7, <1>8, <1>9, <1>10

LEMMA PersonTyping == ASSUME TypingInv, PageInv, Person PROVE TypingInv'
<1>p. Shape /\ IsPage(page)
  BY DEF PageInv, ScreenInv, PageShape
<1>k. ASSUME NEW kind, kind \in {"login", "logout", "tenant", "bootstrap", "ownerLogin", "import", "contacted", "optOut",
                                 "release", "suppress", "status", "remove", "deactivate", "reset", "visit",
                                 "slots", "book"}
      PROVE  kind \in Kinds /\ ~(kind \in Writes \cup Inserts \cup {"photo"})
  BY <1>k, KindList DEF Inserts, Writes
<1>a. ASSUME NEW kind \in Kinds, ~(kind \in Writes \cup Inserts \cup {"photo"}), NEW token, NEW draft, NEW body,
             Send(Call(kind, token, draft, body)), SameEntry, UNCHANGED <<typed, made, unheard, row, heard>>
      PROVE  TypingInv'
  BY <1>p, <1>a, AskTyping
<1>1. CASE PressLogin
  <2>1. PICK kind: kind = "login"
    OBVIOUS
  <2>2. SameEntry
    BY <1>p, <1>1 DEF PressLogin, IsPage, PageFields, SameEntry
  <2> QED BY <1>1, <1>a, <1>k, <2>1, <2>2 DEF PressLogin, server_vars
<1>2. CASE PressLogout
  <2>1. PICK kind: kind = "logout"
    OBVIOUS
  <2> QED BY <1>2, <1>a, <1>k, <2>1 DEF PressLogout, server_vars, SameEntry
<1>3. CASE Reload
  BY <1>3, ReloadTyping
<1>4. CASE \E k \in Slots: AnswerPrompt(k)
  BY <1>4, <1>p, PromptTyping
<1>5. CASE \E at \in left.screens: Open(at)
  BY <1>5, OpenTyping
<1>6. CASE (\E c \in Cols: TypeField(c)) \/ (\E b \in Boxes: TypeText(b))
  BY <1>6, FieldTyping, TextTyping
<1>7. CASE SaveAssignment \/ SaveProperty \/ SaveConfig \/ SaveWizardConfig
  BY <1>7, SaveTyping
<1>8. ASSUME NEW b \in left.buttons, PressButton(b) PROVE TypingInv'
  <2>1. b \in Kinds /\ ~(b \in Writes \cup Inserts \cup {"photo"}) /\ Press(b, NoDraft, << >>)
    BY <1>8, <1>k DEF PressButton, Screens, Buttons
  <2>2. SameEntry
    BY <1>p, <2>1 DEF Press, Show, IsPage, PageFields, SameEntry
  <2> QED BY <1>a, <2>1, <2>2 DEF Press, server_vars
<1>9. CASE CreateProperty \/ AddNote \/ SendReply \/ CreatePerson
  <2>1. PICK b \in {"note", "reply", "create", "newPerson"}:
            page.text[b] # NoDraft /\ Press(b, page.text[b], << >>)
    BY <1>9 DEF CreateProperty, AddNote, SendReply, CreatePerson
  <2> QED BY <2>1, InsertTyping DEF Boxes, Inserts
<1>10. CASE CloseModal \/ \E kind \in {"edit", "create"}: OpenModal(kind)
  BY <1>10, ModalTyping
<1>11. CASE PressCreateTenant \/ RetryBootstrap \/ RetryLogin \/ ToStep2
  <2>1. PICK tenant, bootstrap, ownerLogin:
            tenant = "tenant" /\ bootstrap = "bootstrap" /\ ownerLogin = "ownerLogin"
    OBVIOUS
  <2>2. page' = page => SameEntry
    BY DEF SameEntry
  <2>3. CASE PressCreateTenant
    BY <2>3, <1>a, <1>k, <2>1, <2>2 DEF PressCreateTenant, server_vars
  <2>4. ASSUME NEW from, NEW phase, NEW kind \in {bootstrap, ownerLogin}, Retry(from, phase, kind) PROVE TypingInv'
    BY <2>4, <1>a, <1>k, <2>1, <2>2 DEF Retry, server_vars
  <2>5. CASE ToStep2
    BY <2>5, <1>p, <2>2, StillTyping DEF ToStep2, server_vars
  <2> QED BY <1>11, <2>1, <2>3, <2>4, <2>5 DEF RetryBootstrap, RetryLogin
<1>12. CASE PressImport
  <2>1. PICK kind: kind = "import"
    OBVIOUS
  <2>2. SameEntry
    BY <1>p, <1>12 DEF PressImport, Show, IsPage, PageFields, SameEntry
  <2> QED BY <1>12, <1>a, <1>k, <2>1, <2>2 DEF PressImport, server_vars
<1>13. CASE ToStep3
  <2> DEFINE ask(kind, by) == [Call(kind, wizard.token, NoDraft, << >>) EXCEPT !.alive = by]
  <2>1. PICK page1: page1 = "page"
    OBVIOUS
  <2>2. PICK cs: cs = <<ask("card", page1), ask("webhook", page1), ask("count", page1)>>
    OBVIOUS
  <2>3. /\ SendAll(cs) /\ UNCHANGED <<typed, made, unheard, row, heard>>
        /\ page' = [page EXCEPT !.busy = @ \ {"import"}, !.loading = TRUE]
    BY <1>13, <2>1, <2>2 DEF ToStep3, Show, server_vars
  <2>4. Len(cs) = 3 /\ \A i \in 1 .. 3: \E kind \in {"card", "webhook", "count"}: cs[i] = ask(kind, page1)
    BY <2>2
  <2>5. ASSUME NEW kind \in {"card", "webhook", "count"}, NEW c, c = ask(kind, page1)
        PROVE  Asks(c)
    <3>1. PICK d: d = Call(kind, wizard.token, NoDraft, << >>)
      OBVIOUS
    <3>2. IsCall(d) /\ d.kind = kind /\ d.st = "sent"
      BY <3>1, CallIs
    <3>3. c = [d EXCEPT !.alive = page1]
      BY <2>5, <3>1
    <3> QED BY <3>2, <3>3 DEF IsCall, CallFields, Asks, Saver, Inserts, Writes
  <2> HIDE DEF ask
  <2>6. \A i \in 1 .. 3: Asks(cs[i])
    BY <2>4, <2>5
  <2>7. \A j \in Slots: calls'[j] = calls[j] \/ (calls[j] = Free /\ \E i \in 1 .. 3: calls'[j] = cs[i])
    BY <1>p, <2>3, <2>4, <2>6, SendAllIs DEF Asks
  <2>8. ~Inserting(Free)
    BY FreeCall DEF Inserting, Inserts
  <2>9. WireCalm
    BY <1>p, <2>6, <2>7, <2>8, SameOnward DEF Shape, WireCalm, Settled, Asks, Saver, Inserting
  <2>10. SameEntry
    BY <1>p, <2>3 DEF IsPage, PageFields, SameEntry
  <2> QED BY <2>3, <2>9, <2>10, EntryCalm, CalmStep DEF TypingInv
<1>14. CASE UploadPhoto
  BY <1>14, UploadTyping
<1>15. ASSUME NEW d \in Days, PickDay(d) PROVE TypingInv'
  <2>1. PICK kind: kind = "slots"
    OBVIOUS
  <2>2. SameEntry
    BY <1>p, <1>15 DEF PickDay, Show, IsPage, PageFields, SameEntry
  <2> QED BY <1>15, <1>a, <1>k, <2>1, <2>2 DEF PickDay, server_vars
<1>16. ASSUME NEW h \in Hours, PickSlot(h) PROVE TypingInv'
  <2>1. SameEntry
    BY <1>p, <1>16 DEF PickSlot, Show, IsPage, PageFields, SameEntry
  <2> QED BY <1>16, <1>p, <2>1, StillTyping DEF PickSlot, server_vars
<1>17. CASE PressBook
  <2>1. PICK kind: kind = "book"
    OBVIOUS
  <2>2. SameEntry
    BY <1>p, <1>17 DEF PressBook, Show, IsPage, PageFields, SameEntry
  <2> QED BY <1>17, <1>a, <1>k, <2>1, <2>2 DEF PressBook, server_vars
<1> QED BY <1>1, <1>2, <1>3, <1>4, <1>5, <1>6, <1>7, <1>8, <1>9, <1>10, <1>11, <1>12, <1>13, <1>14, <1>15, <1>16,
           <1>17 DEF Person

LEMMA TypingStart == Init => TypingInv
<1> SUFFICES ASSUME Init PROVE TypingInv
  OBVIOUS
<1>1. \A k \in Slots: calls[k] = AskDetails \/ calls[k] = Free
  BY DEF Init
<1>2. PICK kind: kind = "details"
  OBVIOUS
<1>3. AskDetails.kind = "details" /\ AskDetails.st = "sent"
  BY <1>2, CallIs DEF AskDetails
<1>4. \A k \in Slots: ~Saver(calls[k]) /\ ~Inserting(calls[k]) /\ calls[k].st # "done"
  BY <1>1, <1>3, FreeAsks DEF Asks, Saver, Inserting, Writes, Inserts
<1>5. page.text = EmptyBoxes /\ page.touched = {} /\ IsRow(page.values) /\ IsRow(page.data)
  <2>1. PICK at \in {"login", "wizard", "public"}: page = Screen(at) \/ page = [Screen(at) EXCEPT !.loading = TRUE]
    <3>1. left.at \in {"login", "wizard", "public"}
      BY PlansAssumption DEF Init
    <3> QED BY <3>1 DEF Init, LoginScreen, AgendaPage
  <2>2. PICK new: new = Screen(at)
    OBVIOUS
  <2>3. IsPage(new) /\ new.text = EmptyBoxes /\ new.touched = {} /\ IsRow(new.values) /\ IsRow(new.data)
    BY <2>2, ScreenIs, ScreenEmpty
  <2>4. page = new \/ page = [new EXCEPT !.loading = TRUE]
    BY <2>1, <2>2
  <2>5. page.text = new.text /\ page.touched = new.touched /\ page.values = new.values /\ page.data = new.data
    BY <2>3, <2>4 DEF IsPage, PageFields
  <2> QED BY <2>3, <2>5
<1>6. typed = 0 /\ made = [d \in Drafts |-> 0] /\ unheard = made /\ row = NothingTyped /\ heard = {}
  BY DEF Init
<1>7. DraftInv
  <2>1. BoxInv
    BY <1>5, <1>6 DEF BoxInv, EmptyBoxes, NoDraft
  <2>2. WireInv
    BY <1>4 DEF WireInv
  <2>3. CountInv
    BY <1>6 DEF CountInv
  <2> QED BY <2>1, <2>2, <2>3 DEF DraftInv
<1>8. RowsInv
  BY <1>4, <1>5, <1>6, NothingIsRow DEF RowsInv
<1>9. ValueInv
  <2>1. Entered = {} /\ Lines \subseteq {0}
    BY <1>4, <1>5 DEF Entered, Lines, EmptyBoxes, NoDraft
  <2>2. \A k \in Slots: BodyOf(calls[k]) = {} /\ PhotoOf(calls[k]) = {}
    BY <1>4 DEF Saver, BodyOf, PhotoOf
  <2>3. ReachInv
    BY <1>6, <2>1, <2>2 DEF ReachInv
  <2>4. NewsInv
    BY <2>1, <2>2 DEF NewsInv
  <2>5. OneWayInv
    BY <1>4, <2>2 DEF OneWayInv, OneWay, Saver, Inserting
  <2> QED BY <2>3, <2>4, <2>5 DEF ValueInv
<1> QED BY <1>7, <1>8, <1>9 DEF TypingInv

LEMMA TypingStep == ASSUME PageInv, TypingInv, [Next]_vars PROVE TypingInv' /\ NewsOnly
<1>1. Shape
  BY DEF PageInv
<1>2. row' = row => NewsOnly
  BY DEF NewsOnly
<1>3. CASE Person
  BY <1>2, <1>3, PersonTyping, PersonKeepsServer DEF server_vars
<1>4. CASE World
  BY <1>1, <1>4, WorldTyping
<1>5. ASSUME NEW k \in Slots, Serve(k) PROVE TypingInv' /\ NewsOnly
  BY <1>1, <1>5, ServeTyping
<1>6. ASSUME NEW k \in Slots, Deliver(k) PROVE TypingInv' /\ NewsOnly
  <2>1. row' = row
    BY <1>6 DEF Deliver, DeliverOk, DeliverError, Deliver401, server_vars
  <2> QED BY <1>2, <1>6, <2>1, DeliverTyping
<1>7. ASSUME NEW k \in Slots, Lose(k) PROVE TypingInv' /\ NewsOnly
  <2>1. row' = row
    BY <1>7 DEF Lose, server_vars
  <2> QED BY <1>1, <1>2, <1>7, <2>1, LoseTyping
<1>8. CASE UNCHANGED vars
  <2>1. UNCHANGED <<calls, page, typed, made, unheard, row, heard>>
    BY <1>8 DEF vars, server_vars
  <2> QED BY <1>1, <1>2, <2>1, StillTyping DEF SameEntry
<1> QED BY <1>3, <1>4, <1>5, <1>6, <1>7, <1>8 DEF Next

LEMMA TypingHolds == FairSpec => []TypingInv
<1>1. Init => TypingInv
  BY TypingStart
<1>2. SessionInv /\ TypingInv /\ [Next]_vars => TypingInv'
  BY TypingStep DEF SessionInv
<1> QED BY <1>1, <1>2, SessionHolds, PTL DEF FairSpec

(* What is typed in a box is inserted once, and once more at most for each *)
(* answer that was lost (the busy flags of NoteForm, ManualReplyBox,       *)
(* PropertyForm and PeoplePage): while a form is busy its draft is in one  *)
(* request alone, and an answer that comes empties the box.                *)
THEOREM TypedOnceInsertedOnce == FairSpec => []OnceUnlessLost
<1>1. TypingInv => OnceUnlessLost
  BY DEF TypingInv, DraftInv, CountInv, OnceUnlessLost
<1> QED BY <1>1, TypingHolds, PTL

(* A save replaces a column only by what was typed and is not yet known to *)
(* be saved (TenantConfigForm, PropertyForm and AssignmentControl send     *)
(* what is touched): what is touched or on its way is kept apart from all  *)
(* that was heard of, for a form that hears its save forgets what it sent, *)
(* and one that sends it again was not answered.                           *)
THEOREM SavesPutNothingBack == FairSpec => NothingPutBack
<1>1. SessionInv /\ TypingInv /\ [Next]_vars
      => [\A c \in Cols: row'[c] \in {row[c], Theirs} \/ row'[c] \notin heard \cup {0}]_vars
  BY TypingStep DEF SessionInv, NewsOnly
<1> QED BY <1>1, SessionHolds, TypingHolds, PTL DEF FairSpec, NothingPutBack
=============================================================================
