------------------------------- MODULE Visits -------------------------------
(***************************************************************************)
(* The visits (Appointment rows) of one lead and everyone who writes them: *)
(* the scheduling handler that proposes, the panel's five actions, the     *)
(* public agenda page and the Calendly webhook that confirm, and the       *)
(* suppression that deletes.                                               *)
(*                                                                         *)
(* A request reads its visit and writes it in two separate statements.  The*)
(* panel's write repeats the condition on the state (updateMany); the two  *)
(* public confirmations write by id alone (update).                        *)
(***************************************************************************)
EXTENDS Sequences, SequencesExt

CONSTANTS
    VisitIds,        \* the proposals a run makes of the lead
    Times,           \* values of scheduledAt
    Admin,           \* requests of the panel in flight
    Public,          \* requests of the public agenda or of Calendly in flight
    Null,
    PublicOverlaps   \* TRUE: others write between a public request's read and its write

ASSUME VisitsAssumption ==
    /\ Null \notin Times
    /\ Admin \cap Public = {}
    /\ PublicOverlaps \in BOOLEAN

Requests == Admin \cup Public

TransitionAction == {"confirm", "reschedule", "cancel", "done", "noShow"}

Closed == {"DONE", "CANCELLED", "NO_SHOW"}
Status == {"NONE", "PROPOSED", "CONFIRMED", "GONE"} \cup Closed

\* Mutant: a visit nobody confirmed can be closed as done.
LOOSE_ORIGINS ==
    [confirm    |-> {"PROPOSED"},
     reschedule |-> {"CONFIRMED"},
     cancel     |-> {"PROPOSED", "CONFIRMED"},
     done       |-> {"PROPOSED", "CONFIRMED"},
     noShow     |-> {"CONFIRMED"}]

\* Which states each action may start from: the three closed ones are in none.
VALID_ORIGINS ==
    [confirm    |-> {"PROPOSED"},
     reschedule |-> {"CONFIRMED"},
     cancel     |-> {"PROPOSED", "CONFIRMED"},
     done       |-> {"CONFIRMED"},
     noShow     |-> {"CONFIRMED"}]

VARIABLES
    visit,      \* the rows: state and scheduledAt
    proposed,   \* the visits in the order of createdAt
    pending     \* what each request in flight has found and is about to write

vars == <<visit, proposed, pending>>

Row   == [status : Status, scheduledAt : Times \cup {Null}]
Write == [action : TransitionAction, visit : VisitIds, scheduledAt : Times \cup {Null}]

TypeOK ==
    /\ visit \in [VisitIds -> Row]
    /\ proposed \in Seq(VisitIds)
    /\ pending \in [Requests -> Write \cup {Null}]
    /\ \A v \in VisitIds : visit[v].status # "NONE" => v \in ToSet(proposed)

Init ==
    /\ visit = [v \in VisitIds |-> [status |-> "NONE", scheduledAt |-> Null]]
    /\ proposed = <<>>
    /\ pending = [r \in Requests |-> Null]

Busy(r) == pending[r] # Null

\* No public request is between its read and its write of v, or they may overlap.
Undisturbed(v) == PublicOverlaps \/ \A r \in Public : Busy(r) => pending[r].visit # v

Finds(r, action, v, t) ==
    /\ ~Busy(r)
    /\ pending' = [pending EXCEPT ![r] = [action |-> action, visit |-> v, scheduledAt |-> t]]
    /\ UNCHANGED <<visit, proposed>>

Answers(r) == pending' = [pending EXCEPT ![r] = Null] /\ UNCHANGED proposed

-----------------------------------------------------------------------------

\* enterScheduling: a new row each time, however many the lead already has.
propose(v) ==
    /\ visit[v].status = "NONE"
    /\ visit' = [visit EXCEPT ![v].status = "PROPOSED"]
    /\ proposed' = Append(proposed, v)
    /\ UNCHANGED pending

-----------------------------------------------------------------------------
(* The panel.  What the first reading refuses (404, 409) changes nothing.  *)

\* The actions that set scheduledAt bring it, the others do not.
assertTransition(r, action, v, t) ==
    /\ visit[v].status \in VALID_ORIGINS[action]
    /\ (t # Null) = (action \in {"confirm", "reschedule"})
    /\ Finds(r, action, v, t)

\* confirm: the person to be assigned is unknown, 400.
refusePerson(r) ==
    /\ Busy(r) /\ pending[r].action = "confirm"
    /\ Answers(r)
    /\ UNCHANGED visit

\* Mutant: the where lets any open visit through.
matchesOpen(row, action) == row.status \in {"PROPOSED", "CONFIRMED"}

\* The where of each action repeats the states it may start from.
matches(row, action) == row.status \in VALID_ORIGINS[action]

\* Mutant: confirm leaves scheduledAt to a reschedule.
dataUndated(row, w) ==
    [status |-> CASE w.action = "confirm"    -> "CONFIRMED"
                  [] w.action = "reschedule" -> row.status
                  [] w.action = "cancel"     -> "CANCELLED"
                  [] w.action = "done"       -> "DONE"
                  [] w.action = "noShow"     -> "NO_SHOW",
     scheduledAt |-> IF w.action = "reschedule" THEN w.scheduledAt ELSE row.scheduledAt]

\* What each action leaves in the row.
data(row, w) ==
    [status |-> CASE w.action = "confirm"    -> "CONFIRMED"
                  [] w.action = "reschedule" -> row.status
                  [] w.action = "cancel"     -> "CANCELLED"
                  [] w.action = "done"       -> "DONE"
                  [] w.action = "noShow"     -> "NO_SHOW",
     scheduledAt |-> IF w.action \in {"confirm", "reschedule"}
                     THEN w.scheduledAt ELSE row.scheduledAt]

(* updateMany: a count of 0 means that the state changed since the first   *)
(* reading, and answers 409.                                               *)
updateOrThrowConflict(r) ==
    /\ Busy(r)
    /\ Undisturbed(pending[r].visit)
    /\ Answers(r)
    /\ LET v == pending[r].visit
           w == pending[r]
       IN  visit' = IF matches(visit[v], w.action)
                    THEN [visit EXCEPT ![v] = data(visit[v], w)]
                    ELSE visit

-----------------------------------------------------------------------------
(* Public confirmations: by the link the bot sent, or by Calendly, which   *)
(* knows the lead and takes its newest proposal.                           *)

findProposed(r, v, t) ==
    /\ visit[v].status = "PROPOSED"
    /\ Undisturbed(v)
    /\ Finds(r, "confirm", v, t)

findNewest(r, v, t) ==
    /\ \A i, j \in DOMAIN proposed :
          proposed[i] = v /\ i < j => visit[proposed[j]].status # "PROPOSED"
    /\ findProposed(r, v, t)

\* update by id: it fails only if the row was deleted.
confirmPublic(r) ==
    /\ Busy(r)
    /\ Answers(r)
    /\ LET v == pending[r].visit IN
       visit' = IF visit[v].status = "GONE" THEN visit
                ELSE [visit EXCEPT ![v] = data(visit[v], pending[r])]

-----------------------------------------------------------------------------
\* The lead is deleted, and its visits by onDelete: Cascade.
suppress ==
    /\ \E v \in VisitIds : visit[v].status \notin {"NONE", "GONE"}
    /\ \A v \in VisitIds : Undisturbed(v)
    /\ visit' = [v \in VisitIds |->
                    IF visit[v].status = "NONE" THEN visit[v]
                    ELSE [status |-> "GONE", scheduledAt |-> Null]]
    /\ UNCHANGED <<proposed, pending>>

Panel(r) ==
    \/ \E a \in TransitionAction, v \in VisitIds, t \in Times \cup {Null} :
          assertTransition(r, a, v, t)
    \/ refusePerson(r)
    \/ updateOrThrowConflict(r)

Customer(r) ==
    \/ \E v \in VisitIds, t \in Times : findProposed(r, v, t) \/ findNewest(r, v, t)
    \/ confirmPublic(r)

Next == \/ \E v \in VisitIds : propose(v)
        \/ \E r \in Admin : Panel(r)
        \/ \E r \in Public : Customer(r)
        \/ suppress

Spec == Init /\ [][Next]_vars

-----------------------------------------------------------------------------
\* A visit has a time exactly since it was confirmed: the agenda lists by
\* scheduledAt, and a visit can only be done or missed at a time agreed on
\* (spec B.1, decision 1), whichever of the three confirmations gave it.
ConfirmedIsDated ==
    \A v \in VisitIds :
        /\ visit[v].status \in {"CONFIRMED", "DONE", "NO_SHOW"} => visit[v].scheduledAt # Null
        /\ visit[v].status \in {"NONE", "PROPOSED"} => visit[v].scheduledAt = Null

\* The time a customer was told stands until somebody reschedules.  Of several
\* confirmations of one visit a single one is obeyed, as long as nobody writes
\* inside a public one (PublicOverlaps = FALSE): there the later update wins.
OnlyRescheduleMoves ==
    [][\A v \in VisitIds :
          (/\ visit[v].status = "CONFIRMED" /\ visit'[v].status = "CONFIRMED"
           /\ visit'[v].scheduledAt # visit[v].scheduledAt)
          => \E r \in Admin : /\ Busy(r) /\ ~Busy(r)'
                              /\ pending[r].action = "reschedule" /\ pending[r].visit = v]_vars

\* DONE, CANCELLED and NO_SHOW are final (AC-15).
ClosedIsFinal ==
    [][\A v \in VisitIds :
          visit[v].status \in Closed => visit'[v].status \in {visit[v].status, "GONE"}]_vars

Lifecycle == INSTANCE VisitLifecycle WITH Visits <- VisitIds

\* The visits move as the matrix of spec B.1 says, each request in one step.
FollowsVisitLifecycle == Lifecycle!Spec
=============================================================================
