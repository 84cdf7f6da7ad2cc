---------------------------- MODULE VisitLifecycle ----------------------------
(***************************************************************************)
(* What the agenda promises about a visit: the matrix of                   *)
(* src/specs/B1-appointments-backend/spec.md, decision 1, each transition  *)
(* one step whoever asks for it, closed visits final, and a time that only *)
(* a confirmation sets and a reschedule moves.                             *)
(***************************************************************************)
CONSTANTS Visits, Times, Null

Closed == {"DONE", "CANCELLED", "NO_SHOW"}
Status == {"NONE", "PROPOSED", "CONFIRMED", "GONE"} \cup Closed

VARIABLE visit     \* [Visits -> [status : Status, scheduledAt : Times \cup {Null}]]

Init == visit = [v \in Visits |-> [status |-> "NONE", scheduledAt |-> Null]]

\* Visit v goes from one of the states in from to the state to.
Goes(v, from, to) ==
    /\ visit[v].status \in from
    /\ visit' = [visit EXCEPT ![v].status = to]

Propose(v) == Goes(v, {"NONE"}, "PROPOSED")

Confirm(v, t) ==
    /\ visit[v].status = "PROPOSED"
    /\ visit' = [visit EXCEPT ![v] = [status |-> "CONFIRMED", scheduledAt |-> t]]

Reschedule(v, t) ==
    /\ visit[v].status = "CONFIRMED"
    /\ visit' = [visit EXCEPT ![v].scheduledAt = t]

Cancel(v) == Goes(v, {"PROPOSED", "CONFIRMED"}, "CANCELLED")
Done(v)   == Goes(v, {"CONFIRMED"}, "DONE")
NoShow(v) == Goes(v, {"CONFIRMED"}, "NO_SHOW")

\* The lead is suppressed, and its visits with it.
Erase ==
    visit' = [v \in Visits |->
                 IF visit[v].status = "NONE" THEN visit[v]
                 ELSE [status |-> "GONE", scheduledAt |-> Null]]

Next == \/ \E v \in Visits : \/ Propose(v) \/ Cancel(v) \/ Done(v) \/ NoShow(v)
                             \/ \E t \in Times : Confirm(v, t) \/ Reschedule(v, t)
        \/ Erase

Spec == Init /\ [][Next]_visit
=============================================================================
