---------------------------- MODULE VisitsProofs ----------------------------
(***************************************************************************)
(* The visits of a lead, for any number of proposals, requests and times.  *)
(* ConfirmedIsDated holds whatever overlaps.  The matrix of spec B.1 holds *)
(* when nothing writes between the reading and the write of a public       *)
(* confirmation: then what it found is still PROPOSED (PublicInv), and the *)
(* write is a step of the matrix; the panel needs no such assumption, its  *)
(* where repeats the condition.                                            *)
(***************************************************************************)
EXTENDS Visits, TLAPS

USE VisitsAssumption

\* A request in flight brings a time exactly if its action sets one, and its
\* visit was created; the public only confirms.
PendingInv ==
    \A r \in Requests : Busy(r) =>
        /\ (pending[r].scheduledAt # Null) = (pending[r].action \in {"confirm", "reschedule"})
        /\ visit[pending[r].visit].status # "NONE"
        /\ r \in Public => pending[r].action = "confirm"

\* What a public confirmation found waits for it, and for no other one.
PublicInv ==
    \A r \in Public : Busy(r) =>
        /\ visit[pending[r].visit].status = "PROPOSED"
        /\ \A s \in Public : Busy(s) /\ pending[s].visit = pending[r].visit => s = r

IInv == TypeOK /\ PendingInv /\ ConfirmedIsDated

(* What data leaves in a row is a row, dated if it is confirmed or closed  *)
(* after that.                                                             *)
LEMMA DataRow ==
    ASSUME NEW row \in Row, NEW w \in Write,
           (w.scheduledAt # Null) = (w.action \in {"confirm", "reschedule"})
    PROVE  /\ data(row, w) \in Row
           /\ w.action = "confirm" =>
                 data(row, w) = [status |-> "CONFIRMED", scheduledAt |-> w.scheduledAt]
           /\ w.action = "reschedule" => data(row, w) = [row EXCEPT !.scheduledAt = w.scheduledAt]
           /\ w.action = "cancel" => data(row, w) = [row EXCEPT !.status = "CANCELLED"]
           /\ w.action = "done" => data(row, w) = [row EXCEPT !.status = "DONE"]
           /\ w.action = "noShow" => data(row, w) = [row EXCEPT !.status = "NO_SHOW"]
  BY SMTT(30) DEF data, Row, Write, TransitionAction, Status, Closed

(* A visit with its row rewritten leaves the others as they are.           *)
LEMMA Rewritten ==
    ASSUME TypeOK, NEW v \in VisitIds, NEW row \in Row,
           visit' = [visit EXCEPT ![v] = row]
    PROVE  /\ visit' \in [VisitIds -> Row]
           /\ visit'[v] = row
           /\ \A u \in VisitIds \ {v} : visit'[u] = visit[u]
  BY DEF TypeOK

LEMMA InitIInv == Init => IInv /\ PublicInv
<1> SUFFICES ASSUME Init PROVE IInv /\ PublicInv OBVIOUS
<1>1. [status |-> "NONE", scheduledAt |-> Null] \in Row BY DEF Row, Status
<1>2. TypeOK BY <1>1 DEF Init, TypeOK
<1>3. PendingInv /\ PublicInv BY DEF Init, PendingInv, PublicInv, Busy, Requests
<1>4. ConfirmedIsDated BY DEF Init, ConfirmedIsDated
<1> QED BY <1>2, <1>3, <1>4 DEF IInv

-----------------------------------------------------------------------------
(* One step keeps the types, the dates and what requests in flight carry.  *)
LEMMA StepIInv == IInv /\ [Next]_vars => IInv'
<1> SUFFICES ASSUME TypeOK, PendingInv, ConfirmedIsDated, [Next]_vars PROVE IInv'
  BY DEF IInv
<1>1. ASSUME NEW v \in VisitIds, propose(v) PROVE IInv'
  <2> DEFINE row == [status |-> "PROPOSED", scheduledAt |-> visit[v].scheduledAt]
  <2>1. /\ visit[v].status = "NONE" /\ visit[v].scheduledAt = Null
        /\ visit' = [visit EXCEPT ![v] = row]
        /\ proposed' = Append(proposed, v) /\ UNCHANGED pending
    <3>1. visit[v] = [status |-> visit[v].status, scheduledAt |-> visit[v].scheduledAt]
      BY DEF TypeOK, Row
    <3>2. [visit[v] EXCEPT !.status = "PROPOSED"] = row BY <3>1
    <3> QED BY <1>1, <3>2 DEF propose, ConfirmedIsDated
  <2>2. row \in Row BY <1>1 DEF TypeOK, Row, Status
  <2>3. /\ visit' \in [VisitIds -> Row] /\ visit'[v] = row
        /\ \A u \in VisitIds \ {v} : visit'[u] = visit[u]
    BY <2>1, <2>2, Rewritten
  <2>4. proposed' \in Seq(VisitIds) /\ ToSet(proposed') = ToSet(proposed) \cup {v}
    BY <2>1 DEF TypeOK, ToSet
  <2>5. TypeOK' BY <2>1, <2>3, <2>4 DEF TypeOK
  <2>6. PendingInv' BY <2>1, <2>3 DEF PendingInv, Busy, TypeOK, Write
  <2>7. ConfirmedIsDated' BY <2>1, <2>3 DEF ConfirmedIsDated
  <2> QED BY <2>5, <2>6, <2>7 DEF IInv
<1>2. ASSUME NEW r \in Requests, NEW a \in TransitionAction, NEW v \in VisitIds,
             NEW t \in Times \cup {Null}, Finds(r, a, v, t), visit[v].status # "NONE",
             (t # Null) = (a \in {"confirm", "reschedule"}), r \in Public => a = "confirm"
      PROVE  IInv'
  <2>1. [action |-> a, visit |-> v, scheduledAt |-> t] \in Write BY <1>2 DEF Write
  <2>2. TypeOK' BY <1>2, <2>1 DEF Finds, TypeOK
  <2>3. PendingInv' BY <1>2 DEF Finds, PendingInv, Busy, TypeOK
  <2>4. ConfirmedIsDated' BY <1>2 DEF Finds, ConfirmedIsDated
  <2> QED BY <2>2, <2>3, <2>4 DEF IInv
<1>3. ASSUME NEW r \in Requests, Answers(r), UNCHANGED visit PROVE IInv'
  <2>1. TypeOK' BY <1>3 DEF Answers, TypeOK
  <2>2. PendingInv' BY <1>3 DEF Answers, PendingInv, Busy, TypeOK
  <2>3. ConfirmedIsDated' BY <1>3 DEF ConfirmedIsDated
  <2> QED BY <2>1, <2>2, <2>3 DEF IInv
<1>4. ASSUME NEW r \in Requests, Busy(r), Answers(r),
             visit[pending[r].visit].status \in VALID_ORIGINS[pending[r].action]
                \/ pending[r].action = "confirm",
             visit' = [visit EXCEPT ![pending[r].visit] = data(visit[pending[r].visit], pending[r])]
      PROVE  IInv'
  <2> DEFINE w   == pending[r]
             v   == pending[r].visit
             row == data(visit[v], w)
  <2>1. w \in Write /\ v \in VisitIds /\ visit[v] \in Row BY <1>4 DEF TypeOK, Busy, Write
  <2>2. (w.scheduledAt # Null) = (w.action \in {"confirm", "reschedule"})
    BY <1>4 DEF PendingInv
  <2>3. row \in Row BY <2>1, <2>2, DataRow
  <2>4. /\ visit' \in [VisitIds -> Row] /\ visit'[v] = row
        /\ \A u \in VisitIds \ {v} : visit'[u] = visit[u]
    BY <1>4, <2>1, <2>3, Rewritten
  <2>5. visit[v].status # "NONE" BY <1>4 DEF PendingInv
  <2>6. /\ row.status \notin {"NONE", "PROPOSED"}
        /\ row.status \in {"CONFIRMED", "DONE", "NO_SHOW"} => row.scheduledAt # Null
    <3>1. visit[v].status \in {"CONFIRMED", "DONE", "NO_SHOW"} => visit[v].scheduledAt # Null
      BY <2>1 DEF ConfirmedIsDated
    <3>2. w.action \in TransitionAction BY <2>1 DEF Write
    <3> QED BY <1>4, <2>1, <2>2, <3>1, <3>2 DEF data, TransitionAction, VALID_ORIGINS
  <2>7. TypeOK' BY <1>4, <2>4, <2>5 DEF Answers, TypeOK
  <2>8. PendingInv' BY <1>4, <2>4, <2>5, <2>6 DEF Answers, PendingInv, Busy, TypeOK, Write
  <2>9. ConfirmedIsDated' BY <2>4, <2>6 DEF ConfirmedIsDated
  <2> QED BY <2>7, <2>8, <2>9 DEF IInv
<1>5. ASSUME suppress PROVE IInv'
  <2>1. \A v \in VisitIds :
           visit'[v] = IF visit[v].status = "NONE" THEN visit[v]
                       ELSE [status |-> "GONE", scheduledAt |-> Null]
    BY <1>5 DEF suppress
  <2>2. visit' \in [VisitIds -> Row]
    BY <1>5 DEF suppress, TypeOK, Row, Status
  <2>3. UNCHANGED <<proposed, pending>> BY <1>5 DEF suppress
  <2>4. TypeOK' BY <2>1, <2>2, <2>3 DEF TypeOK
  <2>5. PendingInv' BY <2>1, <2>3 DEF PendingInv, Busy, TypeOK, Write
  <2>6. ConfirmedIsDated' BY <2>1 DEF ConfirmedIsDated
  <2> QED BY <2>4, <2>5, <2>6 DEF IInv
<1>6. ASSUME NEW r \in Admin, Panel(r) PROVE IInv'
  <2>1. ASSUME NEW a \in TransitionAction, NEW v \in VisitIds, NEW t \in Times \cup {Null},
               assertTransition(r, a, v, t)
        PROVE  IInv'
    BY <1>2, <2>1 DEF assertTransition, VALID_ORIGINS, TransitionAction, Requests
  <2>2. CASE refusePerson(r) BY <1>3, <2>2 DEF refusePerson, Requests
  <2>3. CASE updateOrThrowConflict(r)
    BY <1>3, <1>4, <2>3 DEF updateOrThrowConflict, matches, Requests
  <2> QED BY <1>6, <2>1, <2>2, <2>3 DEF Panel
<1>7. ASSUME NEW r \in Public, Customer(r) PROVE IInv'
  <2>1. ASSUME NEW v \in VisitIds, NEW t \in Times, findProposed(r, v, t) PROVE IInv'
    BY <1>2, <2>1 DEF findProposed, TransitionAction, Requests
  <2>2. CASE confirmPublic(r)
    <3>1. pending[r].action = "confirm" BY <2>2 DEF confirmPublic, PendingInv, Requests
    <3> QED BY <1>3, <1>4, <2>2, <3>1 DEF confirmPublic, Requests
  <2> QED BY <1>7, <2>1, <2>2 DEF Customer, findNewest
<1>8. CASE UNCHANGED vars
  BY <1>8 DEF vars, IInv, TypeOK, PendingInv, ConfirmedIsDated, Busy
<1> QED BY <1>1, <1>5, <1>6, <1>7, <1>8 DEF Next

LEMMA AlwaysIInv == Spec => []IInv
  BY InitIInv, StepIInv, PTL DEF Spec

(* TypeOK: rows, the order of the proposals and what requests carry.       *)
THEOREM TypeCorrect == Spec => []TypeOK
<1>1. IInv => TypeOK BY DEF IInv
<1> QED BY <1>1, AlwaysIInv, PTL

(* ConfirmedIsDated: a visit has a time exactly since its confirmation,    *)
(* even if public confirmations overlap everything else.                   *)
THEOREM VisitsDated == Spec => []ConfirmedIsDated
<1>1. IInv => ConfirmedIsDated BY DEF IInv
<1> QED BY <1>1, AlwaysIInv, PTL

-----------------------------------------------------------------------------
(* When public confirmations are not overlapped, what they found stays.    *)
LEMMA StepPublicInv ==
    ASSUME ~PublicOverlaps
    PROVE  IInv /\ PublicInv /\ [Next]_vars => PublicInv'
<1> SUFFICES ASSUME TypeOK, PendingInv, PublicInv, [Next]_vars PROVE PublicInv'
  BY DEF IInv
<1> USE DEF PublicInv, Busy, TypeOK, Write
<1>1. ASSUME NEW v \in VisitIds, propose(v) PROVE PublicInv'
  BY <1>1 DEF propose
<1>2. ASSUME NEW r \in Admin, NEW a \in TransitionAction, NEW v \in VisitIds,
             NEW t \in Times \cup {Null}, assertTransition(r, a, v, t)
      PROVE  PublicInv'
  BY <1>2 DEF assertTransition, Finds, Requests
<1>3. ASSUME NEW r \in Admin, refusePerson(r) PROVE PublicInv'
  BY <1>3 DEF refusePerson, Answers, Requests
<1>4. ASSUME NEW r \in Admin, updateOrThrowConflict(r) PROVE PublicInv'
  <2>1. \A s \in Public : Busy(s) => pending[s].visit # pending[r].visit
    BY <1>4 DEF updateOrThrowConflict, Undisturbed
  <2>2. \A s \in Public : pending'[s] = pending[s]
    BY <1>4 DEF updateOrThrowConflict, Answers, Requests
  <2>3. \A u \in VisitIds : u # pending[r].visit => visit'[u] = visit[u]
    BY <1>4 DEF updateOrThrowConflict, Requests
  <2> QED BY <2>1, <2>2, <2>3 DEF Requests
<1>5. ASSUME NEW r \in Public, NEW v \in VisitIds, NEW t \in Times, findProposed(r, v, t)
      PROVE  PublicInv'
  <2>1. \A s \in Public : Busy(s) => pending[s].visit # v
    BY <1>5 DEF findProposed, Undisturbed
  <2>2. /\ pending'[r] = [action |-> "confirm", visit |-> v, scheduledAt |-> t]
        /\ \A s \in Public \ {r} : pending'[s] = pending[s]
        /\ visit' = visit /\ visit[v].status = "PROPOSED"
    BY <1>5 DEF findProposed, Finds, Requests
  <2> QED BY <2>1, <2>2
<1>6. ASSUME NEW r \in Public, confirmPublic(r) PROVE PublicInv'
  <2>1. /\ pending'[r] = Null /\ \A s \in Public \ {r} : pending'[s] = pending[s]
        /\ \A u \in VisitIds : u # pending[r].visit => visit'[u] = visit[u]
    BY <1>6 DEF confirmPublic, Answers, Requests
  <2>2. \A s \in Public \ {r} : Busy(s) => pending[s].visit # pending[r].visit
    BY <1>6 DEF confirmPublic
  <2> QED BY <2>1, <2>2 DEF Requests
<1>7. CASE suppress
  <2>1. \A s \in Public : ~Busy(s)
    BY <1>7 DEF suppress, Undisturbed, Requests
  <2> QED BY <1>7, <2>1 DEF suppress
<1>8. CASE UNCHANGED vars
  BY <1>8 DEF vars
<1> QED
  BY <1>1, <1>2, <1>3, <1>4, <1>5, <1>6, <1>7, <1>8 DEF Next, Panel, Customer, findNewest

LEMMA AlwaysPublicInv == ASSUME ~PublicOverlaps PROVE Spec => [](IInv /\ PublicInv)
<1>1. IInv /\ PublicInv /\ [Next]_vars => (IInv /\ PublicInv)'
  BY StepIInv, StepPublicInv
<1> QED BY <1>1, InitIInv, PTL DEF Spec

-----------------------------------------------------------------------------
(* The write of a request whose visit is in an origin of its action is a   *)
(* step of the matrix.                                                     *)
LEMMA WriteStep ==
    ASSUME IInv, NEW r \in Requests, Busy(r),
           visit[pending[r].visit].status \in VALID_ORIGINS[pending[r].action],
           visit' = [visit EXCEPT ![pending[r].visit] = data(visit[pending[r].visit], pending[r])]
    PROVE  Lifecycle!Next
<1> DEFINE w == pending[r]
           v == pending[r].visit
<1>1. /\ w \in Write /\ v \in VisitIds /\ visit[v] \in Row /\ w.action \in TransitionAction
      /\ w.scheduledAt \in Times \cup {Null}
  BY DEF IInv, TypeOK, Busy, Write
<1>2. (w.scheduledAt # Null) = (w.action \in {"confirm", "reschedule"})
  BY DEF IInv, PendingInv
<1>3. CASE w.action = "confirm"
  <2>1. data(visit[v], w) = [status |-> "CONFIRMED", scheduledAt |-> w.scheduledAt]
    BY <1>1, <1>2, <1>3, DataRow
  <2>2. Lifecycle!Confirm(v, w.scheduledAt)
    BY <1>3, <2>1 DEF Lifecycle!Confirm, VALID_ORIGINS
  <2> QED BY <1>1, <1>2, <1>3, <2>2 DEF Lifecycle!Next
<1>4. CASE w.action = "reschedule"
  <2>1. data(visit[v], w) = [visit[v] EXCEPT !.scheduledAt = w.scheduledAt]
    BY <1>1, <1>2, <1>4, DataRow
  <2>2. Lifecycle!Reschedule(v, w.scheduledAt)
    BY <1>4, <2>1 DEF Lifecycle!Reschedule, VALID_ORIGINS
  <2> QED BY <1>1, <1>2, <1>4, <2>2 DEF Lifecycle!Next
<1>5. CASE w.action = "cancel"
  <2>1. data(visit[v], w) = [visit[v] EXCEPT !.status = "CANCELLED"]
    BY <1>1, <1>2, <1>5, DataRow
  <2>2. Lifecycle!Cancel(v)
    BY <1>5, <2>1 DEF Lifecycle!Cancel, Lifecycle!Goes, VALID_ORIGINS
  <2> QED BY <1>1, <2>2 DEF Lifecycle!Next
<1>6. CASE w.action = "done"
  <2>1. data(visit[v], w) = [visit[v] EXCEPT !.status = "DONE"]
    BY <1>1, <1>2, <1>6, DataRow
  <2>2. Lifecycle!Done(v)
    BY <1>6, <2>1 DEF Lifecycle!Done, Lifecycle!Goes, VALID_ORIGINS
  <2> QED BY <1>1, <2>2 DEF Lifecycle!Next
<1>7. CASE w.action = "noShow"
  <2>1. data(visit[v], w) = [visit[v] EXCEPT !.status = "NO_SHOW"]
    BY <1>1, <1>2, <1>7, DataRow
  <2>2. Lifecycle!NoShow(v)
    BY <1>7, <2>1 DEF Lifecycle!NoShow, Lifecycle!Goes, VALID_ORIGINS
  <2> QED BY <1>1, <2>2 DEF Lifecycle!Next
<1> QED BY <1>1, <1>3, <1>4, <1>5, <1>6, <1>7 DEF TransitionAction

(* A step is one of the matrix, or writes no row.                          *)
LEMMA StepLifecycle ==
    ASSUME IInv, PublicInv, [Next]_vars
    PROVE  [Lifecycle!Next]_visit
<1>1. ASSUME NEW v \in VisitIds, propose(v) PROVE Lifecycle!Next
  BY <1>1 DEF propose, Lifecycle!Next, Lifecycle!Propose, Lifecycle!Goes
<1>2. ASSUME NEW r \in Admin, Panel(r) PROVE [Lifecycle!Next]_visit
  <2>1. CASE updateOrThrowConflict(r)
    BY <2>1, WriteStep DEF updateOrThrowConflict, matches, Requests
  <2> QED BY <1>2, <2>1 DEF Panel, assertTransition, Finds, refusePerson
<1>3. ASSUME NEW r \in Public, Customer(r) PROVE [Lifecycle!Next]_visit
  <2>1. CASE confirmPublic(r)
    <3>1. pending[r].action = "confirm" /\ visit[pending[r].visit].status = "PROPOSED"
      BY <2>1 DEF confirmPublic, IInv, PendingInv, PublicInv, Requests
    <3>2. visit[pending[r].visit].status \in VALID_ORIGINS[pending[r].action]
      BY <3>1 DEF VALID_ORIGINS
    <3>3. /\ r \in Requests /\ Busy(r)
          /\ visit' = [visit EXCEPT ![pending[r].visit] =
                          data(visit[pending[r].visit], pending[r])]
      BY <2>1, <3>1 DEF confirmPublic, Requests
    <3>4. Lifecycle!Next BY <3>2, <3>3, WriteStep
    <3> QED BY <3>4
  <2> QED BY <1>3, <2>1 DEF Customer, findNewest, findProposed, Finds
<1>4. CASE suppress
  BY <1>4 DEF suppress, Lifecycle!Next, Lifecycle!Erase
<1>5. CASE UNCHANGED vars
  BY <1>5 DEF vars
<1> QED BY <1>1, <1>2, <1>3, <1>4, <1>5 DEF Next

(* FollowsVisitLifecycle: requests of the panel may overlap as they like,  *)
(* and the matrix of spec B.1 is kept.                                     *)
THEOREM ImplementsVisitLifecycle ==
    ASSUME ~PublicOverlaps PROVE Spec => FollowsVisitLifecycle
<1>1. Init => Lifecycle!Init BY DEF Init, Lifecycle!Init
<1>2. IInv /\ PublicInv /\ [Next]_vars => [Lifecycle!Next]_visit BY StepLifecycle
<1> QED BY <1>1, <1>2, AlwaysPublicInv, PTL DEF Spec, FollowsVisitLifecycle, Lifecycle!Spec

(* ClosedIsFinal (AC-15): under the same condition no closed visit reopens.*)
THEOREM ClosedStaysClosed ==
    ASSUME ~PublicOverlaps PROVE Spec => ClosedIsFinal
<1> DEFINE Final == \A v \in VisitIds :
                       visit[v].status \in Closed => visit'[v].status \in {visit[v].status, "GONE"}
<1>1. ASSUME IInv, PublicInv, [Next]_vars PROVE Final
  <2>1. visit \in [VisitIds -> Row] BY <1>1 DEF IInv, TypeOK
  <2>2. CASE UNCHANGED visit BY <2>2
  <2>3. ASSUME NEW u \in VisitIds, NEW from, NEW to, from \cap Closed = {},
               Lifecycle!Goes(u, from, to)
        PROVE  Final
    BY <2>1, <2>3 DEF Lifecycle!Goes, Row
  <2>4. ASSUME NEW u \in VisitIds, NEW t \in Times,
               Lifecycle!Confirm(u, t) \/ Lifecycle!Reschedule(u, t)
        PROVE  Final
    BY <2>1, <2>4 DEF Lifecycle!Confirm, Lifecycle!Reschedule, Closed, Row
  <2>5. CASE Lifecycle!Erase BY <2>5 DEF Lifecycle!Erase, Closed
  <2>6. [Lifecycle!Next]_visit BY <1>1, StepLifecycle
  <2>7. ASSUME NEW u \in VisitIds,
               \/ Lifecycle!Propose(u) \/ Lifecycle!Cancel(u)
               \/ Lifecycle!Done(u) \/ Lifecycle!NoShow(u)
        PROVE  Final
    BY <2>3, <2>7 DEF Lifecycle!Propose, Lifecycle!Cancel, Lifecycle!Done, Lifecycle!NoShow, Closed
  <2> QED BY <2>2, <2>4, <2>5, <2>6, <2>7 DEF Lifecycle!Next
<1> QED BY <1>1, AlwaysPublicInv, PTL DEF Spec, ClosedIsFinal

(* OnlyRescheduleMoves: under the same condition the time of a confirmed   *)
(* visit changes by a reschedule of the panel and by nothing else.         *)
THEOREM MovedByReschedule ==
    ASSUME ~PublicOverlaps PROVE Spec => OnlyRescheduleMoves
<1> DEFINE Moves(v) == /\ visit[v].status = "CONFIRMED" /\ visit'[v].status = "CONFIRMED"
                       /\ visit'[v].scheduledAt # visit[v].scheduledAt
           Asked(v) == \E r \in Admin : /\ Busy(r) /\ ~Busy(r)'
                                        /\ pending[r].action = "reschedule" /\ pending[r].visit = v
           Step == \A v \in VisitIds : Moves(v) => Asked(v)
<1>1. ASSUME IInv, PublicInv, [Next]_vars PROVE Step
  <2> SUFFICES ASSUME NEW v \in VisitIds, Moves(v) PROVE Asked(v)
    OBVIOUS
  <2>1. /\ visit \in [VisitIds -> Row] /\ pending \in [Requests -> Write \cup {Null}]
        /\ PendingInv
    BY <1>1 DEF IInv, TypeOK
  <2>2. ASSUME NEW u \in VisitIds, propose(u) PROVE FALSE
    BY <2>1, <2>2 DEF propose, Row
  <2>3. ASSUME NEW r \in Admin, updateOrThrowConflict(r) PROVE Asked(v)
    <3>1. /\ Busy(r) /\ pending'[r] = Null
          /\ pending[r] \in Write /\ pending[r].action \in TransitionAction
      BY <2>1, <2>3 DEF updateOrThrowConflict, Answers, Busy, Requests, Write
    <3>2. /\ pending[r].visit = v /\ visit[v].status \in VALID_ORIGINS[pending[r].action]
          /\ visit'[v] = data(visit[v], pending[r])
      BY <2>1, <2>3, <3>1 DEF updateOrThrowConflict, matches, Write
    <3>3. pending[r].action = "reschedule"
      BY <3>1, <3>2 DEF data, TransitionAction, VALID_ORIGINS
    <3> QED BY <3>1, <3>2, <3>3 DEF Busy
  <2>4. ASSUME NEW r \in Public, confirmPublic(r) PROVE FALSE
    <3>1. visit[pending[r].visit].status = "PROPOSED"
      BY <1>1, <2>4 DEF confirmPublic, PublicInv
    <3> QED BY <2>1, <2>4, <3>1 DEF confirmPublic, Requests, Busy, Write
  <2>5. ~suppress BY DEF suppress
  <2>6. ~UNCHANGED visit OBVIOUS
  <2> QED BY <1>1, <2>2, <2>3, <2>4, <2>5, <2>6
          DEF Next, Panel, Customer, assertTransition, refusePerson, findNewest, findProposed,
              Finds, vars
<1> QED BY <1>1, AlwaysPublicInv, PTL DEF Spec, OnlyRescheduleMoves
=============================================================================
