---------------------------- MODULE AccountsProofs ----------------------------
(***************************************************************************)
(* What holds of people, sessions and logins for any number of tenants,    *)
(* people, tokens and concurrent requests, whenever the process dies.      *)
(***************************************************************************)
EXTENDS Accounts, FiniteSetTheorems, TLAPS

LoginPoints == {"find", "failure", "window", "reset"}
AdminOps == {"create", "deactivate", "password"}
TxPoints == {"update", "delete", "commit"}

(* What a request in progress carries is there for the calls it has left.  *)
LoginInv ==
    \A r \in Requests:
        /\ req[r].at \in LoginPoints => req[r].email \in Emails
        /\ req[r].at \in LoginPoints \cup {"issue"} => req[r].op = "login"
        /\ req[r].at \in {"reset", "issue"} => /\ req[r].found \in People
                                               /\ Exists(req[r].found)
ServiceInv ==
    \A r \in Requests:
        /\ req[r].at = "insert" => /\ req[r].op \in {"bootstrap", "create"}
                                   /\ req[r].tenant \in Tenants
                                   /\ req[r].email \in Emails
        /\ req[r].at = "service" /\ req[r].op \in AdminOps => req[r].target \in People
        /\ req[r].at = "service" /\ req[r].op = "logout" =>
              /\ req[r].token \in Sessions
              /\ session[req[r].token] # Unissued

(* What a transaction has read stays so, and what it deletes is of its     *)
(* target.                                                                 *)
Doable(q) ==
    q.at \in TxPoints =>
        /\ q.op \in {"deactivate", "password"}
        /\ q.target \in People /\ FoundInTenant(q)
        /\ q.op = "deactivate" => ~(person[q.target].active /\ person[q.target].role = "OWNER")
Doomed(q) == \A s \in q.doomed: session[s] # Unissued /\ session[s].person = q.target
TxInv == \A r \in Requests: Doable(req[r]) /\ Doomed(req[r])

(* A token is nobody's, or of somebody who exists.                         *)
HolderInv == \A s \in Sessions: session[s] = Unissued \/ Exists(session[s].person)

(* The partial unique index of Person.                                     *)
OneOwner == \A tn \in Tenants: \A p, q \in OwnersOf(tn): p = q

(* Who passed OwnerRoleGuard is still the owner when its request goes on.  *)
CallerInv ==
    \A r \in Requests: req[r].op \in AdminOps => /\ req[r].tenant \in Tenants
                                                 /\ req[r].caller \in OwnersOf(req[r].tenant)

IInv == TypeOK /\ LoginInv /\ ServiceInv /\ TxInv /\ HolderInv /\ OneOwner /\ CallerInv

LEMMA InitIInv == Init => IInv
  BY TenantsAssumption, PeopleAssumption, BoundsAssumption
  DEF Init, IInv, TypeOK, LoginInv, ServiceInv, TxInv, Doable, Doomed, HolderInv, OneOwner, CallerInv,
      OwnersOf, TxPoints, Idle, Absent, Unissued, ReqRecords, Points, Ops, Roles, LoginPoints, AdminOps

-----------------------------------------------------------------------------
(* Only the steps of the guards and of the service touch what the last     *)
(* four conjuncts speak of; what a request keeps is enough for the others. *)
LEMMA SamePeople ==
    ASSUME IInv, person' = person
    PROVE  OneOwner' /\ \A p \in People: Exists(p)' <=> Exists(p)
  BY DEF IInv, OneOwner, OwnersOf, Exists

(* A step that leaves people and sessions alone, and gives one request its *)
(* next step.                                                              *)
LEMMA RequestStep ==
    ASSUME IInv, NEW r \in Requests, NEW next \in ReqRecords,
           req' = [req EXCEPT ![r] = next],
           UNCHANGED <<person, session>>,
           fails' \in [Emails -> Nat], window' \in [Emails -> BOOLEAN], cut' \in [Emails -> BOOLEAN],
           next.at \in LoginPoints => next.email \in Emails,
           next.at \in LoginPoints \cup {"issue"} => next.op = "login",
           next.at \in {"reset", "issue"} => next.found \in People /\ Exists(next.found),
           next.at = "insert" => /\ next.op \in {"bootstrap", "create"}
                                 /\ next.tenant \in Tenants /\ next.email \in Emails,
           next.at = "service" /\ next.op \in AdminOps => next.target \in People,
           next.at = "service" /\ next.op = "logout" =>
               next.token \in Sessions /\ session[next.token] # Unissued,
           next.op \in AdminOps => next.tenant \in Tenants /\ next.caller \in OwnersOf(next.tenant),
           Doable(next), Doomed(next)
    PROVE  IInv'
<1>1. TypeOK' BY DEF IInv, TypeOK
<1>2. req'[r] = next /\ \A q \in Requests: q # r => req'[q] = req[q]
  BY DEF IInv, TypeOK
<1>3. LoginInv' BY <1>2 DEF IInv, LoginInv, Exists
<1>4. ServiceInv' BY <1>2 DEF IInv, ServiceInv
<1>5. HolderInv' BY DEF IInv, HolderInv, Exists
<1>6. OneOwner' BY SamePeople
<1>7. CallerInv' BY <1>2 DEF IInv, CallerInv, OwnersOf
<1>8. TxInv' BY <1>2 DEF IInv, TxInv, Doable, Doomed, FoundInTenant, Exists
<1> QED BY <1>1, <1>3, <1>4, <1>5, <1>6, <1>7, <1>8 DEF IInv

LEMMA IdleIsARecord == /\ Idle \in ReqRecords /\ Idle.at = "idle" /\ Idle.op = "none"
                       /\ Idle.doomed = {} /\ Doable(Idle) /\ Doomed(Idle)
  BY BoundsAssumption, PeopleAssumption
  DEF Idle, ReqRecords, Points, Ops, Roles, Doable, Doomed, TxPoints

(* What a request that is not in a transaction has to keep.                *)
LEMMA OutsideTx ==
    ASSUME NEW q, q.at \notin TxPoints, q.doomed = {}
    PROVE  Doable(q) /\ Doomed(q)
  BY DEF Doable, Doomed

LEMMA SameDoomed ==
    ASSUME NEW q, NEW p, Doomed(q), p.doomed = q.doomed, p.target = q.target
    PROVE  Doomed(p)
  BY DEF Doomed

LEMMA LoginSteps ==
    ASSUME IInv, NEW r \in Requests,
           \/ \E e \in Emails, w \in Passwords \cup {WrongPassword}: BeginLogin(r, e, w)
           \/ FindPerson(r) \/ RegisterFailure(r) \/ OpenWindow(r) \/ ResetFailures(r)
    PROVE  IInv'
<1> USE DEF LoginPoints, AdminOps
<1>0. TypeOK /\ LoginInv /\ req[r] \in ReqRecords /\ Doomed(req[r]) BY DEF IInv, TypeOK, TxInv
<1>1. ASSUME NEW e \in Emails, NEW w \in Passwords \cup {WrongPassword}, BeginLogin(r, e, w)
      PROVE  IInv'
  <2> DEFINE next == [Idle EXCEPT !.at = "find", !.op = "login", !.email = e, !.tried = w]
  <2>1. w \in Nat BY BoundsAssumption DEF Passwords, WrongPassword
  <2>2. /\ next \in ReqRecords /\ next.at = "find" /\ next.op = "login" /\ next.email = e
        /\ next.doomed = {}
    BY <2>1, BoundsAssumption, PeopleAssumption DEF Idle, ReqRecords, Points, Ops, Roles
  <2>3. req' = [req EXCEPT ![r] = next] /\ UNCHANGED <<person, session, fails, window, cut>>
    BY <1>1 DEF BeginLogin
  <2>4. /\ fails' \in [Emails -> Nat] /\ window' \in [Emails -> BOOLEAN]
        /\ cut' \in [Emails -> BOOLEAN]
    BY <1>0, <2>3 DEF TypeOK
  <2> HIDE DEF next
  <2>5. Doable(next) /\ Doomed(next) BY <2>2, OutsideTx DEF TxPoints
  <2> QED BY <2>2, <2>3, <2>4, <2>5, RequestStep
<1>2. CASE FindPerson(r)
  <2>1. CASE req' = [req EXCEPT ![r].at = "failure", ![r].tried = 0]
    <3> DEFINE next == [req[r] EXCEPT !.at = "failure", !.tried = 0]
    <3>1. next \in ReqRecords /\ next.at = "failure" /\ next.op = "login" /\ next.email \in Emails
      BY <1>0, <1>2 DEF FindPerson, ReqRecords, Points, LoginInv
    <3>2. req' = [req EXCEPT ![r] = next] BY <2>1, <1>0 DEF TypeOK
    <3>3. /\ fails' \in [Emails -> Nat] /\ window' \in [Emails -> BOOLEAN]
          /\ cut' \in [Emails -> BOOLEAN] /\ UNCHANGED <<person, session>>
      BY <1>0, <1>2 DEF TypeOK, FindPerson
    <3>4. Doomed(next) BY <1>0, SameDoomed DEF ReqRecords
    <3> HIDE DEF next
    <3>5. Doable(next) BY <3>1 DEF Doable, TxPoints
    <3> QED BY <3>1, <3>2, <3>3, <3>4, <3>5, RequestStep
  <2>2. ASSUME NEW q \in People, Exists(q),
               req' = [req EXCEPT ![r].at = "reset", ![r].tried = 0, ![r].found = q,
                                  ![r].version = person[q].password]
        PROVE IInv'
    <3> DEFINE next == [req[r] EXCEPT !.at = "reset", !.tried = 0, !.found = q,
                                      !.version = person[q].password]
    <3>0. person[q].password \in Nat BY <1>0, <2>2 DEF TypeOK, Exists, Rows
    <3>1. /\ next \in ReqRecords /\ next.at = "reset" /\ next.op = "login"
          /\ next.email \in Emails /\ next.found = q
      BY <1>0, <1>2, <3>0 DEF FindPerson, ReqRecords, Points, LoginInv
    <3>2. req' = [req EXCEPT ![r] = next] BY <2>2, <1>0 DEF TypeOK
    <3>3. /\ fails' \in [Emails -> Nat] /\ window' \in [Emails -> BOOLEAN]
          /\ cut' \in [Emails -> BOOLEAN] /\ UNCHANGED <<person, session>>
      BY <1>0, <1>2 DEF TypeOK, FindPerson
    <3>4. Doomed(next) BY <1>0, SameDoomed DEF ReqRecords
    <3> HIDE DEF next
    <3>5. Doable(next) BY <3>1 DEF Doable, TxPoints
    <3> QED BY <2>2, <3>1, <3>2, <3>3, <3>4, <3>5, RequestStep
  <2> QED BY <1>2, <2>1, <2>2 DEF FindPerson
<1>3. CASE RegisterFailure(r)
  <2> DEFINE e == req[r].email
             next == IF fails[e] = 0 THEN [req[r] EXCEPT !.at = "window"] ELSE Idle
  <2>1. e \in Emails BY <1>0, <1>3 DEF RegisterFailure, LoginInv
  <2>2. next \in ReqRecords
    BY <1>0, IdleIsARecord DEF ReqRecords, Points
  <2>3. /\ next.at \in {"window", "idle"}
        /\ next.at = "window" => next.op = "login" /\ next.email \in Emails
        /\ next.op \in {"login", "none"}
    BY <1>0, <1>3, <2>1, IdleIsARecord DEF RegisterFailure, LoginInv, ReqRecords
  <2>4. req' = [req EXCEPT ![r] = next] BY <1>0, <1>3 DEF RegisterFailure, TypeOK
  <2>5. /\ fails' \in [Emails -> Nat] /\ window' \in [Emails -> BOOLEAN]
        /\ cut' \in [Emails -> BOOLEAN] /\ UNCHANGED <<person, session>>
    BY <1>0, <1>3, <2>1 DEF TypeOK, RegisterFailure
  <2>6. Doomed(next)
    <3>1. CASE next = Idle BY <3>1, IdleIsARecord
    <3>2. CASE next = [req[r] EXCEPT !.at = "window"] BY <1>0, <3>2, SameDoomed DEF ReqRecords
    <3> QED BY <3>1, <3>2
  <2> HIDE DEF next
  <2>7. Doable(next) BY <2>3 DEF Doable, TxPoints
  <2> QED BY <2>2, <2>3, <2>4, <2>5, <2>6, <2>7, RequestStep
<1>4. CASE OpenWindow(r)
  <2> DEFINE b == fails[req[r].email] > 0
  <2>1. /\ window' = [window EXCEPT ![req[r].email] = b] /\ req' = [req EXCEPT ![r] = Idle]
        /\ UNCHANGED <<person, session, fails, cut>>
    BY <1>4 DEF OpenWindow
  <2>2. b \in BOOLEAN OBVIOUS
  <2> HIDE DEF b
  <2>3. window' \in [Emails -> BOOLEAN] BY <1>0, <2>1, <2>2, Zenon DEF TypeOK
  <2>4. fails' \in [Emails -> Nat] /\ cut' \in [Emails -> BOOLEAN]
    BY <1>0, <2>1 DEF TypeOK
  <2> QED BY <2>1, <2>3, <2>4, IdleIsARecord, RequestStep
<1>5. CASE ResetFailures(r)
  <2> DEFINE next == [req[r] EXCEPT !.at = "issue", !.email = Nobody]
  <2>1. /\ next \in ReqRecords /\ next.at = "issue" /\ next.op = "login"
        /\ next.found \in People /\ Exists(next.found)
    BY <1>0, <1>5 DEF ResetFailures, LoginInv, ReqRecords, Points
  <2>2. req' = [req EXCEPT ![r] = next] BY <1>0, <1>5 DEF ResetFailures, TypeOK
  <2>3. /\ fails' \in [Emails -> Nat] /\ window' \in [Emails -> BOOLEAN]
        /\ cut' \in [Emails -> BOOLEAN] /\ UNCHANGED <<person, session>>
    BY <1>0, <1>5 DEF TypeOK, ResetFailures, LoginInv
  <2>4. Doomed(next) BY <1>0, SameDoomed DEF ReqRecords
  <2> HIDE DEF next
  <2>5. Doable(next) BY <2>1 DEF Doable, TxPoints
  <2> QED BY <2>1, <2>2, <2>3, <2>4, <2>5, RequestStep
<1> QED BY <1>1, <1>2, <1>3, <1>4, <1>5

(* What the guards let through is what CallerInv asks for.                 *)
LEMMA GuardSteps ==
    ASSUME IInv, NEW r \in Requests,
           \/ \E tn \in Tenants, e \in Emails: EnterBootstrap(r, tn, e)
           \/ \E s \in Sessions: EnterLogout(r, s)
           \/ \E s \in Sessions, tn \in Tenants, p \in People, op \in {"deactivate", "password"}:
                 EnterAdmin(r, s, tn, op, p, Nobody, "AGENT")
           \/ \E s \in Sessions, tn \in Tenants, e \in Emails, role \in Roles:
                 EnterAdmin(r, s, tn, "create", Nobody, e, role)
    PROVE  IInv'
<1> USE DEF LoginPoints, AdminOps
<1>0. /\ TypeOK /\ HolderInv /\ fails \in [Emails -> Nat] /\ window \in [Emails -> BOOLEAN]
      /\ cut \in [Emails -> BOOLEAN] /\ req \in [Requests -> ReqRecords]
  BY DEF IInv, TypeOK
<1>1. ASSUME NEW tn \in Tenants, NEW e \in Emails, EnterBootstrap(r, tn, e) PROVE IInv'
  <2> DEFINE next == [Idle EXCEPT !.at = "insert", !.op = "bootstrap",
                                  !.tenant = tn, !.email = e, !.role = "OWNER"]
  <2>1. /\ next \in ReqRecords /\ next.at = "insert" /\ next.op = "bootstrap"
        /\ next.tenant = tn /\ next.email = e /\ next.doomed = {}
    BY BoundsAssumption, PeopleAssumption DEF Idle, ReqRecords, Points, Ops, Roles
  <2>2. req' = [req EXCEPT ![r] = next] /\ UNCHANGED <<person, session, fails, window, cut>>
    BY <1>1 DEF EnterBootstrap
  <2> HIDE DEF next
  <2>3. Doable(next) /\ Doomed(next) BY <2>1, OutsideTx DEF TxPoints
  <2> QED BY <1>0, <2>1, <2>2, <2>3, RequestStep
<1>2. ASSUME NEW s \in Sessions, EnterLogout(r, s) PROVE IInv'
  <2> DEFINE next == [Idle EXCEPT !.at = "service", !.op = "logout", !.token = s]
  <2>1. /\ next \in ReqRecords /\ next.at = "service" /\ next.op = "logout" /\ next.token = s
        /\ next.doomed = {}
    BY BoundsAssumption, PeopleAssumption DEF Idle, ReqRecords, Points, Ops, Roles
  <2>2. req' = [req EXCEPT ![r] = next] /\ UNCHANGED <<person, session, fails, window, cut>>
    BY <1>2 DEF EnterLogout
  <2>3. session[s].row = "live" BY <1>2, Zenon DEF EnterLogout, Usable
  <2>4. session[s] # Unissued BY <2>3 DEF Unissued
  <2> HIDE DEF next
  <2>5. Doable(next) /\ Doomed(next) BY <2>1, OutsideTx DEF TxPoints
  <2> QED BY <1>0, <2>1, <2>2, <2>4, <2>5, RequestStep
<1>3. ASSUME NEW s \in Sessions, NEW tn \in Tenants, NEW p \in People \cup {Nobody},
             NEW op \in AdminOps, NEW e \in Emails \cup {Nobody}, NEW role \in Roles,
             op = "create" => e \in Emails, op # "create" => p \in People,
             EnterAdmin(r, s, tn, op, p, e, role)
      PROVE  IInv'
  <2> DEFINE c == CallerOf(s)
             next == [Idle EXCEPT !.at = IF op = "create" THEN "insert" ELSE "service",
                                  !.op = op, !.caller = c, !.tenant = person[c].tenant,
                                  !.target = p, !.email = e, !.role = role]
  <2>1. Usable(s) /\ InScope(s, tn) /\ IsOwner(s) BY <1>3 DEF EnterAdmin
  <2>2. session[s] \in SessionRows
    BY <1>0, <2>1 DEF TypeOK, Usable, Unissued
  <2>3. c \in People BY <2>2 DEF CallerOf, SessionRows
  <2>4. /\ person[c].tenant = tn /\ person[c].role = "OWNER" /\ person[c].active
        /\ c \in OwnersOf(tn)
    BY <2>1, <2>3, Zenon DEF InScope, IsOwner, Usable, CallerOf, OwnersOf
  <2>5. /\ next \in ReqRecords /\ next.at \in {"insert", "service"}
        /\ next.op = op /\ next.caller = c /\ next.tenant = tn /\ next.target = p /\ next.email = e
        /\ next.at = "insert" => op = "create"
        /\ next.at = "service" => op # "create"
        /\ next.doomed = {}
    BY <2>3, <2>4, BoundsAssumption, PeopleAssumption DEF Idle, ReqRecords, Points, Ops, Roles
  <2>6. req' = [req EXCEPT ![r] = next] /\ UNCHANGED <<person, session, fails, window, cut>>
    BY <1>3 DEF EnterAdmin
  <2> HIDE DEF next, c
  <2>7. Doable(next) /\ Doomed(next) BY <2>5, OutsideTx DEF TxPoints
  <2> QED BY <1>0, <1>3, <2>4, <2>5, <2>6, <2>7, RequestStep
<1>4. "AGENT" \in Roles BY DEF Roles
<1> QED BY <1>1, <1>2, <1>3, <1>4

(* A step that leaves sessions over, or opens one for somebody who exists, *)
(* and ends a request.                                                     *)
LEMMA SessionStep ==
    ASSUME IInv, person' = person, UNCHANGED <<fails, window, cut>>,
           session' \in [Sessions -> SessionRows \cup {Unissued}],
           \A s \in Sessions: \/ session'[s] = Unissued /\ session[s] = Unissued
                              \/ session'[s] # Unissued /\ Exists(session'[s].person),
           \A s \in Sessions: session[s] = Unissued \/ session'[s].person = session[s].person,
           \A q \in Requests: req'[q] \in {req[q], Idle},
           req' \in [Requests -> ReqRecords]
    PROVE  IInv'
<1> USE IdleIsARecord DEF LoginPoints, AdminOps
<1>1. TypeOK' BY DEF IInv, TypeOK
<1>2. LoginInv' BY DEF IInv, LoginInv, Exists
<1>3. ServiceInv'
  <2>1. \A s \in Sessions: session[s] # Unissued => session'[s] # Unissued OBVIOUS
  <2> QED BY <2>1 DEF IInv, ServiceInv
<1>4. HolderInv' BY DEF HolderInv, Exists
<1>5. OneOwner' BY SamePeople
<1>6. CallerInv' BY DEF IInv, CallerInv, OwnersOf
<1>7. TxInv'
  <2> SUFFICES ASSUME NEW r \in Requests PROVE Doable(req[r])' /\ Doomed(req[r])'
    BY DEF TxInv
  <2>1. Doable(req[r]) /\ Doomed(req[r]) /\ req[r].doomed \subseteq Sessions
    BY DEF IInv, TxInv, TypeOK, ReqRecords
  <2>2. Doable(req[r])' BY <2>1 DEF Doable, FoundInTenant, Exists, TxPoints
  <2>3. \A s \in Sessions: session[s] # Unissued => session'[s] # Unissued OBVIOUS
  <2>4. Doomed(req[r])' BY <2>1, <2>3 DEF Doomed
  <2> QED BY <2>2, <2>4
<1> QED BY <1>1, <1>2, <1>3, <1>4, <1>5, <1>6, <1>7 DEF IInv

LEMMA SpentIsARow ==
    ASSUME NEW row \in SessionRows
    PROVE  /\ Spent(row) \in SessionRows /\ Spent(row) # Unissued
           /\ Spent(row).person = row.person /\ Spent(row).row = "over"
  BY DEF Spent, SessionRows, Unissued

LEMMA IssueStep == ASSUME IInv, NEW r \in Requests, IssueSession(r) PROVE IInv'
<1> USE DEF LoginPoints
<1>0. TypeOK /\ LoginInv /\ HolderInv BY DEF IInv
<1>1. req[r].found \in People /\ Exists(req[r].found) /\ req[r].version \in Nat
  BY <1>0 DEF IssueSession, LoginInv, TypeOK, ReqRecords
<1> DEFINE s == CHOOSE t \in Sessions: session[t] = Unissued
           row == [row |-> "live", person |-> req[r].found, password |-> req[r].version,
                   raced |-> person[req[r].found].password # req[r].version,
                   windowed |-> Deleted(req[r].found)]
<1>2. s \in Sessions /\ session[s] = Unissued BY DEF IssueSession
<1>3. row \in SessionRows /\ row # Unissued /\ row.person = req[r].found
  <2>1. (person[req[r].found].password # req[r].version) \in BOOLEAN OBVIOUS
  <2>2. Deleted(req[r].found) \in BOOLEAN BY DEF Deleted
  <2> QED BY <1>1, <2>1, <2>2 DEF SessionRows, Unissued
<1>4. /\ session' = [session EXCEPT ![s] = row] /\ req' = [req EXCEPT ![r] = Idle]
      /\ UNCHANGED <<person, fails, window, cut>>
  BY DEF IssueSession
<1> HIDE DEF row, s
<1>5. /\ session' \in [Sessions -> SessionRows \cup {Unissued}]
      /\ req' \in [Requests -> ReqRecords] /\ \A q \in Requests: req'[q] \in {req[q], Idle}
  BY <1>0, <1>2, <1>3, <1>4, IdleIsARecord DEF TypeOK
<1>6. \A t \in Sessions: \/ session'[t] = Unissued /\ session[t] = Unissued
                         \/ session'[t] # Unissued /\ Exists(session'[t].person)
  BY <1>0, <1>1, <1>2, <1>3, <1>4 DEF TypeOK, HolderInv
<1>7. \A t \in Sessions: session[t] = Unissued \/ session'[t].person = session[t].person
  BY <1>0, <1>2, <1>4 DEF TypeOK
<1> QED BY <1>4, <1>5, <1>6, <1>7, SessionStep

LEMMA PersonRows ==
    ASSUME TypeOK, NEW p \in People
    PROVE  /\ Exists(p) <=> person[p] \in Rows
           /\ person[p].active => Exists(p)
  BY TenantsAssumption DEF TypeOK, Exists, Rows, Absent

(* bootstrapOwner and create.                                              *)
LEMMA InsertStep ==
    ASSUME IInv, NEW r \in Requests, InsertPerson(r)
    PROVE  IInv' /\ \A tn \in Tenants: OwnersOf(tn) \subseteq OwnersOf(tn)'
<1> USE IdleIsARecord DEF LoginPoints, AdminOps
<1>0. TypeOK /\ LoginInv /\ ServiceInv /\ HolderInv /\ OneOwner /\ CallerInv BY DEF IInv
<1> DEFINE q == req[r]
           new == [tenant |-> q.tenant, email |-> q.email, role |-> q.role,
                   active |-> TRUE, password |-> 0]
<1>1. req' = [req EXCEPT ![r] = Idle] /\ UNCHANGED <<session, fails, window, cut>>
  BY DEF InsertPerson
<1>2. CASE UNCHANGED person
  <2>1. \A s \in Sessions: \/ session'[s] = Unissued /\ session[s] = Unissued
                           \/ session'[s] # Unissued /\ Exists(session'[s].person)
    BY <1>0, <1>1 DEF HolderInv
  <2>2. /\ \A t \in Requests: req'[t] \in {req[t], Idle}
        /\ req' \in [Requests -> ReqRecords]
        /\ session' \in [Sessions -> SessionRows \cup {Unissued}]
    BY <1>0, <1>1 DEF TypeOK
  <2> QED BY <1>1, <1>2, <2>1, <2>2, SessionStep DEF OwnersOf
<1>3. ASSUME NEW p \in People, ~Exists(p), ~Collides(q.tenant, q.email, q.role),
             person' = [person EXCEPT ![p] = new]
      PROVE  IInv' /\ \A tn \in Tenants: OwnersOf(tn) \subseteq OwnersOf(tn)'
  <2>1. q \in ReqRecords /\ q.at = "insert" /\ q.tenant \in Tenants /\ q.email \in Emails
    BY <1>0 DEF InsertPerson, ServiceInv, TypeOK
  <2>2. new \in Rows /\ new.tenant = q.tenant /\ new.role = q.role
    BY <2>1 DEF Rows, ReqRecords
  <2> HIDE DEF new
  <2>3. person' \in [People -> Rows \cup {Absent}] /\ person'[p] = new
        /\ \A n \in People: n # p => person'[n] = person[n]
    BY <1>0, <1>3, <2>2 DEF TypeOK
  <2>4. req' \in [Requests -> ReqRecords] /\ \A t \in Requests: req'[t] \in {req[t], Idle}
    BY <1>0, <1>1 DEF TypeOK
  <2>5. TypeOK' BY <1>0, <1>1, <2>3, <2>4 DEF TypeOK
  <2>6. \A n \in People: Exists(n) => Exists(n)'
    BY <1>3, <2>3 DEF Exists
  <2>7. LoginInv' BY <1>0, <2>4, <2>6 DEF LoginInv
  <2>8. ServiceInv' BY <1>0, <1>1, <2>4 DEF ServiceInv
  <2>9. HolderInv'
    <3> SUFFICES ASSUME NEW s \in Sessions, session[s] # Unissued
                 PROVE Exists(session[s].person)'
      BY <1>1 DEF HolderInv
    <3>1. Exists(session[s].person) BY <1>0 DEF HolderInv
    <3>2. session[s].person \in People BY <1>0 DEF TypeOK, SessionRows
    <3> QED BY <1>1, <2>6, <3>1, <3>2
  <2>10. ASSUME NEW tn \in Tenants PROVE OwnersOf(tn) \subseteq OwnersOf(tn)'
    BY <1>0, <1>3, <2>3, PersonRows DEF OwnersOf
  <2>11. OneOwner'
    <3> SUFFICES ASSUME NEW tn \in Tenants, NEW m \in OwnersOf(tn)', NEW n \in OwnersOf(tn)'
                 PROVE m = n
      BY DEF OneOwner
    <3>1. \A o \in OwnersOf(tn)': o = p \/ o \in OwnersOf(tn)
      BY <2>3 DEF OwnersOf
    <3>2. p \in OwnersOf(tn)' => OwnersOf(tn) = {}
      BY <1>3, <2>2, <2>3 DEF OwnersOf, Collides
    <3> QED BY <1>0, <3>1, <3>2 DEF OneOwner
  <2>12. CallerInv' BY <1>0, <2>4, <2>10 DEF CallerInv
  <2>13. TxInv'
    <3> SUFFICES ASSUME NEW t \in Requests PROVE Doable(req[t])' /\ Doomed(req[t])'
      BY DEF TxInv
    <3>1. Doable(req[t]) /\ Doomed(req[t]) BY DEF IInv, TxInv
    <3>2. CASE req'[t] = Idle BY <3>2 DEF Doable, Doomed, TxPoints
    <3>3. CASE req'[t] = req[t]
      <4>1. req[t].at \in TxPoints => person'[req[t].target] = person[req[t].target]
        BY <1>3, <2>3, <3>1 DEF Doable, FoundInTenant
      <4>2. Doable(req[t])' BY <3>1, <3>3, <4>1 DEF Doable, FoundInTenant, Exists
      <4>3. Doomed(req[t])' BY <1>1, <3>1, <3>3 DEF Doomed
      <4> QED BY <4>2, <4>3
    <3> QED BY <2>4, <3>2, <3>3
  <2> QED BY <2>5, <2>7, <2>8, <2>9, <2>10, <2>11, <2>12, <2>13 DEF IInv
<1> QED BY <1>2, <1>3 DEF InsertPerson

(* With one owner per tenant an active owner is always the last one.       *)
LEMMA OwnerIsLast ==
    ASSUME TypeOK, OneOwner, NEW p \in People, person[p].active, person[p].role = "OWNER"
    PROVE  IsLastOwner(p)
<1> DEFINE tn == person[p].tenant
<1>1. tn \in Tenants BY PersonRows DEF Rows
<1>2. OwnersOf(tn) = {p} BY <1>1 DEF OwnersOf, OneOwner
<1>3. Cardinality(OwnersOf(tn)) = 1 BY <1>2, FS_Singleton
<1> QED BY <1>3 DEF IsLastOwner

(* What deactivate and resetPassword do to sessions and to owners.         *)
LEMMA ServiceWrites ==
    ASSUME IInv, NEW p \in People, NEW row \in Rows, NEW r \in Requests,
           person' = [person EXCEPT ![p] = row],
           Exists(p), row.tenant = person[p].tenant, row.role = person[p].role,
           row.role = "OWNER" => row.active = person[p].active,
           row.active => person[p].active,
           req[r].target = p, session' = Without(req[r].doomed),
           req' = [req EXCEPT ![r] = Idle],
           UNCHANGED <<fails, window, cut>>
    PROVE  IInv' /\ \A tn \in Tenants: OwnersOf(tn)' = OwnersOf(tn)
<1> USE IdleIsARecord DEF LoginPoints, AdminOps
<1>0. TypeOK /\ LoginInv /\ ServiceInv /\ TxInv /\ HolderInv /\ OneOwner /\ CallerInv
  BY DEF IInv
<1>1. /\ person'[p] = row /\ \A n \in People: n # p => person'[n] = person[n]
      /\ person' \in [People -> Rows \cup {Absent}]
  BY <1>0 DEF TypeOK
<1>2. req' \in [Requests -> ReqRecords] /\ \A t \in Requests: req'[t] \in {req[t], Idle}
  BY <1>0 DEF TypeOK
<1>3. \A s \in Sessions:
         /\ session'[s] \in SessionRows \cup {Unissued}
         /\ session[s] = Unissued <=> session'[s] = Unissued
         /\ session'[s].person = session[s].person
  <2> SUFFICES ASSUME NEW s \in Sessions
               PROVE  /\ session'[s] \in SessionRows \cup {Unissued}
                      /\ session[s] = Unissued <=> session'[s] = Unissued
                      /\ session'[s].person = session[s].person
    OBVIOUS
  <2>1. CASE session[s] = Unissued
    <3>1. s \notin req[r].doomed BY <1>0, <2>1 DEF TxInv, Doomed
    <3>2. session'[s] = session[s] BY <3>1 DEF Without
    <3> QED BY <2>1, <3>2
  <2>2. CASE session[s] \in SessionRows
    <3>1. session'[s] \in {session[s], Spent(session[s])} BY DEF Without
    <3>2. session[s] # Unissued BY <2>2 DEF SessionRows, Unissued
    <3> QED BY <2>2, <3>1, <3>2, SpentIsARow
  <2> QED BY <1>0, <2>1, <2>2 DEF TypeOK
<1>4. session' \in [Sessions -> SessionRows \cup {Unissued}]
  <2>1. session' = [s \in Sessions |-> session'[s]] BY Zenon DEF Without
  <2> QED BY <1>3, <2>1
<1>5. TypeOK' BY <1>0, <1>1, <1>2, <1>4 DEF TypeOK
<1>6. \A n \in People: Exists(n) => Exists(n)'
  BY <1>1, TenantsAssumption DEF Exists, Rows, Absent
<1>7. LoginInv' BY <1>0, <1>2, <1>6 DEF LoginInv
<1>8. ServiceInv' BY <1>0, <1>2, <1>3 DEF ServiceInv
<1>9. HolderInv'
  <2> SUFFICES ASSUME NEW s \in Sessions, session'[s] # Unissued
               PROVE person'[session'[s].person] # Absent
    BY DEF HolderInv, Exists
  <2>1. Exists(session[s].person) /\ session[s].person \in People
    BY <1>0, <1>3 DEF HolderInv, TypeOK, SessionRows
  <2> QED BY <1>3, <1>6, <2>1 DEF Exists
<1>10. ASSUME NEW tn \in Tenants PROVE OwnersOf(tn)' = OwnersOf(tn)
  <2>1. (row.role = "OWNER" /\ row.active) <=> (person[p].role = "OWNER" /\ person[p].active)
    BY Zenon
  <2> QED BY <1>1, <2>1 DEF OwnersOf
<1>11. OneOwner' BY <1>0, <1>10 DEF OneOwner
<1>12. CallerInv' BY <1>0, <1>2, <1>10 DEF CallerInv
<1>13. TxInv'
  <2> SUFFICES ASSUME NEW t \in Requests PROVE Doable(req[t])' /\ Doomed(req[t])'
    BY DEF TxInv
  <2>1. Doable(req[t]) /\ Doomed(req[t]) /\ req[t].doomed \subseteq Sessions
    BY <1>0 DEF TxInv, TypeOK, ReqRecords
  <2>2. CASE req'[t] = Idle BY <2>2 DEF Doable, Doomed, TxPoints
  <2>3. CASE req'[t] = req[t]
    <3>1. ASSUME req[t].at \in TxPoints
          PROVE  /\ req[t].target \in People
                 /\ person'[req[t].target] # Absent
                 /\ person'[req[t].target].tenant = person[req[t].target].tenant
                 /\ person'[req[t].target].role = person[req[t].target].role
                 /\ person'[req[t].target].active => person[req[t].target].active
      <4>1. req[t].target \in People /\ Exists(req[t].target)
        BY <2>1, <3>1 DEF Doable, FoundInTenant
      <4>2. person'[req[t].target] # Absent BY <1>6, <4>1 DEF Exists
      <4> QED BY <1>1, <4>1, <4>2
    <3>2. Doable(req[t])' BY <2>1, <2>3, <3>1 DEF Doable, FoundInTenant, Exists
    <3>3. Doomed(req[t])' BY <1>3, <2>1, <2>3 DEF Doomed
    <3> QED BY <3>2, <3>3
  <2> QED BY <1>2, <2>2, <2>3
<1> QED BY <1>5, <1>7, <1>8, <1>9, <1>10, <1>11, <1>12, <1>13 DEF IInv

(* The statements of the two transactions before their COMMIT.             *)
LEMMA TxSteps ==
    ASSUME IInv, NEW r \in Requests, FindTarget(r) \/ UpdateTarget(r) \/ DeleteSessions(r)
    PROVE  IInv'
<1> USE IdleIsARecord DEF LoginPoints, AdminOps
<1>0. /\ TypeOK /\ ServiceInv /\ CallerInv /\ OneOwner /\ req[r] \in ReqRecords
      /\ Doable(req[r]) /\ Doomed(req[r])
      /\ fails \in [Emails -> Nat] /\ window \in [Emails -> BOOLEAN] /\ cut \in [Emails -> BOOLEAN]
  BY DEF IInv, TypeOK, TxInv
<1>a. UNCHANGED <<person, session, fails, window, cut>>
  BY DEF FindTarget, UpdateTarget, DeleteSessions
<1>1. CASE req' = [req EXCEPT ![r] = Idle] BY <1>0, <1>a, <1>1, RequestStep
<1>2. ASSUME FindTarget(r), req' = [req EXCEPT ![r].at = "update"], FoundInTenant(req[r]),
             req[r].op = "deactivate" => ~IsLastOwner(req[r].target)
      PROVE  IInv'
  <2> DEFINE next == [req[r] EXCEPT !.at = "update"]
  <2>1. req[r].at = "service" /\ req[r].op \in {"deactivate", "password"}
    BY <1>2 DEF FindTarget
  <2>2. /\ next \in ReqRecords /\ next.at = "update" /\ next.op = req[r].op
        /\ next.target = req[r].target /\ next.tenant = req[r].tenant
        /\ next.caller = req[r].caller /\ next.doomed = req[r].doomed
    BY <1>0 DEF ReqRecords, Points
  <2>3. req' = [req EXCEPT ![r] = next] BY <1>0, <1>2 DEF TypeOK
  <2>4. req[r].target \in People BY <1>0, <2>1 DEF ServiceInv
  <2> HIDE DEF next
  <2>5. Doomed(next) BY <1>0, <2>2, SameDoomed
  <2>6. next.op = "deactivate" =>
            ~(person[next.target].active /\ person[next.target].role = "OWNER")
    BY <1>0, <1>2, <2>2, <2>4, OwnerIsLast
  <2>7. Doable(next) BY <1>2, <2>1, <2>2, <2>4, <2>6 DEF Doable, FoundInTenant
  <2>8. next.tenant \in Tenants /\ next.caller \in OwnersOf(next.tenant)
    BY <1>0, <2>1, <2>2 DEF CallerInv
  <2> QED BY <1>0, <1>a, <2>2, <2>3, <2>5, <2>7, <2>8, RequestStep
<1>3. ASSUME NEW next \in ReqRecords, next.at \in TxPoints, req[r].at \in TxPoints,
             next.op = req[r].op, next.target = req[r].target, next.tenant = req[r].tenant,
             next.caller = req[r].caller, Doomed(next), req' = [req EXCEPT ![r] = next]
      PROVE  IInv'
  <2>1. Doable(next) BY <1>0, <1>3 DEF Doable, FoundInTenant
  <2>2. next.tenant \in Tenants /\ next.caller \in OwnersOf(next.tenant)
    BY <1>0, <1>3 DEF CallerInv, Doable
  <2>3. next.op \in {"deactivate", "password"} BY <1>0, <1>3 DEF Doable
  <2> QED BY <1>0, <1>a, <1>3, <2>1, <2>2, <2>3, RequestStep DEF TxPoints
<1>4. CASE UpdateTarget(r)
  <2> DEFINE next == [req[r] EXCEPT !.at = "delete"]
  <2>1. /\ next \in ReqRecords /\ next.at = "delete" /\ next.op = req[r].op
        /\ next.target = req[r].target /\ next.tenant = req[r].tenant
        /\ next.caller = req[r].caller /\ next.doomed = req[r].doomed
    BY <1>0 DEF ReqRecords, Points
  <2>2. req' = [req EXCEPT ![r] = next] /\ req[r].at = "update"
    BY <1>0, <1>4 DEF TypeOK, UpdateTarget
  <2> HIDE DEF next
  <2>3. Doomed(next) BY <1>0, <2>1, SameDoomed
  <2> QED BY <1>3, <2>1, <2>2, <2>3 DEF TxPoints
<1>5. CASE DeleteSessions(r)
  <2> DEFINE D == {s \in Sessions: session[s].row # "none" /\ session[s].person = req[r].target}
  <2>0. D \in SUBSET Sessions OBVIOUS
  <2> HIDE DEF D
  <2> DEFINE next == [req[r] EXCEPT !.at = "commit", !.doomed = D]
  <2>1. /\ next \in ReqRecords /\ next.at = "commit" /\ next.op = req[r].op
        /\ next.target = req[r].target /\ next.tenant = req[r].tenant
        /\ next.caller = req[r].caller /\ next.doomed = D
    <3>1. [req[r] EXCEPT !.at = "commit"] \in ReqRecords BY <1>0 DEF ReqRecords, Points
    <3>2. \A q \in ReqRecords: [q EXCEPT !.doomed = D] \in ReqRecords BY <2>0 DEF ReqRecords
    <3>3. next \in ReqRecords BY <3>1, <3>2
    <3>4. /\ next.at = "commit" /\ next.op = req[r].op
          /\ next.target = req[r].target /\ next.tenant = req[r].tenant
          /\ next.caller = req[r].caller /\ next.doomed = D
      BY <1>0 DEF ReqRecords
    <3> QED BY <3>3, <3>4
  <2>2. req' = [req EXCEPT ![r] = next] /\ req[r].at = "delete"
    BY <1>0, <1>5 DEF TypeOK, DeleteSessions, D
  <2>3. \A s \in D: session[s] # Unissued /\ session[s].person = req[r].target
    BY DEF Unissued, D
  <2> HIDE DEF next
  <2>4. Doomed(next) BY <2>1, <2>3 DEF Doomed
  <2> QED BY <1>3, <2>1, <2>2, <2>4 DEF TxPoints
<1>6. CASE FindTarget(r) BY <1>1, <1>2, <1>6 DEF FindTarget
<1> QED BY <1>4, <1>5, <1>6

LEMMA DeactivateStep ==
    ASSUME IInv, NEW r \in Requests, Deactivate(r)
    PROVE  IInv' /\ \A tn \in Tenants: OwnersOf(tn)' = OwnersOf(tn)
<1> DEFINE p == req[r].target
           row == [person[p] EXCEPT !.active = FALSE]
<1>0. TypeOK /\ Doable(req[r]) BY DEF IInv, TxInv
<1>1. req' = [req EXCEPT ![r] = Idle] /\ UNCHANGED <<fails, window, cut>>
  BY DEF Deactivate
<1>2. /\ p \in People /\ Exists(p)
      /\ ~(person[p].active /\ person[p].role = "OWNER")
  BY <1>0 DEF Deactivate, Doable, FoundInTenant, TxPoints
<1>3. person[p] \in Rows BY <1>0, <1>2, PersonRows
<1>4. /\ row \in Rows /\ row.tenant = person[p].tenant /\ row.role = person[p].role
      /\ row.active = FALSE
  BY <1>3 DEF Rows
<1>5. row.role = "OWNER" => row.active = person[p].active
  <2>1. person[p].active \in BOOLEAN BY <1>3 DEF Rows
  <2> QED BY <1>2, <1>4, <2>1
<1>6. person' = [person EXCEPT ![p] = row] /\ session' = Without(req[r].doomed)
  BY <1>0 DEF Deactivate, TypeOK
<1>7. req[r].target = p OBVIOUS
<1> HIDE DEF row, p
<1> QED BY <1>1, <1>2, <1>4, <1>5, <1>6, <1>7, ServiceWrites

LEMMA ResetPasswordStep ==
    ASSUME IInv, NEW r \in Requests, ResetPassword(r)
    PROVE  IInv' /\ \A tn \in Tenants: OwnersOf(tn)' = OwnersOf(tn)
<1> DEFINE p == req[r].target
           row == [person[p] EXCEPT !.password = @ + 1]
<1>0. TypeOK /\ Doable(req[r]) BY DEF IInv, TxInv
<1>1. req' = [req EXCEPT ![r] = Idle] /\ UNCHANGED <<fails, window, cut>>
  BY DEF ResetPassword
<1>2. p \in People /\ Exists(p) BY <1>0 DEF ResetPassword, Doable, FoundInTenant, TxPoints
<1>3. person[p] \in Rows BY <1>0, <1>2, PersonRows
<1>4. /\ row \in Rows /\ row.tenant = person[p].tenant /\ row.role = person[p].role
      /\ row.active = person[p].active
  BY <1>3 DEF Rows
<1>5. person' = [person EXCEPT ![p] = row] /\ session' = Without(req[r].doomed)
  BY <1>0 DEF ResetPassword, TypeOK
<1>6. req[r].target = p OBVIOUS
<1> HIDE DEF row, p
<1> QED BY <1>1, <1>2, <1>4, <1>5, <1>6, ServiceWrites

(* A session that ends, by logout or by its expiresAt.                     *)
LEMMA SpentStep ==
    ASSUME IInv, NEW s \in Sessions, session[s] # Unissued,
           session' = [session EXCEPT ![s] = Spent(@)],
           UNCHANGED <<person, fails, window, cut>>,
           \A q \in Requests: req'[q] \in {req[q], Idle},
           req' \in [Requests -> ReqRecords]
    PROVE  IInv'
<1>0. TypeOK /\ HolderInv BY DEF IInv
<1>1. session[s] \in SessionRows BY <1>0 DEF TypeOK
<1>2. /\ session'[s] = Spent(session[s]) /\ \A t \in Sessions: t # s => session'[t] = session[t]
      /\ session' \in [Sessions -> SessionRows \cup {Unissued}]
  BY <1>0, <1>1, SpentIsARow DEF TypeOK
<1>3. \A t \in Sessions: \/ session'[t] = Unissued /\ session[t] = Unissued
                         \/ session'[t] # Unissued /\ Exists(session'[t].person)
  BY <1>0, <1>1, <1>2, SpentIsARow DEF HolderInv
<1>4. \A t \in Sessions: session[t] = Unissued \/ session'[t].person = session[t].person
  BY <1>1, <1>2, SpentIsARow
<1> QED BY <1>2, <1>3, <1>4, SessionStep

LEMMA LogoutStep == ASSUME IInv, NEW r \in Requests, Logout(r) PROVE IInv'
<1>1. req[r].token \in Sessions /\ session[req[r].token] # Unissued
  BY DEF IInv, ServiceInv, Logout
<1>2. /\ session' = [session EXCEPT ![req[r].token] = Spent(@)] /\ req' = [req EXCEPT ![r] = Idle]
      /\ UNCHANGED <<person, fails, window, cut>>
  BY DEF Logout
<1>3. req' \in [Requests -> ReqRecords] /\ \A q \in Requests: req'[q] \in {req[q], Idle}
  BY <1>2, IdleIsARecord DEF IInv, TypeOK
<1> QED BY <1>1, <1>2, <1>3, SpentStep

LEMMA SessionExpiresStep == ASSUME IInv, NEW s \in Sessions, SessionExpires(s) PROVE IInv'
<1>1. session[s] # Unissued BY DEF SessionExpires, Unissued
<1>2. req' \in [Requests -> ReqRecords] /\ \A q \in Requests: req'[q] \in {req[q], Idle}
  BY DEF IInv, TypeOK, SessionExpires
<1> QED BY <1>1, <1>2, SpentStep DEF SessionExpires

(* Neither the limiter's counters nor the death of requests disturb rows.  *)
LEMMA QuietStep ==
    ASSUME IInv, UNCHANGED <<person, session>>,
           fails' \in [Emails -> Nat], window' \in [Emails -> BOOLEAN], cut' \in [Emails -> BOOLEAN],
           \A q \in Requests: req'[q] \in {req[q], Idle},
           req' \in [Requests -> ReqRecords]
    PROVE  IInv'
<1> USE IdleIsARecord DEF LoginPoints, AdminOps
<1>1. TypeOK' BY DEF IInv, TypeOK
<1>2. LoginInv' BY DEF IInv, LoginInv, Exists
<1>3. ServiceInv' BY DEF IInv, ServiceInv
<1>4. HolderInv' BY DEF IInv, HolderInv, Exists
<1>5. OneOwner' BY SamePeople
<1>6. CallerInv' BY DEF IInv, CallerInv, OwnersOf
<1>7. TxInv'
  <2> SUFFICES ASSUME NEW r \in Requests PROVE Doable(req[r])' /\ Doomed(req[r])'
    BY DEF TxInv
  <2>1. Doable(req[r]) /\ Doomed(req[r]) BY DEF IInv, TxInv
  <2>2. CASE req'[r] = Idle BY <2>2 DEF Doable, Doomed, TxPoints
  <2>3. CASE req'[r] = req[r] BY <2>1, <2>3 DEF Doable, Doomed, FoundInTenant, Exists
  <2> QED BY <2>2, <2>3
<1> QED BY <1>1, <1>2, <1>3, <1>4, <1>5, <1>6, <1>7 DEF IInv

LEMMA WindowEndsStep == ASSUME IInv, NEW e \in Emails, WindowEnds(e) PROVE IInv'
<1>1. /\ fails' \in [Emails -> Nat] /\ window' \in [Emails -> BOOLEAN]
      /\ cut' \in [Emails -> BOOLEAN] /\ UNCHANGED <<person, session, req>>
      /\ req' \in [Requests -> ReqRecords]
  BY DEF IInv, TypeOK, WindowEnds
<1> QED BY <1>1, QuietStep

LEMMA ProcessDiesStep == ASSUME IInv, ProcessDies PROVE IInv'
<1>1. UNCHANGED <<person, session, fails, window>> /\ req' = [r \in Requests |-> Idle]
  BY DEF ProcessDies
<1>2. cut' \in [Emails -> BOOLEAN]
  <2> DEFINE c(e) == \/ cut[e]
                     \/ /\ fails[e] > 0 /\ ~window[e]
                        /\ \E r \in Requests: req[r].at = "window" /\ req[r].email = e
  <2>1. \A e \in Emails: c(e) \in BOOLEAN BY DEF IInv, TypeOK
  <2>2. cut' = [e \in Emails |-> c(e)] BY DEF ProcessDies
  <2> HIDE DEF c
  <2> QED BY <2>1, <2>2
<1>3. fails' \in [Emails -> Nat] /\ window' \in [Emails -> BOOLEAN]
  BY <1>1 DEF IInv, TypeOK
<1>4. req' \in [Requests -> ReqRecords] /\ \A q \in Requests: req'[q] \in {req[q], Idle}
  BY <1>1, IdleIsARecord
<1> QED BY <1>1, <1>2, <1>3, <1>4, QuietStep

(* A step is one of these.                                                 *)
LEMMA Steps ==
    ASSUME [Next]_vars
    PROVE  \/ \E r \in Requests:
                 \/ \E e \in Emails, w \in Passwords \cup {WrongPassword}: BeginLogin(r, e, w)
                 \/ FindPerson(r) \/ RegisterFailure(r) \/ OpenWindow(r) \/ ResetFailures(r)
           \/ \E r \in Requests:
                 \/ \E tn \in Tenants, e \in Emails: EnterBootstrap(r, tn, e)
                 \/ \E s \in Sessions: EnterLogout(r, s)
                 \/ \E s \in Sessions, tn \in Tenants, p \in People, op \in {"deactivate", "password"}:
                       EnterAdmin(r, s, tn, op, p, Nobody, "AGENT")
                 \/ \E s \in Sessions, tn \in Tenants, e \in Emails, role \in Roles:
                       EnterAdmin(r, s, tn, "create", Nobody, e, role)
           \/ \E r \in Requests: FindTarget(r) \/ UpdateTarget(r) \/ DeleteSessions(r)
           \/ \E r \in Requests: IssueSession(r) \/ InsertPerson(r) \/ Deactivate(r)
                                 \/ ResetPassword(r) \/ Logout(r)
           \/ \E s \in Sessions: SessionExpires(s)
           \/ \E e \in Emails: WindowEnds(e)
           \/ ProcessDies
           \/ UNCHANGED vars
  BY DEF Next, Arrival, LoginStep, ServiceStep

LEMMA StepIInv ==
    ASSUME IInv, [Next]_vars
    PROVE  IInv' /\ \A tn \in Tenants: OwnersOf(tn) \subseteq OwnersOf(tn)'
<1> DEFINE Kept == \A tn \in Tenants: OwnersOf(tn) \subseteq OwnersOf(tn)'
<1>0. ASSUME person' = person PROVE Kept BY <1>0 DEF OwnersOf
<1> HIDE DEF Kept
<1>1. ASSUME NEW r \in Requests,
             \/ \E e \in Emails, w \in Passwords \cup {WrongPassword}: BeginLogin(r, e, w)
             \/ FindPerson(r) \/ RegisterFailure(r) \/ OpenWindow(r) \/ ResetFailures(r)
      PROVE  IInv' /\ Kept
  <2>1. person' = person
    BY <1>1 DEF BeginLogin, FindPerson, RegisterFailure, OpenWindow, ResetFailures
  <2> QED BY <1>0, <1>1, <2>1, LoginSteps
<1>2. ASSUME NEW r \in Requests,
             \/ \E tn \in Tenants, e \in Emails: EnterBootstrap(r, tn, e)
             \/ \E s \in Sessions: EnterLogout(r, s)
             \/ \E s \in Sessions, tn \in Tenants, p \in People, op \in {"deactivate", "password"}:
                   EnterAdmin(r, s, tn, op, p, Nobody, "AGENT")
             \/ \E s \in Sessions, tn \in Tenants, e \in Emails, role \in Roles:
                   EnterAdmin(r, s, tn, "create", Nobody, e, role)
      PROVE  IInv' /\ Kept
  <2>1. person' = person
    BY <1>2 DEF EnterBootstrap, EnterLogout, EnterAdmin
  <2> QED BY <1>0, <1>2, <2>1, GuardSteps
<1>3. ASSUME NEW r \in Requests, IssueSession(r) \/ Logout(r) PROVE IInv' /\ Kept
  <2>1. person' = person BY <1>3 DEF IssueSession, Logout
  <2> QED BY <1>0, <1>3, <2>1, IssueStep, LogoutStep
<1>4. ASSUME NEW r \in Requests, InsertPerson(r) PROVE IInv' /\ Kept
  BY <1>4, InsertStep DEF Kept
<1>5. ASSUME NEW r \in Requests, Deactivate(r) \/ ResetPassword(r) PROVE IInv' /\ Kept
  BY <1>5, DeactivateStep, ResetPasswordStep DEF Kept
<1>11. ASSUME NEW r \in Requests, FindTarget(r) \/ UpdateTarget(r) \/ DeleteSessions(r)
       PROVE  IInv' /\ Kept
  <2>1. person' = person BY <1>11 DEF FindTarget, UpdateTarget, DeleteSessions
  <2> QED BY <1>0, <1>11, <2>1, TxSteps
<1>6. ASSUME NEW s \in Sessions, SessionExpires(s) PROVE IInv' /\ Kept
  <2>1. person' = person BY <1>6 DEF SessionExpires
  <2> QED BY <1>0, <1>6, <2>1, SessionExpiresStep
<1>7. ASSUME NEW e \in Emails, WindowEnds(e) PROVE IInv' /\ Kept
  <2>1. person' = person BY <1>7 DEF WindowEnds
  <2> QED BY <1>0, <1>7, <2>1, WindowEndsStep
<1>8. ASSUME ProcessDies PROVE IInv' /\ Kept
  <2>1. person' = person BY <1>8 DEF ProcessDies
  <2> QED BY <1>0, <1>8, <2>1, ProcessDiesStep
<1>9. ASSUME UNCHANGED vars PROVE IInv' /\ Kept
  <2>1. /\ UNCHANGED <<person, session>> /\ fails' \in [Emails -> Nat]
        /\ window' \in [Emails -> BOOLEAN] /\ cut' \in [Emails -> BOOLEAN]
        /\ req' \in [Requests -> ReqRecords] /\ \A q \in Requests: req'[q] \in {req[q], Idle}
    BY <1>9 DEF vars, IInv, TypeOK
  <2> QED BY <1>0, <2>1, QuietStep
<1>10. IInv' /\ Kept
  BY <1>1, <1>2, <1>3, <1>4, <1>5, <1>6, <1>7, <1>8, <1>9, <1>11, Steps
<1> QED BY <1>10 DEF Kept

(* TypeOK: rows, tokens, counters and requests are what the schema and the *)
(* handlers say they are.                                                  *)
THEOREM TypeCorrect == Spec => []TypeOK
<1>1. IInv => TypeOK BY DEF IInv
<1>2. IInv /\ [Next]_vars => IInv' BY StepIInv
<1> QED BY <1>1, <1>2, InitIInv, PTL DEF Spec

(* OwnerNeverLost: whatever deactivations, resets, bootstraps and deaths   *)
(* meet, a tenant that has an active owner keeps it.                       *)
THEOREM OwnerStays == Spec => OwnerNeverLost
<1>1. IInv /\ [Next]_vars => IInv' BY StepIInv
<1>2. ASSUME IInv, [Next]_vars
      PROVE  [\A tn \in Tenants: OwnersOf(tn) # {} => OwnersOf(tn)' # {}]_vars
  BY <1>2, StepIInv
<1> QED BY <1>1, <1>2, InitIInv, PTL DEF Spec, OwnerNeverLost

-----------------------------------------------------------------------------
(* The counter of the limiter.                                             *)

(* A step that leaves the counters and the logins at "window" alone.       *)
LEMMA QuietCounter ==
    ASSUME CountersExpire, UNCHANGED <<fails, window, cut>>,
           NEW r \in Requests, req[r].at # "window",
           \A q \in Requests: q # r => req'[q] = req[q]
    PROVE  CountersExpire'
  BY DEF CountersExpire

LEMMA CounterStep ==
    ASSUME IInv, CountersExpire, [Next]_vars
    PROVE  CountersExpire'
<1>0. TypeOK /\ LoginInv BY DEF IInv
<1>1. ASSUME NEW r \in Requests, RegisterFailure(r) PROVE CountersExpire'
  <2> DEFINE e == req[r].email
  <2>1. e \in Emails /\ req[r].at = "failure" BY <1>0, <1>1 DEF RegisterFailure, LoginInv, LoginPoints
  <2>2. /\ \A d \in Emails: d # e => fails'[d] = fails[d]
        /\ \A q \in Requests: q # r => req'[q] = req[q]
        /\ fails[e] = 0 => req'[r].at = "window" /\ req'[r].email = e
        /\ fails[e] \in Nat
        /\ UNCHANGED <<window, cut>>
    BY <1>0, <1>1, <2>1 DEF RegisterFailure, TypeOK, ReqRecords
  <2> SUFFICES ASSUME NEW d \in Emails, fails'[d] > 0
               PROVE  \/ window'[d] \/ cut'[d]
                      \/ \E q \in Requests: req'[q].at = "window" /\ req'[q].email = d
    BY DEF CountersExpire
  <2>3. CASE d = e /\ fails[e] = 0 BY <2>2, <2>3
  <2>4. CASE fails[d] > 0 BY <2>1, <2>2, <2>4 DEF CountersExpire
  <2> QED BY <2>2, <2>3, <2>4
<1>2. ASSUME NEW r \in Requests, OpenWindow(r) PROVE CountersExpire'
  <2> DEFINE e == req[r].email
  <2>1. e \in Emails BY <1>0, <1>2 DEF OpenWindow, LoginInv, LoginPoints
  <2>2. /\ window'[e] = (fails[e] > 0)
        /\ \A d \in Emails: d # e => window'[d] = window[d]
        /\ \A q \in Requests: q # r => req'[q] = req[q]
        /\ UNCHANGED <<fails, cut>>
    BY <1>0, <1>2, <2>1 DEF OpenWindow, TypeOK
  <2> SUFFICES ASSUME NEW d \in Emails, fails'[d] > 0
               PROVE  \/ window'[d] \/ cut'[d]
                      \/ \E q \in Requests: req'[q].at = "window" /\ req'[q].email = d
    BY DEF CountersExpire
  <2>3. CASE d = e BY <2>2, <2>3
  <2>4. CASE d # e
    <3>1. \/ window[d] \/ cut[d]
          \/ \E q \in Requests: req[q].at = "window" /\ req[q].email = d
      BY <2>2 DEF CountersExpire
    <3>2. ASSUME NEW q \in Requests, req[q].at = "window", req[q].email = d
          PROVE  req'[q] = req[q]
      BY <2>2, <2>4, <3>2
    <3> QED BY <2>2, <2>4, <3>1, <3>2
  <2> QED BY <2>3, <2>4
<1>3. ASSUME NEW r \in Requests, ResetFailures(r) PROVE CountersExpire'
  <2> DEFINE e == req[r].email
  <2>1. e \in Emails /\ req[r].at = "reset" BY <1>0, <1>3 DEF ResetFailures, LoginInv, LoginPoints
  <2>2. /\ fails'[e] = 0
        /\ \A d \in Emails: d # e => /\ fails'[d] = fails[d] /\ window'[d] = window[d]
                                     /\ cut'[d] = cut[d]
        /\ \A q \in Requests: q # r => req'[q] = req[q]
    BY <1>0, <1>3, <2>1 DEF ResetFailures, TypeOK
  <2> QED BY <2>1, <2>2 DEF CountersExpire
<1>4. ASSUME NEW e \in Emails, WindowEnds(e) PROVE CountersExpire'
  <2>1. /\ fails'[e] = 0 /\ req' = req
        /\ \A d \in Emails: d # e => /\ fails'[d] = fails[d] /\ window'[d] = window[d]
                                     /\ cut'[d] = cut[d]
    BY <1>0, <1>4 DEF WindowEnds, TypeOK
  <2> QED BY <2>1 DEF CountersExpire
<1>5. ASSUME ProcessDies PROVE CountersExpire'
  <2> SUFFICES ASSUME NEW d \in Emails, fails'[d] > 0 PROVE window'[d] \/ cut'[d]
    BY DEF CountersExpire
  <2>1. /\ UNCHANGED <<fails, window>>
        /\ cut'[d] <=> \/ cut[d]
                       \/ /\ fails[d] > 0 /\ ~window[d]
                          /\ \E r \in Requests: req[r].at = "window" /\ req[r].email = d
    BY <1>5 DEF ProcessDies
  <2> QED BY <2>1 DEF CountersExpire
<1>6. ASSUME NEW r \in Requests,
             \/ \E e \in Emails, w \in Passwords \cup {WrongPassword}: BeginLogin(r, e, w)
             \/ FindPerson(r) \/ IssueSession(r)
             \/ \E tn \in Tenants, e \in Emails: EnterBootstrap(r, tn, e)
             \/ \E s \in Sessions: EnterLogout(r, s)
             \/ \E s \in Sessions, tn \in Tenants, p \in People, op \in {"deactivate", "password"}:
                   EnterAdmin(r, s, tn, op, p, Nobody, "AGENT")
             \/ \E s \in Sessions, tn \in Tenants, e \in Emails, role \in Roles:
                   EnterAdmin(r, s, tn, "create", Nobody, e, role)
             \/ InsertPerson(r) \/ Deactivate(r) \/ ResetPassword(r) \/ Logout(r)
             \/ FindTarget(r) \/ UpdateTarget(r) \/ DeleteSessions(r)
      PROVE  CountersExpire'
  <2>1. /\ req[r].at # "window"
        /\ UNCHANGED <<fails, window, cut>>
    BY <1>6, IdleIsARecord
       DEF BeginLogin, FindPerson, IssueSession, EnterBootstrap, EnterLogout, EnterAdmin,
           InsertPerson, Deactivate, ResetPassword, Logout, FindTarget, UpdateTarget,
           DeleteSessions
  <2>2. \A q \in Requests: q # r => req'[q] = req[q]
    BY <1>0, <1>6
       DEF BeginLogin, FindPerson, IssueSession, EnterBootstrap, EnterLogout, EnterAdmin,
           InsertPerson, Deactivate, ResetPassword, Logout, FindTarget, UpdateTarget,
           DeleteSessions, TypeOK
  <2> QED BY <2>1, <2>2, QuietCounter
<1>7. ASSUME UNCHANGED <<fails, window, cut, req>> PROVE CountersExpire'
  BY <1>7 DEF CountersExpire
<1>8. ASSUME NEW s \in Sessions, SessionExpires(s) PROVE CountersExpire'
  BY <1>7, <1>8 DEF SessionExpires
<1>9. ASSUME UNCHANGED vars PROVE CountersExpire' BY <1>7, <1>9 DEF vars
<1> QED BY <1>1, <1>2, <1>3, <1>4, <1>5, <1>6, <1>8, <1>9, Steps

(* CountersExpire: for any number of concurrent logins, an email is never  *)
(* left with a counter nobody will expire, except by a death between INCR  *)
(* and EXPIRE.                                                             *)
THEOREM NoLastingBlock == Spec => []CountersExpire
<1>1. Init => CountersExpire BY DEF Init, CountersExpire
<1>2. IInv /\ CountersExpire /\ [Next]_vars => IInv' /\ CountersExpire'
  BY StepIInv, CounterStep
<1> QED BY <1>1, <1>2, InitIInv, PTL DEF Spec

-----------------------------------------------------------------------------
(* What a step may do to people and sessions.                              *)

Opens == \E s \in Sessions, p \in People, row \in SessionRows:
            /\ session[s] = Unissued /\ Exists(p) /\ row.row = "live" /\ row.person = p
            /\ row.raced = (person[p].password # row.password) /\ row.windowed = Deleted(p)
            /\ session' = [session EXCEPT ![s] = row] /\ person' = person
Joins == \E p \in People, row \in Rows:
            /\ ~Exists(p) /\ row.active
            /\ person' = [person EXCEPT ![p] = row] /\ session' = session
Leaves == \E r \in Requests:
            /\ req[r].target \in People /\ Exists(req[r].target)
            /\ person' = [person EXCEPT ![req[r].target].active = FALSE]
            /\ session' = Without(req[r].doomed)
Resets == \E r \in Requests:
            /\ req[r].at = "commit" /\ req[r].op = "password"
            /\ req[r].target \in People /\ Exists(req[r].target)
            /\ person' = [person EXCEPT ![req[r].target].password = @ + 1]
            /\ session' = Without(req[r].doomed)
Ends == \E s \in Sessions:
            /\ session[s] \in SessionRows
            /\ session' = [session EXCEPT ![s] = Spent(@)] /\ person' = person

LEMMA Effects ==
    ASSUME IInv, [Next]_vars
    PROVE  Opens \/ Joins \/ Leaves \/ Resets \/ Ends \/ UNCHANGED <<person, session>>
<1>0. TypeOK /\ LoginInv /\ ServiceInv /\ TxInv BY DEF IInv
<1>1. ASSUME NEW r \in Requests, IssueSession(r) PROVE Opens
  <2> DEFINE s == CHOOSE t \in Sessions: session[t] = Unissued
             p == req[r].found
             row == [row |-> "live", person |-> p, password |-> req[r].version,
                     raced |-> person[p].password # req[r].version,
                     windowed |-> Deleted(p)]
  <2>1. p \in People /\ Exists(p) /\ req[r].version \in Nat
    BY <1>0, <1>1 DEF IssueSession, LoginInv, TypeOK, ReqRecords
  <2>2. s \in Sessions /\ session[s] = Unissued BY <1>1 DEF IssueSession
  <2>3. row \in SessionRows
    <3>1. (person[p].password # req[r].version) \in BOOLEAN OBVIOUS
    <3>2. Deleted(p) \in BOOLEAN BY DEF Deleted
    <3> QED BY <2>1, <3>1, <3>2 DEF SessionRows
  <2>4. /\ row.row = "live" /\ row.person = p /\ row.raced = (person[p].password # row.password)
        /\ row.windowed = Deleted(p)
    OBVIOUS
  <2>5. session' = [session EXCEPT ![s] = row] /\ person' = person BY <1>1 DEF IssueSession
  <2> HIDE DEF s, p, row
  <2> QED BY <2>1, <2>2, <2>3, <2>4, <2>5 DEF Opens
<1>2. ASSUME NEW r \in Requests, InsertPerson(r) PROVE Joins \/ UNCHANGED <<person, session>>
  <2> DEFINE q == req[r]
             p == CHOOSE n \in People: ~Exists(n)
             row == [tenant |-> q.tenant, email |-> q.email, role |-> q.role,
                     active |-> TRUE, password |-> 0]
  <2>1. CASE ~Collides(q.tenant, q.email, q.role)
    <3>1. p \in People /\ ~Exists(p) BY <1>2, <2>1 DEF InsertPerson
    <3>2. row \in Rows
      BY <1>0, <1>2 DEF InsertPerson, ServiceInv, TypeOK, ReqRecords, Rows
    <3>3. person' = [person EXCEPT ![p] = row] /\ session' = session
      BY <1>2, <2>1 DEF InsertPerson
    <3> QED BY <3>1, <3>2, <3>3 DEF Joins
  <2> QED BY <1>2, <2>1 DEF InsertPerson
<1>3. ASSUME NEW r \in Requests, Deactivate(r) PROVE Leaves
  <2>1. req[r].target \in People /\ Exists(req[r].target)
    BY <1>0, <1>3 DEF Deactivate, TxInv, Doable, FoundInTenant, TxPoints
  <2> QED BY <1>3, <2>1 DEF Deactivate, Leaves
<1>4. ASSUME NEW r \in Requests, ResetPassword(r) PROVE Resets
  <2>1. req[r].target \in People /\ Exists(req[r].target)
    BY <1>0, <1>4 DEF ResetPassword, TxInv, Doable, FoundInTenant, TxPoints
  <2> QED BY <1>4, <2>1 DEF ResetPassword, Resets
<1>5. ASSUME NEW r \in Requests, Logout(r) PROVE Ends
  <2>1. req[r].token \in Sessions /\ session[req[r].token] \in SessionRows
    BY <1>0, <1>5 DEF Logout, ServiceInv, TypeOK
  <2> QED BY <1>5, <2>1 DEF Logout, Ends
<1>6. ASSUME NEW s \in Sessions, SessionExpires(s) PROVE Ends
  <2>1. session[s] \in SessionRows
    BY <1>0, <1>6 DEF SessionExpires, TypeOK, Unissued
  <2> QED BY <1>6, <2>1 DEF SessionExpires, Ends
<1>7. ASSUME NEW r \in Requests,
             \/ \E e \in Emails, w \in Passwords \cup {WrongPassword}: BeginLogin(r, e, w)
             \/ FindPerson(r) \/ RegisterFailure(r) \/ OpenWindow(r) \/ ResetFailures(r)
             \/ \E tn \in Tenants, e \in Emails: EnterBootstrap(r, tn, e)
             \/ \E s \in Sessions: EnterLogout(r, s)
             \/ \E s \in Sessions, tn \in Tenants, p \in People, op \in {"deactivate", "password"}:
                   EnterAdmin(r, s, tn, op, p, Nobody, "AGENT")
             \/ \E s \in Sessions, tn \in Tenants, e \in Emails, role \in Roles:
                   EnterAdmin(r, s, tn, "create", Nobody, e, role)
             \/ FindTarget(r) \/ UpdateTarget(r) \/ DeleteSessions(r)
      PROVE  UNCHANGED <<person, session>>
  BY <1>7 DEF BeginLogin, FindPerson, RegisterFailure, OpenWindow, ResetFailures,
              EnterBootstrap, EnterLogout, EnterAdmin, FindTarget, UpdateTarget, DeleteSessions
<1>8. ASSUME ProcessDies \/ UNCHANGED vars \/ \E e \in Emails: WindowEnds(e)
      PROVE  UNCHANGED <<person, session>>
  BY <1>8 DEF ProcessDies, WindowEnds, vars
<1> QED BY <1>1, <1>2, <1>3, <1>4, <1>5, <1>6, <1>7, <1>8, Steps

(* What a COMMIT deletes are rows of its target, and it deletes no other.  *)
LEMMA EndedSessions ==
    ASSUME IInv, NEW r \in Requests, session' = Without(req[r].doomed), NEW s \in Sessions
    PROVE  IF s \in req[r].doomed
           THEN /\ session[s] \in SessionRows /\ session[s].person = req[r].target
                /\ session'[s] = Spent(session[s])
           ELSE session'[s] = session[s]
<1>1. session'[s] = IF s \in req[r].doomed THEN Spent(session[s]) ELSE session[s] BY DEF Without
<1>2. s \in req[r].doomed => session[s] # Unissued /\ session[s].person = req[r].target
  BY DEF IInv, TxInv, Doomed
<1> QED BY <1>1, <1>2 DEF IInv, TypeOK

(* A session that lives after a step lived before, unchanged, or is new.   *)
LEMMA LiveBefore ==
    ASSUME IInv, [Next]_vars, NEW s \in Sessions, session'[s].row = "live"
    PROVE  \/ session'[s] = session[s]
           \/ /\ session'[s].raced =
                    (person[session'[s].person].password # session'[s].password)
              /\ session'[s].windowed = Deleted(session'[s].person)
              /\ person' = person
<1>0. TypeOK BY DEF IInv
<1>1. CASE Opens
  <2> PICK t \in Sessions, p \in People, row \in SessionRows:
           /\ row.person = p
           /\ row.raced = (person[p].password # row.password) /\ row.windowed = Deleted(p)
           /\ session' = [session EXCEPT ![t] = row] /\ person' = person
    BY <1>1 DEF Opens
  <2>1. session'[s] = IF s = t THEN row ELSE session[s] BY <1>0 DEF TypeOK
  <2> QED BY <2>1
<1>2. ASSUME NEW r \in Requests, session' = Without(req[r].doomed) PROVE session'[s] = session[s]
  <2>1. session'[s] # Spent(session[s]) \/ session[s] \notin SessionRows BY SpentIsARow
  <2> QED BY <1>2, <2>1, EndedSessions
<1>3. CASE Ends
  <2> PICK t \in Sessions: /\ session[t] \in SessionRows
                           /\ session' = [session EXCEPT ![t] = Spent(@)]
    BY <1>3 DEF Ends
  <2>1. s # t BY <1>0, SpentIsARow DEF TypeOK
  <2> QED BY <1>0, <2>1 DEF TypeOK
<1> QED BY <1>1, <1>2, <1>3, Effects DEF Joins, Leaves, Resets

(* Between the deleteMany of a reset and its COMMIT, the target has only   *)
(* the sessions it is deleting and those opened meanwhile.                 *)
WindowInv ==
    \A r \in Requests: req[r].at = "commit" /\ req[r].op = "password" =>
        \A s \in Sessions:
            session[s].row = "live" /\ session[s].person = req[r].target =>
                s \in req[r].doomed \/ session[s].windowed

LEMMA AtCommit ==
    ASSUME IInv, [Next]_vars, NEW r \in Requests, req'[r].at = "commit"
    PROVE  req'[r] = req[r] \/ DeleteSessions(r)
<1>0. TypeOK BY DEF IInv
<1>1. ASSUME NEW q \in Requests, NEW next, next.at # "commit", req' = [req EXCEPT ![q] = next]
      PROVE  req'[r] = req[r]
  BY <1>0, <1>1 DEF TypeOK
<1>2. ASSUME NEW q \in Requests,
             \/ \E e \in Emails, w \in Passwords \cup {WrongPassword}: BeginLogin(q, e, w)
             \/ FindPerson(q) \/ RegisterFailure(q) \/ OpenWindow(q) \/ ResetFailures(q)
      PROVE  req'[r] = req[r]
  <2>1. req[q] \in ReqRecords BY <1>0 DEF TypeOK
  <2>2. ASSUME NEW e \in Emails, NEW w \in Passwords \cup {WrongPassword}, BeginLogin(q, e, w)
        PROVE  req'[r] = req[r]
    <3> DEFINE next == [Idle EXCEPT !.at = "find", !.op = "login", !.email = e, !.tried = w]
    <3>1. next.at = "find" /\ req' = [req EXCEPT ![q] = next] BY <2>2 DEF BeginLogin, Idle
    <3> HIDE DEF next
    <3> QED BY <1>1, <3>1
  <2>3. CASE FindPerson(q)
    <3>1. CASE req' = [req EXCEPT ![q].at = "failure", ![q].tried = 0]
      <4> DEFINE next == [req[q] EXCEPT !.at = "failure", !.tried = 0]
      <4>1. next.at # "commit" BY <2>1 DEF ReqRecords
      <4>2. req' = [req EXCEPT ![q] = next] BY <1>0, <3>1 DEF TypeOK
      <4> HIDE DEF next
      <4> QED BY <1>1, <4>1, <4>2
    <3>2. ASSUME NEW p \in People,
                 req' = [req EXCEPT ![q].at = "reset", ![q].tried = 0, ![q].found = p,
                                    ![q].version = person[p].password]
          PROVE  req'[r] = req[r]
      <4> DEFINE next == [req[q] EXCEPT !.at = "reset", !.tried = 0, !.found = p,
                                        !.version = person[p].password]
      <4>1. next.at # "commit" BY <2>1 DEF ReqRecords
      <4>2. req' = [req EXCEPT ![q] = next] BY <1>0, <3>2 DEF TypeOK
      <4> HIDE DEF next
      <4> QED BY <1>1, <4>1, <4>2
    <3> QED BY <2>3, <3>1, <3>2 DEF FindPerson
  <2>4. CASE RegisterFailure(q)
    <3> DEFINE next == IF fails[req[q].email] = 0 THEN [req[q] EXCEPT !.at = "window"] ELSE Idle
    <3>1. next.at # "commit" BY <2>1, IdleIsARecord DEF ReqRecords
    <3>2. req' = [req EXCEPT ![q] = next] BY <1>0, <2>4 DEF RegisterFailure, TypeOK
    <3> HIDE DEF next
    <3> QED BY <1>1, <3>1, <3>2
  <2>5. CASE OpenWindow(q) BY <1>1, <2>5, IdleIsARecord DEF OpenWindow
  <2>6. CASE ResetFailures(q)
    <3> DEFINE next == [req[q] EXCEPT !.at = "issue", !.email = Nobody]
    <3>1. next.at # "commit" BY <2>1 DEF ReqRecords
    <3>2. req' = [req EXCEPT ![q] = next] BY <1>0, <2>6 DEF ResetFailures, TypeOK
    <3> HIDE DEF next
    <3> QED BY <1>1, <3>1, <3>2
  <2> QED BY <1>2, <2>2, <2>3, <2>4, <2>5, <2>6
<1>3. ASSUME NEW q \in Requests,
             \/ \E tn \in Tenants, e \in Emails: EnterBootstrap(q, tn, e)
             \/ \E s \in Sessions: EnterLogout(q, s)
             \/ \E s \in Sessions, tn \in Tenants, p \in People, op \in {"deactivate", "password"}:
                   EnterAdmin(q, s, tn, op, p, Nobody, "AGENT")
             \/ \E s \in Sessions, tn \in Tenants, e \in Emails, role \in Roles:
                   EnterAdmin(q, s, tn, "create", Nobody, e, role)
      PROVE  req'[r] = req[r]
  <2>1. ASSUME NEW tn \in Tenants, NEW e \in Emails, EnterBootstrap(q, tn, e)
        PROVE  req'[r] = req[r]
    <3> DEFINE next == [Idle EXCEPT !.at = "insert", !.op = "bootstrap",
                                    !.tenant = tn, !.email = e, !.role = "OWNER"]
    <3>1. next.at = "insert" /\ req' = [req EXCEPT ![q] = next] BY <2>1 DEF EnterBootstrap, Idle
    <3> HIDE DEF next
    <3> QED BY <1>1, <3>1
  <2>2. ASSUME NEW s \in Sessions, EnterLogout(q, s) PROVE req'[r] = req[r]
    <3> DEFINE next == [Idle EXCEPT !.at = "service", !.op = "logout", !.token = s]
    <3>1. next.at = "service" /\ req' = [req EXCEPT ![q] = next] BY <2>2 DEF EnterLogout, Idle
    <3> HIDE DEF next
    <3> QED BY <1>1, <3>1
  <2>3. ASSUME NEW s, NEW tn, NEW op, NEW p, NEW e, NEW role, EnterAdmin(q, s, tn, op, p, e, role)
        PROVE  req'[r] = req[r]
    <3> DEFINE next == [Idle EXCEPT !.at = IF op = "create" THEN "insert" ELSE "service",
                                    !.op = op, !.caller = CallerOf(s),
                                    !.tenant = person[CallerOf(s)].tenant,
                                    !.target = p, !.email = e, !.role = role]
    <3>1. next.at # "commit" BY DEF Idle
    <3>2. req' = [req EXCEPT ![q] = next] BY <2>3 DEF EnterAdmin
    <3> HIDE DEF next
    <3> QED BY <1>1, <3>1, <3>2
  <2> QED BY <1>3, <2>1, <2>2, <2>3
<1>4. ASSUME NEW q \in Requests, FindTarget(q) \/ UpdateTarget(q) \/ DeleteSessions(q)
      PROVE  req'[r] = req[r] \/ DeleteSessions(r)
  <2>1. req[q] \in ReqRecords BY <1>0 DEF TypeOK
  <2>2. CASE DeleteSessions(q) BY <1>0, <2>2 DEF DeleteSessions, TypeOK
  <2>3. CASE FindTarget(q) \/ UpdateTarget(q)
    BY <1>0, <2>1, <2>3, IdleIsARecord DEF FindTarget, UpdateTarget, TypeOK, ReqRecords
  <2> QED BY <1>4, <2>2, <2>3
<1>5. ASSUME NEW q \in Requests,
             \/ IssueSession(q) \/ InsertPerson(q) \/ Deactivate(q)
             \/ ResetPassword(q) \/ Logout(q)
      PROVE  req'[r] = req[r]
  <2>1. req' = [req EXCEPT ![q] = Idle]
    BY <1>5 DEF IssueSession, InsertPerson, Deactivate, ResetPassword, Logout
  <2> QED BY <1>1, <2>1, IdleIsARecord
<1>6. ASSUME \/ \E s \in Sessions: SessionExpires(s)
             \/ \E e \in Emails: WindowEnds(e)
             \/ ProcessDies
             \/ UNCHANGED vars
      PROVE  req'[r] = req[r]
  BY <1>6, IdleIsARecord DEF SessionExpires, WindowEnds, ProcessDies, vars
<1> QED BY <1>2, <1>3, <1>4, <1>5, <1>6, Steps

LEMMA WindowStep ==
    ASSUME IInv, WindowInv, [Next]_vars
    PROVE  WindowInv'
<1> SUFFICES ASSUME NEW r \in Requests, req'[r].at = "commit", req'[r].op = "password",
                    NEW s \in Sessions, session'[s].row = "live",
                    session'[s].person = req'[r].target
             PROVE  s \in req'[r].doomed \/ session'[s].windowed
  BY DEF WindowInv
<1>1. CASE DeleteSessions(r)
  <2>1. session' = session /\ req[r] \in ReqRecords BY <1>1 DEF DeleteSessions, IInv, TypeOK
  <2>2. /\ req'[r].doomed = {t \in Sessions: /\ session[t].row # "none"
                                             /\ session[t].person = req[r].target}
        /\ req'[r].target = req[r].target
    BY <1>1, <2>1 DEF DeleteSessions, IInv, TypeOK, ReqRecords
  <2> QED BY <2>1, <2>2
<1>2. CASE req'[r] = req[r]
  <2>1. CASE session'[s] = session[s] BY <1>2, <2>1 DEF WindowInv
  <2>2. CASE session'[s].windowed = Deleted(session'[s].person)
    BY <1>2, <2>2 DEF Deleted
  <2> QED BY <2>1, <2>2, LiveBefore
<1> QED BY <1>1, <1>2, AtCommit

LEMMA StaleStep ==
    ASSUME IInv, WindowInv, StaleOnlyByRace, [Next]_vars
    PROVE  StaleOnlyByRace'
<1>0. TypeOK /\ HolderInv BY DEF IInv
<1> SUFFICES ASSUME NEW s \in Sessions, session'[s].row = "live",
                    session'[s].password # person'[session'[s].person].password
             PROVE  session'[s].raced \/ session'[s].windowed
  BY DEF StaleOnlyByRace, Stale
<1>1. CASE session'[s] # session[s]
  BY <1>1, LiveBefore
<1>2. CASE session'[s] = session[s]
  <2> DEFINE p == session[s].person
  <2>1. session[s] # Unissued BY <1>2 DEF Unissued
  <2>2. p \in People /\ Exists(p) BY <1>0, <2>1 DEF TypeOK, SessionRows, HolderInv
  <2>3. CASE person'[p].password = person[p].password
    BY <1>2, <2>3 DEF StaleOnlyByRace, Stale
  <2>4. CASE person'[p].password # person[p].password
    <3>1. Joins \/ Leaves \/ Resets BY <2>4, Effects DEF Opens, Ends
    <3>2. ASSUME Joins PROVE FALSE BY <1>0, <2>2, <2>4, <3>2 DEF Joins, TypeOK
    <3>3. ASSUME Leaves PROVE FALSE
      <4>1. PICK r \in Requests: /\ req[r].target \in People /\ Exists(req[r].target)
                                 /\ person' = [person EXCEPT ![req[r].target].active = FALSE]
        BY <3>3 DEF Leaves
      <4>2. person[req[r].target] \in Rows BY <1>0, <4>1, PersonRows
      <4> QED BY <1>0, <2>2, <2>4, <4>1, <4>2 DEF TypeOK, Rows
    <3>4. PICK r \in Requests:
              /\ req[r].at = "commit" /\ req[r].op = "password" /\ req[r].target \in People
              /\ person' = [person EXCEPT ![req[r].target].password = @ + 1]
              /\ session' = Without(req[r].doomed)
      BY <3>1, <3>2, <3>3 DEF Resets
    <3>5. p = req[r].target BY <1>0, <2>2, <2>4, <3>4 DEF TypeOK
    <3>6. s \notin req[r].doomed BY <1>2, <3>4, EndedSessions, SpentIsARow
    <3> QED BY <1>2, <3>4, <3>5, <3>6 DEF WindowInv
  <2> QED BY <2>3, <2>4
<1> QED BY <1>1, <1>2

(* StaleOnlyByRace (AC-23): a session of a replaced password was opened by *)
(* a login that wrote after the reset, or between its deleteMany and its   *)
(* COMMIT.                                                                 *)
THEOREM ResetEndsSessions == Spec => []StaleOnlyByRace
<1>1. Init => StaleOnlyByRace /\ WindowInv
  BY DEF Init, StaleOnlyByRace, Stale, WindowInv, Unissued, Idle
<1>2. IInv /\ WindowInv /\ StaleOnlyByRace /\ [Next]_vars => IInv' /\ WindowInv' /\ StaleOnlyByRace'
  BY StepIInv, WindowStep, StaleStep
<1> QED BY <1>1, <1>2, InitIInv, PTL DEF Spec

(* ChangedByItsOwner: the guard of a request and its write are apart, and  *)
(* still whoever changes a person is the active owner when it does.        *)
THEOREM OwnerChangesPeople == Spec => ChangedByItsOwner
<1> DEFINE Changed(p) ==
       \E r \in Requests:
            /\ req[r] # Idle /\ req'[r] = Idle
            /\ req[r].tenant = person'[p].tenant
            /\ req[r].op # "bootstrap" => req[r].caller \in OwnersOf(person'[p].tenant)
<1>1. ASSUME IInv, [Next]_vars PROVE \A p \in People: person'[p] # person[p] => Changed(p)
  <2>0. TypeOK /\ ServiceInv /\ TxInv /\ CallerInv BY <1>1 DEF IInv
  <2> SUFFICES ASSUME NEW p \in People, person'[p] # person[p] PROVE Changed(p)
    OBVIOUS
  <2>1. ASSUME NEW r \in Requests, InsertPerson(r) PROVE Changed(p)
    <3> DEFINE n == CHOOSE m \in People: ~Exists(m)
               row == [tenant |-> req[r].tenant, email |-> req[r].email, role |-> req[r].role,
                       active |-> TRUE, password |-> 0]
    <3>a. person' = [person EXCEPT ![n] = row] BY <2>1 DEF InsertPerson
    <3>b. row.tenant = req[r].tenant OBVIOUS
    <3>c. req'[r] = Idle /\ req[r] # Idle
      BY <2>0, <2>1, IdleIsARecord DEF InsertPerson, TypeOK
    <3> HIDE DEF n, row
    <3>d. p = n BY <2>0, <3>a DEF TypeOK
    <3>1. person'[p].tenant = req[r].tenant /\ req'[r] = Idle /\ req[r] # Idle
      BY <2>0, <3>a, <3>b, <3>c, <3>d DEF TypeOK
    <3>2. req[r].op # "bootstrap" => req[r].op \in AdminOps
      BY <2>0, <2>1 DEF InsertPerson, ServiceInv, AdminOps
    <3> QED BY <2>0, <3>1, <3>2 DEF CallerInv
  <2>2. ASSUME NEW r \in Requests, Deactivate(r) PROVE Changed(p)
    <3>1. req[r].op \in AdminOps /\ req'[r] = Idle /\ req[r] # Idle
      BY <2>0, <2>2, IdleIsARecord DEF Deactivate, TypeOK, AdminOps
    <3>2. person'[p].tenant = req[r].tenant
      BY <2>0, <2>2 DEF Deactivate, TxInv, Doable, FoundInTenant, TypeOK, Rows, Exists, TxPoints
    <3> QED BY <2>0, <3>1, <3>2 DEF CallerInv
  <2>3. ASSUME NEW r \in Requests, ResetPassword(r) PROVE Changed(p)
    <3>1. req[r].op \in AdminOps /\ req'[r] = Idle /\ req[r] # Idle
      BY <2>0, <2>3, IdleIsARecord DEF ResetPassword, TypeOK, AdminOps
    <3>2. person'[p].tenant = req[r].tenant
      BY <2>0, <2>3 DEF ResetPassword, TxInv, Doable, FoundInTenant, TypeOK, Rows, Exists, TxPoints
    <3> QED BY <2>0, <3>1, <3>2 DEF CallerInv
  <2>4. ~(person' = person) OBVIOUS
  <2> HIDE DEF Changed
  <2>5. \E r \in Requests: InsertPerson(r) \/ Deactivate(r) \/ ResetPassword(r)
    BY <1>1, <2>4, Steps
       DEF BeginLogin, FindPerson, RegisterFailure, OpenWindow, ResetFailures, IssueSession,
           EnterBootstrap, EnterLogout, EnterAdmin, FindTarget, UpdateTarget, DeleteSessions,
           Logout, SessionExpires, WindowEnds, ProcessDies, vars
  <2> QED BY <2>1, <2>2, <2>3, <2>5
<1>2. IInv /\ [Next]_vars => IInv' BY StepIInv
<1> QED BY <1>1, <1>2, InitIInv, PTL DEF Spec, ChangedByItsOwner

-----------------------------------------------------------------------------
(* AccountLifecycle.                                                       *)

(* Two rows that a mapping of the accounts does not tell apart.            *)
LEMMA SameDoor ==
    ASSUME NEW s \in Sessions, session'[s] = session[s],
           session[s].row = "live" =>
               /\ person'[session[s].person].active = person[session[s].person].active
               /\ person'[session[s].person].tenant = person[session[s].person].tenant
    PROVE  door'[s] = door[s] /\ holder'[s] = holder[s]
  BY DEF door, holder, Usable

LEMMA SameMember ==
    ASSUME NEW p \in People, person'[p] = person[p]
    PROVE  member'[p] = member[p]
  BY DEF member, Exists

LEMMA SpentDoor ==
    ASSUME NEW s \in Sessions, session[s] \in SessionRows, session'[s] = Spent(session[s])
    PROVE  door'[s] = "closed" /\ holder'[s] = holder[s] /\ door[s] # "unused"
<1>1. session'[s].row = "over" /\ session'[s].person = session[s].person BY SpentIsARow
<1>2. session[s].row # "none" BY DEF SessionRows
<1> QED BY <1>1, <1>2 DEF door, holder, Usable

(* Leaving closes the sessions of p, those the transaction did not delete  *)
(* too: Closed(HeldBy(p)) of the promise.                                  *)
LEMMA DoorsOf ==
    ASSUME IInv, NEW r \in Requests, NEW p \in People, req[r].target = p,
           session' = Without(req[r].doomed), ~person'[p].active,
           \A n \in People: n # p => person'[n] = person[n]
    PROVE  /\ door' = Promise!Closed(Promise!HeldBy(p)) /\ holder' = holder
           /\ \A s \in Promise!HeldBy(p): door[s] # "unused"
           /\ Promise!HeldBy(p) \subseteq Sessions
<1>0. TypeOK BY DEF IInv
<1>1. ASSUME NEW s \in Sessions
      PROVE  /\ door'[s] = IF s \in Promise!HeldBy(p) THEN "closed" ELSE door[s]
             /\ holder'[s] = holder[s]
             /\ s \in Promise!HeldBy(p) => door[s] # "unused"
  <2>1. CASE session[s].person = p
    <3>1. s \in Promise!HeldBy(p) BY <2>1 DEF Promise!HeldBy, holder
    <3>2. session[s] \in SessionRows BY <1>0, <2>1, PeopleAssumption DEF TypeOK, Unissued
    <3>3. CASE s \in req[r].doomed BY <3>1, <3>3, EndedSessions, SpentDoor
    <3>4. CASE s \notin req[r].doomed
      <4>1. session'[s] = session[s] BY <3>4, EndedSessions
      <4>2. session[s].row # "none" BY <3>2 DEF SessionRows
      <4> QED BY <2>1, <3>1, <4>1, <4>2 DEF door, holder, Usable
    <3> QED BY <3>3, <3>4
  <2>2. CASE session[s].person # p
    <3>1. s \notin Promise!HeldBy(p) BY <2>2 DEF Promise!HeldBy, holder
    <3>2. session'[s] = session[s] BY <2>2, EndedSessions
    <3>3. session[s].row = "live" => session[s].person \in People
      BY <1>0 DEF TypeOK, SessionRows, Unissued
    <3> QED BY <2>2, <3>1, <3>2, <3>3, SameDoor
  <2> QED BY <2>1, <2>2
<1> QED BY <1>1 DEF Promise!Closed, Promise!HeldBy, door, holder

(* A reset closes the sessions it deletes.                                 *)
LEMMA DoorsReset ==
    ASSUME IInv, NEW r \in Requests, session' = Without(req[r].doomed),
           \A n \in People: /\ person'[n].active = person[n].active
                            /\ person'[n].tenant = person[n].tenant
    PROVE  /\ door' = Promise!Closed(req[r].doomed) /\ holder' = holder
           /\ \A s \in req[r].doomed: door[s] # "unused"
           /\ req[r].doomed \subseteq Sessions
<1>0. TypeOK /\ req[r].doomed \subseteq Sessions BY DEF IInv, TypeOK, ReqRecords
<1>1. ASSUME NEW s \in Sessions
      PROVE  /\ door'[s] = IF s \in req[r].doomed THEN "closed" ELSE door[s]
             /\ holder'[s] = holder[s]
             /\ s \in req[r].doomed => door[s] # "unused"
  <2>1. CASE s \in req[r].doomed BY <2>1, EndedSessions, SpentDoor
  <2>2. CASE s \notin req[r].doomed
    <3>1. session'[s] = session[s] BY <2>2, EndedSessions
    <3>2. session[s].row = "live" => session[s].person \in People
      BY <1>0 DEF TypeOK, SessionRows, Unissued
    <3> QED BY <2>2, <3>1, <3>2, SameDoor
  <2> QED BY <2>1, <2>2
<1> QED BY <1>0, <1>1 DEF Promise!Closed, door, holder

LEMMA KeepsPromiseStep ==
    ASSUME IInv, [Next]_vars
    PROVE  [Promise!Next]_<<member, holder, door>>
<1>0. TypeOK /\ HolderInv BY DEF IInv
<1>a. \A s \in Sessions: session[s] # Unissued =>
         session[s] \in SessionRows /\ session[s].person \in People /\ Exists(session[s].person)
  BY <1>0 DEF TypeOK, SessionRows, HolderInv
<1>1. CASE Opens
  <2> PICK s \in Sessions, p \in People, row \in SessionRows:
           /\ session[s] = Unissued /\ Exists(p) /\ row.row = "live" /\ row.person = p
           /\ session' = [session EXCEPT ![s] = row] /\ person' = person
    BY <1>1 DEF Opens
  <2>1. member' = member BY DEF member, Exists
  <2>2. session'[s] = row /\ \A t \in Sessions: t # s => session'[t] = session[t]
    BY <1>0 DEF TypeOK
  <2>3. door[s] = "unused" /\ holder'[s] = p /\ door'[s] \in {"open", "closed"}
    BY <2>2 DEF door, holder, Unissued
  <2>4. \A t \in Sessions: t # s => door'[t] = door[t] /\ holder'[t] = holder[t]
    BY <2>2, SameDoor
  <2>5. /\ door' = [door EXCEPT ![s] = door'[s]] /\ holder' = [holder EXCEPT ![s] = p]
    <3>1. \A t \in Sessions: door'[t] = IF t = s THEN door'[s] ELSE door[t] BY <2>4
    <3>2. \A t \in Sessions: holder'[t] = IF t = s THEN p ELSE holder[t] BY <2>3, <2>4
    <3>3. holder' = [holder EXCEPT ![s] = p] BY <3>2 DEF holder
    <3>4. DOMAIN door = Sessions /\ door = [t \in Sessions |-> door[t]] BY DEF door
    <3>5. door' = [t \in Sessions |-> door'[t]] BY DEF door
    <3>6. door' = [t \in Sessions |-> IF t = s THEN door'[s] ELSE door[t]] BY <3>1, <3>5
    <3> HIDE DEF door
    <3>7. door' = [door EXCEPT ![s] = door'[s]] BY <3>4, <3>6
    <3> QED BY <3>3, <3>7
  <2>6. door'[s] = "open" => member[p] = "in"
    BY <2>2 DEF door, Usable, member
  <2>7. Promise!Open(s, p) \/ Promise!Spoil(s, p)
    BY <2>1, <2>3, <2>5, <2>6 DEF Promise!Open, Promise!Spoil
  <2> QED BY <2>7 DEF Promise!Next
<1>2. CASE Joins
  <2> PICK p \in People, row \in Rows:
           /\ ~Exists(p) /\ row.active
           /\ person' = [person EXCEPT ![p] = row] /\ session' = session
    BY <1>2 DEF Joins
  <2>1. person'[p] = row /\ \A n \in People: n # p => person'[n] = person[n]
    BY <1>0 DEF TypeOK
  <2>2. row # Absent BY TenantsAssumption DEF Rows, Absent
  <2>3. member[p] = "absent" /\ member'[p] = "in" BY <2>1, <2>2 DEF member, Exists
  <2>4. member' = [member EXCEPT ![p] = "in"]
    <3>1. \A n \in People: n # p => member'[n] = member[n] BY <2>1, SameMember
    <3> QED BY <2>3, <3>1 DEF member
  <2>5. ASSUME NEW s \in Sessions PROVE door'[s] = door[s] /\ holder'[s] = holder[s]
    <3>1. session[s].row = "live" => session[s].person # p /\ session[s].person \in People
      BY <1>a DEF Unissued
    <3> QED BY <2>1, <3>1, SameDoor
  <2>6. door' = door /\ holder' = holder BY <2>5 DEF door, holder
  <2> QED BY <2>3, <2>4, <2>6 DEF Promise!Next, Promise!Join
<1>3. CASE Leaves
  <2> PICK r \in Requests, p \in People:
           /\ req[r].target = p
           /\ Exists(p) /\ person' = [person EXCEPT ![p].active = FALSE]
           /\ session' = Without(req[r].doomed)
    BY <1>3 DEF Leaves
  <2>1. /\ person'[p] = [person[p] EXCEPT !.active = FALSE]
        /\ \A n \in People: n # p => person'[n] = person[n]
    BY <1>0 DEF TypeOK
  <2>2. person[p] \in Rows BY <1>0, PersonRows
  <2>3. person'[p].active = FALSE /\ person'[p] # Absent
    BY <2>1, <2>2, TenantsAssumption DEF Rows, Absent
  <2>4. member'[p] = "out" /\ member[p] = IF person[p].active THEN "in" ELSE "out"
    BY <2>3 DEF member, Exists
  <2>5. \A n \in People: n # p => member'[n] = member[n] BY <2>1, SameMember
  <2>6. member' = [member EXCEPT ![p] = "out"] BY <2>4, <2>5 DEF member
  <2>7. /\ door' = Promise!Closed(Promise!HeldBy(p)) /\ holder' = holder
        /\ \A s \in Promise!HeldBy(p): door[s] # "unused"
        /\ Promise!HeldBy(p) \in SUBSET Sessions
    BY <2>1, <2>3, DoorsOf
  <2>8. CASE person[p].active
    BY <2>4, <2>6, <2>7, <2>8 DEF Promise!Next, Promise!Leave
  <2>9. CASE ~person[p].active
    <3>1. member' = member BY <2>4, <2>6, <2>9 DEF member
    <3>2. Promise!Close(Promise!HeldBy(p)) BY <2>7, <3>1 DEF Promise!Close
    <3> QED BY <2>7, <3>2 DEF Promise!Next
  <2> QED BY <2>8, <2>9
<1>4. CASE Resets
  <2> PICK r \in Requests, p \in People:
           /\ req[r].target = p
           /\ Exists(p) /\ person' = [person EXCEPT ![p].password = @ + 1]
           /\ session' = Without(req[r].doomed)
    BY <1>4 DEF Resets
  <2>1. /\ person'[p] = [person[p] EXCEPT !.password = @ + 1]
        /\ \A n \in People: n # p => person'[n] = person[n]
    BY <1>0 DEF TypeOK
  <2>2. person[p] \in Rows BY <1>0, PersonRows
  <2>3. person'[p].active = person[p].active /\ person'[p] # Absent
    BY <2>1, <2>2, TenantsAssumption DEF Rows, Absent
  <2>4. member'[p] = member[p] BY <2>3 DEF member, Exists
  <2>5. \A n \in People: n # p => member'[n] = member[n] BY <2>1, SameMember
  <2>6. member' = member BY <2>4, <2>5 DEF member
  <2>9. person'[p].tenant = person[p].tenant BY <2>1, <2>2 DEF Rows
  <2>7. /\ door' = Promise!Closed(req[r].doomed) /\ holder' = holder
        /\ \A s \in req[r].doomed: door[s] # "unused"
        /\ req[r].doomed \in SUBSET Sessions
    BY <2>1, <2>3, <2>9, DoorsReset
  <2>8. Promise!Close(req[r].doomed) BY <2>6, <2>7 DEF Promise!Close
  <2> QED BY <2>7, <2>8 DEF Promise!Next
<1>5. CASE Ends
  <2> PICK s \in Sessions:
           /\ session[s] \in SessionRows
           /\ session' = [session EXCEPT ![s] = Spent(@)] /\ person' = person
    BY <1>5 DEF Ends
  <2>1. session'[s] = Spent(session[s]) /\ \A t \in Sessions: t # s => session'[t] = session[t]
    BY <1>0 DEF TypeOK
  <2>2. member' = member BY DEF member, Exists
  <2>3. door'[s] = "closed" /\ holder'[s] = holder[s] /\ door[s] # "unused"
    BY <2>1, SpentDoor
  <2>4. \A t \in Sessions: t # s => door'[t] = door[t] /\ holder'[t] = holder[t]
    BY <2>1, SameDoor
  <2>5. door' = Promise!Closed({s}) /\ holder' = holder
    <3>1. \A t \in Sessions: door'[t] = IF t \in {s} THEN "closed" ELSE door[t]
      BY <2>3, <2>4
    <3>2. \A t \in Sessions: holder'[t] = holder[t] BY <2>3, <2>4
    <3>3. door' = Promise!Closed({s}) BY <3>1 DEF door, Promise!Closed
    <3> QED BY <3>2, <3>3 DEF holder
  <2>6. Promise!Close({s}) BY <2>2, <2>3, <2>5 DEF Promise!Close
  <2>7. {s} \in SUBSET Sessions OBVIOUS
  <2> QED BY <2>6, <2>7 DEF Promise!Next
<1>6. CASE UNCHANGED <<person, session>>
  BY <1>6 DEF member, holder, door, Exists, Usable
<1> QED BY <1>1, <1>2, <1>3, <1>4, <1>5, <1>6, Effects

(* KeepsPromise: for every interleaving of logins, guards, resets and      *)
(* deactivations, a closed session stays closed and who left stays out.    *)
THEOREM ImplementsAccountLifecycle == Spec => KeepsPromise
<1>1. Init => Promise!Init
  BY DEF Init, Promise!Init, member, holder, door, Exists, Unissued
<1>2. IInv /\ [Next]_vars => [Promise!Next]_<<member, holder, door>> BY KeepsPromiseStep
<1>3. IInv /\ [Next]_vars => IInv' BY StepIInv
<1> QED BY <1>1, <1>2, <1>3, InitIInv, PTL DEF Spec, KeepsPromise, Promise!Spec, Promise!vars
=============================================================================
