------------------------------- MODULE Accounts -------------------------------
(***************************************************************************)
(* People, sessions, the login rate limiter and the guards of the API      *)
(* (src/auth, src/admin/guards).  A request is a process: it runs its      *)
(* guards in one step (they only read) and then each database or Redis     *)
(* call of its handler is a step of its own, so that requests interleave   *)
(* as Node lets them.  A $transaction is READ COMMITTED: its statements    *)
(* are steps too and what it wrote is seen by others from its COMMIT on.   *)
(* Emails come normalised.                                                 *)
(***************************************************************************)
EXTENDS Naturals, FiniteSets

CONSTANTS
    Tenants,        \* tenant rows
    ActiveTenants,  \* those with active = true: no endpoint changes it
    People,         \* ids the Person table may hand out
    Emails,         \* normalised addresses, unique over all tenants
    Sessions,       \* tokens generateSessionToken may hand out
    Requests,       \* HTTP requests in flight at the same time
    MaxFailures,    \* LOGIN_MAX_FAILED_ATTEMPTS
    MaxResets,      \* bound: password resets of one person
    Nobody, NoTenant, NoSession   \* absences

ASSUME TenantsAssumption == ActiveTenants \subseteq Tenants /\ NoTenant \notin Tenants
ASSUME PeopleAssumption == Nobody \notin People /\ NoSession \notin Sessions
ASSUME BoundsAssumption == MaxFailures \in Nat \ {0} /\ MaxResets \in Nat

VARIABLES
    person,     \* person[p]: the row of p, or Absent
    session,    \* session[s]: the row of the token s
    fails,      \* fails[e]: the counter login:fail:<e>
    window,     \* window[e]: that key has a TTL
    req,        \* req[r]: what the request r is about to do
    cut         \* cut[e]: it died between INCR and EXPIRE of e (history)

vars == <<person, session, fails, window, req, cut>>

-----------------------------------------------------------------------------
(* Data.                                                                   *)

Roles == {"OWNER", "AGENT"}
Passwords == 0 .. MaxResets        \* version of a person's password
WrongPassword == MaxResets + 1     \* what matches no version

Absent == [tenant |-> NoTenant, email |-> Nobody, role |-> "AGENT",
           active |-> FALSE, password |-> 0]

Rows == [tenant: Tenants, email: Emails, role: Roles, active: BOOLEAN, password: Nat]

(* A token without a row.  History: password is the version that opened    *)
(* the session, raced that it had been replaced by then, and windowed that *)
(* a reset had already deleted the sessions but not committed.             *)
Unissued == [row |-> "none", person |-> Nobody, password |-> 0,
             raced |-> FALSE, windowed |-> FALSE]

(* A row that was deleted, or whose expiresAt has passed: no code tells    *)
(* them apart, and only whose token it was still matters.                  *)
Spent(row) == [row EXCEPT !.row = "over", !.password = 0, !.raced = FALSE,
                          !.windowed = FALSE]

SessionRows == [row: {"live", "over"}, person: People,
                password: Nat, raced: BOOLEAN, windowed: BOOLEAN]

Idle == [at |-> "idle", op |-> "none", email |-> Nobody, tried |-> 0, found |-> Nobody,
         version |-> 0, tenant |-> NoTenant, caller |-> Nobody, target |-> Nobody,
         role |-> "AGENT", token |-> NoSession, doomed |-> {}]

Points == {"idle", "find", "failure", "window", "reset", "issue", "insert", "service",
           "update", "delete", "commit"}
Ops == {"none", "login", "bootstrap", "create", "deactivate", "password", "logout"}

ReqRecords == [at: Points, op: Ops, email: Emails \cup {Nobody}, tried: Nat,
               found: People \cup {Nobody}, version: Nat,
               tenant: Tenants \cup {NoTenant}, caller: People \cup {Nobody},
               target: People \cup {Nobody}, role: Roles, token: Sessions \cup {NoSession},
               doomed: SUBSET Sessions]

Exists(p) == person[p] # Absent
OwnersOf(tn) == {p \in People: /\ person[p].tenant = tn
                               /\ person[p].role = "OWNER"
                               /\ person[p].active}

(* The unique constraints a new row meets: email, and one active OWNER per *)
(* tenant (partial index of prisma/migrations/20260723172000_...).         *)
Collides(tn, e, role) ==
    \/ \E p \in People: Exists(p) /\ person[p].email = e
    \/ role = "OWNER" /\ OwnersOf(tn) # {}

Init == /\ person = [p \in People |-> Absent]
        /\ session = [s \in Sessions |-> Unissued]
        /\ fails = [e \in Emails |-> 0]
        /\ window = [e \in Emails |-> FALSE]
        /\ req = [r \in Requests |-> Idle]
        /\ cut = [e \in Emails |-> FALSE]

-----------------------------------------------------------------------------
(* AuthService.login.                                                      *)

(* assertNotBlocked: a blocked email is answered 429 and nothing changes.  *)
Blocked(e) == fails[e] >= MaxFailures

BeginLogin(r, e, tried) ==
    /\ req[r] = Idle
    /\ ~Blocked(e)
    /\ req' = [req EXCEPT ![r] = [Idle EXCEPT !.at = "find", !.op = "login",
                                              !.email = e, !.tried = tried]]
    /\ UNCHANGED <<person, session, fails, window, cut>>

Authenticates(p, tried) == /\ person[p].password = tried
                           /\ person[p].active
                           /\ person[p].tenant \in ActiveTenants

(* findUnique and argon2.verify on the row it returned.                    *)
FindPerson(r) ==
    /\ req[r].at = "find"
    /\ LET holders == {p \in People: Exists(p) /\ person[p].email = req[r].email}
           known == {p \in holders: Authenticates(p, req[r].tried)}
       IN \/ /\ known = {}
             /\ req' = [req EXCEPT ![r].at = "failure", ![r].tried = 0]
          \/ \E p \in known:
                req' = [req EXCEPT ![r].at = "reset", ![r].tried = 0, ![r].found = p,
                                   ![r].version = person[p].password]
    /\ UNCHANGED <<person, session, fails, window, cut>>

\* Mutant: the window is opened by the second failure.
LateWindow(r) ==
    LET e == req[r].email
    IN /\ req[r].at = "failure"
       /\ fails' = [fails EXCEPT ![e] = @ + 1]
       /\ req' = [req EXCEPT ![r] = IF fails[e] = 1 THEN [@ EXCEPT !.at = "window"] ELSE Idle]
       /\ UNCHANGED <<person, session, window, cut>>

(* registerFailure: INCR, and EXPIRE only for the failure that counted 1.  *)
RegisterFailure(r) ==
    LET e == req[r].email
    IN /\ req[r].at = "failure"
       /\ fails' = [fails EXCEPT ![e] = @ + 1]
       /\ req' = [req EXCEPT ![r] = IF fails[e] = 0 THEN [@ EXCEPT !.at = "window"] ELSE Idle]
       /\ UNCHANGED <<person, session, window, cut>>

(* EXPIRE does nothing to a key a successful login has deleted meanwhile.  *)
OpenWindow(r) ==
    LET e == req[r].email
    IN /\ req[r].at = "window"
       /\ window' = [window EXCEPT ![e] = fails[e] > 0]
       /\ req' = [req EXCEPT ![r] = Idle]
       /\ UNCHANGED <<person, session, fails, cut>>

ResetFailures(r) ==
    LET e == req[r].email
    IN /\ req[r].at = "reset"
       /\ fails' = [fails EXCEPT ![e] = 0]
       /\ window' = [window EXCEPT ![e] = FALSE]
       /\ cut' = [cut EXCEPT ![e] = FALSE]
       /\ req' = [req EXCEPT ![r].at = "issue", ![r].email = Nobody]
       /\ UNCHANGED <<person, session>>

(* A reset of p has run its deleteMany and is about to COMMIT.             *)
Deleted(p) ==
    \E r \in Requests: req[r].at = "commit" /\ req[r].op = "password" /\ req[r].target = p

(* session.create for the person read at "find"; the token is a new one.   *)
(* Its foreign key waits for nobody: the UPDATE of a reset or of a         *)
(* deactivation locks the row of Person without touching its key.          *)
IssueSession(r) ==
    LET p == req[r].found
    IN /\ req[r].at = "issue"
       /\ \E s \in Sessions: session[s] = Unissued       \* bound
       /\ LET s == CHOOSE t \in Sessions: session[t] = Unissued
          IN session' = [session EXCEPT ![s] =
                 [row |-> "live", person |-> p, password |-> req[r].version,
                  raced |-> person[p].password # req[r].version,
                  windowed |-> Deleted(p)]]
       /\ req' = [req EXCEPT ![r] = Idle]
       /\ UNCHANGED <<person, fails, window, cut>>

-----------------------------------------------------------------------------
(* Guards.                                                                 *)

\* Mutant: only the tenant is looked at.
UsableByAnyone(s) == /\ session[s].row = "live"
                     /\ person[session[s].person].tenant \in ActiveTenants

(* PersonSessionGuard.                                                     *)
Usable(s) == /\ session[s].row = "live"
             /\ person[session[s].person].active
             /\ person[session[s].person].tenant \in ActiveTenants

CallerOf(s) == session[s].person

(* TenantScopeGuard, for a route with a tenant.                            *)
InScope(s, tn) == person[CallerOf(s)].tenant = tn

(* OwnerRoleGuard.                                                         *)
IsOwner(s) == person[CallerOf(s)].role = "OWNER"

(* Bound: resets done and on their way.                                    *)
CanReset(p) ==
    person[p].password
      + Cardinality({r \in Requests: req[r].op = "password" /\ req[r].target = p}) < MaxResets

(* PersonSessionGuard, TenantScopeGuard and OwnerRoleGuard of the routes   *)
(* of people; the service then works for the tenant of the session.        *)
EnterAdmin(r, s, tn, op, target, e, role) ==
    /\ req[r] = Idle
    /\ Usable(s) /\ InScope(s, tn) /\ IsOwner(s)
    /\ op = "password" => CanReset(target)
    /\ req' = [req EXCEPT ![r] =
                 [Idle EXCEPT !.at = IF op = "create" THEN "insert" ELSE "service",
                              !.op = op, !.caller = CallerOf(s),
                              !.tenant = person[CallerOf(s)].tenant,
                              !.target = target, !.email = e, !.role = role]]
    /\ UNCHANGED <<person, session, fails, window, cut>>

EnterLogout(r, s) ==
    /\ req[r] = Idle
    /\ Usable(s)
    /\ req' = [req EXCEPT ![r] = [Idle EXCEPT !.at = "service", !.op = "logout",
                                              !.token = s]]
    /\ UNCHANGED <<person, session, fails, window, cut>>

(* bootstrap-owner: MasterKeyGuard and the early findFirst; a tenant with  *)
(* an owner is answered 409, before the password is hashed.                *)
EnterBootstrap(r, tn, e) ==
    /\ req[r] = Idle
    /\ OwnersOf(tn) = {}
    /\ req' = [req EXCEPT ![r] = [Idle EXCEPT !.at = "insert", !.op = "bootstrap",
                                   !.tenant = tn, !.email = e, !.role = "OWNER"]]
    /\ UNCHANGED <<person, session, fails, window, cut>>

-----------------------------------------------------------------------------
(* PeopleService.                                                          *)

(* person.create of bootstrapOwner and create, after the hash; a unique    *)
(* constraint turns into a 409 and nothing is written.                     *)
InsertPerson(r) ==
    LET q == req[r]
    IN /\ q.at = "insert"
       /\ \/ /\ Collides(q.tenant, q.email, q.role)
             /\ UNCHANGED person
          \/ /\ ~Collides(q.tenant, q.email, q.role)
             /\ \E p \in People: ~Exists(p)              \* bound
             /\ LET p == CHOOSE n \in People: ~Exists(n)
                IN person' = [person EXCEPT ![p] =
                     [tenant |-> q.tenant, email |-> q.email, role |-> q.role,
                      active |-> TRUE, password |-> 0]]
       /\ req' = [req EXCEPT ![r] = Idle]
       /\ UNCHANGED <<session, fails, window, cut>>

(* tx.person.findFirst with the tenant of the session.                     *)
FoundInTenant(q) == Exists(q.target) /\ person[q.target].tenant = q.tenant

\* Mutant: the count is not asked for.
NeverLast(p) == FALSE

(* The last active owner of a tenant is not deactivated.                   *)
IsLastOwner(p) == /\ person[p].active /\ person[p].role = "OWNER"
                  /\ Cardinality(OwnersOf(person[p].tenant)) <= 1

(* findFirst and, for a deactivation, count.  Both are one step: who is    *)
(* the active owner of a tenant never changes.                             *)
FindTarget(r) ==
    LET q == req[r]
    IN /\ q.at = "service" /\ q.op \in {"deactivate", "password"}
       /\ IF FoundInTenant(q) /\ (q.op = "deactivate" => ~IsLastOwner(q.target))
          THEN req' = [req EXCEPT ![r].at = "update"]
          ELSE req' = [req EXCEPT ![r] = Idle]
       /\ UNCHANGED <<person, session, fails, window, cut>>

(* person.update takes the lock of the row, until the end.                 *)
UpdateTarget(r) ==
    /\ req[r].at = "update"
    /\ ~\E other \in Requests: /\ req[other].at \in {"delete", "commit"}
                               /\ req[other].target = req[r].target
    /\ req' = [req EXCEPT ![r].at = "delete"]
    /\ UNCHANGED <<person, session, fails, window, cut>>

\* Mutant: no session is deleted.
DeleteNone(r) ==
    /\ req[r].at = "delete"
    /\ req' = [req EXCEPT ![r].at = "commit"]
    /\ UNCHANGED <<person, session, fails, window, cut>>

(* session.deleteMany of the rows that are there when it runs.             *)
DeleteSessions(r) ==
    /\ req[r].at = "delete"
    /\ req' = [req EXCEPT ![r].at = "commit",
                          ![r].doomed = {s \in Sessions: /\ session[s].row # "none"
                                                         /\ session[s].person = req[r].target}]
    /\ UNCHANGED <<person, session, fails, window, cut>>

Without(doomed) ==
    [s \in Sessions |-> IF s \in doomed THEN Spent(session[s]) ELSE session[s]]

(* COMMIT of deactivate.                                                   *)
Deactivate(r) ==
    LET q == req[r]
    IN /\ q.at = "commit" /\ q.op = "deactivate"
       /\ person' = [person EXCEPT ![q.target].active = FALSE]
       /\ session' = Without(q.doomed)
       /\ req' = [req EXCEPT ![r] = Idle]
       /\ UNCHANGED <<fails, window, cut>>

(* COMMIT of resetPassword.                                                *)
ResetPassword(r) ==
    LET q == req[r]
    IN /\ q.at = "commit" /\ q.op = "password"
       /\ person' = [person EXCEPT ![q.target].password = @ + 1]
       /\ session' = Without(q.doomed)
       /\ req' = [req EXCEPT ![r] = Idle]
       /\ UNCHANGED <<fails, window, cut>>

(* session.deleteMany by token; it is no error if the row is gone, and it  *)
(* waits for a transaction that is deleting it.                            *)
Logout(r) ==
    LET s == req[r].token
    IN /\ req[r].at = "service" /\ req[r].op = "logout"
       /\ \A other \in Requests: s \notin req[other].doomed
       /\ session' = [session EXCEPT ![s] = Spent(@)]
       /\ req' = [req EXCEPT ![r] = Idle]
       /\ UNCHANGED <<person, fails, window, cut>>

-----------------------------------------------------------------------------
(* Time and failure.                                                       *)

(* expiresAt passes; nothing deletes the row.                              *)
SessionExpires(s) ==
    /\ session[s].row = "live"
    /\ session' = [session EXCEPT ![s] = Spent(@)]
    /\ UNCHANGED <<person, fails, window, req, cut>>

(* Redis drops the key at the end of its TTL.                              *)
WindowEnds(e) ==
    /\ window[e]
    /\ window' = [window EXCEPT ![e] = FALSE]
    /\ fails' = [fails EXCEPT ![e] = 0]
    /\ cut' = [cut EXCEPT ![e] = FALSE]
    /\ UNCHANGED <<person, session, req>>

(* The API process dies with its requests in the middle; the transactions  *)
(* that have not committed roll back.                                      *)
ProcessDies ==
    /\ \E r \in Requests: req[r] # Idle
    /\ cut' = [e \in Emails |-> \/ cut[e]
                                \/ /\ fails[e] > 0 /\ ~window[e]
                                   /\ \E r \in Requests: req[r].at = "window" /\ req[r].email = e]
    /\ req' = [r \in Requests |-> Idle]
    /\ UNCHANGED <<person, session, fails, window>>

LoginStep(r) == \/ FindPerson(r) \/ RegisterFailure(r) \/ OpenWindow(r)
                \/ ResetFailures(r) \/ IssueSession(r)
ServiceStep(r) == \/ InsertPerson(r) \/ FindTarget(r) \/ UpdateTarget(r)
                  \/ DeleteSessions(r) \/ Deactivate(r) \/ ResetPassword(r) \/ Logout(r)

Arrival(r) ==
    \/ \E e \in Emails, w \in Passwords \cup {WrongPassword}: BeginLogin(r, e, w)
    \/ \E tn \in Tenants, e \in Emails: EnterBootstrap(r, tn, e)
    \/ \E s \in Sessions: EnterLogout(r, s)
    \/ \E s \in Sessions, tn \in Tenants, p \in People, op \in {"deactivate", "password"}:
          EnterAdmin(r, s, tn, op, p, Nobody, "AGENT")
    \/ \E s \in Sessions, tn \in Tenants, e \in Emails, role \in Roles:
          EnterAdmin(r, s, tn, "create", Nobody, e, role)

Next == \/ \E r \in Requests: Arrival(r) \/ LoginStep(r) \/ ServiceStep(r)
        \/ \E s \in Sessions: SessionExpires(s)
        \/ \E e \in Emails: WindowEnds(e)
        \/ ProcessDies

Spec == Init /\ [][Next]_vars

-----------------------------------------------------------------------------
(* Properties.                                                             *)

TypeOK == /\ person \in [People -> Rows \cup {Absent}]
          /\ session \in [Sessions -> SessionRows \cup {Unissued}]
          /\ fails \in [Emails -> Nat]
          /\ window \in [Emails -> BOOLEAN]
          /\ req \in [Requests -> ReqRecords]
          /\ cut \in [Emails -> BOOLEAN]

(* A live session opened with a password that has been replaced.           *)
Stale(s) == /\ session[s].row = "live"
            /\ session[s].password # person[session[s].person].password

(* A stale session belongs to a login that had read the old password and   *)
(* wrote when the reset had deleted the sessions or was over: no other     *)
(* interleaving of logins, resets, deactivations and deaths leaves one     *)
(* (people.service.ts resetPassword, AC-23).                               *)
StaleOnlyByRace ==
    \A s \in Sessions: Stale(s) => session[s].raced \/ session[s].windowed

(* The comment of resetPassword: its transaction invalidates the sessions  *)
(* at once, without a window.  A stale session would then be one that was  *)
(* written after the COMMIT.                                               *)
NoWindow == \A s \in Sessions: Stale(s) => session[s].raced

(* A counter has a TTL, or the login that counted 1 is about to set it, or *)
(* the process died between the two: an email is not blocked for good by   *)
(* the interleaving of logins alone.                                       *)
CountersExpire ==
    \A e \in Emails:
        fails[e] > 0 => \/ window[e] \/ cut[e]
                        \/ \E r \in Requests: req[r].at = "window" /\ req[r].email = e

(* A row of Person changes only for the tenant it belongs to, by bootstrap *)
(* or by a person who is an active OWNER of that tenant at the moment of   *)
(* the write and not only when the guard looked.                           *)
ChangedByItsOwner ==
    [][\A p \in People: person'[p] # person[p] =>
         \E r \in Requests:
            /\ req[r] # Idle /\ req'[r] = Idle
            /\ req[r].tenant = person'[p].tenant
            /\ req[r].op # "bootstrap" => req[r].caller \in OwnersOf(person'[p].tenant)]_vars

(* A tenant that has an active owner never loses it, however resets,       *)
(* bootstraps and deactivations meet (AC-21).                              *)
OwnerNeverLost ==
    [][\A tn \in Tenants: OwnersOf(tn) # {} => OwnersOf(tn)' # {}]_vars

(* Accounts keeps the promises of AccountLifecycle.                        *)
member == [p \in People |-> IF ~Exists(p) THEN "absent"
                            ELSE IF person[p].active THEN "in" ELSE "out"]
holder == [s \in Sessions |-> session[s].person]
door == [s \in Sessions |-> IF session[s].row = "none" THEN "unused"
                            ELSE IF Usable(s) THEN "open" ELSE "closed"]

Promise == INSTANCE AccountLifecycle
KeepsPromise == Promise!Spec
=============================================================================
