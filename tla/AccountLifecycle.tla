--------------------------- MODULE AccountLifecycle ---------------------------
(***************************************************************************)
(* What the accounts of the panel promise: a person joins once and leaves  *)
(* once, a session opens only for somebody who is in, leaving closes every *)
(* session of that person, and a session that was closed never opens       *)
(* again.  How logins, resets and deactivations interleave is left to      *)
(* Accounts.                                                               *)
(***************************************************************************)
CONSTANTS
    People,     \* identities a person row may have
    Sessions,   \* tokens a login may hand out
    Nobody      \* holder of a token that was not handed out

VARIABLES
    member,     \* member[p]: "absent", "in" or "out"
    holder,     \* holder[s]: whose session s is
    door        \* door[s]: the session s is "unused", "open" or "closed"

vars == <<member, holder, door>>

Init == /\ member = [p \in People |-> "absent"]
        /\ holder = [s \in Sessions |-> Nobody]
        /\ door = [s \in Sessions |-> "unused"]

Closed(S) == [s \in Sessions |-> IF s \in S THEN "closed" ELSE door[s]]
HeldBy(p) == {s \in Sessions: holder[s] = p}

Join(p) == /\ member[p] = "absent"
           /\ member' = [member EXCEPT ![p] = "in"]
           /\ UNCHANGED <<holder, door>>

Open(s, p) == /\ door[s] = "unused"
              /\ member[p] = "in"
              /\ door' = [door EXCEPT ![s] = "open"]
              /\ holder' = [holder EXCEPT ![s] = p]
              /\ UNCHANGED member

(* A token handed out to somebody who has left in the meantime.            *)
Spoil(s, p) == /\ door[s] = "unused"
               /\ door' = [door EXCEPT ![s] = "closed"]
               /\ holder' = [holder EXCEPT ![s] = p]
               /\ UNCHANGED member

Close(S) == /\ \A s \in S: door[s] # "unused"
            /\ door' = Closed(S)
            /\ UNCHANGED <<member, holder>>

Leave(p) == /\ member[p] = "in"
            /\ member' = [member EXCEPT ![p] = "out"]
            /\ door' = Closed(HeldBy(p))
            /\ UNCHANGED holder

Next == \/ \E p \in People: Join(p) \/ Leave(p) \/ \E s \in Sessions: Open(s, p) \/ Spoil(s, p)
        \/ \E S \in SUBSET Sessions: Close(S)

Spec == Init /\ [][Next]_vars
=============================================================================
