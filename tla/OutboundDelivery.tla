-------------------------- MODULE OutboundDelivery --------------------------
(***************************************************************************)
(* What the outbound queue promises of each message it is given: it may    *)
(* hand it to WhatsApp several times, never after it settled, and it       *)
(* settles as "done" only if WhatsApp accepted it at least once.           *)
(***************************************************************************)
EXTENDS Naturals

CONSTANT Answers      \* messages that may be queued

VARIABLES
    state,            \* what became of each message
    accepted          \* how many times WhatsApp accepted it

Init ==
    /\ state = [j \in Answers |-> "new"]
    /\ accepted = [j \in Answers |-> 0]

Enqueue(j) ==
    /\ state[j] = "new"
    /\ state' = [state EXCEPT ![j] = "queued"]
    /\ UNCHANGED accepted

Accept(j) ==
    /\ state[j] = "queued"
    /\ accepted' = [accepted EXCEPT ![j] = @ + 1]
    /\ UNCHANGED state

Complete(j) ==
    /\ state[j] = "queued" /\ accepted[j] > 0
    /\ state' = [state EXCEPT ![j] = "done"]
    /\ UNCHANGED accepted

\* The last attempt may have been accepted without our knowing.
GiveUp(j) ==
    /\ state[j] = "queued"
    /\ state' = [state EXCEPT ![j] = "failed"]
    /\ \/ UNCHANGED accepted
       \/ accepted' = [accepted EXCEPT ![j] = @ + 1]

Next == \E j \in Answers : Enqueue(j) \/ Accept(j) \/ Complete(j) \/ GiveUp(j)

Spec == Init /\ [][Next]_<<state, accepted>>
=============================================================================
