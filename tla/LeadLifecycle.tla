---------------------------- MODULE LeadLifecycle ----------------------------
(***************************************************************************)
(* What the conversation promises a lead about its state: the bot and the  *)
(* advisers take turns, an opt-out is final, and a lead in the hands of a  *)
(* human goes back to the bot only by a release or after HandoffTimeout,   *)
(* and then never to the greeting.  The promise does not bind a turn that  *)
(* the panel overtook: it writes once more what it had decided before, and *)
(* everything after it follows the promise again.                          *)
(*                                                                         *)
(* src/docs/03-CONVERSACION.md, section 2, HUMAN_HANDOFF and OPTED_OUT.    *)
(***************************************************************************)
EXTENDS Naturals

CONSTANT HandoffTimeout      \* ticks a human has before the bot may resume

Active   == {"GREETING", "QUALIFICATION", "SEARCH_MATCH", "COMMERCIAL_QUALIFICATION", "SCHEDULING"}
Silenced == {"HUMAN_HANDOFF", "OPTED_OUT"}
State    == Active \cup Silenced

VARIABLES state,     \* the lead's ConversationState
          quiet,     \* ticks since a human took the lead, up to HandoffTimeout
          overtaken  \* the panel changed the state under a turn that goes on

vars == <<state, quiet, overtaken>>

TypeOK == state \in State /\ quiet \in 0 .. HandoffTimeout /\ overtaken \in BOOLEAN

Init == state = "GREETING" /\ quiet = HandoffTimeout /\ overtaken = FALSE

\* The bot leads the conversation: forward or back, never to the greeting.
Converse ==
    /\ state \in Active
    /\ state' \in Active \ {"GREETING"}
    /\ UNCHANGED <<quiet, overtaken>>

\* The session expires.
Restart == state \in Active /\ state' = "GREETING" /\ UNCHANGED <<quiet, overtaken>>

\* A human takes the lead, or confirms that it has it.
HandOff ==
    /\ state # "OPTED_OUT"
    /\ state' = "HUMAN_HANDOFF" /\ quiet' = 0
    /\ UNCHANGED overtaken

\* The human's time is over and the lead writes again.
Resume ==
    /\ state = "HUMAN_HANDOFF" /\ quiet = HandoffTimeout
    /\ state' \in Active \ {"GREETING"}
    /\ UNCHANGED <<quiet, overtaken>>

\* An adviser gives the lead back, perhaps under a turn.
Release ==
    /\ state = "HUMAN_HANDOFF"
    /\ state' \in {"QUALIFICATION", "SEARCH_MATCH"} /\ quiet' = HandoffTimeout
    /\ overtaken' \in BOOLEAN

\* The lead asks for it, or the panel, perhaps under a turn.
OptOut ==
    /\ state # "OPTED_OUT"
    /\ state' = "OPTED_OUT" /\ quiet' = HandoffTimeout
    /\ overtaken' \in BOOLEAN

\* The overtaken turn writes what it had decided, or is over.
Outrun ==
    /\ overtaken
    /\ state' \in State /\ quiet' \in 0 .. HandoffTimeout
    /\ overtaken' \in BOOLEAN

Tick == quiet < HandoffTimeout /\ quiet' = quiet + 1 /\ UNCHANGED <<state, overtaken>>

Next == Converse \/ Restart \/ HandOff \/ Resume \/ Release \/ OptOut \/ Outrun \/ Tick

Spec == Init /\ [][Next]_vars
=============================================================================
