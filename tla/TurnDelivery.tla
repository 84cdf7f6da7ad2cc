---------------------------- MODULE TurnDelivery ----------------------------
(***************************************************************************)
(* What the debounce pipeline promises for one lead: a message that enters *)
(* the buffer waits there, and the messages that wait are handed to the    *)
(* conversation engine together, in the order they entered, each once.     *)
(*                                                                         *)
(* src/docs/01-ARQUITECTURA.md, section 3 point 6: "Al expirar, se         *)
(* disparan juntos todos los mensajes acumulados como un solo turno".      *)
(***************************************************************************)
EXTENDS Naturals, Sequences

CONSTANT Messages

VARIABLES waiting,   \* messages accepted and not answered yet, in order
          handled    \* messages handed to the engine, in order

TypeOK == waiting \in Seq(Messages) /\ handled \in Seq(Messages)

Init == waiting = <<>> /\ handled = <<>>

\* A message enters the buffer of the lead.
Accept(m) == waiting' = Append(waiting, m) /\ UNCHANGED handled

\* A non-empty prefix of what waits becomes one turn.  It is a prefix and not
\* always the whole: a message may enter while the turn is being taken.
Turn(n) ==
    /\ handled' = handled \o SubSeq(waiting, 1, n)
    /\ waiting' = SubSeq(waiting, n + 1, Len(waiting))

Next == \/ \E m \in Messages : Accept(m)
        \/ \E n \in 1 .. Len(waiting) : Turn(n)

Spec == Init /\ [][Next]_<<waiting, handled>>
=============================================================================
