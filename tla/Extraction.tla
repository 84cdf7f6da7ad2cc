------------------------------ MODULE Extraction ------------------------------
(***************************************************************************)
(* From what a lead writes to the extraction the handlers are given:       *)
(* sanitizeExtraction over what the LLM returned, and the regexes that     *)
(* read the text.  The LLM may repeat what was said in earlier turns, make *)
(* up a name, go out of range or coin a value.                             *)
(*                                                                         *)
(* A name of a place is the set of its words; normalizeText, and which     *)
(* words count as each other (levenshtein within maxTypoDistance, or one   *)
(* being part of the other), are the constant Near.                        *)
(***************************************************************************)
EXTENDS PropertySearch

CONSTANTS
    Alias,      \* [names of places -> Zones]: ALIASES and the zones' own names
    Near        \* pairs <<written, meant>> of different words that count as equal

Fields == {"guarantee", "timeline", "paymentMethod", "hasPropertyToSell"}
NoAnswer == "none"
NoAnswers == [q \in Fields |-> NoAnswer]
NoName == "none"

MAX_ROOMS == 10

\* A text that says nothing.  zones and presents are what the lead means by it, which
\* the program does not see; the words are what it does see, and the rest is what the
\* regexes find (confirmsPropertyChoice, "?", acceptsZoneSuggestion, delegatesZoneChoice,
\* hasBuyingSignal).
Blank == [words |-> {}, zones |-> {}, presents |-> FALSE, confirms |-> FALSE, question |-> FALSE,
          accepts |-> FALSE, delegates |-> FALSE, signal |-> FALSE]

\* What the LLM returns when it finds nothing; understood is whether it parses.  garage,
\* which also stands for petsAllowed, is "yes", "no" or was not told.
Mute == [understood |-> TRUE, intent |-> "other", op |-> "none", zones |-> {}, price |-> 0,
         currency |-> "none", rooms |-> 0, garage |-> "none", flexible |-> FALSE, index |-> 0,
         name |-> NoName, answers |-> NoAnswers]

NAME_BLACKLIST == {"hola", "gracias", "dale"}

ClosedValues == [timeline |-> {"inmediato", "1-3 meses", "3-6 meses", "explorando"},
                 guarantee |-> {"propietaria", "caucion", "recibo", "no_tiene", "no_sabe"},
                 paymentMethod |-> {"contado", "credito", "mixto", "no_sabe"},
                 hasPropertyToSell |-> {"yes", "no"}]

isKnownNeighborhood(name) == name \in DOMAIN Alias
normalizeNeighborhood(name) == Alias[name]

\* Mutant: places are taken from the LLM as they come.
MentionsAnything(text, name) == TRUE

\* Every word of the name is there, but for its spelling.
textMentionsNeighborhood(text, name) ==
    \A w \in name: w \in text.words \/ \E v \in text.words: <<v, w>> \in Near

\* Whether the LLM's name is kept.
sanitizeLeadName(name, text) ==
    /\ name \notin NAME_BLACKLIST \cup {NoName}
    /\ ~isKnownNeighborhood({name})
    /\ textMentionsNeighborhood(text, {name})

sanitizeClosedValue(value, allowed) == IF value \in allowed THEN value ELSE NoAnswer

sanitizeExtraction(raw, text) ==
    [understood |-> raw.understood, intent |-> raw.intent, op |-> raw.op,
     zones |-> {normalizeNeighborhood(n) : n \in {m \in raw.zones: textMentionsNeighborhood(text, m)}},
     price |-> IF raw.price > 0 THEN raw.price ELSE 0,
     currency |-> raw.currency,
     rooms |-> IF raw.rooms \in 1 .. MAX_ROOMS THEN raw.rooms ELSE 0,
     garage |-> raw.garage, flexible |-> raw.flexible, index |-> raw.index,
     name |-> sanitizeLeadName(raw.name, text),
     answers |-> [q \in Fields |-> sanitizeClosedValue(raw.answers[q], ClosedValues[q])],
     confirms |-> text.confirms, question |-> text.question, accepts |-> text.accepts,
     delegates |-> text.delegates, signal |-> text.signal,
     means |-> [zones |-> text.zones, name |-> text.presents]]
=============================================================================
