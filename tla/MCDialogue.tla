------------------------------ MODULE MCDialogue ------------------------------
(* Dialogue with three properties: two for sale in one zone, one to rent   *)
(* in its neighbour.                                                       *)
EXTENDS Dialogue

Row(zone, operation, price, rooms, garage) ==
    [zone |-> zone, operation |-> operation, price |-> price, currency |-> "USD",
     rooms |-> rooms, garage |-> garage]

MCZones == {"palermo", "munro"}
MCAdjacent == [z \in MCZones |-> IF z = "munro" THEN <<"palermo">> ELSE <<>>]
MCAttr == << Row("palermo", "SALE", 60000, 3, TRUE), Row("palermo", "SALE", 50000, 2, FALSE),
             Row("munro", "RENT", 500, 2, FALSE) >>

Answers(q, v) == [NoAnswers EXCEPT ![q] = v]

MCAlias == ({"palermo"} :> "palermo") @@ ({"palermo", "soho"} :> "palermo") @@ ({"munro"} :> "munro")
MCNear == {<<"munroo", "munro">>}

Says(words) == [Blank EXCEPT !.words = words]
Message(raw, text) == [raw |-> raw, text |-> text]
Index(i) == [Mute EXCEPT !.index = i]
Both == [Says({"palermo", "soho", "munroo"}) EXCEPT !.zones = MCZones]

(* What is looked for, in one go or piece by piece; a choice, with and     *)
(* without its being meant, and with a question, which is for a garage,    *)
(* that has no "?"; answers of a buyer; a yes, a "you choose"; and *)
(* the LLM repeating places, making up names, going out of range.          *)
MCMessages ==
    { Message([Mute EXCEPT !.understood = FALSE], Blank),
      Message([Mute EXCEPT !.op = "SALE", !.name = "ana"],
              [Says({"ana"}) EXCEPT !.presents = TRUE]),
      Message([Mute EXCEPT !.op = "RENT", !.name = "hola"], Says({"hola"})),
      Message([Mute EXCEPT !.zones = {{"palermo", "soho"}, {"munro"}}, !.name = "palermo"], Both),
      Message([Mute EXCEPT !.zones = {{"munro"}, {"palermo"}}, !.intent = "change_filters"],
              [Says({"munro"}) EXCEPT !.zones = {"munro"}]),
      Message([Mute EXCEPT !.price = 30000, !.currency = "USD", !.rooms = 2,
                           !.zones = {{"palermo", "soho"}}], Says({"soho"})),
      Message([Mute EXCEPT !.rooms = 11], [Blank EXCEPT !.accepts = TRUE, !.delegates = TRUE]),
      Message(Index(1), [Blank EXCEPT !.confirms = TRUE]),
      Message([Index(2) EXCEPT !.answers = Answers("paymentMethod", "credito")],
              [Blank EXCEPT !.confirms = TRUE]),
      Message(Index(1), [Blank EXCEPT !.question = TRUE]),
      Message([Index(1) EXCEPT !.intent = "ask_question", !.garage = "yes"],
              [Blank EXCEPT !.confirms = TRUE]),
      Message([Mute EXCEPT !.answers = [Answers("hasPropertyToSell", "yes")
                                        EXCEPT !["guarantee"] = "seguro"]], Blank),
      Message([Mute EXCEPT !.answers = Answers("paymentMethod", "contado")],
              [Blank EXCEPT !.signal = TRUE]) }
=============================================================================
