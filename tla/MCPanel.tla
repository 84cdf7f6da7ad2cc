-------------------------------- MODULE MCPanel --------------------------------
EXTENDS Panel

\* A plan: the screens it opens, and how often each thing may happen.
Plan(screens, buttons, presses) ==
    [at |-> "login", push |-> FALSE, screens |-> screens, buttons |-> buttons, logins |-> 1, logouts |-> 0,
     presses |-> presses, opens |-> 2, drafts |-> 2, others |-> 0, losses |-> 0, refusals |-> 0,
     reloads |-> 0, ends |-> 0, visits |-> 0]

\* A screen and its forms: answers lost, and writes from elsewhere.
FichaTexts == [Plan({"ficha"}, {}, 3) EXCEPT !.opens = 1, !.losses = 1]
FichaColumns == [Plan({"ficha"}, {"release"}, 2) EXCEPT !.opens = 1, !.others = 1]
Queue == [Plan({"queue"}, {"contacted"}, 2) EXCEPT !.opens = 1, !.losses = 1, !.others = 1]
Stock == [Plan({"stock"}, {}, 2) EXCEPT !.opens = 3, !.losses = 1]
StockColumns == [Plan({"stock"}, {}, 2) EXCEPT !.opens = 4, !.others = 1]
Config == [Plan({"config"}, {}, 3) EXCEPT !.opens = 1, !.losses = 1, !.others = 1]
People == [Plan({"people"}, {}, 3) EXCEPT !.opens = 1, !.losses = 1, !.refusals = 1]

\* A screen and its buttons: answers out of order, refused and lost.
ButtonsOf(at, buttons) == [Plan({at}, buttons, 2) EXCEPT !.drafts = 0, !.losses = 1, !.refusals = 1]
ButtonPlans == {ButtonsOf("ficha", Buttons["ficha"]), ButtonsOf("stock", Buttons["stock"]),
                ButtonsOf("people", Buttons["people"]), ButtonsOf("agenda", Buttons["agenda"])}

\* Sessions that end, logouts, reloads and second logins over calls under way.
Coming == [Plan({"ficha"}, {"contacted", "suppress"}, 1)
           EXCEPT !.opens = 1, !.logins = 2, !.logouts = 1, !.ends = 1, !.drafts = 0, !.refusals = 1]
Reloading == [Plan({"ficha"}, {"contacted"}, 1)
              EXCEPT !.opens = 1, !.logins = 2, !.reloads = 1, !.ends = 1, !.drafts = 0, !.push = TRUE]
ReloadingText == [Plan({"ficha"}, {}, 2) EXCEPT !.drafts = 1, !.reloads = 1, !.losses = 1]

\* The wizard, with what is lost and what is refused; and its three steps.
Registration == [Plan({}, {}, 4) EXCEPT !.at = "wizard", !.opens = 0, !.losses = 2, !.refusals = 1]
ToTheEnd == [Plan({}, {}, 3) EXCEPT !.at = "wizard", !.drafts = 1, !.losses = 1]

\* The public page: days picked faster than they are answered, visits of others.
Agenda == [Plan({}, {}, 3) EXCEPT !.at = "public", !.opens = 0, !.losses = 1, !.visits = 1]

MCPlans == ButtonPlans \cup {FichaTexts, FichaColumns, Queue, Stock, StockColumns, Config, People,
                             Coming, Reloading, ReloadingText, Registration, ToTheEnd, Agenda}
=============================================================================
