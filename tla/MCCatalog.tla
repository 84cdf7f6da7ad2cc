------------------------------- MODULE MCCatalog -------------------------------
(* Catalog from an empty stock, with three requests to come, and from      *)
(* every stock of five properties of eight kinds, for the search.          *)
EXTENDS Catalog

CONSTANT MCRequests     \* requests to come

Row(zone, operation, price, currency, rooms) ==
    [zone |-> zone, operation |-> operation, price |-> price, currency |-> currency,
     rooms |-> rooms, garage |-> FALSE]

MCZones == {"palermo", "munro"}
MCAdjacent == [z \in MCZones |-> <<>>]
MCIds == 1 .. 5

(* The budget is 100: at, and above, what each step lets pass.             *)
Kinds == << Row("palermo", "SALE", 110, "USD", 2), Row("palermo", "SALE", 111, "USD", 2),
            Row("palermo", "SALE", 125, "USD", 3), Row("palermo", "SALE", 150, "USD", 2),
            Row("palermo", "SALE", 151, "USD", 2), Row("palermo", "SALE", 90, "USD", 1),
            Row("munro", "SALE", 120, "ARS", 2), Row("munro", "RENT", 100, "USD", 2) >>

Stock(kinds) ==
    [p \in MCIds |-> IF kinds[p] = 0 THEN Blank
                     ELSE [Blank EXCEPT !.status = "ACTIVE", !.row = Kinds[kinds[p]]]]

Sorted == {k \in [MCIds -> 0 .. Len(Kinds)]: \A p, q \in MCIds: p < q => k[p] <= k[q]}

MCStarts == {[catalog |-> Stock(k), requests |-> 0] : k \in Sorted}
            \cup {[catalog |-> Stock([p \in MCIds |-> 0]), requests |-> MCRequests]}

MCFilters ==
    {[operation |-> "SALE", zones |-> zones, maxPrice |-> max, currency |-> c, minRooms |-> n,
      garage |-> FALSE, flexible |-> flexible] :
        zones \in {{}, {"palermo"}, {"munro"}}, max \in {0, 100}, c \in {"none", "USD"},
        n \in {0, 1, 2}, flexible \in BOOLEAN}

MCNewRows == {[row |-> Kinds[1], ref |-> "none", photos |-> <<"a", "b">>],
              [row |-> Kinds[7], ref |-> "R1", photos |-> <<>>]}

MCChanges == {[price |-> 125], [zone |-> "munro", rooms |-> 3]}
MCGalleries == {<<>>, <<"c">>}

Record(ref, cells, photos) == [ref |-> ref, cells |-> cells, photos |-> photos]
Sale == [zone |-> "palermo", operation |-> "SALE", price |-> 90]

MCFiles == { << Record("R1", Sale @@ [rooms |-> 2], <<"d">>), Record("R2", [price |-> 0], <<>>),
                Record("R1", Sale, <<>>) >> }
=============================================================================
