-------------------------------- MODULE Catalog --------------------------------
(***************************************************************************)
(* The agency's stock as the panel changes it: PropertiesAdminService and  *)
(* CsvImportService (src/admin/properties), several requests at a time,    *)
(* against the bot that searches it (PropertySearch) and books visits.     *)
(*                                                                         *)
(* A request goes from one query to the next.  What a transaction writes   *)
(* is seen when it commits; Postgres runs it READ COMMITTED: a statement   *)
(* sees what was committed when it began, waits for the rows another       *)
(* transaction has touched, and of two that wait for each other one is     *)
(* aborted.  One tenant: another one's property is not found (404).        *)
(***************************************************************************)
EXTENDS PropertySearch

CONSTANTS
    Ids,            \* the ids properties may get, 1 .. n
    Requests,       \* requests the server may be handling at once
    NewRows,        \* what POST may carry: the row, the external ref, the photos
    Changes,        \* what PATCH may carry: some columns of a row
    Galleries,      \* the sequences of photo URLs a PATCH may carry
    Files,          \* the CSV files, sequences of records of cells
    Starts,         \* stocks to begin with, and the requests that may follow
    Filters,        \* what leads look for
    MaxDeaths       \* bound

VARIABLES
    catalog,        \* [Ids -> the row, its external ref, status and photos]
    visits,         \* the ids that appointments point to
    booking,        \* the property a turn has just resolved, and is about to book
    req,            \* the requests in progress, and the answer of the last one
    left, deaths,   \* requests still to come, processes that died
    raced           \* history: ids booked when their removal had looked

vars == <<catalog, visits, booking, req, left, deaths, raced>>

NoRef == "none"
NoId == 0
Listed == {"ACTIVE", "PAUSED"}          \* PAUSED stands for every other status
Columns == {"zone", "operation", "price", "currency", "rooms", "garage"}

\* The columns' own defaults, for what a request leaves out.
Defaults == [currency |-> "USD", rooms |-> 0, garage |-> FALSE]

\* Columns a request does not name stay, or get their default.
Merged(data, row) ==
    [c \in DOMAIN data \cup DOMAIN row |-> IF c \in DOMAIN data THEN data[c] ELSE row[c]]

Blank == [status |-> "unused", row |-> Defaults, ref |-> NoRef, photos |-> {}]

Rest == [pc |-> "idle", kind |-> "none", id |-> NoId, data |-> << >>, photos |-> <<>>,
         mine |-> {}, file |-> <<>>, next |-> 1, errors |-> 0, alone |-> TRUE, reply |-> "none"]

\* A stock to begin with has a row under each id, and no external ref twice; a file is
\* a sequence of records.
ASSUME CatalogAssumption ==
    /\ NoId \notin Ids
    /\ \A start \in Starts:
          /\ start.catalog = [p \in Ids |-> [status |-> start.catalog[p].status, row |-> start.catalog[p].row,
                                            ref |-> start.catalog[p].ref, photos |-> start.catalog[p].photos]]
          /\ \A p, q \in {i \in Ids: start.catalog[i].status \in Listed}:
                start.catalog[p].ref = start.catalog[q].ref /\ start.catalog[p].ref # NoRef => p = q
    /\ \A file \in Files: file \in Seq(ToSet(file))

\* Prices are positive numbers and rooms are integers, in what requests carry (where
\* they carry them) and in what is there to begin with.
Numbers(data) == /\ "price" \in DOMAIN data => data["price"] \in Nat
                 /\ "rooms" \in DOMAIN data => data["rooms"] \in Int
Numbered(row) == {"price", "rooms"} \subseteq DOMAIN row /\ Numbers(row)

ASSUME NumbersAssumption ==
    /\ Ids \subseteq Nat /\ IsFiniteSet(Ids)
    /\ \A start \in Starts, p \in Ids:
          start.catalog[p].status \in Listed => Numbered(start.catalog[p].row)
    /\ \A new \in NewRows: "price" \in DOMAIN new.row /\ Numbers(new.row)
    /\ \A data \in Changes: Numbers(data)
    /\ \A file \in Files: \A i \in DOMAIN file: Numbers(file[i].cells)
    /\ \A f \in Filters: f.maxPrice \in Nat /\ f.minRooms \in Nat /\ f.flexible \in BOOLEAN

Exists(p) == catalog[p].status \in Listed
WithRef(ref) == {p \in Ids: Exists(p) /\ catalog[p].ref = ref /\ ref # NoRef}

stock == [p \in {q \in Ids: catalog[q].status = "ACTIVE"} |-> catalog[p].row]

TypeOK ==
    /\ \A p \in Ids: Exists(p) => /\ DOMAIN catalog[p].row = Columns
                                  /\ WithRef(catalog[p].ref) \subseteq {p}
    /\ visits \subseteq Ids /\ booking \in Ids \cup {NoId}
    /\ \A r \in Requests: req[r].pc \in {"idle", "photos", "wait", "write", "set", "look",
                                         "delete", "row", "upsert"}

Init ==
    /\ \E start \in Starts: catalog = start.catalog /\ left = start.requests
    /\ visits = {} /\ booking = NoId
    /\ req = [r \in Requests |-> Rest]
    /\ deaths = 0 /\ raced = {}

-----------------------------------------------------------------------------
(* Photos: rows of their own, written by a request.                        *)

Rows(r, urls) == {[url |-> urls[i], position |-> i, by |-> <<r, left>>] : i \in DOMAIN urls}

\* The rows another transaction has deleted and not yet committed.
HeldBy(q, p) == IF req[q].pc = "write" /\ req[q].id = p THEN req[q].mine ELSE {}
Holders(r, p) == {q \in Requests \ {r}: HeldBy(q, p) # {}}

-----------------------------------------------------------------------------
(* Requests begin with their first query, and end with an answer.          *)

InFlight == {r \in Requests: req[r].pc # "idle"}

Step(r, next) == req' = [req EXCEPT ![r] = next]
Goto(r, pc) == Step(r, [req[r] EXCEPT !.pc = pc])
Reply(r, answer) == Step(r, [req[r] EXCEPT !.pc = "idle", !.mine = {}, !.reply = answer])

\* An import that is not alone any more: see ImportConverges.
Begin(r, next) ==
    /\ req[r].pc = "idle" /\ left > 0
    /\ left' = left - 1
    /\ req' = [q \in Requests |-> IF q = r THEN [next EXCEPT !.alone = (InFlight = {})]
                                  ELSE [req[q] EXCEPT !.alone = FALSE]]
    /\ UNCHANGED <<visits, booking, deaths, raced>>

Fresh(p) == catalog[p].status = "unused" /\ \A q \in Ids: q < p => catalog[q].status # "unused"

\* findOneOrThrow
Found(r, p, next) ==
    /\ catalog[p].status # "unused"
    /\ Begin(r, IF Exists(p) THEN [next EXCEPT !.id = p] ELSE [Rest EXCEPT !.reply = "404"])
    /\ UNCHANGED catalog

\* One insert; a repeated external ref is P2002.
Create(r) ==
    \E new \in NewRows, p \in Ids:
        /\ Fresh(p)
        /\ IF WithRef(new.ref) # {}
           THEN Begin(r, [Rest EXCEPT !.reply = "409"]) /\ UNCHANGED catalog
           ELSE /\ Begin(r, [Rest EXCEPT !.reply = "ok"])
                /\ catalog' = [catalog EXCEPT ![p] =
                      [status |-> "ACTIVE", row |-> Merged(new.row, Defaults), ref |-> new.ref,
                       photos |-> Rows(r, new.photos)]]

\* PATCH: photoUrls absent leaves the photos alone.
BeginUpdate(r) ==
    \E p \in Ids, data \in Changes:
        \/ Found(r, p, [Rest EXCEPT !.kind = "update", !.data = data, !.pc = "write"])
        \/ \E urls \in Galleries:
             Found(r, p, [Rest EXCEPT !.kind = "gallery", !.data = data, !.photos = urls,
                                      !.pc = "photos"])

BeginStatus(r) ==
    \E p \in Ids, s \in Listed:
        Found(r, p, [Rest EXCEPT !.kind = "status", !.data = [status |-> s], !.pc = "set"])

BeginRemove(r) == \E p \in Ids: Found(r, p, [Rest EXCEPT !.kind = "remove", !.pc = "look"])

BeginImport(r) ==
    /\ \E f \in Files: Begin(r, [Rest EXCEPT !.kind = "import", !.file = f, !.pc = "row"])
    /\ UNCHANGED catalog

Unless(failed, r, answer, catalogAfter) ==
    IF failed THEN Reply(r, answer) /\ UNCHANGED catalog
    ELSE Reply(r, "ok") /\ catalog' = catalogAfter

Others == UNCHANGED <<visits, booking, left, deaths, raced>>

-----------------------------------------------------------------------------
(* PATCH.                                                                  *)

\* The delete begins: it will wait for, and delete, the photos it sees now.
DeletePhotos(r) ==
    /\ req[r].pc = "photos"
    /\ Step(r, [req[r] EXCEPT !.pc = "wait", !.mine = catalog[req[r].id].photos])
    /\ UNCHANGED catalog /\ Others

PhotosDeleted(r) ==
    /\ req[r].pc = "wait"
    /\ \A q \in Requests \ {r}: HeldBy(q, req[r].id) \cap req[r].mine = {}
    /\ Step(r, [req[r] EXCEPT !.pc = "write", !.mine = @ \cap catalog[req[r].id].photos])
    /\ UNCHANGED catalog /\ Others

\* Photos and row are written and the transaction commits, unless the property went.
CommitUpdate(r) ==
    LET p == req[r].id
        photos == IF req[r].kind = "gallery"
                  THEN (catalog[p].photos \ req[r].mine) \cup Rows(r, req[r].photos)
                  ELSE catalog[p].photos
    IN /\ req[r].pc = "write"
       /\ Unless(~Exists(p), r, "500",
                 [catalog EXCEPT ![p].row = Merged(req[r].data, @), ![p].photos = photos])
       /\ Others

\* PATCH .../status: no transaction around its two queries.
CommitStatus(r) ==
    /\ req[r].pc = "set"
    /\ Unless(~Exists(req[r].id), r, "500",
              [catalog EXCEPT ![req[r].id].status = req[r].data.status])
    /\ Others

-----------------------------------------------------------------------------
(* DELETE.                                                                 *)

\* Mutant: visits are not looked for.
SkipVisits(r) == req[r].pc = "look" /\ Goto(r, "delete") /\ UNCHANGED catalog /\ Others

LookForVisits(r) ==
    /\ req[r].pc = "look"
    /\ IF req[r].id \in visits THEN Reply(r, "409") ELSE Goto(r, "delete")
    /\ UNCHANGED catalog /\ Others

\* Its photos go with it.
Delete(r) ==
    /\ req[r].pc = "delete" /\ Holders(r, req[r].id) = {}
    /\ Unless(~Exists(req[r].id), r, "500",
              [catalog EXCEPT ![req[r].id] = [Blank EXCEPT !.status = "deleted"]])
    /\ Others

\* A request that holds the property meets one that holds its photos: one is aborted.
Deadlock(r) ==
    /\ \/ req[r].pc = "delete"
       \/ req[r].pc = "upsert" /\ req[r].id # NoId /\ req[r].file[req[r].next].photos # <<>>
    /\ \E q \in Holders(r, req[r].id):
          \/ Reply(q, "500")
          \/ /\ req[r].kind = "remove" /\ Reply(r, "500")
          \/ /\ req[r].kind = "import"
             /\ Step(r, [req[r] EXCEPT !.pc = "row", !.next = @ + 1, !.errors = @ + 1])
    /\ UNCHANGED catalog /\ Others

-----------------------------------------------------------------------------
(* The import: one upsert after the other.                                 *)

\* parseRow: what is required, and a price above zero.
Parses(record) ==
    /\ record.ref # NoRef
    /\ {"zone", "operation", "price"} \subseteq DOMAIN record.cells
    /\ record.cells["price"] > 0

NextRow(r, errors) ==
    Step(r, [req[r] EXCEPT !.pc = "row", !.next = @ + 1, !.errors = @ + errors])

\* A row is parsed, and its external ref looked up.
LookUpRow(r) ==
    /\ req[r].pc = "row"
    /\ IF req[r].next > Len(req[r].file) THEN Reply(r, "ok")
       ELSE LET record == req[r].file[req[r].next] IN
            IF ~Parses(record) THEN NextRow(r, 1)
            ELSE Step(r, [req[r] EXCEPT !.pc = "upsert",
                              !.id = IF WithRef(record.ref) = {} THEN NoId
                                     ELSE CHOOSE p \in WithRef(record.ref): TRUE])
    /\ UNCHANGED catalog /\ Others

\* Mutant: what is known is left as it is.
KnownAlready(property, record, r) == property

\* What an import changes of a property it knows: neither status nor, without
\* URLs, its photos.
Imported(property, record, r) ==
    [property EXCEPT !.row = Merged(record.cells, @),
                     !.photos = IF record.photos = <<>> THEN @ ELSE Rows(r, record.photos)]

\* Somebody may have created or deleted it since it was looked up.
UpsertRow(r) ==
    LET record == req[r].file[req[r].next]
        p == req[r].id
    IN /\ req[r].pc = "upsert"
       /\ IF p # NoId
          THEN /\ record.photos # <<>> => Holders(r, p) = {}
               /\ IF Exists(p)
                  THEN NextRow(r, 0) /\ catalog' = [catalog EXCEPT ![p] = Imported(@, record, r)]
                  ELSE NextRow(r, 1) /\ UNCHANGED catalog
          ELSE IF WithRef(record.ref) # {}
          THEN NextRow(r, 1) /\ UNCHANGED catalog
          ELSE \E new \in Ids:
                 /\ Fresh(new)
                 /\ NextRow(r, 0)
                 /\ catalog' = [catalog EXCEPT ![new] =
                       [status |-> "ACTIVE", row |-> Merged(record.cells, Defaults),
                        ref |-> record.ref, photos |-> Rows(r, record.photos)]]
       /\ Others

-----------------------------------------------------------------------------
(* The bot and the environment.                                            *)

\* A turn resolves the property the lead chose, whatever its status ...
Resolve ==
    /\ booking = NoId /\ visits = {}
    /\ \E p \in Ids: Exists(p) /\ booking' = p
    /\ UNCHANGED <<catalog, visits, req, left, deaths, raced>>

\* ... and books it: propertyId is no foreign key.
Book ==
    /\ booking # NoId
    /\ visits' = visits \cup {booking}
    /\ booking' = NoId
    /\ raced' = IF ~Exists(booking) \/ \E r \in Requests: req[r].pc = "delete" /\ req[r].id = booking
                THEN raced \cup {booking} ELSE raced
    /\ UNCHANGED <<catalog, req, left, deaths>>

\* Transactions roll back, an import stops where it was.
ServerDies ==
    /\ deaths < MaxDeaths /\ InFlight # {}
    /\ deaths' = deaths + 1
    /\ req' = [r \in Requests |-> IF r \in InFlight THEN Rest ELSE req[r]]
    /\ UNCHANGED <<catalog, visits, booking, left, raced>>

Handle(r) ==
    \/ DeletePhotos(r) \/ PhotosDeleted(r) \/ CommitUpdate(r) \/ CommitStatus(r)
    \/ LookForVisits(r) \/ Delete(r) \/ Deadlock(r)
    \/ LookUpRow(r) \/ UpsertRow(r)

Arrive(r) == Create(r) \/ BeginUpdate(r) \/ BeginStatus(r) \/ BeginRemove(r) \/ BeginImport(r)

Next == (\E r \in Requests: Arrive(r) \/ Handle(r)) \/ Resolve \/ Book \/ ServerDies

Spec == Init /\ [][Next]_vars
-----------------------------------------------------------------------------
(* Requests.                                                               *)

\* A visit outlives its property only if it was booked when the removal had
\* already looked for visits.
VisitsKeepTheirProperty == \A p \in visits: catalog[p].status = "deleted" => p \in raced

\* When an import that met no other request has ended, each external ref of its file
\* is on one property, with the cells of its last good row: also if what was there
\* is half of an import that died.
LastGoodRows(file) ==
    {file[i] : i \in {j \in DOMAIN file: /\ Parses(file[j])
                                         /\ \A k \in DOMAIN file: k > j /\ Parses(file[k])
                                                                  => file[k].ref # file[j].ref}}

ImportConverges ==
    \A r \in Requests:
        req[r].kind = "import" /\ req[r].reply = "ok" /\ req[r].alone =>
            /\ \A record \in LastGoodRows(req[r].file):
                  \E p \in Ids: /\ WithRef(record.ref) = {p}
                                /\ \A c \in DOMAIN record.cells: catalog[p].row[c] = record.cells[c]
            /\ req[r].errors = Cardinality({i \in DOMAIN req[r].file: ~Parses(req[r].file[i])})

-----------------------------------------------------------------------------
(* What a lead is told of this stock, against what the stock is.  The      *)
(* stock is looked at when no request is under way, and no visit, which    *)
(* changes nothing of it.                                                  *)

Still == InFlight = {} /\ booking = NoId /\ visits = {}

Wanted(row, f) == row.operation = f.operation /\ (f.zones = {} \/ row.zone \in f.zones)
                  /\ (f.garage => row.garage)
SameMoney(row, f) == f.maxPrice = 0 \/ f.currency = "none" \/ row.currency = f.currency
Affords(row, f, percent) ==
    f.maxPrice = 0 \/ (SameMoney(row, f) /\ row.price * 100 <= f.maxPrice * percent)
Roomy(row, f) == \/ f.minRooms = 0 \/ row.rooms = f.minRooms
                 \/ f.minRooms > 1 /\ row.rooms > f.minRooms

\* What is for sale under the terms of a label.
Terms(f, percent, roomy) ==
    {p \in DOMAIN stock: /\ Wanted(stock[p], f) /\ Affords(stock[p], f, percent)
                         /\ roomy => Roomy(stock[p], f)}
Unpriced(f, roomy) ==
    {p \in DOMAIN stock: /\ Wanted(stock[p], f) /\ SameMoney(stock[p], f)
                         /\ roomy => Roomy(stock[p], f)}

\* What is to be said: the strictest terms there is stock for, giving up price before
\* rooms and rooms before the budget, or where there is nothing at all.
StrictestLabel(f) ==
    IF Terms(f, 110, TRUE) # {} THEN "none"
    ELSE IF Terms(f, IF f.flexible THEN 150 ELSE 125, TRUE) # {} THEN "price"
    ELSE IF Terms(f, 125, FALSE) # {} THEN "rooms"
    ELSE IF Unpriced(f, FALSE) # {} THEN "over_budget"
    ELSE IF \/ f.zones = {}
            \/ \E p \in DOMAIN stock: /\ stock[p].zone \in f.zones
                                      /\ f.operation \in {"none", stock[p].operation}
         THEN "none" ELSE "empty_zone"

\* What there is under the terms of a label, when nothing stricter has any.
TermsOf(f, label) ==
    CASE label = "none" -> Terms(f, 110, TRUE)
      [] label = "price" -> IF Terms(f, 125, TRUE) # {} THEN Terms(f, 125, TRUE)
                            ELSE Terms(f, 150, TRUE)
      [] label = "rooms" -> Terms(f, 125, FALSE)
      [] label = "over_budget" -> IF Unpriced(f, TRUE) # {} THEN Unpriced(f, TRUE)
                                  ELSE Unpriced(f, FALSE)
      [] OTHER -> {}

\* A lead is answered under the strictest terms there is stock for, and is told so;
\* of what meets them nothing better stays out: nothing cheaper, in whatever currency,
\* or with rooms closer to those asked for when they are given up; as long as the rows
\* to be sorted fit the limit of candidates.
Pesos(row) == row.price * (IF row.currency = "USD" THEN UsdRate ELSE 1)
Off(row, f) == IF Roomy(row, f) /\ row.rooms = f.minRooms THEN 0
               ELSE IF row.rooms > f.minRooms THEN row.rooms - f.minRooms
               ELSE f.minRooms - row.rooms

NothingBetterLeftOut ==
    Still => \A f \in Filters: \A o \in search(stock, f):
        LET met == TermsOf(f, o.relaxed)
            shown == ToSet(o.found)
            givenUp == f.minRooms # 0 /\ (o.relaxed = "rooms" \/ ~\E p \in met: Roomy(stock[p], f))
        IN /\ o.relaxed = StrictestLabel(f)
           /\ Cardinality(met) <= CandidateLimit =>
                /\ Cardinality(shown) = IF Cardinality(met) < 3 THEN Cardinality(met) ELSE 3
                /\ \A p \in shown, q \in met \ shown:
                      IF givenUp
                      THEN \/ Off(stock[p], f) < Off(stock[q], f)
                           \/ /\ Off(stock[p], f) = Off(stock[q], f)
                              /\ Pesos(stock[p]) <= Pesos(stock[q])
                      ELSE Pesos(stock[p]) <= Pesos(stock[q])
=============================================================================
