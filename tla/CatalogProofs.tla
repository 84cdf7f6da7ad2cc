---------------------------- MODULE CatalogProofs ----------------------------
(***************************************************************************)
(* What holds of the agency's stock whatever the properties, the requests  *)
(* under way at once, what they carry, and the processes that die.         *)
(***************************************************************************)
EXTENDS Catalog, FiniteSetTheorems, SequenceTheorems, TLAPS

(* The fields of a property and of a request.                              *)
Fields == {"pc", "kind", "id", "data", "photos", "mine", "file", "next", "errors", "alone", "reply"}

IsProperty(x) == x = [f \in {"status", "row", "ref", "photos"} |-> x[f]]
IsRequest(x)  == x = [f \in Fields |-> x[f]]

Shape ==
    /\ catalog = [p \in Ids |-> catalog[p]] /\ \A p \in Ids: IsProperty(catalog[p])
    /\ req = [r \in Requests |-> req[r]] /\ \A r \in Requests: IsRequest(req[r])
    /\ visits \subseteq Ids /\ booking \in Ids \cup {NoId}
    /\ \A r \in Requests: req[r].pc = "set" => req[r].data.status \in Listed

(* A removal that has looked for visits and goes on: a visit that is there *)
(* all the same was booked since.                                          *)
RemovalInv == \A r \in Requests: req[r].pc = "delete" /\ req[r].id \in visits => req[r].id \in raced

(* The unique index on the external ref.                                   *)
RefsInv == \A p, q \in Ids:
    Exists(p) /\ Exists(q) /\ catalog[p].ref = catalog[q].ref /\ catalog[p].ref # NoRef => p = q

StockInv == Shape /\ RemovalInv /\ VisitsKeepTheirProperty /\ RefsInv

-----------------------------------------------------------------------------
LEMMA InitStock == Init => StockInv
<1> SUFFICES ASSUME Init PROVE StockInv
  OBVIOUS
<1>1. PICK start \in Starts: catalog = start.catalog
  BY DEF Init
<1>2. /\ catalog = [p \in Ids |-> [status |-> catalog[p].status, row |-> catalog[p].row,
                                   ref |-> catalog[p].ref, photos |-> catalog[p].photos]]
      /\ RefsInv
  BY <1>1, CatalogAssumption DEF RefsInv, Exists
<1>3. catalog = [p \in Ids |-> catalog[p]] /\ \A p \in Ids: IsProperty(catalog[p])
  BY <1>2 DEF IsProperty
<1>4. /\ req = [r \in Requests |-> req[r]] /\ visits = {} /\ booking = NoId
      /\ \A r \in Requests: IsRequest(req[r]) /\ req[r].pc = "idle"
  BY DEF Init, Rest, IsRequest, Fields
<1> QED BY <1>2, <1>3, <1>4 DEF StockInv, Shape, RemovalInv, VisitsKeepTheirProperty

\* What the steps of a request do to the record of requests.
LEMMA StepOf ==
    ASSUME Shape, NEW r \in Requests, NEW next, IsRequest(next), Step(r, next)
    PROVE  /\ req' = [q \in Requests |-> req'[q]] /\ \A q \in Requests: IsRequest(req'[q])
           /\ req'[r] = next /\ \A q \in Requests \ {r}: req'[q] = req[q]
  BY DEF Shape, Step

LEMMA BeginOf ==
    ASSUME Shape, NEW r \in Requests, NEW next, IsRequest(next), Begin(r, next)
    PROVE  /\ req' = [q \in Requests |-> req'[q]] /\ \A q \in Requests: IsRequest(req'[q])
           /\ req'[r] = [next EXCEPT !.alone = (InFlight = {})]
           /\ \A q \in Requests \ {r}: req'[q] = [req[q] EXCEPT !.alone = FALSE]
           /\ req[r].pc = "idle" /\ UNCHANGED <<visits, booking, deaths, raced>>
  BY DEF Shape, Begin, IsRequest, Fields

-----------------------------------------------------------------------------
(* Steps that leave the stock as it is.                                    *)
LEMMA SameStock ==
    ASSUME StockInv, UNCHANGED <<catalog, visits, raced>>, booking' \in Ids \cup {NoId},
           req' = [q \in Requests |-> req'[q]],
           \A q \in Requests: /\ IsRequest(req'[q])
                              /\ req'[q].pc = "set" => req'[q].data.status \in Listed
                              /\ req'[q].pc = "delete" => \/ req[q].pc = "delete" /\ req'[q].id = req[q].id
                                                          \/ req'[q].id \notin visits
    PROVE  StockInv'
  BY DEF StockInv, Shape, RemovalInv, VisitsKeepTheirProperty, RefsInv, Exists

(* Steps that write one property, and end or go on with their request.     *)
LEMMA OneProperty ==
    ASSUME StockInv, UNCHANGED <<visits, booking, raced>>, NEW p \in Ids, NEW row,
           catalog' = [catalog EXCEPT ![p] = row], IsProperty(row),
           row.status = "deleted" /\ p \in visits => p \in raced,
           row.status \in Listed => \/ Exists(p) /\ row.ref = catalog[p].ref
                                    \/ WithRef(row.ref) = {},
           req' = [q \in Requests |-> req'[q]],
           \A q \in Requests: /\ IsRequest(req'[q])
                              /\ req'[q].pc = "set" => req[q].pc = "set" /\ req'[q].data = req[q].data
                              /\ req'[q].pc = "delete" => req[q].pc = "delete" /\ req'[q].id = req[q].id
    PROVE  StockInv'
<1> USE DEF StockInv, Shape
<1>1. catalog'[p] = row /\ \A i \in Ids \ {p}: catalog'[i] = catalog[i]
  OBVIOUS
<1>2. Shape'
  <2>1. catalog' = [i \in Ids |-> catalog'[i]]
    OBVIOUS
  <2> QED BY <1>1, <2>1
<1>3. RemovalInv'
  BY DEF RemovalInv
<1>4. VisitsKeepTheirProperty'
  BY <1>1 DEF VisitsKeepTheirProperty
<1>5. RefsInv'
  <2>1. SUFFICES ASSUME NEW i \in Ids, NEW j \in Ids, Exists(i)', Exists(j)',
                        catalog'[i].ref = catalog'[j].ref, catalog'[i].ref # NoRef
                 PROVE  i = j
    BY DEF RefsInv
  <2>2. ASSUME NEW k \in Ids \ {p}, Exists(k), catalog[k].ref = row.ref, row.ref # NoRef,
               row.status \in Listed
        PROVE  FALSE
    BY <2>2 DEF RefsInv, WithRef
  <2>3. \A k \in Ids \ {p}: Exists(k)' => Exists(k)
    BY <1>1 DEF Exists
  <2> QED BY <1>1, <2>1, <2>2, <2>3 DEF RefsInv, Exists
<1> QED BY <1>2, <1>3, <1>4, <1>5

LEMMA StepRequests ==
    ASSUME StockInv, NEW r \in Requests, Arrive(r)
    PROVE  StockInv'
<1> USE DEF StockInv
<1>r. IsRequest(Rest) /\ Rest.pc = "idle"
  BY DEF IsRequest, Fields, Rest
<1>1. ASSUME NEW next, IsRequest(next), Begin(r, next), UNCHANGED catalog,
             next.pc = "set" => next.data.status \in Listed, next.pc # "delete"
      PROVE  StockInv'
  <2>1. /\ req' = [q \in Requests |-> req'[q]] /\ \A q \in Requests: IsRequest(req'[q])
        /\ req'[r] = [next EXCEPT !.alone = (InFlight = {})]
        /\ \A q \in Requests \ {r}: req'[q] = [req[q] EXCEPT !.alone = FALSE]
        /\ UNCHANGED <<visits, booking, raced>>
    BY <1>1, BeginOf
  <2>2. req'[r].pc = next.pc /\ req'[r].data = next.data
    BY <1>1, <2>1 DEF IsRequest, Fields
  <2>3. \A q \in Requests \ {r}: req'[q].pc = req[q].pc /\ req'[q].data = req[q].data /\ req'[q].id = req[q].id
    BY <2>1 DEF IsRequest, Fields, Shape
  <2> QED BY <1>1, <2>1, <2>2, <2>3, SameStock DEF Shape
<1>2. ASSUME NEW p \in Ids, NEW next, IsRequest(next), Found(r, p, next),
             next.pc = "set" => next.data.status \in Listed, next.pc # "delete"
      PROVE  StockInv'
  <2>1. IsRequest([next EXCEPT !.id = p]) /\ IsRequest([Rest EXCEPT !.reply = "404"])
    BY <1>2, <1>r DEF IsRequest, Fields
  <2>2. /\ [next EXCEPT !.id = p].pc = next.pc /\ [next EXCEPT !.id = p].data = next.data
        /\ [Rest EXCEPT !.reply = "404"].pc = "idle"
    BY <1>2 DEF IsRequest, Fields, Rest
  <2> QED BY <1>1, <1>2, <2>1, <2>2 DEF Found
<1>3. CASE Create(r)
  <2>1. PICK new \in NewRows, p \in Ids:
           /\ Fresh(p)
           /\ IF WithRef(new.ref) # {}
              THEN Begin(r, [Rest EXCEPT !.reply = "409"]) /\ UNCHANGED catalog
              ELSE /\ Begin(r, [Rest EXCEPT !.reply = "ok"])
                   /\ catalog' = [catalog EXCEPT ![p] =
                         [status |-> "ACTIVE", row |-> Merged(new.row, Defaults), ref |-> new.ref,
                          photos |-> Rows(r, new.photos)]]
    BY <1>3 DEF Create
  <2>2. \A a \in {"409", "ok"}: IsRequest([Rest EXCEPT !.reply = a]) /\ [Rest EXCEPT !.reply = a].pc = "idle"
    BY <1>r DEF IsRequest, Fields
  <2>3. CASE WithRef(new.ref) # {}
    BY <1>1, <2>1, <2>2, <2>3
  <2>4. CASE WithRef(new.ref) = {}
    <3> DEFINE row == [status |-> "ACTIVE", row |-> Merged(new.row, Defaults), ref |-> new.ref,
                       photos |-> Rows(r, new.photos)]
    <3>1. Begin(r, [Rest EXCEPT !.reply = "ok"]) /\ catalog' = [catalog EXCEPT ![p] = row]
      BY <2>1, <2>4
    <3>2. IsProperty(row) /\ row.status = "ACTIVE" /\ WithRef(row.ref) = {}
      BY <2>4 DEF IsProperty
    <3>3. /\ req' = [q \in Requests |-> req'[q]] /\ \A q \in Requests: IsRequest(req'[q])
          /\ req'[r] = [[Rest EXCEPT !.reply = "ok"] EXCEPT !.alone = (InFlight = {})]
          /\ \A q \in Requests \ {r}: req'[q] = [req[q] EXCEPT !.alone = FALSE]
          /\ UNCHANGED <<visits, booking, raced>>
      BY <2>2, <3>1, BeginOf
    <3>4. req'[r].pc = "idle"
      BY <1>r, <3>3 DEF IsRequest, Fields
    <3>5. \A q \in Requests \ {r}: /\ req'[q].pc = req[q].pc
                                   /\ req'[q].data = req[q].data /\ req'[q].id = req[q].id
      BY <3>3 DEF IsRequest, Fields, Shape
    <3> HIDE DEF row
    <3> QED BY <3>1, <3>2, <3>3, <3>4, <3>5, OneProperty
  <2> QED BY <2>3, <2>4
<1>4. CASE BeginUpdate(r)
  <2>1. ASSUME NEW data
        PROVE  LET next == [Rest EXCEPT !.kind = "update", !.data = data, !.pc = "write"]
               IN IsRequest(next) /\ next.pc = "write"
    BY <1>r DEF IsRequest, Fields
  <2>2. ASSUME NEW data, NEW urls
        PROVE  LET next == [Rest EXCEPT !.kind = "gallery", !.data = data, !.photos = urls, !.pc = "photos"]
               IN IsRequest(next) /\ next.pc = "photos"
    BY <1>r DEF IsRequest, Fields
  <2> QED BY <1>2, <1>4, <2>1, <2>2 DEF BeginUpdate
<1>5. CASE BeginStatus(r)
  <2>1. ASSUME NEW s
        PROVE  LET next == [Rest EXCEPT !.kind = "status", !.data = [status |-> s], !.pc = "set"]
               IN IsRequest(next) /\ next.pc = "set" /\ next.data.status = s
    BY <1>r DEF IsRequest, Fields
  <2> QED BY <1>2, <1>5, <2>1 DEF BeginStatus
<1>6. CASE BeginRemove(r)
  <2>1. LET next == [Rest EXCEPT !.kind = "remove", !.pc = "look"]
        IN IsRequest(next) /\ next.pc = "look"
    BY <1>r DEF IsRequest, Fields
  <2> QED BY <1>2, <1>6, <2>1 DEF BeginRemove
<1>7. CASE BeginImport(r)
  <2>1. ASSUME NEW f
        PROVE  LET next == [Rest EXCEPT !.kind = "import", !.file = f, !.pc = "row"]
               IN IsRequest(next) /\ next.pc = "row"
    BY <1>r DEF IsRequest, Fields
  <2> QED BY <1>1, <1>7, <2>1 DEF BeginImport
<1> QED BY <1>3, <1>4, <1>5, <1>6, <1>7 DEF Arrive

\* Going on, answering, and the next row of an import.
LEMMA GoesOn ==
    ASSUME Shape, NEW r \in Requests
    PROVE  /\ \A pc: Goto(r, pc) => /\ req' = [q \in Requests |-> req'[q]]
                                    /\ \A q \in Requests: IsRequest(req'[q])
                                    /\ \A q \in Requests \ {r}: req'[q] = req[q]
                                    /\ req'[r] = [req[r] EXCEPT !.pc = pc]
                                    /\ req'[r].pc = pc /\ req'[r].id = req[r].id
           /\ \A answer: Reply(r, answer) => /\ req' = [q \in Requests |-> req'[q]]
                                             /\ \A q \in Requests: IsRequest(req'[q])
                                             /\ \A q \in Requests \ {r}: req'[q] = req[q]
                                             /\ req'[r] = [req[r] EXCEPT !.pc = "idle", !.mine = {},
                                                                         !.reply = answer]
                                             /\ req'[r].pc = "idle"
           /\ \A errors: NextRow(r, errors) => /\ req' = [q \in Requests |-> req'[q]]
                                               /\ \A q \in Requests: IsRequest(req'[q])
                                               /\ \A q \in Requests \ {r}: req'[q] = req[q]
                                               /\ req'[r] = [req[r] EXCEPT !.pc = "row", !.next = @ + 1,
                                                                           !.errors = @ + errors]
                                               /\ req'[r].pc = "row"
<1>0. IsRequest(req[r])
  BY DEF Shape
<1>1. ASSUME NEW pc
      PROVE  LET x == [req[r] EXCEPT !.pc = pc] IN IsRequest(x) /\ x.pc = pc /\ x.id = req[r].id
  BY <1>0 DEF IsRequest, Fields
<1>2. ASSUME NEW answer
      PROVE  LET x == [req[r] EXCEPT !.pc = "idle", !.mine = {}, !.reply = answer]
             IN IsRequest(x) /\ x.pc = "idle"
  BY <1>0 DEF IsRequest, Fields
<1>3. ASSUME NEW errors
      PROVE  LET x == [req[r] EXCEPT !.pc = "row", !.next = @ + 1, !.errors = @ + errors]
             IN IsRequest(x) /\ x.pc = "row"
  BY <1>0 DEF IsRequest, Fields
<1>4. ASSUME NEW pc, Goto(r, pc)
      PROVE  /\ req' = [q \in Requests |-> req'[q]]
             /\ \A q \in Requests: IsRequest(req'[q])
             /\ \A q \in Requests \ {r}: req'[q] = req[q]
             /\ req'[r] = [req[r] EXCEPT !.pc = pc]
  BY <1>1, <1>4, StepOf DEF Goto
<1>5. ASSUME NEW answer, Reply(r, answer)
      PROVE  /\ req' = [q \in Requests |-> req'[q]]
             /\ \A q \in Requests: IsRequest(req'[q])
             /\ \A q \in Requests \ {r}: req'[q] = req[q]
             /\ req'[r] = [req[r] EXCEPT !.pc = "idle", !.mine = {}, !.reply = answer]
  BY <1>2, <1>5, StepOf DEF Reply
<1>6. ASSUME NEW errors, NextRow(r, errors)
      PROVE  /\ req' = [q \in Requests |-> req'[q]]
             /\ \A q \in Requests: IsRequest(req'[q])
             /\ \A q \in Requests \ {r}: req'[q] = req[q]
             /\ req'[r] = [req[r] EXCEPT !.pc = "row", !.next = @ + 1, !.errors = @ + errors]
  BY <1>3, <1>6, StepOf DEF NextRow
<1>7. ASSUME NEW pc, Goto(r, pc) PROVE req'[r].pc = pc /\ req'[r].id = req[r].id
  BY <1>1, <1>4, <1>7
<1>8. ASSUME NEW answer, Reply(r, answer) PROVE req'[r].pc = "idle"
  BY <1>2, <1>5, <1>8
<1>9. ASSUME NEW errors, NextRow(r, errors) PROVE req'[r].pc = "row"
  BY <1>3, <1>6, <1>9
<1> QED BY <1>4, <1>5, <1>6, <1>7, <1>8, <1>9

LEMMA StepHandles ==
    ASSUME StockInv, NEW r \in Requests, Handle(r)
    PROVE  StockInv'
<1>s. Shape
  BY DEF StockInv
<1>r. IsRequest(req[r])
  BY <1>s DEF Shape
\* A request goes on, and the stock stays.
<1>1. ASSUME NEW q \in Requests, UNCHANGED catalog, Others,
             \/ \E answer: Reply(q, answer)
             \/ \E errors: NextRow(q, errors)
             \/ \E pc \in {"look", "row"}: Goto(q, pc)
             \/ Goto(q, "delete") /\ req[q].id \notin visits
             \/ \E next: Step(q, next) /\ IsRequest(next) /\ next.pc \in {"wait", "write", "row", "upsert"}
      PROVE  StockInv'
  <2>1. /\ req' = [i \in Requests |-> req'[i]] /\ \A i \in Requests: IsRequest(req'[i])
        /\ \A i \in Requests \ {q}: req'[i] = req[i]
        /\ req'[q].pc \notin {"set", "delete"} \/ (req'[q].pc = "delete" /\ req'[q].id \notin visits)
    <3>1. CASE \E answer: Reply(q, answer)
      BY <1>s, <3>1, GoesOn
    <3>2. CASE \E errors: NextRow(q, errors)
      BY <1>s, <3>2, GoesOn
    <3>3. CASE \E pc \in {"look", "row"}: Goto(q, pc)
      BY <1>s, <3>3, GoesOn
    <3>4. CASE Goto(q, "delete") /\ req[q].id \notin visits
      BY <1>s, <3>4, GoesOn
    <3>5. CASE \E next: Step(q, next) /\ IsRequest(next) /\ next.pc \in {"wait", "write", "row", "upsert"}
      BY <1>s, <3>5, StepOf
    <3> QED BY <1>1, <3>1, <3>2, <3>3, <3>4, <3>5
  <2>2. UNCHANGED <<catalog, visits, booking, raced>>
    BY <1>1 DEF Others
  <2> QED BY <1>s, <2>1, <2>2, SameStock DEF StockInv, Shape
\* A request writes one property, and is over or at its next row.
<1>2. ASSUME NEW p \in Ids, NEW row, catalog' = [catalog EXCEPT ![p] = row], IsProperty(row), Others,
             Reply(r, "ok") \/ NextRow(r, 0),
             row.status = "deleted" /\ p \in visits => p \in raced,
             row.status \in Listed => \/ Exists(p) /\ row.ref = catalog[p].ref
                                      \/ WithRef(row.ref) = {}
      PROVE  StockInv'
  <2>1. /\ req' = [i \in Requests |-> req'[i]] /\ \A i \in Requests: IsRequest(req'[i])
        /\ \A i \in Requests \ {r}: req'[i] = req[i]
        /\ req'[r].pc \notin {"set", "delete"}
    BY <1>s, <1>2, GoesOn
  <2>2. UNCHANGED <<visits, booking, raced>>
    BY <1>2 DEF Others
  <2> QED BY <1>2, <2>1, <2>2, OneProperty
<1>3. CASE DeletePhotos(r)
  <2>1. ASSUME NEW mine
        PROVE  LET next == [req[r] EXCEPT !.pc = "wait", !.mine = mine]
               IN IsRequest(next) /\ next.pc = "wait"
    BY <1>r DEF IsRequest, Fields
  <2> QED BY <1>1, <1>3, <2>1 DEF DeletePhotos
<1>4. CASE PhotosDeleted(r)
  <2>1. ASSUME NEW mine
        PROVE  LET next == [req[r] EXCEPT !.pc = "write", !.mine = mine]
               IN IsRequest(next) /\ next.pc = "write"
    BY <1>r DEF IsRequest, Fields
  <2>2. Step(r, [req[r] EXCEPT !.pc = "write", !.mine = req[r].mine \cap catalog[req[r].id].photos])
    BY <1>4 DEF PhotosDeleted
  <2>3. UNCHANGED catalog /\ Others
    BY <1>4 DEF PhotosDeleted
  <2> QED BY <1>1, <2>1, <2>2, <2>3
<1>5. CASE CommitUpdate(r)
  <2> DEFINE p == req[r].id
             photos == IF req[r].kind = "gallery"
                       THEN (catalog[p].photos \ req[r].mine) \cup Rows(r, req[r].photos)
                       ELSE catalog[p].photos
             row == Merged(req[r].data, catalog[p].row)
             after == [catalog EXCEPT ![p].row = row, ![p].photos = photos]
  <2>1. Unless(~Exists(p), r, "500", after) /\ Others
    BY <1>5 DEF CommitUpdate
  <2> HIDE DEF photos, row
  <2>2. CASE ~Exists(p)
    BY <1>1, <2>1, <2>2 DEF Unless
  <2>3. CASE Exists(p)
    <3>1. Reply(r, "ok") /\ catalog' = after
      BY <2>1, <2>3 DEF Unless
    <3>2. CASE p \in Ids
      <4>1. after = [catalog EXCEPT ![p] = [catalog[p] EXCEPT !.row = row, !.photos = photos]]
        BY <1>s, <3>2 DEF Shape
      <4>2. catalog[p].status # "deleted"
        BY <2>3 DEF Exists, Listed
      <4>3. LET x == [catalog[p] EXCEPT !.row = row, !.photos = photos]
            IN IsProperty(x) /\ x.status = catalog[p].status /\ x.ref = catalog[p].ref
        BY <1>s, <3>2 DEF Shape, IsProperty
      <4> HIDE DEF p
      <4> QED BY <1>2, <2>1, <2>3, <3>1, <3>2, <4>1, <4>2, <4>3
    <3>3. CASE p \notin Ids
      <4>1. after = catalog
        BY <1>s, <3>3 DEF Shape
      <4> QED BY <1>1, <2>1, <3>1, <4>1
    <3> QED BY <3>2, <3>3
  <2> QED BY <2>2, <2>3
<1>6. CASE CommitStatus(r)
  <2> DEFINE p == req[r].id
             after == [catalog EXCEPT ![p].status = req[r].data.status]
  <2>1. Unless(~Exists(p), r, "500", after) /\ Others /\ req[r].data.status \in Listed
    BY <1>s, <1>6 DEF CommitStatus, Shape
  <2>2. CASE ~Exists(p)
    BY <1>1, <2>1, <2>2 DEF Unless
  <2>3. CASE Exists(p)
    <3>1. Reply(r, "ok") /\ catalog' = after
      BY <2>1, <2>3 DEF Unless
    <3>2. CASE p \in Ids
      <4>1. after = [catalog EXCEPT ![p] = [catalog[p] EXCEPT !.status = req[r].data.status]]
        BY <1>s, <3>2 DEF Shape
      <4>2. LET x == [catalog[p] EXCEPT !.status = req[r].data.status]
            IN IsProperty(x) /\ x.status = req[r].data.status /\ x.ref = catalog[p].ref
        BY <1>s, <3>2 DEF Shape, IsProperty
      <4>3. req[r].data.status # "deleted"
        BY <2>1 DEF Listed
      <4> QED BY <1>2, <2>1, <2>3, <3>1, <3>2, <4>1, <4>2, <4>3
    <3>3. CASE p \notin Ids
      <4>1. after = catalog
        BY <1>s, <3>3 DEF Shape
      <4> QED BY <1>1, <2>1, <3>1, <4>1
    <3> QED BY <3>2, <3>3
  <2> QED BY <2>2, <2>3
<1>7. CASE LookForVisits(r)
  BY <1>1, <1>7 DEF LookForVisits
<1>8. CASE Delete(r)
  <2> DEFINE p == req[r].id
             after == [catalog EXCEPT ![p] = [Blank EXCEPT !.status = "deleted"]]
  <2>1. Unless(~Exists(p), r, "500", after) /\ Others /\ req[r].pc = "delete"
    BY <1>8 DEF Delete
  <2>2. CASE ~Exists(p)
    BY <1>1, <2>1, <2>2 DEF Unless
  <2>3. CASE Exists(p)
    <3>1. Reply(r, "ok") /\ catalog' = after
      BY <2>1, <2>3 DEF Unless
    <3>2. CASE p \in Ids
      <4>1. LET x == [Blank EXCEPT !.status = "deleted"] IN IsProperty(x) /\ x.status = "deleted"
        BY DEF Blank, IsProperty
      <4>2. p \in visits => p \in raced
        BY <2>1 DEF StockInv, RemovalInv
      <4> QED BY <1>2, <2>1, <3>1, <3>2, <4>1, <4>2 DEF Listed
    <3>3. CASE p \notin Ids
      <4>1. after = catalog
        BY <1>s, <3>3 DEF Shape
      <4> QED BY <1>1, <2>1, <3>1, <4>1
    <3> QED BY <3>2, <3>3
  <2> QED BY <2>2, <2>3
<1>9. CASE Deadlock(r)
  <2>1. UNCHANGED catalog /\ Others
    BY <1>9 DEF Deadlock
  <2>2. PICK q \in Holders(r, req[r].id):
           \/ Reply(q, "500")
           \/ Reply(r, "500")
           \/ Step(r, [req[r] EXCEPT !.pc = "row", !.next = req[r].next + 1, !.errors = req[r].errors + 1])
    BY <1>9 DEF Deadlock
  <2>3. q \in Requests
    BY DEF Holders
  <2> QED BY <1>1, <2>1, <2>2, <2>3 DEF NextRow
<1>10. CASE LookUpRow(r)
  <2>1. UNCHANGED catalog /\ Others
    BY <1>10 DEF LookUpRow
  <2>2. ASSUME NEW id
        PROVE  LET next == [req[r] EXCEPT !.pc = "upsert", !.id = id]
               IN IsRequest(next) /\ next.pc = "upsert"
    BY <1>r DEF IsRequest, Fields
  <2>3. \/ Reply(r, "ok") \/ NextRow(r, 1)
        \/ \E id: Step(r, [req[r] EXCEPT !.pc = "upsert", !.id = id])
    BY <1>10 DEF LookUpRow
  <2> QED BY <1>1, <2>1, <2>2, <2>3
<1>11. CASE UpsertRow(r)
  <2> DEFINE record == req[r].file[req[r].next]
             p == req[r].id
  <2>1. Others
    BY <1>11 DEF UpsertRow
  <2>2. CASE p # NoId /\ Exists(p)
    <3>1. NextRow(r, 0) /\ catalog' = [catalog EXCEPT ![p] = Imported(catalog[p], record, r)]
      BY <1>11, <2>2 DEF UpsertRow
    <3>2. CASE p \in Ids
      <4>1. LET x == Imported(catalog[p], record, r)
            IN IsProperty(x) /\ x.status = catalog[p].status /\ x.ref = catalog[p].ref
        BY <1>s, <3>2 DEF Shape, IsProperty, Imported
      <4>2. catalog[p].status # "deleted"
        BY <2>2 DEF Exists, Listed
      <4> QED BY <1>2, <2>1, <2>2, <3>1, <3>2, <4>1, <4>2
    <3>3. CASE p \notin Ids
      <4>1. catalog' = catalog
        BY <1>s, <3>1, <3>3 DEF Shape
      <4> QED BY <1>1, <2>1, <3>1, <4>1
    <3> QED BY <3>2, <3>3
  <2>3. CASE ~(p # NoId /\ Exists(p)) /\ (p # NoId \/ WithRef(record.ref) # {})
    <3>1. NextRow(r, 1) /\ UNCHANGED catalog
      BY <1>11, <2>3 DEF UpsertRow
    <3> QED BY <1>1, <2>1, <3>1
  <2>4. CASE p = NoId /\ WithRef(record.ref) = {}
    <3>1. PICK new \in Ids:
             /\ NextRow(r, 0)
             /\ catalog' = [catalog EXCEPT ![new] =
                   [status |-> "ACTIVE", row |-> Merged(record.cells, Defaults),
                    ref |-> record.ref, photos |-> Rows(r, record.photos)]]
      BY <1>11, <2>4 DEF UpsertRow
    <3> DEFINE x == [status |-> "ACTIVE", row |-> Merged(record.cells, Defaults),
                     ref |-> record.ref, photos |-> Rows(r, record.photos)]
    <3>2. IsProperty(x) /\ x.status = "ACTIVE" /\ x.ref = record.ref
      BY DEF IsProperty
    <3> HIDE DEF x
    <3> QED BY <1>2, <2>1, <2>4, <3>1, <3>2 DEF x
  <2> QED BY <2>2, <2>3, <2>4
<1> QED BY <1>3, <1>4, <1>5, <1>6, <1>7, <1>8, <1>9, <1>10, <1>11 DEF Handle

LEMMA StepStock == StockInv /\ [Next]_vars => StockInv'
<1> SUFFICES ASSUME StockInv, [Next]_vars PROVE StockInv'
  OBVIOUS
<1>1. ASSUME NEW r \in Requests, Arrive(r) \/ Handle(r) PROVE StockInv'
  BY <1>1, StepRequests, StepHandles
<1>2. CASE Resolve \/ UNCHANGED vars
  BY <1>2, SameStock DEF Resolve, vars, StockInv, Shape
<1>3. CASE Book
  <2>1. /\ visits' = visits \cup {booking} /\ UNCHANGED <<catalog, req>>
        /\ raced' = IF ~Exists(booking) \/ \E r \in Requests: req[r].pc = "delete" /\ req[r].id = booking
                    THEN raced \cup {booking} ELSE raced
    BY <1>3 DEF Book
  <2>2. catalog[booking].status = "deleted" => ~Exists(booking)
    BY DEF Exists, Listed
  <2>3. booking \in Ids /\ booking' = NoId
    BY <1>3 DEF Book, StockInv, Shape
  <2>4. Shape' /\ RefsInv'
    BY <2>1, <2>3 DEF StockInv, Shape, RefsInv, Exists
  <2>5. RemovalInv'
    BY <2>1 DEF StockInv, RemovalInv
  <2>6. VisitsKeepTheirProperty'
    BY <2>1, <2>2 DEF StockInv, VisitsKeepTheirProperty
  <2> QED BY <2>4, <2>5, <2>6 DEF StockInv
<1>4. CASE ServerDies
  <2>1. IsRequest(Rest) /\ Rest.pc = "idle"
    BY DEF Rest, IsRequest, Fields
  <2>2. /\ req' = [r \in Requests |-> IF r \in InFlight THEN Rest ELSE req[r]]
        /\ UNCHANGED <<catalog, visits, booking, raced>>
    BY <1>4 DEF ServerDies
  <2>3. \A q \in Requests: /\ IsRequest(req'[q])
                           /\ req'[q].pc = "set" => req'[q].data.status \in Listed
                           /\ req'[q].pc = "delete" => req[q].pc = "delete" /\ req'[q].id = req[q].id
    BY <2>1, <2>2 DEF StockInv, Shape
  <2> QED BY <2>2, <2>3, SameStock DEF StockInv, Shape
<1> QED BY <1>1, <1>2, <1>3, <1>4 DEF Next

LEMMA AlwaysStock == Spec => []StockInv
<1> QED BY InitStock, StepStock, PTL DEF Spec

(* VisitsKeepTheirProperty: whatever requests overlap, a property with a   *)
(* visit is deleted only when the visit was booked after the removal had   *)
(* looked for visits.                                                      *)
THEOREM PropertyOutlivesVisits == Spec => []VisitsKeepTheirProperty
<1>1. StockInv => VisitsKeepTheirProperty
  BY DEF StockInv
<1> QED BY <1>1, AlwaysStock, PTL

-----------------------------------------------------------------------------
(* The import.                                                             *)

\* The rows up to n that nothing later, up to n, replaces; and those refused.
LastGood(file, n) ==
    {i \in DOMAIN file: /\ i <= n /\ Parses(file[i])
                        /\ \A k \in DOMAIN file: k > i /\ k <= n /\ Parses(file[k])
                                                 => file[k].ref # file[i].ref}
Refused(file, n) == {i \in DOMAIN file: i <= n /\ ~Parses(file[i])}

\* The record is on one property, with its cells.
Placed(record) ==
    \E p \in Ids: /\ WithRef(record.ref) = {p}
                  /\ \A c \in DOMAIN record.cells: catalog[p].row[c] = record.cells[c]

\* What an import that is alone has done of its first n rows.
DoneUpTo(file, n, errors) ==
    /\ \A i \in LastGood(file, n): Placed(file[i])
    /\ errors = Cardinality(Refused(file, n))

(* An import that nobody has met: what it has done so far is there, and    *)
(* what it looked up still holds.                                          *)
Progress(r) ==
    LET file == req[r].file
        n == req[r].next
    IN /\ \A q \in Requests \ {r}: req[q].pc = "idle"
       /\ file \in Files /\ n \in Nat \ {0}
       /\ req[r].pc \in {"idle", "row", "upsert"}
       /\ req[r].pc \in {"row", "upsert"} => /\ req[r].reply # "ok" /\ n <= Len(file) + 1
                                             /\ DoneUpTo(file, n - 1, req[r].errors)
       /\ req[r].pc = "upsert" =>
             /\ n <= Len(file) /\ Parses(file[n])
             /\ IF req[r].id = NoId THEN WithRef(file[n].ref) = {}
                ELSE WithRef(file[n].ref) = {req[r].id}
       /\ req[r].pc = "idle" => DoneUpTo(file, Len(file), req[r].errors)

ImportInv == \A r \in Requests: req[r].kind = "import" /\ req[r].alone => Progress(r)

LEMMA FileDomain ==
    ASSUME NEW file \in Files
    PROVE  Len(file) \in Nat /\ DOMAIN file = 1 .. Len(file)
<1>1. file \in Seq(ToSet(file))
  BY CatalogAssumption
<1> QED BY <1>1

LEMMA RefusedFinite ==
    ASSUME NEW file \in Files, NEW n \in Nat
    PROVE  /\ IsFiniteSet(Refused(file, n)) /\ Cardinality(Refused(file, n)) \in Nat
           /\ n + 1 \in DOMAIN file =>
                 /\ Parses(file[n + 1]) => Refused(file, n + 1) = Refused(file, n)
                 /\ ~Parses(file[n + 1]) =>
                       Cardinality(Refused(file, n + 1)) = Cardinality(Refused(file, n)) + 1
<1>1. Len(file) \in Nat /\ DOMAIN file = 1 .. Len(file)
  BY FileDomain
<1>2. IsFiniteSet(1 .. Len(file)) /\ Refused(file, n) \subseteq 1 .. Len(file)
  BY <1>1, FS_Interval DEF Refused
<1>3. IsFiniteSet(Refused(file, n)) /\ Cardinality(Refused(file, n)) \in Nat
  BY <1>2, FS_Subset, FS_CardinalityType
<1>4. ASSUME n + 1 \in DOMAIN file, Parses(file[n + 1]) PROVE Refused(file, n + 1) = Refused(file, n)
  <2>1. \A i \in DOMAIN file: i <= n + 1 /\ ~Parses(file[i]) <=> i <= n /\ ~Parses(file[i])
    BY <1>1, <1>4
  <2> QED BY <2>1 DEF Refused
<1>5. ASSUME n + 1 \in DOMAIN file, ~Parses(file[n + 1])
      PROVE  Cardinality(Refused(file, n + 1)) = Cardinality(Refused(file, n)) + 1
  <2>1. \A i \in DOMAIN file: i <= n + 1 /\ ~Parses(file[i]) <=> (i <= n /\ ~Parses(file[i])) \/ i = n + 1
    BY <1>1, <1>5
  <2>2. Refused(file, n + 1) = Refused(file, n) \cup {n + 1}
    BY <1>5, <2>1 DEF Refused
  <2>3. n + 1 \notin Refused(file, n)
    BY DEF Refused
  <2> QED BY <1>3, <2>2, <2>3, FS_AddElement
<1> QED BY <1>3, <1>4, <1>5

LEMMA RefusedNone == ASSUME NEW file \in Files PROVE LastGood(file, 0) = {} /\ Refused(file, 0) = {}
  BY FileDomain DEF LastGood, Refused

\* One row more: the rows that stay good are those it does not replace.
LEMMA LastGoodNext ==
    ASSUME NEW file \in Files, NEW n \in Nat, n + 1 \in DOMAIN file
    PROVE  /\ ~Parses(file[n + 1]) => LastGood(file, n + 1) = LastGood(file, n)
           /\ Parses(file[n + 1]) =>
                 \A i \in LastGood(file, n + 1): \/ i = n + 1
                                                 \/ i \in LastGood(file, n) /\ file[i].ref # file[n + 1].ref
<1>1. Len(file) \in Nat /\ DOMAIN file = 1 .. Len(file)
  BY FileDomain
<1> HIDE DEF Parses
<1>2. ASSUME ~Parses(file[n + 1]) PROVE LastGood(file, n + 1) = LastGood(file, n)
  <2>1. \A i \in DOMAIN file: i <= n + 1 /\ Parses(file[i]) <=> i <= n /\ Parses(file[i])
    BY <1>1, <1>2
  <2> QED BY <2>1 DEF LastGood
<1>3. ASSUME Parses(file[n + 1]), NEW i \in LastGood(file, n + 1), i # n + 1
      PROVE  i \in LastGood(file, n) /\ file[i].ref # file[n + 1].ref
  BY <1>1, <1>3 DEF LastGood
<1> QED BY <1>2, <1>3

-----------------------------------------------------------------------------
\* Nobody else is at work: what the import has done stays done.
LEMMA SameImports ==
    ASSUME ImportInv, UNCHANGED catalog,
           \A r \in Requests: req'[r].kind = "import" /\ req'[r].alone =>
              /\ req'[r] = req[r]
              /\ \A q \in Requests \ {r}: req[q].pc = "idle" => req'[q].pc = "idle"
    PROVE  ImportInv'
<1> SUFFICES ASSUME NEW r \in Requests, req'[r].kind = "import", req'[r].alone
             PROVE  Progress(r)'
  BY DEF ImportInv
<1>1. req'[r] = req[r] /\ Progress(r)
  BY DEF ImportInv
<1>2. \A record: Placed(record)' = Placed(record) /\ \A ref: WithRef(ref)' = WithRef(ref)
  BY DEF Placed, WithRef, Exists
<1>3. \A file, n, errors: DoneUpTo(file, n, errors)' = DoneUpTo(file, n, errors)
  BY <1>2 DEF DoneUpTo
<1>4. \A q \in Requests \ {r}: req'[q].pc = "idle"
  BY <1>1 DEF Progress
<1> HIDE DEF ImportInv
<1> QED BY <1>1, <1>2, <1>3, <1>4 DEF Progress

LEMMA HandleKeeps ==
    ASSUME Shape, NEW r \in Requests, Handle(r)
    PROVE  /\ req[r].pc # "idle"
           /\ \A q \in Requests: req'[q].kind = req[q].kind /\ req'[q].alone = req[q].alone
<1>1. req[r].pc # "idle"
  BY DEF Handle, DeletePhotos, PhotosDeleted, CommitUpdate, CommitStatus, LookForVisits, Delete, Deadlock,
         LookUpRow, UpsertRow
<1>2. ASSUME NEW q \in Requests, NEW next, Step(q, next), IsRequest(next),
             next.kind = req[q].kind, next.alone = req[q].alone
      PROVE  \A i \in Requests: req'[i].kind = req[i].kind /\ req'[i].alone = req[i].alone
  BY <1>2, StepOf
<1>3. ASSUME NEW q \in Requests, \/ \E answer: Reply(q, answer)
                                 \/ \E errors: NextRow(q, errors)
                                 \/ \E pc: Goto(q, pc)
                                 \/ \E pc, mine: Step(q, [req[q] EXCEPT !.pc = pc, !.mine = mine])
                                 \/ \E id: Step(q, [req[q] EXCEPT !.pc = "upsert", !.id = id])
      PROVE  \A i \in Requests: req'[i].kind = req[i].kind /\ req'[i].alone = req[i].alone
  <2>0. IsRequest(req[q])
    BY DEF Shape
  <2>1. ASSUME NEW answer, Reply(q, answer)
        PROVE  \A i \in Requests: req'[i].kind = req[i].kind /\ req'[i].alone = req[i].alone
    <3>1. LET x == [req[q] EXCEPT !.pc = "idle", !.mine = {}, !.reply = answer]
          IN IsRequest(x) /\ x.kind = req[q].kind /\ x.alone = req[q].alone
      BY <2>0 DEF IsRequest, Fields
    <3> QED BY <1>2, <2>1, <3>1 DEF Reply
  <2>2. ASSUME NEW errors, NextRow(q, errors)
        PROVE  \A i \in Requests: req'[i].kind = req[i].kind /\ req'[i].alone = req[i].alone
    <3>1. LET x == [req[q] EXCEPT !.pc = "row", !.next = @ + 1, !.errors = @ + errors]
          IN IsRequest(x) /\ x.kind = req[q].kind /\ x.alone = req[q].alone
      BY <2>0 DEF IsRequest, Fields
    <3> QED BY <1>2, <2>2, <3>1 DEF NextRow
  <2>3. ASSUME NEW pc, Goto(q, pc)
        PROVE  \A i \in Requests: req'[i].kind = req[i].kind /\ req'[i].alone = req[i].alone
    <3>1. LET x == [req[q] EXCEPT !.pc = pc]
          IN IsRequest(x) /\ x.kind = req[q].kind /\ x.alone = req[q].alone
      BY <2>0 DEF IsRequest, Fields
    <3> QED BY <1>2, <2>3, <3>1 DEF Goto
  <2>4. ASSUME NEW pc, NEW mine, Step(q, [req[q] EXCEPT !.pc = pc, !.mine = mine])
        PROVE  \A i \in Requests: req'[i].kind = req[i].kind /\ req'[i].alone = req[i].alone
    <3>1. LET x == [req[q] EXCEPT !.pc = pc, !.mine = mine]
          IN IsRequest(x) /\ x.kind = req[q].kind /\ x.alone = req[q].alone
      BY <2>0 DEF IsRequest, Fields
    <3> QED BY <1>2, <2>4, <3>1
  <2>5. ASSUME NEW id, Step(q, [req[q] EXCEPT !.pc = "upsert", !.id = id])
        PROVE  \A i \in Requests: req'[i].kind = req[i].kind /\ req'[i].alone = req[i].alone
    <3>1. LET x == [req[q] EXCEPT !.pc = "upsert", !.id = id]
          IN IsRequest(x) /\ x.kind = req[q].kind /\ x.alone = req[q].alone
      BY <2>0 DEF IsRequest, Fields
    <3> QED BY <1>2, <2>5, <3>1
  <2> QED BY <1>3, <2>1, <2>2, <2>3, <2>4, <2>5
<1>4. ASSUME DeletePhotos(r) \/ PhotosDeleted(r)
      PROVE  \E pc, mine: Step(r, [req[r] EXCEPT !.pc = pc, !.mine = mine])
  <2>1. CASE DeletePhotos(r)
    BY <2>1 DEF DeletePhotos
  <2>2. CASE PhotosDeleted(r)
    <3>1. Step(r, [req[r] EXCEPT !.pc = "write", !.mine = req[r].mine \cap catalog[req[r].id].photos])
      BY <2>2 DEF PhotosDeleted
    <3> QED BY <3>1
  <2> QED BY <1>4, <2>1, <2>2
<1>5. ASSUME CommitUpdate(r) \/ CommitStatus(r) \/ Delete(r) PROVE \E answer: Reply(r, answer)
  BY <1>5 DEF CommitUpdate, CommitStatus, Delete, Unless
<1>6. ASSUME LookForVisits(r) PROVE (\E answer: Reply(r, answer)) \/ (\E pc: Goto(r, pc))
  BY <1>6 DEF LookForVisits
<1>7. ASSUME LookUpRow(r)
      PROVE  \/ \E answer: Reply(r, answer)
             \/ \E errors: NextRow(r, errors)
             \/ \E id: Step(r, [req[r] EXCEPT !.pc = "upsert", !.id = id])
  BY <1>7 DEF LookUpRow
<1>8. ASSUME UpsertRow(r) PROVE \E errors: NextRow(r, errors)
  BY <1>8 DEF UpsertRow
<1>9. ASSUME Deadlock(r) PROVE \E q \in Requests: (\E answer: Reply(q, answer)) \/ (\E errors: NextRow(q, errors))
  <2>1. PICK q \in Holders(r, req[r].id):
           \/ Reply(q, "500")
           \/ Reply(r, "500")
           \/ Step(r, [req[r] EXCEPT !.pc = "row", !.next = req[r].next + 1, !.errors = req[r].errors + 1])
    BY <1>9 DEF Deadlock
  <2>2. q \in Requests
    BY DEF Holders
  <2> QED BY <2>1, <2>2 DEF NextRow
<1> QED BY <1>1, <1>3, <1>4, <1>5, <1>6, <1>7, <1>8, <1>9 DEF Handle

\* An import alone looks up its next row, refuses it, or ends.
LEMMA StepLookUp ==
    ASSUME StockInv, NEW r \in Requests, Progress(r), LookUpRow(r),
           \A q \in Requests \ {r}: req'[q] = req[q]
    PROVE  Progress(r)'
<1> DEFINE file == req[r].file
           n == req[r].next
           record == file[n]
<1>1. /\ req[r].pc = "row" /\ UNCHANGED catalog /\ Shape
      /\ req[r].reply # "ok"
      /\ file \in Files /\ n \in Nat \ {0} /\ n <= Len(file) + 1 /\ DoneUpTo(file, n - 1, req[r].errors)
      /\ Len(file) \in Nat /\ DOMAIN file = 1 .. Len(file)
      /\ \A q \in Requests \ {r}: req'[q].pc = "idle"
  BY FileDomain DEF LookUpRow, Progress, StockInv
<1>2. /\ \A ref: WithRef(ref)' = WithRef(ref)
      /\ \A f, m, errors: DoneUpTo(f, m, errors)' = DoneUpTo(f, m, errors)
  BY <1>1 DEF DoneUpTo, Placed, WithRef, Exists
<1>3. IsRequest(req[r])
  BY <1>1 DEF Shape
<1>4. CASE n > Len(file)
  <2>1. Reply(r, "ok") /\ n - 1 = Len(file)
    BY <1>1, <1>4 DEF LookUpRow
  <2>2. req'[r] = [req[r] EXCEPT !.pc = "idle", !.mine = {}, !.reply = "ok"]
    BY <1>1, <2>1, GoesOn
  <2>3. /\ req'[r].pc = "idle" /\ req'[r].file = file /\ req'[r].next = n
        /\ req'[r].errors = req[r].errors
    BY <1>3, <2>2 DEF IsRequest, Fields
  <2> HIDE DEF file, n
  <2> QED BY <1>1, <1>2, <2>1, <2>3 DEF Progress
<1>5. CASE n <= Len(file) /\ ~Parses(record)
  <2>1. NextRow(r, 1)
    BY <1>1, <1>5 DEF LookUpRow
  <2>2. req'[r] = [req[r] EXCEPT !.pc = "row", !.next = @ + 1, !.errors = @ + 1]
    BY <1>1, <2>1, GoesOn
  <2>3. /\ req'[r].pc = "row" /\ req'[r].file = file /\ req'[r].next = n + 1
        /\ req'[r].errors = req[r].errors + 1 /\ req'[r].reply = req[r].reply
    BY <1>3, <2>2 DEF IsRequest, Fields
  <2>4. n - 1 \in Nat /\ (n - 1) + 1 = n /\ n \in DOMAIN file /\ (n + 1) - 1 = n
    BY <1>1, <1>5
  <2>5. DoneUpTo(file, n, req[r].errors + 1)
    <3> HIDE DEF file, n
    <3>1. LastGood(file, n) = LastGood(file, n - 1)
      BY <1>1, <1>5, <2>4, LastGoodNext
    <3>2. Cardinality(Refused(file, n)) = Cardinality(Refused(file, n - 1)) + 1
      BY <1>1, <1>5, <2>4, RefusedFinite
    <3> QED BY <1>1, <3>1, <3>2 DEF DoneUpTo
  <2> HIDE DEF file, n
  <2> QED BY <1>1, <1>2, <1>5, <2>3, <2>4, <2>5 DEF Progress
<1>6. CASE n <= Len(file) /\ Parses(record)
  <2> DEFINE id == IF WithRef(record.ref) = {} THEN NoId ELSE CHOOSE p \in WithRef(record.ref): TRUE
  <2>1. Step(r, [req[r] EXCEPT !.pc = "upsert", !.id = id])
    BY <1>1, <1>6 DEF LookUpRow
  <2>2. IsRequest([req[r] EXCEPT !.pc = "upsert", !.id = id])
    BY <1>3 DEF IsRequest, Fields
  <2>3. req'[r] = [req[r] EXCEPT !.pc = "upsert", !.id = id]
    BY <1>1, <2>1, <2>2, StepOf
  <2>4. /\ req'[r].pc = "upsert" /\ req'[r].file = file /\ req'[r].next = n
        /\ req'[r].errors = req[r].errors /\ req'[r].id = id /\ req'[r].reply = req[r].reply
    BY <1>3, <2>3 DEF IsRequest, Fields
  <2>5. IF id = NoId THEN WithRef(record.ref) = {} ELSE WithRef(record.ref) = {id}
    <3>1. CASE WithRef(record.ref) = {}
      BY <3>1
    <3>2. CASE WithRef(record.ref) # {}
      <4>1. id \in WithRef(record.ref)
        BY <3>2
      <4>2. id \in Ids /\ id # NoId
        BY <4>1, CatalogAssumption DEF WithRef
      <4> HIDE DEF id
      <4>3. \A p \in WithRef(record.ref): p = id
        BY <4>1 DEF WithRef, StockInv, RefsInv
      <4> QED BY <4>1, <4>2, <4>3
    <3> QED BY <3>1, <3>2
  <2> HIDE DEF file, n, id
  <2> QED BY <1>1, <1>2, <1>6, <2>4, <2>5 DEF Progress
<1> QED BY <1>1, <1>4, <1>5, <1>6

\* A record is written on one property, which has its external ref or gets it.
LEMMA WriteRecord ==
    ASSUME Shape, NEW record, record.ref # NoRef, NEW w \in Ids, NEW x,
           catalog' = [catalog EXCEPT ![w] = x], x.status \in Listed, x.ref = record.ref,
           \A c \in DOMAIN record.cells: x.row[c] = record.cells[c],
           WithRef(record.ref) \subseteq {w}, Exists(w) => catalog[w].ref = record.ref
    PROVE  /\ Placed(record)'
           /\ \A other: Placed(other) /\ other.ref # record.ref => Placed(other)'
<1>1. catalog'[w] = x /\ \A q \in Ids \ {w}: catalog'[q] = catalog[q]
  BY DEF Shape
<1>2. WithRef(record.ref)' = {w}
  <2>1. \A q \in Ids: Exists(q)' /\ catalog'[q].ref = record.ref => q = w
    BY <1>1 DEF WithRef, Exists
  <2>2. Exists(w)' /\ catalog'[w].ref = record.ref
    BY <1>1 DEF Exists
  <2> QED BY <2>1, <2>2 DEF WithRef
<1>3. Placed(record)'
  BY <1>1, <1>2 DEF Placed
<1>4. ASSUME NEW other, Placed(other), other.ref # record.ref PROVE Placed(other)'
  <2>1. PICK q \in Ids: /\ WithRef(other.ref) = {q}
                        /\ \A c \in DOMAIN other.cells: catalog[q].row[c] = other.cells[c]
    BY <1>4 DEF Placed
  <2>2. q # w /\ Exists(q) /\ catalog[q].ref = other.ref /\ other.ref # NoRef
    BY <1>4, <2>1 DEF WithRef
  <2>3. \A i \in Ids: Exists(i)' /\ catalog'[i].ref = other.ref => i = q
    BY <1>1, <1>4, <2>1, <2>2 DEF WithRef, Exists
  <2>4. Exists(q)' /\ catalog'[q].ref = other.ref
    BY <1>1, <2>2 DEF Exists
  <2>5. WithRef(other.ref)' = {q}
    BY <2>2, <2>3, <2>4 DEF WithRef
  <2> QED BY <1>1, <2>1, <2>2, <2>5 DEF Placed
<1> QED BY <1>3, <1>4

\* It writes the row it has looked up.
LEMMA StepUpsert ==
    ASSUME StockInv, NEW r \in Requests, Progress(r), UpsertRow(r),
           \A q \in Requests \ {r}: req'[q] = req[q]
    PROVE  Progress(r)'
<1>0. PICK file, n, record, p: /\ file = req[r].file /\ n = req[r].next
                               /\ record = file[n] /\ p = req[r].id
  OBVIOUS
<1>1. /\ req[r].pc = "upsert" /\ Shape
      /\ req[r].reply # "ok"
      /\ file \in Files /\ n \in Nat \ {0} /\ n <= Len(file) /\ DoneUpTo(file, n - 1, req[r].errors)
      /\ Parses(record)
      /\ IF p = NoId THEN WithRef(record.ref) = {} ELSE WithRef(record.ref) = {p}
      /\ Len(file) \in Nat /\ DOMAIN file = 1 .. Len(file)
      /\ \A q \in Requests \ {r}: req'[q].pc = "idle"
  BY <1>0, FileDomain DEF UpsertRow, Progress, StockInv
<1>2. record.ref # NoRef
  BY <1>1 DEF Parses
<1>3. \E w \in Ids: \E x:
                       /\ NextRow(r, 0)
                       /\ catalog' = [catalog EXCEPT ![w] = x]
                       /\ x.status \in Listed /\ x.ref = record.ref
                       /\ \A c \in DOMAIN record.cells: x.row[c] = record.cells[c]
                       /\ WithRef(record.ref) \subseteq {w} /\ (Exists(w) => catalog[w].ref = record.ref)
  <2>1. CASE p = NoId
    <3>1. PICK new \in Ids:
             /\ Fresh(new) /\ NextRow(r, 0)
             /\ catalog' = [catalog EXCEPT ![new] =
                   [status |-> "ACTIVE", row |-> Merged(record.cells, Defaults),
                    ref |-> record.ref, photos |-> Rows(r, record.photos)]]
      BY <1>0, <1>1, <2>1 DEF UpsertRow
    <3> DEFINE x == [status |-> "ACTIVE", row |-> Merged(record.cells, Defaults),
                     ref |-> record.ref, photos |-> Rows(r, record.photos)]
    <3>2. x.status \in Listed /\ x.ref = record.ref /\ x.row = Merged(record.cells, Defaults)
      BY DEF Listed
    <3>3. \A c \in DOMAIN record.cells: x.row[c] = record.cells[c]
      BY <3>2 DEF Merged
    <3>4. ~Exists(new)
      BY <3>1 DEF Fresh, Exists, Listed
    <3>5. catalog' = [catalog EXCEPT ![new] = x]
      BY <3>1
    <3> HIDE DEF x
    <3> QED BY <1>1, <2>1, <3>1, <3>2, <3>3, <3>4, <3>5
  <2>2. CASE p # NoId
    <3>1. p \in Ids /\ Exists(p) /\ catalog[p].ref = record.ref
      BY <1>1, <2>2 DEF WithRef
    <3>2. NextRow(r, 0) /\ catalog' = [catalog EXCEPT ![p] = Imported(catalog[p], record, r)]
      BY <1>0, <2>2, <3>1 DEF UpsertRow
    <3> DEFINE x == Imported(catalog[p], record, r)
    <3>3. /\ x.status = catalog[p].status /\ x.ref = catalog[p].ref
          /\ x.row = Merged(record.cells, catalog[p].row)
      BY <1>1, <3>1 DEF Shape, IsProperty, Imported
    <3>4. \A c \in DOMAIN record.cells: x.row[c] = record.cells[c]
      BY <3>3 DEF Merged
    <3>5. catalog' = [catalog EXCEPT ![p] = x]
      BY <3>2
    <3> HIDE DEF x
    <3> QED BY <1>1, <2>2, <3>1, <3>2, <3>3, <3>4, <3>5 DEF Exists
  <2> QED BY <2>1, <2>2
<1>4. NextRow(r, 0) /\ Placed(record)' /\ \A other: Placed(other) /\ other.ref # record.ref => Placed(other)'
  BY <1>1, <1>2, <1>3, WriteRecord
<1>5. req'[r] = [req[r] EXCEPT !.pc = "row", !.next = @ + 1, !.errors = @ + 0]
  BY <1>1, <1>4, GoesOn
<1>6. IsRequest(req[r])
  BY <1>1 DEF Shape
<1>7. n - 1 \in Nat /\ (n - 1) + 1 = n /\ n \in DOMAIN file /\ (n + 1) - 1 = n
  BY <1>1
<1>8. req[r].errors = Cardinality(Refused(file, n)) /\ Cardinality(Refused(file, n)) \in Nat
  <2>0. PICK m \in Nat: m = n - 1 /\ m + 1 = n
    BY <1>7
  <2>1. Refused(file, n) = Refused(file, n - 1)
    <3>1. file \in Files /\ m + 1 \in DOMAIN file /\ Parses(file[m + 1])
      BY ONLY <1>0, <1>1, <1>7, <2>0
    <3>2. Refused(file, m + 1) = Refused(file, m)
      BY ONLY <3>1, RefusedFinite
    <3> QED BY ONLY <2>0, <3>2
  <2> QED BY <1>1, <1>7, <2>1, RefusedFinite DEF DoneUpTo
<1>9. \A i \in LastGood(file, n): Placed(file[i])'
  <2>1. PICK m \in Nat: m = n - 1 /\ m + 1 = n
    BY <1>7
  <2>2. \A i \in LastGood(file, m + 1): i = m + 1 \/ (i \in LastGood(file, m) /\ file[i].ref # file[m + 1].ref)
    BY <1>0, <1>1, <1>7, <2>1, LastGoodNext
  <2>3. \A i \in LastGood(file, n): i = n \/ (i \in LastGood(file, n - 1) /\ file[i].ref # record.ref)
    BY <1>0, <2>1, <2>2
  <2>4. \A i \in LastGood(file, n - 1): Placed(file[i])
    BY <1>1 DEF DoneUpTo
  <2> QED BY <1>0, <1>4, <2>3, <2>4
<1>10. /\ req'[r].pc = "row" /\ req'[r].file = file /\ req'[r].next = n + 1
       /\ req'[r].errors = req[r].errors + 0 /\ req'[r].reply = req[r].reply
  BY <1>0, <1>5, <1>6 DEF IsRequest, Fields
<1>11. PICK errors: errors = req[r].errors /\ errors \in Nat /\ DoneUpTo(file, n, errors)'
  BY <1>8, <1>9 DEF DoneUpTo
<1>12. req'[r].errors = errors
  BY <1>10, <1>11
<1> QED BY <1>1, <1>7, <1>10, <1>11, <1>12 DEF Progress

LEMMA StepImports == StockInv /\ ImportInv /\ [Next]_vars => ImportInv'
<1> SUFFICES ASSUME StockInv, ImportInv, [Next]_vars PROVE ImportInv'
  OBVIOUS
<1>s. Shape /\ \A r \in Requests: IsRequest(req[r])
  BY DEF StockInv, Shape
<1>1. CASE Resolve \/ Book \/ UNCHANGED vars
  BY <1>1, SameImports DEF Resolve, Book, vars
<1>2. CASE ServerDies
  <2>1. /\ req' = [r \in Requests |-> IF r \in InFlight THEN Rest ELSE req[r]]
        /\ UNCHANGED catalog
    BY <1>2 DEF ServerDies
  <2>2. Rest.kind = "none" /\ Rest.pc = "idle"
    BY DEF Rest
  <2> QED BY <2>1, <2>2, SameImports
<1>3. ASSUME NEW r \in Requests, NEW next, IsRequest(next), next.kind # "import", Begin(r, next)
      PROVE  ImportInv'
  <2>1. /\ req'[r] = [next EXCEPT !.alone = (InFlight = {})]
        /\ \A q \in Requests \ {r}: req'[q] = [req[q] EXCEPT !.alone = FALSE]
    BY <1>s, <1>3, BeginOf
  <2>2. req'[r].kind # "import"
    BY <1>3, <2>1 DEF IsRequest, Fields
  <2>3. \A q \in Requests \ {r}: ~req'[q].alone
    BY <1>s, <2>1 DEF IsRequest, Fields
  <2> QED BY <2>2, <2>3 DEF ImportInv
<1>r. IsRequest(Rest) /\ Rest.kind = "none"
  BY DEF Rest, IsRequest, Fields
<1>4. ASSUME NEW r \in Requests, NEW p, NEW next, IsRequest(next), next.kind # "import", Found(r, p, next)
      PROVE  ImportInv'
  <2>1. /\ IsRequest([next EXCEPT !.id = p]) /\ [next EXCEPT !.id = p].kind = next.kind
        /\ IsRequest([Rest EXCEPT !.reply = "404"]) /\ [Rest EXCEPT !.reply = "404"].kind = "none"
    BY <1>4, <1>r DEF IsRequest, Fields
  <2> QED BY <1>3, <1>4, <2>1 DEF Found
<1>5. ASSUME NEW r \in Requests, Create(r) \/ BeginUpdate(r) \/ BeginStatus(r) \/ BeginRemove(r)
      PROVE  ImportInv'
  <2>1. CASE Create(r)
    <3>1. \A a \in {"409", "ok"}: /\ IsRequest([Rest EXCEPT !.reply = a])
                                  /\ [Rest EXCEPT !.reply = a].kind = "none"
      BY <1>r DEF IsRequest, Fields
    <3>2. Begin(r, [Rest EXCEPT !.reply = "409"]) \/ Begin(r, [Rest EXCEPT !.reply = "ok"])
      BY <2>1 DEF Create
    <3> QED BY <1>3, <3>1, <3>2
  <2>2. CASE BeginUpdate(r)
    <3>1. ASSUME NEW data
          PROVE  LET next == [Rest EXCEPT !.kind = "update", !.data = data, !.pc = "write"]
                 IN IsRequest(next) /\ next.kind = "update"
      BY <1>r DEF IsRequest, Fields
    <3>2. ASSUME NEW data, NEW urls
          PROVE  LET next == [Rest EXCEPT !.kind = "gallery", !.data = data, !.photos = urls, !.pc = "photos"]
                 IN IsRequest(next) /\ next.kind = "gallery"
      BY <1>r DEF IsRequest, Fields
    <3> QED BY <1>4, <2>2, <3>1, <3>2 DEF BeginUpdate
  <2>3. CASE BeginStatus(r)
    <3>1. ASSUME NEW s
          PROVE  LET next == [Rest EXCEPT !.kind = "status", !.data = [status |-> s], !.pc = "set"]
                 IN IsRequest(next) /\ next.kind = "status"
      BY <1>r DEF IsRequest, Fields
    <3> QED BY <1>4, <2>3, <3>1 DEF BeginStatus
  <2>4. CASE BeginRemove(r)
    <3>1. LET next == [Rest EXCEPT !.kind = "remove", !.pc = "look"]
          IN IsRequest(next) /\ next.kind = "remove"
      BY <1>r DEF IsRequest, Fields
    <3> QED BY <1>4, <2>4, <3>1 DEF BeginRemove
  <2> QED BY <1>5, <2>1, <2>2, <2>3, <2>4
<1>6. ASSUME NEW r \in Requests, BeginImport(r) PROVE ImportInv'
  <2>1. PICK f \in Files: Begin(r, [Rest EXCEPT !.kind = "import", !.file = f, !.pc = "row"])
    BY <1>6 DEF BeginImport
  <2>2. IsRequest([Rest EXCEPT !.kind = "import", !.file = f, !.pc = "row"])
    BY <1>r DEF IsRequest, Fields
  <2>3. /\ req'[r] = [[Rest EXCEPT !.kind = "import", !.file = f, !.pc = "row"]
                      EXCEPT !.alone = (InFlight = {})]
        /\ \A q \in Requests \ {r}: req'[q] = [req[q] EXCEPT !.alone = FALSE]
    BY <1>s, <2>1, <2>2, BeginOf
  <2>4. Rest.next = 1 /\ Rest.errors = 0 /\ Rest.reply = "none"
    BY DEF Rest
  <2>5. /\ req'[r].file = f /\ req'[r].pc = "row" /\ req'[r].next = 1 /\ req'[r].errors = 0
        /\ req'[r].reply = "none"
        /\ req'[r].alone <=> InFlight = {}
    BY <1>r, <2>3, <2>4 DEF IsRequest, Fields
  <2>6. ASSUME NEW q \in Requests \ {r} PROVE ~req'[q].alone /\ req'[q].pc = req[q].pc
    <3>1. req'[q] = [req[q] EXCEPT !.alone = FALSE] /\ IsRequest(req[q])
      BY <1>s, <2>3
    <3> QED BY <3>1 DEF IsRequest, Fields
  <2>7. ASSUME req'[r].alone PROVE Progress(r)'
    <3>1. \A q \in Requests \ {r}: req'[q].pc = "idle"
      BY <2>5, <2>6, <2>7 DEF InFlight
    <3>2. DoneUpTo(f, 0, 0)'
      BY RefusedNone, FS_EmptySet DEF DoneUpTo
    <3>3. Len(f) \in Nat
      BY FileDomain
    <3> QED BY <2>5, <3>1, <3>2, <3>3 DEF Progress
  <2> QED BY <2>6, <2>7 DEF ImportInv
<1>7. ASSUME NEW r \in Requests, Handle(r) PROVE ImportInv'
  <2>1. /\ req[r].pc # "idle"
        /\ \A q \in Requests: req'[q].kind = req[q].kind /\ req'[q].alone = req[q].alone
    BY <1>s, <1>7, HandleKeeps
  <2>2. SUFFICES ASSUME NEW i \in Requests, req[i].kind = "import", req[i].alone, Progress(i)
                 PROVE  Progress(i)'
    BY <2>1 DEF ImportInv
  <2>3. i = r
    BY <2>1, <2>2 DEF Progress
  <2>4. Progress(r) /\ req[r].pc \in {"row", "upsert"} /\ \A q \in Requests \ {r}: req[q].pc = "idle"
    BY <2>1, <2>2, <2>3 DEF Progress
  <2>5. LookUpRow(r) \/ UpsertRow(r)
    <3>1. ~Deadlock(r)
      BY <2>4 DEF Deadlock, Holders, HeldBy
    <3> QED BY <1>7, <2>4, <3>1 DEF Handle, DeletePhotos, PhotosDeleted, CommitUpdate, CommitStatus,
                                LookForVisits, Delete
  <2>6. \A q \in Requests \ {r}: req'[q] = req[q]
    <3>1. CASE UpsertRow(r)
      BY <1>s, <3>1, GoesOn DEF UpsertRow
    <3>2. CASE LookUpRow(r)
      <4>1. ASSUME NEW id PROVE IsRequest([req[r] EXCEPT !.pc = "upsert", !.id = id])
        BY <1>s DEF IsRequest, Fields
      <4>2. \/ Reply(r, "ok") \/ NextRow(r, 1)
            \/ \E id: Step(r, [req[r] EXCEPT !.pc = "upsert", !.id = id])
        BY <3>2 DEF LookUpRow
      <4> QED BY <1>s, <4>1, <4>2, GoesOn, StepOf
    <3> QED BY <2>5, <3>1, <3>2
  <2> QED BY <2>3, <2>4, <2>5, <2>6, StepLookUp, StepUpsert
<1> QED BY <1>1, <1>2, <1>5, <1>6, <1>7 DEF Next, Arrive

(* ImportConverges: an import that no other request has met leaves each    *)
(* external ref of its file on one property with the cells of its last     *)
(* good row, and counts the rows it refused, whatever stock it found.      *)
THEOREM ImportsConverge == Spec => []ImportConverges
<1>1. Init => ImportInv
  BY DEF Init, ImportInv, Rest
<1>2. StockInv /\ ImportInv => ImportConverges
  <2> SUFFICES ASSUME ImportInv, NEW r \in Requests, req[r].kind = "import", req[r].alone,
                      req[r].reply = "ok"
               PROVE  /\ \A record \in LastGoodRows(req[r].file): Placed(record)
                      /\ req[r].errors = Cardinality({i \in DOMAIN req[r].file: ~Parses(req[r].file[i])})
    BY DEF ImportConverges, Placed
  <2>1. PICK file: file = req[r].file
    OBVIOUS
  <2>2. file \in Files /\ DoneUpTo(file, Len(file), req[r].errors)
    BY <2>1 DEF ImportInv, Progress
  <2>3. Len(file) \in Nat /\ DOMAIN file = 1 .. Len(file)
    BY <2>2, FileDomain
  <2>4. ASSUME NEW record \in LastGoodRows(file) PROVE Placed(record)
    <3>1. PICK i \in LastGood(file, Len(file)): record = file[i]
      BY <2>3 DEF LastGoodRows, LastGood
    <3> QED BY <2>2, <3>1 DEF DoneUpTo
  <2>5. Refused(file, Len(file)) = {i \in DOMAIN file: ~Parses(file[i])}
    BY <2>3 DEF Refused
  <2> QED BY <2>1, <2>2, <2>4, <2>5 DEF DoneUpTo
<1> QED BY <1>1, <1>2, StepImports, AlwaysStock, PTL DEF Spec

-----------------------------------------------------------------------------
(* The order the search answers in.                                        *)

\* q comes before p: by its key, then by its id.
Before(q, p, key) == Precedes(key[q], key[p]) \/ (key[q] = key[p] /\ q < p)

Keys(ids, key) == /\ ids \subseteq Nat /\ IsFiniteSet(ids)
                  /\ \A p \in ids: key[p] \in Int \X Int

LEMMA BeforeIsTotal ==
    ASSUME NEW ids, NEW key, Keys(ids, key)
    PROVE  /\ \A p, q \in ids: p # q => Before(p, q, key) \/ Before(q, p, key)
           /\ \A p, q \in ids: Before(p, q, key) => ~Before(q, p, key) /\ p # q
           /\ \A p, q, r \in ids: Before(p, q, key) /\ Before(q, r, key) => Before(p, r, key)
<1>1. \A p \in ids: p \in Int /\ key[p][1] \in Int /\ key[p][2] \in Int
  BY DEF Keys
<1>2. \A p, q \in ids: key[p] = key[q] <=> key[p][1] = key[q][1] /\ key[p][2] = key[q][2]
  BY DEF Keys
<1> QED BY <1>1, <1>2 DEF Before, Precedes

\* InOrder lists every id once, each before those it comes before.
LEMMA Ordered ==
    ASSUME NEW ids, NEW key, Keys(ids, key), NEW s, s = InOrder(ids, key),
           NEW n, n = Cardinality(ids)
    PROVE  /\ n \in Nat /\ s \in [1 .. n -> ids]
           /\ \A p \in ids: \E k \in 1 .. n: s[k] = p
           /\ \A i, j \in 1 .. n: i < j => Before(s[i], s[j], key) /\ s[i] # s[j]
<1> DEFINE upTo(p) == {q \in ids: q = p \/ Precedes(key[q], key[p]) \/ (key[q] = key[p] /\ q < p)}
           rank == [p \in ids |-> Cardinality(upTo(p))]
<1>1. n \in Nat /\ IsFiniteSet(ids)
  BY FS_CardinalityType DEF Keys
<1>2. \A p \in ids: upTo(p) = {q \in ids: q = p \/ Before(q, p, key)}
  BY DEF Before
<1>3. \A p \in ids: upTo(p) \in SUBSET ids /\ p \in upTo(p) /\ IsFiniteSet(upTo(p))
  BY <1>1, FS_Subset
<1>4. \A p \in ids: rank[p] \in 1 .. n
  <2>1. ASSUME NEW p \in ids PROVE Cardinality(upTo(p)) \in 1 .. n
    <3>1. upTo(p) \in SUBSET ids /\ upTo(p) # {} /\ IsFiniteSet(upTo(p))
      BY <1>3
    <3> HIDE DEF upTo
    <3>2. Cardinality(upTo(p)) \in Nat /\ Cardinality(upTo(p)) <= n /\ Cardinality(upTo(p)) # 0
      BY <1>1, <3>1, FS_Subset, FS_CardinalityType, FS_EmptySet
    <3> QED BY <1>1, <3>2
  <2> QED BY <2>1
<1>5. ASSUME NEW p \in ids, NEW q \in ids, Before(p, q, key) PROVE rank[p] < rank[q]
  <2>1. upTo(p) \subseteq upTo(q)
    BY <1>2, <1>5, BeforeIsTotal
  <2>2. q \notin upTo(p)
    BY <1>2, <1>5, BeforeIsTotal
  <2>3. upTo(p) # upTo(q) /\ IsFiniteSet(upTo(q)) /\ upTo(p) \in SUBSET upTo(q)
    BY <1>3, <2>1, <2>2
  <2>4. rank[p] = Cardinality(upTo(p)) /\ rank[q] = Cardinality(upTo(q))
    OBVIOUS
  <2>5. rank[p] \in Nat /\ rank[q] \in Nat
    BY <1>1, <1>4
  <2> HIDE DEF upTo, rank
  <2>6. Cardinality(upTo(p)) <= Cardinality(upTo(q)) /\ Cardinality(upTo(p)) # Cardinality(upTo(q))
    BY <2>3, FS_Subset
  <2> QED BY <2>4, <2>5, <2>6
<1>6. \A p, q \in ids: rank[p] = rank[q] => p = q
  <2> HIDE DEF rank
  <2> QED BY <1>1, <1>4, <1>5, BeforeIsTotal
<1>7. rank \in Injection(ids, 1 .. n)
  BY <1>4, <1>6 DEF Injection, IsInjective
<1>8. \A k \in 1 .. n: \E p \in ids: rank[p] = k
  <2>1. IsFiniteSet(1 .. n) /\ Cardinality(1 .. n) = n
    BY <1>1, FS_Interval
  <2> HIDE DEF rank
  <2>2. rank \in Surjection(ids, 1 .. n)
    BY <1>7, <2>1, FS_Injection
  <2> QED BY <2>2 DEF Surjection
<1>9. s = [k \in 1 .. n |-> CHOOSE p \in ids: Cardinality(upTo(p)) = k]
  BY Zenon DEF InOrder
<1>10. \A k \in 1 .. n: s[k] \in ids /\ rank[s[k]] = k
  <2>1. \A p \in ids: rank[p] = Cardinality(upTo(p))
    OBVIOUS
  <2> HIDE DEF upTo, rank
  <2> QED BY <1>8, <1>9, <2>1
<1>11. s \in [1 .. n -> ids]
  <2> HIDE DEF upTo, rank
  <2> QED BY <1>9, <1>10
<1> HIDE DEF upTo, rank
<1>12. \A p \in ids: \E k \in 1 .. n: s[k] = p
  BY <1>4, <1>6, <1>10
<1>13. \A i, j \in 1 .. n: i < j => Before(s[i], s[j], key) /\ s[i] # s[j]
  <2>1. SUFFICES ASSUME NEW i \in 1 .. n, NEW j \in 1 .. n, i < j
                 PROVE  Before(s[i], s[j], key) /\ s[i] # s[j]
    OBVIOUS
  <2>2. s[i] \in ids /\ s[j] \in ids /\ rank[s[i]] = i /\ rank[s[j]] = j
    BY <1>10
  <2>3. s[i] # s[j]
    BY <2>1, <2>2
  <2>4. ~Before(s[j], s[i], key)
    BY <1>1, <1>5, <2>1, <2>2
  <2> QED BY <2>2, <2>3, <2>4, BeforeIsTotal
<1> QED BY <1>1, <1>11, <1>12, <1>13

\* The first three of them, or all: nothing that stays out comes before one of them.
LEMMA FirstAreBest ==
    ASSUME NEW ids, NEW key, Keys(ids, key), NEW found,
           found = FirstOf(InOrder(ids, key), RESULT_LIMIT)
    PROVE  /\ ToSet(found) \subseteq ids
           /\ Cardinality(ToSet(found)) = IF Cardinality(ids) < 3 THEN Cardinality(ids) ELSE 3
           /\ \A p \in ToSet(found), q \in ids \ ToSet(found): Before(p, q, key)
<1>1. PICK s, n: s = InOrder(ids, key) /\ n = Cardinality(ids)
  OBVIOUS
<1>2. /\ n \in Nat /\ s \in [1 .. n -> ids]
      /\ \A p \in ids: \E k \in 1 .. n: s[k] = p
      /\ \A i, j \in 1 .. n: i < j => Before(s[i], s[j], key) /\ s[i] # s[j]
  BY <1>1, Ordered
<1>3. s \in Seq(ids) /\ Len(s) = n
  BY <1>2
<1>4. PICK m: m = (IF n < 3 THEN n ELSE 3) /\ m \in Nat /\ m <= n
  BY <1>2
<1>5. found = SubSeq(s, 1, m)
  BY <1>1, <1>3, <1>4 DEF FirstOf, RESULT_LIMIT
<1>6. DOMAIN found = 1 .. m /\ \A i \in 1 .. m: found[i] = s[i]
  BY <1>2, <1>3, <1>4, <1>5
<1>7. ToSet(found) = {s[i] : i \in 1 .. m}
  BY <1>6 DEF ToSet
<1>8. Cardinality({s[i] : i \in 1 .. m}) = m
  <2> DEFINE f == [i \in 1 .. m |-> s[i]]
  <2>1. f \in Bijection(1 .. m, {s[i] : i \in 1 .. m})
    <3>1. \A i, j \in 1 .. m: f[i] = f[j] => i = j
      <4>1. SUFFICES ASSUME NEW i \in 1 .. m, NEW j \in 1 .. m, s[i] = s[j] PROVE i = j
        OBVIOUS
      <4>2. i \in 1 .. n /\ j \in 1 .. n
        BY <1>2, <1>4
      <4>3. ~(i < j) /\ ~(j < i)
        BY <1>2, <4>1, <4>2
      <4> QED BY <1>2, <4>2, <4>3
    <3> QED BY <3>1 DEF Bijection, Injection, Surjection, IsInjective
  <2>2. ExistsBijection(1 .. m, {s[i] : i \in 1 .. m})
    BY <2>1 DEF ExistsBijection
  <2> QED BY <1>4, <2>2, FS_CountingElements
<1>9. ASSUME NEW p \in ToSet(found), NEW q \in ids \ ToSet(found) PROVE Before(p, q, key)
  <2>1. PICK i \in 1 .. m: p = s[i]
    BY <1>7
  <2>2. PICK j \in 1 .. n: q = s[j]
    BY <1>2
  <2>3. j \notin 1 .. m
    BY <1>7, <1>9, <2>2
  <2>4. i \in 1 .. n /\ i < j
    BY <1>2, <1>4, <2>3
  <2> QED BY <1>2, <2>1, <2>2, <2>4
<1> QED BY <1>1, <1>2, <1>4, <1>7, <1>8, <1>9

-----------------------------------------------------------------------------
(* The attempts of a search.                                               *)

Attempt(factor, rooms, label) == [factor |-> factor, rooms |-> rooms, label |-> label]

\* t is s, and x after it if that is tried.
Grows(S, s, t, if, x) ==
    /\ t \in Seq(S) /\ Len(t) = (IF if THEN Len(s) + 1 ELSE Len(s))
    /\ \A i \in 1 .. Len(s): t[i] = s[i]
    /\ if => t[Len(s) + 1] = x

LEMMA OneMore ==
    ASSUME NEW S, NEW s \in Seq(S), NEW if \in BOOLEAN, NEW factor, NEW rooms, NEW label,
           NEW x \in S, x = Attempt(factor, rooms, label),
           NEW t, t = s \o Try(if, factor, rooms, label)
    PROVE  Grows(S, s, t, if, x)
<1>1. CASE if
  <2>0. PICK e: e = <<x>>
    OBVIOUS
  <2>1. e = <<x>> /\ e \in Seq(S) /\ Len(e) = 1 /\ e[1] = x
    BY <2>0
  <2>2. t = s \o e
    BY <1>1, <2>1 DEF Try, Attempt
  <2>3. t \in Seq(S) /\ Len(t) = Len(s) + 1 /\ Len(s) \in Nat
        /\ \A i \in 1 .. Len(s) + 1: t[i] = IF i <= Len(s) THEN s[i] ELSE e[i - Len(s)]
    BY <2>1, <2>2, ConcatProperties
  <2>4. t[Len(s) + 1] = x
    BY <2>1, <2>3
  <2>5. \A i \in 1 .. Len(s): t[i] = s[i]
    BY <2>3
  <2> QED BY <1>1, <2>3, <2>4, <2>5 DEF Grows
<1>2. CASE ~if
  <2>1. Try(if, factor, rooms, label) = <<>>
    BY <1>2 DEF Try
  <2>2. s \o <<>> = s
    OBVIOUS
  <2> QED BY <1>2, <2>1, <2>2 DEF Grows
<1> QED BY <1>1, <1>2

Priced(f) == f.maxPrice # 0
Roomed(f) == f.minRooms # 0

\* The six there are.
AsAsked == Attempt(110, TRUE, NoLabel)
Dearer == Attempt(125, TRUE, "price")
MuchDearer == Attempt(150, TRUE, "price")
FewerRooms(f) == Attempt(IF Priced(f) THEN 125 ELSE 0, FALSE, "rooms")
OverBudget == Attempt(0, TRUE, "over_budget")
Anything == Attempt(0, FALSE, "over_budget")

\* Attempt t is among the first n - 1.
Made(tries, n, t) == \E j \in DOMAIN tries: j < n /\ tries[j] = t

\* Those that keep the rooms, and those that keep something of the budget.
RoomsKept(f, tries, n) ==
    Priced(f) => Made(tries, n, Dearer) /\ (f.flexible => Made(tries, n, MuchDearer))
BudgetKept(f, tries, n) ==
    RoomsKept(f, tries, n) /\ (Roomed(f) => Made(tries, n, FewerRooms(f)))

\* What each of the attempts is, which ones have been made before it, and which ones
\* are made if none finds anything.
LEMMA AttemptsOf ==
    ASSUME NEW f, f.flexible \in BOOLEAN, NEW tries, tries = attempts(f)
    PROVE  /\ Len(tries) \in Nat /\ DOMAIN tries = 1 .. Len(tries) /\ Len(tries) >= 1 /\ Len(tries) <= 6
           /\ tries[1] = AsAsked
           /\ \A i \in DOMAIN tries:
                 \/ i = 1
                 \/ tries[i] = Dearer /\ Priced(f)
                 \/ tries[i] = MuchDearer /\ Priced(f) /\ f.flexible /\ Made(tries, i, Dearer)
                 \/ tries[i] = FewerRooms(f) /\ Roomed(f) /\ RoomsKept(f, tries, i)
                 \/ tries[i] = OverBudget /\ Priced(f) /\ BudgetKept(f, tries, i)
                 \/ /\ tries[i] = Anything /\ Priced(f) /\ Roomed(f) /\ BudgetKept(f, tries, i)
                    /\ Made(tries, i, OverBudget)
           /\ BudgetKept(f, tries, 7)
           /\ Priced(f) => Made(tries, 7, OverBudget)
           /\ Priced(f) /\ Roomed(f) => Made(tries, 7, Anything)
<1>1. PICK p \in BOOLEAN: p = Priced(f)
  BY DEF Priced
<1>2. PICK r \in BOOLEAN: r = Roomed(f)
  BY DEF Roomed
<1>3. PICK q \in BOOLEAN: q = (p /\ f.flexible)
  OBVIOUS
<1>4. PICK b \in BOOLEAN: b = (p /\ r)
  OBVIOUS
<1>5. PICK yes \in BOOLEAN, no \in BOOLEAN: yes = TRUE /\ no = FALSE
  OBVIOUS
<1>6. PICK reach: reach = IF p THEN 125 ELSE 0
  OBVIOUS
<1>7. PICK none: none = NoLabel
  OBVIOUS
<1>p. PICK price: price = "price"
  OBVIOUS
<1>r. PICK rooms: rooms = "rooms"
  OBVIOUS
<1>o. PICK over: over = "over_budget"
  OBVIOUS
<1>c. PICK tol, cap, far: tol = 110 /\ cap = 125 /\ far = 150
  OBVIOUS
<1>8. PICK s1: s1 = Try(yes, tol, yes, none)
  OBVIOUS
<1>9. PICK s2: s2 = s1 \o Try(p, cap, yes, price)
  OBVIOUS
<1>10. PICK s3: s3 = s2 \o Try(q, far, yes, price)
  OBVIOUS
<1>11. PICK s4: s4 = s3 \o Try(r, reach, no, rooms)
  OBVIOUS
<1>12. PICK s5: s5 = s4 \o Try(p, 0, yes, over)
  OBVIOUS
<1>13. PICK s6: s6 = s5 \o Try(b, 0, no, over)
  OBVIOUS
<1>14. tries = s6
  <2>1. tries = Try(TRUE, 110, TRUE, NoLabel)
                \o Try(Priced(f), 125, TRUE, "price")
                \o Try(Priced(f) /\ f.flexible, 150, TRUE, "price")
                \o Try(Roomed(f), IF Priced(f) THEN 125 ELSE 0, FALSE, "rooms")
                \o Try(Priced(f), 0, TRUE, "over_budget")
                \o Try(Priced(f) /\ Roomed(f), 0, FALSE, "over_budget")
    BY Zenon
       DEF attempts, Priced, Roomed, PRICE_TOLERANCE, PRICE_RELAX_CAP, PRICE_RELAX_CAP_FLEXIBLE, AnyPrice
  <2>2. s1 = Try(TRUE, 110, TRUE, NoLabel)
    BY <1>5, <1>7, <1>8, <1>c, Zenon
  <2>3. s2 = s1 \o Try(Priced(f), 125, TRUE, "price")
    BY <1>1, <1>5, <1>9, <1>c, <1>p, Zenon
  <2>4. s3 = s2 \o Try(Priced(f) /\ f.flexible, 150, TRUE, "price")
    BY <1>1, <1>3, <1>5, <1>10, <1>c, <1>p, Zenon
  <2>5. s4 = s3 \o Try(Roomed(f), IF Priced(f) THEN 125 ELSE 0, FALSE, "rooms")
    BY <1>1, <1>2, <1>5, <1>6, <1>11, <1>r, Zenon
  <2>6. s5 = s4 \o Try(Priced(f), 0, TRUE, "over_budget")
    BY <1>1, <1>5, <1>12, <1>o, Zenon
  <2>7. s6 = s5 \o Try(Priced(f) /\ Roomed(f), 0, FALSE, "over_budget")
    BY <1>1, <1>2, <1>4, <1>5, <1>13, <1>o, Zenon
  <2> QED BY <2>1, <2>2, <2>3, <2>4, <2>5, <2>6, <2>7, Zenon
<1>x1. PICK x1: x1 = Attempt(tol, yes, none)
  OBVIOUS
<1>x2. PICK x2: x2 = Attempt(cap, yes, price)
  OBVIOUS
<1>x3. PICK x3: x3 = Attempt(far, yes, price)
  OBVIOUS
<1>x4. PICK x4: x4 = Attempt(reach, no, rooms)
  OBVIOUS
<1>x5. PICK x5: x5 = Attempt(0, yes, over)
  OBVIOUS
<1>x6. PICK x6: x6 = Attempt(0, no, over)
  OBVIOUS
<1>s. PICK S: x1 \in S /\ x2 \in S /\ x3 \in S /\ x4 \in S /\ x5 \in S /\ x6 \in S
  <2>1. WITNESS {x1, x2, x3, x4, x5, x6}
  <2> QED OBVIOUS
<1>21. s1 \in Seq(S) /\ Len(s1) = 1 /\ s1[1] = x1
  <2>1. s1 = <<x1>>
    BY <1>5, <1>8, <1>x1 DEF Try, Attempt
  <2> QED BY <1>s, <2>1
<1>22. Grows(S, s1, s2, p, x2)
  BY <1>9, <1>x2, <1>s, <1>21, OneMore
<1>23. Grows(S, s2, s3, q, x3)
  <2>1. s2 \in Seq(S)
    BY <1>22 DEF Grows
  <2> QED BY <1>10, <1>x3, <1>s, <2>1, OneMore
<1>24. Grows(S, s3, s4, r, x4)
  <2>1. s3 \in Seq(S)
    BY <1>23 DEF Grows
  <2> QED BY <1>11, <1>x4, <1>s, <2>1, OneMore
<1>25. Grows(S, s4, s5, p, x5)
  <2>1. s4 \in Seq(S)
    BY <1>24 DEF Grows
  <2> QED BY <1>12, <1>x5, <1>s, <2>1, OneMore
<1>26. Grows(S, s5, s6, b, x6)
  <2>1. s5 \in Seq(S)
    BY <1>25 DEF Grows
  <2> QED BY <1>13, <1>x6, <1>s, <2>1, OneMore
<1>27. /\ Len(s6) \in Nat /\ DOMAIN s6 = 1 .. Len(s6)
  BY <1>26 DEF Grows
<1> DEFINE n2 == IF p THEN 2 ELSE 1    n3 == IF q THEN n2 + 1 ELSE n2   n4 == IF r THEN n3 + 1 ELSE n3
           n5 == IF p THEN n4 + 1 ELSE n4   n6 == IF b THEN n5 + 1 ELSE n5
<1>15. Len(s1) = 1 /\ Len(s2) = n2 /\ Len(s3) = n3 /\ Len(s4) = n4 /\ Len(s5) = n5 /\ Len(s6) = n6
  <2>1. Len(s2) = n2
    BY <1>21, <1>22 DEF Grows
  <2>2. Len(s3) = n3
    BY <1>23, <2>1 DEF Grows
  <2>3. Len(s4) = n4
    BY <1>24, <2>2 DEF Grows
  <2>4. Len(s5) = n5
    BY <1>25, <2>3 DEF Grows
  <2>5. Len(s6) = n6
    BY <1>26, <2>4 DEF Grows
  <2> QED BY <1>21, <2>1, <2>2, <2>3, <2>4, <2>5
<1>16. /\ s6[1] = x1 /\ (p => s6[2] = x2) /\ (q => s6[n3] = x3) /\ (r => s6[n4] = x4)
       /\ (p => s6[n5] = x5) /\ (b => s6[n6] = x6)
  <2>1. /\ \A i \in 1 .. 1: s2[i] = s1[i]
        /\ \A i \in 1 .. n2: s3[i] = s2[i]
        /\ \A i \in 1 .. n3: s4[i] = s3[i]
        /\ \A i \in 1 .. n4: s5[i] = s4[i]
        /\ \A i \in 1 .. n5: s6[i] = s5[i]
    BY <1>21, <1>22, <1>23, <1>24, <1>25, <1>26, <1>15 DEF Grows
  <2>2. /\ s1[1] = x1 /\ (p => s2[n2] = x2) /\ (q => s3[n3] = x3) /\ (r => s4[n4] = x4)
        /\ (p => s5[n5] = x5) /\ (b => s6[n6] = x6)
    BY <1>21, <1>22, <1>23, <1>24, <1>25, <1>26, <1>15 DEF Grows
  <2> QED BY <1>15, <2>1, <2>2
<1>17. ASSUME NEW i \in 1 .. n6
       PROVE  i = 1 \/ (p /\ i = 2) \/ (q /\ i = n3) \/ (r /\ i = n4) \/ (p /\ i = n5) \/ (b /\ i = n6)
  BY <1>3, <1>4, <1>17
<1>18. DOMAIN s6 = 1 .. n6 /\ n6 \in Nat /\ n6 >= 1 /\ n6 <= 6
  BY <1>15, <1>27
<1>28. /\ n3 \in Nat /\ n4 \in Nat /\ n5 \in Nat /\ 1 <= n3 /\ n3 <= n4 /\ n4 <= n5 /\ n5 <= n6
       /\ p => 2 <= n3 /\ n4 < n5
       /\ q => 2 < n3
       /\ r => n3 < n4
       /\ b => n5 < n6
  BY <1>3
<1> HIDE DEF n2, n3, n4, n5, n6
<1> DEFINE Was(n, x) == \E j \in 1 .. n6: j < n /\ s6[j] = x
           Kept(n) == p => Was(n, x2) /\ (q => Was(n, x3))
           Left(n) == Kept(n) /\ (r => Was(n, x4))
<1>32. ASSUME NEW n \in Nat
       PROVE  /\ p /\ 2 < n => Was(n, x2)
              /\ q /\ n3 < n => Was(n, x3)
              /\ r /\ n4 < n => Was(n, x4)
              /\ p /\ n5 < n => Was(n, x5)
              /\ b /\ n6 < n => Was(n, x6)
  BY <1>16, <1>18, <1>28
<1>33. Left(7) /\ (p => Was(7, x5)) /\ (b => Was(7, x6))
  BY <1>18, <1>28, <1>32
<1>19. ASSUME NEW i \in 1 .. n6
       PROVE  \/ i = 1
              \/ s6[i] = x2 /\ p
              \/ s6[i] = x3 /\ q /\ p /\ Was(i, x2)
              \/ s6[i] = x4 /\ r /\ Kept(i)
              \/ s6[i] = x5 /\ p /\ Left(i)
              \/ s6[i] = x6 /\ p /\ r /\ Left(i) /\ Was(i, x5)
  <2>0. i \in Nat
    BY <1>18
  <2>1. CASE p /\ i = 2
    BY <1>16, <2>1
  <2>2. CASE q /\ i = n3
    <3>1. p /\ Was(i, x2) /\ s6[i] = x3
      BY <1>3, <1>16, <1>28, <1>32, <2>0, <2>2
    <3> QED BY <2>2, <3>1
  <2>3. CASE r /\ i = n4
    <3>1. (p => Was(i, x2)) /\ (q => Was(i, x3)) /\ s6[i] = x4
      BY <1>16, <1>28, <1>32, <2>0, <2>3
    <3> QED BY <2>3, <3>1
  <2>4. CASE p /\ i = n5
    <3>1. Was(i, x2) /\ (q => Was(i, x3)) /\ (r => Was(i, x4)) /\ s6[i] = x5
      BY <1>16, <1>28, <1>32, <2>0, <2>4
    <3> QED BY <2>4, <3>1
  <2>5. CASE b /\ i = n6
    <3>1. p /\ r /\ Was(i, x2) /\ (q => Was(i, x3)) /\ Was(i, x4) /\ Was(i, x5) /\ s6[i] = x6
      BY <1>4, <1>16, <1>28, <1>32, <2>0, <2>5
    <3> QED BY <3>1
  <2> QED BY <1>17, <2>1, <2>2, <2>3, <2>4, <2>5
<1>29. /\ x1 = AsAsked /\ x2 = Dearer /\ x3 = MuchDearer /\ x4 = FewerRooms(f)
       /\ x5 = OverBudget /\ x6 = Anything
  <2>1. x1 = AsAsked /\ x2 = Dearer
    BY <1>5, <1>7, <1>p, <1>c, <1>x1, <1>x2, Zenon DEF AsAsked, Dearer
  <2>2. x3 = MuchDearer /\ x5 = OverBudget
    BY <1>5, <1>p, <1>o, <1>c, <1>x3, <1>x5, Zenon DEF MuchDearer, OverBudget
  <2>3. x4 = FewerRooms(f) /\ x6 = Anything
    BY <1>1, <1>5, <1>6, <1>r, <1>o, <1>x4, <1>x6, Zenon DEF FewerRooms, Anything
  <2> QED BY <2>1, <2>2, <2>3
<1>30. /\ Len(tries) \in Nat /\ DOMAIN tries = 1 .. Len(tries) /\ Len(tries) >= 1 /\ Len(tries) <= 6 /\ tries[1] = x1
  BY <1>14, <1>15, <1>16, <1>18
<1>34. \A n, x: Was(n, x) <=> Made(tries, n, x)
  BY <1>14, <1>18 DEF Made
<1>35. p => (q <=> f.flexible)
  BY <1>3
<1>36. \A n: /\ Kept(n) <=> RoomsKept(f, tries, n)
             /\ Left(n) <=> BudgetKept(f, tries, n)
  <2> HIDE DEF Was
  <2>1. \A n: Kept(n) <=> RoomsKept(f, tries, n)
    BY <1>1, <1>29, <1>34, <1>35, Zenon DEF RoomsKept
  <2>2. \A n: Left(n) <=> BudgetKept(f, tries, n)
    BY <1>2, <1>29, <1>34, <2>1, Zenon DEF BudgetKept
  <2> QED BY <2>1, <2>2
<1>31. \A i \in DOMAIN tries:
           \/ i = 1
           \/ tries[i] = x2 /\ p
           \/ tries[i] = x3 /\ p /\ f.flexible /\ Made(tries, i, x2)
           \/ tries[i] = x4 /\ r /\ RoomsKept(f, tries, i)
           \/ tries[i] = x5 /\ p /\ BudgetKept(f, tries, i)
           \/ tries[i] = x6 /\ p /\ r /\ BudgetKept(f, tries, i) /\ Made(tries, i, x5)
  <2> HIDE DEF Was, Kept, Left
  <2>1. DOMAIN tries = 1 .. n6 /\ tries = s6
    BY <1>14, <1>18
  <2> QED BY <1>19, <1>34, <1>35, <1>36, <2>1, Zenon
<1>37. /\ BudgetKept(f, tries, 7)
       /\ p => Made(tries, 7, x5)
       /\ p /\ r => Made(tries, 7, x6)
  <2> HIDE DEF Was, Kept, Left
  <2> QED BY <1>4, <1>33, <1>34, <1>36, Zenon
<1> HIDE DEF Was, Kept, Left
<1> QED BY <1>1, <1>2, <1>29, <1>30, <1>31, <1>37, Zenon

-----------------------------------------------------------------------------
(* What a search answers, against what it was asked.                       *)

Typed(f) == f.maxPrice \in Nat /\ f.minRooms \in Nat /\ f.flexible \in BOOLEAN

StockTyped ==
    /\ DOMAIN stock \subseteq Nat /\ IsFiniteSet(DOMAIN stock)
    /\ \A p \in DOMAIN stock: stock[p].price \in Nat /\ stock[p].rooms \in Int

LEMMA RoomsAgree ==
    ASSUME NEW row, row.rooms \in Int, NEW f, f.minRooms \in Nat
    PROVE  FitsRooms(row, f.minRooms) <=> Roomy(row, f)
  BY DEF FitsRooms, Roomy

\* An attempt finds what is for sale under its terms.
LEMMA HitsAre ==
    ASSUME StockTyped, NEW f, Typed(f), NEW t
    PROVE  /\ t = AsAsked => Hits(stock, f, t) = Terms(f, 110, TRUE)
           /\ t = Dearer => Hits(stock, f, t) = Terms(f, 125, TRUE)
           /\ t = MuchDearer => Hits(stock, f, t) = Terms(f, 150, TRUE)
           /\ t = FewerRooms(f) => Hits(stock, f, t) = Terms(f, 125, FALSE)
           /\ t = OverBudget => Hits(stock, f, t) = Unpriced(f, TRUE)
           /\ t = Anything => Hits(stock, f, t) = Unpriced(f, FALSE)
<1>1. ASSUME NEW p \in DOMAIN stock
      PROVE  /\ FitsHard(stock[p], f) <=> Wanted(stock[p], f) /\ SameMoney(stock[p], f)
             /\ FitsRooms(stock[p], f.minRooms) <=> Roomy(stock[p], f)
  <2>1. FitsHard(stock[p], f) <=> Wanted(stock[p], f) /\ SameMoney(stock[p], f)
    BY DEF FitsHard, FitsZone, CurrencyPinned, Wanted, SameMoney
  <2>2. FitsRooms(stock[p], f.minRooms) <=> Roomy(stock[p], f)
    BY RoomsAgree DEF StockTyped, Typed
  <2> QED BY <2>1, <2>2
<1>2. ASSUME NEW p \in DOMAIN stock, NEW factor, factor # 0
      PROVE  Within(stock[p], f, factor) /\ SameMoney(stock[p], f) <=> Affords(stock[p], f, factor)
  BY <1>2 DEF Within, SameMoney, Affords, AnyPrice
<1>3. ASSUME NEW p \in DOMAIN stock PROVE Within(stock[p], f, 0)
  BY DEF Within, AnyPrice
<1>4. ASSUME NEW factor, factor # 0, t.factor = factor, t.rooms = TRUE
      PROVE  Hits(stock, f, t) = Terms(f, factor, TRUE)
  BY <1>1, <1>2, <1>4, Zenon DEF Hits, Terms
<1>5. ASSUME NEW factor, factor # 0, t.factor = factor, t.rooms = FALSE
      PROVE  Hits(stock, f, t) = Terms(f, factor, FALSE)
  BY <1>1, <1>2, <1>5, Zenon DEF Hits, Terms
<1>6. CASE t = AsAsked \/ t = Dearer \/ t = MuchDearer
  <2>1. /\ t.rooms = TRUE /\ t.factor # 0
        /\ t = AsAsked => t.factor = 110
        /\ t = Dearer => t.factor = 125
        /\ t = MuchDearer => t.factor = 150
        /\ t # FewerRooms(f) /\ t # OverBudget /\ t # Anything
    BY <1>6 DEF AsAsked, Dearer, MuchDearer, FewerRooms, OverBudget, Anything, Attempt
  <2> QED BY <1>4, <2>1, Zenon
<1>7. CASE t = FewerRooms(f)
  <2>1. /\ t.rooms = FALSE /\ t.factor = (IF Priced(f) THEN 125 ELSE 0)
        /\ t # AsAsked /\ t # Dearer /\ t # MuchDearer /\ t # OverBudget /\ t # Anything
    BY <1>7 DEF AsAsked, Dearer, MuchDearer, FewerRooms, OverBudget, Anything, Attempt, NoLabel
  <2>2. CASE Priced(f)
    <3>1. t.factor = 125 /\ 125 # 0
      BY <2>1, <2>2
    <3>2. Hits(stock, f, t) = Terms(f, 125, FALSE)
      BY <1>5, <2>1, <3>1, Zenon
    <3> QED BY <2>1, <3>2
  <2>3. CASE ~Priced(f)
    <3>1. f.maxPrice = 0
      BY <2>3 DEF Priced
    <3>2. \A p \in DOMAIN stock: Within(stock[p], f, t.factor) /\ SameMoney(stock[p], f) /\ Affords(stock[p], f, 125)
      BY <3>1 DEF Within, SameMoney, Affords
    <3>3. Hits(stock, f, t) = Terms(f, 125, FALSE)
      BY <1>1, <2>1, <3>2, Zenon DEF Hits, Terms
    <3> QED BY <2>1, <3>3
  <2> QED BY <2>2, <2>3
<1>8. CASE t = OverBudget \/ t = Anything
  <2>1. /\ t.factor = 0 /\ (t = OverBudget => t.rooms = TRUE) /\ (t = Anything => t.rooms = FALSE)
        /\ t # AsAsked /\ t # Dearer /\ t # MuchDearer /\ t # FewerRooms(f)
    BY <1>8 DEF AsAsked, Dearer, MuchDearer, FewerRooms, OverBudget, Anything, Attempt, NoLabel
  <2>2. t = OverBudget => Hits(stock, f, t) = Unpriced(f, TRUE)
    BY <1>1, <1>3, <2>1, Zenon DEF Hits, Unpriced
  <2>3. t = Anything => Hits(stock, f, t) = Unpriced(f, FALSE)
    BY <1>1, <1>3, <2>1, Zenon DEF Hits, Unpriced
  <2> QED BY <2>1, <2>2, <2>3
<1> QED BY <1>6, <1>7, <1>8

\* Giving something up leaves nothing out, and giving up what was not asked for
\* changes nothing.
LEMMA TermsGrow ==
    ASSUME StockTyped, NEW f, Typed(f)
    PROVE  /\ Terms(f, 125, TRUE) \subseteq Terms(f, 150, TRUE)
           /\ Unpriced(f, TRUE) \subseteq Unpriced(f, FALSE)
           /\ ~Priced(f) => \A percent, roomy: Terms(f, percent, roomy) = Unpriced(f, roomy)
           /\ ~Roomed(f) => /\ \A percent: Terms(f, percent, FALSE) = Terms(f, percent, TRUE)
                            /\ Unpriced(f, FALSE) = Unpriced(f, TRUE)
<1>1. Terms(f, 125, TRUE) \subseteq Terms(f, 150, TRUE)
  <2>1. ASSUME NEW p \in DOMAIN stock, Affords(stock[p], f, 125) PROVE Affords(stock[p], f, 150)
    <3>1. stock[p].price \in Nat /\ f.maxPrice \in Nat
      BY DEF StockTyped, Typed
    <3>2. stock[p].price * 100 <= f.maxPrice * 125 => stock[p].price * 100 <= f.maxPrice * 150
      BY <3>1
    <3> QED BY <2>1, <3>2 DEF Affords
  <2> QED BY <2>1 DEF Terms
<1>2. Unpriced(f, TRUE) \subseteq Unpriced(f, FALSE)
  BY DEF Unpriced
<1>3. ASSUME ~Priced(f), NEW percent, NEW roomy PROVE Terms(f, percent, roomy) = Unpriced(f, roomy)
  <2>1. \A p \in DOMAIN stock: Affords(stock[p], f, percent) /\ SameMoney(stock[p], f)
    BY <1>3 DEF Affords, SameMoney, Priced
  <2> QED BY <2>1, Zenon DEF Terms, Unpriced
<1>4. ASSUME ~Roomed(f)
      PROVE  /\ \A percent: Terms(f, percent, FALSE) = Terms(f, percent, TRUE)
             /\ Unpriced(f, FALSE) = Unpriced(f, TRUE)
  <2>1. \A p \in DOMAIN stock: Roomy(stock[p], f)
    BY <1>4 DEF Roomy, Roomed
  <2>2. \A percent: Terms(f, percent, FALSE) = Terms(f, percent, TRUE)
    BY <2>1, Zenon DEF Terms
  <2>3. Unpriced(f, FALSE) = Unpriced(f, TRUE)
    BY <2>1, Zenon DEF Unpriced
  <2> QED BY <2>2, <2>3
<1> QED BY <1>1, <1>2, <1>3, <1>4

Reach(f) == IF f.flexible THEN 150 ELSE 125

\* What there is no stock for when the attempts before the n-th have found nothing.
LEMMA MissedTerms ==
    ASSUME StockTyped, NEW f, Typed(f), NEW tries, NEW n \in Nat, 1 < n, 1 \in DOMAIN tries,
           tries[1] = AsAsked, \A j \in DOMAIN tries: j < n => Hits(stock, f, tries[j]) = {}
    PROVE  /\ Terms(f, 110, TRUE) = {}
           /\ Made(tries, n, Dearer) => Terms(f, 125, TRUE) = {}
           /\ RoomsKept(f, tries, n) => Terms(f, Reach(f), TRUE) = {}
           /\ BudgetKept(f, tries, n) => Terms(f, 125, FALSE) = {}
           /\ Made(tries, n, OverBudget) => Unpriced(f, TRUE) = {}
           /\ Made(tries, n, Anything) => Unpriced(f, FALSE) = {}
<1>1. ASSUME NEW t, Made(tries, n, t) PROVE Hits(stock, f, t) = {}
  BY <1>1 DEF Made
<1>2. Terms(f, 110, TRUE) = {}
  <2>1. Made(tries, n, AsAsked)
    BY DEF Made
  <2>2. PICK t: t = AsAsked
    OBVIOUS
  <2>3. t = AsAsked => Hits(stock, f, t) = Terms(f, 110, TRUE)
    BY HitsAre, ZenonT(120)
  <2> QED BY <1>1, <2>1, <2>2, <2>3, Zenon
<1>3. ASSUME Made(tries, n, Dearer) PROVE Terms(f, 125, TRUE) = {}
  <2>1. PICK t: t = Dearer
    OBVIOUS
  <2>2. t = Dearer => Hits(stock, f, t) = Terms(f, 125, TRUE)
    BY HitsAre, ZenonT(120)
  <2> QED BY <1>1, <1>3, <2>1, <2>2, Zenon
<1>4. ASSUME Made(tries, n, MuchDearer) PROVE Terms(f, 150, TRUE) = {}
  <2>1. PICK t: t = MuchDearer
    OBVIOUS
  <2>2. t = MuchDearer => Hits(stock, f, t) = Terms(f, 150, TRUE)
    BY HitsAre, ZenonT(120)
  <2> QED BY <1>1, <1>4, <2>1, <2>2, Zenon
<1>5. ASSUME Made(tries, n, FewerRooms(f)) PROVE Terms(f, 125, FALSE) = {}
  <2>1. PICK t: t = FewerRooms(f)
    OBVIOUS
  <2>2. t = FewerRooms(f) => Hits(stock, f, t) = Terms(f, 125, FALSE)
    BY HitsAre, ZenonT(120)
  <2> QED BY <1>1, <1>5, <2>1, <2>2, Zenon
<1>6. ASSUME Made(tries, n, OverBudget) PROVE Unpriced(f, TRUE) = {}
  <2>1. PICK t: t = OverBudget
    OBVIOUS
  <2>2. t = OverBudget => Hits(stock, f, t) = Unpriced(f, TRUE)
    BY HitsAre, ZenonT(120)
  <2> QED BY <1>1, <1>6, <2>1, <2>2, Zenon
<1>7. ASSUME Made(tries, n, Anything) PROVE Unpriced(f, FALSE) = {}
  <2>1. PICK t: t = Anything
    OBVIOUS
  <2>2. t = Anything => Hits(stock, f, t) = Unpriced(f, FALSE)
    BY HitsAre, ZenonT(120)
  <2> QED BY <1>1, <1>7, <2>1, <2>2, Zenon
<1>8. ASSUME RoomsKept(f, tries, n) PROVE Terms(f, 125, TRUE) = {} /\ Terms(f, Reach(f), TRUE) = {}
  <2>1. CASE Priced(f)
    BY <1>3, <1>4, <1>8, <2>1 DEF RoomsKept, Reach
  <2>2. CASE ~Priced(f)
    <3>1. \A percent: Terms(f, percent, TRUE) = Unpriced(f, TRUE)
      BY <2>2, TermsGrow, Zenon
    <3> QED BY <1>2, <3>1, Zenon
  <2> QED BY <2>1, <2>2
<1>9. ASSUME BudgetKept(f, tries, n) PROVE Terms(f, 125, FALSE) = {}
  <2>1. CASE Roomed(f)
    BY <1>5, <1>9, <2>1 DEF BudgetKept
  <2>2. CASE ~Roomed(f)
    <3>1. Terms(f, 125, FALSE) = Terms(f, 125, TRUE)
      BY <2>2, TermsGrow, Zenon
    <3> QED BY <1>8, <1>9, <3>1 DEF BudgetKept
  <2> QED BY <2>1, <2>2
<1> QED BY <1>2, <1>3, <1>6, <1>7, <1>8, <1>9

\* Whether an attempt gives the rooms up, and what is said of its answer.
LEMMA AttemptSays ==
    ASSUME NEW f, NEW t
    PROVE  /\ t = AsAsked => t.label = "none" /\ ~ByProximity(f, t)
           /\ t = Dearer => t.label = "price" /\ ~ByProximity(f, t)
           /\ t = MuchDearer => t.label = "price" /\ ~ByProximity(f, t)
           /\ t = FewerRooms(f) => t.label = "rooms" /\ (ByProximity(f, t) <=> Roomed(f))
           /\ t = OverBudget => t.label = "over_budget" /\ ~ByProximity(f, t)
           /\ t = Anything => t.label = "over_budget" /\ (ByProximity(f, t) <=> Roomed(f))
<1>1. t = AsAsked => t.label = "none" /\ t.rooms = TRUE
  BY DEF AsAsked, Attempt, NoLabel
<1>2. t = Dearer => t.label = "price" /\ t.rooms = TRUE
  BY DEF Dearer, Attempt
<1>3. t = MuchDearer => t.label = "price" /\ t.rooms = TRUE
  BY DEF MuchDearer, Attempt
<1>4. t = FewerRooms(f) => t.label = "rooms" /\ t.rooms = FALSE
  BY DEF FewerRooms, Attempt
<1>5. t = OverBudget => t.label = "over_budget" /\ t.rooms = TRUE
  BY DEF OverBudget, Attempt
<1>6. t = Anything => t.label = "over_budget" /\ t.rooms = FALSE
  BY DEF Anything, Attempt
<1> QED BY <1>1, <1>2, <1>3, <1>4, <1>5, <1>6 DEF ByProximity, Roomed

LEMMA PesosGrow ==
    ASSUME NEW a \in Nat, NEW b \in Nat, NEW u \in Nat, a <= b
    PROVE  a * u <= b * u
  OBVIOUS

\* Of what an attempt finds nothing better stays out, as its sort sees it.
LEMMA QueryBest ==
    ASSUME StockTyped, NEW f, Typed(f), NEW t, NEW met, met = Hits(stock, f, t),
           Cardinality(met) <= CandidateLimit, NEW found \in query(stock, f, t)
    PROVE  /\ ToSet(found) \subseteq met
           /\ Cardinality(ToSet(found)) = IF Cardinality(met) < 3 THEN Cardinality(met) ELSE 3
           /\ \A p \in ToSet(found), q \in met \ ToSet(found):
                 IF ByProximity(f, t)
                 THEN \/ Distance(stock[p], f.minRooms) < Distance(stock[q], f.minRooms)
                      \/ /\ Distance(stock[p], f.minRooms) = Distance(stock[q], f.minRooms)
                         /\ Pesos(stock[p]) <= Pesos(stock[q])
                 ELSE Pesos(stock[p]) <= Pesos(stock[q])
<1>0. met \subseteq DOMAIN stock /\ IsFiniteSet(met) /\ met \subseteq Nat
  BY FS_Subset DEF Hits, StockTyped
<1>1. UsdRate \in Nat
  BY SearchAssumption
<1>2. PICK key: key = [p \in met |-> SortKey(stock[p], f, t)]
  OBVIOUS
<1>3. found = FirstOf(InOrder(met, key), RESULT_LIMIT)
  BY <1>2, Zenon DEF query, Candidates, Ranked
<1>4. ASSUME NEW p \in met
      PROVE  /\ key[p] = << IF ByProximity(f, t) THEN Distance(stock[p], f.minRooms) ELSE 0,
                            IF CurrencyPinned(f) THEN stock[p].price ELSE toComparableArs(stock[p]) >>
             /\ Distance(stock[p], f.minRooms) \in Nat
             /\ stock[p].price \in Nat /\ toComparableArs(stock[p]) \in Nat
             /\ toComparableArs(stock[p]) = Pesos(stock[p])
             /\ CurrencyPinned(f) => stock[p].currency = f.currency
  <2>1. stock[p].price \in Nat /\ stock[p].rooms \in Int /\ f.minRooms \in Nat
    BY <1>0 DEF StockTyped, Typed
  <2>2. Distance(stock[p], f.minRooms) \in Nat
    BY <2>1 DEF Distance
  <2>3. toComparableArs(stock[p]) \in Nat /\ toComparableArs(stock[p]) = Pesos(stock[p])
    BY <1>1, <2>1 DEF toComparableArs, Pesos
  <2>4. CurrencyPinned(f) => stock[p].currency = f.currency
    BY DEF Hits, FitsHard
  <2>5. key[p] = SortKey(stock[p], f, t)
    BY <1>2
  <2> QED BY <2>1, <2>2, <2>3, <2>4, <2>5 DEF SortKey
<1>5. Keys(met, key)
  <2>1. ASSUME NEW p \in met PROVE key[p] \in Int \X Int
    <3>1. PICK a, b: a = (IF ByProximity(f, t) THEN Distance(stock[p], f.minRooms) ELSE 0)
                     /\ b = (IF CurrencyPinned(f) THEN stock[p].price ELSE toComparableArs(stock[p]))
      OBVIOUS
    <3>2. a \in Int /\ b \in Int /\ key[p] = <<a, b>>
      BY <1>4, <3>1
    <3> QED BY <3>2
  <2> QED BY <1>0, <2>1 DEF Keys
<1>6. /\ ToSet(found) \subseteq met
      /\ Cardinality(ToSet(found)) = IF Cardinality(met) < 3 THEN Cardinality(met) ELSE 3
      /\ \A p \in ToSet(found), q \in met \ ToSet(found): Before(p, q, key)
  BY <1>3, <1>5, FirstAreBest
<1>7. ASSUME NEW p \in ToSet(found), NEW q \in met \ ToSet(found)
      PROVE  IF ByProximity(f, t)
             THEN \/ Distance(stock[p], f.minRooms) < Distance(stock[q], f.minRooms)
                  \/ /\ Distance(stock[p], f.minRooms) = Distance(stock[q], f.minRooms)
                     /\ Pesos(stock[p]) <= Pesos(stock[q])
             ELSE Pesos(stock[p]) <= Pesos(stock[q])
  <2>1. p \in met /\ q \in met /\ Before(p, q, key)
    BY <1>6
  <2>2. key[p][1] < key[q][1] \/ (key[p][1] = key[q][1] /\ key[p][2] <= key[q][2])
    BY <1>5, <2>1 DEF Before, Precedes, Keys
  <2>3. key[p][2] <= key[q][2] => Pesos(stock[p]) <= Pesos(stock[q])
    <3>1. CASE CurrencyPinned(f)
      <4>1. /\ key[p][2] = stock[p].price /\ key[q][2] = stock[q].price
            /\ stock[p].currency = stock[q].currency
            /\ stock[p].price \in Nat /\ stock[q].price \in Nat
        BY <1>4, <2>1, <3>1
      <4>2. PICK u \in Nat: Pesos(stock[p]) = stock[p].price * u /\ Pesos(stock[q]) = stock[q].price * u
        BY <1>1, <4>1 DEF Pesos
      <4> QED BY <4>1, <4>2, PesosGrow
    <3>2. CASE ~CurrencyPinned(f)
      BY <1>4, <2>1, <3>2
    <3> QED BY <3>1, <3>2
  <2>4. CASE ByProximity(f, t)
    BY <1>4, <2>1, <2>2, <2>3, <2>4
  <2>5. CASE ~ByProximity(f, t)
    <3>1. key[p][1] = 0 /\ key[q][1] = 0
      BY <1>4, <2>1, <2>5
    <3> QED BY <2>2, <2>3, <2>5, <3>1
  <2> QED BY <2>4, <2>5
<1> QED BY <1>6, <1>7

\* What NothingBetterLeftOut says of an answer.
NothingBetter(f, o, met) ==
    LET shown == ToSet(o.found)
        givenUp == f.minRooms # 0 /\ (o.relaxed = "rooms" \/ ~\E p \in met: Roomy(stock[p], f))
    IN Cardinality(met) <= CandidateLimit =>
         /\ Cardinality(shown) = IF Cardinality(met) < 3 THEN Cardinality(met) ELSE 3
         /\ \A p \in shown, q \in met \ shown:
               IF givenUp
               THEN \/ Off(stock[p], f) < Off(stock[q], f)
                    \/ /\ Off(stock[p], f) = Off(stock[q], f)
                       /\ Pesos(stock[p]) <= Pesos(stock[q])
               ELSE Pesos(stock[p]) <= Pesos(stock[q])

LEMMA AnswerBest ==
    ASSUME StockTyped, NEW f, Typed(f), NEW t, NEW met, met = Hits(stock, f, t), NEW o,
           o.found \in query(stock, f, t),
           ByProximity(f, t) <=> f.minRooms # 0 /\ (o.relaxed = "rooms" \/ ~\E p \in met: Roomy(stock[p], f))
    PROVE  NothingBetter(f, o, met)
<1> SUFFICES ASSUME Cardinality(met) <= CandidateLimit PROVE NothingBetter(f, o, met)
  BY DEF NothingBetter
<1>1. PICK found: found = o.found
  OBVIOUS
<1>2. /\ ToSet(found) \subseteq met
      /\ Cardinality(ToSet(found)) = IF Cardinality(met) < 3 THEN Cardinality(met) ELSE 3
      /\ \A p \in ToSet(found), q \in met \ ToSet(found):
            IF ByProximity(f, t)
            THEN \/ Distance(stock[p], f.minRooms) < Distance(stock[q], f.minRooms)
                 \/ /\ Distance(stock[p], f.minRooms) = Distance(stock[q], f.minRooms)
                    /\ Pesos(stock[p]) <= Pesos(stock[q])
            ELSE Pesos(stock[p]) <= Pesos(stock[q])
  BY <1>1, QueryBest
<1>3. \A p \in met: Off(stock[p], f) = Distance(stock[p], f.minRooms)
  <2>1. ASSUME NEW p \in met PROVE Off(stock[p], f) = Distance(stock[p], f.minRooms)
    <3>1. stock[p].rooms \in Int /\ f.minRooms \in Nat
      BY DEF Hits, StockTyped, Typed
    <3> QED BY <3>1 DEF Off, Distance, Roomy
  <2> QED BY <2>1
<1> QED BY <1>1, <1>2, <1>3 DEF NothingBetter

LEMMA SearchBest ==
    ASSUME StockTyped, NEW f, Typed(f), NEW o \in search(stock, f)
    PROVE  o.relaxed = StrictestLabel(f) /\ NothingBetter(f, o, TermsOf(f, o.relaxed))
<1>1. PICK tries, lucky: tries = attempts(f) /\ lucky = {i \in DOMAIN tries: Hits(stock, f, tries[i]) # {}}
  OBVIOUS
<1>2. /\ Len(tries) \in Nat /\ DOMAIN tries = 1 .. Len(tries) /\ Len(tries) >= 1 /\ Len(tries) <= 6
      /\ tries[1] = AsAsked
      /\ \A i \in DOMAIN tries:
            \/ i = 1
            \/ tries[i] = Dearer /\ Priced(f)
            \/ tries[i] = MuchDearer /\ Priced(f) /\ f.flexible /\ Made(tries, i, Dearer)
            \/ tries[i] = FewerRooms(f) /\ Roomed(f) /\ RoomsKept(f, tries, i)
            \/ tries[i] = OverBudget /\ Priced(f) /\ BudgetKept(f, tries, i)
            \/ /\ tries[i] = Anything /\ Priced(f) /\ Roomed(f) /\ BudgetKept(f, tries, i)
               /\ Made(tries, i, OverBudget)
      /\ BudgetKept(f, tries, 7)
      /\ Priced(f) => Made(tries, 7, OverBudget)
      /\ Priced(f) /\ Roomed(f) => Made(tries, 7, Anything)
  <2>1. f.flexible \in BOOLEAN
    BY DEF Typed
  <2> QED BY <1>1, <2>1, AttemptsOf
<1>3. \A percent: \A p \in Terms(f, percent, TRUE): Roomy(stock[p], f)
  BY DEF Terms
<1>4. /\ \A p \in Unpriced(f, TRUE): Roomy(stock[p], f)
      /\ Unpriced(f, TRUE) = {p \in Unpriced(f, FALSE): Roomy(stock[p], f)}
  BY DEF Unpriced
<1>5. CASE lucky = {}
  <2>1. /\ o.found = <<>>
        /\ o.relaxed = IF hasStockInZone(stock, f.zones, f.operation) THEN "none" ELSE "empty_zone"
    <3>1. o = [found |-> <<>>, relaxed |-> IF hasStockInZone(stock, f.zones, f.operation) THEN NoLabel
                                           ELSE "empty_zone"]
      BY <1>1, <1>5, Zenon DEF search
    <3> QED BY <3>1 DEF NoLabel
  <2>2. \A j \in DOMAIN tries: j < 7 => Hits(stock, f, tries[j]) = {}
    BY <1>1, <1>5
  <2>3. /\ Terms(f, 110, TRUE) = {} /\ Terms(f, Reach(f), TRUE) = {} /\ Terms(f, 125, FALSE) = {}
        /\ Priced(f) => Unpriced(f, TRUE) = {}
        /\ Priced(f) /\ Roomed(f) => Unpriced(f, FALSE) = {}
    <3>1. 1 \in DOMAIN tries /\ RoomsKept(f, tries, 7) /\ BudgetKept(f, tries, 7)
      BY <1>2 DEF BudgetKept
    <3>2. 7 \in Nat /\ 1 < 7
      OBVIOUS
    <3> QED BY <1>2, <2>2, <3>1, <3>2, MissedTerms
  <2>6. Unpriced(f, FALSE) = {}
    <3>1. CASE ~Priced(f)
      <4>1. \A percent, roomy: Terms(f, percent, roomy) = Unpriced(f, roomy)
        BY <3>1, TermsGrow, Zenon
      <4>2. Terms(f, 125, FALSE) = Unpriced(f, FALSE)
        BY <4>1, Zenon
      <4> QED BY <2>3, <4>2
    <3>2. CASE Priced(f) /\ ~Roomed(f)
      <4>1. Unpriced(f, FALSE) = Unpriced(f, TRUE)
        BY <3>2, TermsGrow, Zenon
      <4> QED BY <2>3, <3>2, <4>1
    <3> QED BY <2>3, <3>1, <3>2
  <2>7. o.relaxed = StrictestLabel(f)
    <3>1. StrictestLabel(f) = IF hasStockInZone(stock, f.zones, f.operation) THEN "none" ELSE "empty_zone"
      BY <2>3, <2>6, Zenon DEF StrictestLabel, Reach, hasStockInZone
    <3> QED BY <2>1, <3>1
  <2>4. TermsOf(f, o.relaxed) = {}
    BY <2>1, <2>3 DEF TermsOf
  <2>5. ToSet(o.found) = {} /\ Cardinality({}) = 0
    BY <2>1, FS_EmptySet DEF ToSet
  <2> QED BY <2>4, <2>5, <2>7 DEF NothingBetter
<1>6. CASE lucky # {}
  <2>1. \E i \in lucky: \A j \in lucky: i <= j
    <3>1. lucky \subseteq 1 .. 6
      BY <1>1, <1>2
    <3>2. CASE 1 \in lucky
      BY <3>1, <3>2
    <3>3. CASE 1 \notin lucky /\ 2 \in lucky
      BY <3>1, <3>3
    <3>4. CASE 1 \notin lucky /\ 2 \notin lucky /\ 3 \in lucky
      BY <3>1, <3>4
    <3>5. CASE 1 \notin lucky /\ 2 \notin lucky /\ 3 \notin lucky /\ 4 \in lucky
      BY <3>1, <3>5
    <3>6. CASE 1 \notin lucky /\ 2 \notin lucky /\ 3 \notin lucky /\ 4 \notin lucky /\ 5 \in lucky
      BY <3>1, <3>6
    <3>7. CASE 1 \notin lucky /\ 2 \notin lucky /\ 3 \notin lucky /\ 4 \notin lucky /\ 5 \notin lucky
      <4>1. \A i \in lucky: i = 6
        BY <3>1, <3>7
      <4>2. 6 \in lucky
        BY <1>6, <4>1
      <4> QED BY <4>1, <4>2
    <3> QED BY <3>2, <3>3, <3>4, <3>5, <3>6, <3>7
  <2>2. PICK first: first = CHOOSE i \in lucky: \A j \in lucky: i <= j
    OBVIOUS
  <2>3. first \in lucky /\ \A j \in lucky: first <= j
    BY <2>1, <2>2
  <2>4. PICK t: t = tries[first]
    OBVIOUS
  <2>5. o.found \in query(stock, f, t) /\ o.relaxed = t.label
    <3>1. PICK s \in query(stock, f, t): o = [found |-> s, relaxed |-> t.label]
      BY <1>1, <1>6, <2>2, <2>4, Zenon DEF search
    <3> QED BY <3>1
  <2>6. /\ first \in DOMAIN tries /\ Hits(stock, f, t) # {}
        /\ \A j \in DOMAIN tries: j < first => Hits(stock, f, tries[j]) = {}
    <3>1. first \in DOMAIN tries /\ Hits(stock, f, t) # {}
      BY <1>1, <2>3, <2>4
    <3>2. ASSUME NEW j \in DOMAIN tries, j < first PROVE Hits(stock, f, tries[j]) = {}
      <4>1. j \notin lucky
        BY <1>2, <2>3, <3>1, <3>2
      <4> QED BY <1>1, <4>1
    <3> QED BY <3>1, <3>2
  <2>7. PICK met: met = Hits(stock, f, t)
    OBVIOUS
  <2>15. ASSUME first # 1
         PROVE  /\ Terms(f, 110, TRUE) = {}
                /\ Made(tries, first, Dearer) => Terms(f, 125, TRUE) = {}
                /\ RoomsKept(f, tries, first) => Terms(f, Reach(f), TRUE) = {}
                /\ BudgetKept(f, tries, first) => /\ Terms(f, Reach(f), TRUE) = {}
                                                 /\ Terms(f, 125, FALSE) = {}
                /\ Made(tries, first, OverBudget) => Unpriced(f, TRUE) = {}
    <3>1. first \in Nat /\ 1 < first /\ 1 \in DOMAIN tries
      BY <1>2, <2>6, <2>15
    <3> QED BY <1>2, <2>6, <3>1, MissedTerms DEF BudgetKept
  <2>8. SUFFICES /\ t.label = StrictestLabel(f)
                 /\ TermsOf(f, t.label) = met
                 /\ ByProximity(f, t) <=>
                       f.minRooms # 0 /\ (t.label = "rooms" \/ ~\E p \in met: Roomy(stock[p], f))
    BY <2>5, <2>7, AnswerBest
  <2>9. CASE first = 1
    <3>1. t = AsAsked
      BY <1>2, <2>4, <2>9
    <3>2. met = Terms(f, 110, TRUE) /\ t.label = "none" /\ ~ByProximity(f, t)
      BY <2>7, <3>1, HitsAre, AttemptSays, Zenon
    <3> QED BY <1>3, <2>6, <2>7, <3>2 DEF TermsOf, StrictestLabel
  <2>10. CASE first # 1 /\ t = Dearer
    <3>1. met = Terms(f, 125, TRUE) /\ t.label = "price" /\ ~ByProximity(f, t)
      BY <2>7, <2>10, HitsAre, AttemptSays, Zenon
    <3>4. Terms(f, 125, TRUE) \subseteq Terms(f, 150, TRUE)
      BY TermsGrow, Zenon
    <3>6. Terms(f, 110, TRUE) = {} /\ Terms(f, 125, TRUE) # {} /\ Terms(f, 150, TRUE) # {}
      <4>1. Terms(f, 110, TRUE) = {}
        BY <2>10, <2>15
      <4>2. Terms(f, 125, TRUE) # {}
        BY <2>6, <2>7, <3>1
      <4> QED BY <3>4, <4>1, <4>2, Zenon
    <3>2. Terms(f, 110, TRUE) = {} /\ Terms(f, Reach(f), TRUE) # {}
      <4>1. CASE f.flexible
        BY <3>6, <4>1 DEF Reach
      <4>2. CASE ~f.flexible
        BY <3>6, <4>2 DEF Reach
      <4> QED BY <4>1, <4>2
    <3>3. StrictestLabel(f) = "price"
      BY <3>2, Zenon DEF StrictestLabel, Reach
    <3>5. TermsOf(f, t.label) = met
      BY <2>6, <2>7, <3>1 DEF TermsOf
    <3> QED BY <1>3, <2>6, <2>7, <3>1, <3>3, <3>5
  <2>11. CASE first # 1 /\ t = MuchDearer /\ f.flexible /\ Made(tries, first, Dearer)
    <3>0. t = MuchDearer
      BY <2>11
    <3>4. t = MuchDearer => Hits(stock, f, t) = Terms(f, 150, TRUE)
      BY HitsAre, ZenonT(120)
    <3>1. met = Terms(f, 150, TRUE)
      BY <2>7, <3>0, <3>4, Zenon
    <3>3. t.label = "price" /\ ~ByProximity(f, t)
      BY <3>0, AttemptSays, Zenon
    <3>2. Terms(f, 110, TRUE) = {} /\ Terms(f, 125, TRUE) = {}
      BY <2>11, <2>15
    <3>5. Terms(f, Reach(f), TRUE) # {}
      BY <2>6, <2>7, <2>11, <3>1 DEF Reach
    <3>6. StrictestLabel(f) = "price"
      BY <3>2, <3>5, Zenon DEF StrictestLabel, Reach
    <3>7. TermsOf(f, t.label) = met
      BY <3>1, <3>2, <3>3 DEF TermsOf
    <3> QED BY <1>3, <2>6, <2>7, <3>1, <3>3, <3>6, <3>7
  <2>12. CASE first # 1 /\ t = FewerRooms(f) /\ Roomed(f) /\ RoomsKept(f, tries, first)
    <3>1. met = Terms(f, 125, FALSE) /\ t.label = "rooms" /\ (ByProximity(f, t) <=> Roomed(f))
      BY <2>7, <2>12, HitsAre, AttemptSays, Zenon
    <3>2. Terms(f, 110, TRUE) = {} /\ Terms(f, Reach(f), TRUE) = {} /\ Terms(f, 125, FALSE) # {}
      BY <2>6, <2>7, <2>12, <2>15, <3>1
    <3>3. StrictestLabel(f) = "rooms"
      BY <3>2, Zenon DEF StrictestLabel, Reach
    <3> QED BY <2>12, <3>1, <3>3 DEF TermsOf, Roomed
  <2>16. ASSUME first # 1, BudgetKept(f, tries, first), Unpriced(f, FALSE) # {}
         PROVE  StrictestLabel(f) = "over_budget"
    <3>1. Terms(f, 110, TRUE) = {} /\ Terms(f, Reach(f), TRUE) = {} /\ Terms(f, 125, FALSE) = {}
      BY <2>15, <2>16
    <3> QED BY <2>16, <3>1, Zenon DEF StrictestLabel, Reach
  <2>13. CASE first # 1 /\ t = OverBudget /\ BudgetKept(f, tries, first)
    <3>1. met = Unpriced(f, TRUE) /\ t.label = "over_budget" /\ ~ByProximity(f, t)
      BY <2>7, <2>13, HitsAre, AttemptSays, Zenon
    <3>2. StrictestLabel(f) = "over_budget"
      BY <1>4, <2>6, <2>7, <2>13, <2>16, <3>1
    <3> QED BY <1>4, <2>6, <2>7, <3>1, <3>2 DEF TermsOf
  <2>14. CASE /\ first # 1 /\ t = Anything /\ Roomed(f) /\ BudgetKept(f, tries, first)
              /\ Made(tries, first, OverBudget)
    <3>1. met = Unpriced(f, FALSE) /\ t.label = "over_budget" /\ (ByProximity(f, t) <=> Roomed(f))
      BY <2>7, <2>14, HitsAre, AttemptSays, Zenon
    <3>2. Unpriced(f, TRUE) = {} /\ StrictestLabel(f) = "over_budget"
      BY <2>6, <2>7, <2>14, <2>15, <2>16, <3>1
    <3>3. ~\E p \in met: Roomy(stock[p], f)
      BY <1>4, <3>1, <3>2
    <3> QED BY <2>14, <3>1, <3>2, <3>3 DEF TermsOf, Roomed
  <2> QED BY <1>2, <2>4, <2>6, <2>9, <2>10, <2>11, <2>12, <2>13, <2>14
<1> QED BY <1>5, <1>6

-----------------------------------------------------------------------------
(* The numbers of the stock: every row has them, because what the requests *)
(* carry has.                                                              *)

Carries(q) ==
    /\ q.pc \in {"photos", "wait", "write"} => q.data \in Changes
    /\ q.pc \in {"row", "upsert"} => q.file \in Files /\ q.next \in Nat \ {0}
    /\ q.pc = "upsert" => q.next \in DOMAIN q.file /\ Parses(q.file[q.next])
    /\ q.kind = "import" => q.pc \in {"idle", "row", "upsert"}

RowsInv    == \A p \in Ids: Exists(p) => Numbered(catalog[p].row)
CarriesInv == \A r \in Requests: Carries(req[r])
NumbersInv == RowsInv /\ CarriesInv

LEMMA MergedNumbers ==
    ASSUME NEW data, Numbers(data)
    PROVE  /\ \A row: Numbered(row) => Numbered(Merged(data, row))
           /\ "price" \in DOMAIN data => Numbered(Merged(data, Defaults))
<1>1. ASSUME NEW row, Numbered(row) PROVE Numbered(Merged(data, row))
  <2>1. DOMAIN Merged(data, row) = DOMAIN data \cup DOMAIN row
    BY DEF Merged
  <2>2. \A c \in DOMAIN data \cup DOMAIN row: Merged(data, row)[c] = IF c \in DOMAIN data THEN data[c] ELSE row[c]
    BY DEF Merged
  <2> QED BY <1>1, <2>1, <2>2 DEF Numbered, Numbers
<1>2. ASSUME "price" \in DOMAIN data PROVE Numbered(Merged(data, Defaults))
  <2>1. DOMAIN Merged(data, Defaults) = DOMAIN data \cup {"currency", "rooms", "garage"}
    BY DEF Merged, Defaults
  <2>2. /\ Merged(data, Defaults)["price"] = data["price"]
        /\ Merged(data, Defaults)["rooms"] = IF "rooms" \in DOMAIN data THEN data["rooms"] ELSE 0
    BY <1>2 DEF Merged, Defaults
  <2> QED BY <1>2, <2>1, <2>2 DEF Numbered, Numbers
<1> QED BY <1>1, <1>2

\* Writing one property.
LEMMA RowWritten ==
    ASSUME Shape, RowsInv, NEW p \in Ids, NEW x, catalog' = [catalog EXCEPT ![p] = x],
           x.status \in Listed => Numbered(x.row)
    PROVE  RowsInv'
<1>1. catalog'[p] = x /\ \A i \in Ids \ {p}: catalog'[i] = catalog[i]
  BY DEF Shape
<1> QED BY <1>1 DEF RowsInv, Exists

LEMMA RowsStay == ASSUME RowsInv, UNCHANGED catalog PROVE RowsInv'
  BY DEF RowsInv, Exists

LEMMA InitNumbers == Init => NumbersInv
<1> SUFFICES ASSUME Init PROVE NumbersInv
  OBVIOUS
<1>1. PICK start \in Starts: catalog = start.catalog
  BY DEF Init
<1>2. RowsInv
  BY <1>1, NumbersAssumption DEF RowsInv, Exists
<1>3. CarriesInv
  BY DEF Init, CarriesInv, Carries, Rest
<1> QED BY <1>2, <1>3 DEF NumbersInv

LEMMA NumbersArrive ==
    ASSUME StockInv, NumbersInv, NEW r \in Requests, Arrive(r)
    PROVE  NumbersInv'
<1>s. Shape /\ RowsInv /\ CarriesInv
  BY DEF StockInv, NumbersInv
<1>r. IsRequest(Rest) /\ Rest.pc = "idle"
  BY DEF IsRequest, Fields, Rest
<1>1. ASSUME NEW next, IsRequest(next), Begin(r, next), Carries(next) PROVE CarriesInv'
  <2>1. /\ req'[r] = [next EXCEPT !.alone = (InFlight = {})]
        /\ \A q \in Requests \ {r}: req'[q] = [req[q] EXCEPT !.alone = FALSE]
    BY <1>1, <1>s, BeginOf
  <2>2. /\ req'[r].pc = next.pc /\ req'[r].data = next.data
        /\ req'[r].file = next.file /\ req'[r].next = next.next /\ req'[r].kind = next.kind
    BY <1>1, <2>1 DEF IsRequest, Fields
  <2>3. \A q \in Requests \ {r}: /\ req'[q].pc = req[q].pc /\ req'[q].data = req[q].data
                                 /\ req'[q].file = req[q].file /\ req'[q].next = req[q].next
                                 /\ req'[q].kind = req[q].kind
    BY <1>s, <2>1 DEF IsRequest, Fields, Shape
  <2>4. Carries(next)
    BY <1>1
  <2>5. Carries(req'[r])
    BY <2>2, <2>4 DEF Carries
  <2>6. \A q \in Requests \ {r}: Carries(req'[q])
    BY <1>s, <2>3 DEF CarriesInv, Carries
  <2> QED BY <2>5, <2>6 DEF CarriesInv
<1>2. ASSUME NEW p \in Ids, NEW next, IsRequest(next), Found(r, p, next), Carries(next)
      PROVE  NumbersInv'
  <2>1. IsRequest([next EXCEPT !.id = p]) /\ IsRequest([Rest EXCEPT !.reply = "404"])
    BY <1>2, <1>r DEF IsRequest, Fields
  <2>2. /\ [next EXCEPT !.id = p].pc = next.pc /\ [next EXCEPT !.id = p].data = next.data
        /\ [next EXCEPT !.id = p].file = next.file /\ [next EXCEPT !.id = p].next = next.next
        /\ [next EXCEPT !.id = p].kind = next.kind /\ [Rest EXCEPT !.reply = "404"].pc = "idle"
    BY <1>2 DEF IsRequest, Fields, Rest
  <2>3. Carries([next EXCEPT !.id = p]) /\ Carries([Rest EXCEPT !.reply = "404"])
    BY <1>2, <2>2 DEF Carries
  <2> QED BY <1>1, <1>2, <1>s, <2>1, <2>3, RowsStay DEF Found, NumbersInv
<1>3. CASE Create(r)
  <2>1. PICK new \in NewRows, p \in Ids:
           /\ Fresh(p)
           /\ IF WithRef(new.ref) # {}
              THEN Begin(r, [Rest EXCEPT !.reply = "409"]) /\ UNCHANGED catalog
              ELSE /\ Begin(r, [Rest EXCEPT !.reply = "ok"])
                   /\ catalog' = [catalog EXCEPT ![p] =
                         [status |-> "ACTIVE", row |-> Merged(new.row, Defaults), ref |-> new.ref,
                          photos |-> Rows(r, new.photos)]]
    BY <1>3 DEF Create
  <2>2. \A a \in {"409", "ok"}: IsRequest([Rest EXCEPT !.reply = a]) /\ [Rest EXCEPT !.reply = a].pc = "idle"
    BY <1>r DEF IsRequest, Fields
  <2>3. \A a \in {"409", "ok"}: Carries([Rest EXCEPT !.reply = a])
    BY <2>2 DEF Carries
  <2>4. CarriesInv'
    BY <1>1, <2>1, <2>2, <2>3
  <2>5. RowsInv'
    <3>1. CASE WithRef(new.ref) # {}
      BY <1>s, <2>1, <3>1, RowsStay
    <3>2. CASE WithRef(new.ref) = {}
      <4> DEFINE x == [status |-> "ACTIVE", row |-> Merged(new.row, Defaults), ref |-> new.ref,
                       photos |-> Rows(r, new.photos)]
      <4>1. catalog' = [catalog EXCEPT ![p] = x]
        BY <2>1, <3>2
      <4>2. Numbered(x.row)
        BY NumbersAssumption, MergedNumbers
      <4> HIDE DEF x
      <4> QED BY <1>s, <4>1, <4>2, RowWritten
    <3> QED BY <3>1, <3>2
  <2> QED BY <2>4, <2>5 DEF NumbersInv
<1>4. CASE BeginUpdate(r)
  <2>1. ASSUME NEW data \in Changes
        PROVE  LET next == [Rest EXCEPT !.kind = "update", !.data = data, !.pc = "write"]
               IN IsRequest(next) /\ Carries(next)
    BY <1>r DEF IsRequest, Fields, Carries
  <2>2. ASSUME NEW data \in Changes, NEW urls
        PROVE  LET next == [Rest EXCEPT !.kind = "gallery", !.data = data, !.photos = urls, !.pc = "photos"]
               IN IsRequest(next) /\ Carries(next)
    BY <1>r DEF IsRequest, Fields, Carries
  <2> QED BY <1>2, <1>4, <2>1, <2>2 DEF BeginUpdate
<1>5. CASE BeginStatus(r)
  <2>1. ASSUME NEW s
        PROVE  LET next == [Rest EXCEPT !.kind = "status", !.data = [status |-> s], !.pc = "set"]
               IN IsRequest(next) /\ Carries(next)
    BY <1>r DEF IsRequest, Fields, Carries
  <2> QED BY <1>2, <1>5, <2>1 DEF BeginStatus
<1>6. CASE BeginRemove(r)
  <2>1. LET next == [Rest EXCEPT !.kind = "remove", !.pc = "look"]
        IN IsRequest(next) /\ Carries(next)
    BY <1>r DEF IsRequest, Fields, Carries
  <2> QED BY <1>2, <1>6, <2>1 DEF BeginRemove
<1>7. CASE BeginImport(r)
  <2>1. ASSUME NEW f \in Files
        PROVE  LET next == [Rest EXCEPT !.kind = "import", !.file = f, !.pc = "row"]
               IN IsRequest(next) /\ Carries(next)
    <3>1. PICK next: next = [Rest EXCEPT !.kind = "import", !.file = f, !.pc = "row"]
      OBVIOUS
    <3>2. IsRequest(next) /\ next.pc = "row" /\ next.file = f /\ next.next = Rest.next
      BY <1>r, <3>1 DEF IsRequest, Fields
    <3>3. Rest.next = 1
      BY DEF Rest
    <3>4. Carries(next)
      BY <3>2, <3>3 DEF Carries
    <3> QED BY <3>1, <3>2, <3>4
  <2> QED BY <1>1, <1>7, <1>s, <2>1, RowsStay DEF BeginImport, NumbersInv
<1> QED BY <1>3, <1>4, <1>5, <1>6, <1>7 DEF Arrive

LEMMA NumbersHandle ==
    ASSUME StockInv, NumbersInv, NEW r \in Requests, Handle(r)
    PROVE  NumbersInv'
<1>s. Shape /\ RowsInv /\ CarriesInv /\ IsRequest(req[r]) /\ Carries(req[r])
  BY DEF StockInv, NumbersInv, Shape, CarriesInv
\* A request goes on.
<1>1. ASSUME NEW q \in Requests, NEW next, Step(q, next), IsRequest(next), Carries(next)
      PROVE  CarriesInv'
  BY <1>1, <1>s, StepOf DEF CarriesInv
<1>2. ASSUME NEW q \in Requests, NEW answer, Reply(q, answer)
      PROVE  CarriesInv'
  <2>1. req'[q].pc = "idle" /\ \A i \in Requests \ {q}: req'[i] = req[i]
    BY <1>2, <1>s, GoesOn
  <2>2. Carries(req'[q])
    BY <2>1 DEF Carries
  <2> QED BY <1>s, <2>1, <2>2 DEF CarriesInv
<1>3. ASSUME NEW errors, NextRow(r, errors), req[r].file \in Files, req[r].next \in Nat \ {0}
      PROVE  CarriesInv'
  <2>1. /\ req'[r] = [req[r] EXCEPT !.pc = "row", !.next = @ + 1, !.errors = @ + errors]
        /\ \A i \in Requests \ {r}: req'[i] = req[i]
    BY <1>3, <1>s, GoesOn
  <2>2. req'[r].pc = "row" /\ req'[r].file = req[r].file /\ req'[r].next = req[r].next + 1
    BY <1>s, <2>1 DEF IsRequest, Fields
  <2>3. Carries(req'[r])
    BY <1>3, <2>2 DEF Carries
  <2> QED BY <1>s, <2>1, <2>3 DEF CarriesInv
\* It ends, and one property may have been written.
<1>4. ASSUME NEW failed, NEW p, NEW x, Unless(failed, r, "500", [catalog EXCEPT ![p] = x]),
             ~failed /\ p \in Ids /\ x.status \in Listed => Numbered(x.row)
      PROVE  NumbersInv'
  <2>1. \E answer: Reply(r, answer)
    BY <1>4 DEF Unless
  <2>2. UNCHANGED catalog \/ (~failed /\ catalog' = [catalog EXCEPT ![p] = x])
    BY <1>4 DEF Unless
  <2>3. CASE p \in Ids
    BY <1>2, <1>4, <1>s, <2>1, <2>2, <2>3, RowsStay, RowWritten DEF NumbersInv
  <2>4. CASE p \notin Ids
    <3>1. UNCHANGED catalog
      BY <1>s, <2>2, <2>4 DEF Shape
    <3> QED BY <1>2, <1>s, <2>1, <3>1, RowsStay DEF NumbersInv
  <2> QED BY <2>3, <2>4
<1>5. CASE DeletePhotos(r) \/ PhotosDeleted(r)
  <2>1. req[r].data \in Changes /\ req[r].kind # "import" /\ UNCHANGED catalog
    BY <1>5, <1>s DEF DeletePhotos, PhotosDeleted, Carries
  <2>2. PICK mine: \/ Step(r, [req[r] EXCEPT !.pc = "wait", !.mine = mine])
                   \/ Step(r, [req[r] EXCEPT !.pc = "write", !.mine = mine])
    BY <1>5 DEF DeletePhotos, PhotosDeleted
  <2>3. /\ IsRequest([req[r] EXCEPT !.pc = "wait", !.mine = mine])
        /\ Carries([req[r] EXCEPT !.pc = "wait", !.mine = mine])
    BY <1>s, <2>1 DEF IsRequest, Fields, Carries
  <2>4. /\ IsRequest([req[r] EXCEPT !.pc = "write", !.mine = mine])
        /\ Carries([req[r] EXCEPT !.pc = "write", !.mine = mine])
    BY <1>s, <2>1 DEF IsRequest, Fields, Carries
  <2> QED BY <1>1, <1>s, <2>1, <2>2, <2>3, <2>4, RowsStay DEF NumbersInv
<1>6. CASE CommitUpdate(r)
  <2> DEFINE p == req[r].id
             photos == IF req[r].kind = "gallery"
                       THEN (catalog[p].photos \ req[r].mine) \cup Rows(r, req[r].photos)
                       ELSE catalog[p].photos
             row == Merged(req[r].data, catalog[p].row)
             x == [catalog[p] EXCEPT !.row = row, !.photos = photos]
  <2>1. /\ Unless(~Exists(p), r, "500", [catalog EXCEPT ![p].row = row, ![p].photos = photos])
        /\ req[r].pc = "write"
    BY <1>6 DEF CommitUpdate
  <2>2. Exists(p) /\ p \in Ids => Numbered(row)
    <3>1. Numbers(req[r].data)
      BY <1>s, <2>1, NumbersAssumption DEF Carries
    <3> QED BY <1>s, <3>1, MergedNumbers DEF RowsInv
  <2> HIDE DEF row, photos
  <2>3. [catalog EXCEPT ![p].row = row, ![p].photos = photos] = [catalog EXCEPT ![p] = x]
    BY <1>s DEF Shape
  <2>4. p \in Ids => x.row = row
    BY <1>s DEF Shape, IsProperty
  <2> HIDE DEF p, x
  <2> QED BY <1>4, <2>1, <2>2, <2>3, <2>4
<1>7. CASE CommitStatus(r)
  <2> DEFINE p == req[r].id
             x == [catalog[p] EXCEPT !.status = req[r].data.status]
  <2>1. Unless(~Exists(p), r, "500", [catalog EXCEPT ![p].status = req[r].data.status])
    BY <1>7 DEF CommitStatus
  <2>2. [catalog EXCEPT ![p].status = req[r].data.status] = [catalog EXCEPT ![p] = x]
    BY <1>s DEF Shape
  <2>3. p \in Ids => x.row = catalog[p].row
    BY <1>s DEF Shape, IsProperty
  <2>4. Exists(p) /\ p \in Ids => Numbered(catalog[p].row)
    BY <1>s DEF RowsInv
  <2> HIDE DEF p, x
  <2> QED BY <1>4, <2>1, <2>2, <2>3, <2>4
<1>8. CASE Delete(r)
  <2> DEFINE x == [Blank EXCEPT !.status = "deleted"]
  <2>1. Unless(~Exists(req[r].id), r, "500", [catalog EXCEPT ![req[r].id] = x])
    BY <1>8 DEF Delete
  <2>2. x.status \notin Listed
    BY DEF Blank, Listed
  <2> HIDE DEF x
  <2> QED BY <1>4, <2>1, <2>2
<1>9. CASE LookForVisits(r)
  <2>1. UNCHANGED catalog /\ (Reply(r, "409") \/ Goto(r, "delete"))
    BY <1>9 DEF LookForVisits
  <2>3. req[r].kind # "import"
    BY <1>9, <1>s DEF LookForVisits, Carries
  <2>2. IsRequest([req[r] EXCEPT !.pc = "delete"]) /\ Carries([req[r] EXCEPT !.pc = "delete"])
    BY <1>s, <2>3 DEF IsRequest, Fields, Carries
  <2> QED BY <1>1, <1>2, <1>s, <2>1, <2>2, RowsStay DEF Goto, NumbersInv
<1>10. CASE Deadlock(r)
  <2>1. UNCHANGED catalog
    BY <1>10 DEF Deadlock
  <2>2. PICK q \in Holders(r, req[r].id):
           \/ Reply(q, "500")
           \/ Reply(r, "500")
           \/ NextRow(r, 1) /\ req[r].pc = "upsert"
    <3>1. PICK q \in Holders(r, req[r].id):
             \/ Reply(q, "500")
             \/ req[r].kind = "remove" /\ Reply(r, "500")
             \/ req[r].kind = "import" /\ NextRow(r, 1)
      BY <1>10 DEF Deadlock, NextRow
    <3>2. req[r].pc \in {"delete", "upsert"}
      BY <1>10, Zenon DEF Deadlock
    <3>3. req[r].kind = "import" => req[r].pc = "upsert"
      BY <1>s, <3>2 DEF Carries
    <3> QED BY <3>1, <3>3
  <2>3. q \in Requests
    BY DEF Holders
  <2>4. req[r].pc = "upsert" => req[r].file \in Files /\ req[r].next \in Nat \ {0}
    BY <1>s DEF Carries
  <2> QED BY <1>2, <1>3, <1>s, <2>1, <2>2, <2>3, <2>4, RowsStay DEF NumbersInv
<1>11. CASE LookUpRow(r)
  <2>1. UNCHANGED catalog /\ req[r].file \in Files /\ req[r].next \in Nat \ {0}
    BY <1>11, <1>s DEF LookUpRow, Carries
  <2>2. \/ Reply(r, "ok") \/ NextRow(r, 1)
        \/ /\ ~(req[r].next > Len(req[r].file)) /\ Parses(req[r].file[req[r].next])
           /\ \E id: Step(r, [req[r] EXCEPT !.pc = "upsert", !.id = id])
    BY <1>11 DEF LookUpRow
  <2>3. ASSUME NEW id, ~(req[r].next > Len(req[r].file)), Parses(req[r].file[req[r].next])
        PROVE  IsRequest([req[r] EXCEPT !.pc = "upsert", !.id = id])
               /\ Carries([req[r] EXCEPT !.pc = "upsert", !.id = id])
    <3>1. PICK x: x = [req[r] EXCEPT !.pc = "upsert", !.id = id]
      OBVIOUS
    <3>2. IsRequest(x) /\ x.pc = "upsert" /\ x.file = req[r].file /\ x.next = req[r].next
      BY <1>s, <3>1 DEF IsRequest, Fields
    <3>3. req[r].next \in DOMAIN req[r].file
      BY <2>1, <2>3, FileDomain
    <3>4. Carries(x)
      BY <2>1, <2>3, <3>2, <3>3 DEF Carries
    <3> QED BY <3>1, <3>2, <3>4
  <2> QED BY <1>1, <1>2, <1>3, <1>s, <2>1, <2>2, <2>3, RowsStay DEF NumbersInv
<1>12. CASE UpsertRow(r)
  <2>1. PICK record: record = req[r].file[req[r].next]
    OBVIOUS
  <2>2. /\ req[r].file \in Files /\ req[r].next \in Nat \ {0} /\ req[r].next \in DOMAIN req[r].file
        /\ Parses(record)
    BY <1>12, <1>s, <2>1 DEF UpsertRow, Carries
  <2>3. Numbers(record.cells) /\ "price" \in DOMAIN record.cells
    BY <2>1, <2>2, NumbersAssumption DEF Parses
  <2>4. CarriesInv'
    <3>1. \E errors: NextRow(r, errors)
      BY <1>12 DEF UpsertRow
    <3> QED BY <1>3, <2>2, <3>1
  <2>5. RowsInv'
    <3>1. CASE UNCHANGED catalog
      BY <1>s, <3>1, RowsStay
    <3>2. CASE /\ Exists(req[r].id)
               /\ catalog' = [catalog EXCEPT ![req[r].id] = Imported(catalog[req[r].id], record, r)]
      <4>1. CASE req[r].id \in Ids
        <5>1. PICK p \in Ids: p = req[r].id
          BY <4>1
        <5>2. PICK x: x = Imported(catalog[p], record, r)
          OBVIOUS
        <5>3. x.row = Merged(record.cells, catalog[p].row)
          BY <1>s, <5>2 DEF Shape, IsProperty, Imported
        <5>4. Numbered(x.row)
          BY <1>s, <2>3, <3>2, <5>1, <5>3, MergedNumbers DEF RowsInv
        <5> QED BY <1>s, <3>2, <5>1, <5>2, <5>4, RowWritten
      <4>2. CASE req[r].id \notin Ids
        <5>1. UNCHANGED catalog
          BY <1>s, <3>2, <4>2 DEF Shape
        <5> QED BY <1>s, <5>1, RowsStay
      <4> QED BY <4>1, <4>2
    <3>3. CASE \E new \in Ids:
                 catalog' = [catalog EXCEPT ![new] =
                     [status |-> "ACTIVE", row |-> Merged(record.cells, Defaults),
                      ref |-> record.ref, photos |-> Rows(r, record.photos)]]
      <4>0. PICK new \in Ids: catalog' = [catalog EXCEPT ![new] =
                [status |-> "ACTIVE", row |-> Merged(record.cells, Defaults),
                 ref |-> record.ref, photos |-> Rows(r, record.photos)]]
        BY <3>3
      <4>1. PICK x: x = [status |-> "ACTIVE", row |-> Merged(record.cells, Defaults),
                         ref |-> record.ref, photos |-> Rows(r, record.photos)]
        OBVIOUS
      <4>2. Numbered(x.row)
        BY <2>3, <4>1, MergedNumbers
      <4> QED BY <1>s, <4>0, <4>1, <4>2, RowWritten
    <3> QED BY <1>12, <2>1, <3>1, <3>2, <3>3 DEF UpsertRow
  <2> QED BY <2>4, <2>5 DEF NumbersInv
<1> QED BY <1>5, <1>6, <1>7, <1>8, <1>9, <1>10, <1>11, <1>12 DEF Handle

LEMMA StepNumbers == StockInv /\ NumbersInv /\ [Next]_vars => NumbersInv'
<1> SUFFICES ASSUME StockInv, NumbersInv, [Next]_vars PROVE NumbersInv'
  OBVIOUS
<1>1. ASSUME NEW r \in Requests, Arrive(r) \/ Handle(r) PROVE NumbersInv'
  BY <1>1, NumbersArrive, NumbersHandle
<1>2. CASE Resolve \/ Book \/ UNCHANGED vars
  BY <1>2, RowsStay DEF Resolve, Book, vars, NumbersInv, CarriesInv
<1>3. CASE ServerDies
  <2>1. /\ req' = [r \in Requests |-> IF r \in InFlight THEN Rest ELSE req[r]] /\ UNCHANGED catalog
    BY <1>3 DEF ServerDies
  <2>2. Carries(Rest)
    BY DEF Carries, Rest
  <2> QED BY <2>1, <2>2, RowsStay DEF NumbersInv, CarriesInv
<1> QED BY <1>1, <1>2, <1>3 DEF Next

(* NothingBetterLeftOut: no attempt that finds something comes after one   *)
(* whose terms give up more, its label says which terms those are, and its *)
(* sort leaves out nothing that is cheaper or closer to the rooms asked    *)
(* for, whatever the stock the requests have made and the filters of the   *)
(* lead.                                                                   *)
THEOREM BestIsShown == Spec => []NothingBetterLeftOut
<1>1. NumbersInv => NothingBetterLeftOut
  <2> SUFFICES ASSUME RowsInv, NEW f \in Filters, NEW o \in search(stock, f)
               PROVE  o.relaxed = StrictestLabel(f) /\ NothingBetter(f, o, TermsOf(f, o.relaxed))
    BY DEF NumbersInv, NothingBetterLeftOut, NothingBetter
  <2>1. Typed(f)
    BY NumbersAssumption DEF Typed
  <2>2. StockTyped
    <3>1. DOMAIN stock = {q \in Ids: catalog[q].status = "ACTIVE"}
      BY DEF stock
    <3>2. \A p \in DOMAIN stock: stock[p] = catalog[p].row /\ Exists(p) /\ p \in Ids
      BY DEF stock, Exists, Listed
    <3>3. DOMAIN stock \subseteq Nat /\ IsFiniteSet(DOMAIN stock)
      BY <3>1, NumbersAssumption, FS_Subset
    <3> QED BY <3>2, <3>3 DEF StockTyped, RowsInv, Numbered, Numbers
  <2> QED BY <2>1, <2>2, SearchBest
<1> QED BY <1>1, InitNumbers, StepNumbers, AlwaysStock, PTL DEF Spec
=============================================================================
