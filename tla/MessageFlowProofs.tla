--------------------------- MODULE MessageFlowProofs ---------------------------
(***************************************************************************)
(* What holds of the messages of a lead for any payloads, any number of    *)
(* webhook requests, workers, attempts, faults and suppressions.           *)
(***************************************************************************)
EXTENDS MessageFlow, TLAPS

-----------------------------------------------------------------------------
(* From the webhook to the jobs.                                           *)

InType ==
    /\ event \subseteq Inbound /\ old \subseteq Inbound
    /\ arrived \subseteq Inbound /\ row \subseteq Inbound
    /\ req \in [Requests -> [pc: ReqPcs, msgs: Seq(Inbound)]]
    /\ \A r \in Requests : req[r].pc = "idle" <=> req[r].msgs = <<>>
    /\ jobs \in [Inbound -> Nat]

(* Request r has recorded the event of m and goes on with it.              *)
Holds(r, m) == req[r].pc \in {"lead", "save", "enqueue"} /\ Current(r) = m

(* What was recorded is in the table until nobody repeats it any more.     *)
KnownInv ==
    \A m \in Inbound :
        jobs[m] > 0 \/ (\E r \in Requests : Holds(r, m)) => m \in event \cup old
FreshInv == \A r \in Requests : ToSet(req[r].msgs) \cap old = {}

(* Of several requests with one message, one alone got past the table.     *)
OneHolder == \A r, q \in Requests, m \in Inbound : Holds(r, m) /\ Holds(q, m) => r = q
HolderFirst == \A r \in Requests, m \in Inbound : Holds(r, m) => jobs[m] = 0

(* What is known was enqueued, or its own processing threw, or somebody is *)
(* still at it; and so is what has a row.                                  *)
SeenInv ==
    \A m \in event \cup old :
        jobs[m] = 1 \/ m \in faulted \/ \E r \in Requests : Holds(r, m)
RowInv ==
    \A m \in row :
        \/ jobs[m] = 1 \/ m \in faulted
        \/ \E r \in Requests : Holds(r, m) /\ req[r].pc = "enqueue"

(* Only a suppression takes the lead away between two awaits.              *)
LeadInv == \A r \in Requests : req[r].pc \in {"save", "enqueue"} => lead \/ Current(r) \in faulted

InInv ==
    /\ InType /\ KnownInv /\ FreshInv /\ OneHolder /\ HolderFirst
    /\ SeenInv /\ RowInv /\ LeadInv
    /\ EnqueuedOnce /\ LostOnlyByItsOwnFault

LEMMA HeadTail ==
    ASSUME NEW S, NEW s \in Seq(S), s # <<>>
    PROVE  /\ Head(s) \in S /\ Tail(s) \in Seq(S) /\ Head(s) \in ToSet(s)
           /\ ToSet(Tail(s)) \subseteq ToSet(s)
           /\ ToSet(s) \subseteq {Head(s)} \cup ToSet(Tail(s))
           /\ Len(s) = 1 <=> Tail(s) = <<>>
<1>1. Head(s) \in S /\ Tail(s) \in Seq(S) OBVIOUS
<1>5. ASSUME NEW t \in Seq(S) PROVE t = <<>> <=> Len(t) = 0 OBVIOUS
<1>6. Tail(s) = <<>> <=> Len(Tail(s)) = 0 BY <1>1, <1>5, Zenon
<1>7. Len(s) = 1 <=> Len(Tail(s)) = 0 OBVIOUS
<1>8. Len(s) = 1 <=> Tail(s) = <<>> BY <1>6, <1>7, Zenon
<1>2. Head(s) \in ToSet(s)
  <2>1. 1 \in DOMAIN s /\ s[1] = Head(s) OBVIOUS
  <2> QED BY <2>1 DEF ToSet
<1>3. ASSUME NEW x \in ToSet(Tail(s)) PROVE x \in ToSet(s)
  <2> PICK i \in DOMAIN Tail(s) : Tail(s)[i] = x BY DEF ToSet
  <2>1. i + 1 \in DOMAIN s /\ s[i + 1] = x BY <1>1
  <2> QED BY <2>1 DEF ToSet
<1>4. ASSUME NEW x \in ToSet(s), x # Head(s) PROVE x \in ToSet(Tail(s))
  <2> PICK i \in DOMAIN s : s[i] = x BY DEF ToSet
  <2>1. i # 1 BY <1>4
  <2>2. i - 1 \in DOMAIN Tail(s) /\ Tail(s)[i - 1] = x BY <1>1, <2>1
  <2> QED BY <2>2 DEF ToSet
<1> QED BY <1>1, <1>2, <1>3, <1>4, <1>8

LEMMA InitInInv == Init => InInv
  BY DEF Init, InInv, InType, KnownInv, FreshInv, OneHolder, HolderFirst, SeenInv, RowInv, LeadInv,
         EnqueuedOnce, LostOnlyByItsOwnFault, Holds, ReqPcs, ToSet

(* What leaves the requests and what they wrote alone.                     *)
LEMMA InQuiet ==
    ASSUME InInv, UNCHANGED <<event, old, req, row, jobs, arrived>>,
           faulted \subseteq faulted', lead => lead'
    PROVE  InInv'
  BY DEF InInv, InType, KnownInv, FreshInv, OneHolder, HolderFirst, SeenInv, RowInv, LeadInv,
         EnqueuedOnce, LostOnlyByItsOwnFault, Holds, Current

(* The message a request is at.                                            *)
LEMMA AtCurrent ==
    ASSUME InType, NEW r \in Requests, req[r].pc # "idle"
    PROVE  /\ Current(r) \in Inbound /\ Current(r) \in ToSet(req[r].msgs)
           /\ req[r].msgs \in Seq(Inbound) /\ req[r].msgs # <<>>
  BY HeadTail DEF InType, Current

(* On with the next message, or the 200.                                   *)
LEMMA Advance ==
    ASSUME InType, NEW r \in Requests, req[r].pc # "idle", NextMessage(r)
    PROVE  /\ req' \in [Requests -> [pc: ReqPcs, msgs: Seq(Inbound)]]
           /\ \A q \in Requests : req'[q].pc = "idle" <=> req'[q].msgs = <<>>
           /\ \A q \in Requests : q # r => req'[q] = req[q]
           /\ req'[r].pc \in {"idle", "record"}
           /\ ToSet(req'[r].msgs) \subseteq ToSet(req[r].msgs)
           /\ ToSet(req[r].msgs) \subseteq {Current(r)} \cup ToSet(req'[r].msgs)
<1> DEFINE s == req[r].msgs
<1>1. s \in Seq(Inbound) /\ s # <<>> BY AtCurrent
<1>2. /\ Tail(s) \in Seq(Inbound) /\ ToSet(Tail(s)) \subseteq ToSet(s)
      /\ ToSet(s) \subseteq {Head(s)} \cup ToSet(Tail(s)) /\ (Len(s) = 1 <=> Tail(s) = <<>>)
  BY <1>1, HeadTail
<1> DEFINE rec == [pc |-> IF Len(s) = 1 THEN "idle" ELSE "record", msgs |-> Tail(s)]
<1>3. req' = [req EXCEPT ![r] = rec] BY DEF NextMessage
<1>4. rec \in [pc: ReqPcs, msgs: Seq(Inbound)] /\ (rec.pc = "idle" <=> rec.msgs = <<>>)
      /\ rec.pc \in {"idle", "record"} /\ rec.msgs = Tail(s)
  BY <1>2 DEF ReqPcs
<1> HIDE DEF rec
<1>5. req'[r] = rec /\ \A q \in Requests : q # r => req'[q] = req[q] BY <1>3 DEF InType
<1> QED BY <1>2, <1>3, <1>4, <1>5 DEF InType, Current

LEMMA AdvanceHolds ==
    ASSUME InType, NEW r \in Requests, req[r].pc # "idle", NextMessage(r)
    PROVE  \A q \in Requests, n \in Inbound :
              Holds(q, n)' <=> q # r /\ Holds(q, n)
  BY Advance DEF Holds, Current

(* A request is done with its message m: it was enqueued, or threw, or is  *)
(* in the hands of another request.                                        *)
LEMMA Finished ==
    ASSUME InInv, NEW r \in Requests, req[r].pc # "idle", NextMessage(r),
           UNCHANGED <<event, old, row, arrived, lead>>, faulted \subseteq faulted',
           \/ jobs' = jobs
           \/ Holds(r, Current(r)) /\ jobs' = [jobs EXCEPT ![Current(r)] = @ + 1],
           \/ jobs'[Current(r)] = 1 \/ Current(r) \in faulted'
           \/ \E q \in Requests : q # r /\ Holds(q, Current(r))
    PROVE  InInv'
<1> DEFINE m == Current(r)
<1>0. /\ InType /\ KnownInv /\ FreshInv /\ OneHolder /\ HolderFirst /\ SeenInv /\ RowInv /\ LeadInv
      /\ EnqueuedOnce /\ LostOnlyByItsOwnFault
  BY DEF InInv
<1>1. m \in Inbound /\ m \in ToSet(req[r].msgs) BY <1>0, AtCurrent
<1>2. \A q \in Requests, n \in Inbound : Holds(q, n)' <=> q # r /\ Holds(q, n)
  BY <1>0, AdvanceHolds
<1>3. /\ req' \in [Requests -> [pc: ReqPcs, msgs: Seq(Inbound)]]
      /\ \A q \in Requests : req'[q].pc = "idle" <=> req'[q].msgs = <<>>
      /\ \A q \in Requests : q # r => req'[q] = req[q]
      /\ req'[r].pc \in {"idle", "record"}
      /\ ToSet(req'[r].msgs) \subseteq ToSet(req[r].msgs)
      /\ ToSet(req[r].msgs) \subseteq {m} \cup ToSet(req'[r].msgs)
  BY <1>0, Advance
<1>4. /\ \A n \in Inbound : n # m => jobs'[n] = jobs[n]
      /\ jobs'[m] = jobs[m] \/ (Holds(r, m) /\ jobs[m] = 0 /\ jobs'[m] = 1)
      /\ jobs' \in [Inbound -> Nat]
  <2>1. CASE jobs' = jobs BY <1>0, <2>1 DEF InType
  <2>2. CASE Holds(r, m) /\ jobs' = [jobs EXCEPT ![m] = @ + 1]
    <3>1. jobs[m] = 0 BY <1>0, <1>1, <2>2 DEF HolderFirst
    <3> HIDE DEF m
    <3> QED BY <1>0, <1>1, <2>2, <3>1 DEF InType
  <2> QED BY <2>1, <2>2
<1>5. jobs'[m] = 1 \/ m \in faulted' \/ \E q \in Requests : q # r /\ Holds(q, m)
  OBVIOUS
<1>6. \A n \in Inbound : jobs[n] = 1 => jobs'[n] = 1 BY <1>4
<1> HIDE DEF m
<1>7. InType' BY <1>0, <1>3, <1>4 DEF InType
<1>8. KnownInv' BY <1>0, <1>1, <1>2, <1>4 DEF KnownInv, InType
<1>9. FreshInv' BY <1>0, <1>3 DEF FreshInv
<1>10. OneHolder' BY <1>0, <1>2 DEF OneHolder
<1>11. HolderFirst' BY <1>0, <1>1, <1>2, <1>4 DEF HolderFirst, OneHolder
<1>12. \A q \in Requests, n \in Inbound : Holds(q, n) /\ q = r => n = m BY DEF Holds, m
<1>13. SeenInv'
  <2> SUFFICES ASSUME NEW n \in event \cup old
               PROVE  jobs'[n] = 1 \/ n \in faulted' \/ \E q \in Requests : Holds(q, n)'
    BY DEF SeenInv
  <2>1. n \in Inbound BY <1>0 DEF InType
  <2> QED BY <1>0, <1>2, <1>5, <1>6, <1>12, <2>1 DEF SeenInv
<1>14. RowInv'
  <2> SUFFICES ASSUME NEW n \in row
               PROVE  \/ jobs'[n] = 1 \/ n \in faulted'
                      \/ \E q \in Requests : Holds(q, n)' /\ req'[q].pc = "enqueue"
    BY DEF RowInv
  <2>1. n \in Inbound BY <1>0 DEF InType
  <2>2. CASE jobs[n] = 1 \/ n \in faulted BY <1>6, <2>1, <2>2
  <2>3. ASSUME NEW q \in Requests, Holds(q, n), req[q].pc = "enqueue", q # r
        PROVE  Holds(q, n)' /\ req'[q].pc = "enqueue"
    BY <1>2, <1>3, <2>1, <2>3
  <2>4. ASSUME Holds(r, n) PROVE jobs'[n] = 1 \/ n \in faulted'
    BY <1>0, <1>5, <1>12, <2>1, <2>4 DEF OneHolder
  <2> QED BY <1>0, <2>2, <2>3, <2>4 DEF RowInv
<1>15. LeadInv' BY <1>0, <1>3 DEF LeadInv, Current
<1>16. EnqueuedOnce' BY <1>0, <1>4 DEF EnqueuedOnce
<1>17. LostOnlyByItsOwnFault'
  <2> SUFFICES ASSUME NEW n \in arrived, n \notin faulted'
               PROVE  jobs'[n] = 1 \/ \E q \in Requests : n \in ToSet(req'[q].msgs)
    BY DEF LostOnlyByItsOwnFault
  <2>1. n \in Inbound BY <1>0 DEF InType
  <2>2. CASE jobs[n] = 1 BY <1>6, <2>1, <2>2
  <2>3. ASSUME NEW q \in Requests, q # r, n \in ToSet(req[q].msgs)
        PROVE  n \in ToSet(req'[q].msgs)
    BY <1>3, <2>3
  <2>4. CASE n \in ToSet(req'[r].msgs) BY <2>4
  <2>5. CASE n = m
    <3>1. ASSUME NEW q \in Requests, q # r, Holds(q, m) PROVE m \in ToSet(req[q].msgs)
      BY <1>0, <3>1, AtCurrent DEF Holds
    <3> QED BY <1>5, <2>3, <2>5, <3>1
  <2> QED BY <1>0, <1>3, <2>2, <2>3, <2>4, <2>5 DEF LostOnlyByItsOwnFault
<1> QED BY <1>7, <1>8, <1>9, <1>10, <1>11, <1>13, <1>14, <1>15, <1>16, <1>17 DEF InInv

LEMMA GotoHolds ==
    ASSUME InType, NEW r \in Requests, NEW pc \in {"lead", "save", "enqueue"},
           req[r].pc # "idle", Goto(r, pc)
    PROVE  /\ req' \in [Requests -> [pc: ReqPcs, msgs: Seq(Inbound)]]
           /\ \A q \in Requests : req'[q].pc = "idle" <=> req'[q].msgs = <<>>
           /\ \A q \in Requests : q # r => req'[q] = req[q]
           /\ req'[r].pc = pc /\ req'[r].msgs = req[r].msgs
           /\ \A q \in Requests : Current(q)' = Current(q)
           /\ \A q \in Requests, n \in Inbound :
                 Holds(q, n)' <=> Holds(q, n) \/ (q = r /\ n = Current(r))
<1>1. req' = [req EXCEPT ![r] = [req[r] EXCEPT !.pc = pc]] BY DEF Goto, InType
<1>2. /\ \A q \in Requests : q # r => req'[q] = req[q]
      /\ req'[r].pc = pc /\ req'[r].msgs = req[r].msgs
      /\ req' \in [Requests -> [pc: ReqPcs, msgs: Seq(Inbound)]]
  BY <1>1 DEF InType, ReqPcs
<1>3. \A q \in Requests : req'[q].pc = "idle" <=> req'[q].msgs = <<>>
  BY <1>2 DEF InType
<1>4. \A q \in Requests : Current(q)' = Current(q)
  BY <1>2 DEF Current
<1> QED BY <1>2, <1>3, <1>4 DEF Holds

LEMMA RecordStep ==
    ASSUME InInv, NEW r \in Requests, recordWebhookEvent(r)
    PROVE  InInv'
<1> DEFINE m == Current(r)
<1>0. /\ InType /\ KnownInv /\ FreshInv /\ OneHolder /\ HolderFirst /\ SeenInv /\ RowInv /\ LeadInv
      /\ EnqueuedOnce /\ LostOnlyByItsOwnFault
  BY DEF InInv
<1>1. req[r].pc = "record" /\ m \in Inbound /\ m \in ToSet(req[r].msgs)
  BY <1>0, AtCurrent DEF recordWebhookEvent, Handling
<1>2. UNCHANGED <<arrived, old, lead, row, jobs, faulted>> BY DEF recordWebhookEvent
<1>3. CASE m \in event
  <2>1. NextMessage(r) /\ event' = event BY <1>3 DEF recordWebhookEvent
  <2>2. \A n \in Inbound : ~Holds(r, n) BY <1>1 DEF Holds
  <2>3. jobs[m] = 1 \/ m \in faulted \/ \E q \in Requests : q # r /\ Holds(q, m)
    BY <1>0, <1>1, <1>3, <2>2 DEF SeenInv
  <2> QED BY <1>1, <1>2, <2>1, <2>3, Finished
<1>4. CASE m \notin event
  <2>1. Goto(r, "lead") /\ event' = event \cup {m} BY <1>4 DEF recordWebhookEvent
  <2>2. /\ req' \in [Requests -> [pc: ReqPcs, msgs: Seq(Inbound)]]
        /\ \A q \in Requests : req'[q].pc = "idle" <=> req'[q].msgs = <<>>
        /\ \A q \in Requests : q # r => req'[q] = req[q]
        /\ req'[r].pc = "lead" /\ req'[r].msgs = req[r].msgs
        /\ \A q \in Requests : Current(q)' = Current(q)
        /\ \A q \in Requests, n \in Inbound :
              Holds(q, n)' <=> Holds(q, n) \/ (q = r /\ n = m)
    BY <1>0, <1>1, <2>1, GotoHolds
  <2>3. m \notin old BY <1>0, <1>1 DEF FreshInv
  <2>4. jobs[m] = 0 /\ \A q \in Requests : ~Holds(q, m)
    BY <1>0, <1>1, <1>4, <2>3 DEF KnownInv, InType
  <2> HIDE DEF m
  <2>5. InType' BY <1>0, <1>1, <1>2, <2>1, <2>2 DEF InType
  <2>6. KnownInv' BY <1>0, <1>1, <1>2, <2>1, <2>2 DEF KnownInv
  <2>7. FreshInv' BY <1>0, <1>2, <2>2 DEF FreshInv
  <2>8. OneHolder' BY <1>0, <2>2, <2>4 DEF OneHolder
  <2>9. HolderFirst' BY <1>0, <1>2, <2>2, <2>4 DEF HolderFirst
  <2>10. SeenInv'
    <3> SUFFICES ASSUME NEW n \in event' \cup old'
                 PROVE  jobs'[n] = 1 \/ n \in faulted' \/ \E q \in Requests : Holds(q, n)'
      BY DEF SeenInv
    <3>1. n \in Inbound /\ (n \in event \cup old \/ n = m) BY <1>0, <1>1, <1>2, <2>1 DEF InType
    <3> QED BY <1>0, <1>2, <2>2, <3>1 DEF SeenInv
  <2>11. RowInv'
    <3> SUFFICES ASSUME NEW n \in row
                 PROVE  \/ jobs[n] = 1 \/ n \in faulted
                        \/ \E q \in Requests : Holds(q, n)' /\ req'[q].pc = "enqueue"
      BY <1>2 DEF RowInv
    <3>1. n \in Inbound BY <1>0 DEF InType
    <3>2. ASSUME NEW q \in Requests, Holds(q, n), req[q].pc = "enqueue"
          PROVE  Holds(q, n)' /\ req'[q].pc = "enqueue"
      BY <1>1, <2>2, <3>1, <3>2
    <3> QED BY <1>0, <3>2 DEF RowInv
  <2>12. LeadInv' BY <1>0, <1>2, <2>2 DEF LeadInv
  <2>13. EnqueuedOnce' BY <1>0, <1>2 DEF EnqueuedOnce
  <2>14. LostOnlyByItsOwnFault' BY <1>0, <1>2, <2>2 DEF LostOnlyByItsOwnFault
  <2> QED BY <2>5, <2>6, <2>7, <2>8, <2>9, <2>10, <2>11, <2>12, <2>13, <2>14 DEF InInv
<1> QED BY <1>3, <1>4

LEMMA LeadStep ==
    ASSUME InInv, NEW r \in Requests, findOrCreateByPhone(r)
    PROVE  InInv'
<1>0. /\ InType /\ KnownInv /\ FreshInv /\ OneHolder /\ HolderFirst /\ SeenInv /\ RowInv /\ LeadInv
      /\ EnqueuedOnce /\ LostOnlyByItsOwnFault
  BY DEF InInv
<1>1. req[r].pc = "lead" /\ lead' = TRUE /\ Goto(r, "save")
      /\ UNCHANGED <<arrived, event, old, row, jobs, faulted>>
  BY DEF findOrCreateByPhone, Handling
<1>2. /\ req' \in [Requests -> [pc: ReqPcs, msgs: Seq(Inbound)]]
      /\ \A q \in Requests : req'[q].pc = "idle" <=> req'[q].msgs = <<>>
      /\ \A q \in Requests : q # r => req'[q] = req[q]
      /\ req'[r].pc = "save" /\ req'[r].msgs = req[r].msgs
      /\ \A q \in Requests, n \in Inbound : Holds(q, n)' <=> Holds(q, n) \/ (q = r /\ n = Current(r))
  BY <1>0, <1>1, GotoHolds
<1>3. \A q \in Requests, n \in Inbound : Holds(q, n)' <=> Holds(q, n)
  BY <1>1, <1>2 DEF Holds
<1>4. InType' BY <1>0, <1>1, <1>2 DEF InType
<1>5. KnownInv' /\ OneHolder' /\ HolderFirst'
  BY <1>0, <1>1, <1>3 DEF KnownInv, OneHolder, HolderFirst
<1>6. FreshInv' BY <1>0, <1>1, <1>2 DEF FreshInv
<1>7. SeenInv' BY <1>0, <1>1, <1>3 DEF SeenInv, InType
<1>8. RowInv'
  <2> SUFFICES ASSUME NEW n \in row
               PROVE  \/ jobs[n] = 1 \/ n \in faulted
                      \/ \E q \in Requests : Holds(q, n)' /\ req'[q].pc = "enqueue"
    BY <1>1 DEF RowInv
  <2>1. n \in Inbound BY <1>0 DEF InType
  <2>2. ASSUME NEW q \in Requests, Holds(q, n), req[q].pc = "enqueue"
        PROVE  Holds(q, n)' /\ req'[q].pc = "enqueue"
    BY <1>1, <1>2, <2>1, <2>2
  <2> QED BY <1>0, <2>2 DEF RowInv
<1>9. LeadInv' BY <1>1 DEF LeadInv
<1>10. EnqueuedOnce' BY <1>0, <1>1 DEF EnqueuedOnce
<1>11. LostOnlyByItsOwnFault' BY <1>0, <1>1, <1>2 DEF LostOnlyByItsOwnFault
<1> QED BY <1>4, <1>5, <1>6, <1>7, <1>8, <1>9, <1>10, <1>11 DEF InInv

(* A row is refused only to a message that a suppression has taken: nobody *)
(* else can have saved it.                                                 *)
LEMMA SaveStep ==
    ASSUME InInv, NEW r \in Requests, SaveMessage(r)
    PROVE  InInv'
<1> DEFINE m == Current(r)
<1>0. /\ InType /\ KnownInv /\ FreshInv /\ OneHolder /\ HolderFirst /\ SeenInv /\ RowInv /\ LeadInv
      /\ EnqueuedOnce /\ LostOnlyByItsOwnFault
  BY DEF InInv
<1>1. req[r].pc = "save" /\ m \in Inbound /\ Holds(r, m)
  BY <1>0, AtCurrent DEF SaveMessage, Handling, Holds
<1>2. UNCHANGED <<arrived, event, old, lead, jobs, faulted>> BY DEF SaveMessage
<1>3. CASE ~(lead /\ m \notin row)
  <2>1. NextMessage(r) /\ row' = row BY <1>3 DEF SaveMessage
  <2>2. CASE ~lead
    <3>1. m \in faulted BY <1>0, <1>1, <2>2 DEF LeadInv
    <3> QED BY <1>1, <1>2, <2>1, <3>1, Finished
  <2>3. CASE m \in row
    <3>1. jobs[m] = 0 BY <1>0, <1>1 DEF HolderFirst
    <3>2. \A q \in Requests : Holds(q, m) => req[q].pc = "save"
      BY <1>0, <1>1 DEF OneHolder
    <3>3. m \in faulted BY <1>0, <2>3, <3>1, <3>2 DEF RowInv
    <3> QED BY <1>1, <1>2, <2>1, <3>3, Finished
  <2> QED BY <1>3, <2>2, <2>3
<1>4. CASE lead /\ m \notin row
  <2>1. Goto(r, "enqueue") /\ row' = row \cup {m} BY <1>4 DEF SaveMessage
  <2>2. /\ req' \in [Requests -> [pc: ReqPcs, msgs: Seq(Inbound)]]
        /\ \A q \in Requests : req'[q].pc = "idle" <=> req'[q].msgs = <<>>
        /\ \A q \in Requests : q # r => req'[q] = req[q]
        /\ req'[r].pc = "enqueue" /\ req'[r].msgs = req[r].msgs
        /\ \A q \in Requests, n \in Inbound :
              Holds(q, n)' <=> Holds(q, n) \/ (q = r /\ n = m)
    BY <1>0, <1>1, <2>1, GotoHolds
  <2> HIDE DEF m
  <2>3. \A q \in Requests, n \in Inbound : Holds(q, n)' <=> Holds(q, n)
    BY <1>1, <2>2
  <2>4. InType' BY <1>0, <1>1, <1>2, <2>1, <2>2 DEF InType
  <2>5. KnownInv' /\ OneHolder' /\ HolderFirst'
    BY <1>0, <1>2, <2>3 DEF KnownInv, OneHolder, HolderFirst
  <2>6. FreshInv' BY <1>0, <1>2, <2>2 DEF FreshInv
  <2>7. SeenInv' BY <1>0, <1>2, <2>3 DEF SeenInv, InType
  <2>8. RowInv'
    <3> SUFFICES ASSUME NEW n \in row'
                 PROVE  \/ jobs[n] = 1 \/ n \in faulted
                        \/ \E q \in Requests : Holds(q, n)' /\ req'[q].pc = "enqueue"
      BY <1>2 DEF RowInv
    <3>1. n \in Inbound /\ (n \in row \/ n = m) BY <1>0, <1>1, <2>1 DEF InType
    <3>2. ASSUME NEW q \in Requests, Holds(q, n), req[q].pc = "enqueue"
          PROVE  Holds(q, n)' /\ req'[q].pc = "enqueue"
      BY <1>1, <2>2, <3>1, <3>2
    <3>3. CASE n = m BY <1>1, <2>2, <3>3
    <3>4. CASE n \in row BY <1>0, <3>2, <3>4 DEF RowInv
    <3> QED BY <3>1, <3>3, <3>4
  <2>9. LeadInv' BY <1>2, <1>4 DEF LeadInv
  <2>10. EnqueuedOnce' BY <1>0, <1>2 DEF EnqueuedOnce
  <2>11. LostOnlyByItsOwnFault' BY <1>0, <1>2, <2>2 DEF LostOnlyByItsOwnFault
  <2> QED BY <2>4, <2>5, <2>6, <2>7, <2>8, <2>9, <2>10, <2>11 DEF InInv
<1> QED BY <1>3, <1>4

LEMMA EnqueueStep ==
    ASSUME InInv, NEW r \in Requests, handleMessage(r)
    PROVE  InInv'
<1>0. InType /\ HolderFirst BY DEF InInv
<1>1. /\ req[r].pc = "enqueue" /\ NextMessage(r)
      /\ UNCHANGED <<event, old, row, arrived, lead, faulted>>
      /\ jobs' = [jobs EXCEPT ![Current(r)] = @ + 1]
  BY DEF handleMessage, Handling
<1>2. Holds(r, Current(r)) BY <1>1 DEF Holds
<1>3. Current(r) \in Inbound /\ jobs[Current(r)] = 0
  BY <1>0, <1>1, <1>2, AtCurrent DEF HolderFirst
<1>4. jobs'[Current(r)] = 1 BY <1>0, <1>1, <1>3 DEF InType
<1> QED BY <1>1, <1>2, <1>4, Finished

LEMMA ThrowStep ==
    ASSUME InInv, NEW r \in Requests, HandlerThrows(r)
    PROVE  InInv'
<1>1. /\ req[r].pc # "idle" /\ NextMessage(r)
      /\ UNCHANGED <<event, old, row, arrived, lead, jobs>>
      /\ faulted' = faulted \cup {Current(r)}
  BY DEF HandlerThrows
<1> QED BY <1>1, Finished

(* A request that dies takes the rest of its payload with it.              *)
LEMMA DieStep ==
    ASSUME InInv, NEW r \in Requests, RequestDies(r)
    PROVE  InInv'
<1>0. /\ InType /\ KnownInv /\ FreshInv /\ OneHolder /\ HolderFirst /\ SeenInv /\ RowInv /\ LeadInv
      /\ EnqueuedOnce /\ LostOnlyByItsOwnFault
  BY DEF InInv
<1>1. /\ req[r].pc # "idle" /\ UNCHANGED <<event, old, row, arrived, lead, jobs>>
      /\ faulted' = faulted \cup ToSet(req[r].msgs)
      /\ req' = [req EXCEPT ![r] = [pc |-> "idle", msgs |-> <<>>]]
  BY DEF RequestDies
<1>2. /\ req'[r].pc = "idle" /\ req'[r].msgs = <<>>
      /\ \A q \in Requests : q # r => req'[q] = req[q]
      /\ req' \in [Requests -> [pc: ReqPcs, msgs: Seq(Inbound)]]
  BY <1>0, <1>1 DEF InType, ReqPcs
<1>3. \A q \in Requests, n \in Inbound : Holds(q, n)' <=> q # r /\ Holds(q, n)
  BY <1>2 DEF Holds, Current
<1>4. \A n \in Inbound : Holds(r, n) => n \in faulted'
  BY <1>0, <1>1, AtCurrent DEF Holds
<1>5. InType' BY <1>0, <1>1, <1>2 DEF InType
<1>6. KnownInv' /\ OneHolder' /\ HolderFirst'
  BY <1>0, <1>1, <1>3 DEF KnownInv, OneHolder, HolderFirst
<1>7. FreshInv' BY <1>0, <1>1, <1>2 DEF FreshInv, ToSet
<1>8. SeenInv' BY <1>0, <1>1, <1>3, <1>4 DEF SeenInv, InType
<1>9. RowInv' BY <1>0, <1>1, <1>2, <1>3, <1>4 DEF RowInv, InType
<1>10. LeadInv' BY <1>0, <1>1, <1>2 DEF LeadInv, Current
<1>11. EnqueuedOnce' BY <1>0, <1>1 DEF EnqueuedOnce
<1>12. LostOnlyByItsOwnFault' BY <1>0, <1>1, <1>2 DEF LostOnlyByItsOwnFault
<1> QED BY <1>5, <1>6, <1>7, <1>8, <1>9, <1>10, <1>11, <1>12 DEF InInv

LEMMA ReceiveStep ==
    ASSUME InInv, NEW r \in Requests, receive(r)
    PROVE  InInv'
<1>0. /\ InType /\ KnownInv /\ FreshInv /\ OneHolder /\ HolderFirst /\ SeenInv /\ RowInv /\ LeadInv
      /\ EnqueuedOnce /\ LostOnlyByItsOwnFault
  BY DEF InInv
<1> PICK s \in Payloads :
         /\ s # <<>> /\ ToSet(s) \cap old = {}
         /\ req' = [req EXCEPT ![r] = [pc |-> "record", msgs |-> s]]
         /\ arrived' = arrived \cup ToSet(s)
  BY DEF receive
<1>1. req[r].pc = "idle" /\ UNCHANGED <<event, old, row, lead, jobs, faulted>>
  BY DEF receive
<1>2. s \in Seq(Inbound) BY FlowAssumption
<1>3. ToSet(s) \subseteq Inbound BY <1>2 DEF ToSet
<1>4. /\ req'[r].pc = "record" /\ req'[r].msgs = s
      /\ \A q \in Requests : q # r => req'[q] = req[q]
      /\ req' \in [Requests -> [pc: ReqPcs, msgs: Seq(Inbound)]]
  BY <1>0, <1>2 DEF InType, ReqPcs
<1>5. \A q \in Requests, n \in Inbound : Holds(q, n)' <=> Holds(q, n)
  BY <1>1, <1>4 DEF Holds, Current
<1>6. InType' BY <1>0, <1>1, <1>3, <1>4 DEF InType
<1>7. KnownInv' /\ OneHolder' /\ HolderFirst'
  BY <1>0, <1>1, <1>5 DEF KnownInv, OneHolder, HolderFirst
<1>8. FreshInv' BY <1>0, <1>1, <1>4 DEF FreshInv
<1>9. SeenInv' BY <1>0, <1>1, <1>5 DEF SeenInv, InType
<1>10. RowInv' BY <1>0, <1>1, <1>4, <1>5 DEF RowInv, InType, Holds
<1>11. LeadInv' BY <1>0, <1>1, <1>4 DEF LeadInv, Current
<1>12. EnqueuedOnce' BY <1>0, <1>1 DEF EnqueuedOnce
<1>13. LostOnlyByItsOwnFault'
  <2> SUFFICES ASSUME NEW n \in arrived', n \notin faulted
               PROVE  jobs[n] = 1 \/ \E q \in Requests : n \in ToSet(req'[q].msgs)
    BY <1>1 DEF LostOnlyByItsOwnFault
  <2>1. CASE n \in ToSet(s) BY <1>4, <2>1
  <2>2. ASSUME NEW q \in Requests, n \in ToSet(req[q].msgs) PROVE n \in ToSet(req'[q].msgs)
    <3>1. q # r BY <1>0, <1>1, <2>2 DEF InType, ToSet
    <3> QED BY <1>4, <2>2, <3>1
  <2> QED BY <1>0, <2>1, <2>2 DEF LostOnlyByItsOwnFault
<1> QED BY <1>6, <1>7, <1>8, <1>9, <1>10, <1>11, <1>12, <1>13 DEF InInv

(* The lead, its messages and the month.                                   *)
LEMMA SuppressStep == ASSUME InInv, suppress PROVE InInv'
<1>0. /\ InType /\ KnownInv /\ FreshInv /\ OneHolder /\ HolderFirst /\ SeenInv /\ RowInv /\ LeadInv
      /\ EnqueuedOnce /\ LostOnlyByItsOwnFault
  BY DEF InInv
<1>1. /\ row' = {} /\ UNCHANGED <<event, old, req, jobs, arrived>> /\ faulted \subseteq faulted'
      /\ \A r \in Requests : req[r].pc # "idle" => Current(r) \in faulted'
  BY DEF suppress
<1>2. \A q \in Requests, n \in Inbound : Holds(q, n)' <=> Holds(q, n)
  BY <1>1 DEF Holds, Current
<1>3. InType' /\ FreshInv' /\ RowInv' BY <1>0, <1>1 DEF InType, FreshInv, RowInv
<1>4. KnownInv' /\ OneHolder' /\ HolderFirst'
  BY <1>0, <1>1, <1>2 DEF KnownInv, OneHolder, HolderFirst
<1>5. SeenInv' BY <1>0, <1>1, <1>2 DEF SeenInv, InType
<1>6. LeadInv' BY <1>1 DEF LeadInv, Current
<1>7. EnqueuedOnce' /\ LostOnlyByItsOwnFault'
  BY <1>0, <1>1 DEF EnqueuedOnce, LostOnlyByItsOwnFault
<1> QED BY <1>3, <1>4, <1>5, <1>6, <1>7 DEF InInv

LEMMA MonthStep == ASSUME InInv, MonthPasses \/ purgeWebhookEvents PROVE InInv'
<1>0. /\ InType /\ KnownInv /\ FreshInv /\ OneHolder /\ HolderFirst /\ SeenInv /\ RowInv /\ LeadInv
      /\ EnqueuedOnce /\ LostOnlyByItsOwnFault
  BY DEF InInv
<1>1. /\ UNCHANGED <<req, row, lead, jobs, arrived, faulted>>
      /\ event' \cup old' = event \cup old
      /\ old' = old \/ \A r \in Requests : req[r].pc = "idle"
  BY DEF MonthPasses, purgeWebhookEvents
<1>2. \A q \in Requests, n \in Inbound : Holds(q, n)' <=> Holds(q, n)
  BY <1>1 DEF Holds, Current
<1>3. InType' BY <1>0, <1>1 DEF InType
<1>4. FreshInv'
  <2>1. CASE old' = old BY <1>0, <1>1, <2>1 DEF FreshInv
  <2>2. CASE \A r \in Requests : req[r].pc = "idle"
    <3>1. \A r \in Requests : ToSet(req[r].msgs) = {} BY <1>0, <2>2 DEF InType, ToSet
    <3> QED BY <1>1, <3>1 DEF FreshInv
  <2> QED BY <1>1, <2>1, <2>2
<1>5. KnownInv' /\ OneHolder' /\ HolderFirst'
  BY <1>0, <1>1, <1>2 DEF KnownInv, OneHolder, HolderFirst
<1>6. SeenInv' BY <1>0, <1>1, <1>2 DEF SeenInv, InType
<1>7. RowInv' BY <1>0, <1>1, <1>2 DEF RowInv, InType
<1>8. LeadInv' BY <1>0, <1>1 DEF LeadInv, Current
<1>9. EnqueuedOnce' /\ LostOnlyByItsOwnFault'
  BY <1>0, <1>1 DEF EnqueuedOnce, LostOnlyByItsOwnFault
<1> QED BY <1>3, <1>4, <1>5, <1>6, <1>7, <1>8, <1>9 DEF InInv

LEMMA StepInInv == ASSUME InInv, [Next]_vars PROVE InInv'
<1>1. ASSUME NEW r \in Requests,
             receive(r) \/ RequestStep(r) \/ HandlerThrows(r) \/ RequestDies(r)
      PROVE  InInv'
  BY <1>1, ReceiveStep, RecordStep, LeadStep, SaveStep, EnqueueStep, ThrowStep, DieStep
     DEF RequestStep
<1>2. ASSUME NEW m \in Inbound, JobStep(m) PROVE InInv'
  BY <1>2, InQuiet
     DEF JobStep, MessageMissing, push, TranscriptionFails, respondUnsupported, JobTaken, sendText
<1>3. ASSUME NEW s \in Senders, SenderStep(s) \/ SenderDies(s) PROVE InInv'
  BY <1>3, InQuiet
     DEF SenderStep, TakeJob, Send, UpdateManual, UpsertLead, InsertRow, AttemptFails, SenderDies,
         Leave, Step, inVars
<1>4. ASSUME NEW j \in Answers, handleTurn(j) \/ FallDue(j) PROVE InInv'
  BY <1>4, InQuiet DEF handleTurn, FallDue, inVars
<1>5. ASSUME NEW j \in Manual, CommitManual(j) \/ PanelStep(j) \/ PanelDies(j) PROVE InInv'
  BY <1>5, InQuiet
     DEF CommitManual, PanelStep, EnqueueManual, EnqueueManualFails, deleteMessageCompensating,
         PanelDies, PanelUnchanged, inVars
<1>6. CASE suppress \/ MonthPasses \/ purgeWebhookEvents BY <1>6, SuppressStep, MonthStep
<1>7. CASE UNCHANGED vars BY <1>7, InQuiet DEF vars, inVars
<1> QED BY <1>1, <1>2, <1>3, <1>4, <1>5, <1>6, <1>7 DEF Next, Answers

(* EnqueuedOnce: however many requests repeat a message, and whatever is   *)
(* suppressed, purged or dies meanwhile, one worker at most is given it.   *)
THEOREM HandledOnce == Spec => []EnqueuedOnce
<1>1. InInv => EnqueuedOnce BY DEF InInv
<1>2. InInv /\ [Next]_vars => InInv' BY StepInInv
<1> QED BY <1>1, <1>2, InitInInv, PTL DEF Spec

(* LostOnlyByItsOwnFault: for every payload, a message is missing only if  *)
(* its own processing threw.                                               *)
THEOREM NoCollateralLoss == Spec => []LostOnlyByItsOwnFault
<1>1. InInv => LostOnlyByItsOwnFault BY DEF InInv
<1>2. InInv /\ [Next]_vars => InInv' BY StepInInv
<1> QED BY <1>1, <1>2, InitInInv, PTL DEF Spec

-----------------------------------------------------------------------------
(* From the outbound queue to WhatsApp.                                    *)

OutType ==
    /\ outbound \in Seq(Answers)
    /\ state \in [Answers -> JobStates]
    /\ attempts \in [Answers -> Nat]
    /\ sender \in [Senders -> [pc: SenderPcs, job: Answers \cup {None}]]
    /\ outRow \in [Answers -> Nat] /\ accepted \in [Answers -> Nat]
    /\ panel \in [Manual -> {"new", "send", "compensate", "phantom", "end"}]

(* The wait list holds jobs that wait, each once.                          *)
QueueInv ==
    /\ \A a \in 1 .. Len(outbound) : state[outbound[a]] = "waiting"
    /\ \A a, b \in 1 .. Len(outbound) : outbound[a] = outbound[b] => a = b

Busy(s) == sender[s].pc # "idle"

(* A job that runs is in the hands of one worker.                          *)
SenderInv ==
    \A s \in Senders : Busy(s) =>
        /\ sender[s].job \in Answers /\ state[sender[s].job] = "active"
        /\ \A t \in Senders : Busy(t) /\ sender[t].job = sender[s].job => t = s

(* What the worker still has to write of an answer WhatsApp took.          *)
WriteInv ==
    \A s \in Senders :
        /\ sender[s].pc = "update" => sender[s].job \in Manual /\ accepted[sender[s].job] > 0
        /\ sender[s].pc \in {"upsert", "insert"} =>
             sender[s].job \in Bot /\ outRow[sender[s].job] < accepted[sender[s].job]

OutInv == OutType /\ QueueInv /\ SenderInv /\ WriteInv /\ TimelineIsTrue

LEMMA AppendOne ==
    ASSUME NEW S, NEW q \in Seq(S), NEW x \in S
    PROVE  /\ Append(q, x) \in Seq(S) /\ Len(Append(q, x)) = Len(q) + 1
           /\ \A a \in 1 .. Len(q) : Append(q, x)[a] = q[a]
           /\ Append(q, x)[Len(q) + 1] = x
  OBVIOUS

LEMMA PrependOne ==
    ASSUME NEW S, NEW q \in Seq(S), NEW x \in S
    PROVE  /\ <<x>> \o q \in Seq(S) /\ Len(<<x>> \o q) = Len(q) + 1
           /\ \A a \in 2 .. Len(q) + 1 : (<<x>> \o q)[a] = q[a - 1]
           /\ (<<x>> \o q)[1] = x
  OBVIOUS

LEMMA InitOutInv == Init => OutInv
<1> SUFFICES ASSUME Init PROVE OutInv OBVIOUS
<1>1. OutType BY DEF Init, OutType, JobStates, SenderPcs
<1>2. QueueInv BY DEF Init, QueueInv
<1>3. SenderInv /\ WriteInv BY DEF Init, SenderInv, WriteInv, Busy
<1>4. TimelineIsTrue BY FlowAssumption DEF Init, TimelineIsTrue, Answers
<1> QED BY <1>1, <1>2, <1>3, <1>4 DEF OutInv

(* Job x, which nobody had in the list, is put at one of its ends.         *)
LEMMA Requeued ==
    ASSUME OutInv, NEW x \in Answers, state[x] # "waiting",
           state' = [state EXCEPT ![x] = "waiting"],
           outbound' = Append(outbound, x) \/ outbound' = <<x>> \o outbound
    PROVE  QueueInv' /\ outbound' \in Seq(Answers) /\ state' \in [Answers -> JobStates]
<1>0. outbound \in Seq(Answers) /\ state \in [Answers -> JobStates] /\ QueueInv
  BY DEF OutInv, OutType
<1>1. \A a \in 1 .. Len(outbound) :
        outbound[a] \in Answers /\ outbound[a] # x /\ state'[outbound[a]] = "waiting"
  BY <1>0 DEF QueueInv
<1>2. state'[x] = "waiting" /\ state' \in [Answers -> JobStates] BY <1>0 DEF JobStates
<1>3. CASE outbound' = Append(outbound, x)
  <2>1. /\ outbound' \in Seq(Answers) /\ Len(outbound') = Len(outbound) + 1
        /\ outbound'[Len(outbound) + 1] = x
        /\ \A a \in 1 .. Len(outbound) : outbound'[a] = outbound[a]
    BY <1>0, <1>3, AppendOne
  <2>2. Len(outbound) \in Nat BY <1>0
  <2>3. \A a \in 1 .. Len(outbound') : a \in 1 .. Len(outbound) \/ a = Len(outbound) + 1
    BY <2>1, <2>2
  <2>4. \A a \in 1 .. Len(outbound') : state'[outbound'[a]] = "waiting"
    BY <1>1, <1>2, <2>1, <2>3
  <2>5. ASSUME NEW a \in 1 .. Len(outbound'), NEW b \in 1 .. Len(outbound'),
               outbound'[a] = outbound'[b]
        PROVE  a = b
    BY <1>0, <1>1, <2>1, <2>3, <2>5 DEF QueueInv
  <2> QED BY <1>2, <2>1, <2>4, <2>5 DEF QueueInv
<1>4. CASE outbound' = <<x>> \o outbound
  <2>1. /\ outbound' \in Seq(Answers) /\ Len(outbound') = Len(outbound) + 1 /\ outbound'[1] = x
        /\ \A a \in 2 .. Len(outbound) + 1 :
              outbound'[a] = outbound[a - 1] /\ a - 1 \in 1 .. Len(outbound)
    BY <1>0, <1>4, PrependOne
  <2>4. Len(outbound) \in Nat BY <1>0
  <2>5. \A a \in 1 .. Len(outbound') : a = 1 \/ a \in 2 .. Len(outbound) + 1
    BY <2>1, <2>4
  <2>2. \A a \in 1 .. Len(outbound') : state'[outbound'[a]] = "waiting"
    BY <1>1, <1>2, <2>1, <2>5
  <2>3. ASSUME NEW a \in 1 .. Len(outbound'), NEW b \in 1 .. Len(outbound'),
               outbound'[a] = outbound'[b]
        PROVE  a = b
    <3>1. CASE a = 1 BY <1>0, <1>1, <2>1, <2>3, <3>1
    <3>2. CASE b = 1 BY <1>0, <1>1, <2>1, <2>3, <3>2
    <3>3. CASE a # 1 /\ b # 1
      <4>1. outbound[a - 1] = outbound[b - 1] /\ a - 1 \in 1 .. Len(outbound)
            /\ b - 1 \in 1 .. Len(outbound)
        BY <1>0, <2>1, <2>3, <3>3
      <4>2. a - 1 = b - 1 BY <1>0, <4>1 DEF QueueInv
      <4> QED BY <4>2
    <3> QED BY <3>1, <3>2, <3>3
  <2> QED BY <1>2, <2>1, <2>2, <2>3 DEF QueueInv
<1> QED BY <1>3, <1>4

(* A job that was not running changes: the workers do not notice.          *)
LEMMA SendersKeep ==
    ASSUME OutInv, UNCHANGED <<sender, accepted, outRow>>,
           \A j \in Answers : state[j] = "active" => state'[j] = "active"
    PROVE  SenderInv' /\ WriteInv'
  BY DEF OutInv, SenderInv, WriteInv, Busy

LEMMA SendTextStep ==
    ASSUME OutInv, NEW j \in Answers, sendText(j), outRow' = outRow,
           panel' = panel \/ (j \in Manual /\ panel' = [panel EXCEPT ![j] = "end"])
    PROVE  OutInv'
<1>0. OutType /\ TimelineIsTrue BY DEF OutInv
<1>1. /\ state[j] = "new" /\ state' = [state EXCEPT ![j] = "waiting"]
      /\ outbound' = Append(outbound, j) /\ UNCHANGED <<attempts, sender, accepted>>
  BY DEF sendText
<1>2. QueueInv' /\ outbound' \in Seq(Answers) /\ state' \in [Answers -> JobStates]
  BY <1>1, Requeued
<1>3. panel' \in [Manual -> {"new", "send", "compensate", "phantom", "end"}]
  BY <1>0 DEF OutType
<1>4. OutType' BY <1>0, <1>1, <1>2, <1>3 DEF OutType
<1>5. SenderInv' /\ WriteInv' BY <1>0, <1>1, SendersKeep DEF OutType
<1>6. TimelineIsTrue'
  <2>1. ASSUME NEW k \in Manual, panel'[k] = "end", state'[k] = "new" PROVE outRow'[k] = 0
    <3>1. k \in Answers /\ k # j BY <1>0, <1>1, <2>1 DEF OutType, Answers
    <3>2. panel[k] = "end" /\ state[k] = "new" BY <1>0, <1>1, <2>1, <3>1 DEF OutType
    <3> QED BY <1>0, <3>2 DEF TimelineIsTrue
  <2> QED BY <1>0, <1>1, <2>1 DEF TimelineIsTrue
<1> QED BY <1>2, <1>4, <1>5, <1>6 DEF OutInv

LEMMA OutQuiet ==
    ASSUME OutInv, UNCHANGED outVars, UNCHANGED <<outRow, panel>>
    PROVE  OutInv'
  BY DEF OutInv, OutType, QueueInv, SenderInv, WriteInv, TimelineIsTrue, Busy, outVars

LEMMA TakeStep == ASSUME OutInv, NEW s \in Senders, TakeJob(s) PROVE OutInv'
<1> DEFINE x == Head(outbound)
<1>0. OutType /\ QueueInv /\ SenderInv /\ WriteInv /\ TimelineIsTrue BY DEF OutInv
<1>1. /\ sender[s].pc = "idle" /\ outbound # <<>> /\ outbound' = Tail(outbound)
      /\ sender' = [sender EXCEPT ![s] = [pc |-> "send", job |-> x]]
      /\ state' = [state EXCEPT ![x] = "active"]
      /\ UNCHANGED <<attempts, accepted, outRow, panel>>
  BY DEF TakeJob
<1>2. /\ outbound' \in Seq(Answers) /\ Len(outbound) \in Nat /\ Len(outbound') = Len(outbound) - 1
      /\ \A a \in 1 .. Len(outbound') :
            outbound'[a] = outbound[a + 1] /\ a + 1 \in 1 .. Len(outbound)
      /\ 1 \in 1 .. Len(outbound) /\ x = outbound[1] /\ x \in Answers
  BY <1>0, <1>1 DEF OutType
<1>3. state[x] = "waiting" BY <1>0, <1>2 DEF QueueInv
<1> HIDE DEF x
<1>4. state' \in [Answers -> JobStates] /\ state'[x] = "active"
      /\ \A j \in Answers : j # x => state'[j] = state[j]
  BY <1>0, <1>1, <1>2 DEF OutType, JobStates
<1>5. /\ sender' \in [Senders -> [pc: SenderPcs, job: Answers \cup {None}]]
      /\ sender'[s].pc = "send" /\ sender'[s].job = x
      /\ \A t \in Senders : t # s => sender'[t] = sender[t]
  BY <1>0, <1>1, <1>2 DEF OutType, SenderPcs
<1>6. OutType' BY <1>0, <1>1, <1>2, <1>4, <1>5 DEF OutType
<1>7. QueueInv'
  <2>1. ASSUME NEW a \in 1 .. Len(outbound') PROVE state'[outbound'[a]] = "waiting"
    <3>0. outbound'[a] = outbound[a + 1] /\ a + 1 \in 1 .. Len(outbound) BY <1>2
    <3>1. outbound[a + 1] \in Answers BY <1>0, <3>0 DEF OutType
    <3>2. outbound[a + 1] # x
      <4>1. a + 1 # 1 OBVIOUS
      <4> QED BY <1>0, <1>2, <3>0, <4>1 DEF QueueInv
    <3> QED BY <1>0, <1>4, <3>0, <3>1, <3>2 DEF QueueInv
  <2>2. ASSUME NEW a \in 1 .. Len(outbound'), NEW b \in 1 .. Len(outbound'),
               outbound'[a] = outbound'[b]
        PROVE  a = b
    <3>1. outbound[a + 1] = outbound[b + 1] /\ a + 1 \in 1 .. Len(outbound)
          /\ b + 1 \in 1 .. Len(outbound)
      BY <1>2, <2>2
    <3>2. a + 1 = b + 1 BY <1>0, <3>1 DEF QueueInv
    <3> QED BY <1>2, <3>2
  <2> QED BY <2>1, <2>2 DEF QueueInv
<1>8. SenderInv'
  <2>1. \A t \in Senders : t # s /\ Busy(t) => sender[t].job \in Answers /\ sender[t].job # x
    BY <1>0, <1>3 DEF SenderInv
  <2> QED BY <1>0, <1>2, <1>4, <1>5, <2>1 DEF SenderInv, Busy
<1>9. WriteInv' BY <1>0, <1>1, <1>5 DEF WriteInv
<1>10. TimelineIsTrue' 
  <2>1. \A j \in Manual : state'[j] = "new" => state[j] = "new" BY <1>4 DEF Answers
  <2> QED BY <1>0, <1>1, <2>1 DEF TimelineIsTrue
<1> QED BY <1>6, <1>7, <1>8, <1>9, <1>10 DEF OutInv

(* A worker is done with its job, or lets go of it: nobody else has it.    *)
LEMMA LeaveHolds ==
    ASSUME OutInv, NEW s \in Senders, Busy(s), NEW to \in JobStates \ {"new"}, Leave(s, to)
    PROVE  /\ state' \in [Answers -> JobStates]
           /\ sender' \in [Senders -> [pc: SenderPcs, job: Answers \cup {None}]]
           /\ SenderInv'
           /\ \A t \in Senders : sender'[t].pc # "idle" => t # s /\ sender'[t] = sender[t]
           /\ \A t \in Senders : sender'[t].pc # "idle" => sender[t].job # sender[s].job
           /\ \A j \in Answers : state'[j] = "new" => state[j] = "new"
           /\ \A j \in Answers : j # sender[s].job => state'[j] = state[j]
           /\ sender[s].job \in Answers /\ state[sender[s].job] = "active"
           /\ state'[sender[s].job] = to
<1>0. OutType /\ SenderInv BY DEF OutInv
<1>1. /\ sender' = [sender EXCEPT ![s] = [pc |-> "idle", job |-> None]]
      /\ state' = [state EXCEPT ![sender[s].job] = to]
  BY DEF Leave
<1>2. sender[s].job \in Answers /\ state[sender[s].job] = "active" BY <1>0 DEF SenderInv
<1>3. /\ sender'[s].pc = "idle" /\ \A t \in Senders : t # s => sender'[t] = sender[t]
      /\ sender' \in [Senders -> [pc: SenderPcs, job: Answers \cup {None}]]
  BY <1>0, <1>1 DEF OutType, SenderPcs
<1>4. /\ state' \in [Answers -> JobStates] /\ state'[sender[s].job] = to
      /\ \A j \in Answers : j # sender[s].job => state'[j] = state[j]
  BY <1>0, <1>1, <1>2 DEF OutType
<1>5. \A t \in Senders : sender'[t].pc # "idle" => t # s /\ sender'[t] = sender[t]
  BY <1>3
<1>6. \A t \in Senders : sender'[t].pc # "idle" =>
          Busy(t) /\ sender[t].job \in Answers /\ sender[t].job # sender[s].job
  BY <1>0, <1>5 DEF SenderInv, Busy
<1>7. SenderInv' BY <1>0, <1>4, <1>5, <1>6 DEF SenderInv, Busy
<1>8. \A j \in Answers : state'[j] = "new" => state[j] = "new" BY <1>4
<1> QED BY <1>2, <1>3, <1>4, <1>5, <1>6, <1>7, <1>8

(* With the job out of the list, the list stays as it was.                 *)
LEMMA QueueKeeps ==
    ASSUME OutInv, outbound' = outbound,
           \A j \in Answers : state[j] = "waiting" => state'[j] = "waiting"
    PROVE  QueueInv'
<1>1. \A a \in 1 .. Len(outbound) : outbound[a] \in Answers BY DEF OutInv, OutType
<1> QED BY <1>1 DEF OutInv, QueueInv

LEMMA SendStep == ASSUME OutInv, NEW s \in Senders, Send(s) PROVE OutInv'
<1> DEFINE j == sender[s].job
<1>0. OutType /\ QueueInv /\ SenderInv /\ WriteInv /\ TimelineIsTrue BY DEF OutInv
<1>1. /\ sender[s].pc = "send" /\ accepted' = [accepted EXCEPT ![j] = @ + 1]
      /\ sender' = [sender EXCEPT ![s].pc = IF j \in Manual THEN "update" ELSE "upsert"]
      /\ UNCHANGED <<outbound, state, attempts, outRow, panel>>
  BY DEF Send, Step
<1>2. j \in Answers BY <1>0, <1>1 DEF SenderInv, Busy
<1> HIDE DEF j
<1>3. /\ accepted' \in [Answers -> Nat] /\ accepted'[j] = accepted[j] + 1
      /\ \A k \in Answers : accepted[k] <= accepted'[k]
  BY <1>0, <1>1, <1>2 DEF OutType
<1>4. /\ sender' \in [Senders -> [pc: SenderPcs, job: Answers \cup {None}]]
      /\ sender'[s].pc = (IF j \in Manual THEN "update" ELSE "upsert")
      /\ \A t \in Senders : sender'[t].job = sender[t].job
      /\ \A t \in Senders : t # s => sender'[t] = sender[t]
  BY <1>0, <1>1 DEF OutType, SenderPcs
<1>5. OutType' BY <1>0, <1>1, <1>3, <1>4 DEF OutType
<1>6. QueueInv' BY <1>0, <1>1 DEF QueueInv
<1>7. \A t \in Senders : Busy(t)' <=> Busy(t) BY <1>1, <1>4 DEF Busy
<1>8. SenderInv' BY <1>0, <1>1, <1>4, <1>7 DEF SenderInv
<1>9. WriteInv'
  <2>1. j \in Bot => outRow[j] <= accepted[j] BY <1>0 DEF TimelineIsTrue
  <2>2. /\ j \in Manual => accepted'[j] > 0
        /\ j \in Bot => outRow'[j] < accepted'[j]
    BY <1>0, <1>1, <1>2, <1>3, <2>1 DEF OutType
  <2>3. sender'[s].job = j BY <1>4 DEF j
  <2>4. ASSUME NEW t \in Senders, t # s, sender[t].pc # "idle"
        PROVE  /\ sender[t].job \in Answers /\ accepted[sender[t].job] <= accepted'[sender[t].job]
               /\ accepted[sender[t].job] \in Nat /\ accepted'[sender[t].job] \in Nat
               /\ outRow[sender[t].job] \in Nat
    <3>1. sender[t].job \in Answers BY <1>0, <2>4 DEF SenderInv, Busy
    <3> QED BY <1>0, <1>3, <3>1 DEF OutType
  <2>5. ASSUME NEW t \in Senders, t # s
        PROVE  /\ sender'[t].pc = "update" =>
                    sender'[t].job \in Manual /\ accepted'[sender'[t].job] > 0
               /\ sender'[t].pc \in {"upsert", "insert"} =>
                    sender'[t].job \in Bot /\ outRow'[sender'[t].job] < accepted'[sender'[t].job]
    BY <1>0, <1>1, <1>4, <2>4, <2>5 DEF WriteInv
  <2>6. /\ sender'[s].pc = "update" => j \in Manual
        /\ sender'[s].pc \in {"upsert", "insert"} => j \in Bot
    BY <1>2, <1>4 DEF Answers
  <2> QED BY <2>2, <2>3, <2>5, <2>6 DEF WriteInv
<1>10. TimelineIsTrue'
  <2>1. ASSUME NEW k \in Bot PROVE outRow'[k] <= accepted'[k]
    <3>1. k \in Answers BY DEF Answers
    <3> QED BY <1>0, <1>1, <1>3, <3>1 DEF TimelineIsTrue, OutType
  <2> QED BY <1>0, <1>1, <2>1 DEF TimelineIsTrue
<1> QED BY <1>5, <1>6, <1>8, <1>9, <1>10 DEF OutInv

LEMMA UpsertStep == ASSUME OutInv, NEW s \in Senders, UpsertLead(s) PROVE OutInv'
<1>0. OutType /\ QueueInv /\ SenderInv /\ WriteInv /\ TimelineIsTrue BY DEF OutInv
<1>1. /\ sender[s].pc = "upsert" /\ sender' = [sender EXCEPT ![s].pc = "insert"]
      /\ UNCHANGED <<outbound, state, attempts, accepted, outRow, panel>>
  BY DEF UpsertLead, Step
<1>2. /\ sender' \in [Senders -> [pc: SenderPcs, job: Answers \cup {None}]]
      /\ sender'[s].pc = "insert"
      /\ \A t \in Senders : sender'[t].job = sender[t].job
      /\ \A t \in Senders : t # s => sender'[t] = sender[t]
  BY <1>0, <1>1 DEF OutType, SenderPcs
<1>3. OutType' /\ QueueInv' BY <1>0, <1>1, <1>2 DEF OutType, QueueInv
<1>4. \A t \in Senders : Busy(t)' <=> Busy(t) BY <1>1, <1>2 DEF Busy
<1>5. SenderInv' BY <1>0, <1>1, <1>2, <1>4 DEF SenderInv
<1>6. WriteInv' BY <1>0, <1>1, <1>2 DEF WriteInv
<1>7. TimelineIsTrue' BY <1>0, <1>1 DEF TimelineIsTrue
<1> QED BY <1>3, <1>5, <1>6, <1>7 DEF OutInv

LEMMA DoneStep ==
    ASSUME OutInv, NEW s \in Senders, UpdateManual(s) \/ InsertRow(s)
    PROVE  OutInv'
<1> DEFINE j == sender[s].job
<1>0. OutType /\ QueueInv /\ SenderInv /\ WriteInv /\ TimelineIsTrue BY DEF OutInv
<1>1. /\ sender[s].pc \in {"update", "insert"} /\ Leave(s, "done")
      /\ UNCHANGED <<outbound, attempts, accepted, panel>>
      /\ \/ outRow' = outRow
         \/ sender[s].pc = "insert" /\ outRow' = [outRow EXCEPT ![j] = @ + 1]
  BY DEF UpdateManual, InsertRow
<1>2. /\ state' \in [Answers -> JobStates]
      /\ sender' \in [Senders -> [pc: SenderPcs, job: Answers \cup {None}]]
      /\ SenderInv'
      /\ \A t \in Senders : sender'[t].pc # "idle" => t # s /\ sender'[t] = sender[t]
      /\ \A t \in Senders : sender'[t].pc # "idle" => sender[t].job # j
      /\ \A k \in Answers : state'[k] = "new" => state[k] = "new"
      /\ \A k \in Answers : k # j => state'[k] = state[k]
      /\ j \in Answers /\ state[j] = "active" /\ state'[j] = "done"
  <2>1. Busy(s) BY <1>1 DEF Busy
  <2>2. "done" \in JobStates \ {"new"} BY DEF JobStates
  <2> QED BY <1>1, <2>1, <2>2, LeaveHolds
<1>3. outRow' = outRow \/ (j \in Bot /\ outRow[j] < accepted[j] /\ outRow'[j] = outRow[j] + 1)
  BY <1>0, <1>1, <1>2 DEF WriteInv, OutType
<1>4. \A k \in Answers : k # j => outRow'[k] = outRow[k]
  BY <1>0, <1>1 DEF OutType
<1> HIDE DEF j
<1>5. outRow' \in [Answers -> Nat]
  <2>1. outRow \in [Answers -> Nat] BY <1>0 DEF OutType
  <2> QED BY <1>1, <1>2, <2>1
<1>6. OutType' BY <1>0, <1>1, <1>2, <1>5 DEF OutType
<1>7. QueueInv' BY <1>1, <1>2, QueueKeeps
<1>8. WriteInv'
  <2>1. ASSUME NEW t \in Senders, sender'[t].pc # "idle"
        PROVE  sender'[t] = sender[t] /\ outRow'[sender[t].job] = outRow[sender[t].job]
    <3>1. sender'[t] = sender[t] /\ sender[t].job # j BY <1>2, <2>1
    <3>2. sender[t].job \in Answers BY <1>0, <2>1, <3>1 DEF SenderInv, Busy
    <3> QED BY <1>4, <3>1, <3>2
  <2> QED BY <1>0, <1>1, <2>1 DEF WriteInv
<1>9. TimelineIsTrue'
  <2>1. ASSUME NEW k \in Bot PROVE outRow'[k] <= accepted'[k]
    <3>1. k \in Answers /\ outRow[k] <= accepted[k] BY <1>0 DEF Answers, TimelineIsTrue
    <3>4. outRow[k] \in Nat /\ accepted[k] \in Nat BY <1>0, <3>1 DEF OutType
    <3>2. CASE k = j BY <1>1, <1>3, <3>1, <3>2, <3>4
    <3>3. CASE k # j BY <1>1, <1>4, <3>1, <3>3
    <3> QED BY <3>2, <3>3
  <2>2. ASSUME NEW k \in Manual
        PROVE  outRow'[k] = outRow[k] /\ (state'[k] = "new" => state[k] = "new")
    <3>1. k \in Answers /\ (k = j => j \notin Bot) BY FlowAssumption DEF Answers
    <3> QED BY <1>2, <1>3, <1>4, <3>1
  <2> QED BY <1>0, <1>1, <2>1, <2>2 DEF TimelineIsTrue
<1> QED BY <1>2, <1>6, <1>7, <1>8, <1>9 DEF OutInv

(* Meta may have taken the message of the attempt that fails.              *)
LEMMA FailStep == ASSUME OutInv, NEW s \in Senders, AttemptFails(s) PROVE OutInv'
<1> DEFINE j == sender[s].job
<1>0. OutType /\ QueueInv /\ SenderInv /\ WriteInv /\ TimelineIsTrue BY DEF OutInv
<1>1. PICK to \in {"delayed", "failed"} :
        /\ Busy(s) /\ Leave(s, to) /\ attempts' = [attempts EXCEPT ![j] = @ + 1]
        /\ UNCHANGED <<outbound, outRow, panel>>
        /\ accepted' = accepted \/ accepted' = [accepted EXCEPT ![j] = @ + 1]
  BY DEF AttemptFails, Busy
<1>2. /\ state' \in [Answers -> JobStates]
      /\ sender' \in [Senders -> [pc: SenderPcs, job: Answers \cup {None}]]
      /\ SenderInv'
      /\ \A t \in Senders : sender'[t].pc # "idle" => t # s /\ sender'[t] = sender[t]
      /\ \A t \in Senders : sender'[t].pc # "idle" => sender[t].job # j
      /\ \A k \in Answers : state'[k] = "new" => state[k] = "new"
      /\ \A k \in Answers : k # j => state'[k] = state[k]
      /\ j \in Answers /\ state[j] = "active"
  <2>1. to \in JobStates \ {"new"} BY DEF JobStates
  <2> QED BY <1>1, <2>1, LeaveHolds
<1> HIDE DEF j
<1>3. attempts' \in [Answers -> Nat] /\ accepted' \in [Answers -> Nat]
  <2>1. attempts \in [Answers -> Nat] /\ accepted \in [Answers -> Nat] BY <1>0 DEF OutType
  <2> QED BY <1>1, <1>2, <2>1
<1>4. \A k \in Answers : accepted[k] <= accepted'[k] /\ (k # j => accepted'[k] = accepted[k])
  <2>1. accepted \in [Answers -> Nat] BY <1>0 DEF OutType
  <2> QED BY <1>1, <1>2, <2>1
<1>5. OutType' BY <1>0, <1>1, <1>2, <1>3 DEF OutType
<1>6. QueueInv' BY <1>1, <1>2, QueueKeeps
<1>7. WriteInv'
  <2>1. ASSUME NEW t \in Senders, sender'[t].pc # "idle"
        PROVE  sender'[t] = sender[t] /\ accepted'[sender[t].job] = accepted[sender[t].job]
    <3>1. sender'[t] = sender[t] /\ sender[t].job # j BY <1>2, <2>1
    <3>2. sender[t].job \in Answers BY <1>0, <2>1, <3>1 DEF SenderInv, Busy
    <3> QED BY <1>4, <3>1, <3>2
  <2> QED BY <1>0, <1>1, <2>1 DEF WriteInv
<1>8. TimelineIsTrue'
  <2>1. ASSUME NEW k \in Bot PROVE outRow'[k] <= accepted'[k]
    <3>1. k \in Answers /\ outRow[k] <= accepted[k] BY <1>0 DEF Answers, TimelineIsTrue
    <3>2. outRow[k] \in Nat /\ accepted[k] \in Nat /\ accepted'[k] \in Nat
      BY <1>0, <1>3, <3>1 DEF OutType
    <3> QED BY <1>1, <1>4, <3>1, <3>2
  <2>2. \A k \in Manual : state'[k] = "new" => state[k] = "new" BY <1>2 DEF Answers
  <2> QED BY <1>0, <1>1, <2>1, <2>2 DEF TimelineIsTrue
<1> QED BY <1>2, <1>5, <1>6, <1>7, <1>8 DEF OutInv

(* The backoff is over, or the worker died: the job waits once more.       *)
LEMMA DueStep == ASSUME OutInv, NEW j \in Answers, FallDue(j) PROVE OutInv'
<1>0. OutType /\ TimelineIsTrue BY DEF OutInv
<1>1. /\ state[j] = "delayed" /\ state' = [state EXCEPT ![j] = "waiting"]
      /\ outbound' = Append(outbound, j) \/ outbound' = <<j>> \o outbound
      /\ UNCHANGED <<attempts, sender, accepted, outRow, panel>>
  BY DEF FallDue
<1>2. QueueInv' /\ outbound' \in Seq(Answers) /\ state' \in [Answers -> JobStates]
  BY <1>1, Requeued
<1>3. OutType' BY <1>0, <1>1, <1>2 DEF OutType
<1>4. SenderInv' /\ WriteInv' BY <1>0, <1>1, SendersKeep DEF OutType
<1>5. TimelineIsTrue' BY <1>0, <1>1 DEF TimelineIsTrue, OutType, Answers
<1> QED BY <1>2, <1>3, <1>4, <1>5 DEF OutInv

LEMMA SenderDiesStep == ASSUME OutInv, NEW s \in Senders, SenderDies(s) PROVE OutInv'
<1> DEFINE j == sender[s].job
<1>0. OutType /\ WriteInv /\ TimelineIsTrue BY DEF OutInv
<1>1. /\ Busy(s) /\ Leave(s, "waiting") /\ outbound' = <<j>> \o outbound
      /\ UNCHANGED <<attempts, accepted, outRow, panel>>
  BY DEF SenderDies, Busy
<1>2. /\ state' \in [Answers -> JobStates]
      /\ sender' \in [Senders -> [pc: SenderPcs, job: Answers \cup {None}]]
      /\ SenderInv'
      /\ \A t \in Senders : sender'[t].pc # "idle" => t # s /\ sender'[t] = sender[t]
      /\ \A k \in Answers : state'[k] = "new" => state[k] = "new"
      /\ j \in Answers /\ state[j] = "active"
  <2>1. "waiting" \in JobStates \ {"new"} BY DEF JobStates
  <2> QED BY <1>1, <2>1, LeaveHolds
<1>3. state' = [state EXCEPT ![j] = "waiting"] BY <1>1 DEF Leave
<1> HIDE DEF j
<1>4. QueueInv' /\ outbound' \in Seq(Answers) BY <1>1, <1>2, <1>3, Requeued
<1>5. OutType' BY <1>0, <1>1, <1>2, <1>4 DEF OutType
<1>6. WriteInv' BY <1>0, <1>1, <1>2 DEF WriteInv
<1>7. TimelineIsTrue' BY <1>0, <1>1, <1>2 DEF TimelineIsTrue, Answers
<1> QED BY <1>2, <1>4, <1>5, <1>6, <1>7 DEF OutInv

(* The panel's request, up to its job; a worker has no part in it.         *)
LEMMA PanelHolds ==
    ASSUME OutInv, NEW j \in Manual, UNCHANGED outVars,
           \/ CommitManual(j) \/ EnqueueManualFails(j)
           \/ deleteMessageCompensating(j) \/ PanelDies(j)
    PROVE  OutInv'
<1>0. OutType /\ QueueInv /\ SenderInv /\ WriteInv /\ TimelineIsTrue BY DEF OutInv
<1>1. UNCHANGED <<outbound, state, attempts, sender, accepted>> BY DEF outVars
<1>2. /\ panel' \in [Manual -> {"new", "send", "compensate", "phantom", "end"}]
      /\ outRow' \in [Answers -> Nat]
      /\ \A k \in Manual : k # j => panel'[k] = panel[k]
      /\ \A k \in Answers : k # j => outRow'[k] = outRow[k]
      /\ outRow'[j] \in {0, 1, outRow[j]}
      /\ panel'[j] = "end" => outRow'[j] = 0
  <2>1. /\ j \in Answers /\ outRow \in [Answers -> Nat]
        /\ panel \in [Manual -> {"new", "send", "compensate", "phantom", "end"}]
    BY <1>0 DEF OutType, Answers
  <2>2. CASE CommitManual(j) BY <2>1, <2>2 DEF CommitManual
  <2>3. CASE EnqueueManualFails(j) \/ PanelDies(j)
    BY <2>1, <2>3 DEF EnqueueManualFails, PanelDies
  <2>4. CASE deleteMessageCompensating(j) BY <2>1, <2>4 DEF deleteMessageCompensating
  <2> QED BY <2>2, <2>3, <2>4
<1>3. OutType' BY <1>0, <1>1, <1>2 DEF OutType
<1>4. QueueInv' /\ SenderInv' BY <1>0, <1>1 DEF QueueInv, SenderInv, Busy
<1>5. \A k \in Bot : outRow'[k] = outRow[k] BY <1>2, FlowAssumption DEF Answers
<1>6. WriteInv' BY <1>0, <1>1, <1>5 DEF WriteInv
<1>7. TimelineIsTrue'
  <2>1. ASSUME NEW k \in Manual
        PROVE  outRow'[k] <= 1 /\ (panel'[k] = "end" /\ state'[k] = "new" => outRow'[k] = 0)
    <3>1. CASE k = j BY <1>0, <1>1, <1>2, <3>1 DEF TimelineIsTrue, Answers
    <3>2. CASE k # j BY <1>0, <1>1, <1>2, <3>2 DEF TimelineIsTrue, Answers
    <3> QED BY <3>1, <3>2
  <2> QED BY <1>0, <1>1, <1>5, <2>1 DEF TimelineIsTrue
<1> QED BY <1>3, <1>4, <1>6, <1>7 DEF OutInv

LEMMA SuppressOut == ASSUME OutInv, suppress PROVE OutInv'
<1>0. OutType /\ QueueInv /\ SenderInv /\ WriteInv /\ TimelineIsTrue BY DEF OutInv
<1>1. /\ UNCHANGED <<outbound, state, attempts, sender, accepted, panel>>
      /\ outRow' = [k \in Answers |-> 0]
  BY DEF suppress, outVars
<1>2. OutType' BY <1>0, <1>1 DEF OutType
<1>3. QueueInv' /\ SenderInv' BY <1>0, <1>1 DEF QueueInv, SenderInv, Busy
<1>4. WriteInv'
  <2>1. ASSUME NEW t \in Senders, sender[t].pc \in {"upsert", "insert"}
        PROVE  sender[t].job \in Bot /\ outRow'[sender[t].job] < accepted[sender[t].job]
    <3>1. sender[t].job \in Bot /\ outRow[sender[t].job] < accepted[sender[t].job]
      BY <1>0, <2>1 DEF WriteInv
    <3>2. sender[t].job \in Answers BY <3>1 DEF Answers
    <3>3. /\ outRow[sender[t].job] \in Nat /\ accepted[sender[t].job] \in Nat
          /\ outRow'[sender[t].job] = 0
      BY <1>0, <1>1, <3>2 DEF OutType
    <3> QED BY <3>1, <3>3
  <2> QED BY <1>0, <1>1, <2>1 DEF WriteInv
<1>5. TimelineIsTrue'
  <2>1. \A k \in Answers : outRow'[k] = 0 /\ accepted[k] \in Nat BY <1>0, <1>1 DEF OutType
  <2> QED BY <1>1, <2>1 DEF TimelineIsTrue, Answers
<1> QED BY <1>2, <1>3, <1>4, <1>5 DEF OutInv

LEMMA StepOutInv == ASSUME OutInv, [Next]_vars PROVE OutInv'
<1>1. ASSUME NEW r \in Requests,
             receive(r) \/ RequestStep(r) \/ HandlerThrows(r) \/ RequestDies(r)
      PROVE  OutInv'
  BY <1>1, OutQuiet
     DEF receive, RequestStep, recordWebhookEvent, findOrCreateByPhone, SaveMessage, handleMessage,
         HandlerThrows, RequestDies
<1>2. ASSUME NEW m \in Inbound, JobStep(m) PROVE OutInv'
  <2>1. UNCHANGED <<outRow, panel>>
    BY <1>2 DEF JobStep, MessageMissing, push, TranscriptionFails, respondUnsupported, JobTaken
  <2>2. UNCHANGED outVars \/ \E j \in Bot : sendText(j)
    BY <1>2 DEF JobStep, MessageMissing, push, TranscriptionFails, respondUnsupported
  <2> QED BY <2>1, <2>2, OutQuiet, SendTextStep DEF Answers
<1>3. ASSUME NEW s \in Senders, SenderStep(s) \/ SenderDies(s) PROVE OutInv'
  BY <1>3, TakeStep, SendStep, UpsertStep, DoneStep, FailStep, SenderDiesStep DEF SenderStep
<1>4. ASSUME NEW j \in Bot, handleTurn(j) PROVE OutInv'
  BY <1>4, SendTextStep DEF handleTurn, Answers
<1>5. ASSUME NEW j \in Manual, CommitManual(j) \/ PanelStep(j) \/ PanelDies(j) PROVE OutInv'
  <2>1. CASE EnqueueManual(j)
    <3>1. j \in Answers BY DEF Answers
    <3>2. sendText(j) /\ outRow' = outRow /\ panel' = [panel EXCEPT ![j] = "end"]
      BY <2>1 DEF EnqueueManual
    <3> QED BY <3>1, <3>2, SendTextStep
  <2>2. CASE ~EnqueueManual(j)
    <3>1. UNCHANGED outVars
      BY <1>5, <2>2 DEF CommitManual, PanelStep, EnqueueManualFails, deleteMessageCompensating, PanelDies
    <3> QED BY <1>5, <2>2, <3>1, PanelHolds DEF PanelStep
  <2> QED BY <2>1, <2>2
<1>6. CASE suppress BY <1>6, SuppressOut
<1>7. CASE MonthPasses \/ purgeWebhookEvents
  BY <1>7, OutQuiet DEF MonthPasses, purgeWebhookEvents
<1>8. CASE UNCHANGED vars BY <1>8, OutQuiet DEF vars
<1> QED BY <1>1, <1>2, <1>3, <1>4, <1>5, <1>6, <1>7, <1>8, DueStep DEF Next

(* TimelineIsTrue: with any number of workers and attempts, the timeline   *)
(* has no more rows of a bot's answer than WhatsApp took, at most one of a *)
(* manual message, and none of one that its request did not queue and took *)
(* back.                                                                   *)
THEOREM TimelineTrue == Spec => []TimelineIsTrue
<1>1. OutInv => TimelineIsTrue BY DEF OutInv
<1>2. OutInv /\ [Next]_vars => OutInv' BY StepOutInv
<1> QED BY <1>1, <1>2, InitOutInv, PTL DEF Spec

LEMMA SameJobs == state' = state => promised' = promised
  BY DEF promised

(* A job that changes alone changes alone in the promise.                  *)
LEMMA OneJob ==
    ASSUME OutInv, NEW j \in Answers, NEW to \in JobStates, state' = [state EXCEPT ![j] = to]
    PROVE  /\ promised' = [promised EXCEPT ![j] = IF to \in {"waiting", "active", "delayed"}
                                                    THEN "queued" ELSE to]
           /\ promised[j] = IF state[j] \in {"waiting", "active", "delayed"}
                              THEN "queued" ELSE state[j]
<1>1. state \in [Answers -> JobStates] BY DEF OutInv, OutType
<1>2. state'[j] = to /\ \A k \in Answers : k # j => state'[k] = state[k] BY <1>1
<1> QED BY <1>2 DEF promised

LEMMA DeliveryStep ==
    ASSUME OutInv, [Next]_vars
    PROVE  [Delivery!Next]_<<promised, accepted>>
<1>0. OutType /\ QueueInv /\ SenderInv /\ WriteInv BY DEF OutInv
<1>1. ASSUME UNCHANGED <<state, accepted>> PROVE UNCHANGED <<promised, accepted>>
  BY <1>1, SameJobs
<1>2. ASSUME NEW j \in Answers, sendText(j) PROVE Delivery!Next
  <2>1. /\ state[j] = "new" /\ state' = [state EXCEPT ![j] = "waiting"] /\ accepted' = accepted
    BY <1>2 DEF sendText
  <2>2. promised[j] = "new" /\ promised' = [promised EXCEPT ![j] = "queued"]
    BY <2>1, OneJob DEF JobStates
  <2> QED BY <2>1, <2>2 DEF Delivery!Next, Delivery!Enqueue
<1>3. ASSUME NEW j \in Answers, NEW to \in {"waiting", "active"}, accepted' = accepted,
             state[j] \in {"waiting", "active", "delayed"}, state' = [state EXCEPT ![j] = to]
      PROVE  UNCHANGED <<promised, accepted>>
  <2>1. promised[j] = "queued" /\ promised' = [promised EXCEPT ![j] = "queued"]
    BY <1>3, OneJob DEF JobStates
  <2>2. promised' = promised BY <2>1 DEF promised
  <2> QED BY <1>3, <2>2
<1>4. ASSUME NEW s \in Senders, SenderStep(s) \/ SenderDies(s)
      PROVE  Delivery!Next \/ UNCHANGED <<promised, accepted>>
  <2> DEFINE j == sender[s].job
  <2>1. Busy(s) => j \in Answers /\ state[j] = "active" BY <1>0 DEF SenderInv
  <2>2. CASE TakeJob(s)
    <3>1. Head(outbound) \in Answers /\ state[Head(outbound)] = "waiting"
      <4>1. outbound \in Seq(Answers) /\ outbound # <<>> BY <1>0, <2>2 DEF OutType, TakeJob
      <4>2. 1 \in 1 .. Len(outbound) /\ Head(outbound) = outbound[1] /\ Head(outbound) \in Answers
        BY <4>1
      <4> QED BY <1>0, <4>2 DEF QueueInv
    <3>2. state' = [state EXCEPT ![Head(outbound)] = "active"] /\ accepted' = accepted
      BY <2>2 DEF TakeJob
    <3> QED BY <1>3, <3>1, <3>2
  <2>3. CASE SenderDies(s)
    <3>1. Busy(s) /\ state' = [state EXCEPT ![j] = "waiting"] /\ accepted' = accepted
      BY <2>3 DEF SenderDies, Leave, Busy
    <3> QED BY <1>3, <2>1, <3>1
  <2>4. CASE Send(s)
    <3>1. Busy(s) /\ state' = state /\ accepted' = [accepted EXCEPT ![j] = @ + 1]
      BY <2>4 DEF Send, Step, Busy
    <3>2. promised' = promised /\ promised[j] = "queued"
      BY <2>1, <3>1, SameJobs DEF promised
    <3> QED BY <2>1, <3>1, <3>2 DEF Delivery!Next, Delivery!Accept
  <2>5. CASE UpdateManual(s) \/ InsertRow(s)
    <3>1. /\ Busy(s) /\ state' = [state EXCEPT ![j] = "done"] /\ accepted' = accepted
          /\ sender[s].pc \in {"update", "insert"}
      BY <2>5 DEF UpdateManual, InsertRow, Leave, Busy
    <3>2. accepted[j] > 0
      <4>1. outRow[j] \in Nat /\ accepted[j] \in Nat BY <1>0, <2>1, <3>1 DEF OutType
      <4> QED BY <1>0, <3>1, <4>1 DEF WriteInv
    <3>3. promised[j] = "queued" /\ promised' = [promised EXCEPT ![j] = "done"]
      BY <2>1, <3>1, OneJob DEF JobStates
    <3> QED BY <2>1, <3>1, <3>2, <3>3 DEF Delivery!Next, Delivery!Complete
  <2>6. CASE UpsertLead(s) BY <1>1, <2>6 DEF UpsertLead
  <2>7. CASE AttemptFails(s)
    <3> PICK to \in {"delayed", "failed"} :
          /\ Busy(s) /\ state' = [state EXCEPT ![j] = to]
          /\ accepted' = accepted \/ accepted' = [accepted EXCEPT ![j] = @ + 1]
      BY <2>7 DEF AttemptFails, Leave, Busy
    <3>1. promised[j] = "queued" BY <2>1, OneJob DEF JobStates
    <3>2. CASE to = "failed"
      <4>1. promised' = [promised EXCEPT ![j] = "failed"] BY <2>1, <3>2, OneJob DEF JobStates
      <4> QED BY <2>1, <3>1, <4>1 DEF Delivery!Next, Delivery!GiveUp
    <3>3. CASE to = "delayed"
      <4>1. promised' = [promised EXCEPT ![j] = "queued"] BY <2>1, <3>3, OneJob DEF JobStates
      <4>2. promised' = promised BY <3>1, <4>1 DEF promised
      <4> QED BY <2>1, <3>1, <4>2 DEF Delivery!Next, Delivery!Accept
    <3> QED BY <3>2, <3>3
  <2> QED BY <1>4, <2>2, <2>3, <2>4, <2>5, <2>6, <2>7 DEF SenderStep
<1>5. ASSUME NEW j \in Answers, FallDue(j) PROVE UNCHANGED <<promised, accepted>>
  BY <1>3, <1>5 DEF FallDue
<1>6. ASSUME NEW r \in Requests,
             receive(r) \/ RequestStep(r) \/ HandlerThrows(r) \/ RequestDies(r)
      PROVE  UNCHANGED <<promised, accepted>>
  BY <1>1, <1>6
     DEF receive, RequestStep, recordWebhookEvent, findOrCreateByPhone, SaveMessage, handleMessage,
         HandlerThrows, RequestDies, outVars
<1>7. ASSUME NEW m \in Inbound, JobStep(m)
      PROVE  Delivery!Next \/ UNCHANGED <<promised, accepted>>
  <2>1. UNCHANGED outVars \/ \E j \in Bot : sendText(j)
    BY <1>7 DEF JobStep, MessageMissing, push, TranscriptionFails, respondUnsupported
  <2> QED BY <1>1, <1>2, <2>1 DEF Answers, outVars
<1>8. ASSUME NEW j \in Manual, CommitManual(j) \/ PanelStep(j) \/ PanelDies(j)
      PROVE  Delivery!Next \/ UNCHANGED <<promised, accepted>>
  <2>1. UNCHANGED outVars \/ sendText(j)
    BY <1>8 DEF CommitManual, PanelStep, EnqueueManual, EnqueueManualFails,
                deleteMessageCompensating, PanelDies
  <2> QED BY <1>1, <1>2, <2>1 DEF Answers, outVars
<1>9. CASE suppress \/ MonthPasses \/ purgeWebhookEvents \/ UNCHANGED vars
  BY <1>1, <1>9 DEF suppress, MonthPasses, purgeWebhookEvents, vars, outVars
<1>10. ASSUME NEW j \in Bot, handleTurn(j) PROVE Delivery!Next
  BY <1>2, <1>10 DEF handleTurn, Answers
<1> QED BY <1>4, <1>5, <1>6, <1>7, <1>8, <1>9, <1>10 DEF Next

(* DeliversAnswers: whatever the queue orders, retries and loses, each     *)
(* message keeps what OutboundDelivery promises of it.                     *)
THEOREM ImplementsOutboundDelivery == Spec => DeliversAnswers
<1>1. Init => Delivery!Init BY DEF Init, Delivery!Init, promised
<1>2. OutInv /\ [Next]_vars => [Delivery!Next]_<<promised, accepted>> BY DeliveryStep
<1>3. OutInv /\ [Next]_vars => OutInv' BY StepOutInv
<1> QED BY <1>1, <1>2, <1>3, InitOutInv, PTL DEF Spec, DeliversAnswers, Delivery!Spec

-----------------------------------------------------------------------------
(* The order in which one worker sends them.                               *)

Listed(j) == \E a \in 1 .. Len(outbound) : outbound[a] = j
Held(j)   == \E s \in Senders : Busy(s) /\ sender[s].job = j
Ahead(j, k) ==
    \E a, b \in 1 .. Len(outbound) : a < b /\ outbound[a] = j /\ outbound[b] = k

(* Where the job of j is, and what its state says of its attempts.         *)
StatusOf(j) ==
    /\ state[j] = "new" => accepted[j] = 0
    /\ state[j] = "waiting" => Listed(j)
    /\ state[j] = "active" => Held(j)
    /\ state[j] \in {"delayed", "failed"} => attempts[j] > 0
    /\ state[j] = "done" => accepted[j] > 0

StatusInv ==
    /\ order \in Seq(Answers) /\ \A a \in 1 .. Len(order) : state[order[a]] # "new"
    /\ \A j \in Answers : StatusOf(j)

(* What has neither been accepted nor failed, and whose worker never died. *)
Untried(j) == accepted[j] = 0 /\ attempts[j] = 0 /\ j \notin faulted

(* A job that was never tried is still ahead of all that were queued later.*)
OrderInv ==
    \A j, k \in Answers : Before(j, k) /\ Untried(j) =>
        /\ accepted[k] = 0 /\ state[k] = "waiting"
        /\ state[j] = "active" \/ Ahead(j, k)

LEMMA InitStatus == Init => StatusInv /\ OrderInv
  BY DEF Init, StatusInv, StatusOf, OrderInv, Before

(* One job changes, and the others keep their place.                       *)
LEMMA OneStatus ==
    ASSUME OutInv, StatusInv, NEW x \in Answers,
           \A k \in Answers : k # x =>
              /\ state'[k] = state[k] /\ accepted'[k] = accepted[k] /\ attempts'[k] = attempts[k]
              /\ Listed(k) => Listed(k)'
              /\ Held(k) => Held(k)',
           StatusOf(x)', state'[x] # "new",
           order' = order \/ order' = Append(order, x)
    PROVE  StatusInv'
<1>1. \A j \in Answers : StatusOf(j)' BY DEF StatusInv, StatusOf
<1>2. /\ order' \in Seq(Answers)
      /\ \A a \in 1 .. Len(order') : order'[a] = x \/ (a \in 1 .. Len(order) /\ order'[a] = order[a])
  <2>1. order \in Seq(Answers) BY DEF StatusInv
  <2>2. CASE order' = order BY <2>1, <2>2
  <2>3. CASE order' = Append(order, x) BY <2>1, <2>3
  <2> QED BY <2>2, <2>3
<1>3. ASSUME NEW a \in 1 .. Len(order') PROVE state'[order'[a]] # "new"
  <2>1. CASE order'[a] = x BY <2>1
  <2>2. CASE order'[a] # x
    <3>1. a \in 1 .. Len(order) /\ order'[a] = order[a] BY <1>2, <2>2
    <3>2. order[a] \in Answers /\ state[order[a]] # "new" BY <3>1 DEF StatusInv
    <3> QED BY <2>2, <3>1, <3>2
  <2> QED BY <2>1, <2>2
<1> QED BY <1>1, <1>2, <1>3 DEF StatusInv

(* A job is put at one end of the list: the others stay in it, in order.   *)
LEMMA ListGrows ==
    ASSUME OutInv, NEW x \in Answers,
           outbound' = Append(outbound, x) \/ outbound' = <<x>> \o outbound
    PROVE  /\ Listed(x)'
           /\ \A k \in Answers : Listed(k) => Listed(k)'
           /\ \A j, k \in Answers : Ahead(j, k) => Ahead(j, k)'
<1>1. outbound \in Seq(Answers) /\ Len(outbound) \in Nat BY DEF OutInv, OutType
<1>2. CASE outbound' = Append(outbound, x)
  <2>1. /\ Len(outbound') = Len(outbound) + 1 /\ outbound'[Len(outbound) + 1] = x
        /\ \A a \in 1 .. Len(outbound) : outbound'[a] = outbound[a]
    BY <1>1, <1>2, AppendOne
  <2>2. Len(outbound) + 1 \in 1 .. Len(outbound') /\ 1 .. Len(outbound) \subseteq 1 .. Len(outbound')
    BY <1>1, <2>1
  <2> QED BY <2>1, <2>2 DEF Listed, Ahead
<1>3. CASE outbound' = <<x>> \o outbound
  <2>1. /\ Len(outbound') = Len(outbound) + 1 /\ outbound'[1] = x
        /\ \A a \in 2 .. Len(outbound) + 1 : outbound'[a] = outbound[a - 1]
    BY <1>1, <1>3, PrependOne
  <2>2. /\ 1 \in 1 .. Len(outbound')
        /\ \A a \in 1 .. Len(outbound) :
              a + 1 \in 1 .. Len(outbound') /\ outbound'[a + 1] = outbound[a]
    BY <1>1, <2>1
  <2>3. \A a, b \in 1 .. Len(outbound) : a < b => a + 1 < b + 1 BY <1>1
  <2>4. Listed(x)' BY <2>1, <2>2 DEF Listed
  <2>5. ASSUME NEW k \in Answers, Listed(k) PROVE Listed(k)'
    <3> PICK a \in 1 .. Len(outbound) : outbound[a] = k BY <2>5 DEF Listed
    <3> QED BY <2>2 DEF Listed
  <2>6. ASSUME NEW j \in Answers, NEW k \in Answers, Ahead(j, k) PROVE Ahead(j, k)'
    <3> PICK a \in 1 .. Len(outbound), b \in 1 .. Len(outbound) :
          a < b /\ outbound[a] = j /\ outbound[b] = k
      BY <2>6 DEF Ahead
    <3> QED BY <2>2, <2>3 DEF Ahead
  <2> QED BY <2>4, <2>5, <2>6
<1> QED BY <1>2, <1>3

(* A job is taken from the head of the list.                               *)
LEMMA ListShrinks ==
    ASSUME OutInv, outbound # <<>>, outbound' = Tail(outbound)
    PROVE  /\ Head(outbound) \in Answers /\ state[Head(outbound)] = "waiting"
           /\ \A k \in Answers : k # Head(outbound) /\ Listed(k) => Listed(k)'
           /\ \A j, k \in Answers : Ahead(j, k) =>
                k # Head(outbound) /\ (j = Head(outbound) \/ Ahead(j, k)')
<1>0. outbound \in Seq(Answers) /\ QueueInv BY DEF OutInv, OutType
<1>1. /\ 1 \in 1 .. Len(outbound) /\ Head(outbound) = outbound[1] /\ outbound[1] \in Answers
      /\ Len(outbound) \in Nat /\ Len(outbound') = Len(outbound) - 1
      /\ \A a \in 1 .. Len(outbound) :
            a # 1 => a - 1 \in 1 .. Len(outbound') /\ outbound'[a - 1] = outbound[a]
  BY <1>0
<1>2. \A k \in Answers : k # Head(outbound) /\ Listed(k) => Listed(k)'
  BY <1>1 DEF Listed
<1>3. ASSUME NEW j \in Answers, NEW k \in Answers, Ahead(j, k)
      PROVE  k # Head(outbound) /\ (j = Head(outbound) \/ Ahead(j, k)')
  <2> PICK a \in 1 .. Len(outbound), b \in 1 .. Len(outbound) :
        a < b /\ outbound[a] = j /\ outbound[b] = k
    BY <1>3 DEF Ahead
  <2>1. b # 1 BY <1>1
  <2>2. k # Head(outbound) BY <1>0, <1>1, <2>1 DEF QueueInv
  <2>3. CASE a = 1 BY <1>1, <2>2, <2>3
  <2>4. CASE a # 1
    <3>1. a - 1 \in 1 .. Len(outbound') /\ b - 1 \in 1 .. Len(outbound') /\ a - 1 < b - 1
          /\ outbound'[a - 1] = j /\ outbound'[b - 1] = k
      BY <1>1, <2>1, <2>4
    <3> QED BY <2>2, <3>1 DEF Ahead
  <2> QED BY <2>3, <2>4
<1>4. state[Head(outbound)] = "waiting" BY <1>0, <1>1 DEF QueueInv
<1> QED BY <1>1, <1>2, <1>3, <1>4

LEMMA QuietStatus ==
    ASSUME StatusInv, UNCHANGED outVars
    PROVE  StatusInv' /\ (OrderInv /\ faulted \subseteq faulted' => OrderInv')
  BY DEF StatusInv, StatusOf, Listed, Held, Busy, OrderInv, Untried, Ahead, Before, outVars

(* A job is queued behind those before it.                                 *)
LEMMA EnqueueStatus ==
    ASSUME OutInv, StatusInv, NEW x \in Answers, sendText(x)
    PROVE  StatusInv' /\ (OrderInv /\ faulted \subseteq faulted' => OrderInv')
<1>0. /\ outbound \in Seq(Answers) /\ Len(outbound) \in Nat /\ state \in [Answers -> JobStates]
      /\ order \in Seq(Answers) /\ Len(order) \in Nat
  BY DEF OutInv, OutType, StatusInv
<1>1. /\ state[x] = "new" /\ state'[x] = "waiting"
      /\ outbound' = Append(outbound, x) /\ order' = Append(order, x)
      /\ UNCHANGED <<attempts, sender, accepted>>
      /\ \A k \in Answers : k # x => state'[k] = state[k]
  BY <1>0 DEF sendText
<1>2. /\ Listed(x)' /\ \A k \in Answers : Listed(k) => Listed(k)'
      /\ \A j, k \in Answers : Ahead(j, k) => Ahead(j, k)'
  BY <1>1, ListGrows
<1>3. StatusOf(x)' BY <1>1, <1>2 DEF StatusOf
<1>4. \A k \in Answers : Held(k) <=> Held(k)' BY <1>1 DEF Held, Busy
<1>5. StatusInv' BY <1>1, <1>2, <1>3, <1>4, OneStatus
<1>6. ASSUME OrderInv, faulted \subseteq faulted' PROVE OrderInv'
  <2> SUFFICES ASSUME NEW j \in Answers, NEW k \in Answers, Before(j, k)', Untried(j)'
               PROVE  /\ accepted'[k] = 0 /\ state'[k] = "waiting"
                      /\ state'[j] = "active" \/ Ahead(j, k)'
    BY DEF OrderInv
  <2>1. Untried(j) BY <1>1, <1>6 DEF Untried
  <2>2. /\ Len(order') = Len(order) + 1 /\ order'[Len(order) + 1] = x
        /\ \A a \in 1 .. Len(order) : order'[a] = order[a]
    BY <1>0, <1>1, AppendOne
  <2>3. PICK a \in 1 .. Len(order'), b \in 1 .. Len(order') :
          a < b /\ order'[a] = j /\ order'[b] = k
    BY DEF Before
  <2>4. a \in 1 .. Len(order) /\ order[a] = j /\ state[j] # "new" /\ j # x
    <3>1. a \in 1 .. Len(order) BY <1>0, <2>2, <2>3
    <3>2. order[a] = j BY <2>2, <2>3, <3>1
    <3> QED BY <1>1, <3>1, <3>2 DEF StatusInv
  <2>5. CASE b \in 1 .. Len(order)
    <3>1. order[b] = k BY <2>2, <2>3, <2>5
    <3>2. Before(j, k) BY <2>3, <2>4, <2>5, <3>1 DEF Before
    <3>3. accepted[k] = 0 /\ state[k] = "waiting" /\ (state[j] = "active" \/ Ahead(j, k))
      BY <1>6, <2>1, <3>2 DEF OrderInv
    <3> QED BY <1>1, <1>2, <2>4, <3>3
  <2>6. CASE b \notin 1 .. Len(order)
    <3>1. b = Len(order) + 1 BY <1>0, <2>2, <2>6
    <3>2. k = x BY <2>2, <2>3, <3>1
    <3>3. accepted[x] = 0 BY <1>1 DEF StatusInv, StatusOf
    <3>4. state[j] = "waiting" => Listed(j) BY DEF StatusInv, StatusOf
    <3>5. state[j] \in {"waiting", "active"}
      <4>1. state[j] \in JobStates /\ StatusOf(j) BY <1>0 DEF StatusInv
      <4> QED BY <2>1, <2>4, <4>1 DEF StatusOf, JobStates, Untried
    <3>6. ASSUME Listed(j) PROVE Ahead(j, x)'
      <4> PICK c \in 1 .. Len(outbound) : outbound[c] = j BY <3>6 DEF Listed
      <4>1. /\ Len(outbound') = Len(outbound) + 1 /\ outbound'[Len(outbound) + 1] = x
            /\ outbound'[c] = j
        BY <1>0, <1>1, AppendOne
      <4>2. c \in 1 .. Len(outbound') /\ Len(outbound) + 1 \in 1 .. Len(outbound')
            /\ c < Len(outbound) + 1
        BY <1>0, <4>1
      <4> QED BY <4>1, <4>2 DEF Ahead
    <3> QED BY <1>1, <2>4, <3>2, <3>3, <3>4, <3>5, <3>6
  <2> QED BY <2>5, <2>6
<1> QED BY <1>5, <1>6

(* The worker goes on with its job.                                        *)
LEMMA TakeStatus ==
    ASSUME OutInv, StatusInv, NEW s \in Senders, TakeJob(s)
    PROVE  StatusInv' /\ ((\A t \in Senders : t = s) /\ OrderInv => OrderInv')
<1>0. OutType BY DEF OutInv
<1> PICK x \in Answers : x = Head(outbound)
  <2>1. outbound # <<>> /\ outbound' = Tail(outbound) BY DEF TakeJob
  <2> QED BY <2>1, ListShrinks
<1>1. /\ sender[s].pc = "idle" /\ outbound # <<>> /\ outbound' = Tail(outbound)
      /\ sender' = [sender EXCEPT ![s] = [pc |-> "send", job |-> x]]
      /\ state' = [state EXCEPT ![x] = "active"]
      /\ UNCHANGED <<attempts, accepted, order, faulted>>
  BY DEF TakeJob
<1>2. /\ x \in Answers /\ state[x] = "waiting"
      /\ \A k \in Answers : k # x /\ Listed(k) => Listed(k)'
      /\ \A j, k \in Answers : Ahead(j, k) => k # x /\ (j = x \/ Ahead(j, k)')
  BY <1>1, ListShrinks
<1>3. state'[x] = "active" /\ \A k \in Answers : k # x => state'[k] = state[k]
  BY <1>0, <1>1, <1>2 DEF OutType
<1>4. Held(x)' /\ \A k \in Answers : Held(k) => Held(k)'
  BY <1>0, <1>1 DEF Held, Busy, OutType
<1>5. StatusOf(x)' BY <1>3, <1>4 DEF StatusOf
<1>6. StatusInv' BY <1>1, <1>2, <1>3, <1>4, <1>5, OneStatus
<1>7. ASSUME \A t \in Senders : t = s, OrderInv PROVE OrderInv'
  <2> SUFFICES ASSUME NEW j \in Answers, NEW k \in Answers, Before(j, k), Untried(j)
               PROVE  /\ accepted[k] = 0 /\ state'[k] = "waiting"
                      /\ state'[j] = "active" \/ Ahead(j, k)'
    BY <1>1 DEF OrderInv, Before, Untried
  <2>1. accepted[k] = 0 /\ state[k] = "waiting" /\ (state[j] = "active" \/ Ahead(j, k))
    BY <1>7 DEF OrderInv
  <2>2. state[j] # "active" BY <1>1, <1>7 DEF StatusInv, StatusOf, Held, Busy
  <2> QED BY <1>2, <1>3, <2>1, <2>2
<1> QED BY <1>6, <1>7

(* A job that was tried, or whose worker died, is out of the question.     *)
LEMMA Tried ==
    ASSUME OrderInv, NEW x \in Answers, state[x] # "waiting", ~Untried(x)',
           UNCHANGED order, faulted \subseteq faulted',
           \A k \in Answers : k # x =>
              state'[k] = state[k] /\ accepted'[k] = accepted[k] /\ attempts'[k] = attempts[k],
           \A j, k \in Answers : Ahead(j, k) => Ahead(j, k)'
    PROVE  OrderInv'
<1> SUFFICES ASSUME NEW j \in Answers, NEW k \in Answers, Before(j, k)', Untried(j)'
             PROVE  /\ accepted'[k] = 0 /\ state'[k] = "waiting"
                    /\ state'[j] = "active" \/ Ahead(j, k)'
  BY DEF OrderInv
<1>1. j # x /\ Untried(j) /\ Before(j, k) BY DEF Untried, Before
<1>2. accepted[k] = 0 /\ state[k] = "waiting" /\ (state[j] = "active" \/ Ahead(j, k))
  BY <1>1 DEF OrderInv
<1> QED BY <1>1, <1>2

(* The worker is done with its job, or lets go of it.                      *)
LEMMA LeaveStatus ==
    ASSUME OutInv, StatusInv, NEW s \in Senders, Busy(s),
           NEW x \in Answers, x = sender[s].job, NEW to \in JobStates \ {"new"},
           Leave(s, to), UNCHANGED order, faulted \subseteq faulted',
           \A k \in Answers : k # x =>
              accepted'[k] = accepted[k] /\ attempts'[k] = attempts[k],
           \/ outbound' = outbound /\ to \notin {"waiting", "active"}
           \/ outbound' = <<x>> \o outbound /\ to = "waiting",
           to \in {"delayed", "failed"} => attempts'[x] > 0,
           to = "done" => accepted'[x] > 0,
           ~Untried(x)'
    PROVE  StatusInv' /\ (OrderInv => OrderInv')
<1>0. OutType BY DEF OutInv
<1>1. /\ state[x] = "active" /\ state'[x] = to
      /\ \A k \in Answers : k # x => state'[k] = state[k]
  BY LeaveHolds
<1>2. sender' = [sender EXCEPT ![s] = [pc |-> "idle", job |-> None]] BY DEF Leave
<1>3. \A k \in Answers : k # x /\ Held(k) => Held(k)'
  BY <1>0, <1>2 DEF Held, Busy, OutType
<1>4. /\ \A k \in Answers : Listed(k) => Listed(k)'
      /\ \A j, k \in Answers : Ahead(j, k) => Ahead(j, k)'
      /\ to = "waiting" => Listed(x)'
  <2>1. CASE outbound' = outbound /\ to # "waiting" BY <2>1 DEF Listed, Ahead
  <2>2. CASE outbound' = <<x>> \o outbound BY <1>1, <2>2, ListGrows
  <2> QED BY <2>1, <2>2
<1>5. StatusOf(x)' BY <1>1, <1>4 DEF StatusOf
<1>6. StatusInv' BY <1>1, <1>3, <1>4, <1>5, OneStatus
<1> QED BY <1>1, <1>4, <1>6, Tried

(* WhatsApp took the message: it was tried, and its worker is still at it. *)
LEMMA SendStatus ==
    ASSUME OutInv, StatusInv, NEW s \in Senders, Send(s)
    PROVE  StatusInv' /\ (OrderInv => OrderInv')
<1>0. OutType /\ SenderInv BY DEF OutInv
<1> PICK x \in Answers : x = sender[s].job
  BY <1>0 DEF Send, Step, SenderInv, Busy
<1>1. /\ sender[s].pc = "send" /\ accepted' = [accepted EXCEPT ![x] = @ + 1]
      /\ sender' = [sender EXCEPT ![s].pc = IF x \in Manual THEN "update" ELSE "upsert"]
      /\ UNCHANGED <<outbound, state, attempts, order, faulted>>
  BY DEF Send, Step
<1>2. state[x] = "active" BY <1>0, <1>1 DEF SenderInv, Busy
<1>3. \A t \in Senders : sender'[t].job = sender[t].job /\ (Busy(t) => Busy(t)')
  BY <1>0, <1>1 DEF OutType, Busy
<1>4. \A k \in Answers : (Listed(k) => Listed(k)') /\ (Held(k) => Held(k)')
  BY <1>1, <1>3 DEF Listed, Held
<1>5. accepted'[x] > 0 /\ \A k \in Answers : k # x => accepted'[k] = accepted[k]
  <2>1. accepted \in [Answers -> Nat] BY <1>0 DEF OutType
  <2>2. accepted'[x] = accepted[x] + 1 /\ accepted[x] \in Nat BY <1>1, <2>1
  <2> QED BY <1>1, <2>1, <2>2
<1>6. StatusOf(x)'
  <2>1. Held(x) BY <1>2 DEF StatusInv, StatusOf
  <2> QED BY <1>1, <1>2, <1>4, <2>1 DEF StatusOf
<1>7. StatusInv' BY <1>1, <1>2, <1>4, <1>5, <1>6, OneStatus
<1>8. \A j, k \in Answers : Ahead(j, k) => Ahead(j, k)' BY <1>1 DEF Ahead
<1>9. ~Untried(x)' BY <1>5 DEF Untried
<1> QED BY <1>1, <1>2, <1>5, <1>7, <1>8, <1>9, Tried

LEMMA UpsertStatus ==
    ASSUME OutInv, StatusInv, NEW s \in Senders, UpsertLead(s)
    PROVE  StatusInv' /\ (OrderInv => OrderInv')
<1>0. OutType BY DEF OutInv
<1>1. /\ sender[s].pc = "upsert" /\ sender' = [sender EXCEPT ![s].pc = "insert"]
      /\ UNCHANGED <<outbound, state, attempts, accepted, order, faulted>>
  BY DEF UpsertLead, Step
<1>2. \A t \in Senders : sender'[t].job = sender[t].job /\ (Busy(t)' <=> Busy(t))
  BY <1>0, <1>1 DEF OutType, Busy
<1>3. \A k \in Answers : Held(k)' <=> Held(k) BY <1>2 DEF Held
<1>4. StatusInv' BY <1>1, <1>3 DEF StatusInv, StatusOf, Listed
<1> QED BY <1>1, <1>4 DEF OrderInv, Untried, Ahead, Before

LEMMA DoneStatus ==
    ASSUME OutInv, StatusInv, NEW s \in Senders, UpdateManual(s) \/ InsertRow(s)
    PROVE  StatusInv' /\ (OrderInv => OrderInv')
<1>0. OutType /\ SenderInv /\ WriteInv BY DEF OutInv
<1> PICK x \in Answers : x = sender[s].job
  BY <1>0 DEF UpdateManual, InsertRow, SenderInv, Busy
<1>1. /\ sender[s].pc \in {"update", "insert"} /\ Leave(s, "done")
      /\ UNCHANGED <<outbound, attempts, accepted, order, faulted>>
  BY DEF UpdateManual, InsertRow
<1>2. Busy(s) /\ "done" \in JobStates \ {"new"} BY <1>1 DEF Busy, JobStates
<1>3. accepted[x] > 0
  <2>1. outRow[x] \in Nat /\ accepted[x] \in Nat BY <1>0 DEF OutType
  <2> QED BY <1>0, <1>1, <2>1 DEF WriteInv
<1>4. ~Untried(x)' BY <1>1, <1>3 DEF Untried
<1> QED BY <1>1, <1>2, <1>3, <1>4, LeaveStatus

LEMMA FailStatus ==
    ASSUME OutInv, StatusInv, NEW s \in Senders, AttemptFails(s)
    PROVE  StatusInv' /\ (OrderInv => OrderInv')
<1>0. OutType /\ SenderInv BY DEF OutInv
<1> PICK x \in Answers : x = sender[s].job
  BY <1>0 DEF AttemptFails, SenderInv, Busy
<1>1. PICK to \in {"delayed", "failed"} :
        /\ Busy(s) /\ Leave(s, to) /\ attempts' = [attempts EXCEPT ![x] = @ + 1]
        /\ UNCHANGED <<outbound, order, faulted>>
        /\ accepted' = accepted \/ accepted' = [accepted EXCEPT ![x] = @ + 1]
  BY DEF AttemptFails, Busy
<1>2. /\ attempts'[x] > 0
      /\ \A k \in Answers : k # x => accepted'[k] = accepted[k] /\ attempts'[k] = attempts[k]
  <2>1. attempts \in [Answers -> Nat] /\ accepted \in [Answers -> Nat] BY <1>0 DEF OutType
  <2>2. attempts'[x] = attempts[x] + 1 /\ attempts[x] \in Nat BY <1>1, <2>1
  <2> QED BY <1>1, <2>1, <2>2
<1>3. ~Untried(x)' BY <1>2 DEF Untried
<1>4. to \in JobStates \ {"new"} /\ to \notin {"waiting", "active", "done"} BY DEF JobStates
<1>5. faulted \subseteq faulted' BY <1>1
<1> QED BY <1>1, <1>2, <1>3, <1>4, <1>5, LeaveStatus

LEMMA DiesStatus ==
    ASSUME OutInv, StatusInv, NEW s \in Senders, SenderDies(s)
    PROVE  StatusInv' /\ (OrderInv => OrderInv')
<1> PICK x \in Answers : x = sender[s].job
  BY DEF OutInv, SenderDies, SenderInv, Busy
<1>1. /\ Busy(s) /\ Leave(s, "waiting") /\ outbound' = <<x>> \o outbound
      /\ faulted' = faulted \cup {x} /\ UNCHANGED <<attempts, accepted, order>>
  BY DEF SenderDies, Busy
<1>2. "waiting" \in JobStates \ {"new"} BY DEF JobStates
<1>3. ~Untried(x)' BY <1>1 DEF Untried
<1> QED BY <1>1, <1>2, <1>3, LeaveStatus

LEMMA DueStatus ==
    ASSUME OutInv, StatusInv, NEW x \in Answers, FallDue(x)
    PROVE  StatusInv' /\ (OrderInv => OrderInv')
<1>0. OutType BY DEF OutInv
<1>1. /\ state[x] = "delayed" /\ state'[x] = "waiting"
      /\ \A k \in Answers : k # x => state'[k] = state[k]
      /\ outbound' = Append(outbound, x) \/ outbound' = <<x>> \o outbound
      /\ UNCHANGED <<attempts, sender, accepted, order, faulted>>
  BY <1>0 DEF FallDue, OutType
<1>2. /\ Listed(x)' /\ \A k \in Answers : Listed(k) => Listed(k)'
      /\ \A j, k \in Answers : Ahead(j, k) => Ahead(j, k)'
  BY <1>1, ListGrows
<1>3. \A k \in Answers : Held(k) => Held(k)' BY <1>1 DEF Held, Busy
<1>4. StatusOf(x)' BY <1>1, <1>2 DEF StatusOf
<1>5. StatusInv' BY <1>1, <1>2, <1>3, <1>4, OneStatus
<1>6. ~Untried(x)'
  <2>1. attempts[x] > 0 BY <1>1 DEF StatusInv, StatusOf
  <2> QED BY <1>1, <2>1 DEF Untried
<1> QED BY <1>1, <1>2, <1>5, <1>6, Tried

LEMMA StepStatus ==
    ASSUME OutInv, StatusInv, [Next]_vars
    PROVE  StatusInv' /\ ((\A s, t \in Senders : s = t) /\ OrderInv => OrderInv')
<1>1. ASSUME UNCHANGED outVars, faulted \subseteq faulted'
      PROVE  StatusInv' /\ (OrderInv => OrderInv')
  BY <1>1, QuietStatus
<1>2. ASSUME NEW j \in Answers, sendText(j), faulted \subseteq faulted'
      PROVE  StatusInv' /\ (OrderInv => OrderInv')
  BY <1>2, EnqueueStatus
<1>3. ASSUME NEW r \in Requests,
             receive(r) \/ RequestStep(r) \/ HandlerThrows(r) \/ RequestDies(r)
      PROVE  StatusInv' /\ (OrderInv => OrderInv')
  BY <1>1, <1>3
     DEF receive, RequestStep, recordWebhookEvent, findOrCreateByPhone, SaveMessage, handleMessage,
         HandlerThrows, RequestDies
<1>4. ASSUME NEW m \in Inbound, JobStep(m) PROVE StatusInv' /\ (OrderInv => OrderInv')
  <2>1. faulted \subseteq faulted' /\ (UNCHANGED outVars \/ \E j \in Bot : sendText(j))
    BY <1>4 DEF JobStep, MessageMissing, push, TranscriptionFails, respondUnsupported, JobTaken
  <2> QED BY <1>1, <1>2, <2>1 DEF Answers
<1>5. ASSUME NEW j \in Bot, handleTurn(j) PROVE StatusInv' /\ (OrderInv => OrderInv')
  BY <1>2, <1>5 DEF handleTurn, Answers
<1>6. ASSUME NEW j \in Manual, CommitManual(j) \/ PanelStep(j) \/ PanelDies(j)
      PROVE  StatusInv' /\ (OrderInv => OrderInv')
  <2>1. faulted' = faulted /\ (UNCHANGED outVars \/ sendText(j))
    BY <1>6 DEF CommitManual, PanelStep, EnqueueManual, EnqueueManualFails,
                deleteMessageCompensating, PanelDies, PanelUnchanged
  <2> QED BY <1>1, <1>2, <2>1 DEF Answers
<1>7. ASSUME NEW s \in Senders, SenderStep(s) \/ SenderDies(s)
      PROVE  StatusInv' /\ ((\A u, t \in Senders : u = t) /\ OrderInv => OrderInv')
  <2>1. CASE TakeJob(s) BY <2>1, TakeStatus
  <2>2. CASE ~TakeJob(s)
    BY <1>7, <2>2, SendStatus, UpsertStatus, DoneStatus, FailStatus, DiesStatus DEF SenderStep
  <2> QED BY <2>1, <2>2
<1>8. CASE suppress \/ MonthPasses \/ purgeWebhookEvents \/ UNCHANGED vars
  BY <1>1, <1>8 DEF suppress, MonthPasses, purgeWebhookEvents, vars
<1> QED BY <1>3, <1>4, <1>5, <1>6, <1>7, <1>8, DueStatus DEF Next

(* OvertakenOnlyByFailure, for one worker: what is sent before an earlier  *)
(* answer was sent only because an attempt of that one failed, or its      *)
(* worker died (messaging.service.ts:8).                                   *)
THEOREM OneSenderKeepsOrder ==
    (\A s, t \in Senders : s = t) /\ Spec => []OvertakenOnlyByFailure
<1> SUFFICES ASSUME \A s, t \in Senders : s = t PROVE Spec => []OvertakenOnlyByFailure
  OBVIOUS
<1>1. OutInv /\ StatusInv /\ OrderInv /\ [Next]_vars => (OutInv /\ StatusInv /\ OrderInv)'
  BY StepOutInv, StepStatus
<1>2. OutInv /\ OrderInv => OvertakenOnlyByFailure
  <2> SUFFICES ASSUME OutInv, OrderInv, NEW j \in Answers, NEW k \in Answers,
                      Before(j, k), accepted[k] > 0, accepted[j] = 0
               PROVE  attempts[j] > 0 \/ j \in faulted
    BY DEF OvertakenOnlyByFailure
  <2>1. attempts[j] \in Nat BY DEF OutInv, OutType
  <2>2. ~Untried(j) BY DEF OrderInv
  <2> QED BY <2>1, <2>2 DEF Untried
<1> QED BY <1>1, <1>2, InitOutInv, InitStatus, PTL DEF Spec
=============================================================================
