------------------------- MODULE TurnPipelineProofs -------------------------
(***************************************************************************)
(* What holds of the debounce pipeline for any number of messages,         *)
(* replicas, panel requests and crashes.                                   *)
(***************************************************************************)
EXTENDS TurnPipeline, TLAPS

(* Only a message is pushed: with TypeOK this is inductive.                *)
PushInv == \A p \in Processes : pc[p] = "rpush" => work[p] \in Messages

TypeInv == TypeOK /\ PushInv

(* An owner's key is its own.                                              *)
OwnerInv == \A p \in Processes : pc[p] \in OwnerPcs => lock = p

(* With MaxPurges = 0 no suppression is ever in progress.                  *)
NoPurge == \A p \in Processes : pc[p] \notin PurgePcs

LEMMA ToSetMessages == ASSUME NEW s \in Seq(Messages) PROVE ToSet(s) \subseteq Messages
  BY DEF ToSet

LEMMA InitTypeInv == Init => TypeInv
  BY ConstantsAssumption DEF Init, TypeInv, TypeOK, PushInv, Pcs

LEMMA StepTypeInv == TypeInv /\ [Next]_vars => TypeInv'
<1> SUFFICES ASSUME TypeOK, PushInv, [Next]_vars PROVE TypeOK' /\ PushInv'
  BY DEF TypeInv
<1> USE DEF TypeOK, PushInv, redis, local, history, budget, Goto, Idle
<1>1. ASSUME NEW m \in Messages, NEW q \in {"inbound", "media"}, Arrive(m, q)
      PROVE  TypeOK' /\ PushInv'
  BY <1>1 DEF Arrive
<1>2. ASSUME NEW w \in Workers, TakeMessage(w) PROVE TypeOK' /\ PushInv'
  <2> DEFINE q == IF w \in Media THEN "media" ELSE "inbound"
  <2>1. /\ q \in {"inbound", "media"} /\ queue[q] \in Seq(Messages) /\ queue[q] # <<>>
        /\ queue' = [queue EXCEPT ![q] = Tail(@)]
    BY <1>2 DEF TakeMessage
  <2>2. Head(queue[q]) \in Messages /\ Tail(queue[q]) \in Seq(Messages)
    BY <2>1
  <2>3. queue' \in [{"inbound", "media"} -> Seq(Messages)]
    BY <2>1, <2>2
  <2>4. CASE pc' = [pc EXCEPT ![w] = "rpush"] /\ work' = [work EXCEPT ![w] = Head(queue[q])] /\ UNCHANGED lost
    BY <1>2, <2>2, <2>3, <2>4 DEF TakeMessage, Processes, Pcs, PushPcs
  <2>5. CASE lost' = lost \cup {Head(queue[q])} /\ UNCHANGED <<pc, work>>
    BY <1>2, <2>2, <2>3, <2>5 DEF TakeMessage
  <2> QED BY <1>2, <2>4, <2>5 DEF TakeMessage
<1>3. ASSUME NEW w \in Workers, push(w) PROVE TypeOK' /\ PushInv'
  <2>1. CASE RPush(w)
    <3>1. work[w] \in Messages BY <2>1 DEF RPush, Processes
    <3> QED BY <2>1, <3>1 DEF RPush, Processes, Pcs, PushPcs
  <2>2. CASE CancelPendingRetry(w, "pushDropRetry", "dropTurn") \/ DropTurn(w)
    BY <2>2 DEF CancelPendingRetry, DropTurn, removeJobIfExists, JobIds, Processes, Pcs, PushPcs
  <2>3. CASE AddTurn(w)
    BY <2>3 DEF AddTurn, Added, JobIds, Processes, Pcs
  <2> QED BY <1>3, <2>1, <2>2, <2>3 DEF push
<1>4. ASSUME NEW w \in Workers, NEW j \in JobIds, TakeTurn(w, j) PROVE TypeOK' /\ PushInv'
  BY <1>4 DEF TakeTurn, Processes, Pcs
<1>5. ASSUME NEW w \in Workers, tryFlush(w) PROVE TypeOK' /\ PushInv'
  <2>1. CASE Acquire(w) \/ AcquireBusy(w) \/ scheduleRetry(w)
    BY <2>1 DEF Acquire, acquireLock, AcquireBusy, scheduleRetry, CancelPendingRetry,
                RequeueAdd, Added, removeJobIfExists, Processes, Pcs, OwnerPcs
  <2>2. CASE CancelPendingRetry(w, "cancelRetry", "lrange")
    BY <2>2 DEF CancelPendingRetry, removeJobIfExists, Processes, Pcs, OwnerPcs
  <2>3. CASE popAll(w)
    <3>1. Unread(w) \subseteq Messages BY ToSetMessages DEF Unread
    <3>2. CASE LRange(w)
      BY <3>2 DEF LRange, Processes, Pcs, OwnerPcs
    <3>3. CASE DelBuffer(w)
      BY <3>1, <3>3 DEF DelBuffer, Processes, Pcs, OwnerPcs
    <3> QED BY <2>3, <3>2, <3>3 DEF popAll
  <2>4. CASE Dispatch(w)
    <3>1. batch[w] \in Seq(Messages) BY DEF Processes
    <3>2. ToSet(batch[w]) \subseteq Messages /\ handled \o batch[w] \in Seq(Messages)
      BY <3>1, ToSetMessages
    <3> QED BY <2>4, <3>2 DEF Dispatch, Processes, Pcs, OwnerPcs
  <2>5. CASE Release(w) \/ Finish(w)
    <3>1. CASE Release(w)
      BY <3>1 DEF Release, releaseLock, Processes, Pcs
    <3>2. CASE Finish(w)
      <4>1. job' \in [JobIds -> {"none", "delayed", "active", "ended"}]
        BY <3>2 DEF Finish
      <4> QED BY <3>2, <4>1 DEF Finish, Processes, Pcs
    <3> QED BY <2>5, <3>1, <3>2
  <2> QED BY <1>5, <2>1, <2>2, <2>3, <2>4, <2>5 DEF tryFlush
<1>6. ASSUME NEW p \in Panel, withLeadLock(p) PROVE TypeOK' /\ PushInv'
  <2>1. CASE StartManual(p)
    <3>1. manuals' \in 0 .. MaxManual BY <2>1, ConstantsAssumption DEF StartManual
    <3> QED BY <2>1, <3>1 DEF StartManual, acquireLock, Processes, Pcs, OwnerPcs
  <2>2. CASE EndManual(p)
    BY <2>2 DEF EndManual, releaseLock, Processes, Pcs
  <2> QED BY <1>6, <2>1, <2>2 DEF withLeadLock
<1>7. ASSUME NEW p \in Panel, suppress(p) PROVE TypeOK' /\ PushInv'
  <2>1. CASE StartPurge(p)
    <3>1. purges' \in 0 .. MaxPurges BY <2>1, ConstantsAssumption DEF StartPurge
    <3> QED BY <2>1, <3>1 DEF StartPurge, Processes, Pcs, PurgePcs
  <2>2. CASE PurgeBuffer(p)
    <3>1. ToSet(buffer) \subseteq Messages BY ToSetMessages
    <3> QED BY <2>2, <3>1 DEF PurgeBuffer, Processes, Pcs, PurgePcs
  <2>3. CASE PurgeLock(p) \/ PurgeTurn(p) \/ DeleteLead(p)
    BY <2>3 DEF PurgeLock, PurgeTurn, DeleteLead, releaseLock, removeJobIfExists, Processes, Pcs, PurgePcs
  <2>4. CASE CancelPendingRetry(p, "purgeRetry", "deleteLead")
    BY <2>4 DEF CancelPendingRetry, removeJobIfExists, Processes, Pcs, PurgePcs
  <2> QED BY <1>7, <2>1, <2>2, <2>3, <2>4 DEF suppress, purgeLead
<1>8. CASE ExpireLock
  BY <1>8 DEF ExpireLock
<1>9. ASSUME NEW p \in Processes, Crash(p) PROVE TypeOK' /\ PushInv'
  <2>1. ToSet(batch[p]) \subseteq Messages BY ToSetMessages
  <2>2. lost' \subseteq Messages BY <1>9, <2>1 DEF Crash
  <2>3. crashes' \in 0 .. MaxCrashes BY <1>9, ConstantsAssumption DEF Crash
  <2>4. queue' \in [{"inbound", "media"} -> Seq(Messages)]
    <3>1. CASE work[p] \in Messages
      <4> DEFINE q == IF p \in Media THEN "media" ELSE "inbound"
      <4>1. <<work[p]>> \o queue[q] \in Seq(Messages) BY <3>1
      <4> QED BY <1>9, <3>1, <4>1 DEF Crash
    <3>2. CASE work[p] \notin Messages
      BY <1>9, <3>2 DEF Crash
    <3> QED BY <3>1, <3>2
  <2>5. job' \in [JobIds -> {"none", "delayed", "active", "ended"}]
    BY <1>9 DEF Crash
  <2>6. lock' \in Processes \cup {Free, Stale}
    BY <1>9 DEF Crash
  <2>7. pc' \in [Processes -> Pcs] /\ PushInv'
    BY <1>9 DEF Crash, Pcs
  <2> QED BY <1>9, <2>2, <2>3, <2>4, <2>5, <2>6, <2>7 DEF Crash
<1>10. CASE UNCHANGED vars
  BY <1>10 DEF vars
<1> QED
  BY <1>1, <1>2, <1>3, <1>4, <1>5, <1>6, <1>7, <1>8, <1>9, <1>10 DEF Next, WorkerStep

(* TypeOK is the type invariant of the pipeline: queues, the buffer and    *)
(* every batch hold messages only, and a job id is in one of four states.  *)
THEOREM TypeCorrect == Spec => []TypeOK
<1>1. TypeInv => TypeOK BY DEF TypeInv
<1> QED BY <1>1, InitTypeInv, StepTypeInv, PTL DEF Spec

-----------------------------------------------------------------------------
LEMMA InitOwnerInv == Init => OwnerInv /\ NoPurge
  BY DEF Init, OwnerInv, OwnerPcs, NoPurge, PurgePcs

(* One step keeps OwnerInv when no lock expires under a living owner and   *)
(* no suppression deletes one: only its owner frees a key.                 *)
LEMMA StepOwnerInv ==
    ASSUME ~SlowHolders, MaxPurges = 0
    PROVE  TypeInv /\ OwnerInv /\ NoPurge /\ [Next]_vars => (OwnerInv /\ NoPurge)'
<1> SUFFICES ASSUME TypeOK, OwnerInv, NoPurge, [Next]_vars PROVE OwnerInv' /\ NoPurge'
  BY DEF TypeInv
<1> USE ConstantsAssumption
<1> USE DEF TypeOK, OwnerInv, NoPurge, redis, local, history, budget, Goto, Idle,
            OwnerPcs, PurgePcs
<1>1. ASSUME NEW m \in Messages, NEW q \in {"inbound", "media"}, Arrive(m, q)
      PROVE  OwnerInv' /\ NoPurge'
  BY <1>1 DEF Arrive
<1>2. ASSUME NEW w \in Workers, TakeMessage(w) PROVE OwnerInv' /\ NoPurge'
  BY <1>2 DEF TakeMessage
<1>3. ASSUME NEW w \in Workers, push(w) PROVE OwnerInv' /\ NoPurge'
  BY <1>3 DEF push, RPush, CancelPendingRetry, DropTurn, AddTurn
<1>4. ASSUME NEW w \in Workers, NEW j \in JobIds, TakeTurn(w, j) PROVE OwnerInv' /\ NoPurge'
  BY <1>4 DEF TakeTurn
<1>5. ASSUME NEW w \in Workers, tryFlush(w) PROVE OwnerInv' /\ NoPurge'
  <2>1. CASE Acquire(w)
    BY <2>1 DEF Acquire, acquireLock, Processes
  <2>2. CASE AcquireBusy(w) \/ scheduleRetry(w)
    BY <2>2 DEF AcquireBusy, scheduleRetry, CancelPendingRetry, RequeueAdd
  <2>3. CASE CancelPendingRetry(w, "cancelRetry", "lrange") \/ popAll(w) \/ Dispatch(w)
    BY <2>3 DEF CancelPendingRetry, popAll, LRange, DelBuffer, Dispatch
  <2>4. CASE Release(w) \/ Finish(w)
    BY <2>4 DEF Release, releaseLock, Finish, Processes
  <2> QED BY <1>5, <2>1, <2>2, <2>3, <2>4 DEF tryFlush
<1>6. ASSUME NEW p \in Panel, withLeadLock(p) PROVE OwnerInv' /\ NoPurge'
  BY <1>6 DEF withLeadLock, StartManual, EndManual, acquireLock, releaseLock, Processes
<1>7. ASSUME NEW p \in Panel, suppress(p) PROVE FALSE
  BY <1>7 DEF suppress, StartPurge, purgeLead, PurgeBuffer, PurgeLock, PurgeTurn,
              CancelPendingRetry, DeleteLead, Processes
<1>8. CASE ExpireLock
  BY <1>8 DEF ExpireLock
<1>9. ASSUME NEW p \in Processes, Crash(p) PROVE OwnerInv' /\ NoPurge'
  BY <1>9 DEF Crash
<1>10. CASE UNCHANGED vars
  BY <1>10 DEF vars
<1> QED
  BY <1>1, <1>2, <1>3, <1>4, <1>5, <1>6, <1>7, <1>8, <1>9, <1>10 DEF Next, WorkerStep

(* MutualExclusion: as long as owners finish within LOCK_TTL_MS and the    *)
(* lead is not suppressed meanwhile, a bot turn and a manual message (or   *)
(* two turns) never own the lead together, whatever crashes.               *)
THEOREM LeadLockExcludes ==
    ASSUME ~SlowHolders, MaxPurges = 0
    PROVE  Spec => []MutualExclusion
<1>1. OwnerInv => MutualExclusion BY DEF OwnerInv, MutualExclusion
<1>2. TypeInv /\ OwnerInv /\ NoPurge /\ [Next]_vars => (OwnerInv /\ NoPurge)'
  BY StepOwnerInv
<1> QED BY <1>1, <1>2, InitTypeInv, StepTypeInv, InitOwnerInv, PTL DEF Spec

-----------------------------------------------------------------------------
(* Where a message is.                                                     *)

LEMMA ToSetAppend ==
    ASSUME NEW S, NEW s \in Seq(S), NEW e \in S
    PROVE  ToSet(Append(s, e)) = ToSet(s) \cup {e}
<1>1. ASSUME NEW x \in ToSet(s) PROVE x \in ToSet(Append(s, e))
  <2> PICK i \in 1 .. Len(s): s[i] = x BY DEF ToSet
  <2>1. i \in 1 .. Len(Append(s, e)) /\ Append(s, e)[i] = x OBVIOUS
  <2> QED BY <2>1 DEF ToSet
<1>2. e \in ToSet(Append(s, e))
  <2>1. Len(s) + 1 \in 1 .. Len(Append(s, e)) /\ Append(s, e)[Len(s) + 1] = e OBVIOUS
  <2> QED BY <2>1 DEF ToSet
<1>3. ToSet(Append(s, e)) \subseteq ToSet(s) \cup {e} BY DEF ToSet
<1> QED BY <1>1, <1>2, <1>3

LEMMA ToSetConcat ==
    ASSUME NEW S, NEW s \in Seq(S), NEW t \in Seq(S)
    PROVE  ToSet(s) \cup ToSet(t) \subseteq ToSet(s \o t)
<1>1. ASSUME NEW x \in ToSet(s) PROVE x \in ToSet(s \o t)
  <2> PICK i \in 1 .. Len(s): s[i] = x BY DEF ToSet
  <2>1. i \in 1 .. Len(s \o t) /\ (s \o t)[i] = x OBVIOUS
  <2> QED BY <2>1 DEF ToSet
<1>2. ASSUME NEW x \in ToSet(t) PROVE x \in ToSet(s \o t)
  <2> PICK i \in 1 .. Len(t): t[i] = x BY DEF ToSet
  <2>1. Len(s) + i \in 1 .. Len(s \o t) /\ (s \o t)[Len(s) + i] = x OBVIOUS
  <2> QED BY <2>1 DEF ToSet
<1> QED BY <1>1, <1>2

LEMMA ToSetTail ==
    ASSUME NEW S, NEW s \in Seq(S), s # <<>>
    PROVE  ToSet(s) \subseteq {Head(s)} \cup ToSet(Tail(s))
<1> SUFFICES ASSUME NEW x \in ToSet(s), x # Head(s) PROVE x \in ToSet(Tail(s))
  OBVIOUS
<1> PICK i \in 1 .. Len(s): s[i] = x BY DEF ToSet
<1>1. i # 1 BY DEF ToSet
<1>2. i - 1 \in 1 .. Len(Tail(s)) /\ Tail(s)[i - 1] = x BY <1>1
<1>3. Tail(s) \in Seq(S) OBVIOUS
<1>4. i - 1 \in DOMAIN Tail(s) BY <1>2, <1>3
<1> QED BY <1>2, <1>4 DEF ToSet

LEMMA ToSetSingle == ASSUME NEW e PROVE ToSet(<<e>>) = {e}
  BY DEF ToSet

Somewhere(m) == Waits(m) \/ m \in ToSet(handled) \cup lost

(* A step of one process that pushes, pops and takes nothing.              *)
LEMMA QuietProcess ==
    ASSUME NEW m, Somewhere(m), NEW w \in Processes,
           pc[w] \notin {"rpush", "dispatch"},
           \A p \in Processes : p # w => pc'[p] = pc[p] /\ work'[p] = work[p] /\ batch'[p] = batch[p],
           UNCHANGED <<queue, buffer, handled, lost>>
    PROVE  Somewhere(m)'
  BY DEF Somewhere, Waits

(* A push.                                                                 *)
LEMMA PushKeeps ==
    ASSUME TypeInv, NEW m, Somewhere(m), NEW w \in Processes, RPush(w)
    PROVE  Somewhere(m)'
<1> USE DEF TypeInv, TypeOK, PushInv, Goto
<1>1. work[w] \in Messages BY DEF RPush
<1>2. ToSet(buffer') = ToSet(buffer) \cup {work[w]} BY <1>1, ToSetAppend DEF RPush
<1>3. \A p \in Processes : p # w => pc'[p] = pc[p] BY DEF RPush
<1>4. UNCHANGED <<queue, work, batch, handled, lost>> BY DEF RPush, history
<1>5. pc[w] = "rpush" BY DEF RPush
<1> QED BY <1>2, <1>3, <1>4, <1>5 DEF Somewhere, Waits

(* DEL: what LRANGE had read goes to the turn, the rest counts as lost.    *)
LEMMA PopKeeps ==
    ASSUME TypeInv, NEW m, Somewhere(m), NEW w \in Processes, DelBuffer(w)
    PROVE  Somewhere(m)'
<1> USE DEF TypeInv, TypeOK, Goto
<1>1. /\ \A p \in Processes : p # w => pc'[p] = pc[p]
      /\ UNCHANGED <<queue, work, batch, handled>>
      /\ pc[w] = "del" /\ pc'[w] = IF batch[w] = <<>> THEN "release" ELSE "dispatch"
      /\ lost' = lost \cup (ToSet(buffer) \ ToSet(batch[w]))
  BY DEF DelBuffer, Unread
<1>2. CASE m \in ToSet(buffer) /\ m \in ToSet(batch[w])
  <2>1. batch[w] # <<>> BY <1>2 DEF ToSet
  <2>2. pc'[w] = "dispatch" /\ m \in ToSet(batch'[w]) BY <1>1, <1>2, <2>1
  <2> QED BY <2>2 DEF Somewhere, Waits
<1>3. CASE m \in ToSet(buffer) /\ m \notin ToSet(batch[w]) BY <1>1, <1>3 DEF Somewhere
<1>4. CASE m \notin ToSet(buffer) BY <1>1, <1>4 DEF Somewhere, Waits
<1> QED BY <1>2, <1>3, <1>4

(* A turn: its batch is answered, or lost with the turn.                   *)
LEMMA DispatchKeeps ==
    ASSUME TypeInv, NEW m, Somewhere(m), NEW w \in Processes, Dispatch(w)
    PROVE  Somewhere(m)'
<1> USE DEF TypeInv, TypeOK, Goto
<1>1. /\ \A p \in Processes : p # w => pc'[p] = pc[p]
      /\ UNCHANGED <<queue, work, batch, buffer>>
      /\ pc[w] = "dispatch"
      /\ ToSet(handled) \subseteq ToSet(handled') /\ lost \subseteq lost'
      /\ ToSet(batch[w]) \subseteq ToSet(handled') \cup lost'
  BY ToSetConcat DEF Dispatch, redis
<1>2. CASE m \in ToSet(batch[w]) BY <1>1, <1>2 DEF Somewhere
<1>3. CASE m \notin ToSet(batch[w]) BY <1>1, <1>3 DEF Somewhere, Waits
<1> QED BY <1>2, <1>3

(* A job of a message.                                                     *)
LEMMA TakeKeeps ==
    ASSUME TypeInv, NEW m, Somewhere(m), NEW w \in Processes, TakeMessage(w)
    PROVE  Somewhere(m)'
<1> USE DEF TypeInv, TypeOK
<1> DEFINE q == IF w \in Media THEN "media" ELSE "inbound"
<1>0. q \in {"inbound", "media"} /\ queue[q] \in Seq(Messages) /\ queue[q] # <<>>
  BY DEF TakeMessage
<1>1. /\ \A k \in {"inbound", "media"} : k # q => queue'[k] = queue[k]
      /\ ToSet(queue[q]) \subseteq {Head(queue[q])} \cup ToSet(queue'[q])
      /\ DOMAIN queue' = DOMAIN queue
      /\ pc[w] = "idle" /\ UNCHANGED <<buffer, batch, handled>>
  BY <1>0, ToSetTail DEF TakeMessage, redis
<1>2. /\ \A p \in Processes : p # w => pc'[p] = pc[p] /\ work'[p] = work[p]
      /\ lost \subseteq lost'
      /\ \/ pc'[w] = "rpush" /\ work'[w] = Head(queue[q])
         \/ Head(queue[q]) \in lost' /\ pc' = pc /\ work' = work
  BY DEF TakeMessage
<1> HIDE DEF q
<1>3. CASE m = Head(queue[q]) BY <1>2, <1>3 DEF Somewhere, Waits
<1>4. CASE m # Head(queue[q]) BY <1>0, <1>1, <1>2, <1>4 DEF Somewhere, Waits
<1> QED BY <1>3, <1>4

(* A death: the job of a message is given back, a turn in hand is lost.    *)
LEMMA CrashKeeps ==
    ASSUME TypeInv, NEW m, Somewhere(m), NEW w \in Processes, Crash(w)
    PROVE  Somewhere(m)'
<1> USE DEF TypeInv, TypeOK, PushInv
<1> DEFINE q == IF w \in Media THEN "media" ELSE "inbound"
<1>1. /\ \A p \in Processes : p # w => pc'[p] = pc[p] /\ work'[p] = work[p] /\ batch'[p] = batch[p]
      /\ UNCHANGED <<buffer, handled>> /\ lost \subseteq lost'
      /\ pc[w] = "dispatch" => ToSet(batch[w]) \subseteq lost'
      /\ DOMAIN queue' = DOMAIN queue
  BY DEF Crash
<1>2. /\ \A k \in DOMAIN queue : ToSet(queue[k]) \subseteq ToSet(queue'[k])
      /\ work[w] \in Messages => q \in DOMAIN queue /\ work[w] \in ToSet(queue'[q])
  <2>1. CASE work[w] \in Messages
    <3>1. queue'[q] = <<work[w]>> \o queue[q] /\ \A k \in DOMAIN queue : k # q => queue'[k] = queue[k]
      BY <2>1 DEF Crash
    <3>2. q \in DOMAIN queue /\ queue[q] \in Seq(Messages) /\ <<work[w]>> \in Seq(Messages)
      BY <2>1
    <3>3. ToSet(<<work[w]>>) \cup ToSet(queue[q]) \subseteq ToSet(queue'[q])
      BY <3>1, <3>2, ToSetConcat
    <3> HIDE DEF q
    <3> QED BY <3>1, <3>2, <3>3, ToSetSingle
  <2>2. CASE work[w] \notin Messages
    <3>1. queue' = queue BY <2>2 DEF Crash
    <3> QED BY <2>2, <3>1
  <2> QED BY <2>1, <2>2
<1>3. pc[w] = "rpush" => work[w] \in Messages OBVIOUS
<1> HIDE DEF q
<1>4. ASSUME NEW p \in Processes, pc[p] = "rpush", work[p] = m PROVE Somewhere(m)'
  BY <1>1, <1>2, <1>3, <1>4 DEF Somewhere, Waits
<1>5. ASSUME NEW p \in Processes, pc[p] = "dispatch", m \in ToSet(batch[p]) PROVE Somewhere(m)'
  BY <1>1, <1>5 DEF Somewhere, Waits
<1>6. ASSUME NEW k \in DOMAIN queue, m \in ToSet(queue[k]) PROVE Somewhere(m)'
  BY <1>1, <1>2, <1>6 DEF Somewhere, Waits
<1>7. CASE m \in ToSet(buffer) \cup ToSet(handled) \cup lost
  BY <1>1, <1>7 DEF Somewhere, Waits
<1> QED BY <1>4, <1>5, <1>6, <1>7 DEF Somewhere, Waits

(* A step of the pipeline loses sight of no message.                       *)
LEMMA SomewhereStep ==
    ASSUME TypeInv, NEW m, Somewhere(m), [Next]_vars
    PROVE  Somewhere(m)'
<1> USE DEF TypeInv, TypeOK
<1>a. ASSUME UNCHANGED <<queue, buffer, pc, work, batch, handled, lost>> PROVE Somewhere(m)'
  BY <1>a DEF Somewhere, Waits
<1>1. ASSUME NEW k \in Messages, NEW q \in {"inbound", "media"}, Arrive(k, q)
      PROVE  Somewhere(m)'
  <2>1. /\ ToSet(queue'[q]) = ToSet(queue[q]) \cup {k}
        /\ \A n \in {"inbound", "media"} : n # q => queue'[n] = queue[n]
        /\ DOMAIN queue' = DOMAIN queue
    BY <1>1, ToSetAppend DEF Arrive
  <2>2. UNCHANGED <<buffer, pc, work, batch, handled, lost>>
    BY <1>1 DEF Arrive, redis, local, history
  <2> QED BY <2>1, <2>2 DEF Somewhere, Waits
<1>2. ASSUME NEW w \in Processes, TakeMessage(w) \/ RPush(w) \/ DelBuffer(w) \/ Dispatch(w) \/ Crash(w)
      PROVE  Somewhere(m)'
  BY <1>2, TakeKeeps, PushKeeps, PopKeeps, DispatchKeeps, CrashKeeps
<1>3. ASSUME NEW w \in Processes,
             \/ CancelPendingRetry(w, "pushDropRetry", "dropTurn") \/ DropTurn(w) \/ AddTurn(w)
             \/ \E j \in JobIds : TakeTurn(w, j)
             \/ Acquire(w) \/ AcquireBusy(w) \/ scheduleRetry(w) \/ LRange(w)
             \/ CancelPendingRetry(w, "cancelRetry", "lrange") \/ Release(w) \/ Finish(w)
             \/ withLeadLock(w)
             \/ StartPurge(w) \/ PurgeLock(w) \/ PurgeTurn(w) \/ DeleteLead(w)
             \/ CancelPendingRetry(w, "purgeRetry", "deleteLead")
      PROVE  Somewhere(m)'
  <2> USE DEF Goto, Idle, redis, local, history, budget
  <2>1. pc[w] \notin {"rpush", "dispatch"}
    BY <1>3 DEF CancelPendingRetry, DropTurn, AddTurn, TakeTurn, Acquire, acquireLock, AcquireBusy,
                scheduleRetry, RequeueAdd, LRange, Release, Finish, withLeadLock, StartManual,
                EndManual, StartPurge, PurgeLock, PurgeTurn, DeleteLead
  <2>2. UNCHANGED <<queue, buffer, handled, lost>>
    BY <1>3 DEF CancelPendingRetry, DropTurn, AddTurn, TakeTurn, Acquire, acquireLock, AcquireBusy,
                scheduleRetry, RequeueAdd, LRange, Release, Finish, withLeadLock, StartManual,
                EndManual, StartPurge, PurgeLock, PurgeTurn, DeleteLead
  <2>3. \A p \in Processes : p # w => pc'[p] = pc[p] /\ work'[p] = work[p] /\ batch'[p] = batch[p]
    BY <1>3 DEF CancelPendingRetry, DropTurn, AddTurn, TakeTurn, Acquire, acquireLock, AcquireBusy,
                scheduleRetry, RequeueAdd, LRange, Release, Finish, withLeadLock, StartManual,
                EndManual, StartPurge, PurgeLock, PurgeTurn, DeleteLead
  <2> QED BY <2>1, <2>2, <2>3, QuietProcess
<1>4. ASSUME NEW p \in Processes, PurgeBuffer(p) PROVE Somewhere(m)'
  <2>1. /\ \A k \in Processes : k # p => pc'[k] = pc[k]
        /\ pc[p] = "delBuffer" /\ UNCHANGED <<queue, work, batch, handled>>
        /\ lost' = lost \cup ToSet(buffer)
    BY <1>4 DEF PurgeBuffer, Goto
  <2> QED BY <2>1 DEF Somewhere, Waits
<1>5. ASSUME ExpireLock \/ UNCHANGED vars PROVE Somewhere(m)'
  BY <1>a, <1>5 DEF ExpireLock, vars, redis, local, history
<1>6. Workers \subseteq Processes /\ Panel \subseteq Processes BY DEF Processes
<1> QED
  BY <1>1, <1>2, <1>3, <1>4, <1>5, <1>6
  DEF Next, WorkerStep, push, tryFlush, popAll, suppress, purgeLead

(* Accounted: for any number of replicas, deaths, failures, slow owners    *)
(* and panel requests, no message of the lead goes missing unseen.         *)
THEOREM EveryMessageAccounted == Spec => []Accounted
<1>1. Accounted <=> \A m \in ToSet(arrived) : Somewhere(m) BY DEF Accounted, Somewhere
<1>2. Init => Accounted BY DEF Init, Accounted, ToSet
<1>3. ASSUME TypeInv, Accounted, [Next]_vars PROVE Accounted'
  <2>1. ASSUME NEW m \in ToSet(arrived') PROVE Somewhere(m)'
    <3>1. CASE m \in ToSet(arrived) BY <1>1, <1>3, <3>1, SomewhereStep
    <3>2. CASE m \notin ToSet(arrived)
      <4>1. PICK k \in Messages, q \in {"inbound", "media"} : Arrive(k, q)
        BY <1>3, <3>2
        DEF Next, vars, WorkerStep, TakeMessage, push, RPush, CancelPendingRetry, DropTurn, AddTurn,
            TakeTurn, tryFlush, Acquire, AcquireBusy, scheduleRetry, RequeueAdd, popAll, LRange,
            DelBuffer, Dispatch, Release, Finish, withLeadLock, StartManual, EndManual, suppress,
            StartPurge, purgeLead, PurgeBuffer, PurgeLock, PurgeTurn, DeleteLead, ExpireLock, Crash
      <4>2. arrived \in Seq(Messages) /\ q \in DOMAIN queue /\ queue[q] \in Seq(Messages)
        BY <1>3 DEF TypeInv, TypeOK
      <4>3. m = k BY <3>2, <4>1, <4>2, <2>1, ToSetAppend DEF Arrive
      <4>4. m \in ToSet(queue'[q]) /\ q \in DOMAIN queue'
        BY <1>3, <4>1, <4>2, <4>3, ToSetAppend DEF Arrive, TypeInv, TypeOK
      <4> QED BY <4>4 DEF Somewhere, Waits
    <3> QED BY <3>1, <3>2
  <2> QED BY <2>1 DEF Accounted, Somewhere
<1>4. TypeInv /\ Accounted /\ [Next]_vars => TypeInv' /\ Accounted' BY <1>3, StepTypeInv
<1> QED BY <1>2, <1>4, InitTypeInv, PTL DEF Spec
-----------------------------------------------------------------------------
(* A message is in one place.  It moves forward: queue, hand, buffer, turn,*)
(* answered.                                                               *)

LEMMA ToSetConcatOnly ==
    ASSUME NEW S, NEW s \in Seq(S), NEW t \in Seq(S)
    PROVE  ToSet(s \o t) = ToSet(s) \cup ToSet(t)
<1>1. ToSet(s \o t) \subseteq ToSet(s) \cup ToSet(t) BY DEF ToSet
<1> QED BY <1>1, ToSetConcat

LEMMA InjectiveConcat ==
    ASSUME NEW S, NEW s \in Seq(S), NEW t \in Seq(S),
           IsInjective(s), IsInjective(t), ToSet(s) \cap ToSet(t) = {}
    PROVE  IsInjective(s \o t)
<1> SUFFICES ASSUME NEW i \in 1 .. Len(s) + Len(t), NEW j \in 1 .. Len(s) + Len(t),
                    (s \o t)[i] = (s \o t)[j]
             PROVE  i = j
  BY DEF IsInjective
<1>1. \A k \in 1 .. Len(s) : s[k] \in ToSet(s) BY DEF ToSet
<1>2. \A k \in 1 .. Len(t) : t[k] \in ToSet(t) BY DEF ToSet
<1>3. CASE i <= Len(s) /\ j <= Len(s) BY <1>3 DEF IsInjective
<1>4. CASE i > Len(s) /\ j > Len(s)
  <2>1. t[i - Len(s)] = t[j - Len(s)] BY <1>4
  <2> QED BY <1>4, <2>1 DEF IsInjective
<1>5. CASE i <= Len(s) /\ j > Len(s)
  <2>1. s[i] = t[j - Len(s)] BY <1>5
  <2> QED BY <1>1, <1>2, <1>5, <2>1
<1>6. CASE i > Len(s) /\ j <= Len(s)
  <2>1. s[j] = t[i - Len(s)] BY <1>6
  <2> QED BY <1>1, <1>2, <1>6, <2>1
<1> QED BY <1>3, <1>4, <1>5, <1>6

LEMMA InjectiveAppend ==
    ASSUME NEW S, NEW s \in Seq(S), NEW e \in S, IsInjective(s), e \notin ToSet(s)
    PROVE  IsInjective(Append(s, e))
<1>1. IsInjective(<<e>>) BY DEF IsInjective
<1>2. Append(s, e) = s \o <<e>> OBVIOUS
<1>3. <<e>> \in Seq(S) OBVIOUS
<1>4. ToSet(s) \cap ToSet(<<e>>) = {} BY ToSetSingle
<1>5. IsInjective(s \o <<e>>) BY <1>1, <1>3, <1>4, InjectiveConcat
<1> QED BY <1>2, <1>5

(* The head of a queue is not in its tail.                                 *)
LEMMA InjectiveTail ==
    ASSUME NEW S, NEW s \in Seq(S), s # <<>>, IsInjective(s)
    PROVE  IsInjective(Tail(s)) /\ ToSet(Tail(s)) = ToSet(s) \ {Head(s)} /\ Head(s) \in ToSet(s)
<1>1. /\ \A i \in 1 .. Len(s) - 1 : Tail(s)[i] = s[i + 1] /\ Len(Tail(s)) = Len(s) - 1
      /\ Head(s) = s[1] /\ Len(s) >= 1
  OBVIOUS
<1>2. IsInjective(Tail(s))
  <2> SUFFICES ASSUME NEW i \in 1 .. Len(s) - 1, NEW j \in 1 .. Len(s) - 1, Tail(s)[i] = Tail(s)[j]
               PROVE  i = j
    BY DEF IsInjective
  <2>1. s[i + 1] = s[j + 1] BY <1>1
  <2>2. i + 1 = j + 1 BY <2>1 DEF IsInjective
  <2> QED BY <2>2
<1>3. ToSet(Tail(s)) \subseteq ToSet(s) \ {Head(s)}
  <2> SUFFICES ASSUME NEW i \in 1 .. Len(s) - 1 PROVE s[i + 1] \in ToSet(s) /\ s[i + 1] # s[1]
    BY <1>1 DEF ToSet
  <2> QED BY <1>1 DEF IsInjective, ToSet
<1>4. Head(s) \in ToSet(s) BY <1>1 DEF ToSet
<1> QED BY <1>2, <1>3, <1>4, ToSetTail

Queued   == ToSet(queue["inbound"]) \cup ToSet(queue["media"])
Held     == {work[p] : p \in {p \in Processes : pc[p] = "rpush"}}
Buffered == ToSet(buffer)
InTurn   == UNION {ToSet(batch[p]) : p \in {p \in Processes : pc[p] = "dispatch"}}
Answered == ToSet(handled)

(* Everything came in, and a queue holds a message once.                   *)
QueuesInv ==
    /\ Queued \cup Held \cup Buffered \cup InTurn \cup Answered \subseteq ToSet(arrived)
    /\ IsInjective(queue["inbound"]) /\ IsInjective(queue["media"])
    /\ ToSet(queue["inbound"]) \cap ToSet(queue["media"]) = {}
    /\ Queued \cap (Held \cup Buffered \cup InTurn \cup Answered) = {}

(* A message in hand is in one hand, and not yet in the buffer or beyond.  *)
HandsInv ==
    /\ Held \cap (Buffered \cup InTurn \cup Answered) = {}
    /\ \A p, q \in Processes : pc[p] = "rpush" /\ pc[q] = "rpush" /\ work[p] = work[q] => p = q

(* What LRANGE read is still in the buffer: DEL has yet to come.           *)
BufferInv ==
    /\ IsInjective(buffer)
    /\ Buffered \cap (InTurn \cup Answered) = {}
    /\ \A p \in Processes : pc[p] \in {"del", "dispatch"} => IsInjective(batch[p])
    /\ \A p \in Processes : pc[p] = "del" => ToSet(batch[p]) \subseteq Buffered

AnsweredInv == IsInjective(handled) /\ InTurn \cap Answered = {}

OnceInv == crashes = 0 => QueuesInv /\ HandsInv /\ BufferInv /\ AnsweredInv

(* A step after which the same processes hold and answer the same messages. *)
LEMMA SameHands ==
    ASSUME NEW w \in Processes,
           \A p \in Processes : p # w => pc'[p] = pc[p] /\ work'[p] = work[p] /\ batch'[p] = batch[p],
           pc[w] # "rpush", pc'[w] # "rpush"
    PROVE  /\ Held' = Held
           /\ pc[w] # "dispatch" /\ pc'[w] # "dispatch" => InTurn' = InTurn
<1>1. Held' = Held BY DEF Held
<1>2. ASSUME pc[w] # "dispatch", pc'[w] # "dispatch" PROVE InTurn' = InTurn
  <2>1. \A p \in Processes : pc'[p] = "dispatch" <=> pc[p] = "dispatch" BY <1>2
  <2>2. \A p \in Processes : pc[p] = "dispatch" => batch'[p] = batch[p] BY <1>2
  <2> QED BY <2>1, <2>2 DEF InTurn
<1> QED BY <1>1, <1>2

LEMMA OnceQuiet ==
    ASSUME QueuesInv, HandsInv, BufferInv, AnsweredInv, NEW w \in Processes,
           \A p \in Processes : p # w => pc'[p] = pc[p] /\ work'[p] = work[p] /\ batch'[p] = batch[p],
           pc[w] \notin {"rpush", "del", "dispatch"}, pc'[w] \notin {"rpush", "del", "dispatch"},
           UNCHANGED <<queue, buffer, handled, arrived>>
    PROVE  (QueuesInv /\ HandsInv /\ BufferInv /\ AnsweredInv)'
<1>1. Held' = Held /\ InTurn' = InTurn BY SameHands
<1>2. Queued' = Queued /\ Buffered' = Buffered /\ Answered' = Answered
  BY DEF Queued, Buffered, Answered
<1>3. QueuesInv' BY <1>1, <1>2 DEF QueuesInv
<1>4. HandsInv' BY <1>1, <1>2 DEF HandsInv
<1>5. BufferInv' BY <1>1, <1>2 DEF BufferInv
<1>6. AnsweredInv' BY <1>1, <1>2 DEF AnsweredInv
<1> QED BY <1>3, <1>4, <1>5, <1>6

LEMMA OnceArrive ==
    ASSUME TypeInv, QueuesInv, HandsInv, BufferInv, AnsweredInv,
           NEW m \in Messages, NEW q \in {"inbound", "media"}, Arrive(m, q)
    PROVE  (QueuesInv /\ HandsInv /\ BufferInv /\ AnsweredInv)'
<1> USE DEF TypeInv, TypeOK
<1>1. UNCHANGED <<pc, work, batch, buffer, handled>> BY DEF Arrive, redis, local, history
<1>2. Held' = Held /\ InTurn' = InTurn /\ Buffered' = Buffered /\ Answered' = Answered
  BY <1>1 DEF Held, InTurn, Buffered, Answered
<1>3. arrived \in Seq(Messages) /\ queue[q] \in Seq(Messages) OBVIOUS
<1>4. /\ ToSet(arrived') = ToSet(arrived) \cup {m} /\ m \notin ToSet(arrived)
      /\ ToSet(queue'[q]) = ToSet(queue[q]) \cup {m}
      /\ \A k \in {"inbound", "media"} : k # q => queue'[k] = queue[k]
  BY <1>3, ToSetAppend DEF Arrive
<1>5. Queued' = Queued \cup {m} BY <1>4 DEF Queued
<1>6. m \notin Queued \cup Held \cup Buffered \cup InTurn \cup Answered
  BY <1>4 DEF QueuesInv
<1>7. IsInjective(queue'[q])
  <2>1. m \notin ToSet(queue[q]) BY <1>6 DEF Queued
  <2>2. IsInjective(queue[q]) BY DEF QueuesInv
  <2>3. IsInjective(Append(queue[q], m)) BY <1>3, <2>1, <2>2, InjectiveAppend
  <2>4. queue'[q] = Append(queue[q], m) BY DEF Arrive
  <2> QED BY <2>3, <2>4
<1>8. QueuesInv'
  <2>1. IsInjective(queue'["inbound"]) /\ IsInjective(queue'["media"])
    BY <1>4, <1>7 DEF QueuesInv
  <2>2. ToSet(queue'["inbound"]) \cap ToSet(queue'["media"]) = {}
    BY <1>4, <1>6 DEF QueuesInv, Queued
  <2> QED BY <1>2, <1>4, <1>5, <1>6, <2>1, <2>2 DEF QueuesInv
<1>9. (HandsInv /\ BufferInv /\ AnsweredInv)'
  BY <1>1, <1>2 DEF HandsInv, BufferInv, AnsweredInv
<1> QED BY <1>8, <1>9

LEMMA OnceTake ==
    ASSUME TypeInv, QueuesInv, HandsInv, BufferInv, AnsweredInv, NEW w \in Workers, TakeMessage(w)
    PROVE  (QueuesInv /\ HandsInv /\ BufferInv /\ AnsweredInv)'
<1> USE DEF TypeInv, TypeOK
<1> DEFINE q == IF w \in Media THEN "media" ELSE "inbound"
           m == Head(queue[q])
<1>1. q \in {"inbound", "media"} /\ queue[q] \in Seq(Messages) /\ queue[q] # <<>> /\ w \in Processes
  BY DEF TakeMessage, Processes
<1>2. /\ queue'[q] = Tail(queue[q]) /\ \A k \in {"inbound", "media"} : k # q => queue'[k] = queue[k]
      /\ UNCHANGED <<buffer, batch, handled, arrived>> /\ pc[w] = "idle"
      /\ \/ pc' = [pc EXCEPT ![w] = "rpush"] /\ work' = [work EXCEPT ![w] = m]
         \/ pc' = pc /\ work' = work
  BY <1>1 DEF TakeMessage, redis
<1>3. IsInjective(queue[q]) BY <1>1 DEF QueuesInv
<1>4. IsInjective(queue'[q]) /\ ToSet(queue'[q]) = ToSet(queue[q]) \ {m} /\ m \in ToSet(queue[q])
  BY <1>1, <1>2, <1>3, InjectiveTail
<1> HIDE DEF q, m
<1>5. Queued' = Queued \ {m} /\ m \in Queued
  BY <1>1, <1>2, <1>4 DEF QueuesInv, Queued
<1>6. InTurn' = InTurn /\ Buffered' = Buffered /\ Answered' = Answered
  <2>1. \A p \in Processes : pc'[p] = "dispatch" <=> pc[p] = "dispatch" BY <1>2
  <2> QED BY <1>2, <2>1 DEF InTurn, Buffered, Answered
<1>7. Held' \subseteq Held \cup {m} BY <1>2 DEF Held
<1>8. QueuesInv'
  <2>1. IsInjective(queue'["inbound"]) /\ IsInjective(queue'["media"])
    BY <1>1, <1>2, <1>4 DEF QueuesInv
  <2>2. ToSet(queue'["inbound"]) \cap ToSet(queue'["media"]) = {}
    BY <1>1, <1>2, <1>4 DEF QueuesInv
  <2> QED BY <1>2, <1>5, <1>6, <1>7, <2>1, <2>2 DEF QueuesInv
<1>9. HandsInv'
  <2>1. m \notin Held \cup Buffered \cup InTurn \cup Answered BY <1>5 DEF QueuesInv
  <2>2. Held' \cap (Buffered' \cup InTurn' \cup Answered') = {} BY <1>6, <1>7, <2>1 DEF HandsInv
  <2>3. ASSUME NEW p1 \in Processes, NEW p2 \in Processes,
               pc'[p1] = "rpush", pc'[p2] = "rpush", work'[p1] = work'[p2]
        PROVE  p1 = p2
    <3>1. \A p \in Processes : pc[p] = "rpush" => work[p] # m BY <2>1 DEF Held
    <3> QED BY <1>1, <1>2, <2>3, <3>1 DEF HandsInv
  <2> QED BY <2>2, <2>3 DEF HandsInv
<1>10. BufferInv'
  <2>1. \A p \in Processes : pc'[p] \in {"del", "dispatch"} => pc'[p] = pc[p] BY <1>2
  <2> QED BY <1>2, <1>6, <2>1 DEF BufferInv
<1>11. AnsweredInv' BY <1>2, <1>6 DEF AnsweredInv
<1> QED BY <1>8, <1>9, <1>10, <1>11

LEMMA OncePush ==
    ASSUME TypeInv, QueuesInv, HandsInv, BufferInv, AnsweredInv, NEW w \in Processes, RPush(w)
    PROVE  (QueuesInv /\ HandsInv /\ BufferInv /\ AnsweredInv)'
<1> USE DEF TypeInv, TypeOK, PushInv, Goto
<1>1. /\ pc[w] = "rpush" /\ pc' = [pc EXCEPT ![w] = "pushDropRetry"] /\ work[w] \in Messages
      /\ buffer' = Append(buffer, work[w]) /\ UNCHANGED <<queue, work, batch, arrived, handled>>
  BY DEF RPush, history
<1>2. work[w] \in Held BY <1>1 DEF Held
<1>3. Held' = Held \ {work[w]} BY <1>1 DEF Held, HandsInv
<1>4. Buffered' = Buffered \cup {work[w]} BY <1>1, ToSetAppend DEF Buffered
<1>5. work[w] \notin Queued \cup Buffered \cup InTurn \cup Answered
  BY <1>2 DEF QueuesInv, HandsInv
<1>6. Queued' = Queued /\ Answered' = Answered BY <1>1 DEF Queued, Answered
<1>7. InTurn' = InTurn
  <2>1. \A p \in Processes : pc'[p] = "dispatch" <=> pc[p] = "dispatch" BY <1>1
  <2> QED BY <1>1, <2>1 DEF InTurn
<1>8. QueuesInv' BY <1>1, <1>2, <1>3, <1>4, <1>5, <1>6, <1>7 DEF QueuesInv
<1>9. HandsInv' BY <1>1, <1>3, <1>4, <1>6, <1>7 DEF HandsInv
<1>10. BufferInv'
  <2>1. IsInjective(buffer') BY <1>1, <1>5, InjectiveAppend DEF BufferInv, Buffered
  <2>2. \A p \in Processes : pc'[p] \in {"del", "dispatch"} => pc'[p] = pc[p] BY <1>1
  <2> QED BY <1>1, <1>4, <1>5, <1>6, <1>7, <2>1, <2>2 DEF BufferInv
<1>11. AnsweredInv' BY <1>1, <1>6, <1>7 DEF AnsweredInv
<1> QED BY <1>8, <1>9, <1>10, <1>11

LEMMA OncePop ==
    ASSUME TypeInv, OwnerInv, QueuesInv, HandsInv, BufferInv, AnsweredInv, NEW w \in Processes, popAll(w)
    PROVE  (QueuesInv /\ HandsInv /\ BufferInv /\ AnsweredInv)'
<1> USE DEF TypeInv, TypeOK, Goto
<1>1. CASE LRange(w)
  <2>1. /\ pc[w] = "lrange" /\ pc'[w] = "del" /\ batch'[w] = buffer
        /\ \A p \in Processes : p # w => pc'[p] = pc[p] /\ batch'[p] = batch[p]
        /\ UNCHANGED <<queue, work, buffer, arrived, handled>>
    BY <1>1 DEF LRange, redis, history
  <2>2. Held' = Held /\ InTurn' = InTurn BY <2>1, SameHands
  <2>3. Queued' = Queued /\ Buffered' = Buffered /\ Answered' = Answered
    BY <2>1 DEF Queued, Buffered, Answered
  <2>4. BufferInv'
    BY <2>1, <2>2, <2>3 DEF BufferInv, Buffered
  <2>5. HandsInv'
    <3>1. \A p \in Processes : pc'[p] = "rpush" <=> pc[p] = "rpush" BY <2>1
    <3> QED BY <2>1, <2>2, <2>3, <3>1 DEF HandsInv
  <2> QED BY <2>1, <2>2, <2>3, <2>4, <2>5 DEF QueuesInv, AnsweredInv
<1>2. CASE DelBuffer(w)
  <2>1. /\ pc[w] = "del" /\ pc'[w] \in {"release", "dispatch"} /\ buffer' = <<>>
        /\ \A p \in Processes : p # w => pc'[p] = pc[p]
        /\ UNCHANGED <<queue, work, batch, arrived, handled>>
    BY <1>2 DEF DelBuffer
  <2>2. Held' = Held BY <2>1, SameHands
  <2>3. Queued' = Queued /\ Answered' = Answered /\ Buffered' = {}
    BY <2>1 DEF Queued, Answered, Buffered, ToSet
  <2>4. \A p \in Processes : pc[p] \in {"del", "dispatch"} => p = w
    BY <2>1 DEF OwnerInv, OwnerPcs
  <2>5. InTurn' \subseteq ToSet(batch[w]) BY <2>1, <2>4 DEF InTurn
  <2>6. ToSet(batch[w]) \subseteq Buffered BY <2>1 DEF BufferInv
  <2>7. QueuesInv' BY <2>1, <2>2, <2>3, <2>5, <2>6 DEF QueuesInv
  <2>8. HandsInv'
    <3>1. \A p \in Processes : pc'[p] = "rpush" <=> pc[p] = "rpush" BY <2>1
    <3> QED BY <2>1, <2>2, <2>3, <2>5, <2>6, <3>1 DEF HandsInv
  <2>9. BufferInv'
    <3>1. IsInjective(buffer') BY <2>1 DEF IsInjective
    <3>2. \A p \in Processes : pc'[p] \in {"del", "dispatch"} => p = w BY <2>1, <2>4
    <3>3. IsInjective(batch'[w]) /\ pc'[w] # "del" BY <2>1 DEF BufferInv
    <3> QED BY <2>3, <3>1, <3>2, <3>3 DEF BufferInv
  <2>10. AnsweredInv' BY <2>1, <2>3, <2>5, <2>6 DEF AnsweredInv, BufferInv
  <2> QED BY <2>7, <2>8, <2>9, <2>10
<1> QED BY <1>1, <1>2 DEF popAll

LEMMA OnceDispatch ==
    ASSUME TypeInv, OwnerInv, QueuesInv, HandsInv, BufferInv, AnsweredInv, NEW w \in Processes, Dispatch(w)
    PROVE  (QueuesInv /\ HandsInv /\ BufferInv /\ AnsweredInv)'
<1> USE DEF TypeInv, TypeOK, Goto
<1>1. /\ pc[w] = "dispatch" /\ pc'[w] = "release"
      /\ \A p \in Processes : p # w => pc'[p] = pc[p]
      /\ UNCHANGED <<queue, work, batch, arrived, buffer>>
      /\ handled' \in {handled, handled \o batch[w]}
  BY DEF Dispatch, redis
<1>2. Held' = Held BY <1>1, SameHands
<1>3. \A p \in Processes : pc'[p] \notin {"del", "dispatch"} BY <1>1 DEF OwnerInv, OwnerPcs
<1>4. InTurn' = {} BY <1>3 DEF InTurn
<1>5. ToSet(batch[w]) \subseteq InTurn BY <1>1 DEF InTurn
<1>6. batch[w] \in Seq(Messages) /\ handled \in Seq(Messages) OBVIOUS
<1>7. Answered' \subseteq Answered \cup ToSet(batch[w])
  <2>1. ToSet(handled \o batch[w]) = ToSet(handled) \cup ToSet(batch[w])
    BY <1>6, ToSetConcatOnly
  <2> QED BY <1>1, <2>1 DEF Answered
<1>8. Queued' = Queued /\ Buffered' = Buffered BY <1>1 DEF Queued, Buffered
<1>9. QueuesInv' BY <1>1, <1>2, <1>4, <1>5, <1>7, <1>8 DEF QueuesInv
<1>10. HandsInv'
  <2>1. \A p \in Processes : pc'[p] = "rpush" <=> pc[p] = "rpush" BY <1>1
  <2> QED BY <1>1, <1>2, <1>4, <1>5, <1>7, <1>8, <2>1 DEF HandsInv
<1>11. BufferInv' BY <1>1, <1>3, <1>4, <1>5, <1>7, <1>8 DEF BufferInv
<1>12. AnsweredInv'
  <2>1. IsInjective(batch[w]) /\ IsInjective(handled) /\ ToSet(handled) \cap ToSet(batch[w]) = {}
    BY <1>1, <1>5 DEF BufferInv, AnsweredInv, Answered
  <2>2. IsInjective(handled \o batch[w]) BY <1>6, <2>1, InjectiveConcat
  <2> QED BY <1>1, <1>4, <2>1, <2>2 DEF AnsweredInv
<1> QED BY <1>9, <1>10, <1>11, <1>12

(* With one owner at most, a step that no process dies in repeats nothing. *)
LEMMA StepOnceInv == TypeInv /\ OwnerInv /\ NoPurge /\ OnceInv /\ [Next]_vars => OnceInv'
<1> SUFFICES ASSUME TypeInv, OwnerInv, NoPurge, OnceInv, [Next]_vars, crashes' = 0
             PROVE  (QueuesInv /\ HandsInv /\ BufferInv /\ AnsweredInv)'
  BY DEF OnceInv
<1> DEFINE Goal == (QueuesInv /\ HandsInv /\ BufferInv /\ AnsweredInv)'
<1>a. \A p \in Processes : ~Crash(p) BY DEF Crash, TypeInv, TypeOK
<1>b. crashes = 0
  BY <1>a DEF Next, vars, budget, WorkerStep, Arrive, TakeMessage, push, RPush, CancelPendingRetry,
     DropTurn, AddTurn, TakeTurn, tryFlush, Acquire, AcquireBusy, scheduleRetry, RequeueAdd, popAll,
     LRange, DelBuffer, Dispatch, Release, Finish, withLeadLock, StartManual, EndManual, suppress,
     StartPurge, purgeLead, PurgeBuffer, PurgeLock, PurgeTurn, DeleteLead, ExpireLock
<1>c. QueuesInv /\ HandsInv /\ BufferInv /\ AnsweredInv BY <1>b DEF OnceInv
<1>d. Workers \subseteq Processes /\ Panel \subseteq Processes BY DEF Processes
<1>1. ASSUME NEW m \in Messages, NEW q \in {"inbound", "media"}, Arrive(m, q) PROVE Goal
  BY <1>1, <1>c, OnceArrive
<1>2. ASSUME NEW w \in Workers, TakeMessage(w) \/ RPush(w) \/ popAll(w) \/ Dispatch(w) PROVE Goal
  BY <1>2, <1>c, <1>d, OnceTake, OncePush, OncePop, OnceDispatch
<1>3. ASSUME NEW w \in Processes,
             \/ CancelPendingRetry(w, "pushDropRetry", "dropTurn") \/ DropTurn(w) \/ AddTurn(w)
             \/ \E j \in JobIds : TakeTurn(w, j)
             \/ Acquire(w) \/ AcquireBusy(w) \/ scheduleRetry(w)
             \/ CancelPendingRetry(w, "cancelRetry", "lrange") \/ Release(w) \/ Finish(w)
             \/ withLeadLock(w) \/ StartPurge(w)
      PROVE  Goal
  <2> USE DEF Goto, Idle, redis, local, history, budget, TypeInv, TypeOK
  <2>1. pc[w] \notin {"rpush", "del", "dispatch"} /\ pc'[w] \notin {"rpush", "del", "dispatch"}
    BY <1>3 DEF CancelPendingRetry, DropTurn, AddTurn, TakeTurn, Acquire, acquireLock, AcquireBusy,
                scheduleRetry, RequeueAdd, Release, Finish, withLeadLock, StartManual,
                EndManual, StartPurge
  <2>2. UNCHANGED <<queue, buffer, handled, arrived>>
    BY <1>3 DEF CancelPendingRetry, DropTurn, AddTurn, TakeTurn, Acquire, acquireLock, AcquireBusy,
                scheduleRetry, RequeueAdd, Release, Finish, withLeadLock, StartManual,
                EndManual, StartPurge
  <2>3. \A p \in Processes : p # w => pc'[p] = pc[p] /\ work'[p] = work[p] /\ batch'[p] = batch[p]
    BY <1>3 DEF CancelPendingRetry, DropTurn, AddTurn, TakeTurn, Acquire, acquireLock, AcquireBusy,
                scheduleRetry, RequeueAdd, Release, Finish, withLeadLock, StartManual,
                EndManual, StartPurge
  <2> QED BY <1>c, <2>1, <2>2, <2>3, OnceQuiet
<1>4. ASSUME NEW p \in Panel, purgeLead(p) \/ DeleteLead(p) PROVE FALSE
  BY <1>4, <1>d DEF NoPurge, PurgePcs, purgeLead, DeleteLead, PurgeBuffer, PurgeLock, PurgeTurn,
                    CancelPendingRetry, Goto
<1>5. ASSUME ExpireLock \/ UNCHANGED vars PROVE Goal
  <2>1. UNCHANGED <<queue, buffer, pc, work, batch, handled, arrived>>
    BY <1>5 DEF ExpireLock, vars, redis, local, history
  <2>2. UNCHANGED <<Queued, Held, Buffered, InTurn, Answered>>
    BY <2>1 DEF Queued, Held, Buffered, InTurn, Answered
  <2> QED BY <1>c, <2>1, <2>2 DEF QueuesInv, HandsInv, BufferInv, AnsweredInv
<1> HIDE DEF Goal
<1>6. ASSUME NEW w \in Workers, WorkerStep(w) PROVE Goal
  BY <1>d, <1>2, <1>3, <1>6 DEF WorkerStep, push, tryFlush
<1>7. ASSUME NEW p \in Panel, withLeadLock(p) \/ suppress(p) PROVE Goal
  BY <1>d, <1>3, <1>4, <1>7 DEF suppress
<1>8. Goal
  BY <1>a, <1>1, <1>5, <1>6, <1>7 DEF Next
<1> QED BY <1>8 DEF Goal

(* AtMostOnce: whatever the replicas, the media workers, the panel and the *)
(* failures, as long as owners finish within LOCK_TTL_MS, the lead is not  *)
(* suppressed and nobody dies, no message is part of two turns.            *)
THEOREM EachMessageOnce ==
    ASSUME ~SlowHolders, MaxPurges = 0
    PROVE  Spec => []AtMostOnce
<1>1. OnceInv => AtMostOnce BY DEF OnceInv, AnsweredInv, AtMostOnce
<1>2. Init => OnceInv
  BY DEF Init, OnceInv, QueuesInv, HandsInv, BufferInv, AnsweredInv, Queued, Held, Buffered, InTurn,
         Answered, ToSet, IsInjective
<1>3. TypeInv /\ OwnerInv /\ NoPurge /\ [Next]_vars => (OwnerInv /\ NoPurge)'
  BY StepOwnerInv
<1> QED BY <1>1, <1>2, <1>3, InitTypeInv, StepTypeInv, InitOwnerInv, StepOnceInv, PTL DEF Spec
-----------------------------------------------------------------------------
(* One replica and only texts: the buffer has one writer.  What follows is *)
(* about that worker, w below; the panel may send manual messages.         *)

OneReplica == Medias = {} /\ \E w : Inbound = {w}
NobodyDies == MaxCrashes = 0 /\ MaxPurges = 0

SoloInv ==
    /\ queue["media"] = <<>>
    /\ \A x \in Media : pc[x] = "idle"
    /\ \A p \in Panel : pc[p] \in {"idle", "manual"}
    /\ leadExists

(* The steps that are left.                                                *)
SoloStep(w) ==
    \/ \E m \in Messages : Arrive(m, "inbound")
    \/ WorkerStep(w)
    \/ \E p \in Panel : withLeadLock(p)
    \/ ExpireLock

LEMMA SoloSteps ==
    ASSUME TypeOK, SoloInv, Medias = {}, NobodyDies, NEW w, Inbound = {w}, [Next]_vars
    PROVE  SoloStep(w) \/ UNCHANGED vars
<1> USE DEF TypeOK, NobodyDies, Goto
<1>1. ASSUME NEW m \in Messages, NEW q \in {"inbound", "media"}, Arrive(m, q)
      PROVE  SoloStep(w)
  BY <1>1 DEF Arrive, SoloStep
<1>2. ASSUME NEW x \in Media PROVE ~WorkerStep(x)
  <2>1. pc[x] = "idle" /\ queue["media"] = <<>> /\ x \notin Inbound
    BY ConstantsAssumption DEF SoloInv
  <2>2. ~TakeMessage(x) BY <2>1 DEF TakeMessage
  <2>3. ~push(x)
    BY <2>1 DEF push, RPush, CancelPendingRetry, DropTurn, AddTurn, Idle
  <2>4. ~tryFlush(x)
    BY <2>1 DEF tryFlush, Acquire, acquireLock, AcquireBusy, scheduleRetry, RequeueAdd, popAll,
                CancelPendingRetry, LRange, DelBuffer, Dispatch, Release, Finish, Idle
  <2> QED BY <2>1, <2>2, <2>3, <2>4 DEF WorkerStep
<1>3. ASSUME NEW p \in Panel PROVE ~suppress(p)
  <2>1. pc[p] \in {"idle", "manual"} BY DEF SoloInv
  <2>2. ~StartPurge(p) BY DEF StartPurge
  <2>3. ~purgeLead(p) /\ ~DeleteLead(p)
    BY <2>1 DEF purgeLead, PurgeBuffer, PurgeLock, PurgeTurn, CancelPendingRetry, DeleteLead
  <2> QED BY <2>2, <2>3 DEF suppress
<1>4. \A p \in Processes : ~Crash(p) BY DEF Crash
<1>5. w \in Workers /\ Workers = {w} \cup Media BY DEF Workers
<1> HIDE DEF TypeOK, NobodyDies, Goto
<1>6. ASSUME NEW x \in Workers, WorkerStep(x) PROVE SoloStep(w)
  BY <1>2, <1>5, <1>6 DEF SoloStep
<1> QED BY <1>1, <1>3, <1>4, <1>6 DEF Next, SoloStep

LEMMA StepSoloInv ==
    ASSUME OneReplica, NobodyDies
    PROVE  TypeOK /\ SoloInv /\ [Next]_vars => SoloInv'
<1> SUFFICES ASSUME TypeOK, SoloInv, [Next]_vars PROVE SoloInv'
  OBVIOUS
<1> PICK w : Inbound = {w} BY DEF OneReplica
<1> USE DEF TypeOK, SoloInv, Goto, Idle, redis, local, history, budget
<1>0. w \in Processes /\ w \notin Media /\ w \notin Panel
  BY ConstantsAssumption DEF Workers, Processes
<1>1. ASSUME NEW m \in Messages, Arrive(m, "inbound") PROVE SoloInv'
  BY <1>1 DEF Arrive
<1>2. CASE WorkerStep(w)
  <2>1. CASE TakeMessage(w) BY <1>0, <2>1 DEF TakeMessage, Processes, Workers
  <2>2. CASE push(w) BY <1>0, <2>2 DEF Processes, Workers, push, RPush, CancelPendingRetry, DropTurn, AddTurn
  <2>3. ASSUME NEW j \in JobIds, TakeTurn(w, j) PROVE SoloInv' BY <1>0, <2>3 DEF TakeTurn
  <2>4. CASE tryFlush(w)
    <3>1. UNCHANGED <<queue, leadExists>> /\ \A p \in Processes : p # w => pc'[p] = pc[p]
      BY <2>4 DEF tryFlush, Acquire, acquireLock, AcquireBusy, scheduleRetry, RequeueAdd, popAll,
                CancelPendingRetry, LRange, DelBuffer, Dispatch, Release, Finish
    <3> QED BY <1>0, <3>1 DEF Processes, Workers
  <2> QED BY <1>2, <2>1, <2>2, <2>3, <2>4 DEF WorkerStep
<1>3. ASSUME NEW p \in Panel, withLeadLock(p) PROVE SoloInv'
  <2>1. UNCHANGED <<queue, leadExists>> /\ pc' \in [Processes -> Pcs] /\ p \in Processes
        /\ pc'[p] \in {"idle", "manual"} /\ \A x \in Processes : x # p => pc'[x] = pc[x]
    BY <1>3 DEF withLeadLock, StartManual, EndManual, acquireLock, Processes, Pcs, OwnerPcs
  <2>2. p \notin Media BY ConstantsAssumption DEF Workers
  <2> QED BY <2>1, <2>2 DEF Processes, Workers
<1>4. CASE ExpireLock \/ UNCHANGED vars BY <1>4 DEF ExpireLock, vars
<1>5. SoloStep(w) \/ UNCHANGED vars BY SoloSteps DEF OneReplica
<1> QED BY <1>1, <1>2, <1>3, <1>4, <1>5 DEF SoloStep

LEMMA InitSoloInv == Init => SoloInv
  BY DEF Init, SoloInv, Processes, Workers

-----------------------------------------------------------------------------
(* The order of the texts.                                                 *)

InTurnOf(w) == IF pc[w] = "dispatch" THEN batch[w] ELSE <<>>

OrderInv(w) ==
    /\ arrived = handled \o InTurnOf(w) \o buffer \o InHand(w) \o queue["inbound"]
    /\ pc[w] = "del" => batch[w] = buffer
    /\ pc[w] = "dispatch" => batch[w] # <<>>

LEMMA TakenIsInTurn == ASSUME NEW w, Inbound = {w} PROVE Taken = InTurnOf(w)
<1>1. CASE pc[w] = "dispatch"
  <2>1. (CHOOSE v \in Inbound : pc[v] = "dispatch") = w BY <1>1
  <2> QED BY <1>1, <2>1 DEF Taken, InTurnOf
<1>2. CASE pc[w] # "dispatch" BY <1>2 DEF Taken, InTurnOf
<1> QED BY <1>1, <1>2

LEMMA JoinEmpty == ASSUME NEW S, NEW a \in Seq(S) PROVE a \o <<>> = a /\ <<>> \o a = a
  OBVIOUS

LEMMA JoinAssoc ==
    ASSUME NEW S, NEW a \in Seq(S), NEW b \in Seq(S), NEW c \in Seq(S)
    PROVE  (a \o b) \o c = a \o (b \o c) /\ a \o b \in Seq(S)
  OBVIOUS

LEMMA JoinAppend ==
    ASSUME NEW S, NEW a \in Seq(S), NEW e \in S
    PROVE  Append(a, e) = a \o <<e>> /\ <<e>> \in Seq(S)
  OBVIOUS

(* The head of the queue taken in hand, and a push.                        *)
LEMMA JoinTake ==
    ASSUME NEW S, NEW x \in Seq(S), NEW q \in Seq(S), q # <<>>
    PROVE  (x \o <<>>) \o q = (x \o <<Head(q)>>) \o Tail(q)
<1>1. q = <<Head(q)>> \o Tail(q) /\ <<Head(q)>> \in Seq(S) /\ Tail(q) \in Seq(S) OBVIOUS
<1>2. (x \o <<Head(q)>>) \o Tail(q) = x \o (<<Head(q)>> \o Tail(q)) BY <1>1, JoinAssoc
<1>3. x \o <<>> = x BY JoinEmpty
<1> QED BY <1>1, <1>2, <1>3

LEMMA JoinPush ==
    ASSUME NEW S, NEW x \in Seq(S), NEW b \in Seq(S), NEW q \in Seq(S), NEW e \in Seq(S)
    PROVE  ((x \o b) \o e) \o q = ((x \o (b \o e)) \o <<>>) \o q
<1>1. (x \o b) \o e = x \o (b \o e) BY JoinAssoc
<1>2. x \o (b \o e) \in Seq(S) OBVIOUS
<1> QED BY <1>1, <1>2, JoinEmpty

LEMMA StepOrderInv ==
    ASSUME OneReplica, NobodyDies, ~ProvidersFail, NEW w, Inbound = {w}
    PROVE  TypeInv /\ SoloInv /\ OrderInv(w) /\ [Next]_vars => OrderInv(w)'
<1> SUFFICES ASSUME TypeInv, SoloInv, OrderInv(w), [Next]_vars PROVE OrderInv(w)'
  OBVIOUS
<1> USE DEF TypeInv, TypeOK, PushInv, Goto, Idle, redis, local, history, budget
<1> DEFINE h == handled
           b == buffer
           q == queue["inbound"]
<1>0. /\ w \in Processes /\ w \notin Media /\ w \notin Panel
      /\ h \in Seq(Messages) /\ b \in Seq(Messages) /\ q \in Seq(Messages) /\ batch[w] \in Seq(Messages)
  BY ConstantsAssumption DEF Workers, Processes
<1>00. InTurnOf(w) \in Seq(Messages) /\ InHand(w) \in Seq(Messages)
  BY <1>0 DEF InTurnOf, InHand
<1>1. ASSUME NEW m \in Messages, Arrive(m, "inbound") PROVE OrderInv(w)'
  <2>1. /\ arrived' = Append(arrived, m) /\ queue'["inbound"] = Append(q, m)
        /\ UNCHANGED <<handled, buffer, pc, batch, work>>
    BY <1>1 DEF Arrive
  <2>2. InTurnOf(w)' = InTurnOf(w) /\ InHand(w)' = InHand(w) BY <2>1 DEF InTurnOf, InHand
  <2>3. /\ arrived' = arrived \o <<m>> /\ queue'["inbound"] = q \o <<m>>
        /\ <<m>> \in Seq(Messages)
    BY <1>0, <2>1, JoinAppend
  <2> DEFINE x == h \o InTurnOf(w) \o b \o InHand(w)
  <2>4. x \in Seq(Messages) BY <1>0, <1>00
  <2>5. arrived = x \o q BY DEF OrderInv
  <2> HIDE DEF x, h, b, q
  <2>6. (x \o q) \o <<m>> = x \o (q \o <<m>>)
    <3>1. q \in Seq(Messages) BY ONLY <1>0
    <3>2. x \in Seq(Messages) BY ONLY <2>4
    <3>3. <<m>> \in Seq(Messages) BY ONLY <2>3
    <3> QED BY ONLY <3>1, <3>2, <3>3, JoinAssoc
  <2>7. arrived' = x \o queue'["inbound"] BY <2>3, <2>5, <2>6
  <2> USE DEF x, h, b, q
  <2> QED BY <2>1, <2>2, <2>7 DEF OrderInv
<1>2. CASE TakeMessage(w)
  <2>1. /\ q # <<>> /\ queue'["inbound"] = Tail(q) /\ InHand(w) = <<>> /\ InHand(w)' = <<Head(q)>>
        /\ InTurnOf(w)' = <<>> /\ InTurnOf(w) = <<>> /\ pc'[w] = "rpush"
        /\ UNCHANGED <<handled, buffer, arrived>>
    BY <1>0, <1>2 DEF TakeMessage, SoloInv, InHand, InTurnOf
  <2> DEFINE x == h \o <<>> \o b
  <2>3. x \in Seq(Messages) BY <1>0
  <2>4. arrived = (x \o <<>>) \o q BY <2>1 DEF OrderInv
  <2> HIDE DEF x, h, b, q
  <2>5. arrived = (x \o <<Head(q)>>) \o Tail(q) BY <1>0, <2>1, <2>3, <2>4, JoinTake
  <2> USE DEF x, h, b, q
  <2> QED BY <2>1, <2>5 DEF OrderInv
<1>3. CASE RPush(w)
  <2>1. /\ InHand(w) = <<work[w]>> /\ InHand(w)' = <<>> /\ InTurnOf(w) = <<>> /\ InTurnOf(w)' = <<>>
        /\ buffer' = Append(b, work[w]) /\ work[w] \in Messages /\ pc'[w] \notin {"del", "dispatch"}
        /\ UNCHANGED <<handled, queue, arrived>>
    BY <1>0, <1>3 DEF RPush, InHand, InTurnOf
  <2> DEFINE x == h \o <<>>
  <2>2. x \in Seq(Messages) /\ x \o b \in Seq(Messages) BY <1>0
  <2>3. arrived = ((x \o b) \o <<work[w]>>) \o q BY <2>1 DEF OrderInv
  <2> HIDE DEF x, h, b, q
  <2>4. arrived = ((x \o buffer') \o <<>>) \o q 
    <3>1. buffer' = b \o <<work[w]>> /\ <<work[w]>> \in Seq(Messages) BY <1>0, <2>1, JoinAppend
    <3>2. ((x \o b) \o <<work[w]>>) \o q = ((x \o (b \o <<work[w]>>)) \o <<>>) \o q
      <4>1. b \in Seq(Messages) /\ q \in Seq(Messages) BY ONLY <1>0
      <4>2. x \in Seq(Messages) BY ONLY <2>2
      <4>3. <<work[w]>> \in Seq(Messages) BY ONLY <3>1
      <4> QED BY ONLY <4>1, <4>2, <4>3, JoinPush
    <3> QED BY <2>3, <3>1, <3>2
  <2> USE DEF x, h, b, q
  <2> QED BY <2>1, <2>4 DEF OrderInv
<1>4. CASE LRange(w)
  <2>1. /\ UNCHANGED <<handled, buffer, queue, arrived, work>> /\ batch'[w] = b
        /\ pc[w] = "lrange" /\ pc'[w] = "del"
    BY <1>0, <1>4 DEF LRange
  <2> QED BY <2>1 DEF OrderInv, InHand, InTurnOf
<1>5. CASE DelBuffer(w)
  <2>1. /\ UNCHANGED <<handled, queue, arrived, work, batch>> /\ buffer' = <<>> /\ pc[w] = "del"
        /\ pc'[w] = IF batch[w] = <<>> THEN "release" ELSE "dispatch"
    BY <1>0, <1>5 DEF DelBuffer
  <2>2. InHand(w) = <<>> /\ InHand(w)' = <<>> /\ InTurnOf(w) = <<>> /\ batch[w] = b
    BY <2>1 DEF InHand, InTurnOf, OrderInv
  <2>3. InTurnOf(w)' = b BY <2>1, <2>2 DEF InTurnOf
  <2>4. arrived = ((h \o <<>> \o b) \o <<>>) \o q BY <2>2 DEF OrderInv
  <2> HIDE DEF h, b, q
  <2>5. arrived = ((h \o b) \o <<>> \o <<>>) \o q
    <3>1. h \o <<>> = h BY <1>0, JoinEmpty
    <3>2. h \o b \in Seq(Messages) BY <1>0, JoinAssoc
    <3>3. (h \o b) \o <<>> = h \o b BY <3>2, JoinEmpty
    <3> QED BY <2>4, <3>1, <3>3
  <2> USE DEF h, b, q
  <2> QED BY <2>1, <2>2, <2>3, <2>5 DEF OrderInv
<1>6. CASE Dispatch(w)
  <2>1. /\ UNCHANGED <<buffer, queue, arrived, work, batch>> /\ handled' = h \o batch[w]
        /\ pc[w] = "dispatch" /\ pc'[w] = "release"
    BY <1>0, <1>6 DEF Dispatch, SoloInv
  <2>2. InHand(w) = <<>> /\ InHand(w)' = <<>> /\ InTurnOf(w) = batch[w] /\ InTurnOf(w)' = <<>>
    BY <2>1 DEF InHand, InTurnOf
  <2>3. arrived = h \o batch[w] \o b \o <<>> \o q BY <2>2 DEF OrderInv
  <2>4. handled' \o <<>> = h \o batch[w]
    <3>1. h \o batch[w] \in Seq(Messages) BY <1>0, JoinAssoc
    <3> QED BY <2>1, <3>1, JoinEmpty
  <2> QED BY <2>1, <2>2, <2>3, <2>4 DEF OrderInv
<1>7. ASSUME UNCHANGED <<queue, buffer, handled, arrived>>,
             UNCHANGED <<pc, work, batch>> \/
             (pc[w] \notin {"rpush", "del", "dispatch"} /\ pc'[w] \notin {"rpush", "del", "dispatch"})
      PROVE  OrderInv(w)'
  BY <1>7 DEF OrderInv, InHand, InTurnOf
<1>8. CASE \/ CancelPendingRetry(w, "pushDropRetry", "dropTurn") \/ DropTurn(w) \/ AddTurn(w)
           \/ \E j \in JobIds : TakeTurn(w, j)
           \/ Acquire(w) \/ AcquireBusy(w) \/ scheduleRetry(w)
           \/ CancelPendingRetry(w, "cancelRetry", "lrange") \/ Release(w) \/ Finish(w)
  <2>1. UNCHANGED <<queue, buffer, handled, arrived>>
    BY <1>8 DEF CancelPendingRetry, DropTurn, AddTurn, TakeTurn, Acquire, acquireLock, AcquireBusy,
                scheduleRetry, RequeueAdd, Release, Finish
  <2>2. pc[w] \notin {"rpush", "del", "dispatch"} /\ pc'[w] \notin {"rpush", "del", "dispatch"}
    BY <1>0, <1>8 DEF CancelPendingRetry, DropTurn, AddTurn, TakeTurn, Acquire, acquireLock, AcquireBusy,
                scheduleRetry, RequeueAdd, Release, Finish
  <2> QED BY <1>7, <2>1, <2>2
<1>9. ASSUME NEW p \in Panel, withLeadLock(p) PROVE OrderInv(w)'
  <2>1. /\ UNCHANGED <<queue, buffer, handled, arrived, work, batch>> /\ p \in Processes
        /\ pc'[w] = pc[w]
    BY <1>0, <1>9 DEF withLeadLock, StartManual, EndManual, acquireLock, Processes
  <2> QED BY <2>1 DEF OrderInv, InHand, InTurnOf
<1>10. CASE ExpireLock \/ UNCHANGED vars
  BY <1>7, <1>10 DEF ExpireLock, vars
<1>11. SoloStep(w) \/ UNCHANGED vars BY SoloSteps DEF OneReplica
<1> QED
  BY <1>1, <1>2, <1>3, <1>4, <1>5, <1>6, <1>8, <1>9, <1>10, <1>11
  DEF SoloStep, WorkerStep, push, tryFlush, popAll

(* Conservation: with one replica whose turns do not fail, and any number  *)
(* of texts, manual messages and slow owners, what was answered and what   *)
(* still waits are together the texts that arrived, in their order.        *)
THEOREM TextsKeepTheirOrder ==
    ASSUME OneReplica, NobodyDies, ~ProvidersFail
    PROVE  Spec => []Conservation
<1> PICK w : Inbound = {w} BY DEF OneReplica
<1>1. OrderInv(w) => Conservation BY TakenIsInTurn DEF OrderInv, Conservation
<1>2. Init => OrderInv(w)
  BY ConstantsAssumption DEF Init, OrderInv, InTurnOf, InHand, Workers, Processes
<1>3. TypeInv /\ SoloInv /\ OrderInv(w) /\ [Next]_vars => OrderInv(w)' BY StepOrderInv
<1>4. TypeInv /\ SoloInv /\ [Next]_vars => SoloInv' BY StepSoloInv DEF TypeInv
<1> QED BY <1>1, <1>2, <1>3, <1>4, InitTypeInv, StepTypeInv, InitSoloInv, PTL DEF Spec

LEMMA SplitJoin ==
    ASSUME NEW S, NEW a \in Seq(S), NEW b \in Seq(S)
    PROVE  /\ SubSeq(a \o b, 1, Len(a)) = a
           /\ SubSeq(a \o b, Len(a) + 1, Len(a \o b)) = b
           /\ Len(a) \in 0 .. Len(a \o b)
  OBVIOUS

(* A push is an Accept, the dispatch of a batch is a Turn, and nothing     *)
(* else is seen: LRANGE and DEL only carry texts from one list to another. *)
LEMMA StepDelivers ==
    ASSUME OneReplica, NobodyDies, ~ProvidersFail, NEW w, Inbound = {w},
           TypeInv, SoloInv, OrderInv(w), [Next]_vars
    PROVE  Delivery!Next \/ UNCHANGED <<Taken \o buffer, handled>>
<1> USE DEF TypeInv, TypeOK, PushInv, Goto, Idle, redis, local, history, budget
<1>0. w \in Processes /\ w \notin Media /\ w \notin Panel /\ batch[w] \in Seq(Messages)
  BY ConstantsAssumption DEF Workers, Processes
<1>1. Taken = InTurnOf(w) BY TakenIsInTurn
<1>2. Taken' = InTurnOf(w)'
  <2>1. CASE pc'[w] = "dispatch"
    <3>1. (CHOOSE v \in Inbound : pc'[v] = "dispatch") = w BY <2>1
    <3> QED BY <2>1, <3>1 DEF Taken, InTurnOf
  <2>2. CASE pc'[w] # "dispatch" BY <2>2 DEF Taken, InTurnOf
  <2> QED BY <2>1, <2>2
<1>3. CASE RPush(w)
  <2>1. /\ InTurnOf(w) = <<>> /\ InTurnOf(w)' = <<>> /\ work[w] \in Messages
        /\ buffer' = Append(buffer, work[w]) /\ UNCHANGED handled
    BY <1>0, <1>3 DEF RPush, InTurnOf
  <2>2. (Taken \o buffer)' = Append(Taken \o buffer, work[w]) BY <1>1, <1>2, <2>1
  <2>3. Delivery!Accept(work[w]) BY <2>1, <2>2 DEF Delivery!Accept
  <2> QED BY <2>1, <2>3 DEF Delivery!Next
<1>4. CASE Dispatch(w)
  <2>1. /\ InTurnOf(w) = batch[w] /\ InTurnOf(w)' = <<>> /\ batch[w] # <<>>
        /\ UNCHANGED buffer /\ handled' = handled \o batch[w]
    BY <1>0, <1>4 DEF Dispatch, SoloInv, InTurnOf, OrderInv
  <2> DEFINE n == Len(batch[w])
  <2>2. /\ SubSeq(Taken \o buffer, 1, n) = batch[w]
        /\ SubSeq(Taken \o buffer, n + 1, Len(Taken \o buffer)) = buffer
        /\ n \in 1 .. Len(Taken \o buffer)
    <3>1. buffer \in Seq(Messages) /\ batch[w] \in Seq(Messages) /\ n # 0 /\ Taken = batch[w]
      BY <1>0, <1>1, <2>1
    <3>2. /\ SubSeq(batch[w] \o buffer, 1, Len(batch[w])) = batch[w]
          /\ SubSeq(batch[w] \o buffer, Len(batch[w]) + 1, Len(batch[w] \o buffer)) = buffer
          /\ Len(batch[w]) \in 0 .. Len(batch[w] \o buffer)
      BY ONLY <3>1, SplitJoin
    <3>3. /\ SubSeq(Taken \o buffer, 1, n) = batch[w]
          /\ SubSeq(Taken \o buffer, n + 1, Len(Taken \o buffer)) = buffer
      BY ONLY <3>1, <3>2
    <3>4. n \in 1 .. Len(Taken \o buffer)
      <4> DEFINE l == Len(Taken \o buffer)
      <4>1. n \in 0 .. l /\ n # 0 BY ONLY <3>1, <3>2
      <4>2. l \in Nat BY ONLY <3>1
      <4> HIDE DEF n, l
      <4>3. n \in 1 .. l BY ONLY <4>1, <4>2
      <4> USE DEF n, l
      <4> QED BY <4>3
    <3> QED BY <3>3, <3>4
  <2>3. (Taken \o buffer)' = buffer BY <1>2, <2>1
  <2>4. Delivery!Turn(n) BY <2>1, <2>2, <2>3 DEF Delivery!Turn
  <2> QED BY <2>2, <2>4 DEF Delivery!Next
<1>5. CASE popAll(w)
  <2>1. CASE LRange(w)
    BY <1>0, <1>1, <1>2, <2>1 DEF LRange, InTurnOf
  <2>2. CASE DelBuffer(w)
    <3>1. /\ UNCHANGED <<handled, batch>> /\ buffer' = <<>> /\ pc[w] = "del" /\ batch[w] = buffer
          /\ pc'[w] = IF batch[w] = <<>> THEN "release" ELSE "dispatch"
      BY <1>0, <2>2 DEF DelBuffer, OrderInv
    <3>2. InTurnOf(w) = <<>> /\ InTurnOf(w)' = buffer BY <3>1 DEF InTurnOf
    <3> QED BY <1>1, <1>2, <3>1, <3>2
  <2> QED BY <1>5, <2>1, <2>2 DEF popAll
<1>6. CASE \/ \E m \in Messages : Arrive(m, "inbound")
           \/ \E p \in Panel : withLeadLock(p)
           \/ ExpireLock \/ UNCHANGED vars
  <2>1. UNCHANGED <<handled, buffer, batch>> /\ pc'[w] = pc[w]
    BY <1>0, <1>6 DEF Arrive, withLeadLock, StartManual, EndManual, acquireLock, ExpireLock, vars, Processes
  <2> QED BY <1>1, <1>2, <2>1 DEF InTurnOf
<1>7. CASE \/ CancelPendingRetry(w, "pushDropRetry", "dropTurn") \/ DropTurn(w) \/ AddTurn(w)
           \/ TakeMessage(w) \/ \E j \in JobIds : TakeTurn(w, j)
           \/ Acquire(w) \/ AcquireBusy(w) \/ scheduleRetry(w)
           \/ CancelPendingRetry(w, "cancelRetry", "lrange") \/ Release(w) \/ Finish(w)
  <2>1. UNCHANGED <<handled, buffer>> /\ pc[w] # "dispatch" /\ pc'[w] # "dispatch"
    BY <1>0, <1>7 DEF CancelPendingRetry, DropTurn, AddTurn, TakeMessage, TakeTurn, Acquire, acquireLock,
                AcquireBusy, scheduleRetry, RequeueAdd, Release, Finish
  <2> QED BY <1>1, <1>2, <2>1 DEF InTurnOf
<1>8. SoloStep(w) \/ UNCHANGED vars BY SoloSteps DEF OneReplica
<1> QED BY <1>3, <1>4, <1>5, <1>6, <1>7, <1>8 DEF SoloStep, WorkerStep, push, tryFlush

(* DeliversTurns: the same pipeline implements TurnDelivery, so each turn  *)
(* the engine is given is a prefix of what waited, whole and in order.     *)
THEOREM ImplementsTurnDelivery ==
    ASSUME OneReplica, NobodyDies, ~ProvidersFail
    PROVE  Spec => DeliversTurns
<1> PICK w : Inbound = {w} BY DEF OneReplica
<1>1. Init => OrderInv(w)
  BY ConstantsAssumption DEF Init, OrderInv, InTurnOf, InHand, Workers, Processes
<1>2. TypeInv /\ SoloInv /\ OrderInv(w) /\ [Next]_vars => OrderInv(w)' BY StepOrderInv
<1>3. TypeInv /\ SoloInv /\ [Next]_vars => SoloInv' BY StepSoloInv DEF TypeInv
<1>4. Init => Delivery!Init
  <2>1. ASSUME Init PROVE Taken = <<>> /\ buffer = <<>> /\ handled = <<>>
    BY <2>1, ConstantsAssumption DEF Init, Taken, Workers, Processes
  <2> QED BY <2>1 DEF Delivery!Init
<1>5. TypeInv /\ SoloInv /\ OrderInv(w) /\ [Next]_vars
         => [Delivery!Next]_<<Taken \o buffer, handled>>
  BY StepDelivers
<1> QED
  BY <1>1, <1>2, <1>3, <1>4, <1>5, InitTypeInv, StepTypeInv, InitSoloInv, PTL
  DEF Spec, DeliversTurns, Delivery!Spec

-----------------------------------------------------------------------------
(* A buffered text always has something scheduled to read it.              *)

FlushPcs == {"acquire", "requeueDrop", "requeueAdd", "cancelRetry", "lrange", "del",
             "dispatch", "release", "finish"}

(* The one worker runs the one active job, and an id is free when it is    *)
(* about to be added.                                                      *)
JobInv(w) ==
    /\ \A j \in JobIds : job[j] = "active" <=> work[w] = j
    /\ pc[w] \in FlushPcs <=> work[w] \in JobIds
    /\ pc[w] = "addTurn" => job["turn"] = "none"
    /\ pc[w] = "requeueAdd" => job["retry"] = "none"

(* Only a manual message makes the turn wait; the retry that follows finds *)
(* it over, and there is no second one.                                    *)
RetryInv(w) ==
    /\ job["retry"] # "none" => manuals >= 1
    /\ pc[w] \in {"requeueDrop", "requeueAdd"} => work[w] = "turn" /\ manuals >= 1
    /\ pc[w] = "acquire" /\ work[w] = "retry" => lock = Free
    /\ lock # Free => \/ lock = w /\ pc[w] \in OwnerPcs
                      \/ lock \in Panel /\ manuals >= 1

StrandInv(w) ==
    /\ buffer # <<>> => WillFlush
    /\ pc[w] \in {"dispatch", "release"} => buffer = <<>>

LEMMA StepJobInv ==
    ASSUME OneReplica, NobodyDies, HoldersBeatRetry, MaxManual <= 1, NEW w, Inbound = {w},
           TypeInv, SoloInv, JobInv(w), RetryInv(w), [Next]_vars
    PROVE  (JobInv(w) /\ RetryInv(w))'
<1> USE ConstantsAssumption
<1> USE DEF TypeInv, TypeOK, Goto, Idle, redis, local, history, budget, JobInv, RetryInv, FlushPcs
<1>0. /\ w \in Processes /\ w \notin Media /\ w \notin Panel
      /\ w # Free /\ Free \notin Panel /\ None \notin JobIds
      /\ \A m \in Messages : m \notin JobIds
  BY DEF Workers, Processes
<1>1. ASSUME NEW m \in Messages, Arrive(m, "inbound") PROVE (JobInv(w) /\ RetryInv(w))'
  BY <1>1 DEF Arrive
<1>2. CASE TakeMessage(w)
  <2>1. queue["inbound"] # <<>> /\ queue["inbound"] \in Seq(Messages) BY <1>0, <1>2 DEF TakeMessage
  <2>2. Head(queue["inbound"]) \in Messages BY <2>1
  <2> QED BY <1>0, <1>2, <2>2 DEF TakeMessage, OwnerPcs
<1>3. CASE push(w)
  <2>1. CASE RPush(w) BY <1>0, <2>1 DEF RPush, OwnerPcs
  <2>2. CASE CancelPendingRetry(w, "pushDropRetry", "dropTurn") \/ DropTurn(w)
    BY <1>0, <2>2 DEF CancelPendingRetry, DropTurn, removeJobIfExists, JobIds, OwnerPcs
  <2>3. CASE AddTurn(w)
    BY <1>0, <2>3 DEF AddTurn, Added, JobIds, OwnerPcs
  <2> QED BY <1>3, <2>1, <2>2, <2>3 DEF push
<1>4. ASSUME NEW j \in JobIds, TakeTurn(w, j) PROVE (JobInv(w) /\ RetryInv(w))'
  BY <1>0, <1>4 DEF TakeTurn, JobIds, OwnerPcs
<1>5. CASE Acquire(w) \/ AcquireBusy(w)
  BY <1>0, <1>5 DEF Acquire, acquireLock, AcquireBusy, JobIds, OwnerPcs
<1>6. CASE scheduleRetry(w)
  <2>1. CASE CancelPendingRetry(w, "requeueDrop", "requeueAdd")
    BY <1>0, <2>1 DEF CancelPendingRetry, removeJobIfExists, JobIds, OwnerPcs
  <2>2. CASE RequeueAdd(w)
    BY <1>0, <2>2 DEF RequeueAdd, Added, JobIds, OwnerPcs
  <2> QED BY <1>6, <2>1, <2>2 DEF scheduleRetry
<1>7. CASE CancelPendingRetry(w, "cancelRetry", "lrange")
  BY <1>0, <1>7 DEF CancelPendingRetry, removeJobIfExists, JobIds, OwnerPcs
<1>8. CASE popAll(w) \/ Dispatch(w)
  BY <1>0, <1>8 DEF popAll, LRange, DelBuffer, Dispatch, OwnerPcs
<1>9. CASE Release(w) BY <1>0, <1>9 DEF Release, releaseLock
<1>10. CASE Finish(w) BY <1>0, <1>10 DEF Finish, JobIds, OwnerPcs
<1>11. ASSUME NEW p \in Panel, withLeadLock(p) PROVE (JobInv(w) /\ RetryInv(w))'
  <2>1. UNCHANGED <<job, work>> /\ pc'[w] = pc[w]
    BY <1>0, <1>11 DEF withLeadLock, StartManual, EndManual, acquireLock, Processes
  <2>2. CASE StartManual(p)
    <3>1. manuals = 0 /\ manuals' = 1 /\ lock' = p BY <2>2 DEF StartManual, acquireLock
    <3>2. ~(pc[w] = "acquire" /\ work[w] = "retry") BY <3>1 DEF JobIds
    <3> QED BY <2>1, <3>1, <3>2
  <2>3. CASE EndManual(p) BY <2>1, <2>3 DEF EndManual, releaseLock
  <2> QED BY <1>11, <2>2, <2>3 DEF withLeadLock
<1>12. CASE ExpireLock \/ UNCHANGED vars BY <1>12 DEF ExpireLock, vars
<1>13. SoloStep(w) \/ UNCHANGED vars BY SoloSteps DEF OneReplica
<1> QED
  BY <1>1, <1>2, <1>3, <1>4, <1>5, <1>6, <1>7, <1>8, <1>9, <1>10, <1>11, <1>12, <1>13
  DEF SoloStep, WorkerStep, tryFlush

LEMMA StepStrandInv ==
    ASSUME OneReplica, NobodyDies, NEW w, Inbound = {w},
           TypeInv, SoloInv, JobInv(w), RetryInv(w), StrandInv(w), [Next]_vars
    PROVE  StrandInv(w)'
<1> USE ConstantsAssumption
<1> USE DEF TypeInv, TypeOK, Goto, Idle, redis, local, history, budget
<1> DEFINE Reading == PushPcs \cup {"acquire", "requeueDrop", "requeueAdd", "cancelRetry", "lrange", "del"}
           Scheduled == job["turn"] = "delayed" \/ job["retry"] = "delayed"
<1>0. w \in Processes /\ w \notin Media /\ w \notin Panel BY DEF Workers, Processes
<1>a. WillFlush => Scheduled \/ pc[w] \in Reading
  <2>1. \A p \in Processes : p # w => pc[p] \in {"idle", "manual"}
    BY DEF SoloInv, Processes, Workers
  <2> QED BY <2>1 DEF WillFlush, JobIds, PushPcs
<1>b. Scheduled' \/ pc'[w] \in Reading => WillFlush' BY <1>0 DEF WillFlush, JobIds
<1>c. buffer # <<>> => Scheduled \/ pc[w] \in Reading BY <1>a DEF StrandInv
<1>1. ASSUME UNCHANGED <<buffer, job>>, pc'[w] = pc[w] PROVE StrandInv(w)'
  BY <1>1, <1>b, <1>c DEF StrandInv
<1>2. ASSUME pc'[w] \in Reading \/ (Scheduled' /\ pc'[w] \notin {"dispatch", "release"})
      PROVE  StrandInv(w)'
  BY <1>2, <1>b DEF StrandInv, PushPcs
<1>3. CASE TakeMessage(w) \/ RPush(w) \/ DropTurn(w) \/ CancelPendingRetry(w, "pushDropRetry", "dropTurn")
           \/ (\E j \in JobIds : TakeTurn(w, j)) \/ Acquire(w) \/ AcquireBusy(w)
           \/ CancelPendingRetry(w, "requeueDrop", "requeueAdd")
           \/ CancelPendingRetry(w, "cancelRetry", "lrange") \/ LRange(w)
  <2>1. pc'[w] \in Reading \/ (UNCHANGED <<buffer, job>> /\ pc'[w] = pc[w])
    BY <1>0, <1>3 DEF TakeMessage, RPush, DropTurn, CancelPendingRetry, TakeTurn, Acquire, acquireLock,
                      AcquireBusy, LRange, PushPcs
  <2> QED BY <1>1, <1>2, <2>1
<1>4. CASE AddTurn(w)
  <2>1. job'["turn"] = "delayed" /\ pc'[w] = "idle"
    BY <1>0, <1>4 DEF AddTurn, Added, JobInv, JobIds
  <2> QED BY <1>2, <2>1
<1>5. CASE RequeueAdd(w)
  <2>1. job'["retry"] = "delayed" /\ pc'[w] = "finish"
    BY <1>0, <1>5 DEF RequeueAdd, Added, JobInv, JobIds
  <2> QED BY <1>2, <2>1
<1>6. CASE DelBuffer(w) \/ Dispatch(w) \/ Release(w)
  <2>1. buffer' = <<>> BY <1>6 DEF DelBuffer, Dispatch, Release, StrandInv
  <2> QED BY <2>1 DEF StrandInv
<1>7. CASE Finish(w)
  <2>1. pc[w] = "finish" /\ pc'[w] = "idle" /\ buffer' = buffer
        /\ work[w] \in JobIds /\ job[work[w]] = "active" /\ job' = [job EXCEPT ![work[w]] = "ended"]
    BY <1>0, <1>7 DEF Finish, JobInv, FlushPcs
  <2>2. pc[w] \notin Reading BY <2>1 DEF PushPcs
  <2>3. Scheduled => Scheduled' BY <2>1 DEF JobIds
  <2> QED BY <1>b, <1>c, <2>1, <2>2, <2>3 DEF StrandInv
<1>8. CASE \/ \E m \in Messages : Arrive(m, "inbound")
           \/ \E p \in Panel : withLeadLock(p)
           \/ ExpireLock \/ UNCHANGED vars
  <2>1. UNCHANGED <<buffer, job>> /\ pc'[w] = pc[w]
    BY <1>0, <1>8 DEF Arrive, withLeadLock, StartManual, EndManual, acquireLock, ExpireLock, vars, Processes
  <2> QED BY <1>1, <2>1
<1>9. SoloStep(w) \/ UNCHANGED vars BY SoloSteps DEF OneReplica
<1> QED
  BY <1>3, <1>4, <1>5, <1>6, <1>7, <1>8, <1>9
  DEF SoloStep, WorkerStep, push, tryFlush, scheduleRetry, popAll

(* NoStrandedEntry: with one replica, texts, owners that end before the    *)
(* 2 s retry and one manual message at most, a text in the buffer always   *)
(* has a job or a command ahead that will read it.  A second manual message*)
(* may meet the retry, and then TLC refutes it.                            *)
THEOREM NothingStranded ==
    ASSUME OneReplica, NobodyDies, HoldersBeatRetry, MaxManual <= 1
    PROVE  Spec => []NoStrandedEntry
<1> PICK w : Inbound = {w} BY DEF OneReplica
<1>1. StrandInv(w) => NoStrandedEntry BY DEF StrandInv, NoStrandedEntry
<1>2. Init => JobInv(w) /\ RetryInv(w) /\ StrandInv(w)
  BY ConstantsAssumption
  DEF Init, JobInv, RetryInv, StrandInv, FlushPcs, JobIds, OwnerPcs, Workers, Processes
<1>3. TypeInv /\ SoloInv /\ JobInv(w) /\ RetryInv(w) /\ [Next]_vars => (JobInv(w) /\ RetryInv(w))'
  BY StepJobInv
<1>4. TypeInv /\ SoloInv /\ JobInv(w) /\ RetryInv(w) /\ StrandInv(w) /\ [Next]_vars => StrandInv(w)'
  BY StepStrandInv
<1>5. TypeInv /\ SoloInv /\ [Next]_vars => SoloInv' BY StepSoloInv DEF TypeInv
<1> QED BY <1>1, <1>2, <1>3, <1>4, <1>5, InitTypeInv, StepTypeInv, InitSoloInv, PTL DEF Spec
=============================================================================
