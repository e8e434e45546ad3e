-------------------------- MODULE NatPipelineProofs --------------------------
(***************************************************************************)
(* Proofs about NatPipeline for every value of its constants: its types,   *)
(* the inductive invariant, the safety properties that rest on it, and     *)
(* that it implements BatchLife.                                           *)
(***************************************************************************)
EXTENDS NatPipeline, FiniteSetTheorems, TLAPS

\* Storing a value of its domain in a column keeps the column's type.
LEMMA Store ==
  ASSUME NEW S, NEW T, NEW f \in [S -> T], NEW x, NEW v \in T
  PROVE  [f EXCEPT ![x] = v] \in [S -> T]
OBVIOUS

\* Counting an effect keeps its counter a number.
LEMMA Count ==
  ASSUME NEW S, NEW f \in [S -> Nat], NEW x
  PROVE  [f EXCEPT ![x] = @ + 1] \in [S -> Nat]
<1>1. CASE x \in S
  <2>1. f[x] + 1 \in Nat
    BY <1>1
  <2>2. QED
    BY <2>1, Store
<1>2. CASE x \notin S
  BY <1>2
<1>3. QED
  BY <1>1, <1>2

\* The created_at rank given to a new assomi_tasks row is a number.
LEMMA EnqueuedCount ==
  ASSUME NEW A \in SUBSET Batches
  PROVE  Cardinality(A) \in Nat
BY PipelineAssumption, FS_Subset, FS_CardinalityType

\* An e-mail always reports one of the outcomes of classify_pipeline_outcome.
LEMMA ClassifyType == \A b : Classify(b) \in Outcomes \cup {"none"}
BY DEF Classify, Outcomes

-----------------------------------------------------------------------------
(* The steps all loops are made of keep the loop state well typed.         *)

LEMMA OpenType ==
  ASSUME TypeLoop, NEW w, NEW b \in Batches,
         NEW at \in {"sending", "polling", "notifying", "fetching", "mailing"},
         Open(w, b, at), ctask' \in [Workers -> Tasks \cup {NoTask}]
  PROVE  TypeLoop'
BY DEF TypeLoop, Open

LEMMA CloseType ==
  ASSUME TypeLoop, NEW w, NEW at \in {"dispatch", "poll", "stop", "notify", "process", "mail"},
         Close(w, at), ctask' \in [Workers -> Tasks \cup {NoTask}]
  PROVE  TypeLoop'
<1>1. processed' \in [Workers -> Nat]
  BY Count DEF TypeLoop, Close, Counted
<1>2. QED
  BY <1>1 DEF TypeLoop, Close

LEMMA NextQueueType ==
  ASSUME TypeLoop, NEW w, NEW at \in {"dispatch", "poll", "stop", "notify", "ensure", "mail"},
         NextQueue(w, at)
  PROVE  TypeLoop'
BY DEF TypeLoop, NextQueue

\* Type correctness at the start: no upload yet, every worker before its loop.
LEMMA TypeInit == Init => TypeOK
<1> SUFFICES ASSUME Init PROVE TypeOK
  OBVIOUS
<1>1. TypeRows
  BY DEF Init, TypeRows, TaskStates, AggStates, AggEnds, AssomiStates
<1>2. TypeLoop
  BY DEF Init, TypeLoop, FirstQueue
<1>3. TypeCalls
  BY DEF Init, TypeCalls, NoRequest
<1>4. TypeSeen
  BY PipelineAssumption DEF Init, TypeSeen
<1>5. QED
  BY <1>1, <1>2, <1>3, <1>4 DEF TypeOK

LEMMA TypeStatus ==
  ASSUME TypeOK, NEW w \in StatusWorkers, StatusStep(w)
  PROVE  TypeOK'
<1> USE DEF TypeOK, rowVars, taskRest, quiet, seenVars
<1>1. CASE ClaimDispatch(w)
  <2>1. PICK t \in Tasks : /\ Open(w, BatchOf[t], "sending")
                           /\ ctask' = [ctask EXCEPT ![w] = t]
    BY <1>1 DEF ClaimDispatch, OldestTasks, Dispatchable
  <2>2. TypeLoop'
    BY <2>1, OpenType, PipelineAssumption DEF TypeLoop
  <2>3. QED
    BY <1>1, <2>2 DEF ClaimDispatch, TypeRows, TypeCalls, TypeSeen
<1>2. CASE EndDispatch(w)
  BY <1>2, NextQueueType DEF EndDispatch, TypeRows, TypeCalls, TypeSeen
<1>3. CASE SendOk(w)
  <2>1. TypeLoop'
    BY <1>3, CloseType DEF SendOk, Forget, TypeLoop
  <2>2. TypeRows'
    BY <1>3, Store DEF SendOk, SetTask, NatAnswers, TaskStates, TypeRows
  <2>3. TypeSeen'
    BY <1>3, Count DEF SendOk, TypeSeen
  <2>4. QED
    BY <1>3, <2>1, <2>2, <2>3 DEF SendOk, TypeCalls
<1>4. CASE SendRejected(w)
  <2>1. TypeLoop'
    BY <1>4, CloseType DEF SendRejected, Forget, TypeLoop
  <2>2. TypeRows'
    BY <1>4, Store DEF SendRejected, SetTask, TaskStates, TypeRows
  <2>3. QED
    BY <1>4, <2>1, <2>2 DEF SendRejected, TypeCalls, TypeSeen
<1>5. CASE SendTransient(w)
  <2>1. TypeLoop'
    BY <1>5, CloseType DEF SendTransient, Forget, TypeLoop
  <2>2. QED
    BY <1>5, <2>1 DEF SendTransient, TypeRows, TypeCalls, TypeSeen
<1>6. CASE SendLost(w)
  <2>1. TypeLoop'
    BY <1>6, CloseType DEF SendLost, Forget, TypeLoop
  <2>2. TypeSeen'
    BY <1>6, Count, PipelineAssumption DEF SendLost, CanLose, Lose, TypeSeen
  <2>3. QED
    BY <1>6, <2>1, <2>2 DEF SendLost, TypeRows, TypeCalls
<1>7. CASE ClaimPoll(w)
  <2>1. PICK t \in Tasks : /\ Open(w, BatchOf[t], "polling")
                           /\ ctask' = [ctask EXCEPT ![w] = t]
    BY <1>7 DEF ClaimPoll, OldestTasks, Pollable
  <2>2. TypeLoop'
    BY <2>1, OpenType, PipelineAssumption DEF TypeLoop
  <2>3. QED
    BY <1>7, <2>2 DEF ClaimPoll, TypeRows, TypeCalls, TypeSeen
<1>8. CASE EndPoll(w)
  BY <1>8, NextQueueType DEF EndPoll, TypeRows, TypeCalls, TypeSeen
<1>9. ASSUME NEW s \in NatAnswers, PollOk(w, s) PROVE TypeOK'
  <2>1. TypeLoop'
    BY <1>9, CloseType DEF PollOk, Forget, TypeLoop
  <2>2. TypeRows'
    BY <1>9, Store DEF PollOk, SetTask, NatAnswers, TaskStates, TypeRows
  <2>3. QED
    BY <1>9, <2>1, <2>2 DEF PollOk, TypeCalls, TypeSeen
<1>10. CASE PollRejected(w)
  <2>1. TypeLoop'
    BY <1>10, CloseType DEF PollRejected, Forget, TypeLoop
  <2>2. TypeRows'
    BY <1>10, Store DEF PollRejected, SetTask, TaskStates, TypeRows
  <2>3. QED
    BY <1>10, <2>1, <2>2 DEF PollRejected, TypeCalls, TypeSeen
<1>11. CASE PollTransient(w)
  <2>1. TypeLoop'
    BY <1>11, CloseType DEF PollTransient, Forget, TypeLoop
  <2>2. QED
    BY <1>11, <2>1 DEF PollTransient, TypeRows, TypeCalls, TypeSeen
<1>12. QED
  BY <1>1, <1>2, <1>3, <1>4, <1>5, <1>6, <1>7, <1>8, <1>9, <1>10, <1>11 DEF StatusStep

LEMMA TypeNotify ==
  ASSUME TypeOK, NEW w \in NotifyWorkers, NotifyStep(w)
  PROVE  TypeOK'
<1> USE DEF TypeOK, rowVars, batchRest, quiet, seenVars
<1>1. CASE StopAllFailed(w)
  <2>1. TypeLoop'
    BY <1>1, CloseType DEF StopAllFailed, TypeLoop
  <2>2. TypeRows'
    BY <1>1, Store DEF StopAllFailed, Pause, TypeRows
  <2>3. QED
    BY <1>1, <2>1, <2>2 DEF StopAllFailed, TypeCalls, TypeSeen
<1>2. CASE EndStop(w)
  BY <1>2, NextQueueType DEF EndStop, TypeRows, TypeCalls, TypeSeen
<1>3. CASE StopSingleStage(w)
  <2>1. TypeLoop'
    BY <1>3, CloseType DEF StopSingleStage, TypeLoop
  <2>2. TypeRows'
    BY <1>3, Store DEF StopSingleStage, Pause, TypeRows
  <2>3. QED
    BY <1>3, <2>1, <2>2 DEF StopSingleStage, TypeCalls, TypeSeen
<1>4. CASE ClaimNotify(w)
  <2>1. PICK b \in Batches : Open(w, b, "notifying")
    BY <1>4 DEF ClaimNotify, OldestBatches, Notifiable
  <2>2. TypeLoop'
    BY <1>4, <2>1, OpenType DEF ClaimNotify, TypeLoop
  <2>3. QED
    BY <1>4, <2>2 DEF ClaimNotify, TypeRows, TypeCalls, TypeSeen
<1>5. CASE EndNotify(w)
  BY <1>5, NextQueueType DEF EndNotify, TypeRows, TypeCalls, TypeSeen
<1>6. CASE NotifyOk(w)
  <2>1. TypeLoop'
    BY <1>6, CloseType DEF NotifyOk, TypeLoop
  <2>2. TypeRows'
    BY <1>6, Store DEF NotifyOk, TypeRows
  <2>3. TypeSeen'
    BY <1>6, Count DEF NotifyOk, TypeSeen
  <2>4. QED
    BY <1>6, <2>1, <2>2, <2>3 DEF NotifyOk, TypeCalls
<1>7. CASE NotifyFailed(w)
  <2>1. TypeLoop'
    BY <1>7, CloseType DEF NotifyFailed, TypeLoop
  <2>2. QED
    BY <1>7, <2>1 DEF NotifyFailed, TypeRows, TypeCalls, TypeSeen
<1>8. CASE NotifyLost(w)
  <2>1. TypeLoop'
    BY <1>8, CloseType DEF NotifyLost, TypeLoop
  <2>2. TypeSeen'
    BY <1>8, Count, PipelineAssumption DEF NotifyLost, CanLose, Lose, TypeSeen
  <2>3. QED
    BY <1>8, <2>1, <2>2 DEF NotifyLost, TypeRows, TypeCalls
<1>9. QED
  BY <1>1, <1>2, <1>3, <1>4, <1>5, <1>6, <1>7, <1>8 DEF NotifyStep

LEMMA TypeAssomi ==
  ASSUME TypeOK, NEW w \in AssomiWorkers, AssomiStep(w)
  PROVE  TypeOK'
<1> USE DEF TypeOK, rowVars, quiet, seenVars
<1>1. CASE EnsureRead(w)
  <2>1. Enqueueable \in SUBSET Batches
    BY DEF Enqueueable
  <2>2. TypeLoop'
    BY <1>1, <2>1 DEF EnsureRead, TypeLoop
  <2>3. QED
    BY <1>1, <2>2 DEF EnsureRead, TypeRows, TypeCalls, TypeSeen
<1>2. CASE EnsureCommit(w)
  <2>1. TypeLoop'
    BY <1>2 DEF EnsureCommit, TypeLoop
  <2>2. Cardinality({b \in Batches : assomi[b] # "none"}) \in Nat
    BY EnqueuedCount
  <2>3. TypeRows'
    BY <1>2, <2>2 DEF EnsureCommit, AssomiStates, TypeRows
  <2>4. QED
    BY <1>2, <2>1, <2>3 DEF EnsureCommit, TypeCalls, TypeSeen
<1>3. CASE ClaimAssomi(w)
  <2>1. PICK b \in Batches : Open(w, b, "fetching")
    BY <1>3 DEF ClaimAssomi, OldestAssomi, AssomiClaimable
  <2>2. TypeLoop'
    BY <1>3, <2>1, OpenType DEF ClaimAssomi, TypeLoop
  <2>3. QED
    BY <1>3, <2>2 DEF ClaimAssomi, TypeRows, TypeCalls, TypeSeen
<1>4. CASE EndAssomi(w)
  BY <1>4, NextQueueType DEF EndAssomi, TypeRows, TypeCalls, TypeSeen
<1>5. CASE AssomiDone(w)
  <2>1. TypeLoop'
    BY <1>5, CloseType DEF AssomiDone, TypeLoop
  <2>2. assomi' \in [Batches -> AssomiStates]
    BY <1>5, Store DEF AssomiDone, AssomiStates, TypeRows
  <2>3. paused' \in [Batches -> BOOLEAN]
    <3>1. (paused[claim[w]] \/ single[claim[w]]) \in BOOLEAN
      OBVIOUS
    <3>2. QED
      BY <1>5, <3>1, Store DEF AssomiDone, TypeRows
  <2>4. QED
    BY <1>5, <2>1, <2>2, <2>3 DEF AssomiDone, TypeRows, TypeCalls, TypeSeen
<1>6. CASE AssomiTransient(w)
  <2>1. TypeLoop'
    BY <1>6, CloseType DEF AssomiTransient, TypeLoop
  <2>2. QED
    BY <1>6, <2>1 DEF AssomiTransient, TypeRows, TypeCalls, TypeSeen
<1>7. QED
  BY <1>1, <1>2, <1>3, <1>4, <1>5, <1>6 DEF AssomiStep

LEMMA MailedType ==
  ASSUME TypeSeen, NEW b, Mailed(b)
  PROVE  mails' \in [Batches -> Nat] /\ told' \in [Batches -> SUBSET Outcomes]
<1>1. Classify(b) \in Outcomes
  BY ClassifyType DEF Mailed
<1>2. CASE b \in Batches
  <2>1. told[b] \cup {Classify(b)} \in SUBSET Outcomes
    BY <1>1, <1>2 DEF TypeSeen
  <2>2. QED
    BY <2>1, Store, Count DEF Mailed, TypeSeen
<1>3. CASE b \notin Batches
  BY <1>3, Count DEF Mailed, TypeSeen
<1>4. QED
  BY <1>2, <1>3

LEMMA TypeMail ==
  ASSUME TypeOK, NEW w \in MailWorkers, MailStep(w)
  PROVE  TypeOK'
<1> USE DEF TypeOK, rowVars, quiet, seenVars
<1>1. CASE ClaimMail(w)
  <2>1. PICK b \in Batches : Open(w, b, "mailing")
    BY <1>1 DEF ClaimMail, OldestBatches, Mailable
  <2>2. TypeLoop'
    BY <1>1, <2>1, OpenType DEF ClaimMail, TypeLoop
  <2>3. QED
    BY <1>1, <2>2 DEF ClaimMail, TypeRows, TypeCalls, TypeSeen
<1>2. CASE EndMail(w)
  BY <1>2, NextQueueType DEF EndMail, TypeRows, TypeCalls, TypeSeen
<1>3. CASE MailOk(w)
  <2>1. TypeLoop'
    BY <1>3, CloseType DEF MailOk, TypeLoop
  <2>2. TypeRows'
    BY <1>3, Store DEF MailOk, TypeRows
  <2>3. TypeSeen'
    BY <1>3, MailedType DEF MailOk, TypeSeen
  <2>4. QED
    BY <1>3, <2>1, <2>2, <2>3 DEF MailOk, TypeCalls
<1>4. CASE MailNotSent(w)
  <2>1. TypeLoop'
    BY <1>4, CloseType DEF MailNotSent, TypeLoop
  <2>2. QED
    BY <1>4, <2>1 DEF MailNotSent, TypeRows, TypeCalls, TypeSeen
<1>5. CASE MailLost(w)
  <2>1. TypeLoop'
    BY <1>5, CloseType DEF MailLost, TypeLoop
  <2>2. TypeSeen'
    BY <1>5, MailedType, PipelineAssumption DEF MailLost, CanLose, Lose, TypeSeen
  <2>3. QED
    BY <1>5, <2>1, <2>2 DEF MailLost, TypeRows, TypeCalls
<1>6. QED
  BY <1>1, <1>2, <1>3, <1>4, <1>5 DEF MailStep

LEMMA TypeAbort ==
  ASSUME TypeOK, NEW w \in Workers, Abort(w)
  PROVE  TypeOK'
<1>1. TypeLoop'
  BY DEF TypeOK, TypeLoop, Abort, FirstQueue
<1>2. QED
  BY <1>1 DEF Abort, TypeOK, TypeRows, TypeCalls, TypeSeen, rowVars, quiet, seenVars

LEMMA TypeApi ==
  ASSUME TypeOK, ApiNext
  PROVE  TypeOK'
<1> USE DEF TypeOK, rowVars, batchRest, quiet, seenVars, loopVars
<1>1. ASSUME NEW b \in Batches, NEW s \in BOOLEAN, AcceptNat(b, s) PROVE TypeOK'
  <2>1. TypeRows'
    BY <1>1, Store DEF AcceptNat, TypeRows
  <2>2. QED
    BY <1>1, <2>1 DEF AcceptNat, TypeLoop, TypeCalls, TypeSeen
<1>2. ASSUME NEW b \in Batches, NEW s \in BOOLEAN, NEW r \in {"spin", "pending"},
             Upload(b, s, r)
      PROVE  /\ live' \in [Batches -> BOOLEAN] /\ asked' \in [Batches -> BOOLEAN]
             /\ single' \in [Batches -> BOOLEAN] /\ task' \in [Tasks -> TaskStates]
             /\ agg' \in [Batches -> AggStates]
             /\ UNCHANGED <<paused, notified, emailed, gpaused>>
             /\ TypeLoop' /\ TypeSeen'
  BY <1>2, Store DEF Upload, TypeRows, TypeLoop, TypeSeen, TaskStates, AggStates, AggEnds
<1>3. ASSUME NEW b \in Batches, NEW s \in BOOLEAN, AcceptAssomi(b, s) PROVE TypeOK'
  <2>1. Cardinality({c \in Batches : assomi[c] # "none"}) \in Nat
    BY EnqueuedCount
  <2>2. assomi' \in [Batches -> AssomiStates] /\ arank' \in [Batches -> Nat]
    BY <1>3, <2>1, Store DEF AcceptAssomi, TypeRows, AssomiStates
  <2>3. Upload(b, s, "spin") /\ TypeCalls'
    BY <1>3 DEF AcceptAssomi, Upload, TypeCalls
  <2>4. QED
    BY <1>2, <2>2, <2>3 DEF TypeRows
<1>4. ASSUME NEW b \in Batches, NEW s \in BOOLEAN, AcceptSpin(b, s) PROVE TypeOK'
  <2>1. TypeCalls'
    BY <1>4, Store DEF AcceptSpin, Upload, TypeCalls
  <2>2. QED
    BY <1>2, <1>4, <2>1 DEF AcceptSpin, TypeRows
<1>5. ASSUME NEW b \in Batches, SpinStep(b) PROVE TypeOK'
  <2>1. TypeCalls'
    BY <1>5, Store DEF SpinStep, SpinCallOk, SpinCallFailed, SpinCallLost, SpinMark,
       SpinMarkLost, spinRest, TypeCalls
  <2>2. TypeSeen'
    <3>1. CASE SpinCallOk(b)
      BY <3>1, Count DEF SpinCallOk, SpinStarted, TypeSeen
    <3>2. CASE SpinCallFailed(b) \/ SpinMark(b)
      BY <3>2 DEF SpinCallFailed, SpinMark, TypeSeen
    <3>3. CASE SpinCallLost(b)
      BY <3>3, Count, PipelineAssumption DEF SpinCallLost, SpinStarted, CanLose, Lose, TypeSeen
    <3>4. CASE SpinMarkLost(b)
      BY <3>4, PipelineAssumption DEF SpinMarkLost, CanLose, Lose, TypeSeen
    <3>5. QED
      BY <1>5, <3>1, <3>2, <3>3, <3>4 DEF SpinStep
  <2>3. CASE SpinMark(b)
    <3>1. (paused[b] \/ asked[b]) \in BOOLEAN
      OBVIOUS
    <3>2. notified' \in [Batches -> BOOLEAN] /\ paused' \in [Batches -> BOOLEAN]
      BY <2>3, <3>1, Store DEF SpinMark, TypeRows
    <3>3. QED
      BY <2>1, <2>2, <2>3, <3>2 DEF SpinMark, TypeRows, TypeLoop
  <2>4. CASE ~SpinMark(b)
    BY <1>5, <2>1, <2>2, <2>4 DEF SpinStep, SpinCallOk, SpinCallFailed, SpinCallLost,
       SpinMarkLost, spinRest, TypeRows, TypeLoop
  <2>5. QED
    BY <2>3, <2>4
<1>6. ASSUME NEW r \in Requests, NEW b \in Batches, NEW v \in BOOLEAN, PauseCheck(r, b, v)
      PROVE  TypeOK'
  <2>1. TypeCalls'
    BY <1>6, Store DEF PauseCheck, TypeCalls
  <2>2. QED
    BY <1>6, <2>1 DEF PauseCheck, TypeRows, TypeLoop, TypeSeen
<1>7. ASSUME NEW r \in Requests, PauseApply(r) PROVE TypeOK'
  <2>1. TypeCalls'
    BY <1>7, Store DEF PauseApply, NoRequest, TypeCalls
  <2>2. apiReq[r].paused \in BOOLEAN
    BY DEF TypeCalls
  <2>3. (single[apiReq[r].batch] /\ apiReq[r].paused) \in BOOLEAN
    OBVIOUS
  <2>4. TypeRows'
    BY <1>7, <2>2, <2>3, Store DEF PauseApply, TypeRows
  <2>5. QED
    BY <1>7, <2>1, <2>4 DEF PauseApply, TypeLoop, TypeSeen
<1>8. ASSUME NEW v \in BOOLEAN, GlobalPause(v) PROVE TypeOK'
  BY <1>8 DEF GlobalPause, TypeRows, TypeLoop, TypeCalls, TypeSeen
<1>9. QED
  BY <1>1, <1>3, <1>4, <1>5, <1>6, <1>7, <1>8 DEF ApiNext

LEMMA TypeAgg ==
  ASSUME TypeOK, NEW b \in Batches, AggCreate(b) \/ AggFinish(b)
  PROVE  TypeOK'
<1> USE DEF TypeOK, quiet, seenVars, loopVars, AggCreate, AggFinish
<1>1. agg' \in [Batches -> AggStates]
  BY Store, PipelineAssumption DEF TypeRows, AggStates
<1>2. QED
  BY <1>1 DEF TypeRows, TypeLoop, TypeCalls, TypeSeen

LEMMA TypeStep == TypeOK /\ [Next]_vars => TypeOK'
<1> SUFFICES ASSUME TypeOK, [Next]_vars PROVE TypeOK'
  OBVIOUS
<1>1. CASE WorkerNext
  BY <1>1, TypeStatus, TypeNotify, TypeAssomi, TypeMail, TypeAbort DEF WorkerNext, WorkerStep
<1>2. CASE ApiNext
  BY <1>2, TypeApi
<1>3. CASE AggNext
  BY <1>3, TypeAgg DEF AggNext
<1>4. CASE UNCHANGED vars
  BY <1>4 DEF vars, rowVars, loopVars, seenVars, TypeOK, TypeRows, TypeLoop, TypeCalls, TypeSeen
<1>5. QED
  BY <1>1, <1>2, <1>3, <1>4 DEF Next

\* Type correctness: every row, loop variable, request and count stays within
\* what the schema and the workers' code define, for any number of batches,
\* tasks, replicas and requests.
THEOREM TypeCorrect == Spec => []TypeOK
<1>1. QED
  BY TypeInit, TypeStep, PTL DEF Spec

-----------------------------------------------------------------------------
(* Who may be where.                                                       *)


\* A worker has one role, and its program points are those of the role's loop.
LEMMA Roles ==
  /\ \A w \in StatusWorkers : w \in Workers /\ Places(w) = {"dispatch", "sending", "poll", "polling"}
  /\ \A w \in NotifyWorkers : w \in Workers /\ Places(w) = {"stop", "notify", "notifying"}
  /\ \A w \in AssomiWorkers : w \in Workers /\ Places(w) = {"ensure", "ensuring", "process", "fetching"}
  /\ \A w \in MailWorkers : w \in Workers /\ Places(w) = {"mail", "mailing"}
BY PipelineAssumption DEF Workers, Places

LEMMA FirstPlace == \A w \in Workers : FirstQueue(w) \in Places(w) \ Calling
BY DEF FirstQueue, Places, Calling

-----------------------------------------------------------------------------
(* Row locks: who holds what.                                              *)

LEMMA HoldOpen ==
  ASSUME TypeLoop, Holding, NEW w \in Workers, NEW b \in Batches,
         NEW at \in Calling, at \in Places(w), ~Locked(b), Open(w, b, at),
         \/ at \notin {"sending", "polling"} /\ UNCHANGED ctask
         \/ \E t \in Tasks : BatchOf[t] = b /\ ctask' = [ctask EXCEPT ![w] = t]
  PROVE  Holding'
<1>1. /\ pc'[w] = at /\ claim'[w] = b /\ b # NoBatch
      /\ \A v \in Workers \ {w} : pc'[v] = pc[v] /\ claim'[v] = claim[v] /\ ctask'[v] = ctask[v]
      /\ at \in {"sending", "polling"} => ctask'[w] \in Tasks /\ BatchOf[ctask'[w]] = b
  BY PipelineAssumption DEF Open, TypeLoop
<1>2. \A v \in Workers : claim[v] # b
  BY DEF Locked
<1>3. QED
  BY <1>1, <1>2 DEF Holding, Places

LEMMA HoldClose ==
  ASSUME TypeLoop, Holding, NEW w \in Workers, NEW at \in Places(w) \ Calling,
         pc' = [pc EXCEPT ![w] = at],
         claim' = [claim EXCEPT ![w] = NoBatch],
         UNCHANGED ctask \/ ctask' = [ctask EXCEPT ![w] = NoTask]
  PROVE  Holding'
<1>1. /\ pc'[w] = at /\ claim'[w] = NoBatch /\ at \notin {"sending", "polling"}
      /\ \A v \in Workers \ {w} : pc'[v] = pc[v] /\ claim'[v] = claim[v] /\ ctask'[v] = ctask[v]
  BY DEF TypeLoop, Calling
<1>2. QED
  BY <1>1 DEF Holding, Places

LEMMA HoldMove ==
  ASSUME TypeLoop, Holding, NEW w \in Workers, NEW at \in Places(w) \ Calling,
         pc[w] \notin Calling, pc' = [pc EXCEPT ![w] = at], UNCHANGED <<claim, ctask>>
  PROVE  Holding'
<1>1. /\ pc'[w] = at /\ claim'[w] = NoBatch /\ at \notin {"sending", "polling"}
      /\ \A v \in Workers \ {w} : pc'[v] = pc[v] /\ claim'[v] = claim[v] /\ ctask'[v] = ctask[v]
  BY DEF TypeLoop, Calling, Holding
<1>2. QED
  BY <1>1 DEF Holding, Places

LEMMA HoldingInit == Init => Holding
BY FirstPlace DEF Init, Holding, Calling

LEMMA HoldingStep ==
  ASSUME TypeOK, Holding, [Next]_vars
  PROVE  Holding'
<1> USE DEF TypeOK
<1>1. ASSUME NEW w \in StatusWorkers, StatusStep(w) PROVE Holding'
  <2> w \in Workers /\ Places(w) = {"dispatch", "sending", "poll", "polling"}
    BY Roles
  <2>1. CASE ClaimDispatch(w)
    <3>1. PICK t \in Dispatchable : Open(w, BatchOf[t], "sending") /\ ctask' = [ctask EXCEPT ![w] = t]
      BY <2>1 DEF ClaimDispatch, OldestTasks
    <3>2. t \in Tasks /\ BatchOf[t] \in Batches /\ ~Locked(BatchOf[t])
      BY PipelineAssumption DEF Dispatchable
    <3>3. QED
      BY <3>1, <3>2, HoldOpen DEF Calling
  <2>2. CASE ClaimPoll(w)
    <3>1. PICK t \in Pollable : Open(w, BatchOf[t], "polling") /\ ctask' = [ctask EXCEPT ![w] = t]
      BY <2>2 DEF ClaimPoll, OldestTasks
    <3>2. t \in Tasks /\ BatchOf[t] \in Batches /\ ~Locked(BatchOf[t])
      BY PipelineAssumption DEF Pollable
    <3>3. QED
      BY <3>1, <3>2, HoldOpen DEF Calling
  <2>3. CASE EndDispatch(w) \/ EndPoll(w)
    BY <2>3, HoldMove DEF EndDispatch, EndPoll, NextQueue, Calling
  <2>4. CASE SendOk(w) \/ SendRejected(w) \/ SendTransient(w) \/ SendLost(w)
    BY <2>4, HoldClose DEF SendOk, SendRejected, SendTransient, SendLost, Close, Forget, Calling
  <2>5. CASE (\E s \in NatAnswers : PollOk(w, s)) \/ PollRejected(w) \/ PollTransient(w)
    BY <2>5, HoldClose DEF PollOk, PollRejected, PollTransient, Close, Forget, Calling
  <2>6. QED
    BY <1>1, <2>1, <2>2, <2>3, <2>4, <2>5 DEF StatusStep
<1>2. ASSUME NEW w \in NotifyWorkers, NotifyStep(w) PROVE Holding'
  <2> w \in Workers /\ Places(w) = {"stop", "notify", "notifying"}
    BY Roles
  <2>1. CASE ClaimNotify(w)
    <3>1. PICK b \in Notifiable : Open(w, b, "notifying")
      BY <2>1 DEF ClaimNotify, OldestBatches
    <3>2. b \in Batches /\ ~Locked(b) /\ UNCHANGED ctask
      BY <2>1 DEF ClaimNotify, Notifiable
    <3>3. QED
      BY <3>1, <3>2, HoldOpen DEF Calling
  <2>2. CASE EndStop(w) \/ EndNotify(w)
    BY <2>2, HoldMove DEF EndStop, EndNotify, NextQueue, Calling
  <2>3. CASE StopAllFailed(w) \/ StopSingleStage(w)
    BY <2>3, HoldClose DEF StopAllFailed, StopSingleStage, Close, Calling
  <2>4. CASE NotifyOk(w) \/ NotifyFailed(w) \/ NotifyLost(w)
    BY <2>4, HoldClose DEF NotifyOk, NotifyFailed, NotifyLost, Close, Calling
  <2>5. QED
    BY <1>2, <2>1, <2>2, <2>3, <2>4 DEF NotifyStep
<1>3. ASSUME NEW w \in AssomiWorkers, AssomiStep(w) PROVE Holding'
  <2> w \in Workers /\ Places(w) = {"ensure", "ensuring", "process", "fetching"}
    BY Roles
  <2>1. CASE ClaimAssomi(w)
    <3>1. PICK b \in AssomiClaimable : Open(w, b, "fetching")
      BY <2>1 DEF ClaimAssomi, OldestAssomi
    <3>2. b \in Batches /\ ~Locked(b) /\ UNCHANGED ctask
      BY <2>1 DEF ClaimAssomi, AssomiClaimable
    <3>3. QED
      BY <3>1, <3>2, HoldOpen DEF Calling
  <2>2. CASE EnsureRead(w) \/ EnsureCommit(w) \/ EndAssomi(w)
    BY <2>2, HoldMove DEF EnsureRead, EnsureCommit, EndAssomi, NextQueue, Calling
  <2>3. CASE AssomiDone(w) \/ AssomiTransient(w)
    BY <2>3, HoldClose DEF AssomiDone, AssomiTransient, Close, Calling
  <2>4. QED
    BY <1>3, <2>1, <2>2, <2>3 DEF AssomiStep
<1>4. ASSUME NEW w \in MailWorkers, MailStep(w) PROVE Holding'
  <2> w \in Workers /\ Places(w) = {"mail", "mailing"}
    BY Roles
  <2>1. CASE ClaimMail(w)
    <3>1. PICK b \in Mailable : Open(w, b, "mailing")
      BY <2>1 DEF ClaimMail, OldestBatches
    <3>2. b \in Batches /\ ~Locked(b) /\ UNCHANGED ctask
      BY <2>1 DEF ClaimMail, Mailable
    <3>3. QED
      BY <3>1, <3>2, HoldOpen DEF Calling
  <2>2. CASE EndMail(w)
    BY <2>2, HoldMove DEF EndMail, NextQueue, Calling
  <2>3. CASE MailOk(w) \/ MailNotSent(w) \/ MailLost(w)
    BY <2>3, HoldClose DEF MailOk, MailNotSent, MailLost, Close, Calling
  <2>4. QED
    BY <1>4, <2>1, <2>2, <2>3 DEF MailStep
<1>5. ASSUME NEW w \in Workers, Abort(w) PROVE Holding'
  BY <1>5, FirstPlace, HoldClose DEF Abort
<1>6. CASE UNCHANGED <<pc, claim, ctask>>
  BY <1>6 DEF Holding
<1>7. CASE ApiNext
  BY <1>7, <1>6 DEF ApiNext, AcceptNat, AcceptAssomi, AcceptSpin, Upload, SpinStep, SpinCallOk,
     SpinCallFailed, SpinCallLost, SpinMark, SpinMarkLost, spinRest, PauseCheck, PauseApply,
     GlobalPause, loopVars
<1>8. CASE AggNext
  BY <1>8, <1>6 DEF AggNext, AggCreate, AggFinish, loopVars
<1>9. CASE UNCHANGED vars
  BY <1>9, <1>6 DEF vars, loopVars
<1>10. QED
  BY <1>1, <1>2, <1>3, <1>4, <1>5, <1>7, <1>8, <1>9 DEF Next, WorkerNext, WorkerStep

\* Row locks exclude: no two workers ever hold the same batch, and a worker
\* holds one exactly while it calls out for it.
THEOREM RowLocks == Spec => []Holding
<1>1. TypeOK /\ Holding /\ [Next]_vars => Holding'
  BY HoldingStep
<1>2. QED
  BY TypeCorrect, HoldingInit, <1>1, PTL DEF Spec
-----------------------------------------------------------------------------
(* What the row locks protect.                                             *)

\* The flags and tasks of a batch, as the claims read them.
FlagsKept(b) == /\ paused'[b] = paused[b] /\ single'[b] = single[b]
                /\ notified'[b] = notified[b] /\ emailed'[b] = emailed[b]
TasksKept(b) == \A t \in TasksOf(b) : task'[t] = task[t]

\* An assomi_tasks row is inserted by the enqueueing of a live batch, or left.
AssomiKept(b) == assomi'[b] = assomi[b] \/ (assomi[b] = "none" /\ assomi'[b] = "pending"
                                            /\ \E w \in Workers : b \in enq[w])

\* The rows of a batch are touched by nobody else while a worker holds them.
LEMMA LockProtects ==
  ASSUME TypeOK, Holding, Fresh, [Next]_vars,
         NEW v \in Workers, claim[v] # NoBatch, pc'[v] = pc[v]
  PROVE  /\ FlagsKept(claim[v]) /\ TasksKept(claim[v]) /\ AssomiKept(claim[v])
         /\ claim'[v] = claim[v] /\ ctask'[v] = ctask[v]
<1> DEFINE b == claim[v]
           Goal == /\ FlagsKept(b) /\ TasksKept(b) /\ AssomiKept(b)
                   /\ claim'[v] = b /\ ctask'[v] = ctask[v]
<1> USE DEF TypeOK
<1> b \in Batches /\ live[b] /\ Locked(b) /\ pc[v] \in Calling
  BY DEF TypeLoop, Fresh, Locked, Holding
<1>1. \A w \in Workers : w # v => claim[w] # b
  BY DEF Holding
<1>2. ASSUME NEW w \in Workers, w # v, pc[w] \in {"sending", "polling"}
      PROVE  ctask[w] \in Tasks /\ BatchOf[ctask[w]] # b
  BY <1>1, <1>2 DEF Holding
<1>3. CASE UNCHANGED <<paused, single, notified, emailed, task, assomi, claim, ctask>>
  BY <1>3 DEF FlagsKept, TasksKept, AssomiKept
<1>4. ASSUME NEW w \in StatusWorkers, StatusStep(w) PROVE Goal
  <2> w \in Workers /\ Places(w) = {"dispatch", "sending", "poll", "polling"}
    BY Roles
  <2>1. w # v
    BY <1>4 DEF StatusStep, ClaimDispatch, EndDispatch, SendOk, SendRejected, SendTransient,
       SendLost, ClaimPoll, EndPoll, PollOk, PollRejected, PollTransient, Open, Close, NextQueue,
       TypeLoop, Calling
  <2>2. UNCHANGED <<paused, single, notified, emailed, assomi>>
    BY <1>4 DEF StatusStep, ClaimDispatch, EndDispatch, SendOk, SendRejected, SendTransient,
       SendLost, ClaimPoll, EndPoll, PollOk, PollRejected, PollTransient, rowVars, taskRest
  <2>3. claim'[v] = b /\ ctask'[v] = ctask[v]
    BY <1>4, <2>1 DEF StatusStep, ClaimDispatch, EndDispatch, SendOk, SendRejected, SendTransient,
       SendLost, ClaimPoll, EndPoll, PollOk, PollRejected, PollTransient, Open, Close, NextQueue,
       Forget, TypeLoop
  <2>4. task' = task \/ (pc[w] \in {"sending", "polling"} /\ \E s : SetTask(w, s))
    BY <1>4 DEF StatusStep, ClaimDispatch, EndDispatch, SendOk, SendRejected, SendTransient,
       SendLost, ClaimPoll, EndPoll, PollOk, PollRejected, PollTransient, rowVars
  <2>5. TasksKept(b)
    BY <1>2, <2>1, <2>4 DEF TasksKept, TasksOf, SetTask, TypeRows
  <2>6. QED
    BY <2>2, <2>3, <2>5 DEF FlagsKept, AssomiKept
<1>5. ASSUME NEW w \in NotifyWorkers, NotifyStep(w) PROVE Goal
  <2> w \in Workers /\ Places(w) = {"stop", "notify", "notifying"}
    BY Roles
  <2>1. w # v
    BY <1>5 DEF NotifyStep, StopAllFailed, EndStop, StopSingleStage, ClaimNotify, EndNotify,
       NotifyOk, NotifyFailed, NotifyLost, Open, Close, NextQueue, TypeLoop, Calling
  <2>2. UNCHANGED <<single, emailed, task, assomi, ctask>>
    BY <1>5 DEF NotifyStep, StopAllFailed, EndStop, StopSingleStage, ClaimNotify, EndNotify,
       NotifyOk, NotifyFailed, NotifyLost, Pause, NextQueue, rowVars, batchRest
  <2>3. claim'[v] = b
    BY <1>5, <2>1 DEF NotifyStep, StopAllFailed, EndStop, StopSingleStage, ClaimNotify, EndNotify,
       NotifyOk, NotifyFailed, NotifyLost, Open, Close, NextQueue, TypeLoop
  <2>4. paused' = paused \/ (\E c \in Batches : ~Locked(c) /\ Pause(c))
    BY <1>5 DEF NotifyStep, StopAllFailed, EndStop, StopSingleStage, ClaimNotify, EndNotify,
       NotifyOk, NotifyFailed, NotifyLost, rowVars, OldestBatches, AllFailedSingleStage, Notifiable
  <2>5. paused'[b] = paused[b]
    BY <2>4 DEF Pause, TypeRows
  <2>6. notified'[b] = notified[b]
    BY <1>1, <1>5, <2>1 DEF NotifyStep, StopAllFailed, EndStop, StopSingleStage, ClaimNotify,
       EndNotify, NotifyOk, NotifyFailed, NotifyLost, rowVars, TypeRows
  <2>7. QED
    BY <2>2, <2>3, <2>5, <2>6 DEF FlagsKept, TasksKept, AssomiKept
<1>6. ASSUME NEW w \in AssomiWorkers, AssomiStep(w) PROVE Goal
  <2> w \in Workers /\ Places(w) = {"ensure", "ensuring", "process", "fetching"}
    BY Roles
  <2>1. w # v
    BY <1>6 DEF AssomiStep, EnsureRead, EnsureCommit, ClaimAssomi, EndAssomi, AssomiDone,
       AssomiTransient, Open, Close, NextQueue, TypeLoop, Calling
  <2>2. UNCHANGED <<single, notified, emailed, task, ctask>>
    BY <1>6 DEF AssomiStep, EnsureRead, EnsureCommit, ClaimAssomi, EndAssomi, AssomiDone,
       AssomiTransient, NextQueue, rowVars
  <2>3. claim'[v] = b
    BY <1>6, <2>1 DEF AssomiStep, EnsureRead, EnsureCommit, ClaimAssomi, EndAssomi, AssomiDone,
       AssomiTransient, Open, Close, NextQueue, TypeLoop
  <2>4. paused'[b] = paused[b]
    BY <1>1, <1>6, <2>1 DEF AssomiStep, EnsureRead, EnsureCommit, ClaimAssomi, EndAssomi,
       AssomiDone, AssomiTransient, rowVars, TypeRows
  <2>5. AssomiKept(b)
    BY <1>1, <1>6, <2>1 DEF AssomiStep, EnsureRead, EnsureCommit, ClaimAssomi, EndAssomi,
       AssomiDone, AssomiTransient, rowVars, TypeRows, AssomiKept
  <2>6. QED
    BY <2>2, <2>3, <2>4, <2>5 DEF FlagsKept, TasksKept
<1>7. ASSUME NEW w \in MailWorkers, MailStep(w) PROVE Goal
  <2> w \in Workers /\ Places(w) = {"mail", "mailing"}
    BY Roles
  <2>1. w # v
    BY <1>7 DEF MailStep, ClaimMail, EndMail, MailOk, MailNotSent, MailLost, Open, Close,
       NextQueue, TypeLoop, Calling
  <2>2. UNCHANGED <<paused, single, notified, task, assomi, ctask>>
    BY <1>7 DEF MailStep, ClaimMail, EndMail, MailOk, MailNotSent, MailLost, NextQueue, rowVars
  <2>3. claim'[v] = b /\ emailed'[b] = emailed[b]
    BY <1>1, <1>7, <2>1 DEF MailStep, ClaimMail, EndMail, MailOk, MailNotSent, MailLost, Open,
       Close, NextQueue, rowVars, TypeLoop, TypeRows
  <2>4. QED
    BY <2>2, <2>3 DEF FlagsKept, TasksKept, AssomiKept
<1>8. ASSUME NEW w \in Workers, Abort(w) PROVE Goal
  <2>1. w # v
    BY <1>8, FirstPlace DEF Abort, TypeLoop
  <2>2. claim'[v] = b /\ ctask'[v] = ctask[v]
    BY <1>8, <2>1 DEF Abort, TypeLoop
  <2>3. QED
    BY <1>8, <2>2 DEF Abort, rowVars, FlagsKept, TasksKept, AssomiKept
<1>9. CASE ApiNext
  <2>1. UNCHANGED <<claim, ctask>>
    BY <1>9 DEF ApiNext, AcceptNat, AcceptAssomi, AcceptSpin, Upload, SpinStep, SpinCallOk,
       SpinCallFailed, SpinCallLost, SpinMark, SpinMarkLost, spinRest, PauseCheck, PauseApply,
       GlobalPause, loopVars
  <2>2. ASSUME NEW c \in Batches, NEW s \in BOOLEAN,
               AcceptNat(c, s) \/ AcceptAssomi(c, s) \/ AcceptSpin(c, s)
        PROVE  Goal
    <3>1. c # b
      BY <2>2 DEF AcceptNat, AcceptAssomi, AcceptSpin, Upload
    <3>2. FlagsKept(b)
      <4>1. /\ UNCHANGED <<paused, notified, emailed>>
            /\ \E s2 : single' = [single EXCEPT ![c] = s2]
        BY <2>2 DEF AcceptNat, AcceptAssomi, AcceptSpin, Upload
      <4>2. QED
        BY <3>1, <4>1 DEF FlagsKept, TypeRows
    <3>3. TasksKept(b)
      BY <2>2, <3>1 DEF AcceptNat, AcceptAssomi, AcceptSpin, Upload, TasksKept, TasksOf
    <3>4. AssomiKept(b)
      BY <2>2, <3>1 DEF AcceptNat, AcceptAssomi, AcceptSpin, AssomiKept, TypeRows
    <3>5. QED
      BY <2>1, <3>2, <3>3, <3>4
  <2>3. ASSUME NEW c \in Batches, SpinStep(c) PROVE Goal
    <3>1. FlagsKept(b)
      <4>1. CASE SpinMark(c)
        <5>1. c # b
          BY <4>1 DEF SpinMark
        <5>2. QED
          BY <4>1, <5>1 DEF SpinMark, FlagsKept, TypeRows
      <4>2. CASE ~SpinMark(c)
        BY <2>3, <4>2 DEF SpinStep, SpinCallOk, SpinCallFailed, SpinCallLost, SpinMarkLost,
           spinRest, rowVars, FlagsKept
      <4>3. QED
        BY <4>1, <4>2
    <3>2. UNCHANGED <<task, assomi>>
      BY <2>3 DEF SpinStep, SpinCallOk, SpinCallFailed, SpinCallLost, SpinMark, SpinMarkLost,
         spinRest, rowVars
    <3>3. QED
      BY <2>1, <3>1, <3>2 DEF TasksKept, AssomiKept
  <2>4. ASSUME NEW r \in Requests, PauseApply(r) PROVE Goal
    <3>1. apiReq[r].batch # b
      BY <2>4 DEF PauseApply
    <3>2. QED
      BY <2>1, <2>4, <3>1 DEF PauseApply, batchRest, FlagsKept, TasksKept, AssomiKept, TypeRows
  <2>5. ASSUME NEW r \in Requests, NEW c \in Batches, NEW p \in BOOLEAN, PauseCheck(r, c, p)
        PROVE  Goal
    BY <2>5, <1>3 DEF PauseCheck, rowVars, loopVars
  <2>6. ASSUME NEW p \in BOOLEAN, GlobalPause(p) PROVE Goal
    BY <2>6, <1>3 DEF GlobalPause, loopVars
  <2>7. QED
    BY <1>9, <2>2, <2>3, <2>4, <2>5, <2>6 DEF ApiNext
<1>10. CASE AggNext
  BY <1>10, <1>3 DEF AggNext, AggCreate, AggFinish, loopVars
<1>11. CASE UNCHANGED vars
  BY <1>11, <1>3 DEF vars, rowVars, loopVars
<1>12. QED
  BY <1>4, <1>5, <1>6, <1>7, <1>8, <1>9, <1>10, <1>11 DEF Next, WorkerNext, WorkerStep

-----------------------------------------------------------------------------
(* Each process writes only what is its own.                               *)

LEMMA StatusWrites ==
  ASSUME NEW w \in StatusWorkers, StatusStep(w)
  PROVE  /\ UNCHANGED <<taskRest, quiet, enq, notices, mails, told>>
         /\ \/ UNCHANGED <<task, sends, faults>>
            \/ SendOk(w) \/ SendRejected(w) \/ SendLost(w)
            \/ (\E s \in NatAnswers : PollOk(w, s)) \/ PollRejected(w)
BY DEF StatusStep, ClaimDispatch, EndDispatch, SendOk, SendRejected, SendTransient, SendLost,
   ClaimPoll, EndPoll, PollOk, PollRejected, PollTransient, Open, Close, NextQueue, rowVars,
   taskRest, quiet, seenVars

LEMMA NotifyWrites ==
  ASSUME NEW w \in NotifyWorkers, NotifyStep(w)
  PROVE  /\ UNCHANGED <<batchRest, single, quiet, enq, sends, mails, told>>
         /\ \/ UNCHANGED <<paused, notified, notices, faults>>
            \/ (\E b \in Batches : Pause(b)) /\ UNCHANGED <<notified, notices, faults>>
            \/ NotifyOk(w) \/ NotifyLost(w)
BY DEF NotifyStep, StopAllFailed, EndStop, StopSingleStage, ClaimNotify, EndNotify, NotifyOk,
   NotifyFailed, NotifyLost, Open, Close, NextQueue, Pause, rowVars, batchRest, quiet, seenVars,
   OldestBatches, AllFailedSingleStage, Notifiable

LEMMA AssomiWrites ==
  ASSUME NEW w \in AssomiWorkers, AssomiStep(w)
  PROVE  /\ UNCHANGED <<live, asked, single, notified, emailed, task, agg, gpaused, quiet, seenVars>>
         /\ UNCHANGED <<paused, assomi>> \/ EnsureCommit(w) \/ AssomiDone(w)
         /\ UNCHANGED enq \/ EnsureRead(w) \/ EnsureCommit(w)
BY DEF AssomiStep, EnsureRead, EnsureCommit, ClaimAssomi, EndAssomi, AssomiDone, AssomiTransient,
   Open, Close, NextQueue, rowVars, quiet, seenVars

LEMMA MailWrites ==
  ASSUME NEW w \in MailWorkers, MailStep(w)
  PROVE  /\ UNCHANGED <<live, asked, paused, single, notified, task, agg, assomi, arank, gpaused,
                        quiet, enq, sends, notices>>
         /\ UNCHANGED <<emailed, mails, told, faults>> \/ MailOk(w) \/ MailLost(w)
BY DEF MailStep, ClaimMail, EndMail, MailOk, MailNotSent, MailLost, Open, Close, NextQueue,
   rowVars, quiet, seenVars

LEMMA AbortWrites ==
  ASSUME NEW w \in Workers, Abort(w)
  PROVE  /\ UNCHANGED <<rowVars, quiet, seenVars>>
         /\ enq' = [enq EXCEPT ![w] = {}]
BY DEF Abort

\* An upload writes its own batch, which nobody has seen, and nothing else.
LEMMA AcceptWrites ==
  ASSUME TypeOK, NEW b \in Batches, NEW s \in BOOLEAN,
         AcceptNat(b, s) \/ AcceptAssomi(b, s) \/ AcceptSpin(b, s)
  PROVE  /\ UNCHANGED <<paused, notified, emailed, gpaused, apiReq, loopVars, seenVars>>
         /\ ~live[b] /\ live'[b] /\ single'[b] = s
         /\ \A c \in Batches \ {b} :
              /\ live'[c] = live[c] /\ single'[c] = single[c]
              /\ agg'[c] = agg[c] /\ assomi'[c] = assomi[c] /\ spinReq'[c] = spinReq[c]
         /\ \A t \in Tasks : BatchOf[t] # b \/ Source[b] = "nat" => task'[t] = task[t]
         /\ Source[b] = "nat" =>
              agg'[b] = agg[b] /\ assomi'[b] = assomi[b] /\ spinReq'[b] = spinReq[b]
         /\ Source[b] = "manual_assomi" =>
              agg'[b] = "spin" /\ assomi'[b] = "pending" /\ spinReq'[b] = spinReq[b]
         /\ Source[b] = "manual_spin" =>
              agg'[b] = "pending" /\ assomi'[b] = assomi[b] /\ spinReq'[b] = "calling"
<1>1. CASE AcceptNat(b, s)
  BY <1>1 DEF AcceptNat, TypeOK, TypeRows, quiet
<1>2. CASE AcceptAssomi(b, s)
  BY <1>2 DEF AcceptAssomi, Upload, TypeOK, TypeRows
<1>3. CASE AcceptSpin(b, s)
  BY <1>3 DEF AcceptSpin, Upload, TypeOK, TypeRows, TypeCalls
<1>4. QED
  BY <1>1, <1>2, <1>3

LEMMA SpinWrites ==
  ASSUME NEW b \in Batches, SpinStep(b)
  PROVE  /\ UNCHANGED <<live, asked, single, emailed, task, agg, assomi, arank, gpaused, apiReq,
                        loopVars, sends, mails, told>>
         /\ UNCHANGED <<paused, notified>> \/ SpinMark(b)
BY DEF SpinStep, SpinCallOk, SpinCallFailed, SpinCallLost, SpinMark, SpinMarkLost, SpinStarted,
   spinRest, rowVars, seenVars, loopVars

LEMMA AggWrites ==
  ASSUME NEW b \in Batches, AggCreate(b) \/ AggFinish(b)
  PROVE  UNCHANGED <<live, asked, paused, single, notified, emailed, task, assomi, arank, gpaused,
                     quiet, loopVars, seenVars>>
BY DEF AggCreate, AggFinish

\* The pause API: checks write no row, an update writes two flags of one row.
LEMMA PauseWrites ==
  ASSUME NEW r \in Requests, PauseApply(r) \/ \E b \in Batches, p \in BOOLEAN : PauseCheck(r, b, p)
  PROVE  /\ UNCHANGED <<batchRest, notified, spinReq, loopVars, seenVars>>
         /\ UNCHANGED <<paused, single>> \/ PauseApply(r)
BY DEF PauseApply, PauseCheck, rowVars, batchRest

LEMMA GlobalWrites ==
  ASSUME NEW p \in BOOLEAN, GlobalPause(p)
  PROVE  UNCHANGED <<live, asked, paused, single, notified, emailed, task, agg, assomi, arank,
                     quiet, loopVars, seenVars>>
BY DEF GlobalPause

-----------------------------------------------------------------------------
(* Nothing happens to a batch before its upload has committed.             *)

LEMMA FreshInit == Init => Fresh
BY DEF Init, Fresh, TasksOf

\* Uploads are never taken back, and claims and enqueueing select live batches.
LEMMA LiveStays ==
  ASSUME TypeOK, [Next]_vars
  PROVE  \A b \in Batches : live[b] => live'[b]
<1>1. CASE UNCHANGED live
  BY <1>1
<1>2. ASSUME NEW b \in Batches, NEW s \in BOOLEAN,
             AcceptNat(b, s) \/ AcceptAssomi(b, s) \/ AcceptSpin(b, s)
      PROVE  \A c \in Batches : live[c] => live'[c]
  BY <1>2, AcceptWrites
<1>3. ASSUME ~(\E b \in Batches, s \in BOOLEAN : AcceptNat(b, s) \/ AcceptAssomi(b, s) \/ AcceptSpin(b, s))
      PROVE  UNCHANGED live
  <2>1. CASE WorkerNext
    BY <2>1, StatusWrites, NotifyWrites, AssomiWrites, MailWrites, AbortWrites
    DEF WorkerNext, WorkerStep, taskRest, batchRest, rowVars
  <2>2. CASE ApiNext
    BY <1>3, <2>2, SpinWrites, PauseWrites, GlobalWrites DEF ApiNext, batchRest
  <2>3. CASE AggNext
    BY <2>3, AggWrites DEF AggNext
  <2>4. CASE UNCHANGED vars
    BY <2>4 DEF vars, rowVars
  <2>5. QED
    BY <2>1, <2>2, <2>3, <2>4 DEF Next
<1>4. QED
  BY <1>1, <1>2, <1>3

\* A worker that begins an outside call has just claimed the rows for it.
LEMMA Claims ==
  ASSUME TypeOK, Holding, [Next]_vars, NEW v \in Workers,
         pc'[v] # pc[v], pc'[v] \in Calling
  PROVE  /\ UNCHANGED <<rowVars, quiet, seenVars, enq>>
         /\ \/ v \in StatusWorkers /\ (ClaimDispatch(v) \/ ClaimPoll(v))
            \/ v \in NotifyWorkers /\ ClaimNotify(v)
            \/ v \in AssomiWorkers /\ ClaimAssomi(v)
            \/ v \in MailWorkers /\ ClaimMail(v)
<1> USE DEF TypeOK, TypeLoop, Calling
<1>1. ASSUME NEW w \in StatusWorkers, StatusStep(w)
      PROVE  w = v /\ (ClaimDispatch(v) \/ ClaimPoll(v))
  BY <1>1 DEF StatusStep, ClaimDispatch, EndDispatch, SendOk, SendRejected, SendTransient,
     SendLost, ClaimPoll, EndPoll, PollOk, PollRejected, PollTransient, Open, Close, NextQueue
<1>2. ASSUME NEW w \in NotifyWorkers, NotifyStep(w)
      PROVE  w = v /\ ClaimNotify(v)
  BY <1>2 DEF NotifyStep, StopAllFailed, EndStop, StopSingleStage, ClaimNotify, EndNotify,
     NotifyOk, NotifyFailed, NotifyLost, Open, Close, NextQueue
<1>3. ASSUME NEW w \in AssomiWorkers, AssomiStep(w)
      PROVE  w = v /\ ClaimAssomi(v)
  BY <1>3 DEF AssomiStep, EnsureRead, EnsureCommit, ClaimAssomi, EndAssomi, AssomiDone,
     AssomiTransient, Open, Close, NextQueue
<1>4. ASSUME NEW w \in MailWorkers, MailStep(w)
      PROVE  w = v /\ ClaimMail(v)
  BY <1>4 DEF MailStep, ClaimMail, EndMail, MailOk, MailNotSent, MailLost, Open, Close, NextQueue
<1>5. ASSUME NEW w \in Workers, Abort(w) PROVE FALSE
  BY <1>5, FirstPlace DEF Abort
<1>6. CASE UNCHANGED pc
  BY <1>6
<1>7. CASE ApiNext \/ AggNext \/ UNCHANGED vars
  <2>1. UNCHANGED pc
    <3>1. CASE ApiNext
      BY <3>1, AcceptWrites, SpinWrites, PauseWrites, GlobalWrites DEF ApiNext, loopVars
    <3>2. CASE AggNext
      BY <3>2, AggWrites DEF AggNext, loopVars
    <3>3. QED
      BY <1>7, <3>1, <3>2 DEF vars, loopVars
  <2>2. QED
    BY <2>1
<1>8. ASSUME ClaimDispatch(v) \/ ClaimPoll(v) \/ ClaimNotify(v) \/ ClaimAssomi(v) \/ ClaimMail(v)
      PROVE  UNCHANGED <<rowVars, quiet, seenVars, enq>>
  BY <1>8 DEF ClaimDispatch, ClaimPoll, ClaimNotify, ClaimAssomi, ClaimMail, Open
<1>10. QED
  BY <1>1, <1>2, <1>3, <1>4, <1>5, <1>7, <1>8 DEF Next, WorkerNext, WorkerStep

\* What a claim selects, read in the state in which the call begins.
LEMMA Selects ==
  ASSUME TypeOK, Holding, [Next]_vars, NEW v \in Workers,
         pc'[v] # pc[v], pc'[v] \in Calling
  PROVE  claim'[v] \in Batches /\ live[claim'[v]] /\ StillSelected(v)'
<1> USE DEF TypeOK
<1>0. UNCHANGED rowVars
  BY Claims
<1> USE DEF rowVars, HasCompleted, HasNonTerminal, TasksOf
<1>1. CASE v \in StatusWorkers /\ ClaimDispatch(v)
  <2>1. PICK t \in Dispatchable : Open(v, BatchOf[t], "sending") /\ ctask' = [ctask EXCEPT ![v] = t]
    BY <1>1 DEF ClaimDispatch, OldestTasks
  <2>2. pc'[v] = "sending" /\ claim'[v] = BatchOf[t] /\ ctask'[v] = t
    BY <2>1 DEF Open, TypeLoop
  <2>3. QED
    BY <1>0, <2>2, PipelineAssumption DEF Dispatchable, Running, StillSelected
<1>2. CASE v \in StatusWorkers /\ ClaimPoll(v)
  <2>1. PICK t \in Pollable : Open(v, BatchOf[t], "polling") /\ ctask' = [ctask EXCEPT ![v] = t]
    BY <1>2 DEF ClaimPoll, OldestTasks
  <2>2. pc'[v] = "polling" /\ claim'[v] = BatchOf[t] /\ ctask'[v] = t
    BY <2>1 DEF Open, TypeLoop
  <2>3. QED
    BY <1>0, <2>2, PipelineAssumption DEF Pollable, StillSelected
<1>3. CASE v \in NotifyWorkers /\ ClaimNotify(v)
  <2>1. PICK b \in Notifiable : ~single[b] /\ Open(v, b, "notifying")
    BY <1>3 DEF ClaimNotify, OldestBatches
  <2>2. pc'[v] = "notifying" /\ claim'[v] = b
    BY <2>1 DEF Open, TypeLoop
  <2>3. QED
    BY <1>0, <2>1, <2>2 DEF Notifiable, Running, StillSelected
<1>4. CASE v \in AssomiWorkers /\ ClaimAssomi(v)
  <2>1. PICK b \in AssomiClaimable : Open(v, b, "fetching")
    BY <1>4 DEF ClaimAssomi, OldestAssomi
  <2>2. pc'[v] = "fetching" /\ claim'[v] = b
    BY <2>1 DEF Open, TypeLoop
  <2>3. QED
    BY <1>0, <2>2 DEF AssomiClaimable, Running, StillSelected
<1>5. CASE v \in MailWorkers /\ ClaimMail(v)
  <2>1. PICK b \in Mailable : Open(v, b, "mailing")
    BY <1>5 DEF ClaimMail, OldestBatches
  <2>2. pc'[v] = "mailing" /\ claim'[v] = b
    BY <2>1 DEF Open, TypeLoop
  <2>3. QED
    BY <1>0, <2>2 DEF Mailable, Running, StillSelected, ReadyForMail, NatAllFailed
<1>6. QED
  BY <1>1, <1>2, <1>3, <1>4, <1>5, Claims

\* What an INSERT .. SELECT has read is read at once and only then.
LEMMA EnqMoves ==
  ASSUME TypeOK, [Next]_vars, NEW v \in Workers
  PROVE  enq'[v] \subseteq enq[v] \/ EnsureRead(v)
<1> USE DEF TypeOK
<1>1. ASSUME NEW w \in AssomiWorkers, AssomiStep(w) PROVE enq'[v] \subseteq enq[v] \/ EnsureRead(v)
  BY <1>1, AssomiWrites DEF EnsureRead, EnsureCommit, TypeLoop
<1>2. ASSUME NEW w \in Workers, Abort(w) PROVE enq'[v] \subseteq enq[v]
  BY <1>2, AbortWrites DEF TypeLoop
<1>3. CASE ApiNext
  BY <1>3, AcceptWrites, SpinWrites, PauseWrites, GlobalWrites DEF ApiNext, loopVars
<1>4. CASE AggNext
  BY <1>4, AggWrites DEF AggNext, loopVars
<1>5. CASE UNCHANGED vars
  BY <1>5 DEF vars, loopVars
<1>6. QED
  BY <1>1, <1>2, <1>3, <1>4, <1>5, StatusWrites, NotifyWrites, MailWrites
  DEF Next, WorkerNext, WorkerStep

LEMMA FreshStep ==
  ASSUME TypeOK, Holding, Fresh, [Next]_vars
  PROVE  Fresh'
<1> USE DEF TypeOK
<1>0. TypeOK' /\ Holding' /\ \A b \in Batches : live[b] => live'[b]
  BY TypeStep, HoldingStep, LiveStays
<1>1. ASSUME NEW v \in Workers, claim'[v] # NoBatch PROVE live'[claim'[v]]
  <2>1. pc'[v] \in Calling
    BY <1>0, <1>1 DEF Holding
  <2>2. CASE pc'[v] = pc[v]
    <3>1. claim[v] # NoBatch /\ live[claim[v]]
      BY <2>1, <2>2 DEF Holding, Fresh
    <3>2. claim'[v] = claim[v] /\ claim[v] \in Batches
      BY <2>2, <3>1, LockProtects DEF TypeLoop
    <3>3. QED
      BY <1>0, <3>1, <3>2
  <2>3. CASE pc'[v] # pc[v]
    BY <1>0, <2>1, <2>3, Selects
  <2>4. QED
    BY <2>2, <2>3
<1>2. ASSUME NEW v \in Workers, NEW b \in enq'[v] PROVE live'[b]
  <2>1. b \in Batches
    BY <1>0 DEF TypeLoop
  <2>2. CASE b \in enq[v]
    BY <1>0, <2>1, <2>2 DEF Fresh
  <2>3. CASE EnsureRead(v)
    BY <1>0, <1>2, <2>1, <2>3 DEF EnsureRead, Enqueueable, TypeLoop
  <2>4. enq'[v] \subseteq enq[v] \/ EnsureRead(v)
    BY EnqMoves
  <2>5. QED
    BY <1>2, <2>2, <2>3, <2>4
<1> DEFINE Blank(b) == /\ ~notified[b] /\ ~emailed[b]
                       /\ agg[b] = "none" /\ assomi[b] = "none" /\ spinReq[b] = "none"
                       /\ notices[b] = 0 /\ mails[b] = 0 /\ told[b] = {}
                       /\ \A t \in TasksOf(b) : task[t] = "ready" /\ sends[t] = 0
<1>3. ASSUME NEW b \in Batches, ~live'[b] PROVE Blank(b)'
  <2> USE DEF TypeRows, TypeSeen, TasksOf
  <2>1. ~live[b] /\ Blank(b)
    BY <1>0, <1>3 DEF Fresh
  <2>2. \A v \in Workers : claim[v] # b /\ b \notin enq[v]
    <3>1. b # NoBatch
      BY PipelineAssumption
    <3>2. QED
      BY <2>1, <3>1 DEF Fresh
  <2>3. ASSUME NEW w \in StatusWorkers, StatusStep(w) PROVE Blank(b)'
    <3>1. w \in Workers
      BY Roles
    <3>2. UNCHANGED <<task, sends>> \/
          (/\ ctask[w] \in Tasks /\ BatchOf[ctask[w]] # b
           /\ \A t \in Tasks \ {ctask[w]} : task'[t] = task[t] /\ sends'[t] = sends[t])
      BY <2>2, <2>3, <3>1, StatusWrites DEF SendOk, SendRejected, SendLost, PollOk, PollRejected,
         SetTask, Holding, seenVars, rowVars
    <3>3. QED
      BY <2>1, <2>3, <3>2, StatusWrites DEF taskRest, quiet
  <2>4. ASSUME NEW w \in NotifyWorkers, NotifyStep(w) PROVE Blank(b)'
    <3>1. w \in Workers
      BY Roles
    <3>2. notified'[b] = notified[b] /\ notices'[b] = notices[b]
      BY <2>2, <2>4, <3>1, NotifyWrites DEF NotifyOk, NotifyLost, rowVars
    <3>3. QED
      BY <2>1, <2>4, <3>2, NotifyWrites DEF batchRest, quiet
  <2>5. ASSUME NEW w \in AssomiWorkers, AssomiStep(w) PROVE Blank(b)'
    <3>1. w \in Workers
      BY Roles
    <3>2. assomi'[b] = assomi[b]
      BY <2>2, <2>5, <3>1, AssomiWrites DEF EnsureCommit, AssomiDone
    <3>3. QED
      BY <2>1, <2>5, <3>2, AssomiWrites DEF quiet, seenVars
  <2>6. ASSUME NEW w \in MailWorkers, MailStep(w) PROVE Blank(b)'
    <3>1. w \in Workers
      BY Roles
    <3>2. emailed'[b] = emailed[b] /\ mails'[b] = mails[b] /\ told'[b] = told[b]
      BY <2>2, <2>6, <3>1, MailWrites DEF MailOk, MailLost, Mailed, rowVars
    <3>3. QED
      BY <2>1, <2>6, <3>2, MailWrites DEF quiet
  <2>7. ASSUME NEW c \in Batches, NEW s \in BOOLEAN,
               AcceptNat(c, s) \/ AcceptAssomi(c, s) \/ AcceptSpin(c, s)
        PROVE  Blank(b)'
    <3>1. c # b
      BY <1>3, <2>7, AcceptWrites
    <3>2. /\ agg'[b] = agg[b] /\ assomi'[b] = assomi[b] /\ spinReq'[b] = spinReq[b]
          /\ UNCHANGED <<notified, emailed, seenVars>>
          /\ \A t \in Tasks : BatchOf[t] = b => task'[t] = task[t]
      BY <2>7, <3>1, AcceptWrites
    <3>3. QED
      BY <2>1, <3>2 DEF seenVars
  <2>8. ASSUME NEW c \in Batches, SpinStep(c) PROVE Blank(b)'
    <3>1. c # b
      BY <2>1, <2>8 DEF SpinStep, SpinCallOk, SpinCallFailed, SpinCallLost, SpinMark, SpinMarkLost
    <3>2. notified'[b] = notified[b] /\ notices'[b] = notices[b] /\ spinReq'[b] = spinReq[b]
      BY <2>8, <3>1 DEF SpinStep, SpinCallOk, SpinCallFailed, SpinCallLost, SpinMark, SpinMarkLost,
         SpinStarted, spinRest, rowVars, seenVars, TypeCalls
    <3>3. QED
      BY <2>1, <2>8, <3>2, SpinWrites
  <2>9. ASSUME NEW c \in Batches, AggCreate(c) \/ AggFinish(c) PROVE Blank(b)'
    <3>1. c # b
      BY <2>1, <2>9 DEF AggCreate, AggFinish
    <3>2. agg'[b] = agg[b]
      BY <2>9, <3>1 DEF AggCreate, AggFinish
    <3>3. QED
      BY <2>1, <2>9, <3>2, AggWrites DEF quiet, seenVars
  <2>10. ASSUME NEW w \in Workers, Abort(w) PROVE Blank(b)'
    BY <2>1, <2>10, AbortWrites DEF rowVars, quiet, seenVars
  <2>11. ASSUME NEW r \in Requests, PauseApply(r) \/ \E c \in Batches, p \in BOOLEAN : PauseCheck(r, c, p)
         PROVE  Blank(b)'
    BY <2>1, <2>11, PauseWrites DEF batchRest, seenVars
  <2>12. ASSUME NEW p \in BOOLEAN, GlobalPause(p) PROVE Blank(b)'
    BY <2>1, <2>12, GlobalWrites DEF quiet, seenVars
  <2>13. CASE UNCHANGED vars
    BY <2>1, <2>13 DEF vars, rowVars, seenVars
  <2>14. QED
    BY <2>3, <2>4, <2>5, <2>6, <2>7, <2>8, <2>9, <2>10, <2>11, <2>12, <2>13
    DEF Next, WorkerNext, WorkerStep, ApiNext, AggNext
<1>4. QED
  BY <1>1, <1>2, <1>3 DEF Fresh

-----------------------------------------------------------------------------
(* How the rows of one batch move, whoever moves them.                     *)

\* The aggregation row appears after a notification or with a manual upload,
\* is finished once, and is never touched again.
LEMMA AggMoves ==
  ASSUME TypeOK, Fresh, [Next]_vars, NEW b \in Batches
  PROVE  \/ agg'[b] = agg[b]
         \/ /\ agg[b] = "none" /\ agg'[b] = "pending"
            /\ Source[b] = "nat" /\ notices[b] > 0 /\ live[b]
         \/ /\ agg[b] = "none" /\ agg'[b] \in {"spin", "pending"}
            /\ Source[b] # "nat" /\ ~live[b]
         \/ agg[b] = "pending" /\ agg'[b] \in AggResults
<1> USE DEF TypeOK, TypeRows
<1>1. CASE UNCHANGED agg
  BY <1>1
<1>2. ASSUME NEW c \in Batches, NEW s \in BOOLEAN,
             AcceptNat(c, s) \/ AcceptAssomi(c, s) \/ AcceptSpin(c, s),
             agg'[b] # agg[b]
      PROVE  agg[b] = "none" /\ agg'[b] \in {"spin", "pending"} /\ Source[b] # "nat" /\ ~live[b]
  <2>1. c = b /\ ~live[b] /\ Source[b] # "nat"
    BY <1>2, AcceptWrites
  <2>2. agg[b] = "none"
    BY <2>1 DEF Fresh
  <2>3. QED
    BY <1>2, <2>1, <2>2, AcceptWrites, PipelineAssumption
<1>3. ASSUME NEW c \in Batches, AggCreate(c) \/ AggFinish(c), agg'[b] # agg[b]
      PROVE  \/ /\ agg[b] = "none" /\ agg'[b] = "pending"
                /\ Source[b] = "nat" /\ notices[b] > 0 /\ live[b]
             \/ agg[b] = "pending" /\ agg'[b] \in AggResults
  <2>1. CASE AggCreate(c)
    <3>1. c = b /\ agg[b] = "none" /\ agg'[b] = "pending" /\ Source[b] = "nat" /\ notices[b] > 0
      BY <1>3, <2>1 DEF AggCreate
    <3>2. notices[b] # 0
      BY <3>1
    <3>3. QED
      BY <3>1, <3>2 DEF Fresh
  <2>2. CASE AggFinish(c)
    BY <1>3, <2>2 DEF AggFinish
  <2>3. QED
    BY <1>3, <2>1, <2>2
<1>4. QED
  BY <1>1, <1>2, <1>3, StatusWrites, NotifyWrites, AssomiWrites, MailWrites, AbortWrites,
     SpinWrites, PauseWrites, GlobalWrites
  DEF Next, WorkerNext, WorkerStep, ApiNext, AggNext, taskRest, batchRest, rowVars, vars

\* The ASSOMI row appears by enqueueing or with a manual upload, and is ended
\* once, by the worker that holds it, which stops a single-stage batch with it.
LEMMA AssomiMoves ==
  ASSUME TypeOK, Inv, [Next]_vars, NEW b \in Batches
  PROVE  \/ assomi'[b] = assomi[b]
         \/ /\ assomi[b] = "none" /\ assomi'[b] = "pending"
            /\ \E w \in Workers : b \in enq[w]
         \/ /\ assomi[b] = "none" /\ assomi'[b] = "pending"
            /\ Source[b] = "manual_assomi" /\ ~live[b] /\ agg'[b] = "spin"
         \/ /\ assomi[b] = "pending" /\ assomi'[b] \in {"completed", "failed"}
            /\ single'[b] => paused'[b]
<1> USE DEF TypeOK, TypeRows
<1>1. CASE UNCHANGED assomi
  BY <1>1
<1>2. ASSUME NEW c \in Batches, NEW s \in BOOLEAN,
             AcceptNat(c, s) \/ AcceptAssomi(c, s) \/ AcceptSpin(c, s),
             assomi'[b] # assomi[b]
      PROVE  /\ assomi[b] = "none" /\ assomi'[b] = "pending"
             /\ Source[b] = "manual_assomi" /\ ~live[b] /\ agg'[b] = "spin"
  <2>1. c = b /\ ~live[b] /\ Source[b] = "manual_assomi"
    BY <1>2, AcceptWrites, PipelineAssumption
  <2>2. assomi[b] = "none"
    BY <2>1 DEF Inv, Fresh
  <2>3. QED
    BY <1>2, <2>1, <2>2, AcceptWrites
<1>3. ASSUME NEW w \in AssomiWorkers, EnsureCommit(w), assomi'[b] # assomi[b]
      PROVE  assomi[b] = "none" /\ assomi'[b] = "pending" /\ \E v \in Workers : b \in enq[v]
  BY <1>3, Roles DEF EnsureCommit
<1>4. ASSUME NEW w \in AssomiWorkers, AssomiDone(w), assomi'[b] # assomi[b]
      PROVE  /\ assomi[b] = "pending" /\ assomi'[b] \in {"completed", "failed"}
             /\ single'[b] => paused'[b]
  <2>1. w \in Workers /\ claim[w] = b /\ pc[w] = "fetching"
    BY <1>4, Roles DEF AssomiDone
  <2>2. assomi[b] = "pending"
    BY <2>1 DEF Inv, ClaimHolds, StillSelected
  <2>3. QED
    BY <1>4, <2>1, <2>2 DEF AssomiDone
<1>5. ASSUME NEW w \in AssomiWorkers, AssomiStep(w), ~EnsureCommit(w), ~AssomiDone(w)
      PROVE  UNCHANGED assomi
  BY <1>5, AssomiWrites
<1>6. QED
  BY <1>1, <1>2, <1>3, <1>4, <1>5, StatusWrites, NotifyWrites, MailWrites, AbortWrites,
     SpinWrites, PauseWrites, GlobalWrites, AggWrites
  DEF Next, WorkerNext, WorkerStep, ApiNext, AggNext, taskRest, batchRest, rowVars, vars

\* Only a task NAT has not finished with changes, and only for a NAT batch.
LEMMA TaskMoves ==
  ASSUME TypeOK, Inv, [Next]_vars, NEW t \in Tasks
  PROVE  \/ task'[t] = task[t]
         \/ task[t] \in {"ready", "inflight"} /\ Source[BatchOf[t]] = "nat" /\ live[BatchOf[t]]
         \/ Source[BatchOf[t]] # "nat" /\ ~live[BatchOf[t]]
<1> USE DEF TypeOK, TypeRows
<1>1. CASE UNCHANGED task
  BY <1>1
<1>2. ASSUME NEW c \in Batches, NEW s \in BOOLEAN,
             AcceptNat(c, s) \/ AcceptAssomi(c, s) \/ AcceptSpin(c, s),
             task'[t] # task[t]
      PROVE  Source[BatchOf[t]] # "nat" /\ ~live[BatchOf[t]]
  BY <1>2, AcceptWrites
<1>3. ASSUME NEW w \in StatusWorkers, StatusStep(w), task'[t] # task[t]
      PROVE  task[t] \in {"ready", "inflight"} /\ Source[BatchOf[t]] = "nat" /\ live[BatchOf[t]]
  <2>1. w \in Workers
    BY Roles
  <2>2. t = ctask[w] /\ pc[w] \in {"sending", "polling"}
    BY <1>3, StatusWrites DEF SendOk, SendRejected, SendLost, PollOk, PollRejected, SetTask, rowVars
  <2>3. BatchOf[t] = claim[w] /\ claim[w] # NoBatch
    BY <2>1, <2>2 DEF Inv, Holding, Calling
  <2>4. QED
    BY <2>1, <2>2, <2>3 DEF Inv, Fresh, ClaimHolds, StillSelected
<1>4. QED
  BY <1>1, <1>2, <1>3, NotifyWrites, AssomiWrites, MailWrites, AbortWrites,
     SpinWrites, PauseWrites, GlobalWrites, AggWrites
  DEF Next, WorkerNext, WorkerStep, ApiNext, AggNext, batchRest, rowVars, vars

\* A notification is counted with its recording, by the worker or the upload
\* request it is due to, or with the fault that loses its answer.
LEMMA NoticeMoves ==
  ASSUME TypeOK, Inv, [Next]_vars, NEW b \in Batches
  PROVE  \/ notices'[b] = notices[b]
         \/ /\ notices'[b] = notices[b] + 1
            /\ \/ /\ Source[b] = "nat" /\ ~single[b] /\ HasCompleted(b) /\ ~HasNonTerminal(b)
                  /\ UNCHANGED <<task, single, live>>
               \/ Source[b] = "manual_spin" /\ UNCHANGED <<task, single, live>>
<1> USE DEF TypeOK, TypeSeen
<1>1. CASE UNCHANGED notices
  BY <1>1
<1>2. ASSUME NEW w \in NotifyWorkers, NotifyStep(w), NotifyOk(w) \/ NotifyLost(w),
             notices'[b] # notices[b]
      PROVE  /\ notices'[b] = notices[b] + 1
             /\ Source[b] = "nat" /\ ~single[b] /\ HasCompleted(b) /\ ~HasNonTerminal(b)
             /\ UNCHANGED <<task, single, live>>
  <2>1. w \in Workers
    BY Roles
  <2>2. claim[w] = b /\ pc[w] = "notifying" /\ notices'[b] = notices[b] + 1
    BY <1>2 DEF NotifyOk, NotifyLost
  <2>3. QED
    BY <1>2, <2>1, <2>2, NotifyWrites DEF Inv, ClaimHolds, StillSelected, batchRest
<1>3. ASSUME NEW c \in Batches, SpinStep(c), notices'[b] # notices[b]
      PROVE  /\ notices'[b] = notices[b] + 1
             /\ Source[b] = "manual_spin" /\ UNCHANGED <<task, single, live>>
  <2>1. c = b /\ spinReq[b] = "calling" /\ notices'[b] = notices[b] + 1
    BY <1>3 DEF SpinStep, SpinCallOk, SpinCallFailed, SpinCallLost, SpinMark, SpinMarkLost,
       SpinStarted, seenVars
  <2>2. QED
    BY <1>3, <2>1, SpinWrites DEF Inv, Chain
<1>4. QED
  BY <1>1, <1>2, <1>3, StatusWrites, NotifyWrites, AssomiWrites, MailWrites, AbortWrites,
     AcceptWrites, PauseWrites, GlobalWrites, AggWrites
  DEF Next, WorkerNext, WorkerStep, ApiNext, AggNext, seenVars, vars

-----------------------------------------------------------------------------
(* The inductive invariant.                                                *)

\* An upload request of a manual SPIN batch exists from its commit on.
LEMMA SpinMoves ==
  ASSUME TypeOK, Inv, [Next]_vars, NEW b \in Batches
  PROVE  /\ spinReq'[b] # "none" <=> live'[b] /\ Source[b] = "manual_spin"
         /\ Source[b] = "manual_spin" /\ notified'[b] => spinReq'[b] = "done"
<1> USE DEF TypeOK, TypeRows, TypeCalls
<1> DEFINE Goal == /\ spinReq'[b] # "none" <=> live'[b] /\ Source[b] = "manual_spin"
                   /\ Source[b] = "manual_spin" /\ notified'[b] => spinReq'[b] = "done"
<1>0. /\ spinReq[b] # "none" <=> live[b] /\ Source[b] = "manual_spin"
      /\ Source[b] = "manual_spin" /\ notified[b] => spinReq[b] = "done"
      /\ ~live[b] => ~notified[b]
  BY DEF Inv, Chain, Fresh
<1>1. CASE UNCHANGED <<live, notified, spinReq>>
  BY <1>0, <1>1
<1>2. ASSUME NEW c \in Batches, NEW s \in BOOLEAN,
             AcceptNat(c, s) \/ AcceptAssomi(c, s) \/ AcceptSpin(c, s)
      PROVE  Goal
  BY <1>0, <1>2, AcceptWrites, PipelineAssumption
<1>3. ASSUME NEW c \in Batches, SpinStep(c) PROVE Goal
  <2>1. CASE c = b
    <3>1. spinReq[b] \in {"calling", "marking"} /\ spinReq'[b] # "none"
      BY <1>3, <2>1 DEF SpinStep, SpinCallOk, SpinCallFailed, SpinCallLost, SpinMark, SpinMarkLost
    <3>2. notified'[b] => spinReq'[b] = "done"
      BY <1>0, <1>3, <2>1, <3>1, SpinWrites DEF SpinMark
    <3>3. QED
      BY <1>0, <1>3, <3>1, <3>2, SpinWrites
  <2>2. CASE c # b
    <3>1. spinReq'[b] = spinReq[b] /\ notified'[b] = notified[b]
      BY <1>3, <2>2, SpinWrites DEF SpinStep, SpinCallOk, SpinCallFailed, SpinCallLost, SpinMark,
         SpinMarkLost
    <3>2. QED
      BY <1>0, <1>3, <3>1, SpinWrites
  <2>3. QED
    BY <2>1, <2>2
<1>4. ASSUME NEW w \in NotifyWorkers, NotifyOk(w), NotifyStep(w) PROVE Goal
  <2>1. w \in Workers /\ Source[claim[w]] = "nat"
    BY <1>4, Roles DEF NotifyOk, Inv, ClaimHolds, StillSelected
  <2>2. Source[b] = "manual_spin" => notified'[b] = notified[b]
    BY <1>4, <2>1 DEF NotifyOk
  <2>3. QED
    BY <1>0, <1>4, <2>2, NotifyWrites DEF batchRest, quiet
<1>5. ASSUME NEW w \in NotifyWorkers, NotifyStep(w), ~NotifyOk(w)
      PROVE  UNCHANGED <<live, notified, spinReq>>
  BY <1>5, NotifyWrites DEF NotifyLost, batchRest, rowVars, quiet
<1>6. QED
  BY <1>1, <1>2, <1>3, <1>4, <1>5, StatusWrites, AssomiWrites, MailWrites, AbortWrites,
     PauseWrites, GlobalWrites, AggWrites
  DEF Next, WorkerNext, WorkerStep, ApiNext, AggNext, taskRest, batchRest, rowVars, quiet, vars

LEMMA ChainStep ==
  ASSUME TypeOK, Inv, [Next]_vars
  PROVE  Chain'
<1> USE DEF TypeOK
<1>0. TypeOK' /\ Chain /\ Fresh
  BY TypeStep DEF Inv
<1>1. ASSUME NEW w \in Workers, NEW b \in enq'[w] PROVE agg'[b] \in {"spin", "blank"}
  <2>1. b \in Batches
    BY <1>0 DEF TypeLoop
  <2>2. CASE b \in enq[w]
    <3>1. agg[b] \in {"spin", "blank"}
      BY <1>0, <2>2 DEF Chain
    <3>2. QED
      BY <1>0, <2>1, <3>1, AggMoves
  <2>3. CASE EnsureRead(w)
    BY <1>1, <2>3 DEF EnsureRead, Enqueueable, TypeLoop, rowVars
  <2>4. QED
    BY <1>1, <2>2, <2>3, EnqMoves
<1>2. ASSUME NEW b \in Batches
      PROVE  /\ assomi'[b] # "none" => agg'[b] \in {"spin", "blank"}
             /\ Source[b] = "nat" /\ agg'[b] # "none" => notices'[b] > 0
             /\ "blank" \notin AggResults => agg'[b] # "blank"
  <2>1. /\ assomi[b] # "none" => agg[b] \in {"spin", "blank"}
        /\ Source[b] = "nat" /\ agg[b] # "none" => notices[b] > 0
        /\ "blank" \notin AggResults => agg[b] # "blank"
        /\ \A w \in Workers : b \in enq[w] => agg[b] \in {"spin", "blank"}
    BY <1>0 DEF Chain
  <2>2. assomi'[b] # "none" => agg'[b] \in {"spin", "blank"}
    <3>1. CASE agg[b] \in {"spin", "blank"}
      BY <1>0, <3>1, AggMoves
    <3>2. CASE agg[b] \notin {"spin", "blank"}
      BY <2>1, <3>2, AssomiMoves
    <3>3. QED
      BY <3>1, <3>2
  <2>3. notices'[b] >= notices[b]
    BY NoticeMoves DEF TypeSeen
  <2>4. Source[b] = "nat" /\ agg'[b] # "none" => notices'[b] > 0
    BY <1>0, <2>1, <2>3, AggMoves DEF TypeSeen
  <2>5. QED
    BY <1>0, <2>1, <2>2, <2>4, AggMoves
<1>3. QED
  BY <1>1, <1>2, SpinMoves DEF Chain

LEMMA ClaimHoldsStep ==
  ASSUME TypeOK, Inv, [Next]_vars
  PROVE  ClaimHolds'
<1> SUFFICES ASSUME NEW v \in Workers PROVE StillSelected(v)'
  BY DEF ClaimHolds
<1> USE DEF TypeOK
<1>0. TypeOK' /\ Holding /\ Fresh /\ Chain /\ StillSelected(v)
  BY TypeStep DEF Inv, ClaimHolds
<1>1. CASE pc'[v] \notin Calling
  BY <1>1 DEF StillSelected, Calling
<1>2. CASE pc'[v] \in Calling /\ pc'[v] # pc[v]
  BY <1>0, <1>2, Selects
<1>3. CASE pc'[v] \in Calling /\ pc'[v] = pc[v]
  <2>1. PICK b \in Batches : b = claim[v] /\ b # NoBatch /\ live[b]
    BY <1>0, <1>3 DEF Holding, Fresh, TypeLoop
  <2>2. FlagsKept(b) /\ TasksKept(b) /\ AssomiKept(b) /\ claim'[v] = b /\ ctask'[v] = ctask[v]
    BY <1>0, <1>3, <2>1, LockProtects
  <2>3. CASE pc[v] \in {"sending", "polling"}
    <3>1. ctask[v] \in TasksOf(b)
      BY <1>0, <2>1, <2>3 DEF Holding, TasksOf
    <3>2. QED
      BY <1>0, <1>3, <2>1, <2>2, <2>3, <3>1 DEF StillSelected, FlagsKept, TasksKept
  <2>4. CASE pc[v] = "notifying"
    <3>1. HasCompleted(b) /\ ~HasNonTerminal(b)
      BY <1>0, <2>1, <2>4 DEF StillSelected
    <3>2. /\ \E t \in TasksOf(b) : task'[t] = "completed"
          /\ ~\E t \in TasksOf(b) : task'[t] \in {"ready", "inflight"}
      BY <2>2, <3>1 DEF HasCompleted, HasNonTerminal, TasksKept
    <3>3. QED
      BY <1>0, <1>3, <2>1, <2>2, <2>4, <3>2
      DEF StillSelected, FlagsKept, HasCompleted, HasNonTerminal, TasksOf
  <2>5. CASE pc[v] = "fetching"
    BY <1>0, <1>3, <2>1, <2>2, <2>5 DEF StillSelected, FlagsKept, AssomiKept
  <2>6. CASE pc[v] = "mailing"
    <3>1. ~emailed[b] /\ ~single[b] /\ ReadyForMail(b) /\ (RespectPause => ~paused[b])
      BY <1>0, <2>1, <2>6 DEF StillSelected
    <3>2. \/ assomi'[b] \in {"completed", "failed"}
          \/ agg'[b] = "failed"
          \/ agg'[b] = "nospin" /\ assomi'[b] = "none"
          \/ NatAllFailed(b)
      <4>1. CASE assomi[b] \in {"completed", "failed"}
        BY <2>2, <4>1 DEF AssomiKept
      <4>2. CASE agg[b] = "failed"
        BY <1>0, <4>2, AggMoves
      <4>3. CASE agg[b] = "nospin" /\ assomi[b] = "none"
        BY <1>0, <2>2, <4>3, AggMoves DEF AssomiKept, Chain
      <4>4. QED
        BY <3>1, <4>1, <4>2, <4>3 DEF ReadyForMail
    <3>3. NatAllFailed(b) =>
            /\ Source[b] = "nat" /\ ~\E t \in TasksOf(b) : task'[t] = "completed"
            /\ ~\E t \in TasksOf(b) : task'[t] \in {"ready", "inflight"}
      BY <2>2 DEF NatAllFailed, HasCompleted, HasNonTerminal, TasksKept
    <3>4. QED
      BY <1>0, <1>3, <2>1, <2>2, <2>6, <3>1, <3>2, <3>3
      DEF StillSelected, FlagsKept, ReadyForMail, NatAllFailed, HasCompleted, HasNonTerminal, TasksOf
  <2>7. QED
    BY <1>3, <2>3, <2>4, <2>5, <2>6 DEF Calling
<1>4. QED
  BY <1>1, <1>2, <1>3

LEMMA InvInit == Init => Inv
<1> SUFFICES ASSUME Init PROVE Inv
  OBVIOUS
<1>1. Chain /\ ClaimHolds
  BY FirstPlace DEF Init, Chain, ClaimHolds, StillSelected, Calling
<1>2. QED
  BY <1>1, HoldingInit, FreshInit DEF Inv

\* The invariant every safety theorem rests on: exclusive row locks, no life
\* before the upload, stages in order, and claims that stay true.
THEOREM Invariance == Spec => [](TypeOK /\ Inv)
<1>1. Init => TypeOK /\ Inv
  BY TypeInit, InvInit
<1>2. TypeOK /\ Inv /\ [Next]_vars => (TypeOK /\ Inv)'
  BY TypeStep, HoldingStep, FreshStep, ChainStep, ClaimHoldsStep DEF Inv
<1>3. QED
  BY <1>1, <1>2, PTL DEF Spec

-----------------------------------------------------------------------------
(* What follows from the invariant at once.                                *)

\* A pause takes hold between outside calls: while a batch is paused no
\* dispatch, notification or ASSOMI call is under way for it.
THEOREM PauseBarrier == Spec => []PauseIsBarrier
<1>1. TypeOK /\ Inv => PauseIsBarrier
  BY DEF Inv, Holding, ClaimHolds, StillSelected, PauseIsBarrier, Calling
<1>2. QED
  BY Invariance, <1>1, PTL

\* The classification agrees with the claim that made the row ready for mail.
LEMMA ReadyIsClassified ==
  ASSUME TypeOK, Chain, NEW b \in Batches, ReadyForMail(b)
  PROVE  Classify(b) # "none"
<1>1. assomi[b] \in {"none", "pending", "completed", "failed"}
  BY DEF TypeOK, TypeRows, AssomiStates
<1>2. assomi[b] # "none" => agg[b] \in {"spin", "blank"}
  BY DEF Chain
<1>3. QED
  BY <1>1, <1>2 DEF ReadyForMail, Classify

\* When an answer is recorded the row still is what was claimed, although every
\* other process could act during the call.
THEOREM ClaimsStayTrue == Spec => []ClaimStaysTrue
<1>1. TypeOK /\ Inv => ClaimStaysTrue
  <2> SUFFICES ASSUME TypeOK, Inv, NEW w \in Workers
               PROVE  /\ pc[w] = "sending"   => task[ctask[w]] = "ready"
                      /\ pc[w] = "polling"   => task[ctask[w]] = "inflight"
                      /\ pc[w] = "notifying" => ~notified[claim[w]] /\ ~single[claim[w]]
                      /\ pc[w] = "fetching"  => assomi[claim[w]] = "pending"
                      /\ pc[w] = "mailing"   => /\ ~emailed[claim[w]] /\ ~single[claim[w]]
                                                /\ Classify(claim[w]) # "none"
    BY DEF ClaimStaysTrue
  <2>1. StillSelected(w)
    BY DEF Inv, ClaimHolds
  <2>2. ASSUME pc[w] = "mailing" PROVE Classify(claim[w]) # "none"
    <3>1. claim[w] \in Batches
      BY <2>2 DEF Inv, Holding, Calling, TypeOK, TypeLoop
    <3>2. ReadyForMail(claim[w])
      BY <2>1, <2>2 DEF StillSelected
    <3>3. QED
      BY <3>1, <3>2, ReadyIsClassified DEF Inv
  <2>3. QED
    BY <2>1, <2>2 DEF StillSelected
<1>2. QED
  BY Invariance, <1>1, PTL

-----------------------------------------------------------------------------
(* Notification.                                                           *)

\* Tasks are final when the aggregator is told, so what it was told of stays.
LEMMA SettledStep ==
  ASSUME TypeOK, Inv, NotifiedOnlyWhenSettled, [Next]_vars
  PROVE  NotifiedOnlyWhenSettled'
<1> SUFFICES ASSUME NEW b \in Batches, Source[b] = "nat", notices'[b] > 0
             PROVE  /\ live'[b]
                    /\ \E t \in TasksOf(b) : task'[t] = "completed"
                    /\ ~\E t \in TasksOf(b) : task'[t] \in {"ready", "inflight"}
  BY DEF NotifiedOnlyWhenSettled, HasCompleted, HasNonTerminal, TasksOf
<1>1. CASE notices'[b] = notices[b]
  <2>1. live[b] /\ HasCompleted(b) /\ ~HasNonTerminal(b)
    BY <1>1 DEF NotifiedOnlyWhenSettled
  <2>2. \A t \in TasksOf(b) : task'[t] = task[t]
    BY <2>1, TaskMoves DEF HasNonTerminal, TasksOf
  <2>3. QED
    BY <2>1, <2>2, LiveStays DEF HasCompleted, HasNonTerminal
<1>2. CASE notices'[b] # notices[b]
  <2>1. HasCompleted(b) /\ ~HasNonTerminal(b) /\ UNCHANGED <<task, live>>
    BY <1>2, NoticeMoves
  <2>2. PICK t \in TasksOf(b) : task[t] = "completed"
    BY <2>1 DEF HasCompleted
  <2>3. live[b]
    BY <2>2 DEF Inv, Fresh
  <2>4. QED
    BY <2>1, <2>2, <2>3 DEF HasNonTerminal
<1>3. QED
  BY <1>1, <1>2

\* The aggregator hears of a NAT batch only when every task is finished and one
\* succeeded, and no later step of any process makes that untrue.
THEOREM NotifiedSettled == Spec => []NotifiedOnlyWhenSettled
<1>1. Init => NotifiedOnlyWhenSettled
  BY DEF Init, NotifiedOnlyWhenSettled
<1>2. TypeOK /\ Inv /\ NotifiedOnlyWhenSettled /\ [Next]_vars => NotifiedOnlyWhenSettled'
  BY SettledStep
<1>3. QED
  BY <1>1, <1>2, Invariance, PTL DEF Spec

-----------------------------------------------------------------------------
(* Outcomes are final.                                                     *)

\* Once the row is ready for mail its outcome is settled whatever happens next.
LEMMA OutcomeStays ==
  ASSUME TypeOK, Inv, NotifiedOnlyWhenSettled, [Next]_vars,
         NEW b \in Batches, live[b], ReadyForMail(b)
  PROVE  ReadyForMail(b)' /\ Classify(b)' = Classify(b)
<1>0. /\ assomi[b] # "none" => agg[b] \in {"spin", "blank"}
      /\ \A w \in Workers : b \in enq[w] => agg[b] \in {"spin", "blank"}
  BY DEF Inv, Chain
<1>1. CASE assomi[b] \in {"completed", "failed"}
  <2>1. assomi'[b] = assomi[b]
    BY <1>1, AssomiMoves
  <2>2. QED
    BY <1>1, <2>1 DEF ReadyForMail, Classify
<1>2. CASE assomi[b] \notin {"completed", "failed"} /\ agg[b] = "failed"
  <2>1. assomi[b] = "none" /\ assomi'[b] = "none" /\ agg'[b] = "failed"
    BY <1>0, <1>2, AssomiMoves, AggMoves DEF Inv
  <2>2. QED
    BY <1>2, <2>1 DEF ReadyForMail, Classify
<1>3. CASE agg[b] = "nospin" /\ assomi[b] = "none"
  <2>1. assomi'[b] = "none" /\ agg'[b] = "nospin"
    BY <1>0, <1>3, AssomiMoves, AggMoves DEF Inv
  <2>2. QED
    BY <1>3, <2>1 DEF ReadyForMail, Classify
<1>4. CASE NatAllFailed(b)
  <2>1. ~(notices[b] > 0)
    BY <1>4 DEF NotifiedOnlyWhenSettled, NatAllFailed
  <2>2. agg[b] = "none" /\ assomi[b] = "none"
    BY <1>0, <1>4, <2>1 DEF Inv, Chain, NatAllFailed
  <2>3. agg'[b] = "none" /\ assomi'[b] = "none"
    BY <1>0, <2>1, <2>2, AggMoves, AssomiMoves DEF Inv
  <2>4. \A t \in TasksOf(b) : task'[t] = task[t]
    BY <1>4, TaskMoves DEF NatAllFailed, HasNonTerminal, TasksOf
  <2>5. /\ Source[b] = "nat" /\ ~(\E t \in TasksOf(b) : task'[t] = "completed")
        /\ ~\E t \in TasksOf(b) : task'[t] \in {"ready", "inflight"}
    BY <1>4, <2>4 DEF NatAllFailed, HasCompleted, HasNonTerminal
  <2>6. NatAllFailed(b)'
    BY <2>5 DEF NatAllFailed, HasCompleted, HasNonTerminal, TasksOf
  <2>7. QED
    BY <1>4, <2>2, <2>3, <2>6 DEF ReadyForMail, Classify
<1>5. QED
  BY <1>1, <1>2, <1>3, <1>4 DEF ReadyForMail

\* E-mails and their records are written together, from rows ready for mail.
LEMMA MailMoves ==
  ASSUME TypeOK, Inv, [Next]_vars, NEW b \in Batches
  PROVE  \/ mails'[b] = mails[b] /\ told'[b] = told[b] /\ emailed'[b] = emailed[b]
         \/ /\ live[b] /\ ReadyForMail(b) /\ ~emailed[b] /\ ~single[b] /\ UNCHANGED single
            /\ mails'[b] = mails[b] + 1 /\ told'[b] = told[b] \cup {Classify(b)}
<1> USE DEF TypeOK, TypeRows, TypeSeen
<1>1. CASE UNCHANGED <<mails, told, emailed>>
  BY <1>1
<1>2. ASSUME NEW w \in MailWorkers, MailStep(w), MailOk(w) \/ MailLost(w)
      PROVE  \/ mails'[b] = mails[b] /\ told'[b] = told[b] /\ emailed'[b] = emailed[b]
             \/ /\ live[b] /\ ReadyForMail(b) /\ ~emailed[b] /\ ~single[b] /\ UNCHANGED single
                /\ mails'[b] = mails[b] + 1 /\ told'[b] = told[b] \cup {Classify(b)}
  <2>1. w \in Workers /\ pc[w] = "mailing"
    BY <1>2, Roles DEF MailOk, MailLost
  <2>2. CASE claim[w] # b
    BY <1>2, <2>2 DEF MailOk, MailLost, Mailed, rowVars
  <2>3. CASE claim[w] = b
    <3>1. live[b] /\ ReadyForMail(b) /\ ~emailed[b] /\ ~single[b]
      BY <2>1, <2>3, PipelineAssumption DEF Inv, Fresh, ClaimHolds, StillSelected
    <3>2. mails'[b] = mails[b] + 1 /\ told'[b] = told[b] \cup {Classify(b)}
      BY <1>2, <2>3 DEF MailOk, MailLost, Mailed
    <3>3. QED
      BY <1>2, <3>1, <3>2, MailWrites
  <2>4. QED
    BY <2>2, <2>3
<1>3. ASSUME NEW w \in MailWorkers, MailStep(w), ~MailOk(w), ~MailLost(w)
      PROVE  UNCHANGED <<mails, told, emailed>>
  BY <1>3, MailWrites
<1>4. QED
  BY <1>1, <1>2, <1>3, StatusWrites, NotifyWrites, AssomiWrites, AbortWrites, AcceptWrites,
     SpinWrites, PauseWrites, GlobalWrites, AggWrites
  DEF Next, WorkerNext, WorkerStep, ApiNext, AggNext, taskRest, batchRest, rowVars, seenVars, vars

-----------------------------------------------------------------------------
(* single_stage_only.                                                      *)

\* The flag is set by the upload alone; a resume clears it; only a batch that
\* is no longer single-stage is ever taken out of its pause.
LEMMA SingleMoves ==
  ASSUME TypeOK, Inv, [Next]_vars, NEW b \in Batches
  PROVE  /\ single'[b] => single[b] \/ ~live[b]
         /\ single'[b] /\ paused[b] => paused'[b]
<1> USE DEF TypeOK, TypeRows
<1>1. CASE UNCHANGED <<paused, single>>
  BY <1>1
<1>2. ASSUME NEW c \in Batches, NEW s \in BOOLEAN,
             AcceptNat(c, s) \/ AcceptAssomi(c, s) \/ AcceptSpin(c, s)
      PROVE  /\ single'[b] => single[b] \/ ~live[b]
             /\ paused'[b] = paused[b]
  BY <1>2, AcceptWrites
<1>3. ASSUME NEW c \in Batches, SpinStep(c)
      PROVE  UNCHANGED single /\ (paused[b] => paused'[b])
  BY <1>3, SpinWrites DEF SpinMark
<1>4. ASSUME NEW w \in NotifyWorkers, NotifyStep(w)
      PROVE  UNCHANGED single /\ (paused[b] => paused'[b])
  BY <1>4, NotifyWrites DEF Pause, NotifyOk, NotifyLost, rowVars
<1>5. ASSUME NEW w \in AssomiWorkers, AssomiStep(w)
      PROVE  UNCHANGED single /\ (paused[b] => paused'[b])
  BY <1>5, AssomiWrites DEF EnsureCommit, AssomiDone
<1>6. ASSUME NEW r \in Requests, PauseApply(r)
      PROVE  /\ single'[b] => single[b]
             /\ single'[b] /\ paused[b] => paused'[b]
  BY <1>6 DEF PauseApply
<1>7. QED
  BY <1>1, <1>2, <1>3, <1>4, <1>5, <1>6, StatusWrites, MailWrites, AbortWrites, PauseWrites,
     GlobalWrites, AggWrites
  DEF Next, WorkerNext, WorkerStep, ApiNext, AggNext, taskRest, rowVars, vars

LEMMA SingleStageStep ==
  ASSUME TypeOK, Inv, SingleStageStops, [Next]_vars
  PROVE  SingleStageStops'
<1> SUFFICES ASSUME NEW b \in Batches, single'[b]
             PROVE  /\ Source[b] = "nat" => notices'[b] = 0 /\ agg'[b] = "none"
                    /\ assomi'[b] \in {"completed", "failed"} => paused'[b]
                    /\ mails'[b] = 0
  BY DEF SingleStageStops
<1>1. /\ Source[b] = "nat" => notices[b] = 0 /\ agg[b] = "none"
      /\ assomi[b] \in {"completed", "failed"} => paused[b]
      /\ mails[b] = 0
  <2>1. CASE single[b]
    BY <2>1 DEF SingleStageStops
  <2>2. CASE ~live[b]
    BY <2>2 DEF Inv, Fresh
  <2>3. QED
    BY <2>1, <2>2, SingleMoves
<1>2. mails'[b] = 0
  BY <1>1, MailMoves
<1>3. ASSUME Source[b] = "nat" PROVE notices'[b] = 0 /\ agg'[b] = "none"
  <2>1. notices'[b] = 0
    BY <1>1, <1>3, NoticeMoves
  <2>2. agg'[b] = "none"
    BY <1>1, <1>3, AggMoves DEF Inv
  <2>3. QED
    BY <2>1, <2>2
<1>4. ASSUME assomi'[b] \in {"completed", "failed"} PROVE paused'[b]
  <2>1. CASE assomi'[b] = assomi[b]
    BY <1>1, <1>4, <2>1, SingleMoves
  <2>2. CASE assomi'[b] # assomi[b]
    BY <1>4, <2>2, AssomiMoves
  <2>3. QED
    BY <2>1, <2>2
<1>5. QED
  BY <1>2, <1>3, <1>4

\* A batch uploaded for one stage is not handed on, is paused once enriched and
\* is never reported while the flag is set, whatever is paused or resumed.
THEOREM SingleStage == Spec => []SingleStageStops
<1>1. Init => SingleStageStops
  BY DEF Init, SingleStageStops
<1>2. TypeOK /\ Inv /\ SingleStageStops /\ [Next]_vars => SingleStageStops'
  BY SingleStageStep
<1>3. QED
  BY <1>1, <1>2, Invariance, PTL DEF Spec

-----------------------------------------------------------------------------
(* Outcomes told and results shown.                                        *)

\* An e-mail was sent from rows that were ready for it and still are.
ToldFromReady ==
  \A b \in Batches : /\ told[b] # {} => live[b] /\ ReadyForMail(b)
                     /\ told[b] \subseteq {Classify(b)}
                     /\ emailed[b] => told[b] # {}

LEMMA ToldStep ==
  ASSUME TypeOK, Inv, NotifiedOnlyWhenSettled, ToldFromReady, [Next]_vars
  PROVE  ToldFromReady'
<1> SUFFICES ASSUME NEW b \in Batches
             PROVE  /\ told'[b] # {} => live'[b] /\ ReadyForMail(b)'
                    /\ told'[b] \subseteq {Classify(b)'}
                    /\ emailed'[b] => told'[b] # {}
  BY DEF ToldFromReady
<1>1. /\ told[b] # {} => live[b] /\ ReadyForMail(b)
      /\ told[b] \subseteq {Classify(b)} /\ (emailed[b] => told[b] # {})
  BY DEF ToldFromReady
<1>2. CASE told'[b] = {}
  <2>1. told[b] = {} /\ emailed'[b] = emailed[b]
    BY <1>2, MailMoves
  <2>2. QED
    BY <1>1, <1>2, <2>1
<1>3. CASE told'[b] # {}
  <2>1. live[b] /\ ReadyForMail(b) /\ told'[b] \subseteq {Classify(b)}
    BY <1>1, <1>3, MailMoves
  <2>2. live'[b] /\ ReadyForMail(b)' /\ Classify(b)' = Classify(b)
    BY <2>1, OutcomeStays, LiveStays
  <2>3. QED
    BY <1>3, <2>1, <2>2
<1>4. QED
  BY <1>2, <1>3

\* However often a result e-mail is repeated after a lost commit, it reports
\* one outcome, and the rows never come to say another.
THEOREM OneOutcome == Spec => []OneOutcomeTold
<1>1. Init => ToldFromReady
  BY DEF Init, ToldFromReady
<1>2. TypeOK /\ Inv /\ NotifiedOnlyWhenSettled /\ ToldFromReady /\ [Next]_vars => ToldFromReady'
  BY ToldStep
<1>3. ToldFromReady => OneOutcomeTold
  BY DEF ToldFromReady, OneOutcomeTold
<1>4. QED
  BY <1>1, <1>2, <1>3, Invariance, NotifiedSettled, PTL DEF Spec

\* A blank path is told apart by the claims and the classification; where the
\* aggregation leaves none, they agree on which batches are finished.
LEMMA ClassifiedIsReady ==
  ASSUME Inv, "blank" \notin AggResults, NEW b \in Batches, Classify(b) # "none"
  PROVE  ReadyForMail(b)
<1>1. agg[b] # "blank"
  BY DEF Inv, Chain
<1>2. QED
  BY <1>1 DEF Classify, ReadyForMail

\* Results that may be downloaded stay downloadable, provided the aggregation
\* never stores a spin_matched_path of white space.
THEOREM DownloadStays ==
  ASSUME "blank" \notin AggResults
  PROVE  Spec => DownloadStaysReady
<1>1. ASSUME TypeOK, Inv, NotifiedOnlyWhenSettled, [Next]_vars
      PROVE  [\A b \in Batches : PipelineTerminal(b) => PipelineTerminal(b)']_vars
  <2> SUFFICES ASSUME NEW b \in Batches, PipelineTerminal(b)
               PROVE  PipelineTerminal(b)'
    OBVIOUS
  <2>1. live[b] /\ ~single[b] /\ Classify(b) # "none" /\ ReadyForMail(b)
    BY <1>1, ClassifiedIsReady DEF PipelineTerminal
  <2>2. live'[b] /\ Classify(b)' = Classify(b)
    BY <1>1, <2>1, OutcomeStays, LiveStays
  <2>3. ~single'[b]
    BY <1>1, <2>1, SingleMoves
  <2>4. QED
    BY <2>1, <2>2, <2>3 DEF PipelineTerminal
<1>2. QED
  BY <1>1, Invariance, NotifiedSettled, PTL DEF Spec, DownloadStaysReady

-----------------------------------------------------------------------------
(* Outside effects are counted once, or a fault is.                        *)

\* A lost answer adds a fault and nothing takes one away.
LEMMA FaultMoves ==
  ASSUME TypeOK, [Next]_vars
  PROVE  faults' = faults \/ faults' = faults + 1
<1>1. ASSUME NEW w \in StatusWorkers, StatusStep(w) PROVE faults' = faults \/ faults' = faults + 1
  BY <1>1, StatusWrites DEF SendOk, SendRejected, SendLost, PollOk, PollRejected, Lose, seenVars
<1>2. ASSUME NEW w \in NotifyWorkers, NotifyStep(w) PROVE faults' = faults \/ faults' = faults + 1
  BY <1>2, NotifyWrites DEF NotifyOk, NotifyLost, Lose
<1>3. ASSUME NEW w \in MailWorkers, MailStep(w) PROVE faults' = faults \/ faults' = faults + 1
  BY <1>3, MailWrites DEF MailOk, MailLost, Lose
<1>4. ASSUME NEW b \in Batches, SpinStep(b) PROVE faults' = faults \/ faults' = faults + 1
  BY <1>4 DEF SpinStep, SpinCallOk, SpinCallFailed, SpinCallLost, SpinMark, SpinMarkLost, Lose,
     seenVars
<1>5. QED
  BY <1>1, <1>2, <1>3, <1>4, AssomiWrites, AbortWrites, AcceptWrites, PauseWrites, GlobalWrites,
     AggWrites DEF Next, WorkerNext, WorkerStep, ApiNext, AggNext, seenVars, vars

\* A NAT request is recorded with its answer, or its answer is a lost one.
LEMMA SendsOnce ==
  ASSUME TypeOK, Inv, OnceUnlessLost, [Next]_vars,
         NEW t \in Tasks, Source[BatchOf[t]] = "nat"
  PROVE  Once(sends[t], task[t] \notin {"ready", "unsent"})'
<1> USE DEF TypeOK, TypeRows, TypeSeen
<1>0. /\ Once(sends[t], task[t] \notin {"ready", "unsent"})
      /\ sends[t] \in Nat /\ faults \in Nat /\ faults' \in Nat /\ faults <= faults'
  BY FaultMoves, PipelineAssumption DEF OnceUnlessLost
<1>1. CASE sends'[t] = sends[t] /\ task'[t] = task[t]
  BY <1>0, <1>1 DEF Once
<1>2. ASSUME NEW w \in StatusWorkers, StatusStep(w), ~(sends'[t] = sends[t] /\ task'[t] = task[t])
      PROVE  Once(sends[t], task[t] \notin {"ready", "unsent"})'
  <2>1. w \in Workers
    BY Roles
  <2>2. pc[w] = "sending" => task[ctask[w]] = "ready"
    BY <2>1 DEF Inv, ClaimHolds, StillSelected
  <2>3. pc[w] = "polling" => task[ctask[w]] = "inflight"
    BY <2>1 DEF Inv, ClaimHolds, StillSelected
  <2>4. CASE SendOk(w)
    <3>1. t = ctask[w] /\ task[t] = "ready" /\ sends'[t] = sends[t] + 1
      BY <1>2, <2>2, <2>4 DEF SendOk, SetTask
    <3>2. task'[t] \in {"inflight", "completed", "failed"}
      BY <2>4, <3>1 DEF SendOk, SetTask, NatAnswers
    <3>3. QED
      BY <1>0, <3>1, <3>2 DEF Once
  <2>5. CASE SendRejected(w)
    <3>1. t = ctask[w] /\ task[t] = "ready" /\ sends' = sends /\ task'[t] = "unsent"
      BY <1>2, <2>2, <2>5 DEF SendRejected, SetTask, seenVars
    <3>2. QED
      BY <1>0, <3>1 DEF Once
  <2>6. CASE SendLost(w)
    <3>1. /\ t = ctask[w] /\ task[t] = "ready" /\ sends'[t] = sends[t] + 1
          /\ task' = task /\ faults' = faults + 1
      BY <1>2, <2>2, <2>6 DEF SendLost, Lose, rowVars
    <3>2. QED
      BY <1>0, <3>1 DEF Once
  <2>7. ASSUME (\E s \in NatAnswers : PollOk(w, s)) \/ PollRejected(w)
        PROVE  Once(sends[t], task[t] \notin {"ready", "unsent"})'
    <3>1. t = ctask[w] /\ task[t] = "inflight" /\ sends' = sends
      BY <1>2, <2>3, <2>7 DEF PollOk, PollRejected, SetTask, seenVars
    <3>2. task'[t] \in {"inflight", "completed", "failed", "abandoned"}
      BY <2>7, <3>1 DEF PollOk, PollRejected, SetTask, NatAnswers
    <3>3. QED
      BY <1>0, <3>1, <3>2 DEF Once
  <2>8. QED
    BY <1>2, <2>4, <2>5, <2>6, <2>7, StatusWrites
<1>3. ASSUME NEW c \in Batches, NEW s \in BOOLEAN,
             AcceptNat(c, s) \/ AcceptAssomi(c, s) \/ AcceptSpin(c, s)
      PROVE  sends'[t] = sends[t] /\ task'[t] = task[t]
  BY <1>3, AcceptWrites DEF seenVars
<1>4. QED
  BY <1>1, <1>2, <1>3, NotifyWrites, AssomiWrites, MailWrites, AbortWrites, SpinWrites,
     PauseWrites, GlobalWrites, AggWrites
  DEF Next, WorkerNext, WorkerStep, ApiNext, AggNext, batchRest, rowVars, seenVars, vars

\* A notification is recorded by notified_at, of a manual SPIN upload from the
\* accepted call on, or its answer is a lost one.
LEMMA NoticesOnce ==
  ASSUME TypeOK, Inv, OnceUnlessLost, [Next]_vars, NEW b \in Batches
  PROVE  Once(notices[b], notified[b] \/ spinReq[b] = "marking")'
<1> USE DEF TypeOK, TypeRows, TypeSeen, TypeCalls
<1>0. /\ Once(notices[b], notified[b] \/ spinReq[b] = "marking")
      /\ notices[b] \in Nat /\ faults \in Nat /\ faults' \in Nat /\ faults <= faults'
      /\ notified[b] \in BOOLEAN
  BY FaultMoves, PipelineAssumption DEF OnceUnlessLost
<1>1. CASE notices'[b] = notices[b] /\ notified'[b] = notified[b] /\ spinReq'[b] = spinReq[b]
  BY <1>0, <1>1 DEF Once
<1>2. ASSUME NEW w \in NotifyWorkers, NotifyStep(w), NotifyOk(w) \/ NotifyLost(w), claim[w] = b
      PROVE  Once(notices[b], notified[b] \/ spinReq[b] = "marking")'
  <2>1. w \in Workers /\ pc[w] = "notifying"
    BY <1>2, Roles DEF NotifyOk, NotifyLost
  <2>2. ~notified[b] /\ Source[b] = "nat"
    BY <1>2, <2>1 DEF Inv, ClaimHolds, StillSelected
  <2>3. spinReq[b] = "none" /\ spinReq' = spinReq
    BY <1>2, <2>2, NotifyWrites DEF Inv, Chain, quiet
  <2>4. CASE NotifyOk(w)
    <3>1. notified'[b] /\ notices'[b] = notices[b] + 1
      BY <1>2, <2>4 DEF NotifyOk
    <3>2. QED
      BY <1>0, <2>2, <2>3, <3>1 DEF Once
  <2>5. CASE NotifyLost(w)
    <3>1. notified'[b] = notified[b] /\ notices'[b] = notices[b] + 1 /\ faults' = faults + 1
      BY <1>2, <2>5 DEF NotifyLost, Lose, rowVars
    <3>2. QED
      BY <1>0, <2>2, <2>3, <3>1 DEF Once
  <2>6. QED
    BY <1>2, <2>4, <2>5
<1>3. ASSUME NEW w \in NotifyWorkers, NotifyStep(w), ~NotifyOk(w) \/ claim[w] # b,
             ~NotifyLost(w) \/ claim[w] # b
      PROVE  notices'[b] = notices[b] /\ notified'[b] = notified[b] /\ spinReq'[b] = spinReq[b]
  BY <1>3, NotifyWrites DEF NotifyOk, NotifyLost, rowVars, quiet
<1>4. ASSUME NEW c \in Batches, SpinStep(c)
      PROVE  Once(notices[b], notified[b] \/ spinReq[b] = "marking")'
  <2>1. CASE c # b
    <3>1. notices'[b] = notices[b] /\ notified'[b] = notified[b] /\ spinReq'[b] = spinReq[b]
      BY <1>4, <2>1 DEF SpinStep, SpinCallOk, SpinCallFailed, SpinCallLost, SpinMark, SpinMarkLost,
         SpinStarted, spinRest, rowVars, seenVars
    <3>2. QED
      BY <1>1, <3>1
  <2>2. CASE c = b
    <3>1. spinReq[b] \in {"calling", "marking"}
      BY <1>4, <2>2 DEF SpinStep, SpinCallOk, SpinCallFailed, SpinCallLost, SpinMark, SpinMarkLost
    <3>2. ~notified[b]
      BY <3>1 DEF Inv, Chain
    <3>3. CASE SpinCallOk(b)
      <4>1. notices'[b] = notices[b] + 1 /\ spinReq[b] = "calling" /\ spinReq'[b] = "marking"
        BY <3>3 DEF SpinCallOk, SpinStarted
      <4>2. QED
        BY <1>0, <3>2, <4>1 DEF Once
    <3>4. CASE SpinCallFailed(b)
      <4>1. /\ notices'[b] = notices[b] /\ notified'[b] = notified[b]
            /\ spinReq[b] = "calling" /\ spinReq'[b] = "failed"
        BY <3>4 DEF SpinCallFailed, spinRest, rowVars, seenVars
      <4>2. QED
        BY <1>0, <3>2, <4>1 DEF Once
    <3>5. CASE SpinCallLost(b)
      <4>1. /\ notices'[b] = notices[b] + 1 /\ notified'[b] = notified[b] /\ faults' = faults + 1
            /\ spinReq[b] = "calling" /\ spinReq'[b] = "failed"
        BY <3>5 DEF SpinCallLost, SpinStarted, Lose, spinRest, rowVars
      <4>2. QED
        BY <1>0, <3>2, <4>1 DEF Once
    <3>6. CASE SpinMark(b)
      <4>1. notices'[b] = notices[b] /\ notified'[b] /\ spinReq[b] = "marking"
        BY <3>6 DEF SpinMark, seenVars
      <4>2. QED
        BY <1>0, <3>2, <4>1 DEF Once
    <3>7. CASE SpinMarkLost(b)
      <4>1. /\ notices'[b] = notices[b] /\ notified'[b] = notified[b] /\ faults' = faults + 1
            /\ spinReq[b] = "marking" /\ spinReq'[b] = "failed"
        BY <3>7 DEF SpinMarkLost, Lose, spinRest, rowVars
      <4>2. QED
        BY <1>0, <3>2, <4>1 DEF Once
    <3>8. QED
      BY <1>4, <2>2, <3>3, <3>4, <3>5, <3>6, <3>7 DEF SpinStep
  <2>3. QED
    BY <2>1, <2>2
<1>5. ASSUME NEW c \in Batches, NEW s \in BOOLEAN,
             AcceptNat(c, s) \/ AcceptAssomi(c, s) \/ AcceptSpin(c, s)
      PROVE  Once(notices[b], notified[b] \/ spinReq[b] = "marking")'
  <2>1. notices'[b] = notices[b] /\ notified'[b] = notified[b]
    BY <1>5, AcceptWrites DEF seenVars
  <2>2. (spinReq'[b] = "marking") <=> (spinReq[b] = "marking")
    <3>1. ~live[c] /\ (c # b => spinReq'[b] = spinReq[b])
          /\ (c = b => spinReq'[b] = spinReq[b] \/ spinReq'[b] = "calling")
      BY <1>5, AcceptWrites, PipelineAssumption
    <3>2. ~live[c] => spinReq[c] = "none"
      BY DEF Inv, Fresh
    <3>3. QED
      BY <3>1, <3>2
  <2>3. QED
    BY <1>0, <2>1, <2>2 DEF Once
<1>6. QED
  BY <1>1, <1>2, <1>3, <1>4, <1>5, StatusWrites, AssomiWrites, MailWrites, AbortWrites,
     PauseWrites, GlobalWrites, AggWrites
  DEF Next, WorkerNext, WorkerStep, ApiNext, AggNext, taskRest, batchRest, rowVars, quiet,
      seenVars, vars

\* A result e-mail is recorded by result_emailed_at, or its commit is lost.
LEMMA MailsOnce ==
  ASSUME TypeOK, Inv, OnceUnlessLost, [Next]_vars, NEW b \in Batches
  PROVE  Once(mails[b], emailed[b])'
<1> USE DEF TypeOK, TypeRows, TypeSeen
<1>0. /\ Once(mails[b], emailed[b])
      /\ mails[b] \in Nat /\ faults \in Nat /\ faults' \in Nat /\ faults <= faults'
      /\ emailed[b] \in BOOLEAN
  BY FaultMoves, PipelineAssumption DEF OnceUnlessLost
<1>1. CASE mails'[b] = mails[b] /\ emailed'[b] = emailed[b]
  BY <1>0, <1>1 DEF Once
<1>2. ASSUME NEW w \in MailWorkers, MailStep(w), ~(mails'[b] = mails[b] /\ emailed'[b] = emailed[b])
      PROVE  Once(mails[b], emailed[b])'
  <2>1. (MailOk(w) \/ MailLost(w)) /\ claim[w] = b /\ w \in Workers /\ pc[w] = "mailing"
    BY <1>2, MailWrites, Roles DEF MailOk, MailLost, Mailed, rowVars
  <2>2. ~emailed[b] /\ mails'[b] = mails[b] + 1
    BY <2>1 DEF Inv, ClaimHolds, StillSelected, MailOk, MailLost, Mailed
  <2>3. emailed'[b] \/ (emailed'[b] = emailed[b] /\ faults' = faults + 1)
    BY <2>1 DEF MailOk, MailLost, Lose, rowVars
  <2>4. QED
    BY <1>0, <2>2, <2>3 DEF Once
<1>3. QED
  BY <1>1, <1>2, StatusWrites, NotifyWrites, AssomiWrites, AbortWrites, AcceptWrites, SpinWrites,
     PauseWrites, GlobalWrites, AggWrites
  DEF Next, WorkerNext, WorkerStep, ApiNext, AggNext, taskRest, batchRest, rowVars, seenVars, vars

\* NAT requests, notifications and e-mails are never more than the recorded ones
\* and the lost answers: at least once, and exactly once while no answer is lost.
THEOREM AtLeastOnce == Spec => []OnceUnlessLost
<1>1. Init => OnceUnlessLost
  BY PipelineAssumption DEF Init, OnceUnlessLost, Once
<1>2. TypeOK /\ Inv /\ OnceUnlessLost /\ [Next]_vars => OnceUnlessLost'
  <2> SUFFICES ASSUME TypeOK, Inv, OnceUnlessLost, [Next]_vars PROVE OnceUnlessLost'
    OBVIOUS
  <2>1. QED
    BY SendsOnce, NoticesOnce, MailsOnce DEF OnceUnlessLost
<1>3. QED
  BY <1>1, <1>2, Invariance, PTL DEF Spec

-----------------------------------------------------------------------------
(* All of it together, and what the monitoring list shows of it.           *)

\* Whatever runs and wherever a batch comes from, the pipeline is safe.
THEOREM AllSafe == Spec => []PipelineSafe
<1>1. ASSUME PauseIsBarrier, NotifiedOnlyWhenSettled, OneOutcomeTold, OnceUnlessLost, SingleStageStops
      PROVE  PipelineSafe
  BY <1>1 DEF PipelineSafe
<1>2. QED
  BY <1>1, PauseBarrier, NotifiedSettled, OneOutcome, AtLeastOnce, SingleStage, PTL

\* The counters of the monitoring list tell what the aggregator and the sender
\* were told: of a batch that was handed over nothing is left to do, and of one
\* that failed in NAT every task has failed.
THEOREM MonitoringTrue ==
  ASSUME IsFiniteSet(Tasks)
  PROVE  Spec => []MonitoringAgrees
<1>1. ASSUME NotifiedOnlyWhenSettled, OneOutcomeTold PROVE MonitoringAgrees
  <2> SUFFICES ASSUME NEW b \in Batches, Source[b] = "nat"
               PROVE  /\ notices[b] > 0 => PendingDispatch(b) + InProgress(b) = 0 /\ Completed(b) > 0
                      /\ "nat_failed" \in told[b] => FailedTasks(b) = Cardinality(TasksOf(b))
    BY DEF MonitoringAgrees
  <2>1. IsFiniteSet(TasksOf(b))
    BY FS_Subset DEF TasksOf
  <2>2. ASSUME ~HasNonTerminal(b) PROVE PendingDispatch(b) = 0 /\ InProgress(b) = 0
    <3>1. {t \in TasksOf(b) : task[t] \in {"ready"}} = {}
      BY <2>2 DEF HasNonTerminal
    <3>2. {t \in TasksOf(b) : task[t] \in {"inflight"}} = {}
      BY <2>2 DEF HasNonTerminal
    <3> QED
      BY <3>1, <3>2, FS_EmptySet DEF PendingDispatch, InProgress, CountOf
  <2>3. HasCompleted(b) <=> {t \in TasksOf(b) : task[t] \in {"completed"}} # {}
    BY DEF HasCompleted
  <2>4. ASSUME notices[b] > 0
        PROVE  PendingDispatch(b) + InProgress(b) = 0 /\ Completed(b) > 0
    <3>1. HasCompleted(b) /\ ~HasNonTerminal(b)
      BY <1>1, <2>4 DEF NotifiedOnlyWhenSettled
    <3>2. IsFiniteSet({t \in TasksOf(b) : task[t] \in {"completed"}})
      BY <2>1, FS_Subset
    <3>3. Completed(b) \in Nat /\ Completed(b) # 0
      BY <2>3, <3>1, <3>2, FS_EmptySet, FS_CardinalityType DEF Completed, CountOf
    <3> QED
      BY <2>2, <3>1, <3>3
  <2>5. ASSUME "nat_failed" \in told[b]
        PROVE  FailedTasks(b) = Cardinality(TasksOf(b))
    <3>1. Classify(b) = "nat_failed"
      BY <1>1, <2>5 DEF OneOutcomeTold
    <3>2. ~HasCompleted(b) /\ ~HasNonTerminal(b)
      BY <3>1 DEF Classify, NatAllFailed
    <3>3. Completed(b) = 0
      BY <2>3, <3>2, FS_EmptySet DEF Completed, CountOf
    <3>4. Cardinality(TasksOf(b)) \in Nat
      BY <2>1, FS_CardinalityType
    <3> QED
      BY <2>2, <3>2, <3>3, <3>4 DEF FailedTasks
  <2> QED
    BY <2>4, <2>5
<1>2. QED
  BY <1>1, NotifiedSettled, OneOutcome, PTL

-----------------------------------------------------------------------------
(* The pipeline implements BatchLife.                                      *)

\* A pause request that passed its checks is about a batch that was uploaded.
RequestKnown ==
  \A r \in Requests : apiReq[r] # NoRequest => apiReq[r].batch \in Batches /\ live[apiReq[r].batch]

LEMMA RequestStep ==
  ASSUME TypeOK, RequestKnown, [Next]_vars
  PROVE  RequestKnown'
<1> SUFFICES ASSUME NEW r \in Requests, apiReq'[r] # NoRequest
             PROVE  apiReq'[r].batch \in Batches /\ live'[apiReq'[r].batch]
  BY DEF RequestKnown, NoRequest
<1> USE DEF TypeOK, TypeCalls
<1>1. CASE apiReq'[r] = apiReq[r]
  BY <1>1, LiveStays DEF RequestKnown
<1>2. ASSUME NEW q \in Requests, NEW b \in Batches, NEW v \in BOOLEAN, PauseCheck(q, b, v),
             apiReq'[r] # apiReq[r]
      PROVE  apiReq'[r].batch \in Batches /\ live'[apiReq'[r].batch]
  <2>1. q = r /\ apiReq'[r].batch = b /\ live[b]
    BY <1>2 DEF PauseCheck
  <2>2. QED
    BY <2>1, LiveStays
<1>3. ASSUME NEW q \in Requests, PauseApply(q)
      PROVE  apiReq'[r] = apiReq[r]
  BY <1>3 DEF PauseApply
<1>4. QED
  BY <1>1, <1>2, <1>3, StatusWrites, NotifyWrites, AssomiWrites, MailWrites, AbortWrites,
     AcceptWrites, SpinWrites, GlobalWrites, AggWrites
  DEF Next, WorkerNext, WorkerStep, ApiNext, AggNext, quiet, vars

\* What the refinement rests on.
LifeInv == TypeOK /\ Inv /\ NotifiedOnlyWhenSettled /\ RequestKnown

LEMMA LifeInvariance == Spec => []LifeInv
<1>1. Init => RequestKnown
  BY DEF Init, RequestKnown
<1>2. QED
  BY <1>1, RequestStep, Invariance, NotifiedSettled, PTL DEF Spec, LifeInv

\* The rows BatchLife reads of a batch.
RowsKept(b) == /\ live'[b] = live[b] /\ agg'[b] = agg[b] /\ assomi'[b] = assomi[b]
               /\ TasksKept(b)

LEMMA SameRows ==
  ASSUME NEW b, RowsKept(b)
  PROVE  ReadyForMail(b)' = ReadyForMail(b) /\ Classify(b)' = Classify(b)
<1>1. NatAllFailed(b)' = NatAllFailed(b)
  BY DEF RowsKept, TasksKept, NatAllFailed, HasCompleted, HasNonTerminal, TasksOf
<1>2. QED
  BY <1>1 DEF RowsKept, ReadyForMail, Classify

\* What BatchLife sees of a batch stays.
SeenKept(b) == Phase(b)' = Phase(b) /\ Ending(b)' = Ending(b)

\* A batch looks the same while its rows and its notifications are the same.
LEMMA SameLook ==
  ASSUME NEW b, RowsKept(b), notices'[b] = notices[b]
  PROVE  SeenKept(b)
<1>1. Phase(b)' = Phase(b)
  BY SameRows DEF Phase, RowsKept
<1>2. QED
  BY <1>1, SameRows DEF Ending, SeenKept

\* One batch moves on, the others look the same.
LEMMA LifeMoves ==
  ASSUME NEW b \in Batches,
         \A c \in Batches \ {b} : SeenKept(c)
  PROVE  /\ Life!Moves(b, Phase(b), Phase(b)')
         /\ Ending(b)' = Ending(b) => UNCHANGED Endings
         /\ Phase(b)' = "ended" => Life!Ends(b, Phase(b), Ending(b)')
BY DEF Life!Moves, Life!Ends, Phases, Endings, SeenKept

LEMMA LifeKept ==
  ASSUME \A b \in Batches : SeenKept(b)
  PROVE  UNCHANGED <<Phases, Endings>>
BY DEF Phases, Endings, SeenKept

LEMMA LifeStutters ==
  ASSUME \A b \in Batches : SeenKept(b),
         UNCHANGED <<paused, single, told, emailed>>
  PROVE  UNCHANGED Life!lifeVars
BY LifeKept DEF Life!lifeVars

\* The tasks of a batch that NAT still has to finish keep it in its first phase.
LEMMA NatPhase ==
  ASSUME LifeInv, NEW b \in Batches, live[b], Source[b] = "nat", HasNonTerminal(b)
  PROVE  Phase(b) = "nat" /\ Ending(b) = "none" /\ agg[b] = "none" /\ assomi[b] = "none"
<1>1. ~(notices[b] > 0)
  BY DEF LifeInv, NotifiedOnlyWhenSettled
<1>2. agg[b] = "none" /\ assomi[b] = "none"
  BY <1>1 DEF LifeInv, Inv, Chain
<1>3. ~ReadyForMail(b)
  BY <1>2 DEF ReadyForMail, NatAllFailed
<1>4. QED
  BY <1>1, <1>2, <1>3 DEF Phase, Ending

LEMMA LifeStatus ==
  ASSUME LifeInv, NEW w \in StatusWorkers, StatusStep(w)
  PROVE  [Life!Next]_Life!lifeVars
<1> USE DEF LifeInv, TypeOK, TypeRows
<1>1. UNCHANGED <<taskRest, notices, told>>
  BY StatusWrites
<1>2. CASE UNCHANGED task
  BY <1>1, <1>2, SameLook, LifeStutters DEF taskRest, RowsKept, TasksKept
<1>3. CASE ~UNCHANGED task
  <2>1. /\ w \in Workers /\ pc[w] \in {"sending", "polling"}
        /\ \E s \in TaskStates : task' = [task EXCEPT ![ctask[w]] = s]
    BY <1>1, <1>3, Roles, StatusWrites
    DEF SendOk, SendRejected, SendLost, PollOk, PollRejected, SetTask, NatAnswers, TaskStates, rowVars
  <2>2. PICK t \in Tasks, b \in Batches :
          /\ t = ctask[w] /\ BatchOf[t] = b /\ live[b]
          /\ Source[b] = "nat" /\ task[t] \in {"ready", "inflight"}
    <3>1. ctask[w] \in Tasks /\ BatchOf[ctask[w]] = claim[w] /\ claim[w] # NoBatch
      BY <2>1 DEF Inv, Holding, Calling
    <3>2. live[claim[w]] /\ Source[claim[w]] = "nat" /\ task[ctask[w]] \in {"ready", "inflight"}
      BY <2>1, <3>1 DEF Inv, Fresh, ClaimHolds, StillSelected
    <3>3. QED
      BY <3>1, <3>2, PipelineAssumption
  <2>3. Phase(b) = "nat" /\ Ending(b) = "none" /\ agg[b] = "none" /\ assomi[b] = "none"
    BY <2>2, NatPhase DEF HasNonTerminal, TasksOf
  <2>4. \A c \in Batches \ {b} : SeenKept(c)
    BY <1>1, <2>1, <2>2, SameLook DEF taskRest, RowsKept, TasksKept, TasksOf
  <2>5. live'[b] /\ agg'[b] = "none" /\ assomi'[b] = "none" /\ notices'[b] = notices[b]
    BY <1>1, <2>2, <2>3 DEF taskRest
  <2>6. CASE NatAllFailed(b)'
    <3>1. Phase(b)' = "ended" /\ Ending(b)' = "nat_failed"
      BY <2>5, <2>6 DEF Phase, Ending, ReadyForMail, Classify
    <3>2. Life!NatFails(b)
      BY <1>1, <2>3, <2>4, <3>1, <2>2, LifeMoves DEF Life!NatFails, taskRest
    <3>3. QED
      BY <2>2, <3>2 DEF Life!Next
  <2>7. CASE ~NatAllFailed(b)'
    <3>1. ~(notices[b] > 0)
      BY <2>2 DEF NotifiedOnlyWhenSettled, HasNonTerminal, TasksOf
    <3>2. Phase(b)' = "nat" /\ Ending(b)' = "none"
      BY <2>2, <2>5, <2>7, <3>1 DEF Phase, Ending, ReadyForMail
    <3>3. QED
      BY <1>1, <2>3, <2>4, <3>2, LifeStutters DEF SeenKept, taskRest
  <2>8. QED
    BY <2>6, <2>7
<1>4. QED
  BY <1>2, <1>3

LEMMA LifeNotify ==
  ASSUME LifeInv, NEW w \in NotifyWorkers, NotifyStep(w)
  PROVE  [Life!Next]_Life!lifeVars
<1> USE DEF LifeInv, TypeOK, TypeRows, TypeSeen
<1>1. /\ UNCHANGED <<batchRest, single, told>>
      /\ \A b \in Batches : RowsKept(b)
  BY NotifyWrites DEF batchRest, RowsKept, TasksKept
<1>2. CASE UNCHANGED <<paused, notices>>
  BY <1>1, <1>2, SameLook, LifeStutters DEF batchRest
<1>3. ASSUME NEW b \in Batches, Pause(b), live[b], UNCHANGED notices
      PROVE  [Life!Next]_Life!lifeVars
  <2>1. \A c \in Batches : SeenKept(c)
    BY <1>1, <1>3, SameLook
  <2>2. Phase(b) # "absent"
    BY <1>3 DEF Phase
  <2>3. Life!Hold(b, TRUE)
    BY <1>1, <1>3, <2>1, <2>2, LifeKept DEF Life!Hold, Phases, Pause, batchRest
  <2>4. QED
    BY <2>3 DEF Life!Next
<1>4. CASE StopAllFailed(w) \/ StopSingleStage(w)
  <2>1. PICK b \in Batches : Pause(b) /\ live[b]
    BY <1>4 DEF StopAllFailed, StopSingleStage, OldestBatches, AllFailedSingleStage, Notifiable
  <2>2. QED
    BY <1>3, <1>4, <2>1 DEF StopAllFailed, StopSingleStage, seenVars
<1>5. CASE NotifyOk(w) \/ NotifyLost(w)
  <2>1. w \in Workers /\ pc[w] = "notifying"
    BY <1>5, Roles DEF NotifyOk, NotifyLost
  <2>2. PICK b \in Batches :
          /\ b = claim[w] /\ live[b] /\ Source[b] = "nat" /\ ~single[b] /\ ~paused[b]
          /\ HasCompleted(b) /\ ~HasNonTerminal(b)
    <3>1. claim[w] \in Batches
      BY <2>1 DEF TypeLoop, Inv, Holding, Calling
    <3>2. PICK b \in Batches : b = claim[w]
      BY <3>1
    <3>3. live[b] /\ StillSelected(w)
      BY <2>1, <3>2, PipelineAssumption DEF Inv, Fresh, ClaimHolds
    <3>4. QED
      BY <2>1, <3>2, <3>3 DEF StillSelected
  <2>3. /\ notices' = [notices EXCEPT ![b] = @ + 1] /\ UNCHANGED paused
        /\ notices[b] \in Nat /\ notices'[b] = notices[b] + 1
    BY <1>5, <2>2 DEF NotifyOk, NotifyLost, rowVars
  <2>4. \A c \in Batches \ {b} : SeenKept(c)
    BY <1>1, <2>3, SameLook
  <2>5. CASE Phase(b) = "nat"
    <3>1. Phase(b)' = "aggregation" /\ Ending(b)' = "none" /\ Ending(b) = "none"
      BY <1>1, <2>2, <2>3, <2>5, SameRows DEF Phase, Ending, RowsKept
    <3>2. Life!HandOver(b)
      BY <1>1, <2>2, <2>3, <2>4, <2>5, <3>1, LifeMoves DEF Life!HandOver, batchRest
    <3>3. QED
      BY <2>2, <3>2 DEF Life!Next
  <2>6. CASE Phase(b) # "nat"
    <3>1. Phase(b)' = Phase(b) /\ Ending(b)' = Ending(b)
      BY <1>1, <2>3, <2>6, SameRows DEF Phase, Ending, RowsKept
    <3>2. QED
      BY <1>1, <2>3, <2>4, <3>1, LifeStutters DEF SeenKept, batchRest
  <2>7. QED
    BY <2>5, <2>6
<1>6. QED
  BY <1>2, <1>4, <1>5 DEF NotifyStep, EndStop, ClaimNotify, EndNotify, NotifyFailed, rowVars, seenVars

LEMMA LifeAssomi ==
  ASSUME LifeInv, NEW w \in AssomiWorkers, AssomiStep(w)
  PROVE  [Life!Next]_Life!lifeVars
<1> USE DEF LifeInv, TypeOK, TypeRows, TypeLoop
<1>1. UNCHANGED <<live, single, emailed, task, agg, seenVars>> /\ w \in Workers
  BY AssomiWrites, Roles
<1>2. CASE UNCHANGED <<paused, assomi>>
  BY <1>1, <1>2, SameLook, LifeStutters DEF RowsKept, TasksKept, seenVars
<1>3. CASE EnsureCommit(w)
  <2> DEFINE new == {b \in enq[w] : assomi[b] = "none"}
  <2>1. /\ assomi' = [b \in Batches |-> IF b \in new THEN "pending" ELSE assomi[b]]
        /\ UNCHANGED paused /\ new \in SUBSET Batches
    BY <1>1, <1>3 DEF EnsureCommit
  <2>2. ASSUME NEW b \in Batches, b \notin new
        PROVE  SeenKept(b)
    BY <1>1, <2>1, <2>2, SameLook DEF RowsKept, TasksKept, seenVars
  <2>3. ASSUME NEW b \in new
        PROVE  /\ Phase(b) = "aggregated" /\ Phase(b)' = "enriching"
               /\ Ending(b) = "none" /\ Ending(b)' = "none"
    <3>1. /\ b \in Batches /\ live[b] /\ agg[b] \in {"spin", "blank"} /\ assomi[b] = "none"
          /\ Source[b] = "nat" => HasCompleted(b)
      BY <1>1, <2>1 DEF Inv, Fresh, Chain, NotifiedOnlyWhenSettled
    <3>2. ~NatAllFailed(b) /\ ~NatAllFailed(b)'
      BY <1>1, <3>1 DEF NatAllFailed, HasCompleted, HasNonTerminal, TasksOf
    <3>3. live'[b] /\ agg'[b] \in {"spin", "blank"} /\ assomi'[b] = "pending"
      BY <1>1, <2>1, <3>1
    <3>4. QED
      BY <3>1, <3>2, <3>3 DEF Phase, Ending, ReadyForMail
  <2>4. CASE new = {}
    BY <1>1, <2>1, <2>2, <2>4, LifeStutters DEF seenVars
  <2>5. CASE new # {}
    <3>1. Life!Enqueue(new)
      BY <1>1, <2>1, <2>2, <2>3, <2>5 DEF Life!Enqueue, Phases, Endings, SeenKept, seenVars
    <3>2. QED
      BY <2>1, <3>1 DEF Life!Next
  <2>6. QED
    BY <2>4, <2>5
<1>4. CASE AssomiDone(w)
  <2>1. PICK b \in Batches : b = claim[w] /\ live[b] /\ assomi[b] = "pending" /\ ~paused[b]
    <3>1. pc[w] = "fetching" /\ claim[w] \in Batches
      BY <1>1, <1>4 DEF AssomiDone, Inv, Holding, Calling
    <3>2. PICK b \in Batches : b = claim[w]
      BY <3>1
    <3>3. live[b] /\ StillSelected(w)
      BY <1>1, <3>2, PipelineAssumption DEF Inv, Fresh, ClaimHolds
    <3>4. QED
      BY <3>1, <3>2, <3>3 DEF StillSelected
  <2>2. PICK r \in {"completed", "failed"} : assomi' = [assomi EXCEPT ![b] = r]
    BY <1>4, <2>1 DEF AssomiDone
  <2>3. paused' = [paused EXCEPT ![b] = single[b]]
    BY <1>4, <2>1 DEF AssomiDone
  <2>4. \A c \in Batches \ {b} : SeenKept(c)
    BY <1>1, <2>2, SameLook DEF RowsKept, TasksKept, seenVars
  <2>5. agg[b] \in {"spin", "blank"} /\ (Source[b] = "nat" => HasCompleted(b))
    BY <2>1 DEF Inv, Chain, NotifiedOnlyWhenSettled
  <2>6. Phase(b) = "enriching" /\ Ending(b) = "none"
    BY <2>1, <2>5 DEF Phase, Ending, ReadyForMail, NatAllFailed
  <2>7. assomi'[b] = r /\ live'[b]
    BY <1>1, <2>1, <2>2
  <2>8. Phase(b)' = "ended" /\ Ending(b)' \in {"success", "assomi_failed"}
    BY <2>7 DEF Phase, Ending, ReadyForMail, Classify
  <2>9. Life!Enrich(b)
    BY <1>1, <2>1, <2>3, <2>4, <2>6, <2>8, LifeMoves DEF Life!Enrich, seenVars
  <2>10. QED
    BY <2>1, <2>9 DEF Life!Next
<1>5. QED
  BY <1>2, <1>3, <1>4, AssomiWrites

LEMMA LifeMail ==
  ASSUME LifeInv, NEW w \in MailWorkers, MailStep(w)
  PROVE  [Life!Next]_Life!lifeVars
<1> USE DEF LifeInv, TypeOK, TypeRows, TypeLoop, TypeSeen
<1>1. /\ UNCHANGED <<paused, single>> /\ w \in Workers
      /\ \A b \in Batches : SeenKept(b)
  BY MailWrites, Roles, SameLook DEF RowsKept, TasksKept
<1>2. CASE UNCHANGED <<emailed, told>>
  BY <1>1, <1>2, LifeStutters
<1>3. CASE MailOk(w) \/ MailLost(w)
  <2>1. pc[w] = "mailing" /\ claim[w] \in Batches
    BY <1>1, <1>3 DEF MailOk, MailLost, Inv, Holding, Calling
  <2>2. PICK b \in Batches : b = claim[w]
    BY <2>1
  <2>3. live[b] /\ StillSelected(w)
    BY <1>1, <2>2, PipelineAssumption DEF Inv, Fresh, ClaimHolds
  <2>4. /\ Phases[b] = "ended" /\ Endings[b] = Classify(b)
        /\ ~single[b] /\ ~emailed[b] /\ (RespectPause => ~paused[b])
    <3>1. Phase(b) = "ended" /\ Ending(b) = Classify(b)
      BY <2>1, <2>2, <2>3 DEF StillSelected, Phase, Ending
    <3>2. QED
      BY <2>1, <2>2, <2>3, <3>1 DEF StillSelected, Phases, Endings
  <2>5. told' = [told EXCEPT ![b] = @ \cup {Endings[b]}]
    BY <1>3, <2>2, <2>4 DEF MailOk, MailLost, Mailed
  <2>6. \E v \in BOOLEAN : emailed' = [emailed EXCEPT ![b] = v]
    <3>1. CASE MailOk(w)
      BY <2>2, <3>1 DEF MailOk
    <3>2. CASE MailLost(w)
      <4>1. emailed' = [emailed EXCEPT ![b] = FALSE]
        BY <2>4, <3>2 DEF MailLost, rowVars
      <4>2. QED
        BY <4>1
    <3>3. QED
      BY <1>3, <3>1, <3>2
  <2>7. Life!Report(b)
    BY <1>1, <2>4, <2>5, <2>6, LifeKept DEF Life!Report
  <2>8. QED
    BY <2>7 DEF Life!Next
<1>4. QED
  BY <1>2, <1>3, MailWrites

\* An upload puts its batch at the entry of its source.
LEMMA LifeAccept ==
  ASSUME LifeInv, NEW b \in Batches, NEW s \in BOOLEAN,
         AcceptNat(b, s) \/ AcceptAssomi(b, s) \/ AcceptSpin(b, s)
  PROVE  [Life!Next]_Life!lifeVars
<1> USE DEF LifeInv, TypeOK, TypeRows
<1>1. /\ UNCHANGED <<paused, emailed, told, notices>> /\ ~live[b] /\ live'[b]
      /\ single' = [single EXCEPT ![b] = s]
      /\ \A c \in Batches \ {b} : SeenKept(c)
  <2>1. single' = [single EXCEPT ![b] = s]
    BY DEF AcceptNat, AcceptAssomi, AcceptSpin, Upload
  <2>2. QED
    BY <2>1, AcceptWrites, SameLook DEF RowsKept, TasksKept, TasksOf, seenVars
<1>2. agg[b] = "none" /\ assomi[b] = "none" /\ notices[b] = 0
  BY <1>1 DEF Inv, Fresh
<1>3. Phase(b)' = Life!Entry(b) /\ Ending(b)' = "none"
  <2>1. CASE AcceptNat(b, s)
    <3>1. Source[b] = "nat" /\ agg'[b] = "none" /\ assomi'[b] = "none" /\ UNCHANGED task
      BY <1>2, <2>1 DEF AcceptNat
    <3>2. \E t \in TasksOf(b) : task'[t] = "ready"
      BY <1>1, <3>1, PipelineAssumption DEF Inv, Fresh, TasksOf
    <3>3. ~NatAllFailed(b)'
      BY <3>2 DEF NatAllFailed, HasNonTerminal, TasksOf
    <3>4. QED
      BY <1>1, <1>2, <3>1, <3>3 DEF Life!Entry, Phase, Ending, ReadyForMail
  <2>2. CASE AcceptAssomi(b, s)
    <3>1. Source[b] = "manual_assomi" /\ agg'[b] = "spin" /\ assomi'[b] = "pending"
      BY <2>2, AcceptWrites DEF AcceptAssomi
    <3>2. QED
      BY <1>1, <3>1 DEF Life!Entry, Phase, Ending, ReadyForMail, NatAllFailed
  <2>3. CASE AcceptSpin(b, s)
    <3>1. Source[b] = "manual_spin" /\ agg'[b] = "pending" /\ assomi'[b] = "none"
      BY <1>2, <2>3 DEF AcceptSpin, Upload
    <3>2. QED
      BY <1>1, <3>1 DEF Life!Entry, Phase, Ending, ReadyForMail, NatAllFailed
  <2>4. QED
    BY <2>1, <2>2, <2>3
<1>4. Phase(b) = "absent" /\ Ending(b) = "none"
  BY <1>1 DEF Phase, Ending
<1>5. Life!Arrive(b, s)
  BY <1>1, <1>3, <1>4, LifeMoves DEF Life!Arrive
<1>6. QED
  BY <1>5 DEF Life!Next

\* A pause or resume of an uploaded batch, seen from outside.
LEMMA LifeHold ==
  ASSUME LifeInv, NEW b \in Batches, live[b], NEW v \in BOOLEAN,
         paused' = [paused EXCEPT ![b] = v], single' = [single EXCEPT ![b] = @ /\ v],
         UNCHANGED <<told, emailed>>, \A c \in Batches : SeenKept(c)
  PROVE  [Life!Next]_Life!lifeVars
<1>1. Phase(b) # "absent"
  BY DEF Phase
<1>2. Life!Hold(b, v)
  BY <1>1, LifeKept DEF Life!Hold, Phases
<1>3. QED
  BY <1>2 DEF Life!Next

LEMMA LifeSpin ==
  ASSUME LifeInv, NEW b \in Batches, SpinStep(b)
  PROVE  [Life!Next]_Life!lifeVars
<1> USE DEF LifeInv, TypeOK, TypeRows, TypeSeen
<1>1. /\ UNCHANGED <<live, single, emailed, task, agg, assomi, told>>
      /\ \A c \in Batches : RowsKept(c)
  BY SpinWrites DEF RowsKept, TasksKept
<1>2. live[b] /\ Source[b] = "manual_spin"
  BY DEF SpinStep, SpinCallOk, SpinCallFailed, SpinCallLost, SpinMark, SpinMarkLost, Inv, Chain
<1>3. \A c \in Batches : SeenKept(c)
  <2>1. \A c \in Batches \ {b} : notices'[c] = notices[c]
    BY DEF SpinStep, SpinCallOk, SpinCallFailed, SpinCallLost, SpinMark, SpinMarkLost, SpinStarted,
       seenVars
  <2>2. \A c \in Batches \ {b} : SeenKept(c)
    BY <1>1, <2>1, SameLook
  <2>3. Phase(b)' = Phase(b)
    BY <1>1, <1>2, SameRows DEF Phase, RowsKept
  <2>4. SeenKept(b)
    BY <1>1, <2>3, SameRows DEF Ending, SeenKept
  <2>5. QED
    BY <2>2, <2>4
<1>4. CASE UNCHANGED paused
  BY <1>1, <1>3, <1>4, LifeStutters
<1>5. CASE ~UNCHANGED paused
  <2>1. paused' = [paused EXCEPT ![b] = TRUE]
    BY <1>5, SpinWrites DEF SpinMark
  <2>2. single' = [single EXCEPT ![b] = @ /\ TRUE]
    BY <1>1
  <2>3. QED
    BY <1>1, <1>2, <1>3, <2>1, <2>2, LifeHold
<1>6. QED
  BY <1>4, <1>5

LEMMA LifePause ==
  ASSUME LifeInv, NEW r \in Requests,
         PauseApply(r) \/ \E b \in Batches, v \in BOOLEAN : PauseCheck(r, b, v)
  PROVE  [Life!Next]_Life!lifeVars
<1> USE DEF LifeInv, TypeOK, TypeRows, TypeCalls
<1>1. UNCHANGED <<told, emailed>> /\ \A c \in Batches : SeenKept(c)
  BY PauseWrites, SameLook DEF RowsKept, TasksKept, batchRest, seenVars
<1>2. CASE UNCHANGED <<paused, single>>
  BY <1>1, <1>2, LifeStutters
<1>3. CASE PauseApply(r)
  <2>1. PICK b \in Batches, v \in BOOLEAN : b = apiReq[r].batch /\ v = apiReq[r].paused
    BY <1>3 DEF RequestKnown, PauseApply
  <2>2. /\ live[b] /\ paused' = [paused EXCEPT ![b] = v]
        /\ single' = [single EXCEPT ![b] = @ /\ v]
    BY <1>3, <2>1 DEF RequestKnown, PauseApply
  <2>3. QED
    BY <1>1, <2>2, LifeHold
<1>4. QED
  BY <1>2, <1>3, PauseWrites

LEMMA LifeAgg ==
  ASSUME LifeInv, NEW b \in Batches, AggCreate(b) \/ AggFinish(b)
  PROVE  [Life!Next]_Life!lifeVars
<1> USE DEF LifeInv, TypeOK, TypeRows, TypeSeen
<1>1. UNCHANGED <<live, paused, single, emailed, task, assomi, notices, told>>
  BY AggWrites DEF seenVars
<1>2. \A c \in Batches \ {b} : SeenKept(c)
  BY <1>1, SameLook DEF AggCreate, AggFinish, RowsKept, TasksKept
<1>3. /\ live[b] /\ notices[b] > 0 /\ agg[b] \in {"none", "pending"} /\ assomi[b] = "none"
      /\ Source[b] = "nat" => HasCompleted(b)
  BY DEF AggCreate, AggFinish, NotifiedOnlyWhenSettled, Inv, Fresh, Chain
<1>4. ~NatAllFailed(b) /\ ~NatAllFailed(b)'
  BY <1>1, <1>3 DEF NatAllFailed, HasCompleted, TasksOf
<1>5. Phase(b) = "aggregation" /\ Ending(b) = "none"
  BY <1>3, <1>4 DEF Phase, Ending, ReadyForMail
<1>6. live'[b] /\ assomi'[b] = "none" /\ notices'[b] > 0 /\ agg'[b] \in AggStates
  BY <1>1, <1>3, TypeAgg
<1>7. CASE agg'[b] \in {"none", "pending"}
  <2>1. Phase(b)' = "aggregation" /\ Ending(b)' = "none"
    BY <1>4, <1>6, <1>7 DEF Phase, Ending, ReadyForMail
  <2>2. QED
    BY <1>1, <1>2, <1>5, <2>1, LifeStutters DEF SeenKept
<1>8. CASE agg'[b] \in {"spin", "blank"}
  <2>1. Phase(b)' = "aggregated" /\ Ending(b)' = "none"
    BY <1>4, <1>6, <1>8 DEF Phase, Ending, ReadyForMail
  <2>2. Life!Aggregate(b)
    BY <1>1, <1>2, <1>5, <2>1, LifeMoves DEF Life!Aggregate
  <2>3. QED
    BY <2>2 DEF Life!Next
<1>9. CASE agg'[b] \in {"failed", "nospin"}
  <2>1. Phase(b)' = "ended" /\ Ending(b)' \in {"aggregation_failed", "no_spin"}
    BY <1>4, <1>6, <1>9 DEF Phase, Ending, ReadyForMail, Classify
  <2>2. Life!Aggregate(b)
    BY <1>1, <1>2, <1>5, <2>1, LifeMoves DEF Life!Aggregate
  <2>3. QED
    BY <2>2 DEF Life!Next
<1>10. QED
  BY <1>6, <1>7, <1>8, <1>9 DEF AggStates, AggEnds

LEMMA LifeStep ==
  ASSUME LifeInv, [Next]_vars
  PROVE  [Life!Next]_Life!lifeVars
<1>1. CASE UNCHANGED <<rowVars, seenVars>>
  BY <1>1, SameLook, LifeStutters DEF rowVars, seenVars, RowsKept, TasksKept
<1>2. CASE \E v \in BOOLEAN : GlobalPause(v)
  BY <1>2, SameLook, LifeStutters DEF GlobalPause, seenVars, RowsKept, TasksKept
<1>3. QED
  BY <1>1, <1>2, LifeStatus, LifeNotify, LifeAssomi, LifeMail, AbortWrites, LifeAccept, LifeSpin,
     LifePause, LifeAgg
  DEF Next, WorkerNext, WorkerStep, ApiNext, AggNext, vars

\* Whatever the workers, the API and the aggregation do at the same time, and
\* whichever answers are lost, a batch lives the life BatchLife describes: each
\* step takes it one stage on, tells its outcome, holds or resumes it, or is not
\* seen.  Claims, row locks and stale reads only restrict when that happens.
THEOREM Implements == Spec => ImplementsLife
<1>1. Init => Life!Init
  <2> SUFFICES ASSUME Init PROVE Life!Init
    OBVIOUS
  <2>1. \A b \in Batches : Phase(b) = "absent" /\ Ending(b) = "none"
    BY DEF Init, Phase, Ending
  <2>2. QED
    BY <2>1 DEF Init, Life!Init, Phases, Endings
<1>2. QED
  BY <1>1, LifeStep, LifeInvariance, PTL DEF Spec, ImplementsLife, Life!Spec
=============================================================================
