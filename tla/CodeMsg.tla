------------------------------ MODULE CodeMsg ------------------------------
(* The calls of the ASSOMI worker: which code_msg values a call offers, what  *)
(* it concludes from the answers, and the rows it writes.                      *)
(*                                                                             *)
(* Every request carries a code_msg, and the service refuses a value it has    *)
(* already seen.  A process counts through CodeMin..CodeMax in memory; another *)
(* replica, a restart or a lost answer make it offer values that are taken.    *)
(* What becomes of a task afterwards is NatPipeline's subject.                 *)
EXTENDS Integers, Sequences, SequencesExt

CONSTANTS
  Workers,          \* replicas of the worker, each with its own sequence
  Tasks,            \* assomi_tasks, numbered in the order of created_at
  File,             \* the logins in the spin_matched files of each task
  Unreadable,       \* tasks whose files are missing, foreign or undecodable
  Locals,           \* local parts of logins: the keys of the service
  Known,            \* local parts the service has an Abonent for
  Blank,            \* the empty local part
  CodeMin, CodeMax, CodeStart,
  MaxFaults         \* bound: lost or unusable answers, failed commits, restarts

ASSUME CodeAssumption ==
  /\ CodeMin \in Nat /\ CodeMax \in Nat /\ CodeStart \in CodeMin..CodeMax
  /\ Tasks \subseteq Nat
  /\ Blank \notin Locals /\ Known \subseteq Locals
  /\ MaxFaults \in Nat
  /\ File \in [Tasks -> Seq(Locals \cup {Blank})]

Codes     == CodeMin..CodeMax
RangeSize == CodeMax - CodeMin + 1
NoCode    == CodeMin - 1

\* An answer as far as the client looks at it.
Answers == [status : {200, 400, 429, 500}, xml : BOOLEAN,
            code : {"none", "success", "error"},
            message : {"none", "taken", "other"}, abonents : {{}, Known}]

VARIABLES
  pc,        \* of each worker: "idle", "loop", "sent", "answered"
  call,      \* its call: task, first value offered, attempts, what was concluded
  current,   \* the value its sequence stands at
  status, out,   \* of each task: assomi_tasks.status and the rows of its CSV
  taken,     \* the service: values it refuses
  served,    \* history: requests of the open call the service has served
  refused,   \* history: values refused in the open call
  spent,     \* history: values taken or used since the sequence started or wrapped
  faults

vars == <<pc, call, current, status, out, taken, served, refused, spent, faults>>
history == <<served, refused, spent>>

NoAnswer == [verdict |-> "none", abonents |-> {}]
NoCall   == [task |-> -1, first |-> NoCode, attempt |-> 0, retries |-> 0,
             answer |-> NoAnswer]

Init ==
  /\ pc = [w \in Workers |-> "idle"]
  /\ call = [w \in Workers |-> NoCall]
  /\ current = [w \in Workers |-> CodeStart]
  /\ status = [t \in Tasks |-> "pending"] /\ out = [t \in Tasks |-> << >>]
  /\ taken \in SUBSET Codes
  /\ served = [w \in Workers |-> 0]
  /\ refused = [w \in Workers |-> {}] /\ spent = [w \in Workers |-> {}]
  /\ faults = 0

-----------------------------------------------------------------------------
(* The sequence. *)

\* Mutant: the wrap-around comes one value too early.
NextCode_stopsEarly(c) == IF c + 1 >= CodeMax THEN CodeMin ELSE c + 1

NextCode(c) == IF c >= CodeMax THEN CodeMin ELSE c + 1

Advance(w) == current' = [current EXCEPT ![w] = NextCode(@)]

\* Mutant: a served value is not marked as used.
MarkUsedAndAdvance_forgets(w) == UNCHANGED current

\* After a call that consumed the value.
MarkUsedAndAdvance(w) == Advance(w)

\* The value is behind the sequence until it wraps.
Spend(w) == spent' = [spent EXCEPT ![w] = IF current[w] = CodeMax THEN {}
                                          ELSE @ \cup {current[w]}]

-----------------------------------------------------------------------------
(* Logins and rows. *)

\* Mutant: a local part is asked for once per login.
LoginSet_keepsRepeats(logins) == SelectSeq(logins, LAMBDA l : l # Blank)

\* The logins with a local part, each local part once, in order of appearance.
LoginSet(logins) ==
  LET seen[n \in 0 .. Len(logins)] ==
        IF n = 0 THEN << >>
        ELSE IF logins[n] = Blank \/ logins[n] \in ToSet(seen[n - 1]) THEN seen[n - 1]
        ELSE Append(seen[n - 1], logins[n])
  IN seen[Len(logins)]

\* The keys of each task's files.
Keys == [t \in Tasks |-> LoginSet(File[t])]

Rows(logins, abonents) ==
  [i \in DOMAIN logins |-> [local |-> logins[i], found |-> logins[i] \in abonents]]

-----------------------------------------------------------------------------
(* What the client makes of an answer. *)

Parse(a) ==
  CASE ~a.xml -> "permanent"
    [] a.xml /\ a.code # "error" /\ a.message = "none" -> "info"
    [] a.xml /\ a.message = "taken" -> "taken"
    [] OTHER -> "permanent"

\* Mutant: a timeout counts as a refused value.
Verdict_unusableIsTaken(a) ==
  CASE a.status \in {429, 500} -> "taken"
    [] a.status = 400 -> "permanent"
    [] OTHER -> Parse(a)

Verdict(a) ==
  CASE a.status \in {429, 500} -> "transient"
    [] a.status = 400 -> "permanent"
    [] OTHER -> Parse(a)

-----------------------------------------------------------------------------
(* The worker.  A call ends by recording the task or by leaving it pending. *)

Leave(w) ==
  /\ pc' = [pc EXCEPT ![w] = "idle"]
  /\ call' = [call EXCEPT ![w] = NoCall]
  /\ served' = [served EXCEPT ![w] = 0]
  /\ refused' = [refused EXCEPT ![w] = {}]

\* FOR UPDATE SKIP LOCKED: the oldest pending row nobody holds.
Claimable == {t \in Tasks : status[t] = "pending" /\ \A w \in Workers : call[w].task # t}
Oldest(t) == t \in Claimable /\ \A s \in Claimable : t <= s

\* The worker opens a call for a task that has logins.
Begin(w) ==
  /\ pc[w] = "idle"
  /\ \E t \in Tasks : /\ Oldest(t) /\ t \notin Unreadable /\ Keys[t] # << >>
                      /\ call' = [call EXCEPT ![w].task = t]
  /\ pc' = [pc EXCEPT ![w] = "loop"]
  /\ UNCHANGED <<current, status, out, taken, history, faults>>

\* Tasks without usable files fail, tasks without logins complete, with no call.
Settle(w) ==
  /\ pc[w] = "idle"
  /\ \E t \in Tasks :
       /\ Oldest(t) /\ (t \in Unreadable \/ Keys[t] = << >>)
       /\ status' = [status EXCEPT ![t] = IF t \in Unreadable THEN "failed" ELSE "completed"]
  /\ UNCHANGED <<pc, call, current, out, taken, history, faults>>

AllOffered(w) ==
  \/ call[w].attempt = RangeSize
  \/ call[w].first = current[w] /\ call[w].retries > 0

Send(w) ==
  /\ pc[w] = "loop" /\ ~AllOffered(w)
  /\ pc' = [pc EXCEPT ![w] = "sent"]
  /\ call' = [call EXCEPT ![w].first = IF @ = NoCode THEN current[w] ELSE @,
                          ![w].attempt = @ + 1]
  /\ UNCHANGED <<current, status, out, taken, history, faults>>

\* "code_msg range exhausted": a transient error, the task stays pending.
Exhausted(w) ==
  /\ pc[w] = "loop" /\ AllOffered(w)
  /\ Leave(w)
  /\ UNCHANGED <<current, status, out, taken, spent, faults>>

\* Mutant: the refused value is offered again.
OnTaken_staysPut(w) ==
  /\ pc[w] = "answered" /\ call[w].answer.verdict = "taken"
  /\ pc' = [pc EXCEPT ![w] = "loop"]
  /\ call' = [call EXCEPT ![w].retries = @ + 1, ![w].answer = NoAnswer]
  /\ UNCHANGED <<current, spent, status, out, taken, served, refused, faults>>

\* The value was taken: offer the next one.
OnTaken(w) ==
  /\ pc[w] = "answered" /\ call[w].answer.verdict = "taken"
  /\ Advance(w) /\ Spend(w)
  /\ pc' = [pc EXCEPT ![w] = "loop"]
  /\ call' = [call EXCEPT ![w].retries = @ + 1, ![w].answer = NoAnswer]
  /\ UNCHANGED <<status, out, taken, served, refused, faults>>

OnInfo(w) ==
  /\ pc[w] = "answered" /\ call[w].answer.verdict = "info"
  /\ MarkUsedAndAdvance(w) /\ Spend(w)
  /\ LET t == call[w].task
     IN /\ out' = [out EXCEPT ![t] = Rows(Keys[t], call[w].answer.abonents)]
        /\ \/ status' = [status EXCEPT ![t] = "completed"] /\ UNCHANGED faults
           \/ /\ faults < MaxFaults       \* the commit fails, the file is written
              /\ faults' = faults + 1 /\ UNCHANGED status
  /\ Leave(w)
  /\ UNCHANGED taken

OnPermanent(w) ==
  /\ pc[w] = "answered" /\ call[w].answer.verdict = "permanent"
  /\ status' = [status EXCEPT ![call[w].task] = "failed"]
  /\ Leave(w)
  /\ UNCHANGED <<current, out, taken, spent, faults>>

OnTransient(w) ==
  /\ pc[w] = "answered" /\ call[w].answer.verdict = "transient"
  /\ Leave(w)
  /\ UNCHANGED <<current, status, out, taken, spent, faults>>

\* A new process counts from CodeStart again.
Restart(w) ==
  /\ faults < MaxFaults /\ faults' = faults + 1
  /\ current' = [current EXCEPT ![w] = CodeStart]
  /\ spent' = [spent EXCEPT ![w] = {}]
  /\ Leave(w)
  /\ UNCHANGED <<status, out, taken>>

-----------------------------------------------------------------------------
(* The service. *)

Conclude(a) == [verdict |-> Verdict(a),
                abonents |-> IF Verdict(a) = "info" THEN a.abonents ELSE {}]

\* What the client concludes from the answers of the service, by their meaning.
Understood == {a \in Answers : a.status = 200 /\ a.xml}
Served     == {Conclude(a) : a \in {b \in Understood : b.code # "error" /\ b.message = "none"
                                                         /\ b.abonents = Known}}
Refusal    == {Conclude(a) : a \in {b \in Understood : b.code = "error" /\ b.message = "taken"}}
Denial     == {Conclude(a) : a \in {b \in Understood : b.code = "error" /\ b.message # "taken"}}
Unusable   == {Conclude(a) : a \in Answers \ Understood}

\* The client draws one of these conclusions.
Reply(w, conclusions) ==
  /\ pc' = [pc EXCEPT ![w] = "answered"]
  /\ \E c \in conclusions : call' = [call EXCEPT ![w].answer = c]

Serve(w) ==
  /\ pc[w] = "sent" /\ current[w] \notin taken
  /\ taken' = taken \cup {current[w]}
  /\ served' = [served EXCEPT ![w] = @ + 1]
  /\ Reply(w, Served)
  /\ UNCHANGED <<current, status, out, refused, spent, faults>>

Refuse(w) ==
  /\ pc[w] = "sent" /\ current[w] \in taken
  /\ refused' = [refused EXCEPT ![w] = @ \cup {current[w]}]
  /\ Reply(w, Refusal)
  /\ UNCHANGED <<current, status, out, taken, served, spent, faults>>

Deny(w) ==
  /\ pc[w] = "sent" /\ current[w] \notin taken
  /\ Reply(w, Denial)
  /\ UNCHANGED <<current, status, out, taken, history, faults>>

\* A timeout counts as status 500.  The request may have been served.
Fault(w) ==
  /\ pc[w] = "sent" /\ faults < MaxFaults /\ faults' = faults + 1
  /\ Reply(w, Unusable)
  /\ \/ /\ current[w] \notin taken /\ taken' = taken \cup {current[w]}
        /\ served' = [served EXCEPT ![w] = @ + 1]
     \/ UNCHANGED <<taken, served>>
  /\ UNCHANGED <<current, status, out, refused, spent>>

\* The service accepts a value again.
Forget == /\ \E c \in taken : taken' = taken \ {c}
          /\ UNCHANGED <<pc, call, current, status, out, history, faults>>
-----------------------------------------------------------------------------
Client(w) == \/ Begin(w) \/ Settle(w) \/ Send(w) \/ Exhausted(w)
             \/ OnTaken(w) \/ OnInfo(w) \/ OnPermanent(w) \/ OnTransient(w)
Service(w) == Serve(w) \/ Refuse(w) \/ Deny(w)

Done == (\A t \in Tasks : status[t] # "pending") /\ UNCHANGED vars

Next == \/ \E w \in Workers : Client(w) \/ Service(w) \/ Fault(w) \/ Restart(w)
        \/ Forget \/ Done

Spec == Init /\ [][Next]_vars

\* The worker loops for ever and the service answers; it need not forget.
FairSpec == Spec /\ \A w \in Workers : WF_vars(Client(w)) /\ WF_vars(Service(w))
-----------------------------------------------------------------------------
(* Properties. *)

\* A call gives up as "range exhausted" only after the service has refused
\* every value of the range in this very call, wherever the sequence stood
\* and across its wrap-around.
GivesUpOnlyWhenAllRefused ==
  [][\A w \in Workers : pc[w] = "loop" /\ pc'[w] = "idle" /\ faults' = faults
                          => refused[w] = Codes]_vars

\* Within one pass of one process no value is offered again once the sequence
\* has left it: refusals come from other replicas, restarts, lost answers and
\* wrap-arounds, never from the process repeating itself.
NoValueTwice ==
  \A w \in Workers : pc[w] = "sent" => current[w] \notin spent[w]

\* One call has at most one request served: no answer, however unusable, makes
\* the client offer the same logins again under another value.
OneRequestServed == \A w \in Workers : served[w] <= 1

\* A completed task has one row per local part of its files, in order of first
\* appearance, filled exactly when the service knows the key.
RowsAnswerFile ==
  \A t \in Tasks : status[t] = "completed" /\ t \notin Unreadable =>
    /\ {out[t][i].local : i \in DOMAIN out[t]} = ToSet(File[t]) \ {Blank}
    /\ \A i \in DOMAIN out[t] : out[t][i].found = (out[t][i].local \in Known)
    /\ IsInjective([i \in DOMAIN out[t] |-> out[t][i].local])
    /\ \A i, j \in DOMAIN out[t] : i < j =>
         SelectInSeq(File[t], LAMBDA l : l = out[t][i].local)
           < SelectInSeq(File[t], LAMBDA l : l = out[t][j].local)

\* Every task is decided in the end, although replicas start from the same value
\* and processes restart, if the service does not come to refuse every value of
\* the range for ever: one value it accepts is enough, wherever it lies.
EveryTaskDecided ==
  []<>(taken # Codes) => \A t \in Tasks : status[t] = "pending" ~> status[t] # "pending"
=============================================================================
