--------------------------- MODULE CodeMsgProofs ---------------------------
(* The code_msg sequence for every range, every start in it, any number of  *)
(* replicas and whatever values the service has seen, and the rows it writes *)
(* of every list of logins.                                                 *)
EXTENDS CodeMsg, DataLemmas, TLAPS

Points   == {"idle", "loop", "sent", "answered"}
Verdicts == {"none", "info", "taken", "permanent", "transient"}
TaskIds  == Tasks \cup {-1}
Concluded == [verdict : Verdicts, abonents : SUBSET Known]
Calls    == [task : TaskIds, first : Int, attempt : Int, retries : Nat, answer : Concluded]

SeqTypes ==
  /\ pc \in [Workers -> Points] /\ call \in [Workers -> Calls]
  /\ current \in [Workers -> Codes]
  /\ served \in [Workers -> Nat]
  /\ refused \in [Workers -> SUBSET Codes] /\ spent \in [Workers -> SUBSET Codes]
  /\ faults \in Nat

\* The values from f to before c, across the wrap-around, after r steps.
Between(f, c, r) ==
  IF r = 0 THEN {} ELSE IF f < c THEN f .. (c - 1) ELSE (f .. CodeMax) \cup (CodeMin .. (c - 1))

Steps(f, c) == IF f < c THEN c - f ELSE c - f + RangeSize

Taken(w) == pc[w] = "answered" /\ call[w].answer.verdict = "taken"

\* What a call has offered is what lies between its first value and the current
\* one; all of that was refused, and nothing else was.
Offered(w) ==
  LET k == call[w]
      c == current[w]
  IN /\ pc[w] = "idle" => k.first = NoCode
     /\ k.first = NoCode => k.retries = 0 /\ pc[w] \in {"idle", "loop"}
     /\ k.first # NoCode => /\ k.first \in Codes
                            /\ k.retries = 0 => c = k.first
                            /\ k.retries > 0 => k.retries = Steps(k.first, c)
     /\ k.attempt = IF pc[w] \in {"sent", "answered"} THEN k.retries + 1 ELSE k.retries
     /\ pc[w] \in {"sent", "answered"} => k.retries = 0 \/ k.first # c
     /\ refused[w] = Between(k.first, c, k.retries) \cup (IF Taken(w) THEN {c} ELSE {})

\* Only the answer that ends a call is of a request that was served.
ServedLast(w) == served[w] = IF pc[w] = "answered" /\ ~Taken(w) THEN served[w] ELSE 0

Good(w) == /\ Offered(w)
           /\ ServedLast(w) /\ served[w] <= 1
           /\ \A c \in spent[w] : c < current[w]

SeqInv == SeqTypes /\ \A w \in Workers : Good(w)

LEMMA CodeRange ==
  /\ CodeMin \in Nat /\ CodeMax \in Nat /\ CodeMin <= CodeMax
  /\ NoCode \in Int /\ NoCode \notin Codes /\ CodeStart \in Codes
BY CodeAssumption DEF Codes, NoCode

LEMMA Conclusions ==
  /\ Served \subseteq Concluded /\ \A c \in Served : c.verdict = "info"
  /\ Refusal \subseteq Concluded /\ \A c \in Refusal : c.verdict = "taken"
  /\ Denial \subseteq Concluded /\ \A c \in Denial : c.verdict = "permanent"
  /\ Unusable \subseteq Concluded /\ \A c \in Unusable : c.verdict # "taken"
<1>1. \A a \in Answers : Conclude(a) \in Concluded
  BY DEF Answers, Conclude, Verdict, Parse, Concluded, Verdicts
<1>2. \A a \in Answers : a.status # 200 \/ ~a.xml => Conclude(a).verdict # "taken"
  BY DEF Answers, Conclude, Verdict, Parse
<1>3. \A a \in Understood : a.code # "error" /\ a.message = "none" => Conclude(a).verdict = "info"
  BY DEF Understood, Answers, Conclude, Verdict, Parse
<1>4. \A a \in Understood : a.code = "error" /\ a.message = "taken" => Conclude(a).verdict = "taken"
  BY DEF Understood, Answers, Conclude, Verdict, Parse
<1>5. \A a \in Understood : a.code = "error" /\ a.message # "taken" => Conclude(a).verdict = "permanent"
  BY DEF Understood, Answers, Conclude, Verdict, Parse
<1>6. Understood \subseteq Answers
  BY DEF Understood
<1>7. \A a \in Answers \ Understood : a.status # 200 \/ ~a.xml
  BY DEF Understood
<1> QED
  BY <1>1, <1>2, <1>3, <1>4, <1>5, <1>6, <1>7 DEF Served, Refusal, Denial, Unusable

\* One more value refused, and the sequence moved on past it.
LEMMA OneStep ==
  ASSUME NEW f \in Codes, NEW c \in Codes, NEW r \in Nat,
         r = 0 => c = f, r > 0 => r = Steps(f, c) /\ f # c
  PROVE  /\ NextCode(c) \in Codes
         /\ r + 1 = Steps(f, NextCode(c))
         /\ Between(f, NextCode(c), r + 1) = Between(f, c, r) \cup {c}
<1> USE CodeRange
<1>1. CASE c = CodeMax
  <2>1. NextCode(c) = CodeMin /\ f >= CodeMin /\ f <= c
    BY <1>1 DEF NextCode, Codes
  <2>2. r + 1 = Steps(f, CodeMin)
    BY <1>1, <2>1 DEF Steps, RangeSize, Codes
  <2>3. Between(f, CodeMin, r + 1) = f .. c
    BY <1>1, <2>1 DEF Between, Codes
  <2>4. f .. c = Between(f, c, r) \cup {c}
    <3>1. CASE r = 0
      BY <2>1, <3>1 DEF Between, Codes
    <3>2. CASE r > 0
      BY <2>1, <3>2 DEF Between, Codes
    <3>3. QED
      BY <3>1, <3>2
  <2>5. QED
    BY <2>1, <2>2, <2>3, <2>4 DEF Codes
<1>2. CASE c < CodeMax
  BY <1>2 DEF NextCode, Steps, Between, Codes, RangeSize
<1> QED
  BY <1>1, <1>2 DEF Codes

\* What happens at one replica and the service leaves the other replicas alone.
LEMMA OthersKeep ==
  ASSUME SeqInv, NEW v \in Workers,
         pc'[v] = pc[v], call'[v] = call[v], current'[v] = current[v],
         served'[v] = served[v], refused'[v] = refused[v], spent'[v] = spent[v]
  PROVE  Good(v)'
<1>1. Good(v)
  BY DEF SeqInv
<1>2. Offered(v)'
  BY <1>1 DEF Good, Offered, Taken
<1>3. ServedLast(v)' /\ (served[v] <= 1)'
  BY <1>1 DEF Good, ServedLast, Taken
<1>4. QED
  BY <1>1, <1>2, <1>3 DEF Good

LEMMA InitHolds == Init => SeqInv
<1> SUFFICES ASSUME Init PROVE SeqInv
  OBVIOUS
<1>1. NoCall \in Calls
  BY CodeRange DEF NoCall, Calls, TaskIds, NoAnswer, Concluded, Verdicts
<1>2. SeqTypes
  BY <1>1, CodeRange, CodeAssumption DEF Init, SeqTypes, Points
<1>3. ASSUME NEW w \in Workers PROVE Good(w)
  BY <1>3, CodeRange DEF Init, Good, Offered, ServedLast, Taken, NoCall, Between
<1> QED
  BY <1>2, <1>3 DEF SeqInv

LEMMA LeaveGood ==
  ASSUME SeqInv, NEW w \in Workers, Leave(w), current'[w] \in Codes,
         \A c \in spent'[w] : c < current'[w]
  PROVE  /\ Good(w)'
         /\ pc' \in [Workers -> Points] /\ call' \in [Workers -> Calls]
         /\ served' \in [Workers -> Nat] /\ refused' \in [Workers -> SUBSET Codes]
         /\ \A v \in Workers \ {w} : /\ pc'[v] = pc[v] /\ call'[v] = call[v]
                                    /\ served'[v] = served[v] /\ refused'[v] = refused[v]
<1>1. NoCall \in Calls
  BY CodeRange DEF NoCall, Calls, TaskIds, NoAnswer, Concluded, Verdicts
<1>2. /\ pc' \in [Workers -> Points] /\ call' \in [Workers -> Calls]
      /\ served' \in [Workers -> Nat] /\ refused' \in [Workers -> SUBSET Codes]
      /\ pc'[w] = "idle" /\ call'[w] = NoCall /\ served'[w] = 0 /\ refused'[w] = {}
  BY <1>1 DEF SeqInv, SeqTypes, Leave, Points
<1>3. Good(w)'
  BY <1>2, CodeRange DEF Good, Offered, ServedLast, Taken, NoCall, Between
<1>4. QED
  BY <1>2, <1>3 DEF SeqInv, SeqTypes, Leave

LEMMA BeginKeeps ==
  ASSUME SeqInv, NEW w \in Workers, Begin(w)
  PROVE  SeqInv'
<1>0. PICK t \in TaskIds : call' = [call EXCEPT ![w].task = t]
  BY DEF Begin, Oldest, Claimable, TaskIds
<1>1. /\ call' \in [Workers -> Calls]
      /\ \A f \in {"first", "attempt", "retries", "answer"} : call'[w][f] = call[w][f]
      /\ \A v \in Workers \ {w} : call'[v] = call[v]
  BY <1>0 DEF SeqInv, SeqTypes, Calls
<1>2. SeqTypes'
  BY <1>1 DEF SeqInv, SeqTypes, history, Points, Begin
<1>3. Good(w)'
  BY <1>1 DEF SeqInv, SeqTypes, Good, Offered, ServedLast, Taken, history, Begin, Calls
<1>4. ASSUME NEW v \in Workers, v # w PROVE Good(v)'
  BY <1>1, <1>4, OthersKeep DEF SeqInv, SeqTypes, history, Begin
<1> QED
  BY <1>2, <1>3, <1>4 DEF SeqInv

LEMMA SendKeeps ==
  ASSUME SeqInv, NEW w \in Workers, Send(w)
  PROVE  SeqInv'
<1> DEFINE k == call[w]
           f == IF k.first = NoCode THEN current[w] ELSE k.first
<1>0. k \in Calls /\ current[w] \in Codes /\ f \in Codes /\ call \in [Workers -> Calls]
  BY DEF SeqInv, SeqTypes, Good, Offered
<1>1. /\ call' \in [Workers -> Calls]
      /\ call'[w].first = f /\ call'[w].attempt = k.attempt + 1
      /\ call'[w].retries = k.retries /\ call'[w].answer = k.answer
      /\ \A v \in Workers \ {w} : call'[v] = call[v]
  BY <1>0, CodeRange DEF Send, Calls, Codes
<1>2. SeqTypes'
  BY <1>1 DEF SeqInv, SeqTypes, history, Points, Send
<1>3. Good(w)'
  <2>1. /\ pc[w] = "loop" /\ pc'[w] = "sent" /\ k.retries \in Nat
        /\ current' = current /\ served' = served /\ refused' = refused /\ spent' = spent
    BY <1>0 DEF Send, history, SeqInv, SeqTypes, Calls
  <2>2. Good(w)
    BY DEF SeqInv
  <2>3. k.retries = 0 \/ f # current[w]
    BY <1>0, <2>1, <2>2 DEF Send, AllOffered, Good, Offered
  <2>4. refused[w] = Between(f, current[w], k.retries)
    BY <2>1, <2>2 DEF Good, Offered, Taken, Between
  <2>5. Offered(w)'
    BY <1>0, <1>1, <2>1, <2>2, <2>3, <2>4, CodeRange DEF Good, Offered, Taken
  <2>6. QED
    BY <2>1, <2>2, <2>5 DEF Good, ServedLast, Taken
<1>4. ASSUME NEW v \in Workers, v # w PROVE Good(v)'
  BY <1>1, <1>4, OthersKeep DEF SeqInv, SeqTypes, history, Send
<1> QED
  BY <1>2, <1>3, <1>4 DEF SeqInv

LEMMA OnTakenKeeps ==
  ASSUME SeqInv, NEW w \in Workers, OnTaken(w)
  PROVE  SeqInv'
<1> DEFINE k == call[w]
           c == current[w]
<1>0. /\ k \in Calls /\ c \in Codes /\ call \in [Workers -> Calls] /\ k.retries \in Nat
      /\ Good(w) /\ Taken(w)
  BY DEF SeqInv, SeqTypes, Calls, OnTaken, Taken
<1>1. /\ call' \in [Workers -> Calls]
      /\ call'[w].first = k.first /\ call'[w].attempt = k.attempt
      /\ call'[w].retries = k.retries + 1 /\ call'[w].answer = NoAnswer
      /\ \A v \in Workers \ {w} : call'[v] = call[v]
  BY <1>0 DEF OnTaken, Calls, NoAnswer, Concluded, Verdicts
<1>2. /\ k.first \in Codes /\ NextCode(c) \in Codes
      /\ k.retries + 1 = Steps(k.first, NextCode(c))
      /\ Between(k.first, NextCode(c), k.retries + 1) = refused[w]
  BY <1>0, OneStep DEF Good, Offered, Taken
<1>3. /\ pc[w] = "answered" /\ pc'[w] = "loop" /\ current'[w] = NextCode(c)
      /\ served' = served /\ refused' = refused
      /\ spent'[w] = IF c = CodeMax THEN {} ELSE spent[w] \cup {c}
      /\ \A v \in Workers \ {w} : pc'[v] = pc[v] /\ current'[v] = current[v] /\ spent'[v] = spent[v]
  BY DEF OnTaken, Advance, Spend, SeqInv, SeqTypes
<1>4. SeqTypes'
  BY <1>0, <1>1, <1>2 DEF SeqInv, SeqTypes, OnTaken, Advance, Spend, Points
<1>5. Good(w)'
  <2>1. Offered(w)'
    <3>1. k.first # NoCode /\ ~Taken(w)' /\ k.attempt = k.retries + 1
      BY <1>0, <1>2, <1>3, CodeRange DEF Good, Offered, Taken
    <3>2. refused'[w] = Between(call'[w].first, current'[w], call'[w].retries)
                          \cup (IF Taken(w)' THEN {current'[w]} ELSE {})
      BY <1>1, <1>2, <1>3, <3>1
    <3>3. QED
      BY <1>0, <1>1, <1>2, <1>3, <3>1, <3>2 DEF Offered
  <2>2. ServedLast(w)' /\ (served[w] <= 1)'
    BY <1>0, <1>3 DEF Good, ServedLast, Taken
  <2>3. \A x \in spent'[w] : x < current'[w]
    BY <1>0, <1>3, CodeRange DEF Good, NextCode, Codes, SeqInv, SeqTypes
  <2>4. QED
    BY <2>1, <2>2, <2>3 DEF Good
<1>6. ASSUME NEW v \in Workers, v # w PROVE Good(v)'
  BY <1>1, <1>3, <1>6, OthersKeep
<1> QED
  BY <1>4, <1>5, <1>6 DEF SeqInv

\* An answer is a refusal exactly when its value is one more refused, and no
\* refused request was served.
LEMMA ReplyKeeps ==
  ASSUME SeqInv, NEW w \in Workers, NEW C \in SUBSET Concluded, pc[w] = "sent", Reply(w, C),
         UNCHANGED <<current, spent>>, faults' \in Nat,
         NEW refusal \in BOOLEAN, NEW served1 \in {0, 1},
         \A c \in C : (c.verdict = "taken") = refusal,
         refusal => served1 = 0,
         refused' = IF refusal THEN [refused EXCEPT ![w] = @ \cup {current[w]}] ELSE refused,
         served' = IF served1 = 1 THEN [served EXCEPT ![w] = @ + 1] ELSE served
  PROVE  SeqInv'
<1> DEFINE k == call[w]
<1>0. /\ k \in Calls /\ current[w] \in Codes /\ call \in [Workers -> Calls]
      /\ served \in [Workers -> Nat] /\ refused \in [Workers -> SUBSET Codes]
      /\ Good(w) /\ served[w] = 0 /\ ~Taken(w)
  BY DEF SeqInv, SeqTypes, Good, ServedLast, Taken
<1>1. PICK c \in C : call' = [call EXCEPT ![w].answer = c]
  BY DEF Reply
<1>2. /\ call' \in [Workers -> Calls]
      /\ call'[w].first = k.first /\ call'[w].attempt = k.attempt
      /\ call'[w].retries = k.retries /\ call'[w].answer = c
      /\ \A v \in Workers \ {w} : call'[v] = call[v]
  BY <1>0, <1>1 DEF Calls
<1>3. /\ pc'[w] = "answered" /\ pc' \in [Workers -> Points]
      /\ \A v \in Workers \ {w} : pc'[v] = pc[v]
      /\ Taken(w)' = refusal
  BY <1>2 DEF Reply, SeqInv, SeqTypes, Points, Taken
<1>4. /\ served'[w] = served1 /\ served' \in [Workers -> Nat]
      /\ \A v \in Workers \ {w} : served'[v] = served[v]
  BY <1>0
<1>5. /\ refused'[w] = refused[w] \cup (IF refusal THEN {current[w]} ELSE {})
      /\ refused' \in [Workers -> SUBSET Codes]
      /\ \A v \in Workers \ {w} : refused'[v] = refused[v]
  BY <1>0
<1>6. SeqTypes'
  BY <1>2, <1>3, <1>4, <1>5 DEF SeqInv, SeqTypes
<1>7. Good(w)'
  <2>1. refused'[w] = Between(call'[w].first, current'[w], call'[w].retries)
                        \cup (IF Taken(w)' THEN {current'[w]} ELSE {})
    BY <1>0, <1>2, <1>3, <1>5 DEF Good, Offered
  <2>2. Offered(w)'
    BY <1>0, <1>2, <1>3, <2>1 DEF Good, Offered
  <2>3. QED
    BY <1>0, <1>3, <1>4, <2>2 DEF Good, ServedLast
<1>8. ASSUME NEW v \in Workers, v # w PROVE Good(v)'
  BY <1>2, <1>3, <1>4, <1>5, <1>8, OthersKeep
<1> QED
  BY <1>6, <1>7, <1>8 DEF SeqInv

LEMMA ServiceKeeps ==
  ASSUME SeqInv, NEW w \in Workers, Service(w) \/ Fault(w)
  PROVE  SeqInv'
<1>f. faults \in Nat /\ (Service(w) => faults' = faults) /\ (Fault(w) => faults' = faults + 1)
  BY DEF SeqInv, SeqTypes, Service, Serve, Refuse, Deny, Fault, history
<1>1. CASE Serve(w)
  <2>1. /\ Served \in SUBSET Concluded /\ pc[w] = "sent" /\ Reply(w, Served) /\ UNCHANGED <<current, spent>>
        /\ faults' \in Nat /\ FALSE \in BOOLEAN /\ 1 \in {0, 1}
        /\ \A c \in Served : (c.verdict = "taken") = FALSE
        /\ refused' = IF FALSE THEN [refused EXCEPT ![w] = @ \cup {current[w]}] ELSE refused
        /\ served' = IF 1 = 1 THEN [served EXCEPT ![w] = @ + 1] ELSE served
    BY <1>1, <1>f, Conclusions DEF Serve
  <2>2. QED
    BY <2>1, ReplyKeeps
<1>2. CASE Refuse(w)
  <2>1. /\ Refusal \in SUBSET Concluded /\ pc[w] = "sent" /\ Reply(w, Refusal) /\ UNCHANGED <<current, spent>>
        /\ faults' \in Nat /\ TRUE \in BOOLEAN /\ 0 \in {0, 1}
        /\ \A c \in Refusal : (c.verdict = "taken") = TRUE
        /\ refused' = IF TRUE THEN [refused EXCEPT ![w] = @ \cup {current[w]}] ELSE refused
        /\ served' = IF 0 = 1 THEN [served EXCEPT ![w] = @ + 1] ELSE served
    BY <1>2, <1>f, Conclusions DEF Refuse
  <2>2. QED
    BY <2>1, ReplyKeeps
<1>3. CASE Deny(w)
  <2>1. /\ Denial \in SUBSET Concluded /\ pc[w] = "sent" /\ Reply(w, Denial) /\ UNCHANGED <<current, spent>>
        /\ faults' \in Nat /\ FALSE \in BOOLEAN /\ 0 \in {0, 1}
        /\ \A c \in Denial : (c.verdict = "taken") = FALSE
        /\ refused' = IF FALSE THEN [refused EXCEPT ![w] = @ \cup {current[w]}] ELSE refused
        /\ served' = IF 0 = 1 THEN [served EXCEPT ![w] = @ + 1] ELSE served
    BY <1>3, <1>f, Conclusions DEF Deny, history
  <2>2. QED
    BY <2>1, ReplyKeeps
<1>4. CASE Fault(w) /\ UNCHANGED served
  <2>1. /\ Unusable \in SUBSET Concluded /\ pc[w] = "sent" /\ Reply(w, Unusable) /\ UNCHANGED <<current, spent>>
        /\ faults' \in Nat /\ FALSE \in BOOLEAN /\ 0 \in {0, 1}
        /\ \A c \in Unusable : (c.verdict = "taken") = FALSE
        /\ refused' = IF FALSE THEN [refused EXCEPT ![w] = @ \cup {current[w]}] ELSE refused
        /\ served' = IF 0 = 1 THEN [served EXCEPT ![w] = @ + 1] ELSE served
    BY <1>4, <1>f, Conclusions DEF Fault
  <2>2. QED
    BY <2>1, ReplyKeeps
<1>5. CASE Fault(w) /\ served' = [served EXCEPT ![w] = @ + 1]
  <2>1. /\ Unusable \in SUBSET Concluded /\ pc[w] = "sent" /\ Reply(w, Unusable) /\ UNCHANGED <<current, spent>>
        /\ faults' \in Nat /\ FALSE \in BOOLEAN /\ 1 \in {0, 1}
        /\ \A c \in Unusable : (c.verdict = "taken") = FALSE
        /\ refused' = IF FALSE THEN [refused EXCEPT ![w] = @ \cup {current[w]}] ELSE refused
        /\ served' = IF 1 = 1 THEN [served EXCEPT ![w] = @ + 1] ELSE served
    BY <1>5, <1>f, Conclusions DEF Fault
  <2>2. QED
    BY <2>1, ReplyKeeps
<1> QED
  BY <1>1, <1>2, <1>3, <1>4, <1>5 DEF Service, Fault

LEMMA EndKeeps ==
  ASSUME SeqInv, NEW w \in Workers,
         Exhausted(w) \/ OnInfo(w) \/ OnPermanent(w) \/ OnTransient(w) \/ Restart(w)
  PROVE  SeqInv'
<1>1. Leave(w) /\ faults' \in Nat
  BY DEF Exhausted, OnInfo, OnPermanent, OnTransient, Restart, SeqInv, SeqTypes
<1>2. /\ current' \in [Workers -> Codes] /\ spent' \in [Workers -> SUBSET Codes]
      /\ \A v \in Workers \ {w} : current'[v] = current[v] /\ spent'[v] = spent[v]
      /\ \A c \in spent'[w] : c < current'[w]
  <2>1. CASE OnInfo(w)
    BY <2>1, CodeRange
    DEF OnInfo, MarkUsedAndAdvance, Advance, Spend, NextCode, SeqInv, SeqTypes, Good, Codes
  <2>2. CASE Restart(w)
    BY <2>2, CodeRange DEF Restart, SeqInv, SeqTypes
  <2>3. CASE UNCHANGED <<current, spent>>
    BY <2>3 DEF SeqInv, SeqTypes, Good
  <2>4. QED
    BY <2>1, <2>2, <2>3 DEF Exhausted, OnPermanent, OnTransient
<1>3. SeqTypes'
  BY <1>1, <1>2, LeaveGood DEF SeqTypes
<1>4. Good(w)'
  BY <1>1, <1>2, LeaveGood
<1>5. ASSUME NEW v \in Workers, v # w PROVE Good(v)'
  BY <1>1, <1>2, <1>5, LeaveGood, OthersKeep
<1> QED
  BY <1>3, <1>4, <1>5 DEF SeqInv

LEMMA RestKeeps ==
  ASSUME SeqInv, UNCHANGED <<pc, call, current, served, refused, spent, faults>>
  PROVE  SeqInv'
<1>1. SeqTypes'
  BY DEF SeqInv, SeqTypes
<1>2. ASSUME NEW v \in Workers PROVE Good(v)'
  BY OthersKeep
<1> QED
  BY <1>1, <1>2 DEF SeqInv

(* The invariant: what a call has offered lies between its first value and the
   current one of the sequence, and all of it was refused. *)
THEOREM CallSoFar == Spec => []SeqInv
<1>1. SeqInv /\ [Next]_vars => SeqInv'
  <2> SUFFICES ASSUME SeqInv, [Next]_vars PROVE SeqInv'
    OBVIOUS
  <2>1. ASSUME NEW w \in Workers, Client(w) \/ Service(w) \/ Fault(w) \/ Restart(w)
        PROVE  SeqInv'
    <3>1. CASE Settle(w)
      BY <3>1, RestKeeps DEF Settle, history
    <3>2. QED
      BY <2>1, <3>1, BeginKeeps, SendKeeps, OnTakenKeeps, ServiceKeeps, EndKeeps DEF Client
  <2>2. CASE Forget \/ Done \/ UNCHANGED vars
    BY <2>2, RestKeeps DEF Forget, Done, vars, history
  <2>3. QED
    BY <2>1, <2>2 DEF Next
<1> QED
  BY InitHolds, <1>1, PTL DEF Spec

(* Within one pass of one process no value is offered again once the sequence
   has left it. *)
THEOREM NoneTwice == Spec => []NoValueTwice
<1>1. SeqInv => NoValueTwice
  BY CodeRange DEF SeqInv, SeqTypes, Good, NoValueTwice, Codes
<1> QED
  BY <1>1, CallSoFar, PTL

(* One call has at most one request served, whatever answers are lost. *)
THEOREM ServedOnce == Spec => []OneRequestServed
<1>1. SeqInv => OneRequestServed
  BY DEF SeqInv, Good, OneRequestServed
<1> QED
  BY <1>1, CallSoFar, PTL

(* A call that finds the range exhausted has been refused every value of it. *)
THEOREM GivesUpRefused == Spec => GivesUpOnlyWhenAllRefused
<1>1. ASSUME SeqInv, NEW w \in Workers, Exhausted(w)
      PROVE  refused[w] = Codes
  <2> DEFINE k == call[w]
             c == current[w]
  <2>1. k \in Calls /\ c \in Codes /\ Good(w) /\ k.retries \in Nat /\ pc[w] = "loop"
    BY <1>1 DEF SeqInv, SeqTypes, Calls, Exhausted
  <2>2. k.retries > 0 /\ k.first \in Codes /\ k.first = c
    BY <1>1, <2>1, CodeRange
    DEF Exhausted, AllOffered, Good, Offered, Steps, RangeSize, Codes
  <2>3. refused[w] = (c .. CodeMax) \cup (CodeMin .. (c - 1))
    BY <2>1, <2>2 DEF Good, Offered, Between, Taken, Codes
  <2>4. QED
    BY <2>1, <2>3, CodeRange DEF Codes
<1>2. ASSUME SeqInv, [Next]_vars, NEW w \in Workers, pc[w] = "loop", pc'[w] = "idle", faults' = faults
      PROVE  Exhausted(w)
  <2>1. pc \in [Workers -> Points] /\ faults \in Nat
    BY <1>2 DEF SeqInv, SeqTypes
  <2>2. ASSUME NEW v \in Workers, Client(v) \/ Service(v) \/ Fault(v) \/ Restart(v)
        PROVE  Exhausted(w)
    BY <1>2, <2>1, <2>2
    DEF Client, Begin, Settle, Send, Exhausted, OnTaken, OnInfo, OnPermanent, OnTransient, Leave,
        Service, Serve, Refuse, Deny, Reply, Fault, Restart, history
  <2>3. QED
    BY <1>2, <2>1, <2>2 DEF Next, Forget, Done, vars
<1>3. SeqInv /\ [Next]_vars
      => [\A w \in Workers : pc[w] = "loop" /\ pc'[w] = "idle" /\ faults' = faults
                               => refused[w] = Codes]_vars
  BY <1>1, <1>2
<1> QED
  BY <1>3, CallSoFar, PTL DEF Spec, GivesUpOnlyWhenAllRefused
-----------------------------------------------------------------------------
(* The rows of the answers. *)

Keyed == Locals \cup {Blank}

\* The place where a login first appears.
First(f, l) == SelectInSeq(f, LAMBDA x : x = l)

LEMMA FirstFacts ==
  ASSUME NEW f \in Seq(Keyed), NEW p \in 1 .. Len(f)
  PROVE  /\ First(f, f[p]) \in 1 .. Len(f) /\ f[First(f, f[p])] = f[p]
         /\ \A q \in 1 .. Len(f) : f[q] = f[p] => First(f, f[p]) <= q
<1> DEFINE I == {i \in 1 .. Len(f) : f[i] = f[p]}
<1>1. I \in SUBSET Nat /\ p \in I
  OBVIOUS
<1>2. \E m \in I : \A n \in I : m <= n
  BY <1>1, SmallestNumber
<1>3. First(f, f[p]) = Min(I)
  BY <1>1 DEF First, SelectInSeq
<1>4. Min(I) \in I /\ \A n \in I : Min(I) <= n
  BY <1>2 DEF Min
<1> QED
  BY <1>3, <1>4

\* What LoginSet has seen after n logins.
Seen(f) == CHOOSE g : g = [n \in 0 .. Len(f) |->
             IF n = 0 THEN << >>
             ELSE IF f[n] = Blank \/ f[n] \in ToSet(g[n - 1]) THEN g[n - 1]
             ELSE Append(g[n - 1], f[n])]

LEMMA SeenFacts ==
  ASSUME NEW f \in Seq(Keyed)
  PROVE  /\ LoginSet(f) = Seen(f)[Len(f)]
         /\ Seen(f) \in [0 .. Len(f) -> Seq(Keyed)]
         /\ Seen(f)[0] = << >>
         /\ \A n \in 1 .. Len(f) :
              Seen(f)[n] = IF f[n] = Blank \/ f[n] \in ToSet(Seen(f)[n - 1]) THEN Seen(f)[n - 1]
                           ELSE Append(Seen(f)[n - 1], f[n])
<1> DEFINE step == [a \in Nat \X Seq(Keyed) |->
                      IF a[1] \notin 1 .. Len(f) THEN a[2]
                      ELSE IF f[a[1]] = Blank \/ f[a[1]] \in ToSet(a[2]) THEN a[2]
                      ELSE Append(a[2], f[a[1]])]
           Solves(g) == g = [n \in 0 .. Len(f) |->
             IF n = 0 THEN << >>
             ELSE IF f[n] = Blank \/ f[n] \in ToSet(g[n - 1]) THEN g[n - 1]
             ELSE Append(g[n - 1], f[n])]
<1>1. step \in [Nat \X Seq(Keyed) -> Seq(Keyed)] /\ << >> \in Seq(Keyed) /\ Len(f) \in Nat
  OBVIOUS
<1>2. PICK g \in [0 .. Len(f) -> Seq(Keyed)] :
        g[0] = << >> /\ \A k \in 1 .. Len(f) : g[k] = step[<<k, g[k - 1]>>]
  <2>1. PICK g \in [0 .. Len(f) -> Seq(Keyed)] : g \in Runs(Seq(Keyed), << >>, step, Len(f))
    <3> HIDE DEF step
    <3> QED
      BY <1>1, Iteration
  <2> HIDE DEF step
  <2> QED
    BY <2>1 DEF Runs
<1>3. ASSUME NEW k \in 1 .. Len(f)
      PROVE  g[k] = IF f[k] = Blank \/ f[k] \in ToSet(g[k - 1]) THEN g[k - 1]
                    ELSE Append(g[k - 1], f[k])
  <2>1. <<k, g[k - 1]>> \in Nat \X Seq(Keyed)
    BY <1>2
  <2> QED
    BY <1>2, <2>1
<1>4. Solves(g)
  <2>1. ASSUME NEW n \in 0 .. Len(f)
        PROVE  g[n] = IF n = 0 THEN << >>
                      ELSE IF f[n] = Blank \/ f[n] \in ToSet(g[n - 1]) THEN g[n - 1]
                      ELSE Append(g[n - 1], f[n])
    <3>1. n = 0 \/ n \in 1 .. Len(f)
      BY <1>1
    <3> QED
      BY <1>2, <1>3, <3>1
  <2>2. g = [n \in 0 .. Len(f) |-> g[n]]
    OBVIOUS
  <2> QED
    BY <2>1, <2>2, Zenon
<1>5. Solves(Seen(f))
  BY <1>4 DEF Seen
<1>6. \A n \in 0 .. Len(f) : Seen(f)[n] =
             IF n = 0 THEN << >>
             ELSE IF f[n] = Blank \/ f[n] \in ToSet(Seen(f)[n - 1]) THEN Seen(f)[n - 1]
             ELSE Append(Seen(f)[n - 1], f[n])
  BY <1>5
<1>7. Seen(f) \in [0 .. Len(f) -> Seq(Keyed)]
  <2> DEFINE T == {n \in Nat : n <= Len(f) => Seen(f)[n] \in Seq(Keyed)}
  <2>1. 0 \in T
    <3>1. Seen(f)[0] = << >>
      BY <1>1, <1>6
    <3> QED
      BY <1>1, <3>1
  <2>2. ASSUME NEW n \in Nat, n \in T PROVE n + 1 \in T
    <3>1. SUFFICES ASSUME n + 1 <= Len(f) PROVE Seen(f)[n + 1] \in Seq(Keyed)
      OBVIOUS
    <3>2. Seen(f)[n] \in Seq(Keyed) /\ f[n + 1] \in Keyed /\ n + 1 \in 0 .. Len(f)
          /\ n + 1 # 0 /\ (n + 1) - 1 = n
      BY <1>1, <2>2, <3>1
    <3>3. Append(Seen(f)[n], f[n + 1]) \in Seq(Keyed)
      BY <3>2
    <3>4. Seen(f)[n + 1] = IF f[n + 1] = Blank \/ f[n + 1] \in ToSet(Seen(f)[n]) THEN Seen(f)[n]
                           ELSE Append(Seen(f)[n], f[n + 1])
      BY <1>6, <3>2
    <3> QED
      BY <3>2, <3>3, <3>4
  <2>3. \A n \in Nat : n \in T
    <3> HIDE DEF T
    <3> QED
      BY <2>1, <2>2, NatInductionOnSet
  <2>4. \A n \in 0 .. Len(f) : Seen(f)[n] \in Seq(Keyed)
    BY <2>3
  <2> QED
    BY <1>5, <2>4
<1>8. LoginSet(f) = Seen(f)[Len(f)]
  BY DEF LoginSet, Seen
<1>9. \A n \in 1 .. Len(f) : n \in 0 .. Len(f) /\ n # 0
  BY <1>1
<1>10. 0 \in 0 .. Len(f)
  BY <1>1
<1> QED
  BY <1>6, <1>7, <1>8, <1>9, <1>10, Zenon

\* Each local part once, in the order of first appearance.
LEMMA LoginSetFacts ==
  ASSUME NEW f \in Seq(Keyed)
  PROVE  LET K == LoginSet(f)
         IN /\ K \in Seq(Keyed)
            /\ ToSet(K) = ToSet(f) \ {Blank}
            /\ \A i, j \in 1 .. Len(K) : i < j => First(f, K[i]) < First(f, K[j])
<1> DEFINE K(n) == Seen(f)[n]
           Holds(n) == /\ {K(n)[i] : i \in 1 .. Len(K(n))} = {f[p] : p \in 1 .. n} \ {Blank}
                       /\ \A i, j \in 1 .. Len(K(n)) : i < j => First(f, K(n)[i]) < First(f, K(n)[j])
           T == {n \in Nat : n <= Len(f) => Holds(n)}
<1>0. Len(f) \in Nat
  OBVIOUS
<1>1. 0 \in T
  <2>1. K(0) = << >> /\ Len(K(0)) = 0 /\ 1 .. 0 = {}
    BY SeenFacts
  <2>2. {K(0)[i] : i \in {}} = {} /\ {f[p] : p \in {}} \ {Blank} = {}
    OBVIOUS
  <2>3. Holds(0)
    BY <2>1, <2>2
  <2> HIDE DEF Holds
  <2> QED
    BY <2>3
<1>2. ASSUME NEW n \in Nat, n \in T, n + 1 <= Len(f) PROVE Holds(n + 1)
  <2> DEFINE l == f[n + 1]
  <2>1. Holds(n) /\ K(n) \in Seq(Keyed) /\ l \in Keyed /\ n \in 0 .. Len(f) /\ n + 1 \in 1 .. Len(f)
    <3>1. n \in 0 .. Len(f) /\ n + 1 \in 1 .. Len(f) /\ l \in Keyed
      BY <1>0, <1>2
    <3>2. Holds(n)
      <4> HIDE DEF Holds
      <4> QED
        BY <1>0, <1>2
    <3>3. K(n) \in Seq(Keyed)
      BY <3>1, SeenFacts
    <3> QED
      BY <3>1, <3>2, <3>3
  <2>2. {f[p] : p \in 1 .. n + 1} = {f[p] : p \in 1 .. n} \cup {l}
    <3>1. 1 .. n + 1 = (1 .. n) \cup {n + 1}
      BY <2>1
    <3> QED
      BY <3>1
  <2>3. ToSet(K(n)) = {f[p] : p \in 1 .. n} \ {Blank}
    <3>1. DOMAIN K(n) = 1 .. Len(K(n))
      BY <2>1
    <3> HIDE DEF K
    <3> QED
      BY <2>1, <3>1 DEF ToSet
  <2>4. K(n + 1) = IF l = Blank \/ l \in ToSet(K(n)) THEN K(n) ELSE Append(K(n), l)
    BY <2>1, SeenFacts
  <2>5. CASE l = Blank \/ l \in ToSet(K(n))
    <3>1. {f[p] : p \in 1 .. n + 1} \ {Blank} = {f[p] : p \in 1 .. n} \ {Blank}
      BY <2>2, <2>3, <2>5
    <3>2. K(n + 1) = K(n)
      BY <2>4, <2>5
    <3> QED
      BY <2>1, <3>1, <3>2
  <2>6. CASE ~(l = Blank \/ l \in ToSet(K(n)))
    <3>1. K(n + 1) = Append(K(n), l) /\ Len(K(n + 1)) = Len(K(n)) + 1
      BY <2>1, <2>4, <2>6
    <3>2. \A i \in 1 .. Len(K(n)) : K(n + 1)[i] = K(n)[i]
      BY <2>1, <3>1
    <3>3. K(n + 1)[Len(K(n)) + 1] = l
      BY <2>1, <3>1
    <3>4. {K(n + 1)[i] : i \in 1 .. Len(K(n + 1))} = {K(n)[i] : i \in 1 .. Len(K(n))} \cup {l}
      <4>1. 1 .. Len(K(n + 1)) = (1 .. Len(K(n))) \cup {Len(K(n)) + 1}
        BY <2>1, <3>1
      <4> QED
        BY <3>2, <3>3, <4>1
    <3>5. First(f, l) = n + 1
      <4>1. First(f, l) \in 1 .. n + 1 /\ f[First(f, l)] = l
        BY <2>1, FirstFacts
      <4>2. First(f, l) \notin 1 .. n
        BY <2>3, <2>6, <4>1
      <4> QED
        BY <4>1, <4>2
    <3>6. ASSUME NEW i \in 1 .. Len(K(n)) PROVE First(f, K(n)[i]) <= n
      <4>1. PICK p \in 1 .. n : f[p] = K(n)[i]
        BY <2>1
      <4>0. p \in 1 .. Len(f)
        BY <1>0, <2>1
      <4>2. First(f, f[p]) <= p
        BY <1>0, <2>1, <4>1, <4>0, FirstFacts
      <4>3. First(f, f[p]) \in 1 .. Len(f)
        BY <4>0, FirstFacts
      <4> QED
        BY <4>1, <4>2, <4>3
    <3>6a. \A i \in 1 .. Len(K(n)) : First(f, K(n)[i]) < n + 1
      <4>1. ASSUME NEW i \in 1 .. Len(K(n)) PROVE First(f, K(n)[i]) \in Nat
        <5>1. PICK p \in 1 .. n : f[p] = K(n)[i]
          BY <2>1
        <5> QED
          BY <2>1, <5>1, FirstFacts
      <4> HIDE DEF K
      <4> QED
        BY <3>6, <4>1
    <3>7. ASSUME NEW i \in 1 .. Len(K(n + 1)), NEW j \in 1 .. Len(K(n + 1)), i < j
          PROVE  First(f, K(n + 1)[i]) < First(f, K(n + 1)[j])
      <4>1. i \in 1 .. Len(K(n)) /\ Len(K(n)) \in Nat
        BY <2>1, <3>1, <3>7
      <4>2. CASE j = Len(K(n)) + 1
        BY <3>2, <3>3, <3>5, <3>6a, <4>1, <4>2
      <4>3. CASE j # Len(K(n)) + 1
        <5>1. j \in 1 .. Len(K(n))
          BY <3>1, <4>1, <4>3
        <5> QED
          BY <2>1, <3>2, <3>7, <4>1, <5>1
      <4> QED
        BY <4>2, <4>3
    <3>8. {K(n + 1)[i] : i \in 1 .. Len(K(n + 1))} = {f[p] : p \in 1 .. n + 1} \ {Blank}
      BY <2>1, <2>2, <2>6, <3>4
    <3> QED
      BY <3>7, <3>8
  <2> QED
    BY <2>5, <2>6
<1>3. \A n \in Nat : n \in T
  <2>1. ASSUME NEW n \in Nat, n \in T PROVE n + 1 \in T
    <3> HIDE DEF Holds
    <3> QED
      BY <1>2, <2>1
  <2> HIDE DEF T
  <2> QED
    BY <1>1, <2>1, NatInductionOnSet
<1>4. Holds(Len(f))
  <2> HIDE DEF Holds
  <2> QED
    BY <1>3
<1>5. ToSet(f) = {f[p] : p \in 1 .. Len(f)}
  BY DEF ToSet
<1>6. LoginSet(f) = K(Len(f)) /\ K(Len(f)) \in Seq(Keyed)
  BY SeenFacts
<1>7. ToSet(K(Len(f))) = {K(Len(f))[i] : i \in 1 .. Len(K(Len(f)))}
  BY <1>6 DEF ToSet
<1> QED
  BY <1>4, <1>5, <1>6, <1>7

\* The rows an answer of the service gives to a task.
Answered(t) == Rows(Keys[t], Known)

\* An answer that was understood names all the service knows, and only such
\* answers have been written.
AnswerInv ==
  /\ DOMAIN status = Tasks /\ DOMAIN out = Tasks
  /\ \A w \in Workers : pc[w] = "answered" /\ call[w].answer.verdict = "info"
                          => call[w].answer.abonents = Known
  /\ \A t \in Tasks : out[t] \in {<< >>, Answered(t)}
  /\ \A t \in Tasks : status[t] = "completed" /\ t \notin Unreadable => out[t] = Answered(t)

LEMMA Meanings ==
  /\ \A c \in Served : c.abonents = Known
  /\ \A c \in Refusal \cup Denial \cup Unusable : c.verdict # "info"
<1>1. \A a \in Answers : a.status # 200 \/ ~a.xml => Conclude(a).verdict # "info"
  BY DEF Answers, Conclude, Verdict, Parse
<1>2. \A a \in Answers : Conclude(a).verdict = "info" => Conclude(a).abonents = a.abonents
  BY DEF Conclude
<1>3. \A a \in Understood : a.code # "error" /\ a.message = "none" => Conclude(a).verdict = "info"
  BY DEF Understood, Answers, Conclude, Verdict, Parse
<1>4. Understood \subseteq Answers /\ \A a \in Answers \ Understood : a.status # 200 \/ ~a.xml
  BY DEF Understood
<1>5. \A c \in Served : c.abonents = Known
  BY <1>2, <1>3, <1>4 DEF Served
<1>6. \A c \in Unusable : c.verdict # "info"
  BY <1>1, <1>4 DEF Unusable
<1> QED
  BY <1>5, <1>6, Conclusions

LEMMA NoKeysNoRows ==
  ASSUME NEW t \in Tasks, Keys[t] = << >>
  PROVE  Answered(t) = << >>
BY DEF Answered, Rows

\* What a call does until it is answered, and what ends it without rows.
LEMMA StillAnswered ==
  ASSUME AnswerInv, UNCHANGED out,
         \A w \in Workers : \/ pc'[w] # "answered"
                            \/ pc'[w] = pc[w] /\ call'[w] = call[w]
                            \/ call'[w].answer.verdict # "info"
                            \/ call'[w].answer.abonents = Known,
         DOMAIN status' = Tasks,
         \A t \in Tasks : status'[t] \in {status[t], "failed"}
  PROVE  AnswerInv'
BY DEF AnswerInv, Answered

LEMMA AnswersKeep ==
  ASSUME SeqInv, AnswerInv, [Next]_vars
  PROVE  AnswerInv'
<1>0. pc \in [Workers -> Points] /\ call \in [Workers -> Calls]
  BY DEF SeqInv, SeqTypes
<1>d. DOMAIN status = Tasks /\ DOMAIN out = Tasks
  BY DEF AnswerInv
<1>1. ASSUME NEW w \in Workers, Begin(w) \/ Send(w) \/ Exhausted(w) \/ OnTaken(w) \/ OnTransient(w) \/ Restart(w)
      PROVE  AnswerInv'
  <2>1. UNCHANGED <<out, status>> /\ pc'[w] # "answered"
        /\ \A v \in Workers \ {w} : pc'[v] = pc[v] /\ call'[v] = call[v]
    BY <1>0, <1>1 DEF Begin, Send, Exhausted, OnTaken, OnTransient, Restart, Leave
  <2> QED
    BY <1>d, <2>1, StillAnswered
<1>2. ASSUME NEW w \in Workers, NEW C, Reply(w, C), UNCHANGED <<out, status>>,
             \A c \in C : c.verdict = "info" => c.abonents = Known
      PROVE  AnswerInv'
  <2>1. PICK c \in C : call' = [call EXCEPT ![w].answer = c]
    BY <1>2 DEF Reply
  <2>2. call'[w].answer = c /\ \A v \in Workers \ {w} : pc'[v] = pc[v] /\ call'[v] = call[v]
    BY <1>0, <1>2, <2>1 DEF Reply, Calls
  <2> QED
    BY <1>d, <1>2, <2>2, StillAnswered
<1>3. ASSUME NEW w \in Workers, Service(w) \/ Fault(w) PROVE AnswerInv'
  BY <1>2, <1>3, Meanings DEF Service, Serve, Refuse, Deny, Fault
<1>4. ASSUME NEW w \in Workers, OnPermanent(w) PROVE AnswerInv'
  <2>1. UNCHANGED out /\ pc'[w] # "answered"
        /\ \A v \in Workers \ {w} : pc'[v] = pc[v] /\ call'[v] = call[v]
    BY <1>0, <1>4 DEF OnPermanent, Leave
  <2>2. DOMAIN status' = Tasks /\ \A t \in Tasks : status'[t] \in {status[t], "failed"}
    BY <1>d, <1>4 DEF OnPermanent
  <2> QED
    BY <2>1, <2>2, StillAnswered
<1>5. ASSUME NEW w \in Workers, Settle(w) PROVE AnswerInv'
  <2>1. PICK t \in Tasks : /\ t \in Unreadable \/ Keys[t] = << >>
                           /\ status' = [status EXCEPT ![t] = IF t \in Unreadable THEN "failed" ELSE "completed"]
    BY <1>5 DEF Settle
  <2>2. UNCHANGED <<pc, call, out>>
    BY <1>5 DEF Settle
  <2>3. t \in Unreadable \/ out[t] = Answered(t)
    BY <2>1, NoKeysNoRows DEF AnswerInv
  <2> QED
    BY <1>d, <2>1, <2>2, <2>3 DEF AnswerInv, Answered
<1>6. ASSUME NEW w \in Workers, OnInfo(w) PROVE AnswerInv'
  <2> DEFINE t == call[w].task
  <2>1. /\ call[w].answer.abonents = Known
        /\ out' = [out EXCEPT ![t] = Answered(t)]
        /\ pc'[w] # "answered"
        /\ \A v \in Workers \ {w} : pc'[v] = pc[v] /\ call'[v] = call[v]
    BY <1>0, <1>6 DEF OnInfo, Leave, AnswerInv, Answered
  <2>2. status' = [status EXCEPT ![t] = "completed"] \/ status' = status
    BY <1>6 DEF OnInfo
  <2> QED
    BY <1>d, <2>1, <2>2 DEF AnswerInv, Answered
<1>7. CASE Forget \/ Done \/ UNCHANGED vars
  <2>1. UNCHANGED <<pc, call, status, out>>
    BY <1>7 DEF Forget, Done, vars
  <2> QED
    BY <1>d, <2>1, StillAnswered
<1> QED
  BY <1>1, <1>3, <1>4, <1>5, <1>6, <1>7 DEF Next, Client

LEMMA AnswersInit == Init => AnswerInv
BY DEF Init, AnswerInv

\* The rows of an answered task are what RowsAnswerFile asks for.
LEMMA AnsweredRows ==
  ASSUME NEW t \in Tasks
  PROVE  LET rows == Answered(t)
         IN /\ {rows[i].local : i \in DOMAIN rows} = ToSet(File[t]) \ {Blank}
            /\ \A i \in DOMAIN rows : rows[i].found = (rows[i].local \in Known)
            /\ IsInjective([i \in DOMAIN rows |-> rows[i].local])
            /\ \A i, j \in DOMAIN rows : i < j => First(File[t], rows[i].local) < First(File[t], rows[j].local)
<1> DEFINE f == File[t]
           K == LoginSet(f)
           rows == Answered(t)
<1>1. f \in Seq(Keyed)
  BY CodeAssumption DEF Keyed
<1>2. /\ K \in Seq(Keyed) /\ ToSet(K) = ToSet(f) \ {Blank}
      /\ \A i, j \in 1 .. Len(K) : i < j => First(f, K[i]) < First(f, K[j])
  BY <1>1, LoginSetFacts
<1>3. DOMAIN K = 1 .. Len(K) /\ Len(K) \in Nat
  BY <1>2
<1>4. rows = [i \in DOMAIN K |-> [local |-> K[i], found |-> K[i] \in Known]]
  BY DEF Answered, Rows, Keys
<1> HIDE DEF K, f, rows
<1>5. DOMAIN rows = DOMAIN K /\ \A i \in DOMAIN K : rows[i].local = K[i] /\ rows[i].found = (K[i] \in Known)
  BY <1>4
<1>6. {rows[i].local : i \in DOMAIN rows} = ToSet(f) \ {Blank}
  <2>1. ToSet(K) = {K[i] : i \in DOMAIN K}
    BY DEF ToSet
  <2>2. \A i \in DOMAIN K : rows[i].local = K[i]
    BY <1>5
  <2>3. {rows[i].local : i \in DOMAIN rows} = {K[i] : i \in DOMAIN K}
    BY <1>5, <2>2
  <2> QED
    BY <1>2, <2>1, <2>3
<1>7. ASSUME NEW i \in DOMAIN K, NEW j \in DOMAIN K, K[i] = K[j] PROVE i = j
  <2>1. K[i] \in ToSet(f) /\ First(f, K[i]) \in Nat
    <3>1. K[i] \in ToSet(f)
      BY <1>2 DEF ToSet
    <3>2. PICK p \in 1 .. Len(f) : f[p] = K[i]
      BY <1>1, <3>1 DEF ToSet
    <3> QED
      BY <1>1, <3>1, <3>2, FirstFacts
  <2>2. ~(First(f, K[i]) < First(f, K[j]))
    BY <1>7, <2>1
  <2>3. ~(First(f, K[j]) < First(f, K[i]))
    BY <1>7, <2>1
  <2>4. i \in 1 .. Len(K) /\ j \in 1 .. Len(K)
    BY <1>3
  <2> QED
    BY <1>2, <1>3, <2>2, <2>3, <2>4
<1>8. IsInjective([i \in DOMAIN rows |-> rows[i].local])
  BY <1>5, <1>7 DEF IsInjective
<1> QED
  BY <1>2, <1>3, <1>5, <1>6, <1>8 DEF f, rows

(* A completed task has one row per local part of its files, in the order of
   first appearance, filled exactly when the service knows the key, whatever
   calls were lost, repeated or refused. *)
THEOREM RowsAnswered == Spec => []RowsAnswerFile
<1>1. AnswerInv => RowsAnswerFile
  <2> SUFFICES ASSUME AnswerInv, NEW t \in Tasks, status[t] = "completed", t \notin Unreadable
               PROVE  /\ {out[t][i].local : i \in DOMAIN out[t]} = ToSet(File[t]) \ {Blank}
                      /\ \A i \in DOMAIN out[t] : out[t][i].found = (out[t][i].local \in Known)
                      /\ IsInjective([i \in DOMAIN out[t] |-> out[t][i].local])
                      /\ \A i, j \in DOMAIN out[t] : i < j =>
                           SelectInSeq(File[t], LAMBDA l : l = out[t][i].local)
                             < SelectInSeq(File[t], LAMBDA l : l = out[t][j].local)
    BY DEF RowsAnswerFile
  <2>1. out[t] = Answered(t)
    BY DEF AnswerInv
  <2>2. ASSUME NEW i \in DOMAIN out[t], NEW j \in DOMAIN out[t], i < j
        PROVE  SelectInSeq(File[t], LAMBDA l : l = out[t][i].local)
                 < SelectInSeq(File[t], LAMBDA l : l = out[t][j].local)
    <3>1. First(File[t], out[t][i].local) < First(File[t], out[t][j].local)
      BY <2>1, <2>2, AnsweredRows
    <3> QED
      BY <3>1 DEF First
  <2>3. /\ {out[t][i].local : i \in DOMAIN out[t]} = ToSet(File[t]) \ {Blank}
        /\ \A i \in DOMAIN out[t] : out[t][i].found = (out[t][i].local \in Known)
        /\ IsInjective([i \in DOMAIN out[t] |-> out[t][i].local])
    BY <2>1, AnsweredRows
  <2> QED
    BY <2>2, <2>3
<1> QED
  BY <1>1, CallSoFar, AnswersInit, AnswersKeep, PTL DEF Spec
=============================================================================
