------------------------- MODULE IntakeDedupProofs -------------------------
(***************************************************************************)
(* The upload keeps its contract, for any number of uploads, any files and *)
(* any window: IntakeDedup implements IntakeContract.                      *)
(***************************************************************************)
EXTENDS IntakeDedup, TLAPS

Points  == {"new"} \cup Steps \cup Ends
Working == {"checking", "purging", "sweeping", "registering", "inserting"}

DedupTypes ==
  /\ clock \in Nat
  /\ keys \subseteq accepted /\ accepted \subseteq Registrations
  /\ rows \in [Uploads -> Seq(Keys \cup {Invalid})]
  /\ pc \in [Uploads -> Points]
  /\ next \in [Uploads -> Nat] /\ now \in [Uploads -> Nat]
  /\ arrived \in [Uploads -> Nat] /\ closed \in [Uploads -> Nat]
  /\ DOMAIN verdict = Uploads
  /\ put \in [Uploads -> SUBSET Registrations]
  /\ purged \in [Uploads -> SUBSET Registrations] /\ sweep \in [Uploads -> SUBSET Registrations]
  /\ stored \in [Uploads -> BOOLEAN] /\ batch \in [Uploads -> SUBSET Nat]

First(u, i)  == \A j \in DOMAIN rows[u] : j < i => rows[u][j] # rows[u][i]
Counts(r, u) == r.at + Window >= arrived[u] \/ closed[r.upload] >= arrived[u]

\* Every verdict so far is one the contract allows, and the rows still open are
\* first of their kind once they are checked.
Judged(u) ==
  /\ verdict[u] \in [DOMAIN rows[u] -> Verdicts]
  /\ \A i \in DOMAIN rows[u] :
       LET k == rows[u][i]
           v == verdict[u][i]
       IN /\ v = "invalid" <=> k = Invalid
          /\ v = "expansion" => k \in Untransformable
          /\ v = "registered" => k \notin Untransformable /\ First(u, i)
          /\ v = "repeated" => ~First(u, i) \/ \E r \in accepted : r.key = k /\ Counts(r, u)

\* How far the rows are.
Progress(u) ==
  /\ pc[u] = "new" => rows[u] = << >> /\ next[u] = 1
  /\ pc[u] = "inserting" => next[u] \in Open(u)
  /\ pc[u] \in {"registering", "inserting"} => \A i \in Open(u) : i >= next[u]
  /\ pc[u] = "checking" => \A i \in Open(u) : i < next[u] => First(u, i)
  /\ pc[u] \in Working \ {"checking"} =>
       \A i \in Open(u) : First(u, i) /\ rows[u][i] \notin Untransformable
  /\ pc[u] \in {"saving", "committing", "rejecting"} => Open(u) = {}
  /\ pc[u] \in {"saving", "committing"} => Registered(u) # {}
  /\ pc[u] \in {"checking", "purging", "sweeping", "rejecting"} => Registered(u) = {}

\* What the open transaction has inserted are the rows registered so far.
Inserted(u) ==
  /\ pc[u] \notin Steps => put[u] = {}
  /\ pc[u] \in Steps => /\ arrived[u] <= clock
                        /\ \A i \in Registered(u) : \E r \in put[u] : r.key = rows[u][i]
  /\ \A r \in put[u] : /\ r.upload = u /\ arrived[u] <= r.at /\ r.at <= r.put /\ r.put <= clock
                       /\ \E i \in Registered(u) : rows[u][i] = r.key
                       /\ \A s \in put[u] : s.key = r.key => s = r
                       /\ \A s \in accepted : s.key = r.key => s.at + Window < r.put
                       /\ \A v \in Uploads \ {u} : \A s \in put[v] : s.key # r.key
  /\ pc[u] = "inserting" => arrived[u] <= now[u] /\ now[u] <= clock

\* What it has deleted has expired; what it left counts for its verdicts.
Swept1(u) ==
  /\ pc[u] \notin Steps \/ pc[u] \in {"checking", "purging"} => purged[u] = {} /\ sweep[u] = {}
  /\ \A r \in purged[u] \cup sweep[u] : r.at + Window < clock
  /\ pc[u] \in {"sweeping", "registering", "inserting"} =>
       \A r \in keys \ purged[u] : r \in sweep[u] \/ Counts(r, u)
  /\ pc[u] \in {"registering", "inserting"} => sweep[u] = {}

\* File, batch and registrations of an upload belong together.
Kept(u) ==
  /\ batch[u] = {} \/ (batch[u] = Registered(u) /\ pc[u] \in {"accepted", "failed"})
  /\ pc[u] = "accepted" => stored[u] /\ batch[u] # {}
  /\ pc[u] = "committing" => stored[u]
  /\ stored[u] => pc[u] \in {"committing", "accepted", "dead"}
  /\ \A i \in batch[u] : \E r \in accepted : r.upload = u /\ r.key = rows[u][i]
  /\ \A r \in accepted : r.upload = u => \E i \in batch[u] : rows[u][i] = r.key

Good(u) == Judged(u) /\ Progress(u) /\ Inserted(u) /\ Swept1(u) /\ Kept(u)

\* What was accepted and is gone has expired.
Gone == \A r \in accepted \ keys : r.at + Window < clock

DedupInv == DedupTypes /\ Gone /\ \A u \in Uploads : Good(u)

LEMMA InitInv == Init => DedupInv
<1> SUFFICES ASSUME Init PROVE DedupInv
  OBVIOUS
<1>1. DedupTypes
  BY DedupAssumption DEF Init, DedupTypes, Points
<1>2. Gone
  BY DEF Init, Gone
<1>3. ASSUME NEW u \in Uploads PROVE Good(u)
  <2>1. DOMAIN rows[u] = {} /\ Open(u) = {} /\ Registered(u) = {}
    BY DEF Init, Open, Registered
  <2>2. Judged(u)
    <3>1. rows[u] = << >> /\ verdict[u] = << >>
      BY DEF Init
    <3>2. << >> \in [DOMAIN << >> -> Verdicts]
      OBVIOUS
    <3> QED
      BY <2>1, <3>1, <3>2 DEF Judged
  <2>3. Progress(u) /\ Inserted(u)
    BY <2>1 DEF Init, Progress, Inserted, Working, Steps
  <2>4. Swept1(u) /\ Kept(u)
    BY <2>1 DEF Init, Swept1, Kept, Steps
  <2>5. QED
    BY <2>2, <2>3, <2>4 DEF Good
<1> QED
  BY <1>1, <1>2, <1>3 DEF DedupInv

\* A step of one upload inside its transaction leaves the others alone, but
\* for the keys it inserts.
LEMMA OthersGood ==
  ASSUME DedupInv, NEW u \in Uploads, NEW v \in Uploads, u # v,
         UNCHANGED <<clock, keys, accepted, closed>>,
         rows'[v] = rows[v], pc'[v] = pc[v], next'[v] = next[v], verdict'[v] = verdict[v],
         now'[v] = now[v], put'[v] = put[v], purged'[v] = purged[v], sweep'[v] = sweep[v],
         stored'[v] = stored[v], batch'[v] = batch[v], arrived'[v] = arrived[v],
         \A w \in Uploads \ {u} : put'[w] = put[w],
         \A r \in put'[u] : r \in put[u] \/ \A s \in put[v] : s.key # r.key
  PROVE  Good(v)'
<1>0. Good(v)
  BY DEF DedupInv
<1>1. /\ Open(v)' = Open(v) /\ Registered(v)' = Registered(v)
      /\ \A i : First(v, i)' <=> First(v, i)
      /\ \A r : Counts(r, v)' <=> Counts(r, v)
  BY DEF Open, Registered, First, Counts
<1>2. Judged(v)'
  BY <1>0, <1>1 DEF Good, Judged
<1>3. Progress(v)'
  BY <1>0, <1>1 DEF Good, Progress
<1>4. Inserted(v)'
  BY <1>0, <1>1 DEF Good, Inserted
<1>5. Swept1(v)' /\ Kept(v)'
  BY <1>0, <1>1 DEF Good, Swept1, Kept
<1> QED
  BY <1>2, <1>3, <1>4, <1>5 DEF Good

Apart(u) == \A v \in Uploads \ {u} :
  /\ pc'[v] = pc[v] /\ next'[v] = next[v] /\ verdict'[v] = verdict[v] /\ now'[v] = now[v]
  /\ put'[v] = put[v] /\ purged'[v] = purged[v] /\ sweep'[v] = sweep[v]
  /\ stored'[v] = stored[v] /\ batch'[v] = batch[v]

LEMMA Inside ==
  ASSUME DedupInv, NEW u \in Uploads, UNCHANGED <<clock, keys, rows, seenVars>>, Apart(u),
         DedupTypes', Good(u)',
         \A r \in put'[u] : r \in put[u] \/ \A v \in Uploads \ {u} : \A s \in put[v] : s.key # r.key
  PROVE  DedupInv'
<1>1. ASSUME NEW v \in Uploads PROVE Good(v)'
  <2>1. CASE u = v
    BY <2>1
  <2>2. CASE u # v
    BY <2>2, OthersGood DEF Apart, seenVars
  <2> QED
    BY <2>1, <2>2
<1>2. Gone'
  BY DEF DedupInv, Gone, seenVars
<1> QED
  BY <1>1, <1>2 DEF DedupInv

\* What the invariant says of one upload.
LEMMA Facts ==
  ASSUME DedupInv, NEW u \in Uploads
  PROVE  /\ Judged(u) /\ Progress(u) /\ Inserted(u) /\ Swept1(u) /\ Kept(u)
         /\ DOMAIN rows[u] \subseteq Nat \ {0} /\ DOMAIN verdict[u] = DOMAIN rows[u]
         /\ next[u] \in Nat /\ clock \in Nat /\ arrived[u] \in Nat /\ Window \in Nat
         /\ \A i \in DOMAIN rows[u] : rows[u][i] \in Keys \cup {Invalid}
         /\ \A r \in accepted : r \in Registrations
<1>1. Good(u) /\ DedupTypes /\ Window \in Nat
  BY DedupAssumption DEF DedupInv
<1>2. rows[u] \in Seq(Keys \cup {Invalid})
  BY <1>1 DEF DedupTypes
<1>3. DOMAIN rows[u] = 1..Len(rows[u]) /\ Len(rows[u]) \in Nat
  BY <1>2
<1>4. \A i \in DOMAIN rows[u] : rows[u][i] \in Keys \cup {Invalid}
  BY <1>2, <1>3
<1>5. /\ next[u] \in Nat /\ clock \in Nat /\ arrived[u] \in Nat
      /\ \A r \in accepted : r \in Registrations
  BY <1>1 DEF DedupTypes
<1>6. DOMAIN verdict[u] = DOMAIN rows[u]
  BY <1>1 DEF Good, Judged
<1> QED
  BY <1>1, <1>3, <1>4, <1>5, <1>6 DEF Good

LEMMA CheckRowInv ==
  ASSUME DedupInv, NEW u \in Uploads, CheckRow(u) PROVE DedupInv'
<1> USE DEF txVars, fileVars, seenVars
<1>1. PICK i \in Foremost(u) :
        /\ verdict' = [verdict EXCEPT ![u][i] =
             IF \/ \E j \in DOMAIN rows[u] : j < i /\ rows[u][j] = rows[u][i]
                \/ \E r \in Visible(u) : r.key = rows[u][i] /\ InWindow(r, clock)
             THEN "repeated" ELSE "open"]
        /\ next' = [next EXCEPT ![u] = i + 1]
  BY DEF CheckRow
<1>2. /\ pc[u] = "checking" /\ pc[u] \in Steps
      /\ UNCHANGED <<clock, keys, rows, pc, now, txVars, fileVars, seenVars>>
  BY DEF CheckRow, Steps
<1>3. DedupTypes
  BY DEF DedupInv
<1>4. i \in DOMAIN rows[u] /\ i \in Nat /\ verdict[u][i] = "open" /\ i \in Open(u)
  BY <1>1, Facts DEF Foremost, Left, Open
<1>5. DedupTypes' /\ Apart(u)
  BY <1>1, <1>2, <1>3, <1>4 DEF DedupTypes, Apart
<1>6. put[u] = {} /\ purged[u] = {} /\ sweep[u] = {} /\ Registered(u) = {}
  BY <1>2, Facts DEF Inserted, Swept1, Progress
<1>7. /\ verdict'[u] = [verdict[u] EXCEPT ![i] = verdict'[u][i]]
      /\ verdict'[u][i] \in {"open", "repeated"}
      /\ verdict'[u][i] = "open" => First(u, i)
  BY <1>1, <1>3, <1>4, Facts DEF First, DedupTypes
<1>8. verdict'[u][i] = "repeated" => ~First(u, i) \/ \E r \in accepted : r.key = rows[u][i] /\ Counts(r, u)
  <2>1. SUFFICES ASSUME NEW r \in Visible(u), r.key = rows[u][i], InWindow(r, clock)
                 PROVE  r \in accepted /\ Counts(r, u)
    BY <1>1, <1>3, <1>4, Facts DEF First, DedupTypes
  <2>2. r \in accepted
    BY <1>3, <1>6 DEF Visible, DedupTypes
  <2>3. r.at \in Nat /\ arrived[u] <= clock
    BY <2>2, <1>2, Facts DEF Registrations, Inserted
  <2>4. Counts(r, u)
    BY <2>1, <2>3, Facts DEF InWindow, Counts
  <2> QED
    BY <2>2, <2>4
<1>9. Judged(u)'
  <2>1. /\ \A j : First(u, j)' <=> First(u, j)
        /\ \A r : Counts(r, u)' <=> Counts(r, u)
    BY <1>2 DEF First, Counts
  <2>2. verdict'[u] \in [DOMAIN rows[u] -> Verdicts]
    BY <1>7, <1>4, Facts DEF Judged, Verdicts
  <2>3. ASSUME NEW j \in DOMAIN rows[u], j # i PROVE verdict'[u][j] = verdict[u][j]
    BY <2>3, <1>7, Facts
  <2>4. verdict'[u][i] # "invalid" /\ rows[u][i] # Invalid
    BY <1>4, <1>7, Facts DEF Judged
  <2> QED
    BY <1>2, <1>7, <1>8, <2>1, <2>2, <2>3, <2>4, Facts DEF Judged
<1>10. Progress(u)'
  <2>1. Registered(u)' = {}
    BY <1>2, <1>4, <1>6, <1>7, Facts DEF Registered
  <2>2. ASSUME NEW j \in Open(u)', j < next'[u] PROVE First(u, j)'
    <3>1. j \in DOMAIN rows[u] /\ j \in Nat /\ next'[u] = i + 1
      BY <1>1, <1>2, <1>3, Facts DEF Open, DedupTypes
    <3>2. CASE j = i
      BY <3>2, <1>7, <2>2, <1>2 DEF Open, First
    <3>3. CASE j # i
      <4>1. j \in Open(u) /\ j < i
        BY <3>1, <3>3, <2>2, <1>2, <1>4, <1>7, Facts DEF Open
      <4>2. j < next[u]
        BY <4>1, <1>1, <1>4, <3>1, Facts DEF Foremost, Left
      <4> QED
        BY <4>1, <4>2, <1>2, Facts DEF Progress, First
    <3> QED
      BY <3>2, <3>3
  <2> QED
    BY <1>2, <2>1, <2>2 DEF Progress, Working
<1>11. Inserted(u)' /\ Swept1(u)'
  <2>1. Registered(u)' = {}
    BY <1>2, <1>4, <1>6, <1>7, Facts DEF Registered
  <2> QED
    BY <1>2, <1>6, <2>1, Facts DEF Inserted, Swept1
<1>12. Kept(u)'
  BY <1>2, Facts DEF Kept
<1> QED
  BY <1>2, <1>5, <1>6, <1>9, <1>10, <1>11, <1>12, Inside DEF Good

LEMMA TransformInv ==
  ASSUME DedupInv, NEW u \in Uploads, Transform(u) PROVE DedupInv'
<1> USE DEF txVars, fileVars, seenVars
<1>1. /\ pc[u] = "checking" /\ pc[u] \in Steps /\ Left(u) = {}
      /\ UNCHANGED <<clock, keys, rows, next, now, txVars, fileVars, seenVars>>
  BY DEF Transform, Steps
<1>2. DedupTypes
  BY DEF DedupInv
<1>3. /\ verdict'[u] = [i \in DOMAIN rows[u] |->
           IF i \in Open(u) /\ rows[u][i] \in Untransformable THEN "expansion" ELSE verdict[u][i]]
      /\ DOMAIN verdict' = Uploads
      /\ \A v \in Uploads \ {u} : verdict'[v] = verdict[v]
  BY <1>2 DEF Transform, DedupTypes
<1>4. /\ pc' = [pc EXCEPT ![u] = pc'[u]]
      /\ pc'[u] = IF \E i \in Open(u) : rows[u][i] \notin Untransformable
                  THEN "purging" ELSE "rejecting"
  BY <1>2 DEF Transform, Goto, DedupTypes
<1>5. DedupTypes' /\ Apart(u)
  BY <1>1, <1>2, <1>3, <1>4 DEF DedupTypes, Apart, Points, Steps
<1>6. put[u] = {} /\ purged[u] = {} /\ sweep[u] = {} /\ Registered(u) = {}
  BY <1>1, Facts DEF Inserted, Swept1, Progress
<1>7. /\ Open(u)' = {i \in Open(u) : rows[u][i] \notin Untransformable}
      /\ Registered(u)' = {}
  BY <1>1, <1>3, <1>6, Facts DEF Open, Registered
<1>8. \A i \in Open(u) : First(u, i)
  BY <1>1, Facts DEF Left, Open, Progress
<1>9. Judged(u)'
  <2>1. /\ \A j : First(u, j)' <=> First(u, j)
        /\ \A r : Counts(r, u)' <=> Counts(r, u)
    BY <1>1 DEF First, Counts
  <2>2. verdict'[u] \in [DOMAIN rows[u] -> Verdicts]
    BY <1>3, Facts DEF Judged, Verdicts
  <2>3. ASSUME NEW j \in DOMAIN rows[u]
        PROVE  \/ verdict'[u][j] = verdict[u][j]
               \/ /\ verdict'[u][j] = "expansion" /\ verdict[u][j] = "open"
                  /\ rows[u][j] \in Untransformable
    BY <1>3 DEF Open
  <2> QED
    BY <1>1, <2>1, <2>2, <2>3, Facts DEF Judged
<1>10. Progress(u)'
  <2>1. \A i \in Open(u)' : First(u, i)' /\ rows'[u][i] \notin Untransformable
    BY <1>1, <1>7, <1>8 DEF First
  <2>2. pc'[u] = "rejecting" => Open(u)' = {}
    BY <1>4, <1>7
  <2> QED
    BY <1>4, <1>7, <2>1, <2>2 DEF Progress, Working
<1>11. Inserted(u)' /\ Swept1(u)'
  BY <1>1, <1>4, <1>6, <1>7, Facts DEF Inserted, Swept1, Steps
<1>12. Kept(u)'
  BY <1>1, <1>4, Facts DEF Kept
<1> QED
  BY <1>1, <1>5, <1>6, <1>9, <1>10, <1>11, <1>12, Inside DEF Good

\* A step that gives no verdict and inserts nothing: what is left to show.
LEMMA Unjudged ==
  ASSUME DedupInv, NEW u \in Uploads, pc[u] \in Steps, pc'[u] \in Steps,
         UNCHANGED <<clock, keys, rows, verdict, put, batch, seenVars>>, Apart(u), DedupTypes',
         pc'[u] = "inserting" => arrived[u] <= now'[u] /\ now'[u] <= clock,
         Progress(u)', Swept1(u)',
         pc'[u] = "committing" => stored'[u], stored'[u] => pc'[u] = "committing"
  PROVE  DedupInv'
<1> USE DEF seenVars
<1>1. /\ Open(u)' = Open(u) /\ Registered(u)' = Registered(u)
      /\ \A i : First(u, i)' <=> First(u, i)
      /\ \A r : Counts(r, u)' <=> Counts(r, u)
  BY DEF Open, Registered, First, Counts
<1>2. Judged(u)'
  BY <1>1, Facts DEF Judged
<1>3. Inserted(u)'
  BY <1>1, Facts DEF Inserted, Apart
<1>4. Kept(u)'
  <2>1. batch[u] = {} /\ \A r \in accepted : r.upload # u
    BY Facts DEF Kept, Steps
  <2> QED
    BY <2>1 DEF Kept, Steps
<1>5. \A r \in put'[u] : r \in put[u]
  OBVIOUS
<1> QED
  BY <1>2, <1>3, <1>4, <1>5, Inside DEF Good

LEMMA PurgeInv ==
  ASSUME DedupInv, NEW u \in Uploads, Purge(u) PROVE DedupInv'
<1> USE DEF txVars, fileVars, seenVars
<1>1. /\ pc[u] = "purging" /\ pc[u] \in Steps
      /\ UNCHANGED <<clock, keys, rows, next, verdict, now, put, purged, fileVars, seenVars>>
      /\ purged[u] = {} /\ put[u] = {}
  BY Facts DEF Purge, Steps, Inserted, Swept1, Progress
<1>2. DedupTypes
  BY DEF DedupInv
<1>3. /\ pc' = [pc EXCEPT ![u] = "sweeping"] /\ pc'[u] = "sweeping"
      /\ sweep' = [sweep EXCEPT ![u] = Expired(u)] /\ sweep'[u] = Expired(u)
  BY <1>2 DEF Purge, Goto, DedupTypes
<1>4. Expired(u) = {r \in keys : ~InWindow(r, clock)} /\ keys \subseteq Registrations
  BY <1>1, <1>2 DEF Expired, Visible, DedupTypes
<1>5. DedupTypes' /\ Apart(u)
  <2>1. DedupTypes'
    BY <1>1, <1>2, <1>3, <1>4 DEF DedupTypes, Points, Steps
  <2>2. Apart(u)
    BY <1>1, <1>2, <1>3 DEF DedupTypes, Apart
  <2> QED
    BY <2>1, <2>2
<1>6. Progress(u)'
  BY <1>1, <1>3, Facts DEF Progress, Working, First, Open, Registered
<1>7. Swept1(u)'
  <2>1. ASSUME NEW r \in keys
        PROVE  IF r \in sweep'[u] THEN r.at + Window < clock ELSE Counts(r, u)
    <3>1. r.at \in Nat /\ arrived[u] <= clock
      BY <1>1, <1>4, Facts DEF Registrations, Inserted
    <3> QED
      BY <1>3, <1>4, <3>1, Facts DEF InWindow, Counts
  <2>2. \A r : Counts(r, u)' <=> Counts(r, u)
    BY <1>1 DEF Counts
  <2> QED
    BY <1>1, <1>3, <1>4, <2>1, <2>2 DEF Swept1, Steps
<1>8. ~stored[u]
  BY <1>1, Facts DEF Kept
<1> QED
  BY <1>1, <1>3, <1>5, <1>6, <1>7, <1>8, Unjudged DEF Steps

LEMMA SweepRowInv ==
  ASSUME DedupInv, NEW u \in Uploads, SweepRow(u) PROVE DedupInv'
<1> USE DEF txVars, fileVars, seenVars
<1>1. /\ pc[u] = "sweeping" /\ pc[u] \in Steps
      /\ UNCHANGED <<clock, keys, rows, pc, next, verdict, now, put, fileVars, seenVars>>
  BY DEF SweepRow, Steps
<1>2. DedupTypes
  BY DEF DedupInv
<1>3. PICK r \in sweep[u] : /\ sweep' = [sweep EXCEPT ![u] = @ \ {r}]
                            /\ purged' = [purged EXCEPT ![u] = @ \cup ({r} \cap keys)]
  BY DEF SweepRow
<1>4. sweep'[u] = sweep[u] \ {r} /\ purged'[u] = purged[u] \cup ({r} \cap keys)
  BY <1>2, <1>3 DEF DedupTypes
<1>5. r \in Registrations /\ purged'[u] \in SUBSET Registrations /\ sweep'[u] \in SUBSET Registrations
  BY <1>2, <1>4 DEF DedupTypes
<1>6. DedupTypes' /\ Apart(u)
  <2>1. \A v \in Uploads : v # u => sweep'[v] = sweep[v] /\ purged'[v] = purged[v]
    BY <1>2, <1>3 DEF DedupTypes
  <2>2. purged' \in [Uploads -> SUBSET Registrations] /\ sweep' \in [Uploads -> SUBSET Registrations]
    BY <1>2, <1>3, <1>5, <2>1 DEF DedupTypes
  <2> QED
    BY <1>1, <1>2, <2>1, <2>2 DEF DedupTypes, Apart
<1>7. Progress(u)'
  BY <1>1, Facts DEF Progress, Open, Registered, First
<1>8. Swept1(u)'
  <2>1. \A q : Counts(q, u)' <=> Counts(q, u)
    BY <1>1 DEF Counts
  <2> QED
    BY <1>1, <1>4, <2>1, Facts DEF Swept1, Steps
<1>9. ~stored[u]
  BY <1>1, Facts DEF Kept
<1> QED
  BY <1>1, <1>6, <1>7, <1>8, <1>9, Unjudged DEF Steps

LEMMA SweptInv ==
  ASSUME DedupInv, NEW u \in Uploads, Swept(u) PROVE DedupInv'
<1> USE DEF txVars, fileVars, seenVars
<1>1. /\ pc[u] = "sweeping" /\ pc[u] \in Steps /\ sweep[u] = {}
      /\ UNCHANGED <<clock, keys, rows, verdict, now, txVars, fileVars, seenVars>>
  BY DEF Swept, Steps
<1>2. DedupTypes
  BY DEF DedupInv
<1>3. /\ pc' = [pc EXCEPT ![u] = "registering"] /\ pc'[u] = "registering"
      /\ next' = [next EXCEPT ![u] = 1] /\ next'[u] = 1
  BY <1>2 DEF Swept, Goto, DedupTypes
<1>4. DedupTypes' /\ Apart(u)
  BY <1>1, <1>2, <1>3 DEF DedupTypes, Apart, Points, Steps
<1>5. Progress(u)'
  <2>1. \A i \in Open(u) : i >= 1
    BY Facts DEF Open
  <2> QED
    BY <1>1, <1>3, <2>1, Facts DEF Progress, Working, First, Open, Registered
<1>6. Swept1(u)'
  BY <1>1, <1>3, Facts DEF Swept1, Counts, Steps
<1>7. ~stored[u]
  BY <1>1, Facts DEF Kept
<1> QED
  BY <1>1, <1>3, <1>4, <1>5, <1>6, <1>7, Unjudged DEF Steps

LEMMA RegisterInv ==
  ASSUME DedupInv, NEW u \in Uploads, Register(u) PROVE DedupInv'
<1> USE DEF txVars, fileVars, seenVars
<1>1. /\ pc[u] = "registering" /\ pc[u] \in Steps
      /\ UNCHANGED <<clock, keys, rows, verdict, txVars, fileVars, seenVars>>
  BY DEF Register, Steps
<1>2. DedupTypes
  BY DEF DedupInv
<1>3. PICK i \in Foremost(u) : next' = [next EXCEPT ![u] = i]
  BY DEF Register
<1>4. i \in Open(u) /\ i \in Nat
  BY Facts DEF Foremost, Left, Open
<1>5. /\ pc' = [pc EXCEPT ![u] = "inserting"] /\ pc'[u] = "inserting" /\ next'[u] = i
      /\ now' = [now EXCEPT ![u] = clock] /\ now'[u] = clock
  BY <1>2, <1>3 DEF Register, Goto, DedupTypes
<1>6. DedupTypes' /\ Apart(u)
  BY <1>1, <1>2, <1>3, <1>4, <1>5 DEF DedupTypes, Apart, Points, Steps
<1>7. Progress(u)'
  <2>1. \A j \in Open(u) : j >= i
    BY <1>1, <1>3, Facts DEF Foremost, Left, Progress, Open
  <2> QED
    BY <1>1, <1>4, <1>5, <2>1, Facts DEF Progress, Working, First, Open, Registered
<1>8. Swept1(u)'
  BY <1>1, <1>5, Facts DEF Swept1, Counts, Steps
<1>9. ~stored[u] /\ arrived[u] <= clock
  BY <1>1, Facts DEF Kept, Inserted
<1>10. arrived[u] <= now'[u] /\ now'[u] <= clock
  BY <1>5, <1>9, Facts
<1> QED
  BY <1>1, <1>5, <1>6, <1>7, <1>8, <1>9, <1>10, Unjudged DEF Steps

LEMMA DecideInv ==
  ASSUME DedupInv, NEW u \in Uploads, Decide(u) PROVE DedupInv'
<1> USE DEF txVars, fileVars, seenVars
<1>1. /\ pc[u] = "registering" /\ pc[u] \in Steps /\ Left(u) = {}
      /\ UNCHANGED <<clock, keys, rows, next, verdict, now, txVars, fileVars, seenVars>>
  BY DEF Decide, Steps
<1>2. DedupTypes
  BY DEF DedupInv
<1>3. /\ pc' = [pc EXCEPT ![u] = pc'[u]]
      /\ pc'[u] = IF Registered(u) = {} THEN "rejecting" ELSE "saving"
  BY <1>2 DEF Decide, Goto, DedupTypes
<1>4. DedupTypes' /\ Apart(u)
  BY <1>1, <1>2, <1>3 DEF DedupTypes, Apart, Points, Steps
<1>5. Progress(u)'
  <2>1. Open(u) = {}
    BY <1>1, Facts DEF Left, Progress
  <2> QED
    BY <1>1, <1>3, <2>1 DEF Progress, Working, Open, Registered
<1>6. Swept1(u)'
  BY <1>1, <1>3, Facts DEF Swept1, Counts, Steps
<1>7. ~stored[u]
  BY <1>1, Facts DEF Kept
<1> QED
  BY <1>1, <1>3, <1>4, <1>5, <1>6, <1>7, Unjudged DEF Steps

LEMMA SaveInv ==
  ASSUME DedupInv, NEW u \in Uploads, Save(u) PROVE DedupInv'
<1> USE DEF txVars, fileVars, seenVars
<1>1. /\ pc[u] = "saving" /\ pc[u] \in Steps
      /\ UNCHANGED <<clock, keys, rows, next, verdict, now, txVars, batch, seenVars>>
  BY DEF Save, Steps
<1>2. DedupTypes
  BY DEF DedupInv
<1>3. /\ pc' = [pc EXCEPT ![u] = "committing"] /\ pc'[u] = "committing"
      /\ stored' = [stored EXCEPT ![u] = TRUE] /\ stored'[u]
  BY <1>2 DEF Save, Goto, DedupTypes
<1>4. DedupTypes' /\ Apart(u)
  BY <1>1, <1>2, <1>3 DEF DedupTypes, Apart, Points, Steps
<1>5. Progress(u)'
  BY <1>1, <1>3, Facts DEF Progress, Working, Open, Registered
<1>6. Swept1(u)'
  BY <1>1, <1>3, Facts DEF Swept1, Counts, Steps
<1> QED
  BY <1>1, <1>3, <1>4, <1>5, <1>6, Unjudged DEF Steps

\* The row an INSERT is about.
LEMMA AtHand ==
  ASSUME DedupInv, NEW u \in Uploads, pc[u] = "inserting"
  PROVE  /\ next[u] \in DOMAIN rows[u] /\ next[u] \in Open(u) /\ verdict[u][next[u]] = "open"
         /\ Key(u) = rows[u][next[u]] /\ Key(u) \in Keys /\ Key(u) \notin Untransformable
         /\ First(u, next[u]) /\ next[u] \in Nat
         /\ \A r \in keys \ purged[u] : Counts(r, u)
<1>1. next[u] \in Open(u) /\ next[u] \in DOMAIN rows[u] /\ verdict[u][next[u]] = "open"
  BY Facts DEF Progress, Open
<1>2. Key(u) = rows[u][next[u]] /\ Key(u) \in Keys
  BY <1>1, Facts DEF Key, Judged
<1>3. First(u, next[u]) /\ Key(u) \notin Untransformable
  BY <1>1, <1>2, Facts DEF Progress, Working
<1>4. \A r \in keys \ purged[u] : Counts(r, u)
  BY Facts DEF Swept1, Steps
<1> QED
  BY <1>1, <1>2, <1>3, <1>4, Facts

\* A verdict on the row at hand, with what it says of that row.
LEMMA JudgedRow ==
  ASSUME DedupInv, NEW u \in Uploads, NEW w \in {"registered", "repeated"},
         pc[u] = "inserting", Judge(u, w), Goto(u, "registering"),
         UNCHANGED <<clock, keys, rows, now, purged, sweep, fileVars, seenVars>>,
         w = "repeated" => \E r \in accepted : r.key = Key(u) /\ Counts(r, u)
  PROVE  /\ Judged(u)' /\ Progress(u)' /\ Swept1(u)' /\ Kept(u)'
         /\ pc' \in [Uploads -> Points] /\ next' \in [Uploads -> Nat] /\ DOMAIN verdict' = Uploads
         /\ pc'[u] = "registering"
         /\ Registered(u)' = IF w = "registered" THEN Registered(u) \cup {next[u]} ELSE Registered(u)
         /\ \A v \in Uploads \ {u} : pc'[v] = pc[v] /\ next'[v] = next[v] /\ verdict'[v] = verdict[v]
<1> USE DEF fileVars, seenVars
<1>1. DedupTypes
  BY DEF DedupInv
<1>2. /\ pc' = [pc EXCEPT ![u] = "registering"] /\ pc'[u] = "registering"
      /\ next' = [next EXCEPT ![u] = next[u] + 1] /\ next'[u] = next[u] + 1
      /\ verdict' = [verdict EXCEPT ![u] = [verdict[u] EXCEPT ![next[u]] = w]]
      /\ verdict'[u] = [verdict[u] EXCEPT ![next[u]] = w]
  BY <1>1 DEF Judge, Goto, DedupTypes
<1>3. /\ verdict'[u][next[u]] = w
      /\ \A j \in DOMAIN rows[u] : j # next[u] => verdict'[u][j] = verdict[u][j]
      /\ DOMAIN verdict'[u] = DOMAIN rows[u]
  BY <1>2, AtHand, Facts
<1>4. /\ Open(u)' = Open(u) \ {next[u]}
      /\ Registered(u)' = IF w = "registered" THEN Registered(u) \cup {next[u]} ELSE Registered(u)
  BY <1>3, AtHand DEF Open, Registered
<1>5. /\ \A j : First(u, j)' <=> First(u, j)
      /\ \A r : Counts(r, u)' <=> Counts(r, u)
  BY DEF First, Counts
<1>6. Judged(u)'
  <2>1. verdict'[u] \in [DOMAIN rows[u] -> Verdicts]
    BY <1>2, AtHand, Facts DEF Judged, Verdicts
  <2>2. ASSUME NEW j \in DOMAIN rows[u], j # next[u] PROVE verdict'[u][j] = verdict[u][j]
    BY <2>2, <1>3
  <2>3. rows[u][next[u]] # Invalid
    BY AtHand, DedupAssumption
  <2> QED
    BY <1>3, <1>5, <2>1, <2>2, <2>3, AtHand, Facts DEF Judged
<1>7. Progress(u)'
  <2>1. \A i \in Open(u) \ {next[u]} : i >= next[u] + 1
    BY AtHand, Facts DEF Progress, Open
  <2>2. \A i \in Open(u) : First(u, i) /\ rows[u][i] \notin Untransformable
    BY Facts DEF Progress, Working
  <2> QED
    BY <1>2, <1>4, <1>5, <2>1, <2>2 DEF Progress, Working
<1>8. Swept1(u)'
  BY <1>2, <1>5, Facts DEF Swept1, Steps
<1>9. Kept(u)'
  BY <1>2, Facts DEF Kept
<1>10. /\ pc' \in [Uploads -> Points] /\ next' \in [Uploads -> Nat] /\ DOMAIN verdict' = Uploads
       /\ \A v \in Uploads \ {u} : pc'[v] = pc[v] /\ next'[v] = next[v] /\ verdict'[v] = verdict[v]
  BY <1>1, <1>2, AtHand DEF DedupTypes, Points, Steps
<1> QED
  BY <1>2, <1>4, <1>6, <1>7, <1>8, <1>9, <1>10

LEMMA InsertRepeatedInv ==
  ASSUME DedupInv, NEW u \in Uploads, InsertRepeated(u) PROVE DedupInv'
<1>1. /\ pc[u] = "inserting" /\ Judge(u, "repeated") /\ Goto(u, "registering")
      /\ UNCHANGED <<clock, keys, rows, now, txVars, fileVars, seenVars>>
  BY DEF InsertRepeated
<1>2. DedupTypes
  BY DEF DedupInv
<1>3. PICK r \in Visible(u) : r.key = Key(u)
  BY DEF InsertRepeated, KnownInWindow
<1>4. r \notin put[u]
  <2>1. SUFFICES ASSUME r \in put[u] PROVE FALSE
    OBVIOUS
  <2>2. PICK i \in Registered(u) : rows[u][i] = Key(u)
    BY <1>3, <2>1, Facts DEF Inserted
  <2>3. /\ First(u, i) /\ i \in Nat /\ i \in DOMAIN rows[u] /\ verdict[u][i] = "registered"
    BY Facts DEF Judged, Registered
  <2> QED
    BY <1>1, <2>2, <2>3, AtHand DEF First
<1>5. r \in accepted /\ Counts(r, u)
  BY <1>1, <1>2, <1>3, <1>4, AtHand DEF Visible, DedupTypes
<1>6. /\ Judged(u)' /\ Progress(u)' /\ Swept1(u)' /\ Kept(u)'
      /\ pc' \in [Uploads -> Points] /\ next' \in [Uploads -> Nat] /\ DOMAIN verdict' = Uploads
      /\ pc'[u] = "registering" /\ Registered(u)' = Registered(u)
      /\ \A v \in Uploads \ {u} : pc'[v] = pc[v] /\ next'[v] = next[v] /\ verdict'[v] = verdict[v]
  BY <1>1, <1>3, <1>5, JudgedRow DEF txVars
<1>7. DedupTypes' /\ Apart(u)
  BY <1>1, <1>2, <1>6 DEF DedupTypes, Apart, txVars, fileVars, seenVars
<1>8. Inserted(u)'
  BY <1>1, <1>6, Facts DEF Inserted, txVars, seenVars, Steps
<1> QED
  BY <1>1, <1>6, <1>7, <1>8, Inside DEF Good, txVars

LEMMA InsertInv ==
  ASSUME DedupInv, NEW u \in Uploads, Insert(u) PROVE DedupInv'
<1>1. /\ pc[u] = "inserting" /\ Judge(u, "registered") /\ Goto(u, "registering")
      /\ Holders(u) = {} /\ \A r \in Visible(u) : r.key # Key(u)
      /\ UNCHANGED <<clock, keys, rows, now, purged, sweep, fileVars, seenVars>>
  BY DEF Insert
<1>2. DedupTypes
  BY DEF DedupInv
<1>3. PICK n : n = [key |-> Key(u), upload |-> u, at |-> now[u], put |-> clock]
  OBVIOUS
<1>4. put' = [put EXCEPT ![u] = put[u] \cup {n}] /\ put'[u] = put[u] \cup {n}
  BY <1>2, <1>3 DEF Insert, DedupTypes
<1>5. /\ Judged(u)' /\ Progress(u)' /\ Swept1(u)' /\ Kept(u)'
      /\ pc' \in [Uploads -> Points] /\ next' \in [Uploads -> Nat] /\ DOMAIN verdict' = Uploads
      /\ pc'[u] = "registering" /\ Registered(u)' = Registered(u) \cup {next[u]}
      /\ \A v \in Uploads \ {u} : pc'[v] = pc[v] /\ next'[v] = next[v] /\ verdict'[v] = verdict[v]
  BY <1>1, JudgedRow
<1>6. /\ n \in Registrations /\ n.key = Key(u) /\ n.upload = u /\ n.at = now[u] /\ n.put = clock
  BY <1>2, <1>1, <1>3, AtHand DEF DedupTypes, Registrations
<1>7. \A s \in accepted : s.key = Key(u) => s.at + Window < clock
  BY <1>1, Facts DEF DedupInv, Gone, Visible, Swept1
<1>8. \A v \in Uploads \ {u} : \A s \in put[v] : s.key # Key(u)
  BY <1>1 DEF Holders
<1>9. \A s \in put[u] : s.key # Key(u)
  BY <1>1 DEF Visible
<1>10. DedupTypes' /\ Apart(u)
  <2>1. put' \in [Uploads -> SUBSET Registrations]
    BY <1>2, <1>4, <1>6 DEF DedupTypes
  <2> QED
    BY <1>1, <1>2, <1>4, <1>5, <2>1 DEF DedupTypes, Apart, fileVars, seenVars
<1>11. Inserted(u)'
  <2>1. /\ arrived[u] <= clock /\ arrived[u] <= now[u] /\ now[u] <= clock
        /\ UNCHANGED <<clock, arrived, rows, accepted>>
        /\ \A v \in Uploads \ {u} : put'[v] = put[v]
    BY <1>1, <1>10, Facts DEF Inserted, Apart, seenVars, Steps
  <2>2. \A i \in Registered(u)' : \E r \in put'[u] : r.key = rows[u][i]
    BY <1>1, <1>4, <1>5, <1>6, Facts, AtHand DEF Inserted, Steps
  <2>3. ASSUME NEW r \in put[u]
        PROVE /\ r.upload = u /\ arrived[u] <= r.at /\ r.at <= r.put /\ r.put <= clock
              /\ \E i \in Registered(u)' : rows[u][i] = r.key
              /\ \A s \in put'[u] : s.key = r.key => s = r
              /\ \A s \in accepted : s.key = r.key => s.at + Window < r.put
              /\ \A v \in Uploads \ {u} : \A s \in put[v] : s.key # r.key
    BY <1>4, <1>5, <1>6, <1>9, Facts DEF Inserted
  <2>4. /\ n.upload = u /\ arrived[u] <= n.at /\ n.at <= n.put /\ n.put <= clock
        /\ \E i \in Registered(u)' : rows[u][i] = n.key
        /\ \A s \in put'[u] : s.key = n.key => s = n
        /\ \A s \in accepted : s.key = n.key => s.at + Window < n.put
        /\ \A v \in Uploads \ {u} : \A s \in put[v] : s.key # n.key
    BY <1>1, <1>4, <1>5, <1>6, <1>7, <1>8, <1>9, <2>1, Facts, AtHand
  <2> QED
    BY <1>4, <1>5, <2>1, <2>2, <2>3, <2>4 DEF Inserted, Steps
<1> QED
  BY <1>1, <1>4, <1>5, <1>6, <1>8, <1>10, <1>11, Inside DEF Good

\* How an upload ends.
Leaves(u) ==
  /\ pc[u] \in Steps /\ pc'[u] \in Ends
  /\ Released(u)
  /\ RolledBack(u) \/ Committed(u)
  /\ \A v \in Uploads \ {u} : pc'[v] = pc[v] /\ stored'[v] = stored[v] /\ batch'[v] = batch[v]

\* What the end of one upload does to the registrations.
LEMMA LeftBehind ==
  ASSUME DedupInv, NEW u \in Uploads, Leaves(u)
  PROVE  /\ \A r \in accepted : r.upload # u
         /\ \A r \in put[u] : r.upload = u /\ r \in Registrations
         /\ accepted \subseteq accepted' /\ accepted' \subseteq accepted \cup put[u]
         /\ keys' \subseteq keys \cup (put[u] \cap accepted')
         /\ \A r \in accepted' \ keys' : r.at + Window < clock
         /\ UNCHANGED <<clock, rows, next, verdict, now, arrived>>
         /\ put' = [put EXCEPT ![u] = {}] /\ purged' = [purged EXCEPT ![u] = {}]
         /\ sweep' = [sweep EXCEPT ![u] = {}] /\ closed' = [closed EXCEPT ![u] = clock]
         /\ \A v \in Uploads : v # u =>
              /\ put'[v] = put[v] /\ purged'[v] = purged[v] /\ sweep'[v] = sweep[v]
              /\ closed'[v] = closed[v]
         /\ put'[u] = {} /\ purged'[u] = {} /\ sweep'[u] = {} /\ closed'[u] = clock
<1>1. DedupTypes /\ Gone
  BY DEF DedupInv
<1>2. \A r \in accepted : r.upload # u
  BY Facts DEF Leaves, Kept, Steps
<1>3. \A r \in put[u] : r.upload = u /\ r \in Registrations
  BY <1>1, Facts DEF Inserted, DedupTypes
<1>4. /\ UNCHANGED <<clock, rows, next, verdict, now, arrived>>
      /\ put' = [put EXCEPT ![u] = {}] /\ purged' = [purged EXCEPT ![u] = {}]
      /\ sweep' = [sweep EXCEPT ![u] = {}] /\ closed' = [closed EXCEPT ![u] = clock]
  BY DEF Leaves, Released
<1>5. /\ \A v \in Uploads : v # u =>
           /\ put'[v] = put[v] /\ purged'[v] = purged[v] /\ sweep'[v] = sweep[v]
           /\ closed'[v] = closed[v]
      /\ put'[u] = {} /\ purged'[u] = {} /\ sweep'[u] = {} /\ closed'[u] = clock
  BY <1>1, <1>4 DEF DedupTypes
<1>6. CASE RolledBack(u)
  BY <1>1, <1>2, <1>3, <1>4, <1>5, <1>6 DEF RolledBack, Gone
<1>7. CASE Committed(u)
  <2>1. keys' = (keys \ purged[u]) \cup put[u] /\ accepted' = accepted \cup put[u]
    BY <1>7 DEF Committed
  <2>2. \A r \in purged[u] : r.at + Window < clock
    BY Facts DEF Swept1
  <2>3. \A r \in accepted' \ keys' : r.at + Window < clock
    BY <1>1, <2>1, <2>2 DEF Gone
  <2> QED
    BY <1>2, <1>3, <1>4, <1>5, <2>1, <2>3
<1> QED
  BY <1>6, <1>7 DEF Leaves

LEMMA OthersLeft ==
  ASSUME DedupInv, NEW u \in Uploads, Leaves(u), NEW v \in Uploads, u # v
  PROVE  Good(v)'
<1>1. /\ pc'[v] = pc[v] /\ stored'[v] = stored[v] /\ batch'[v] = batch[v]
      /\ put'[v] = put[v] /\ purged'[v] = purged[v] /\ sweep'[v] = sweep[v]
      /\ UNCHANGED <<clock, rows, next, verdict, now, arrived>>
  BY LeftBehind DEF Leaves
<1>2. /\ Open(v)' = Open(v) /\ Registered(v)' = Registered(v)
      /\ \A i : First(v, i)' <=> First(v, i)
  BY <1>1 DEF Open, Registered, First
<1>3. ASSUME NEW r \in accepted PROVE Counts(r, v)' <=> Counts(r, v)
  <2>1. r.upload # u /\ r.upload \in Uploads
    BY LeftBehind, Facts DEF Registrations
  <2> QED
    BY <1>1, <2>1, LeftBehind DEF Counts
<1>4. ASSUME NEW r \in put[u], arrived[v] <= clock PROVE Counts(r, v)'
  BY <1>1, <1>4, LeftBehind, Facts DEF Counts
<1>5. Judged(v)'
  BY <1>1, <1>2, <1>3, LeftBehind, Facts DEF Judged
<1>6. Progress(v)'
  BY <1>1, <1>2, Facts DEF Progress
<1>7. Inserted(v)'
  <2>1. \A r \in put[v] : \A s \in put[u] : s.key # r.key
    BY Facts DEF Inserted
  <2>2. \A r \in put[v] : \A s \in accepted' : s.key = r.key => s.at + Window < r.put
    BY <2>1, LeftBehind, Facts DEF Inserted
  <2>3. \A r \in put[v] : \A w \in Uploads \ {v} : \A s \in put'[w] : s.key # r.key
    BY LeftBehind, Facts DEF Inserted
  <2> QED
    BY <1>1, <1>2, <2>2, <2>3, Facts DEF Inserted
<1>8. Swept1(v)'
  <2>1. ASSUME NEW r \in keys' \ purged[v], pc[v] \in {"sweeping", "registering", "inserting"}
        PROVE  r \in sweep[v] \/ Counts(r, v)'
    <3>1. CASE r \in put[u]
      BY <1>4, <2>1, <3>1, Facts DEF Inserted, Steps
    <3>2. CASE r \in keys
      BY <1>3, <2>1, <3>2, Facts DEF Swept1, DedupInv, DedupTypes
    <3> QED
      BY <3>1, <3>2, LeftBehind
  <2> QED
    BY <1>1, <2>1, Facts DEF Swept1
<1>9. Kept(v)'
  BY <1>1, <1>2, LeftBehind, Facts DEF Kept
<1> QED
  BY <1>5, <1>6, <1>7, <1>8, <1>9 DEF Good

LEMMA LeavesInv ==
  ASSUME DedupInv, NEW u \in Uploads, Leaves(u), Kept(u)',
         pc' \in [Uploads -> Points], stored' \in [Uploads -> BOOLEAN],
         batch' \in [Uploads -> SUBSET Nat]
  PROVE  DedupInv'
<1>1. DedupTypes
  BY DEF DedupInv
<1>2. DedupTypes'
  <2>1. /\ put' \in [Uploads -> SUBSET Registrations] /\ purged' \in [Uploads -> SUBSET Registrations]
        /\ sweep' \in [Uploads -> SUBSET Registrations] /\ closed' \in [Uploads -> Nat]
    BY <1>1 DEF DedupTypes, Leaves, Released
  <2>2. keys' \subseteq accepted' /\ accepted' \subseteq Registrations
    BY <1>1, LeftBehind DEF DedupTypes
  <2> QED
    BY <1>1, <2>1, <2>2, LeftBehind DEF DedupTypes
<1>3. Gone'
  BY LeftBehind DEF Gone
<1>4. pc[u] \in Steps /\ pc'[u] \in Ends
  BY DEF Leaves
<1>5. /\ Open(u)' = Open(u) /\ Registered(u)' = Registered(u)
      /\ \A i : First(u, i)' <=> First(u, i)
  BY LeftBehind DEF Open, Registered, First
<1>6. Judged(u)'
  <2>1. ASSUME NEW r \in accepted, Counts(r, u) PROVE Counts(r, u)'
    <3>1. r.upload # u /\ r.upload \in Uploads
      BY LeftBehind, Facts DEF Registrations
    <3> QED
      BY <2>1, <3>1, LeftBehind DEF Counts
  <2> QED
    BY <1>5, <2>1, LeftBehind, Facts DEF Judged
<1>7. Progress(u)'
  BY <1>4 DEF Progress, Ends, Steps, Working
<1>8. Inserted(u)' /\ Swept1(u)'
  BY <1>4, LeftBehind DEF Inserted, Swept1, Ends, Steps
<1>9. Good(u)'
  BY <1>6, <1>7, <1>8 DEF Good
<1> QED
  BY <1>2, <1>3, <1>9, OthersLeft DEF DedupInv

LEMMA RejectInv ==
  ASSUME DedupInv, NEW u \in Uploads, Reject(u) PROVE DedupInv' /\ Leaves(u) /\ put[u] = {}
<1>1. PICK p \in {"rejected", "failed"} : Goto(u, p)
  BY DEF Reject
<1>2. /\ pc[u] = "rejecting" /\ Committed(u) /\ Released(u) /\ UNCHANGED fileVars
      /\ DedupTypes
  BY DEF Reject, DedupInv
<1>3. pc' = [pc EXCEPT ![u] = p] /\ pc'[u] = p
  BY <1>1, <1>2 DEF Goto, DedupTypes
<1>4. Leaves(u)
  BY <1>2, <1>3 DEF Leaves, Steps, Ends, fileVars, DedupTypes
<1>5. Registered(u) = {} /\ put[u] = {}
  BY <1>2, Facts DEF Progress, Inserted
<1>6. Kept(u)'
  <2>1. batch[u] = {} /\ ~stored[u] /\ \A r \in accepted : r.upload # u
    BY <1>2, Facts DEF Kept
  <2> QED
    BY <1>2, <1>3, <1>4, <1>5, <2>1, LeftBehind DEF Kept, fileVars
<1> QED
  BY <1>2, <1>3, <1>4, <1>5, <1>6, LeavesInv DEF DedupTypes, Points, Ends, fileVars

LEMMA FailsInv ==
  ASSUME DedupInv, NEW u \in Uploads, Fails(u) \/ Crash(u) \/ SaveFails(u)
  PROVE  DedupInv' /\ Leaves(u) /\ RolledBack(u) /\ pc'[u] \in {"failed", "dead"}
<1>1. DedupTypes /\ batch[u] \in SUBSET Nat
  BY DEF DedupInv, DedupTypes
<1>2. PICK p \in {"failed", "dead"} : Goto(u, p)
  BY DEF Fails, Crash, SaveFails
<1>3. pc[u] \in Steps /\ pc' = [pc EXCEPT ![u] = p] /\ pc'[u] = p
  BY <1>1, <1>2 DEF Goto, DedupTypes
<1>4. RolledBack(u) /\ Released(u) /\ batch' = batch
  BY DEF Fails, Crash, SaveFails, fileVars
<1>5. /\ stored' = [stored EXCEPT ![u] = FALSE] \/ stored' = stored
      /\ pc'[u] = "failed" => ~stored'[u]
  <2>1. stored[u] => pc[u] \in {"committing", "accepted", "dead"}
    BY Facts DEF Kept
  <2>2. CASE Fails(u)
    BY <1>3, <2>1, <2>2 DEF Fails, fileVars, Steps
  <2>3. CASE Crash(u)
    BY <1>1, <1>3, <2>3 DEF Crash, Goto, fileVars, DedupTypes
  <2>4. CASE SaveFails(u)
    BY <1>1, <2>4 DEF SaveFails, DeleteFile, DedupTypes
  <2> QED
    BY <2>2, <2>3, <2>4
<1>6. Leaves(u)
  BY <1>1, <1>3, <1>4, <1>5 DEF Leaves, Ends, DedupTypes
<1>7. Kept(u)'
  <2>1. batch[u] = {} /\ \A r \in accepted : r.upload # u
    BY <1>3, Facts DEF Kept, Steps
  <2> QED
    BY <1>3, <1>4, <1>5, <2>1 DEF Kept, RolledBack
<1>8. pc' \in [Uploads -> Points] /\ stored' \in [Uploads -> BOOLEAN]
  BY <1>1, <1>3, <1>5 DEF DedupTypes, Points, Ends
<1> QED
  BY <1>1, <1>3, <1>4, <1>6, <1>7, <1>8, LeavesInv DEF DedupTypes

LEMMA CommitInv ==
  ASSUME DedupInv, NEW u \in Uploads, Commit(u) \/ CommitLost(u)
  PROVE  DedupInv' /\ Leaves(u) /\ Committed(u) /\ pc[u] = "committing"
<1>1. /\ pc[u] = "committing" /\ pc[u] \in Steps /\ Committed(u) /\ Released(u) /\ DedupTypes
      /\ batch' = [batch EXCEPT ![u] = Registered(u)]
  BY DEF Commit, CommitLost, DedupInv, Tasks, Steps
<1>2. PICK p \in {"accepted", "failed"} :
        /\ pc' = [pc EXCEPT ![u] = p]
        /\ IF p = "accepted" THEN stored' = stored ELSE stored' = [stored EXCEPT ![u] = FALSE]
  BY DEF Commit, CommitLost, Goto, DeleteFile
<1>3. /\ pc'[u] = p /\ batch'[u] = Registered(u) /\ stored[u] /\ stored'[u] = (p = "accepted")
      /\ Registered(u) # {} /\ Registered(u) \in SUBSET Nat
  <2>1. pc'[u] = p /\ batch'[u] = Registered(u)
    BY <1>1, <1>2 DEF DedupTypes
  <2>2. stored[u] /\ Registered(u) # {}
    BY <1>1, Facts DEF Kept, Progress
  <2>3. stored'[u] = (p = "accepted")
    BY <1>1, <1>2, <2>2 DEF DedupTypes
  <2>4. Registered(u) \in SUBSET Nat
    BY Facts DEF Registered
  <2> QED
    BY <2>1, <2>2, <2>3, <2>4
<1>4. Leaves(u)
  BY <1>1, <1>2, <1>3 DEF Leaves, Ends, DedupTypes
<1>5. accepted' = accepted \cup put[u] /\ UNCHANGED <<rows, verdict>>
  BY <1>1, <1>4, LeftBehind DEF Committed
<1>6. Kept(u)'
  <2>1. Registered(u)' = Registered(u)
    BY <1>5 DEF Registered
  <2>2. \A i \in Registered(u) : \E r \in put[u] : r.upload = u /\ r.key = rows[u][i]
    BY <1>1, Facts DEF Inserted
  <2>3. \A r \in put[u] : \E i \in Registered(u) : rows[u][i] = r.key
    BY Facts DEF Inserted
  <2>4. \A r \in accepted : r.upload # u
    BY <1>4, LeftBehind
  <2>5. /\ \A i \in batch'[u] : \E r \in accepted' : r.upload = u /\ r.key = rows'[u][i]
        /\ \A r \in accepted' : r.upload = u => \E i \in batch'[u] : rows'[u][i] = r.key
    BY <1>3, <1>5, <2>2, <2>3, <2>4
  <2>6. batch'[u] = Registered(u)' /\ batch'[u] # {} /\ pc'[u] \in {"accepted", "failed"}
    BY <1>3, <2>1
  <2>7. stored'[u] => pc'[u] = "accepted"
    BY <1>3
  <2>8. pc'[u] = "accepted" => stored'[u]
    BY <1>3
  <2> QED
    BY <2>5, <2>6, <2>7, <2>8 DEF Kept
<1>7. /\ pc' \in [Uploads -> Points] /\ stored' \in [Uploads -> BOOLEAN]
      /\ batch' \in [Uploads -> SUBSET Nat]
  <2>1. stored' \in [Uploads -> BOOLEAN]
    BY <1>1, <1>2 DEF DedupTypes
  <2>2. pc' \in [Uploads -> Points]
    BY <1>1, <1>2 DEF DedupTypes, Points, Ends
  <2>3. batch' \in [Uploads -> SUBSET Nat]
    BY <1>1, <1>3 DEF DedupTypes
  <2> QED
    BY <2>1, <2>2, <2>3
<1> QED
  BY <1>1, <1>4, <1>6, <1>7, LeavesInv

LEMMA TickInv ==
  ASSUME DedupInv, Tick PROVE DedupInv'
<1>1. /\ DedupTypes /\ Gone /\ clock' = clock + 1
      /\ UNCHANGED <<keys, rows, pc, next, verdict, now, txVars, fileVars, seenVars>>
  BY DEF Tick, DedupInv
<1> USE DEF txVars, fileVars, seenVars
<1>2. DedupTypes'
  BY <1>1 DEF DedupTypes
<1>3. \A r \in Registrations : r.at + Window < clock => r.at + Window < clock'
  BY <1>1, DedupAssumption DEF DedupTypes, Registrations
<1>4. Gone'
  BY <1>1, <1>3 DEF Gone, DedupTypes
<1>5. ASSUME NEW u \in Uploads PROVE Good(u)'
  <2>1. /\ Open(u)' = Open(u) /\ Registered(u)' = Registered(u)
        /\ \A i : First(u, i)' <=> First(u, i)
        /\ \A r : Counts(r, u)' <=> Counts(r, u)
    BY <1>1 DEF Open, Registered, First, Counts
  <2>2. Judged(u)' /\ Progress(u)' /\ Kept(u)'
    BY <1>1, <2>1, Facts DEF Judged, Progress, Kept
  <2>3. Inserted(u)'
    <3>1. now[u] \in Nat /\ \A r \in put[u] : r.put \in Nat
      BY <1>1 DEF DedupTypes, Registrations
    <3>2. \A x \in Nat : x <= clock => x <= clock'
      BY <1>1, Facts
    <3> QED
      BY <1>1, <2>1, <3>1, <3>2, Facts DEF Inserted
  <2>4. Swept1(u)'
    <3>1. \A r \in purged[u] \cup sweep[u] : r \in Registrations
      BY <1>1 DEF DedupTypes
    <3> QED
      BY <1>1, <1>3, <2>1, <3>1, Facts DEF Swept1
  <2> QED
    BY <2>2, <2>3, <2>4 DEF Good
<1> QED
  BY <1>2, <1>4, <1>5 DEF DedupInv

LEMMA ReceiveInv ==
  ASSUME DedupInv, NEW u \in Uploads, Receive(u) PROVE DedupInv'
<1> USE DEF txVars, fileVars, seenVars
<1>1. /\ DedupTypes /\ Gone /\ pc[u] = "new" /\ pc[u] \notin Steps /\ pc[u] \notin Ends
      /\ UNCHANGED <<clock, keys, next, now, txVars, fileVars, closed, accepted>>
      /\ arrived' = [arrived EXCEPT ![u] = clock] /\ arrived'[u] = clock
  BY DEF Receive, DedupInv, DedupTypes, Steps, Ends
<1>2. PICK f \in Files :
       /\ rows' = [rows EXCEPT ![u] = f]
       /\ verdict' = [verdict EXCEPT ![u] =
                        [i \in DOMAIN f |-> IF f[i] = Invalid THEN "invalid" ELSE "open"]]
       /\ pc' = [pc EXCEPT ![u] = IF \E i \in DOMAIN f : f[i] # Invalid
                                  THEN "checking" ELSE "rejecting"]
  BY DEF Receive
<1>3. f \in Seq(Keys \cup {Invalid}) /\ DOMAIN f \subseteq Nat \ {0}
  BY DedupAssumption
<1>4. /\ rows'[u] = f
      /\ verdict'[u] = [i \in DOMAIN f |-> IF f[i] = Invalid THEN "invalid" ELSE "open"]
      /\ pc'[u] = IF \E i \in DOMAIN f : f[i] # Invalid THEN "checking" ELSE "rejecting"
      /\ \A v \in Uploads : v # u => /\ rows'[v] = rows[v] /\ verdict'[v] = verdict[v]
                                     /\ pc'[v] = pc[v] /\ arrived'[v] = arrived[v]
  BY <1>1, <1>2 DEF DedupTypes
<1>5. DedupTypes'
  <2>1. rows' \in [Uploads -> Seq(Keys \cup {Invalid})]
    BY <1>1, <1>2, <1>3 DEF DedupTypes
  <2>2. pc' \in [Uploads -> Points]
    BY <1>1, <1>2 DEF DedupTypes, Points, Steps
  <2>3. arrived' \in [Uploads -> Nat] /\ DOMAIN verdict' = Uploads
    BY <1>1, <1>2 DEF DedupTypes
  <2> QED
    BY <1>1, <2>1, <2>2, <2>3 DEF DedupTypes
<1>6. Gone'
  BY <1>1 DEF Gone
<1>7. ASSUME NEW v \in Uploads, v # u PROVE Good(v)'
  <2>1. /\ Open(v)' = Open(v) /\ Registered(v)' = Registered(v)
        /\ \A i : First(v, i)' <=> First(v, i)
        /\ \A r : Counts(r, v)' <=> Counts(r, v)
    BY <1>1, <1>4, <1>7 DEF Open, Registered, First, Counts
  <2>2. Judged(v)'
    BY <1>1, <1>4, <1>7, <2>1, Facts DEF Judged
  <2>4. Progress(v)'
    BY <1>1, <1>4, <1>7, <2>1, Facts DEF Progress
  <2>5. Kept(v)'
    BY <1>1, <1>4, <1>7, <2>1, Facts DEF Kept
  <2>3. Inserted(v)' /\ Swept1(v)'
    BY <1>1, <1>4, <1>7, <2>1, Facts DEF Inserted, Swept1
  <2> QED
    BY <2>2, <2>3, <2>4, <2>5 DEF Good
<1>8. Good(u)'
  <2>1. put[u] = {} /\ purged[u] = {} /\ sweep[u] = {} /\ next[u] = 1
    BY <1>1, Facts DEF Inserted, Swept1, Progress
  <2>2. ~stored[u] /\ batch[u] = {} /\ \A r \in accepted : r.upload # u
    BY <1>1, Facts DEF Kept
  <2>3. Open(u)' = {i \in DOMAIN f : f[i] # Invalid} /\ Registered(u)' = {}
    BY <1>4 DEF Open, Registered
  <2>4. Judged(u)'
    BY <1>4 DEF Judged, Verdicts
  <2>5. Progress(u)'
    <3>1. \A i \in Open(u)' : ~(i < next'[u])
      BY <1>1, <1>3, <2>1, <2>3
    <3> QED
      BY <1>4, <2>3, <3>1 DEF Progress, Working
  <2>6. Inserted(u)' /\ Swept1(u)'
    BY <1>1, <1>4, <2>1, <2>3, Facts DEF Inserted, Swept1, Steps
  <2>7. Kept(u)'
    BY <1>1, <1>4, <2>2 DEF Kept
  <2> QED
    BY <2>4, <2>5, <2>6, <2>7 DEF Good
<1> QED
  BY <1>5, <1>6, <1>7, <1>8 DEF DedupInv

LEMMA NextInv ==
  ASSUME DedupInv, [Next]_vars PROVE DedupInv'
<1>1. CASE UNCHANGED vars
  <2> USE <1>1 DEF vars, txVars, fileVars, seenVars
  <2>1. DedupTypes' /\ Gone'
    BY DEF DedupInv, DedupTypes, Gone
  <2>2. ASSUME NEW u \in Uploads PROVE Good(u)'
    <3>1. /\ Open(u)' = Open(u) /\ Registered(u)' = Registered(u)
          /\ \A i : First(u, i)' <=> First(u, i)
          /\ \A r : Counts(r, u)' <=> Counts(r, u)
      BY DEF Open, Registered, First, Counts
    <3>2. Judged(u)' /\ Kept(u)'
      BY <3>1, Facts DEF Judged, Kept
    <3>3. Progress(u)'
      BY <3>1, Facts DEF Progress
    <3>4. Inserted(u)'
      BY <3>1, Facts DEF Inserted
    <3>5. Swept1(u)'
      BY <3>1, Facts DEF Swept1
    <3> QED
      BY <3>2, <3>3, <3>4, <3>5 DEF Good
  <2> QED
    BY <2>1, <2>2 DEF DedupInv
<1>2. CASE Tick
  BY <1>2, TickInv
<1>3. ASSUME NEW u \in Uploads, Step(u) PROVE DedupInv'
  BY <1>3, CheckRowInv, TransformInv, PurgeInv, SweepRowInv, SweptInv, RegisterInv, InsertInv,
     InsertRepeatedInv, DecideInv, RejectInv, FailsInv, SaveInv, CommitInv
     DEF Step, AbortDeadlock
<1>4. ASSUME NEW u \in Uploads,
             Receive(u) \/ Fails(u) \/ SaveFails(u) \/ CommitLost(u) \/ Crash(u)
      PROVE  DedupInv'
  BY <1>4, ReceiveInv, FailsInv, CommitInv
<1> QED
  BY <1>1, <1>2, <1>3, <1>4 DEF Next

(* The inductive invariant: registrations that are gone had expired, open
   transactions share no key, and every verdict is one the contract allows. *)
THEOREM DedupInvariance == Spec => []DedupInv
BY InitInv, NextInv, PTL DEF Spec

(* What an upload has registered is what its batch works on. *)
THEOREM KeysAreTasks == Spec => []KeysMatchBatches
<1>1. ASSUME DedupInv PROVE KeysMatchBatches
  <2>1. SUFFICES ASSUME NEW u \in Uploads
                 PROVE  /\ {r.key : r \in {s \in accepted : s.upload = u}} = {rows[u][i] : i \in batch[u]}
                        /\ \A i, j \in batch[u] : rows[u][i] = rows[u][j] => i = j
    BY DEF KeysMatchBatches
  <2>2. {r.key : r \in {s \in accepted : s.upload = u}} = {rows[u][i] : i \in batch[u]}
    BY <1>1, Facts DEF Kept
  <2>3. ASSUME NEW i \in batch[u], NEW j \in batch[u], rows[u][i] = rows[u][j] PROVE i = j
    <3>1. \A k \in batch[u] : k \in DOMAIN rows[u] /\ k \in Nat /\ First(u, k)
      BY <1>1, Facts DEF Kept, Registered, Judged
    <3> QED
      BY <2>3, <3>1 DEF First
  <2> QED
    BY <2>2, <2>3
<1> QED
  BY <1>1, DedupInvariance, PTL

(* An accepted upload keeps its file, and no file is left without its batch but
   by a crash. *)
THEOREM FileKept == Spec => []FileWithBatch
<1>1. ASSUME DedupInv PROVE FileWithBatch
  BY <1>1, Facts DEF FileWithBatch, Kept
<1> QED
  BY <1>1, DedupInvariance, PTL

-----------------------------------------------------------------------------
(* The refinement.                                                         *)

\* How far the contract has the upload, and the answer it has given.
Outcome(u) == CASE pc[u] = "new" -> "none"
                [] pc[u] \in Steps -> "open"
                [] pc[u] = "dead" -> "failed"
                [] OTHER -> pc[u]
Told(u) == IF pc[u] \in {"accepted", "rejected"} THEN verdict[u]
           ELSE [i \in DOMAIN rows[u] |-> "open"]

\* The state functions the contract speaks of, and a step of one upload.
LEMMA Seen ==
  ASSUME DedupTypes, NEW u \in Uploads, pc'[u] \in Points,
         \A v \in Uploads \ {u} : /\ pc'[v] = pc[v] /\ rows'[v] = rows[v]
                                  /\ verdict'[v] = verdict[v]
  PROVE  LET outcome == [v \in Uploads |-> Outcome(v)]
             told    == [v \in Uploads |-> Told(v)]
         IN  /\ outcome[u] = Outcome(u)
             /\ outcome' = [outcome EXCEPT ![u] = Outcome(u)']
             /\ told' = [told EXCEPT ![u] = Told(u)']
<1>1. \A v \in Uploads \ {u} : Outcome(v)' = Outcome(v) /\ Told(v)' = Told(v)
  BY DEF Outcome, Told
<1>2. [v \in Uploads |-> Outcome(v)]' = [[v \in Uploads |-> Outcome(v)] EXCEPT ![u] = Outcome(u)']
  BY <1>1
<1>3. [v \in Uploads |-> Told(v)]' = [[v \in Uploads |-> Told(v)] EXCEPT ![u] = Told(u)']
  BY <1>1
<1> QED
  BY <1>2, <1>3

\* What was judged justifies the answer, and what was inserted is what it takes.
LEMMA Answer ==
  ASSUME DedupInv, NEW u \in Uploads, pc[u] \in {"committing", "rejecting"}
  PROVE  /\ verdict[u] \in [DOMAIN rows[u] -> Contract!Verdicts]
         /\ Contract!Justified(u, verdict[u])
         /\ Contract!Chosen(u, verdict[u]) = {rows[u][i] : i \in Registered(u)}
<1>1. \A i \in DOMAIN rows[u] : verdict[u][i] # "open"
  BY Facts DEF Progress, Open
<1>2. Contract!Justified(u, verdict[u])
  BY <1>1, Facts DEF Contract!Justified, Contract!Fresh, Judged, Counts, First
<1>3. verdict[u] \in [DOMAIN rows[u] -> Contract!Verdicts]
  BY Facts DEF Judged, Verdicts, Contract!Verdicts
<1>4. Contract!Chosen(u, verdict[u]) = {rows[u][i] : i \in Registered(u)}
  BY DEF Contract!Chosen, Registered
<1> QED
  BY <1>2, <1>3, <1>4

LEMMA TakesPut ==
  ASSUME DedupInv, NEW u \in Uploads, pc[u] = "committing", accepted' = accepted \cup put[u],
         \A r \in accepted : r.upload # u
  PROVE  Contract!Takes(u, verdict[u])
<1>1. accepted' \ accepted = put[u]
  BY Facts DEF Inserted
<1>2. put[u] \subseteq Contract!Registrations
  BY DEF DedupInv, DedupTypes, Registrations, Contract!Registrations
<1>3. {s.key : s \in put[u]} = {rows[u][i] : i \in Registered(u)}
  BY Facts DEF Inserted, Steps
<1>4. \A s, t \in put[u] : s.key = t.key => s = t
  BY Facts DEF Inserted
<1>5. \A s \in put[u] :
        /\ s.upload = u /\ arrived[u] <= s.at /\ s.at <= s.put /\ s.put <= clock
        /\ \A r \in accepted : r.key = s.key => r.at + Window < s.put
  BY Facts DEF Inserted
<1> QED
  BY <1>1, <1>2, <1>3, <1>4, <1>5, Answer DEF Contract!Takes

\* An upload that ends closes its side of the contract.
LEMMA CloseStep ==
  ASSUME DedupInv, NEW u \in Uploads, Leaves(u), pc' \in [Uploads -> Points],
         NEW how, Outcome(u)' = how
  PROVE  /\ Contract!Closes(u, how)
         /\ Told(u)' = IF pc'[u] \in {"accepted", "rejected"} THEN verdict[u] ELSE Told(u)
         /\ [v \in Uploads |-> Told(v)]' = [[v \in Uploads |-> Told(v)] EXCEPT ![u] = Told(u)']
<1>1. /\ pc[u] \in Steps /\ pc'[u] \in Points
      /\ \A v \in Uploads \ {u} : /\ pc'[v] = pc[v] /\ rows'[v] = rows[v]
                                  /\ verdict'[v] = verdict[v]
      /\ UNCHANGED <<clock, rows, arrived, verdict>> /\ closed' = [closed EXCEPT ![u] = clock]
  BY LeftBehind DEF Leaves
<1>2. /\ [v \in Uploads |-> Outcome(v)][u] = "open"
      /\ [v \in Uploads |-> Outcome(v)]' = [[v \in Uploads |-> Outcome(v)] EXCEPT ![u] = how]
      /\ [v \in Uploads |-> Told(v)]' = [[v \in Uploads |-> Told(v)] EXCEPT ![u] = Told(u)']
  <2>1. Outcome(u) = "open"
    BY <1>1 DEF Outcome, Steps
  <2> QED
    BY <1>1, <2>1, Seen DEF DedupInv
<1>3. Contract!Closes(u, how)
  BY <1>1, <1>2 DEF Contract!Closes, Outcome
<1>4. Told(u)' = IF pc'[u] \in {"accepted", "rejected"} THEN verdict[u] ELSE Told(u)
  BY <1>1 DEF Told, Steps
<1> QED
  BY <1>2, <1>3, <1>4

LEMMA FailStep ==
  ASSUME DedupInv, NEW u \in Uploads, Leaves(u), pc' \in [Uploads -> Points],
         pc'[u] \in {"failed", "dead"},
         \/ UNCHANGED accepted
         \/ \E v \in [DOMAIN rows[u] -> Contract!Verdicts] :
              Contract!Justified(u, v) /\ Contract!Takes(u, v)
  PROVE  Contract!Fail(u)
<1>1. Outcome(u)' = "failed"
  BY DEF Outcome, Steps
<1>4. Told(u)' = Told(u)
  BY <1>1, CloseStep
<1>2. [v \in Uploads |-> Told(v)]' = [v \in Uploads |-> Told(v)]
  BY <1>1, <1>4, CloseStep
<1>3. Contract!Closes(u, "failed")
  BY <1>1, CloseStep
<1> QED
  BY <1>2, <1>3 DEF Contract!Fail, Told

LEMMA EndStep ==
  ASSUME DedupInv, DedupInv', NEW u \in Uploads,
         \/ Reject(u) \/ Fails(u) \/ SaveFails(u) \/ Crash(u) \/ Commit(u) \/ CommitLost(u)
  PROVE  Contract!Next
<1>1. pc' \in [Uploads -> Points] /\ pc \in [Uploads -> Points]
  BY DEF DedupInv, DedupTypes
<1>2. CASE Fails(u) \/ SaveFails(u) \/ Crash(u)
  BY <1>1, <1>2, FailsInv, FailStep DEF RolledBack, Contract!Next
<1>3. CASE CommitLost(u)
  <2>1. Leaves(u) /\ Committed(u) /\ pc[u] = "committing" /\ pc'[u] = "failed"
    BY <1>1, <1>3, CommitInv DEF CommitLost, Goto
  <2>2. Contract!Takes(u, verdict[u])
    BY <2>1, TakesPut, LeftBehind DEF Committed
  <2> QED
    BY <1>1, <2>1, <2>2, Answer, FailStep DEF Contract!Next
<1>4. CASE Commit(u)
  <2>1. Leaves(u) /\ Committed(u) /\ pc[u] = "committing" /\ pc'[u] = "accepted"
    BY <1>1, <1>4, CommitInv DEF Commit, Goto
  <2>2. Contract!Takes(u, verdict[u])
    BY <2>1, TakesPut, LeftBehind DEF Committed
  <2>3. Contract!Chosen(u, verdict[u]) # {}
    <3>1. Registered(u) # {}
      BY <2>1, Facts DEF Progress
    <3>2. {rows[u][i] : i \in Registered(u)} # {}
      BY <3>1, Zenon
    <3> QED
      BY <2>1, <3>2, Answer
  <2>4. Outcome(u)' = "accepted"
    BY <2>1 DEF Outcome, Steps
  <2>5. /\ Contract!Closes(u, "accepted")
        /\ [v \in Uploads |-> Told(v)]' = [[v \in Uploads |-> Told(v)] EXCEPT ![u] = verdict[u]]
    BY <1>1, <2>1, <2>4, CloseStep
  <2>6. Contract!Accept(u)
    BY <2>1, <2>2, <2>3, <2>5, Answer DEF Contract!Accept, Told
  <2> QED
    BY <2>6 DEF Contract!Next
<1>5. CASE Reject(u)
  <2>1. /\ Leaves(u) /\ put[u] = {} /\ pc[u] = "rejecting" /\ pc'[u] \in {"rejected", "failed"}
        /\ accepted' = accepted
    BY <1>1, <1>5, RejectInv DEF Reject, Goto, Committed
  <2>2. CASE pc'[u] = "failed"
    BY <1>1, <2>1, <2>2, FailStep DEF Contract!Next
  <2>3. CASE pc'[u] = "rejected"
    <3>1. Contract!Chosen(u, verdict[u]) = {}
      BY <2>1, Answer, Facts DEF Progress
    <3>2. Outcome(u)' = "rejected"
      BY <2>3 DEF Outcome, Steps
    <3>3. /\ Contract!Closes(u, "rejected")
          /\ [v \in Uploads |-> Told(v)]' = [[v \in Uploads |-> Told(v)] EXCEPT ![u] = verdict[u]]
      BY <1>1, <2>1, <2>3, <3>2, CloseStep
    <3>4. Contract!Refuse(u)
      BY <2>1, <3>1, <3>3, Answer DEF Contract!Refuse, Told
    <3> QED
      BY <3>4 DEF Contract!Next
  <2> QED
    BY <2>1, <2>2, <2>3
<1> QED
  BY <1>2, <1>3, <1>4, <1>5

\* A step inside the transaction is none of the contract.
LEMMA Stutter ==
  ASSUME DedupInv, NEW u \in Uploads, pc[u] \in Steps, pc'[u] \in Steps,
         UNCHANGED <<clock, rows, arrived, closed, accepted>>,
         \A v \in Uploads \ {u} : pc'[v] = pc[v] /\ verdict'[v] = verdict[v]
  PROVE  UNCHANGED Contract!contractVars
<1>1. ASSUME NEW v \in Uploads PROVE Outcome(v)' = Outcome(v) /\ Told(v)' = Told(v)
  <2>1. CASE v = u
    BY <2>1 DEF Outcome, Told, Steps
  <2>2. CASE v # u
    BY <2>2 DEF Outcome, Told
  <2> QED
    BY <2>1, <2>2
<1>2. /\ [v \in Uploads |-> Outcome(v)]' = [v \in Uploads |-> Outcome(v)]
      /\ [v \in Uploads |-> Told(v)]' = [v \in Uploads |-> Told(v)]
  BY <1>1
<1> QED
  BY <1>2 DEF Contract!contractVars, Outcome, Told

LEMMA ReceiveStep ==
  ASSUME DedupInv, NEW u \in Uploads, Receive(u) PROVE Contract!Arrive(u)
<1>1. /\ DedupTypes /\ pc[u] = "new"
      /\ UNCHANGED <<clock, closed, accepted>> /\ arrived' = [arrived EXCEPT ![u] = clock]
  BY DEF Receive, DedupInv
<1>2. PICK f \in Files :
       /\ rows' = [rows EXCEPT ![u] = f]
       /\ verdict' = [verdict EXCEPT ![u] =
                        [i \in DOMAIN f |-> IF f[i] = Invalid THEN "invalid" ELSE "open"]]
       /\ pc' = [pc EXCEPT ![u] = IF \E i \in DOMAIN f : f[i] # Invalid
                                  THEN "checking" ELSE "rejecting"]
  BY DEF Receive
<1>3. /\ rows'[u] = f /\ pc'[u] \in {"checking", "rejecting"}
      /\ \A v \in Uploads \ {u} : /\ pc'[v] = pc[v] /\ rows'[v] = rows[v]
                                  /\ verdict'[v] = verdict[v]
  BY <1>1, <1>2 DEF DedupTypes
<1>4. /\ Outcome(u) = "none" /\ Outcome(u)' = "open" /\ pc'[u] \in Points
      /\ Told(u)' = Contract!Blank(f)
  BY <1>1, <1>3 DEF Outcome, Told, Steps, Points, Contract!Blank
<1>5. /\ [v \in Uploads |-> Outcome(v)][u] = "none"
      /\ [v \in Uploads |-> Outcome(v)]' = [[v \in Uploads |-> Outcome(v)] EXCEPT ![u] = "open"]
      /\ [v \in Uploads |-> Told(v)]' = [[v \in Uploads |-> Told(v)] EXCEPT ![u] = Contract!Blank(f)]
  BY <1>1, <1>3, <1>4, Seen
<1> QED
  BY <1>1, <1>2, <1>5 DEF Contract!Arrive, Outcome, Told

LEMMA NextStep ==
  ASSUME DedupInv, DedupInv', [Next]_vars PROVE [Contract!Next]_(Contract!contractVars)
<1>1. CASE UNCHANGED vars
  BY <1>1 DEF vars, seenVars, Contract!contractVars
<1>2. CASE Tick
  BY <1>2 DEF Tick, seenVars, Contract!Next, Contract!Tick
<1>3. ASSUME NEW u \in Uploads, Receive(u) PROVE Contract!Next
  BY <1>3, ReceiveStep DEF Contract!Next
<1>4. ASSUME NEW u \in Uploads,
             \/ Reject(u) \/ Fails(u) \/ SaveFails(u) \/ Crash(u) \/ Commit(u) \/ CommitLost(u)
      PROVE  Contract!Next
  BY <1>4, EndStep
<1>5. ASSUME NEW u \in Uploads,
             \/ CheckRow(u) \/ Transform(u) \/ Purge(u) \/ SweepRow(u) \/ Swept(u) \/ Register(u)
             \/ Insert(u) \/ InsertRepeated(u) \/ Decide(u) \/ Save(u)
      PROVE  UNCHANGED Contract!contractVars
  <2>1. DedupTypes /\ DedupTypes'
    BY DEF DedupInv
  <2>2. /\ pc[u] \in Steps /\ pc'[u] \in Steps /\ \A v \in Uploads \ {u} : pc'[v] = pc[v]
        /\ UNCHANGED <<clock, rows, arrived, closed, accepted>>
    BY <1>5, <2>1 DEF CheckRow, Transform, Purge, SweepRow, Swept, Register, Insert, InsertRepeated,
       Decide, Save, Goto, Steps, DedupTypes, seenVars
  <2>3. \A v \in Uploads \ {u} : verdict'[v] = verdict[v]
    BY <1>5, <2>1 DEF CheckRow, Transform, Purge, SweepRow, Swept, Register, Insert, InsertRepeated,
       Decide, Save, Judge, DedupTypes
  <2> QED
    BY <2>2, <2>3, Stutter
<1> QED
  BY <1>1, <1>2, <1>3, <1>4, <1>5 DEF Next, Step, AbortDeadlock

(* The upload keeps its contract, for any number of concurrent uploads. *)
THEOREM Implements == Spec => ImplementsContract
<1>1. Init => Contract!Init
  <2>1. ASSUME NEW v \in Uploads, Init PROVE Outcome(v) = "none" /\ Told(v) = << >>
    <3>1. pc[v] = "new" /\ rows[v] = << >>
      BY <2>1 DEF Init
    <3>2. [i \in DOMAIN << >> |-> "open"] = << >>
      OBVIOUS
    <3> QED
      BY <3>1, <3>2 DEF Outcome, Told, Steps
  <2>2. ASSUME Init
        PROVE  /\ [v \in Uploads |-> Outcome(v)] = [v \in Uploads |-> "none"]
               /\ [v \in Uploads |-> Told(v)] = [v \in Uploads |-> << >>]
    BY <2>1, <2>2
  <2> QED
    BY <2>2 DEF Init, Contract!Init, Outcome, Told
<1> QED
  BY <1>1, NextStep, DedupInvariance, PTL DEF Spec, ImplementsContract, Contract!Spec

(* A batch of registrations that is accepted at once repeats neither itself
   nor anything accepted before within the window. *)
LEMMA TakingIsSafe ==
  ASSUME Contract!NoEarlyRepeat, NEW u, NEW v, Contract!Takes(u, v)
  PROVE  Contract!NoEarlyRepeat'
<1> DEFINE new == accepted' \ accepted
<1> SUFFICES ASSUME NEW r \in accepted', NEW s \in accepted', r.key = s.key, r # s
             PROVE  r.at + Window < s.put \/ s.at + Window < r.put
  BY DEF Contract!NoEarlyRepeat
<1>1. CASE r \in accepted /\ s \in accepted
  BY <1>1 DEF Contract!NoEarlyRepeat
<1>2. CASE r \in accepted /\ s \in new
  BY <1>2 DEF Contract!Takes
<1>3. CASE r \in new /\ s \in accepted
  BY <1>3 DEF Contract!Takes
<1>4. CASE r \in new /\ s \in new
  BY <1>4 DEF Contract!Takes
<1> QED
  BY <1>1, <1>2, <1>3, <1>4

(* Whatever keeps the contract never works on one request twice within the
   window: the promise deduplication_service.py and nat_request_deduplication
   are there for. *)
THEOREM ContractMeansNoEarlyRepeat == ImplementsContract => []Contract!NoEarlyRepeat
<1>1. Contract!Init => Contract!NoEarlyRepeat
  BY DEF Contract!Init, Contract!NoEarlyRepeat
<1>2. Contract!NoEarlyRepeat /\ [Contract!Next]_(Contract!contractVars) => Contract!NoEarlyRepeat'
  <2> SUFFICES ASSUME Contract!NoEarlyRepeat, [Contract!Next]_(Contract!contractVars)
               PROVE  Contract!NoEarlyRepeat'
    OBVIOUS
  <2>1. CASE UNCHANGED accepted
    BY <2>1 DEF Contract!NoEarlyRepeat
  <2>2. CASE \E u, v : Contract!Takes(u, v)
    BY <2>2, TakingIsSafe
  <2>3. UNCHANGED accepted \/ \E u, v : Contract!Takes(u, v)
    BY DEF Contract!Next, Contract!Tick, Contract!Arrive, Contract!Accept, Contract!Refuse,
           Contract!Fail, Contract!contractVars
  <2> QED
    BY <2>1, <2>2, <2>3
<1> QED
  BY <1>1, <1>2, PTL DEF ImplementsContract, Contract!Spec

(* Of two accepted registrations of one request, one was written more than
   Window minutes after the other was made: the promise of the deduplication,
   of the upload itself. *)
THEOREM NoneTwiceInWindow == Spec => []Contract!NoEarlyRepeat
BY Implements, ContractMeansNoEarlyRepeat, PTL
=============================================================================
