---------------------------- MODULE IntakeDedup ----------------------------
(***************************************************************************)
(* The upload of a NAT request file: validation, deduplication, storage of *)
(* the file and the one commit that creates batch, tasks and keys.         *)
(*                                                                         *)
(* Uploads run concurrently, in any number of API processes, each in one   *)
(* READ COMMITTED transaction over nat_dedup_keys.  A statement reads what *)
(* is committed when it runs plus its own changes; an INSERT that meets an *)
(* equal key another transaction has inserted or deleted but not committed *)
(* waits for that transaction, and so does a DELETE that meets a row       *)
(* another one has deleted.  PostgreSQL aborts one of the transactions     *)
(* that wait for each other.                                               *)
(***************************************************************************)
EXTENDS Integers, Sequences

CONSTANTS Uploads, Keys, Invalid, Files, Untransformable, Window, MaxTime

ASSUME DedupAssumption ==
  /\ Invalid \notin Keys
  /\ Files \subseteq Seq(Keys \cup {Invalid})
  /\ Untransformable \subseteq Keys
  /\ Window \in Nat \ {0}
  /\ MaxTime \in Nat

VARIABLES
  clock,    \* datetime.now(UTC) in minutes, the same on every host
  keys,     \* nat_dedup_keys: the committed registrations
  rows,     \* [Uploads -> parsed rows of its file]
  pc,       \* how far IntakeService.process is
  next,     \* the row it is at
  verdict,  \* [Uploads -> verdict of each row so far]
  now,      \* the time register_if_absent has read
  put,      \* registrations the open transaction has inserted
  purged,   \* keys rows the open transaction has deleted
  sweep,    \* rows the running DELETE has selected and not yet reached
  stored,   \* the uploaded file is on disk
  batch,    \* [Uploads -> rows of the file that are tasks of its batch]
  arrived, closed, accepted  \* history: begin and end of uploads, registrations

txVars   == <<put, purged, sweep>>
fileVars == <<stored, batch>>
seenVars == <<arrived, closed, accepted>>
vars     == <<clock, keys, rows, pc, next, verdict, now, txVars, fileVars, seenVars>>

Ends     == {"accepted", "rejected", "failed", "dead"}
Steps    == {"checking", "purging", "sweeping", "registering", "inserting",
             "saving", "committing", "rejecting"}
Verdicts == {"open", "invalid", "repeated", "expansion", "registered"}
Registrations == [key : Keys, upload : Uploads, at : Nat, put : Nat]

Open(u) == {i \in DOMAIN rows[u] : verdict[u][i] = "open"}
Left(u) == {i \in Open(u) : i >= next[u]}
\* The first of the rows left, if any.
Foremost(u) == {i \in Left(u) : \A j \in Left(u) : i <= j}
\* The row an upload works on.
Key(u)  == rows[u][next[u]]

-----------------------------------------------------------------------------
(* What a statement of upload u sees, and whom it waits for.               *)

InWindow(r, t) == r.at + Window >= t
Visible(u)     == (keys \ purged[u]) \cup put[u]

Expired(u) == {r \in Visible(u) : ~InWindow(r, clock)}

\* Transactions whose uncommitted insert or delete of an equal key decides
\* whether the INSERT of u violates the unique key_hash.
Holders(u) == {v \in Uploads \ {u} : \E r \in put[v] \cup purged[v] : r.key = Key(u)}

KnownInWindow(u, t) == \E r \in Visible(u) : r.key = Key(u) /\ InWindow(r, t)

\* The transactions u waits for; a DELETE waits once every row it has left
\* is held, as it visits its rows in no fixed order.
WaitsFor(u) ==
  CASE pc[u] = "inserting" /\ ~KnownInWindow(u, now[u]) -> Holders(u)
    [] pc[u] = "sweeping" /\ \A r \in sweep[u] : \E v \in Uploads \ {u} : r \in purged[v] ->
         {v \in Uploads \ {u} : purged[v] \cap sweep[u] # {}}
    [] OTHER -> {}

Deadlocked(u) == \E S \in SUBSET Uploads :
                   /\ u \in S
                   /\ \A v \in S : /\ WaitsFor(v) \cap S # {}
                                   /\ \E w \in S : v \in WaitsFor(w)

-----------------------------------------------------------------------------
Init ==
  /\ clock = 0
  /\ keys = {}
  /\ rows = [u \in Uploads |-> << >>]
  /\ pc = [u \in Uploads |-> "new"]
  /\ next = [u \in Uploads |-> 1]
  /\ verdict = [u \in Uploads |-> << >>]
  /\ now = [u \in Uploads |-> 0]
  /\ put = [u \in Uploads |-> {}]
  /\ purged = [u \in Uploads |-> {}]
  /\ sweep = [u \in Uploads |-> {}]
  /\ stored = [u \in Uploads |-> FALSE]
  /\ batch = [u \in Uploads |-> {}]
  /\ arrived = [u \in Uploads |-> 0]
  /\ closed = [u \in Uploads |-> 0]
  /\ accepted = {}

Tick ==
  /\ clock < MaxTime
  /\ clock' = clock + 1
  /\ UNCHANGED <<keys, rows, pc, next, verdict, now, txVars, fileVars, seenVars>>

Goto(u, p) == pc[u] \in Steps /\ pc' = [pc EXCEPT ![u] = p]

\* One verdict, and on to the next row.
Judge(u, v) ==
  /\ verdict' = [verdict EXCEPT ![u][next[u]] = v]
  /\ next' = [next EXCEPT ![u] = @ + 1]

\* The file gate, parsing and row validation: no await in between.
Receive(u) ==
  /\ pc[u] = "new"
  /\ \E f \in Files :
       /\ rows' = [rows EXCEPT ![u] = f]
       /\ verdict' = [verdict EXCEPT ![u] =
                        [i \in DOMAIN f |-> IF f[i] = Invalid THEN "invalid" ELSE "open"]]
       /\ pc' = [pc EXCEPT ![u] = IF \E i \in DOMAIN f : f[i] # Invalid
                                  THEN "checking" ELSE "rejecting"]
  /\ arrived' = [arrived EXCEPT ![u] = clock]
  /\ UNCHANGED <<clock, keys, next, now, txVars, fileVars, closed, accepted>>

\* check_duplicates, one row: seen in this file, or exists_within_window.
CheckRow(u) ==
  /\ pc[u] = "checking"
  /\ \E i \in Foremost(u) : LET k == rows[u][i] IN
       /\ verdict' = [verdict EXCEPT ![u][i] =
            IF \/ \E j \in DOMAIN rows[u] : j < i /\ rows[u][j] = k
               \/ \E r \in Visible(u) : r.key = k /\ InWindow(r, clock)
            THEN "repeated" ELSE "open"]
       /\ next' = [next EXCEPT ![u] = i + 1]
  /\ UNCHANGED <<clock, keys, rows, pc, now, txVars, fileVars, seenVars>>

\* The rows left are expanded; some may exceed a limit.
Transform(u) ==
  /\ pc[u] = "checking" /\ Left(u) = {}
  /\ verdict' = [verdict EXCEPT ![u] = [i \in DOMAIN rows[u] |->
                   IF i \in Open(u) /\ rows[u][i] \in Untransformable
                   THEN "expansion" ELSE verdict[u][i]]]
  /\ Goto(u, IF \E i \in Open(u) : rows[u][i] \notin Untransformable
             THEN "purging" ELSE "rejecting")
  /\ UNCHANGED <<clock, keys, rows, next, now, txVars, fileVars, seenVars>>

\* purge_expired: the DELETE selects its rows ...
Purge(u) ==
  /\ pc[u] = "purging"
  /\ sweep' = [sweep EXCEPT ![u] = Expired(u)]
  /\ Goto(u, "sweeping")
  /\ UNCHANGED <<clock, keys, rows, next, verdict, now, put, purged, fileVars, seenVars>>

\* ... and deletes them, but for those another upload has deleted meanwhile.
SweepRow(u) ==
  /\ pc[u] = "sweeping"
  /\ \E r \in sweep[u] :
       /\ \A v \in Uploads \ {u} : r \notin purged[v]
       /\ sweep' = [sweep EXCEPT ![u] = @ \ {r}]
       /\ purged' = [purged EXCEPT ![u] = @ \cup ({r} \cap keys)]
  /\ UNCHANGED <<clock, keys, rows, pc, next, verdict, now, put, fileVars, seenVars>>

Swept(u) ==
  /\ pc[u] = "sweeping" /\ sweep[u] = {}
  /\ Goto(u, "registering")
  /\ next' = [next EXCEPT ![u] = 1]
  /\ UNCHANGED <<clock, keys, rows, verdict, now, txVars, fileVars, seenVars>>

\* register_if_absent reads the time, opens a savepoint ...
Register(u) ==
  /\ pc[u] = "registering"
  /\ \E i \in Foremost(u) : next' = [next EXCEPT ![u] = i]
  /\ now' = [now EXCEPT ![u] = clock]
  /\ Goto(u, "inserting")
  /\ UNCHANGED <<clock, keys, rows, verdict, txVars, fileVars, seenVars>>

\* ... and runs INSERT .. WHERE NOT EXISTS, which registers the row,
Insert(u) ==
  /\ pc[u] = "inserting"
  /\ Holders(u) = {}
  /\ \A r \in Visible(u) : r.key # Key(u)
  /\ put' = [put EXCEPT ![u] = @ \cup
               {[key |-> Key(u), upload |-> u, at |-> now[u], put |-> clock]}]
  /\ Judge(u, "registered")
  /\ Goto(u, "registering")
  /\ UNCHANGED <<clock, keys, rows, now, purged, sweep, fileVars, seenVars>>

\* or finds a key in the window, or violates the unique key_hash.
InsertRepeated(u) ==
  /\ pc[u] = "inserting"
  /\ \/ KnownInWindow(u, now[u])
     \/ Holders(u) = {} /\ \E r \in Visible(u) : r.key = Key(u)
  /\ Judge(u, "repeated")
  /\ Goto(u, "registering")
  /\ UNCHANGED <<clock, keys, rows, now, txVars, fileVars, seenVars>>

Registered(u) == {i \in DOMAIN rows[u] : verdict[u][i] = "registered"}

\* All rows have been tried.
Decide(u) ==
  /\ pc[u] = "registering" /\ Left(u) = {}
  /\ Goto(u, IF Registered(u) = {} THEN "rejecting" ELSE "saving")
  /\ UNCHANGED <<clock, keys, rows, next, verdict, now, txVars, fileVars, seenVars>>

\* Mutant: the session is not closed, its transaction stays open.
Released_StaysOpen(u) ==
  /\ closed' = [closed EXCEPT ![u] = clock]
  /\ UNCHANGED <<clock, rows, next, verdict, now, txVars, arrived>>
\* The transaction of u has ended.
Released(u) ==
  /\ put' = [put EXCEPT ![u] = {}]
  /\ purged' = [purged EXCEPT ![u] = {}]
  /\ sweep' = [sweep EXCEPT ![u] = {}]
  /\ closed' = [closed EXCEPT ![u] = clock]
  /\ UNCHANGED <<clock, rows, next, verdict, now, arrived>>

Committed(u) ==
  /\ keys' = (keys \ purged[u]) \cup put[u]
  /\ accepted' = accepted \cup put[u]
\* Mutant: what the transaction did before the failure stays.
RolledBack_Never(u) == Committed(u)
RolledBack(u) == UNCHANGED <<keys, accepted>>

\* _reject_file and _reject_with_row_errors commit the intake; the answer of
\* that commit may be lost.
Reject(u) ==
  /\ pc[u] = "rejecting"
  /\ \E p \in {"rejected", "failed"} : Goto(u, p)
  /\ Committed(u) /\ Released(u)
  /\ UNCHANGED fileVars

\* A statement fails, or PostgreSQL resolves a deadlock: status 500.
Fails(u) ==
  /\ pc[u] \in Steps \ {"saving", "committing"}
  /\ Goto(u, "failed")
  /\ RolledBack(u) /\ Released(u)
  /\ UNCHANGED fileVars

AbortDeadlock(u) == Deadlocked(u) /\ Fails(u)

Save(u) ==
  /\ pc[u] = "saving"
  /\ stored' = [stored EXCEPT ![u] = TRUE]
  /\ Goto(u, "committing")
  /\ UNCHANGED <<clock, keys, rows, next, verdict, now, txVars, batch, seenVars>>

\* Mutant: a row that a concurrent upload registered first becomes a task too.
Tasks_Unfiltered(u) == {i \in DOMAIN rows[u] : verdict[u][i] \in {"registered", "repeated"}}
\* transformed_rows by registered_row_numbers
Tasks(u) == Registered(u)

\* Batch, tasks, row errors and intake are written and committed.
Commit(u) ==
  /\ pc[u] = "committing"
  /\ Goto(u, "accepted")
  /\ batch' = [batch EXCEPT ![u] = Tasks(u)]
  /\ Committed(u) /\ Released(u)
  /\ UNCHANGED stored

\* Mutant: the file is left behind.
DeleteFile_Never(u) == UNCHANGED stored
DeleteFile(u) == stored' = [stored EXCEPT ![u] = FALSE]

\* An exception while the file is saved, the rows are written or committed.
SaveFails(u) ==
  /\ pc[u] \in {"saving", "committing"}
  /\ Goto(u, "failed")
  /\ DeleteFile(u)
  /\ RolledBack(u) /\ Released(u)
  /\ UNCHANGED batch

\* The commit takes place but its answer is lost: an exception all the same.
CommitLost(u) ==
  /\ pc[u] = "committing"
  /\ Goto(u, "failed")
  /\ DeleteFile(u)
  /\ batch' = [batch EXCEPT ![u] = Tasks(u)]
  /\ Committed(u) /\ Released(u)

\* The process dies and PostgreSQL rolls its transaction back.
Crash(u) ==
  /\ Goto(u, "dead")
  /\ RolledBack(u) /\ Released(u)
  /\ UNCHANGED fileVars

Step(u) ==
  \/ CheckRow(u) \/ Transform(u) \/ Purge(u) \/ SweepRow(u) \/ Swept(u)
  \/ Register(u) \/ Insert(u) \/ InsertRepeated(u) \/ Decide(u)
  \/ Reject(u) \/ AbortDeadlock(u) \/ Save(u) \/ Commit(u)

Next == \/ Tick
        \/ \E u \in Uploads : Receive(u) \/ Step(u) \/ Fails(u) \/ SaveFails(u)
                              \/ CommitLost(u) \/ Crash(u)

Spec == Init /\ [][Next]_vars

\* A handler that has begun runs on, and PostgreSQL resolves deadlocks.
FairSpec == Spec /\ \A u \in Uploads : WF_vars(Step(u))

-----------------------------------------------------------------------------
(* Properties.                                                             *)

\* What an upload has registered is what its batch works on: no key without
\* a task keeps a sender from asking again, and no task escapes the window.
KeysMatchBatches ==
  \A u \in Uploads :
    /\ {r.key : r \in {s \in accepted : s.upload = u}} = {rows[u][i] : i \in batch[u]}
    /\ \A i, j \in batch[u] : rows[u][i] = rows[u][j] => i = j

\* An accepted upload keeps its file; a file without a batch is left behind
\* only by a crash, and a batch without its file only by a lost answer.
FileWithBatch ==
  \A u \in Uploads :
    /\ pc[u] = "accepted" => stored[u]
    /\ stored[u] /\ batch[u] = {} => pc[u] \in {"committing", "dead"}
    /\ ~stored[u] /\ batch[u] # {} => pc[u] = "failed"

\* Every upload ends, whatever others do: waiting uploads are released or
\* aborted.
EveryUploadEnds == \A u \in Uploads : pc[u] # "new" ~> pc[u] \in Ends

\* The upload keeps the contract of IntakeContract.
Contract == INSTANCE IntakeContract WITH
  outcome <- [u \in Uploads |-> CASE pc[u] = "new" -> "none"
                                  [] pc[u] \in Steps -> "open"
                                  [] pc[u] = "dead" -> "failed"
                                  [] OTHER -> pc[u]],
  told <- [u \in Uploads |-> IF pc[u] \in {"accepted", "rejected"} THEN verdict[u]
                             ELSE [i \in DOMAIN rows[u] |-> "open"]]
ImplementsContract == Contract!Spec
=============================================================================
