------------------------- MODULE EmailPollerProofs -------------------------
(***************************************************************************)
(* The e-mail poller for any mailbox, any number of failures and any       *)
(* changes of the whitelist: no message vanishes, nothing is repeated but  *)
(* what was lost, and the audit tells what the intake did.                 *)
(***************************************************************************)
EXTENDS EmailPoller, TLAPS, WellFoundedInduction, FiniteSetTheorems, SequenceTheorems

Counts == 0 .. Cap
Rows   == [status : Results, reply : {"none", "sent", "failed"}]
Judging == {"fetching", "uploading", "answered", "recording"}
Busy    == Judging \cup {"marking", "remarking"}

PollTypes ==
  /\ delivered \subseteq Mails /\ seen \subseteq Mails
  /\ audit \in [Mails -> Seq(Rows)]
  /\ pc \in Points /\ todo \subseteq Mails \ seen
  /\ result \in Results /\ reply \in {"none", "sent", "failed"}
  /\ uploads \in [Mails -> Counts] /\ replies \in [Mails -> Counts]
  /\ accepted \in [Mails -> Counts] /\ lost \in [Mails -> Counts]
  /\ faults \in 0 .. MaxFaults
  /\ pc \in Busy => todo # {}

\* The poller is at message m, at one of the points ps.
At(m, ps) == pc \in ps /\ todo # {} /\ m = Current

\* A message that was uploaded, answered or recorded once more than its outcome
\* was lost is seen, or the poller is still at it.
UploadsOf(m) ==
  /\ uploads[m] <= 1 + lost[m]
  /\ m \in seen \/ At(m, {"answered", "recording", "marking"}) \/ uploads[m] <= lost[m]

RepliesOf(m) ==
  /\ replies[m] <= 1 + lost[m]
  /\ m \in seen \/ At(m, {"recording", "marking"}) \/ replies[m] <= lost[m]

RowsOf(m) ==
  /\ Len(audit[m]) <= 1 + lost[m] /\ Len(audit[m]) <= 1 + faults
  /\ m \in seen \/ At(m, {"marking"}) \/ (Len(audit[m]) <= lost[m] /\ Len(audit[m]) <= faults)

\* What the intake accepted is recorded, lost, or known to the poller.
AcceptedOf(m) ==
  /\ accepted[m] > 0 => \/ m \in seen \/ lost[m] > 0 \/ At(m, {"marking"})
                        \/ At(m, {"answered", "recording"}) /\ result = "accepted"
  /\ At(m, {"answered", "recording"}) /\ result = "accepted" => accepted[m] > 0
  /\ \A i \in DOMAIN audit[m] :
       IF audit[m][i].status = "accepted" THEN accepted[m] > 0
       ELSE accepted[m] > 0 => lost[m] > 0

SeenOf(m) ==
  /\ m \in seen => audit[m] # << >> \/ Duplicate(m)
  /\ At(m, {"marking"}) => audit[m] # << >>
  /\ At(m, {"remarking"}) => Duplicate(m)
  /\ At(m, Judging) => ~Duplicate(m)

MailInv(m) == UploadsOf(m) /\ RepliesOf(m) /\ RowsOf(m) /\ AcceptedOf(m) /\ SeenOf(m)

\* A Message-ID has one row at most.
OneRow ==
  \A m \in Mails : HasId(m) => \A x, y \in SameId(m) : \A i \in DOMAIN audit[x], j \in DOMAIN audit[y] :
    x = y /\ i = j

PollInv == PollTypes /\ OneRow /\ \A m \in Mails : MailInv(m)

\* The first of the messages to do.
LEMMA CurrentIsTodo ==
  ASSUME todo \subseteq Mails, todo # {}
  PROVE  Current \in todo
<1>1. todo \subseteq Nat
  BY PollerAssumption
<1>2. PICK m \in todo : \A n \in todo : ~(<<n, m>> \in OpToRel(<, Nat))
  BY <1>1, NatLessThanWellFounded, WFMin, Zenon
<1>3. \A n \in todo : ~(n < m)
  BY <1>1, <1>2 DEF OpToRel
<1>4. \A n \in todo : m <= n
  BY <1>1, <1>3
<1> QED
  BY <1>4 DEF Current

LEMMA InitInv == Init => PollInv
<1> SUFFICES ASSUME Init PROVE PollInv
  OBVIOUS
<1>1. PollTypes
  <2>1. << >> \in Seq(Rows) /\ 0 \in Counts /\ 0 \in 0 .. MaxFaults
    BY PollerAssumption DEF Counts
  <2>2. /\ audit \in [Mails -> Seq(Rows)]
        /\ uploads \in [Mails -> Counts] /\ replies \in [Mails -> Counts]
        /\ accepted \in [Mails -> Counts] /\ lost \in [Mails -> Counts]
    BY <2>1 DEF Init
  <2>3. QED
    BY <2>1, <2>2 DEF Init, PollTypes, Points, Busy, Judging, Results
<1>2. OneRow
  BY DEF Init, OneRow, SameId
<1>3. ASSUME NEW m \in Mails PROVE MailInv(m)
  BY <1>3, PollerAssumption
  DEF Init, MailInv, UploadsOf, RepliesOf, RowsOf, AcceptedOf, SeenOf, At, Judging
<1> QED
  BY <1>1, <1>2, <1>3 DEF PollInv

\* A message the poller is not at keeps its invariant.
LEMMA ElsewhereInv ==
  ASSUME PollInv, NEW m \in Mails, faults' \in 0 .. MaxFaults, faults <= faults',
         uploads'[m] = uploads[m], replies'[m] = replies[m], accepted'[m] = accepted[m],
         lost'[m] = lost[m], audit'[m] = audit[m], m \in seen' <=> m \in seen,
         ~At(m, {"answered", "recording", "marking"}), ~At(m, Busy)',
         Duplicate(m) => Duplicate(m)'
  PROVE  MailInv(m)'
<1>0. MailInv(m) /\ Len(audit[m]) \in Nat /\ faults \in Nat /\ faults' \in Nat /\ lost[m] \in Nat
  BY PollerAssumption DEF PollInv, PollTypes, Counts
<1>1. ~At(m, {"answered"}) /\ ~At(m, {"recording"}) /\ ~At(m, {"marking"}) /\ ~At(m, {"answered", "recording"})
      /\ ~At(m, {"recording", "marking"})
  BY DEF At
<1>2. /\ ~At(m, {"answered", "recording", "marking"})' /\ ~At(m, {"answered", "recording"})'
      /\ ~At(m, {"recording", "marking"})' /\ ~At(m, {"marking"})'
      /\ ~At(m, {"remarking"})' /\ ~At(m, Judging)'
  BY DEF At, Busy, Judging
<1>3. UploadsOf(m)' /\ RepliesOf(m)' 
  BY <1>0, <1>1, <1>2 DEF MailInv, UploadsOf, RepliesOf
<1>4. RowsOf(m)'
  BY <1>0, <1>1, <1>2 DEF MailInv, RowsOf
<1>5. AcceptedOf(m)'
  BY <1>0, <1>1, <1>2 DEF MailInv, AcceptedOf
<1>6. SeenOf(m)'
  BY <1>0, <1>2 DEF MailInv, SeenOf
<1> QED
  BY <1>3, <1>4, <1>5, <1>6 DEF MailInv

\* Rows are only ever added.
LEMMA RowsStay ==
  ASSUME UNCHANGED audit
  PROVE  (OneRow => OneRow') /\ \A m : Duplicate(m)' <=> Duplicate(m)
BY DEF OneRow, Duplicate

\* The poller between two messages, and the world around it.
LEMMA QuietInv ==
  ASSUME PollInv, World \/ Load \/ List \/ Finish \/ UNCHANGED vars
  PROVE  PollInv'
<1>0. UNCHANGED <<audit, uploads, replies, accepted, lost, faults, seen>>
  BY DEF World, Deliver, Enlist, Expire, Load, List, Finish, vars, mailVars, pollVars, seenVars
<1>1. PollTypes'
  BY DEF PollInv, PollTypes, World, Deliver, Enlist, Expire, Load, List, Finish, vars, mailVars, pollVars,
         seenVars, Points, Busy, Judging
<1>2. OneRow'
  BY <1>0, RowsStay DEF PollInv
<1>3. ASSUME NEW m \in Mails PROVE MailInv(m)'
  <2>1. CASE UNCHANGED <<pc, todo, result>>
    <3>1. Current' = Current /\ (Duplicate(m)' <=> Duplicate(m))
      BY <1>0, <2>1, RowsStay DEF Current
    <3>2. \A ps : At(m, ps)' = At(m, ps)
      BY <2>1, <3>1 DEF At
    <3>3. QED
      BY <1>0, <2>1, <3>1, <3>2 DEF PollInv, MailInv, UploadsOf, RepliesOf, RowsOf, AcceptedOf, SeenOf
  <2>2. CASE Load \/ List \/ Finish
    <3>1. pc \notin Busy /\ pc' \notin Busy
      BY <2>2 DEF Load, List, Finish, Busy, Judging
    <3>2. QED
      BY <1>0, <3>1, ElsewhereInv, RowsStay, PollerAssumption DEF At, Busy, Judging, PollInv, PollTypes
  <2>3. QED
    BY <2>1, <2>2 DEF World, Deliver, Enlist, Expire, vars, pollVars
<1> QED
  BY <1>1, <1>2, <1>3 DEF PollInv

\* What holds of the message the poller is at.
LEMMA HereIs ==
  ASSUME PollInv, todo # {}
  PROVE  /\ Current \in Mails /\ Current \in todo /\ Current \notin seen
         /\ MailInv(Current)
         /\ uploads[Current] \in Counts /\ replies[Current] \in Counts
         /\ accepted[Current] \in Counts /\ lost[Current] \in Counts
         /\ audit[Current] \in Seq(Rows) /\ Len(audit[Current]) \in Nat
         /\ \A m, ps : At(m, ps) <=> m = Current /\ pc \in ps
<1>1. Current \in todo
  BY CurrentIsTodo DEF PollInv, PollTypes
<1> QED
  BY <1>1 DEF PollInv, PollTypes, At

\* Verdicts before the upload, or instead of it.
LEMMA JudgeInv ==
  ASSUME PollInv, todo # {}, pc \in {"next", "fetching", "uploading"},
         pc' \in {"recording", "remarking", "fetching", "uploading"},
         UNCHANGED <<todo, seen, audit, uploads, replies, accepted, lost, reply>>,
         delivered' \subseteq Mails,
         faults' \in 0 .. MaxFaults, faults <= faults',
         result' \in Results, pc' = "recording" => result' # "accepted",
         pc' = "remarking" => Duplicate(Current),
         pc' # "remarking" => ~Duplicate(Current)
  PROVE  PollInv'
<1>c. PICK c \in Mails : c = Current
  BY HereIs
<1>0. Current' = c /\ \A m : Duplicate(m)' <=> Duplicate(m)
  BY <1>c, RowsStay DEF Current
<1>1. PollTypes'
  BY DEF PollInv, PollTypes, Points, Busy, Judging
<1>2. OneRow'
  BY RowsStay DEF PollInv
<1>3. \A m, ps : At(m, ps)' <=> m = c /\ pc' \in ps
  BY <1>0, <1>c DEF At
<1>4. MailInv(c)'
  <2>0. MailInv(c) /\ c \notin seen /\ \A ps : At(c, ps) <=> pc \in ps
    BY <1>c, HereIs
  <2>1. UploadsOf(c)' /\ RepliesOf(c)'
    BY <1>3, <2>0 DEF MailInv, UploadsOf, RepliesOf
  <2>2. RowsOf(c)'
    BY <1>c, <1>3, <2>0, HereIs DEF MailInv, RowsOf, PollInv, PollTypes
  <2>3. AcceptedOf(c)'
    BY <1>3, <2>0 DEF MailInv, AcceptedOf
  <2>4. SeenOf(c)'
    BY <1>0, <1>3, <1>c, <2>0 DEF SeenOf, Judging
  <2>5. QED
    BY <2>1, <2>2, <2>3, <2>4 DEF MailInv
<1>5. ASSUME NEW m \in Mails, m # c PROVE MailInv(m)'
  BY <1>0, <1>3, <1>5, <1>c, HereIs, ElsewhereInv
<1> QED
  BY <1>1, <1>2, <1>4, <1>5 DEF PollInv

\* The poller leaves a message, of which nothing new is known.
LEMMA LeaveQuietly ==
  ASSUME PollInv, pc \notin {"answered", "recording", "marking"}, pc' \in {"next", "idle"},
         UNCHANGED <<seen, audit, uploads, replies, accepted, lost>>,
         delivered' \subseteq Mails, todo' \subseteq todo, result' = "none", reply' = "none",
         faults' \in 0 .. MaxFaults, faults <= faults'
  PROVE  PollInv'
<1>1. PollTypes'
  BY DEF PollInv, PollTypes, Points, Busy, Judging, Results
<1>2. OneRow'
  BY RowsStay DEF PollInv
<1>3. ASSUME NEW m \in Mails PROVE MailInv(m)'
  BY RowsStay, ElsewhereInv DEF At, Busy, Judging
<1> QED
  BY <1>1, <1>2, <1>3 DEF PollInv

LEMMA CountsAreNat == Counts \subseteq Nat
BY PollerAssumption DEF Counts

LEMMA FaultsAreNat == ASSUME faults \in 0 .. MaxFaults PROVE faults \in Nat
BY PollerAssumption

LEMMA UpGrows ==
  ASSUME NEW n \in Counts
  PROVE  Up(n) \in Counts /\ n <= Up(n) /\ Up(n) <= n + 1 /\ Up(n) > 0
         /\ \A k \in Counts : k <= n + 1 => k <= Up(n)
BY PollerAssumption DEF Counts, Up

\* The poller leaves a message and loses its outcome.
LEMMA LeaveLosing ==
  ASSUME PollInv, todo # {}, pc \in {"uploading", "answered", "recording", "marking"}, pc' \in {"next", "idle"},
         UNCHANGED <<seen, delivered>>, todo' \subseteq todo, result' = "none", reply' = "none",
         faults' \in 0 .. MaxFaults, faults <= faults',
         Loses(Current), OneRow',
         uploads' \in [Mails -> Counts], uploads'[Current] <= 1 + lost[Current],
         replies' \in [Mails -> Counts], replies'[Current] <= 1 + lost[Current],
         accepted' \in [Mails -> Counts],
         audit' \in [Mails -> Seq(Rows)], Len(audit'[Current]) <= 1 + lost[Current], Len(audit'[Current]) <= faults',
         \A i \in DOMAIN audit'[Current] : audit'[Current][i].status = "accepted" => accepted'[Current] > 0,
         \A m \in Mails \ {Current} : /\ uploads'[m] = uploads[m] /\ replies'[m] = replies[m]
                                      /\ accepted'[m] = accepted[m] /\ audit'[m] = audit[m],
         \A m : Duplicate(m) => Duplicate(m)'
  PROVE  PollInv'
<1>c. PICK c \in Mails : c = Current
  BY HereIs
<1>1. /\ lost' \in [Mails -> Counts] /\ lost'[c] = Up(lost[c])
      /\ \A m \in Mails : m # c => lost'[m] = lost[m]
      /\ lost[c] \in Counts
  BY <1>c, UpGrows DEF Loses, PollInv, PollTypes
<1>2. PollTypes'
  BY <1>1 DEF PollInv, PollTypes, Points, Busy, Judging, Results
<1>3. \A m, ps : ps \cap {"next", "idle"} = {} => ~At(m, ps)'
  BY DEF At
<1>4. MailInv(c)'
  <2>1. Len(audit'[c]) \in Nat /\ Len(audit'[c]) <= Cap
    <3>1. audit'[c] \in Seq(Rows) /\ Len(audit'[c]) <= faults'
      BY <1>c
    <3>2. Len(audit'[c]) \in Nat /\ MaxFaults \in Nat /\ Cap \in Nat /\ MaxFaults <= Cap
      BY <3>1, PollerAssumption
    <3>3. QED
      BY <3>1, <3>2
  <2>2. /\ uploads'[c] <= lost'[c] /\ replies'[c] <= lost'[c] /\ Len(audit'[c]) <= lost'[c] /\ lost'[c] > 0
        /\ lost'[c] \in Nat /\ uploads'[c] \in Nat /\ replies'[c] \in Nat
    <3>1. /\ uploads'[c] \in Counts /\ replies'[c] \in Counts /\ Len(audit'[c]) \in Counts
          /\ uploads'[c] <= lost[c] + 1 /\ replies'[c] <= lost[c] + 1 /\ Len(audit'[c]) <= lost[c] + 1
      BY <1>c, <1>1, <2>1, PollerAssumption DEF Counts
    <3>2. \A k \in Counts : k <= lost[c] + 1 => k <= lost'[c]
      BY <1>1, UpGrows
    <3>3. lost'[c] > 0 /\ Counts \subseteq Nat /\ lost'[c] \in Nat
      BY <1>1, UpGrows, CountsAreNat
    <3>4. QED
      BY <3>1, <3>2, <3>3
  <2>3. UploadsOf(c)' /\ RepliesOf(c)' /\ RowsOf(c)'
    BY <1>c, <2>1, <2>2 DEF UploadsOf, RepliesOf, RowsOf
  <2>4. AcceptedOf(c)'
    BY <1>c, <1>3, <2>2 DEF AcceptedOf
  <2>5. SeenOf(c)'
    BY <1>c, <1>3, HereIs DEF SeenOf, Judging
  <2>6. QED
    BY <2>3, <2>4, <2>5 DEF MailInv
<1>5. ASSUME NEW m \in Mails, m # c PROVE MailInv(m)'
  <2>1. ~At(m, {"answered", "recording", "marking"}) /\ ~At(m, Busy)'
    BY <1>3, <1>5, <1>c DEF At, Busy, Judging
  <2>2. QED
    BY <1>1, <1>5, <1>c, <2>1, ElsewhereInv
<1> QED
  BY <1>2, <1>4, <1>5 DEF PollInv

\* What the intake does is counted.
LEMMA IntakeCounts ==
  ASSUME PollInv, NEW c \in Mails, Intake(c)
  PROVE  /\ uploads' \in [Mails -> Counts] /\ uploads'[c] = Up(uploads[c])
         /\ \A m \in Mails : m # c => uploads'[m] = uploads[m] /\ accepted'[m] = accepted[m]
         /\ accepted' \in [Mails -> Counts]
         /\ Verdict(c) = "accepted" => accepted'[c] > 0
         /\ Verdict(c) # "accepted" => accepted'[c] = accepted[c]
         /\ accepted[c] > 0 => accepted'[c] > 0
         /\ Verdict(c) \in {"accepted", "rejected"}
<1>1. uploads[c] \in Counts /\ accepted[c] \in Counts
  BY DEF PollInv, PollTypes
<1>2. Up(uploads[c]) \in Counts /\ Up(accepted[c]) \in Counts /\ Up(accepted[c]) > 0
  BY <1>1, UpGrows
<1> QED
  BY <1>2 DEF Intake, PollInv, PollTypes, Verdict

LEMMA UploadInv ==
  ASSUME PollInv, Upload \/ UploadUnreadable
  PROVE  PollInv'
<1>0. todo # {} /\ pc = "uploading" /\ todo' = todo /\ UNCHANGED <<seen, delivered, audit, replies, reply>>
  BY DEF PollInv, PollTypes, Upload, UploadUnreadable, Busy, Judging, Judge, mailVars
<1>c. PICK c \in Mails : c = Current
  BY <1>0, HereIs
<1>1. /\ Intake(c) /\ pc' \in {"answered", "recording"} /\ pc' \in Points
      /\ pc' = "answered" => result' = Verdict(c) /\ lost' = lost
      /\ pc' = "recording" => result' = "failed" /\ Loses(c)
  <2>1. CASE Upload
    BY <1>c, <2>1 DEF Upload, Judge, Points
  <2>2. CASE UploadUnreadable
    BY <1>c, <2>2 DEF UploadUnreadable, Judge, Points
  <2>3. QED
    BY <2>1, <2>2
<1>2. /\ lost' \in [Mails -> Counts] /\ lost[c] <= lost'[c]
      /\ \A m \in Mails : m # c => lost'[m] = lost[m]
      /\ lost[c] \in Nat /\ lost'[c] \in Nat
      /\ pc' = "recording" => lost'[c] = Up(lost[c]) /\ lost'[c] > 0
  <2>1. lost \in [Mails -> Counts] /\ lost[c] \in Counts /\ lost[c] \in Nat
    BY CountsAreNat DEF PollInv, PollTypes
  <2>2. CASE pc' = "answered"
    <3>1. lost' = lost
      BY <1>1, <2>2
    <3>2. QED
      BY <2>1, <2>2, <3>1
  <2>3. CASE pc' = "recording"
    <3>1. lost' = [lost EXCEPT ![c] = Up(@)]
      BY <1>1, <2>3 DEF Loses
    <3>2. QED
      BY <2>1, <2>3, <3>1, UpGrows, CountsAreNat
  <2>4. QED
    BY <1>1, <2>2, <2>3
<1>3. faults' \in 0 .. MaxFaults /\ faults <= faults'
  BY PollerAssumption DEF Upload, UploadUnreadable, Fault, PollInv, PollTypes
<1>4. PollTypes'
  BY <1>0, <1>1, <1>2, <1>3, IntakeCounts DEF PollInv, PollTypes, Results, Skips, Busy
<1>5. Current' = c /\ OneRow' /\ \A m : Duplicate(m)' <=> Duplicate(m)
  BY <1>0, <1>c, RowsStay DEF Current, PollInv
<1>6. \A m, ps : At(m, ps)' <=> m = c /\ pc' \in ps
  BY <1>0, <1>5 DEF At
<1>7. MailInv(c)'
  <2>0. MailInv(c) /\ c \notin seen /\ \A ps : At(c, ps) <=> "uploading" \in ps
    BY <1>0, <1>c, HereIs
  <2>1. UploadsOf(c)'
    <3>1. uploads[c] <= lost[c] /\ uploads[c] \in Counts /\ lost[c] \in Counts
      BY <2>0 DEF MailInv, UploadsOf, PollInv, PollTypes
    <3>2. uploads'[c] <= uploads[c] + 1
      BY <1>1, <3>1, IntakeCounts, UpGrows
    <3>3. pc' = "recording" => uploads'[c] <= lost'[c]
      BY <1>1, <1>2, <3>1, IntakeCounts, PollerAssumption DEF Up, Counts
    <3>4. uploads'[c] <= 1 + lost'[c]
      BY <1>2, <3>1, <3>2, PollerAssumption, <1>4, IntakeCounts, <1>1 DEF Counts
    <3>5. QED
      BY <1>0, <1>1, <1>6, <3>3, <3>4 DEF UploadsOf
  <2>2. RepliesOf(c)'
    BY <1>0, <1>2, <2>0, PollerAssumption DEF MailInv, RepliesOf, PollInv, PollTypes, Counts
  <2>3. RowsOf(c)' /\ (audit[c] # << >> => lost[c] > 0)
    <3>1. Len(audit[c]) \in Nat /\ Len(audit[c]) <= lost[c] /\ Len(audit[c]) <= faults /\ audit[c] \in Seq(Rows)
      BY <2>0 DEF MailInv, RowsOf, PollInv, PollTypes
    <3>2. Len(audit[c]) <= lost'[c] /\ Len(audit[c]) <= faults'
      BY <1>2, <1>3, <3>1, PollerAssumption DEF PollInv, PollTypes
    <3>5. Len(audit[c]) <= 1 + lost'[c] /\ Len(audit[c]) <= 1 + faults'
      BY <1>2, <1>3, <3>1, <3>2, PollerAssumption
    <3>3. audit[c] # << >> => Len(audit[c]) > 0
      BY <3>1
    <3>4. QED
      BY <1>0, <1>2, <3>1, <3>2, <3>3, <3>5 DEF RowsOf
  <2>4. AcceptedOf(c)'
    <3>1. At(c, {"answered", "recording"})' /\ ~At(c, {"marking"})'
      BY <1>1, <1>6
    <3>2. accepted'[c] > 0 => lost'[c] > 0 \/ result' = "accepted"
      BY <1>1, <1>2, <2>0, IntakeCounts DEF MailInv, AcceptedOf
    <3>3. result' = "accepted" => accepted'[c] > 0
      BY <1>1, IntakeCounts
    <3>4. \A i \in DOMAIN audit[c] : audit[c][i].status = "accepted" => accepted'[c] > 0
      BY <1>1, <2>0, IntakeCounts DEF MailInv, AcceptedOf
    <3>5. \A i \in DOMAIN audit[c] : lost'[c] > 0
      <4>1. audit[c] = << >> => DOMAIN audit[c] = {}
        OBVIOUS
      <4>2. QED
        BY <1>2, <2>3, <4>1
    <3>6. QED
      BY <1>0, <3>1, <3>2, <3>3, <3>4, <3>5 DEF AcceptedOf
  <2>5. SeenOf(c)'
    BY <1>0, <1>1, <1>5, <1>6, <2>0 DEF MailInv, SeenOf, Judging
  <2>6. QED
    BY <2>1, <2>2, <2>3, <2>4, <2>5 DEF MailInv
<1>8. ASSUME NEW m \in Mails, m # c PROVE MailInv(m)'
  BY <1>0, <1>1, <1>2, <1>3, <1>5, <1>6, <1>8, <1>c, IntakeCounts, HereIs, ElsewhereInv
<1> QED
  BY <1>4, <1>5, <1>7, <1>8 DEF PollInv

LEMMA ReplyInv ==
  ASSUME PollInv, Reply \/ NoReply \/ ReplyFails
  PROVE  PollInv'
<1>0. /\ todo # {} /\ pc = "answered" /\ pc' = "recording" /\ todo' = todo /\ result' = result
      /\ UNCHANGED <<seen, delivered, audit, uploads, accepted, lost>>
      /\ reply' \in {"none", "sent", "failed"}
  BY DEF PollInv, PollTypes, Reply, NoReply, ReplyFails, Busy, Judging, mailVars, seenVars
<1>c. PICK c \in Mails : c = Current
  BY <1>0, HereIs
<1>1. replies' \in {replies, [replies EXCEPT ![c] = Up(@)]}
  BY <1>c DEF Reply, NoReply, ReplyFails, seenVars
<1>2. /\ replies' \in [Mails -> Counts] /\ replies'[c] <= replies[c] + 1
      /\ replies[c] \in Nat /\ replies'[c] \in Nat
      /\ \A m \in Mails : m # c => replies'[m] = replies[m]
  <2>1. replies \in [Mails -> Counts] /\ replies[c] \in Counts /\ replies[c] \in Nat
    BY CountsAreNat DEF PollInv, PollTypes
  <2>2. Up(replies[c]) \in Counts /\ Up(replies[c]) \in Nat /\ Up(replies[c]) <= replies[c] + 1
    BY <2>1, UpGrows, CountsAreNat
  <2>3. QED
    BY <1>1, <2>1, <2>2
<1>3. faults' \in 0 .. MaxFaults /\ faults <= faults'
  BY PollerAssumption DEF Reply, NoReply, ReplyFails, Fault, PollInv, PollTypes
<1>4. PollTypes'
  BY <1>0, <1>2, <1>3 DEF PollInv, PollTypes, Points
<1>5. Current' = c /\ OneRow' /\ \A m : Duplicate(m)' <=> Duplicate(m)
  BY <1>0, <1>c, RowsStay DEF Current, PollInv
<1>6. \A m, ps : At(m, ps)' <=> m = c /\ "recording" \in ps
  BY <1>0, <1>5 DEF At
<1>7. MailInv(c)'
  <2>0. MailInv(c) /\ c \notin seen /\ \A ps : At(c, ps) <=> "answered" \in ps
    BY <1>0, <1>c, HereIs
  <2>1. UploadsOf(c)'
    BY <1>0, <1>6, <2>0 DEF MailInv, UploadsOf
  <2>2. RepliesOf(c)'
    <3>1. replies[c] <= lost[c] /\ lost[c] \in Nat
      BY <2>0, CountsAreNat DEF MailInv, RepliesOf, PollInv, PollTypes
    <3>2. QED
      BY <1>0, <1>2, <1>6, <3>1 DEF RepliesOf
  <2>3. RowsOf(c)'
    <3>1. Len(audit[c]) \in Nat /\ faults \in Nat /\ faults' \in Nat
      BY <1>3, PollerAssumption DEF PollInv, PollTypes
    <3>2. QED
      BY <1>0, <1>3, <2>0, <3>1 DEF MailInv, RowsOf
  <2>4. AcceptedOf(c)'
    BY <1>0, <1>6, <2>0 DEF MailInv, AcceptedOf
  <2>5. SeenOf(c)'
    BY <1>0, <1>5, <1>6, <2>0 DEF MailInv, SeenOf, Judging
  <2>6. QED
    BY <2>1, <2>2, <2>3, <2>4, <2>5 DEF MailInv
<1>8. ASSUME NEW m \in Mails, m # c PROVE MailInv(m)'
  BY <1>0, <1>2, <1>3, <1>5, <1>6, <1>8, <1>c, HereIs, ElsewhereInv
<1> QED
  BY <1>4, <1>5, <1>7, <1>8 DEF PollInv

\* A row is added for a message that has none of its Message-ID.
LEMMA Appended ==
  ASSUME PollInv, NEW c \in Mails, c = Current, todo # {}, pc = "recording",
         audit' = [audit EXCEPT ![c] = Append(@, Row)]
  PROVE  /\ audit' \in [Mails -> Seq(Rows)] /\ OneRow'
         /\ Len(audit'[c]) = Len(audit[c]) + 1 /\ Len(audit[c]) \in Nat /\ audit'[c] # << >>
         /\ \A i \in DOMAIN audit'[c] : audit'[c][i].status = result
                                        \/ (i \in DOMAIN audit[c] /\ audit'[c][i] = audit[c][i])
         /\ \A m \in Mails : m # c => audit'[m] = audit[m]
         /\ \A m : Duplicate(m) => Duplicate(m)'
<1>1. Row \in Rows /\ Row.status = result
  BY DEF Row, Rows, PollInv, PollTypes
<1>2. audit[c] \in Seq(Rows) /\ audit \in [Mails -> Seq(Rows)]
  BY DEF PollInv, PollTypes
<1>3. /\ audit' \in [Mails -> Seq(Rows)] /\ audit'[c] = Append(audit[c], Row)
      /\ \A m \in Mails : m # c => audit'[m] = audit[m]
  BY <1>1, <1>2
<1>4. /\ Len(audit'[c]) = Len(audit[c]) + 1 /\ Len(audit[c]) \in Nat
      /\ DOMAIN audit[c] = 1 .. Len(audit[c]) /\ DOMAIN audit'[c] = 1 .. Len(audit[c]) + 1
      /\ audit'[c][Len(audit[c]) + 1] = Row
      /\ \A i \in 1 .. Len(audit[c]) : audit'[c][i] = audit[c][i]
      /\ audit'[c] # << >>
  BY <1>1, <1>2, <1>3
<1>5. \A m : Duplicate(m) => Duplicate(m)'
  BY <1>3, <1>4 DEF Duplicate, SameId
<1>6. OneRow'
  <2>1. HasId(c) => \A n \in SameId(c) : audit[n] = << >>
    BY HereIs DEF Duplicate, MailInv, SeenOf, Judging
  <2>2. SUFFICES ASSUME NEW m \in Mails, HasId(m), NEW x \in SameId(m), NEW y \in SameId(m),
                        NEW i \in DOMAIN audit'[x], NEW j \in DOMAIN audit'[y]
                 PROVE  x = y /\ i = j
    BY DEF OneRow
  <2>3. CASE c \in SameId(m)
    <3>1. HasId(c) /\ SameId(c) = SameId(m)
      BY <2>3 DEF SameId
    <3>2. \A n \in SameId(m) : audit[n] = << >> /\ DOMAIN audit[n] = {}
      BY <2>1, <3>1
    <3>3. x = c /\ y = c
      BY <1>3, <3>2 DEF SameId
    <3>4. Len(audit[c]) = 0
      BY <2>3, <3>2
    <3>5. QED
      BY <1>4, <3>3, <3>4
  <2>4. CASE c \notin SameId(m)
    <3>1. x # c /\ y # c /\ x \in Mails /\ y \in Mails
      BY <2>4 DEF SameId
    <3>2. i \in DOMAIN audit[x] /\ j \in DOMAIN audit[y]
      BY <1>3, <3>1
    <3>3. QED
      BY <2>2, <3>2 DEF PollInv, OneRow
  <2>5. QED
    BY <2>3, <2>4
<1>7. \A i \in DOMAIN audit'[c] : audit'[c][i].status = result
                                  \/ (i \in DOMAIN audit[c] /\ audit'[c][i] = audit[c][i])
  <2> SUFFICES ASSUME NEW i \in DOMAIN audit'[c]
               PROVE  audit'[c][i].status = result \/ (i \in DOMAIN audit[c] /\ audit'[c][i] = audit[c][i])
    OBVIOUS
  <2>1. i = Len(audit[c]) + 1 \/ i \in 1 .. Len(audit[c])
    BY <1>4
  <2>2. CASE i = Len(audit[c]) + 1
    <3>1. audit'[c][i] = Row
      BY <1>4, <2>2
    <3>2. QED
      BY <3>1 DEF Row
  <2>3. CASE i \in 1 .. Len(audit[c])
    BY <1>4, <2>3
  <2>4. QED
    BY <2>1, <2>2, <2>3
<1> QED
  BY <1>3, <1>4, <1>5, <1>6, <1>7

LEMMA RecordInv ==
  ASSUME PollInv, Record
  PROVE  PollInv'
<1>0. /\ todo # {} /\ pc = "recording" /\ pc' = "marking" /\ todo' = todo
      /\ UNCHANGED <<seen, delivered, uploads, replies, accepted, lost, result, reply, faults>>
  BY DEF PollInv, PollTypes, Record, Busy, Judging, mailVars, seenVars
<1>c. PICK c \in Mails : c = Current
  BY <1>0, HereIs
<1>1. audit' = [audit EXCEPT ![c] = Append(@, Row)]
  BY <1>c DEF Record
<1>2. PollTypes'
  BY <1>0, <1>1, <1>c, Appended DEF PollInv, PollTypes, Points
<1>3. Current' = c
  BY <1>0, <1>c DEF Current
<1>4. \A m, ps : At(m, ps)' <=> m = c /\ "marking" \in ps
  BY <1>0, <1>3 DEF At
<1>5. MailInv(c)'
  <2>0. MailInv(c) /\ c \notin seen /\ (\A ps : At(c, ps) <=> "recording" \in ps) /\ lost[c] \in Nat
    BY <1>0, <1>c, HereIs, CountsAreNat
  <2>1. UploadsOf(c)' /\ RepliesOf(c)'
    BY <1>0, <1>4, <2>0 DEF MailInv, UploadsOf, RepliesOf
  <2>2. RowsOf(c)'
    <3>1. Len(audit[c]) <= lost[c] /\ Len(audit[c]) <= faults /\ faults \in Nat
      BY <2>0, FaultsAreNat DEF MailInv, RowsOf, PollInv, PollTypes
    <3>2. QED
      BY <1>0, <1>1, <1>4, <1>c, <2>0, <3>1, Appended DEF RowsOf
  <2>3. AcceptedOf(c)'
    <3>1. /\ result = "accepted" => accepted[c] > 0
          /\ result # "accepted" /\ accepted[c] > 0 => lost[c] > 0
      BY <2>0 DEF MailInv, AcceptedOf
    <3>2. \A i \in DOMAIN audit'[c] : IF audit'[c][i].status = "accepted" THEN accepted[c] > 0
                                     ELSE accepted[c] > 0 => lost[c] > 0
      <4> SUFFICES ASSUME NEW i \in DOMAIN audit'[c]
                   PROVE  IF audit'[c][i].status = "accepted" THEN accepted[c] > 0
                          ELSE accepted[c] > 0 => lost[c] > 0
        OBVIOUS
      <4>1. CASE audit'[c][i].status = result
        BY <3>1, <4>1
      <4>2. CASE i \in DOMAIN audit[c] /\ audit'[c][i] = audit[c][i]
        BY <2>0, <4>2 DEF MailInv, AcceptedOf
      <4>3. QED
        BY <1>0, <1>1, <1>c, <4>1, <4>2, Appended
    <3>3. QED
      BY <1>0, <1>4, <3>2 DEF AcceptedOf
  <2>4. SeenOf(c)'
    BY <1>0, <1>1, <1>4, <1>c, <2>0, Appended DEF SeenOf, Judging
  <2>5. QED
    BY <2>1, <2>2, <2>3, <2>4 DEF MailInv
<1>6. ASSUME NEW m \in Mails, m # c PROVE MailInv(m)'
  <2>1. faults' \in 0 .. MaxFaults /\ faults <= faults'
    BY <1>0, PollerAssumption DEF PollInv, PollTypes
  <2>2. ~At(m, {"answered", "recording", "marking"}) /\ ~At(m, Busy)'
    BY <1>4, <1>6, <1>c DEF At
  <2>3. QED
    BY <1>0, <1>1, <1>6, <1>c, <2>1, <2>2, Appended, ElsewhereInv
<1> QED
  BY <1>0, <1>1, <1>2, <1>5, <1>6, <1>c, Appended DEF PollInv

LEMMA MarkInv ==
  ASSUME PollInv, Mark
  PROVE  PollInv'
<1>0. /\ todo # {} /\ pc \in {"marking", "remarking"} /\ pc' = "next" /\ todo' = todo \ {Current}
      /\ result' = "none" /\ reply' = "none" /\ seen' = seen \cup {Current}
      /\ UNCHANGED <<delivered, audit, uploads, replies, accepted, lost, faults>>
  BY DEF PollInv, PollTypes, Mark, Busy, NextMail, seenVars
<1>c. PICK c \in Mails : c = Current
  BY <1>0, HereIs
<1>1. PollTypes'
  BY <1>0, <1>c DEF PollInv, PollTypes, Points, Busy, Judging, Results
<1>2. OneRow' /\ \A m : Duplicate(m)' <=> Duplicate(m)
  BY <1>0, RowsStay DEF PollInv
<1>3. MailInv(c)'
  <2>0. MailInv(c) /\ c \in seen' /\ (\A ps : At(c, ps) <=> pc \in ps)
        /\ (\A ps : ps \cap {"next"} = {} => ~At(c, ps)')
    <3>1. \A ps : ps \cap {"next"} = {} => ~At(c, ps)'
      BY <1>0 DEF At
    <3>2. QED
      BY <1>0, <1>c, <3>1, HereIs
  <2>1. UploadsOf(c)' /\ RepliesOf(c)' /\ RowsOf(c)'
    BY <1>0, <2>0 DEF MailInv, UploadsOf, RepliesOf, RowsOf
  <2>2. AcceptedOf(c)'
    BY <1>0, <2>0 DEF MailInv, AcceptedOf
  <2>3. SeenOf(c)'
    BY <1>0, <1>2, <2>0 DEF MailInv, SeenOf, Judging
  <2>4. QED
    BY <2>1, <2>2, <2>3 DEF MailInv
<1>4. ASSUME NEW m \in Mails, m # c PROVE MailInv(m)'
  <2>1. faults' \in 0 .. MaxFaults /\ faults <= faults'
    BY <1>0, PollerAssumption DEF PollInv, PollTypes
  <2>2. ~At(m, {"answered", "recording", "marking"}) /\ ~At(m, Busy)' /\ (m \in seen' <=> m \in seen)
    BY <1>0, <1>4, <1>c DEF At, Busy, Judging
  <2>3. QED
    BY <1>0, <1>2, <2>1, <2>2, ElsewhereInv
<1> QED
  BY <1>1, <1>2, <1>3, <1>4 DEF PollInv

LEMMA JudgeSteps ==
  ASSUME PollInv, Headers \/ Fetch \/ UploadRefused
  PROVE  PollInv'
<1>0. /\ todo # {} /\ UNCHANGED <<todo, seen, delivered, audit, uploads, replies, accepted, lost, reply>>
      /\ pc \in {"next", "fetching", "uploading"}
      /\ faults' \in 0 .. MaxFaults /\ faults <= faults'
  BY PollerAssumption
  DEF PollInv, PollTypes, Headers, Fetch, UploadRefused, Fault, Judge, Busy, Judging, mailVars, seenVars
<1>1. CASE Headers
  <2>1. Kind[Current] = "unparsable" => ~Duplicate(Current)
    BY DEF Duplicate, HasId
  <2>2. QED
    BY <1>0, <1>1, <2>1, JudgeInv DEF Headers, Judge, Results, Skips, PollInv, PollTypes
<1>2. CASE Fetch \/ UploadRefused
  <2>1. pc \in Judging
    BY <1>2 DEF Fetch, UploadRefused, Judging
  <2>2. ~Duplicate(Current)
    BY <1>0, <2>1, HereIs DEF MailInv, SeenOf
  <2>3. QED
    BY <1>0, <1>2, <2>2, JudgeInv DEF Fetch, UploadRefused, Judge, Results, Skips, PollInv, PollTypes
<1> QED
  BY <1>1, <1>2

\* What was accepted, answered and recorded before the outcome is lost.
LEMMA LostBefore ==
  ASSUME PollInv, todo # {}
  PROVE  /\ uploads[Current] <= 1 + lost[Current] /\ replies[Current] <= 1 + lost[Current]
         /\ Len(audit[Current]) <= 1 + lost[Current]
         /\ pc # "marking" => Len(audit[Current]) <= lost[Current] /\ Len(audit[Current]) <= faults
         /\ Len(audit[Current]) <= faults + 1
         /\ \A i \in DOMAIN audit[Current] : audit[Current][i].status = "accepted" => accepted[Current] > 0
<1>1. faults \in Nat /\ Len(audit[Current]) \in Nat
  BY HereIs, FaultsAreNat DEF PollInv, PollTypes
<1> QED
  BY <1>1, HereIs DEF MailInv, UploadsOf, RepliesOf, RowsOf, AcceptedOf

LEMMA LosingSteps ==
  ASSUME PollInv, \/ ReplyRaises \/ RecordRaises \/ UploadLost \/ RecordLost \/ MarkFails
                  \/ Abort /\ pc \in {"answered", "recording", "marking"}
  PROVE  PollInv'
<1>0. /\ todo # {} /\ pc \in {"uploading", "answered", "recording", "marking"} /\ pc' \in {"next", "idle"}
      /\ UNCHANGED <<seen, delivered, replies>> /\ todo' \subseteq todo /\ result' = "none" /\ reply' = "none"
      /\ Loses(Current)
  BY DEF PollInv, PollTypes, ReplyRaises, RecordRaises, UploadLost, RecordLost, MarkFails, Abort, Busy, Judging,
         EndCycle, NextMail, mailVars
<1>c. PICK c \in Mails : c = Current
  BY <1>0, HereIs
<1>1. faults' \in 0 .. MaxFaults /\ faults <= faults' /\ faults \in Nat /\ faults' \in Nat
  BY PollerAssumption
  DEF ReplyRaises, RecordRaises, UploadLost, RecordLost, MarkFails, Abort, Fault, PollInv, PollTypes
<1>2. /\ uploads[c] <= 1 + lost[c] /\ replies[c] <= 1 + lost[c]
      /\ Len(audit[c]) <= 1 + lost[c] /\ Len(audit[c]) <= 1 + faults /\ Len(audit[c]) \in Nat
      /\ pc # "marking" => Len(audit[c]) <= lost[c] /\ Len(audit[c]) <= faults
      /\ \A i \in DOMAIN audit[c] : audit[c][i].status = "accepted" => accepted[c] > 0
      /\ lost[c] \in Nat
  <2>1. Len(audit[c]) \in Nat /\ lost[c] \in Nat
    BY <1>0, <1>c, HereIs, CountsAreNat
  <2>2. Len(audit[c]) <= faults + 1 => Len(audit[c]) <= 1 + faults
    BY <1>1, <2>1
  <2>3. QED
    BY <1>0, <1>c, <2>1, <2>2, LostBefore
<1>3. CASE UNCHANGED <<uploads, accepted, audit>>
  <2>1. Len(audit[c]) <= faults'
    <3>1. CASE ReplyRaises \/ RecordRaises
      BY <1>1, <1>2, <3>1 DEF ReplyRaises, RecordRaises
    <3>2. CASE faults' = faults + 1
      BY <1>1, <1>2, <3>2
    <3>3. QED
      BY <3>1, <3>2 DEF UploadLost, RecordLost, MarkFails, Abort, Fault
  <2>2. OneRow' /\ \A m : Duplicate(m)' <=> Duplicate(m)
    BY <1>3, RowsStay DEF PollInv
  <2>3. /\ uploads' \in [Mails -> Counts] /\ replies' \in [Mails -> Counts] /\ accepted' \in [Mails -> Counts]
        /\ audit' \in [Mails -> Seq(Rows)]
    BY <1>0, <1>3 DEF PollInv, PollTypes
  <2>4. QED
    BY <1>0, <1>1, <1>2, <1>3, <1>c, <2>1, <2>2, <2>3, LeaveLosing
<1>4. CASE UploadLost
  <2>1. Intake(c) /\ UNCHANGED audit /\ pc = "uploading" /\ faults' = faults + 1
    BY <1>4, <1>c DEF UploadLost, Fault
  <2>2. OneRow' /\ \A m : Duplicate(m)' <=> Duplicate(m)
    BY <2>1, RowsStay DEF PollInv
  <2>3. uploads[c] <= lost[c] /\ uploads[c] \in Counts /\ uploads[c] \in Nat
    BY <1>0, <1>c, <2>1, HereIs, CountsAreNat DEF MailInv, UploadsOf
  <2>4. uploads'[c] <= 1 + lost[c]
    <3>1. uploads'[c] <= uploads[c] + 1 /\ uploads'[c] \in Nat
      BY <2>1, <2>3, IntakeCounts, UpGrows, CountsAreNat
    <3>2. QED
      BY <1>2, <2>3, <3>1
  <2>5. \A i \in DOMAIN audit[c] : audit[c][i].status = "accepted" => accepted'[c] > 0
    BY <1>2, <2>1, IntakeCounts
  <2>6. /\ replies' \in [Mails -> Counts] /\ audit' \in [Mails -> Seq(Rows)] /\ Len(audit[c]) <= faults'
    BY <1>0, <1>1, <1>2, <2>1 DEF PollInv, PollTypes
  <2>7. QED
    BY <1>0, <1>1, <1>2, <1>c, <2>1, <2>2, <2>4, <2>5, <2>6, IntakeCounts, LeaveLosing
<1>5. CASE RecordLost
  <2>1. /\ audit' = [audit EXCEPT ![c] = Append(@, Row)] /\ pc = "recording" /\ faults' = faults + 1
        /\ UNCHANGED <<uploads, accepted>>
    BY <1>5, <1>c DEF RecordLost, Fault
  <2>2. Len(audit'[c]) <= 1 + lost[c] /\ Len(audit'[c]) <= faults'
    BY <1>0, <1>1, <1>2, <1>c, <2>1, Appended
  <2>3. result = "accepted" => accepted[c] > 0
    BY <1>0, <1>c, <2>1, HereIs DEF MailInv, AcceptedOf
  <2>4. \A i \in DOMAIN audit'[c] : audit'[c][i].status = "accepted" => accepted'[c] > 0
    <3> SUFFICES ASSUME NEW i \in DOMAIN audit'[c], audit'[c][i].status = "accepted"
                 PROVE  accepted'[c] > 0
      OBVIOUS
    <3>1. CASE audit'[c][i].status = result
      BY <2>1, <2>3, <3>1
    <3>2. CASE i \in DOMAIN audit[c] /\ audit'[c][i] = audit[c][i]
      BY <1>2, <2>1, <3>2
    <3>3. QED
      BY <1>0, <1>c, <2>1, <3>1, <3>2, Appended
  <2>5. /\ uploads' \in [Mails -> Counts] /\ replies' \in [Mails -> Counts] /\ accepted' \in [Mails -> Counts]
    BY <1>0, <2>1 DEF PollInv, PollTypes
  <2>6. QED
    BY <1>0, <1>1, <1>2, <1>c, <2>1, <2>2, <2>4, <2>5, Appended, LeaveLosing
<1> QED
  BY <1>3, <1>4, <1>5 DEF ReplyRaises, RecordRaises, MarkFails, Abort

LEMMA QuietSteps ==
  ASSUME PollInv, LeftUnseen \/ (Abort /\ pc \notin {"answered", "recording", "marking"})
  PROVE  PollInv'
<1>1. /\ pc \notin {"answered", "recording", "marking"} /\ pc' \in {"next", "idle"}
      /\ UNCHANGED <<seen, delivered, audit, uploads, replies, accepted, lost>>
      /\ todo' \subseteq todo /\ result' = "none" /\ reply' = "none"
  BY DEF LeftUnseen, Abort, EndCycle, NextMail, mailVars, seenVars
<1>2. faults' \in 0 .. MaxFaults /\ faults <= faults'
  BY PollerAssumption DEF LeftUnseen, Abort, Fault, PollInv, PollTypes
<1> QED
  BY <1>1, <1>2, LeaveQuietly DEF PollInv, PollTypes

(* The inductive invariant: a message uploaded, answered or recorded once more
   than its outcome was lost is seen, or the poller is still at it. *)
THEOREM PollInvariance == Spec => []PollInv
<1>1. PollInv /\ [Next]_vars => PollInv'
  <2> SUFFICES ASSUME PollInv, [Next]_vars PROVE PollInv'
    OBVIOUS
  <2>1. CASE Step
    BY <2>1, QuietInv, JudgeSteps, UploadInv, ReplyInv, LosingSteps, RecordInv, MarkInv DEF Step
  <2>2. CASE Fails
    BY <2>2, QuietSteps, JudgeSteps, UploadInv, ReplyInv, LosingSteps DEF Fails
  <2>3. CASE World \/ UNCHANGED vars
    BY <2>3, QuietInv
  <2>4. QED
    BY <2>1, <2>2, <2>3 DEF Next
<1> QED
  BY InitInv, <1>1, PTL DEF Spec

(* A message is hidden from later cycles only when an audit row accounts for
   it, its own or one of the same Message-ID. *)
THEOREM SeenRecorded == Spec => []SeenIsRecorded
<1>1. PollInv => SeenIsRecorded
  BY DEF PollInv, PollTypes, MailInv, SeenOf, SeenIsRecorded, Duplicate
<1> QED
  BY <1>1, PollInvariance, PTL

(* The audit tells what the intake did, unless an answer was lost. *)
THEOREM OutcomeTrue == Spec => []OutcomeIsTrue
<1>1. PollInv => OutcomeIsTrue
  BY DEF PollInv, MailInv, AcceptedOf, OutcomeIsTrue
<1> QED
  BY <1>1, PollInvariance, PTL

(* A message is uploaded, answered and recorded again only after its outcome
   was lost, and a Message-ID is never recorded twice. *)
THEOREM LostRepeated == Spec => []OnlyLostRepeated
<1>1. ASSUME PollInv, NEW m \in Mails, HasId(m)
      PROVE  Cardinality({x \in SameId(m) \X (1 .. Cap) : x[2] \in DOMAIN audit[x[1]]}) <= 1
  <2> DEFINE S == {x \in SameId(m) \X (1 .. Cap) : x[2] \in DOMAIN audit[x[1]]}
  <2>1. ASSUME NEW x \in S, NEW y \in S PROVE x = y
    <3>1. PICK a \in SameId(m), i \in 1 .. Cap : x = <<a, i>>
      OBVIOUS
    <3>2. PICK b \in SameId(m), j \in 1 .. Cap : y = <<b, j>>
      OBVIOUS
    <3>3. i \in DOMAIN audit[a] /\ j \in DOMAIN audit[b]
      BY <3>1, <3>2
    <3>4. QED
      BY <1>1, <3>1, <3>2, <3>3 DEF PollInv, OneRow
  <2> HIDE DEF S
  <2>2. Cardinality(S) <= 1
    <3>1. CASE S = {}
      <4>1. Cardinality(S) = 0
        BY <3>1, FS_EmptySet, Zenon
      <4>2. QED
        BY <4>1
    <3>2. CASE S # {}
      <4>1. PICK x \in S : S = {x}
        BY <2>1, <3>2
      <4>2. Cardinality({x}) = 1
        BY FS_Singleton
      <4>3. Cardinality(S) = 1
        BY <4>1, <4>2, Zenon
      <4>4. QED
        BY <4>3
    <3>3. QED
      BY <3>1, <3>2
  <2>3. QED
    BY <2>2 DEF S
<1>2. PollInv => OnlyLostRepeated
  BY <1>1 DEF PollInv, MailInv, UploadsOf, RepliesOf, RowsOf, OnlyLostRepeated
<1> QED
  BY <1>2, PollInvariance, PTL
=============================================================================
