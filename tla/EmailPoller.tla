---------------------------- MODULE EmailPoller ----------------------------
(***************************************************************************)
(* The e-mail intake: one poller process that reads the unseen messages of *)
(* an IMAP mailbox, uploads the attachment of each to the NAT intake,      *)
(* replies to the sender, records the message in email_messages and marks  *)
(* it seen.  Mailbox, intake, SMTP server and database are four systems    *)
(* without a common transaction: any of them may fail between two steps,   *)
(* and the next cycle starts from what was recorded.                       *)
(*                                                                         *)
(* The intake is the one of IntakeContract, reduced to whole files: a file *)
(* is refused while an accepted upload of it is within the window.         *)
(***************************************************************************)
EXTENDS Naturals, Sequences, FiniteSets

CONSTANTS
  Mails,        \* UIDs of the mailbox, in order
  Kind,         \* [Mails -> what the message is], see Kinds
  IdOf,         \* [Mails -> Message-ID], NoId without one
  SenderOf,     \* [Mails -> address]
  FileOf,       \* [Mails -> attached file]
  BadFiles,     \* files the intake refuses whatever it knows
  ReplyEnabled, \* EMAIL_REPLY_ENABLED
  NoId,
  MaxFaults,    \* bound: failures of the systems around the poller
  Cap           \* bound: counts stop here, beyond any count the failures explain

\* "file" is a message with a usable attachment; "nofile" has none;
\* "unparsable" has no From address; "unreplyable" is one whose reply cannot
\* be composed (a folded Subject keeps its line break, which a header of the
\* reply may not contain); "unstorable" one whose row violates a column of
\* email_messages (a Subject longer than 1000, a NUL in the body).
Kinds == {"file", "nofile", "unparsable", "unreplyable", "unstorable"}

ASSUME PollerAssumption ==
  /\ Mails \subseteq Nat /\ IsFiniteSet(Mails)
  /\ Kind \in [Mails -> Kinds]
  /\ DOMAIN IdOf = Mails /\ DOMAIN SenderOf = Mails /\ DOMAIN FileOf = Mails
  /\ ReplyEnabled \in BOOLEAN
  /\ MaxFaults \in Nat /\ Cap \in Nat \ {0} /\ MaxFaults <= Cap

VARIABLES
  delivered, \* messages that have arrived
  seen,      \* messages with the \Seen flag
  audit,     \* [Mails -> Seq of its email_messages rows]
  active,    \* email_senders with is_active
  taken,     \* files whose rows are within the deduplication window
  pc,        \* what the poller does next
  todo,      \* the unseen UIDs of this cycle, the first one is the current one
  allowed,   \* the whitelist as loaded at the start of the cycle
  result,    \* what has become of the current message
  reply,     \* reply_status of the current message
  uploads, replies, accepted, \* [Mails -> number of intakes, replies, accepted intakes]
  lost,      \* [Mails -> number of outcomes the poller failed to record]
  faults

mailVars == <<delivered, seen>>
pollVars == <<pc, todo, allowed, result, reply>>
seenVars == <<uploads, replies, accepted, lost>>
vars == <<mailVars, audit, active, taken, pollVars, seenVars, faults>>

Senders == {SenderOf[m] : m \in Mails}
Skips   == {"unparsable", "unlisted", "nofile", "failed"}
Results == Skips \cup {"none", "accepted", "rejected"}
Points  == {"idle", "listing", "next", "fetching", "uploading", "answered",
            "recording", "marking", "remarking"}

\* UID SEARCH answers in ascending order.
Current == CHOOSE m \in todo : \A n \in todo : m <= n
Up(n)   == IF n < Cap THEN n + 1 ELSE n

\* A message without a Message-ID gets a new surrogate id in every cycle.
HasId(m)  == IdOf[m] # NoId /\ Kind[m] # "unparsable"
SameId(m) == {n \in Mails : HasId(n) /\ IdOf[n] = IdOf[m]}
\* Mutant: the audit is not consulted.
Duplicate_Never(m) == FALSE
Duplicate(m) == HasId(m) /\ \E n \in SameId(m) : audit[n] # << >>

-----------------------------------------------------------------------------
Init ==
  /\ delivered = {} /\ seen = {}
  /\ audit = [m \in Mails |-> << >>]
  /\ active \in SUBSET Senders
  /\ taken = {}
  /\ pc = "idle" /\ todo = {} /\ allowed = {}
  /\ result = "none" /\ reply = "none"
  /\ uploads = [m \in Mails |-> 0] /\ replies = [m \in Mails |-> 0]
  /\ accepted = [m \in Mails |-> 0] /\ lost = [m \in Mails |-> 0]
  /\ faults = 0

(* The world around the poller.                                            *)

Deliver(m) ==
  /\ m \notin delivered
  /\ \A n \in Mails : n < m => n \in delivered
  /\ delivered' = delivered \cup {m}
  /\ UNCHANGED <<seen, audit, active, taken, pollVars, seenVars, faults>>

\* EmailSenderService: create or reactivate, deactivate or delete.
Enlist(s) ==
  /\ active' = IF s \in active THEN active \ {s} ELSE active \cup {s}
  /\ UNCHANGED <<mailVars, audit, taken, pollVars, seenVars, faults>>

\* The window of an accepted file ends.
Expire(f) ==
  /\ f \in taken
  /\ taken' = taken \ {f}
  /\ UNCHANGED <<mailVars, audit, active, pollVars, seenVars, faults>>

(* One cycle of poll_once.                                                 *)

Load ==
  /\ pc = "idle"
  /\ pc' = "listing" /\ allowed' = active
  /\ UNCHANGED <<mailVars, audit, active, taken, todo, result, reply, seenVars, faults>>

List ==
  /\ pc = "listing"
  /\ pc' = "next" /\ todo' = delivered \ seen
  /\ UNCHANGED <<mailVars, audit, active, taken, allowed, result, reply, seenVars, faults>>

Finish ==
  /\ pc = "next" /\ todo = {}
  /\ pc' = "idle" /\ allowed' = {}
  /\ UNCHANGED <<mailVars, audit, active, taken, todo, result, reply, seenVars, faults>>

\* On to the next message, or to the given step of this one.
NextMail == /\ pc' = "next" /\ todo' = todo \ {Current}
            /\ result' = "none" /\ reply' = "none"
            /\ UNCHANGED allowed
\* What has become of the message is not recorded.
Loses(m) == lost' = [lost EXCEPT ![m] = Up(@)]
Judge(p, r) == pc' = p /\ result' = r /\ UNCHANGED <<todo, allowed, reply>>
\* An exception leaves poll_once; _poll_loop logs it and sleeps.
EndCycle == pc' = "idle" /\ todo' = {} /\ allowed' = {} /\ result' = "none" /\ reply' = "none"

\* Mutant: a duplicate is passed over and stays unseen.
Headers_DuplicateUnseen ==
  /\ pc = "next" /\ todo # {}
  /\ IF Kind[Current] = "unparsable" THEN Judge("recording", "unparsable")
     ELSE IF Duplicate(Current) THEN NextMail
     ELSE IF SenderOf[Current] \notin allowed THEN Judge("recording", "unlisted")
     ELSE Judge("fetching", "none")
  /\ UNCHANGED <<mailVars, audit, active, taken, seenVars, faults>>
\* Fetch and parse the headers, look for the Message-ID, check the whitelist.
Headers ==
  /\ pc = "next" /\ todo # {}
  /\ IF Kind[Current] = "unparsable" THEN Judge("recording", "unparsable")
     ELSE IF Duplicate(Current) THEN Judge("remarking", "none")
     ELSE IF SenderOf[Current] \notin allowed THEN Judge("recording", "unlisted")
     ELSE Judge("fetching", "none")
  /\ UNCHANGED <<mailVars, audit, active, taken, seenVars, faults>>

Fetch ==
  /\ pc = "fetching"
  /\ IF Kind[Current] = "nofile" THEN Judge("recording", "nofile")
     ELSE Judge("uploading", "none")
  /\ UNCHANGED <<mailVars, audit, active, taken, seenVars, faults>>

\* What the intake answers, and does.
Verdict(m) == IF FileOf[m] \in BadFiles \cup taken THEN "rejected" ELSE "accepted"
Intake(m) ==
  /\ uploads' = [uploads EXCEPT ![m] = Up(@)]
  /\ IF Verdict(m) = "accepted"
     THEN taken' = taken \cup {FileOf[m]} /\ accepted' = [accepted EXCEPT ![m] = Up(@)]
     ELSE UNCHANGED <<taken, accepted>>

Upload ==
  /\ pc = "uploading"
  /\ Intake(Current)
  /\ Judge("answered", Verdict(Current))
  /\ UNCHANGED <<mailVars, audit, active, replies, lost, faults>>

Reply ==
  /\ pc = "answered" /\ ReplyEnabled /\ Kind[Current] # "unreplyable"
  /\ replies' = [replies EXCEPT ![Current] = Up(@)]
  /\ pc' = "recording" /\ reply' = "sent"
  /\ UNCHANGED <<mailVars, audit, active, taken, todo, allowed, result, uploads, accepted,
                 lost, faults>>

NoReply ==
  /\ pc = "answered" /\ ~ReplyEnabled
  /\ pc' = "recording"
  /\ UNCHANGED <<mailVars, audit, active, taken, todo, allowed, result, reply, seenVars, faults>>

\* build_intake_reply_message raises: no clause of the poller expects that.
ReplyRaises ==
  /\ pc = "answered" /\ ReplyEnabled /\ Kind[Current] = "unreplyable"
  /\ Loses(Current)
  /\ EndCycle
  /\ UNCHANGED <<mailVars, audit, active, taken, uploads, replies, accepted, faults>>

Row == [status |-> result, reply |-> reply]
\* Subject and body are stored for messages that were fetched only.
Storable(m) == Kind[m] = "unstorable" => result = "unlisted"

Record ==
  /\ pc = "recording" /\ Storable(Current)
  /\ audit' = [audit EXCEPT ![Current] = Append(@, Row)]
  /\ pc' = "marking"
  /\ UNCHANGED <<mailVars, active, taken, todo, allowed, result, reply, seenVars, faults>>

\* Mutant: the message is given up and marked seen.
RecordRaises_GivenUp ==
  /\ pc = "recording" /\ ~Storable(Current)
  /\ pc' = "remarking" /\ UNCHANGED <<todo, allowed, result, reply>>
  /\ Loses(Current)
  /\ UNCHANGED <<mailVars, audit, active, taken, uploads, replies, accepted, faults>>
RecordRaises ==
  /\ pc = "recording" /\ ~Storable(Current)
  /\ Loses(Current)
  /\ EndCycle
  /\ UNCHANGED <<mailVars, audit, active, taken, uploads, replies, accepted, faults>>

\* Mutant: the flag is not set.
Mark_NotSeen ==
  /\ pc \in {"marking", "remarking"}
  /\ NextMail
  /\ UNCHANGED <<mailVars, audit, active, taken, seenVars, faults>>
\* mark_seen, of a message just recorded or of a duplicate.
Mark ==
  /\ pc \in {"marking", "remarking"}
  /\ seen' = seen \cup {Current}
  /\ NextMail
  /\ UNCHANGED <<delivered, audit, active, taken, seenVars, faults>>

(* What may fail.                                                          *)

Fault == faults < MaxFaults /\ faults' = faults + 1

\* An IMAP error answer to a FETCH, or an upload that did not take place
\* (status 5xx, no connection): the message is left unseen.
LeftUnseen ==
  /\ Fault /\ todo # {} /\ pc \in {"next", "fetching", "uploading"}
  /\ NextMail
  /\ UNCHANGED <<mailVars, audit, active, taken, seenVars>>

\* The upload takes place and its answer does not arrive.
UploadLost ==
  /\ Fault /\ pc = "uploading"
  /\ Intake(Current) /\ Loses(Current)
  /\ NextMail
  /\ UNCHANGED <<mailVars, audit, active, replies>>

\* Its answer is no IntakeResponse: a failure that is not retried.
UploadUnreadable ==
  /\ Fault /\ pc = "uploading"
  /\ Intake(Current) /\ Loses(Current)
  /\ Judge("recording", "failed")
  /\ UNCHANGED <<mailVars, audit, active, replies>>

\* Any other status below 500: nothing is uploaded, and never will be.
UploadRefused ==
  /\ Fault /\ pc = "uploading"
  /\ Judge("recording", "failed")
  /\ UNCHANGED <<mailVars, audit, active, taken, seenVars>>

\* An SMTP error, before or after the server has taken the message.
ReplyFails ==
  /\ Fault /\ pc = "answered" /\ ReplyEnabled /\ Kind[Current] # "unreplyable"
  /\ replies' \in {replies, [replies EXCEPT ![Current] = Up(@)]}
  /\ pc' = "recording" /\ reply' = "failed"
  /\ UNCHANGED <<mailVars, audit, active, taken, todo, allowed, result, uploads, accepted, lost>>

\* The row is committed but the answer is lost: the cycle ends.
RecordLost ==
  /\ Fault /\ pc = "recording" /\ Storable(Current)
  /\ audit' = [audit EXCEPT ![Current] = Append(@, Row)]
  /\ Loses(Current)
  /\ EndCycle
  /\ UNCHANGED <<mailVars, active, taken, uploads, replies, accepted>>

\* An IMAP error answer to the STORE of a recorded message is only logged.
MarkFails ==
  /\ Fault /\ pc = "marking"
  /\ Loses(Current)
  /\ NextMail
  /\ UNCHANGED <<mailVars, audit, active, taken, uploads, replies, accepted>>

\* A crash, or an exception: IMAP connection, database, access token.
Abort ==
  /\ Fault /\ pc # "idle"
  /\ IF pc \in {"answered", "recording", "marking"} THEN Loses(Current) ELSE UNCHANGED lost
  /\ EndCycle
  /\ UNCHANGED <<mailVars, audit, active, taken, uploads, replies, accepted>>

-----------------------------------------------------------------------------
Step == \/ Load \/ List \/ Finish \/ Headers \/ Fetch \/ Upload
        \/ Reply \/ NoReply \/ ReplyRaises \/ Record \/ RecordRaises \/ Mark

Fails == \/ LeftUnseen \/ UploadLost \/ UploadUnreadable \/ UploadRefused
         \/ ReplyFails \/ RecordLost \/ MarkFails \/ Abort

World == \/ \E m \in Mails : Deliver(m)
         \/ \E s \in Senders : Enlist(s)
         \/ \E f \in taken : Expire(f)

Next == Step \/ Fails \/ World

Spec == Init /\ [][Next]_vars

\* _poll_loop polls for ever and survives every exception; a crashed poller
\* is restarted.
FairSpec == Spec /\ WF_vars(Step)

-----------------------------------------------------------------------------
(* Properties.                                                             *)

\* A message is hidden from later cycles only when an audit row accounts
\* for it, its own or one of the same Message-ID.
SeenIsRecorded ==
  \A m \in seen : audit[m] # << >> \/ (HasId(m) /\ \E n \in SameId(m) : audit[n] # << >>)

\* A message is uploaded, answered and recorded again only after its outcome
\* was lost, and a Message-ID is never recorded twice.
OnlyLostRepeated ==
  \A m \in Mails :
    /\ uploads[m] <= 1 + lost[m] /\ replies[m] <= 1 + lost[m]
    /\ IF HasId(m) THEN Cardinality({x \in SameId(m) \X (1 .. Cap) : x[2] \in DOMAIN audit[x[1]]}) <= 1
       ELSE Len(audit[m]) <= 1 + lost[m]

\* The audit tells what the intake did, unless an answer was lost: a message
\* recorded as accepted was accepted, and any other was not.
OutcomeIsTrue ==
  \A m \in Mails : \A i \in DOMAIN audit[m] :
    IF audit[m][i].status = "accepted" THEN accepted[m] > 0
    ELSE accepted[m] > 0 => lost[m] > 0

\* Every message that arrives is handled for good, however many failures
\* there were before, and whatever became of the messages before it.
EveryMailHandled == \A m \in Mails : m \in delivered ~> m \in seen

\* models.py:139 calls email_messages the "Audit log of emails processed by
\* the IMAP poller": an e-mail whose file was accepted gets its row.
ProcessedIsAudited == \A m \in Mails : accepted[m] > 0 ~> audit[m] # << >>
=============================================================================
