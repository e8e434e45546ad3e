--------------------------- MODULE IntakeContract ---------------------------
(***************************************************************************)
(* What the upload of a NAT request file promises its sender, without the  *)
(* database: an upload is open until it is answered in one step, which     *)
(* accepts all the rows it registers or none, and no row is accepted while *)
(* an equal accepted row is at most Window minutes old.                    *)
(***************************************************************************)
EXTENDS Naturals, Sequences

CONSTANTS
  Uploads,          \* POST /intake and /intake/internal calls
  Keys,             \* deduplication keys: the fields of a valid row
  Invalid,          \* a row validate_row refuses
  Files,            \* the files uploaded: sequences of rows, << >> is a refused file
  Untransformable,  \* keys whose address expansion exceeds a limit
  Window,           \* NAT_IDEMPOTENCY_WINDOW_MINUTES
  MaxTime           \* bound of the clock

VARIABLES
  clock,     \* minutes
  rows,      \* [Uploads -> file content]
  arrived,   \* [Uploads -> when the upload began]
  closed,    \* [Uploads -> when the upload ended]
  accepted,  \* every registration ever accepted
  outcome,   \* [Uploads -> how far the upload is]
  told       \* [Uploads -> verdicts of the answer, one per row]

contractVars == <<clock, rows, arrived, closed, accepted, outcome, told>>

\* A registration: created_at is at, put is when the row was written.
Registrations == [key : Keys, upload : Uploads, at : Nat, put : Nat]
Verdicts      == {"open", "invalid", "repeated", "expansion", "registered"}

Blank(f) == [i \in DOMAIN f |-> "open"]

\* The registration still counts for an upload that arrived when it did.
Fresh(r, u) == r.at + Window >= arrived[u] \/ closed[r.upload] >= arrived[u]

\* Verdicts an answer may give: a row is refused as repeated only for an
\* earlier row of the file or an accepted registration that still counts.
Justified(u, v) ==
  \A i \in DOMAIN rows[u] : LET k == rows[u][i] IN
    /\ v[i] # "open"
    /\ v[i] = "invalid" <=> k = Invalid
    /\ v[i] = "expansion" => k \in Untransformable
    /\ v[i] = "repeated" => \/ \E j \in DOMAIN rows[u] : j < i /\ rows[u][j] = k
                            \/ \E r \in accepted : r.key = k /\ Fresh(r, u)
    /\ v[i] = "registered" => k \notin Untransformable

Chosen(u, v) == {rows[u][i] : i \in {j \in DOMAIN rows[u] : v[j] = "registered"}}

\* Exactly the registered rows become accepted, each of them once, and none
\* while an equal accepted one is at most Window old.
Takes(u, v) ==
  /\ accepted \subseteq accepted'
  /\ LET new == accepted' \ accepted IN
       /\ new \subseteq Registrations
       /\ {s.key : s \in new} = Chosen(u, v)
       /\ \A s, t \in new : s.key = t.key => s = t
       /\ \A s \in new : /\ s.upload = u
                         /\ arrived[u] <= s.at /\ s.at <= s.put /\ s.put <= clock
                         /\ \A r \in accepted : r.key = s.key => r.at + Window < s.put

Init ==
  /\ clock = 0
  /\ rows = [u \in Uploads |-> << >>]
  /\ arrived = [u \in Uploads |-> 0]
  /\ closed = [u \in Uploads |-> 0]
  /\ accepted = {}
  /\ outcome = [u \in Uploads |-> "none"]
  /\ told = [u \in Uploads |-> << >>]

Tick ==
  /\ clock < MaxTime
  /\ clock' = clock + 1
  /\ UNCHANGED <<rows, arrived, closed, accepted, outcome, told>>

Arrive(u) ==
  /\ outcome[u] = "none"
  /\ \E f \in Files : /\ rows' = [rows EXCEPT ![u] = f]
                      /\ told' = [told EXCEPT ![u] = Blank(f)]
  /\ arrived' = [arrived EXCEPT ![u] = clock]
  /\ outcome' = [outcome EXCEPT ![u] = "open"]
  /\ UNCHANGED <<clock, closed, accepted>>

Closes(u, how) ==
  /\ outcome[u] = "open"
  /\ outcome' = [outcome EXCEPT ![u] = how]
  /\ closed' = [closed EXCEPT ![u] = clock]
  /\ UNCHANGED <<clock, rows, arrived>>

Accept(u) ==
  /\ Closes(u, "accepted")
  /\ \E v \in [DOMAIN rows[u] -> Verdicts] :
       /\ Justified(u, v) /\ Chosen(u, v) # {} /\ Takes(u, v)
       /\ told' = [told EXCEPT ![u] = v]

Refuse(u) ==
  /\ Closes(u, "rejected")
  /\ \E v \in [DOMAIN rows[u] -> Verdicts] :
       /\ Justified(u, v) /\ Chosen(u, v) = {}
       /\ told' = [told EXCEPT ![u] = v]
  /\ UNCHANGED accepted

\* The sender gets no verdict: nothing was accepted, or the answer of a
\* commit that took place was lost.
Fail(u) ==
  /\ Closes(u, "failed")
  /\ \/ UNCHANGED accepted
     \/ \E v \in [DOMAIN rows[u] -> Verdicts] : Justified(u, v) /\ Takes(u, v)
  /\ UNCHANGED told

Next == Tick \/ \E u \in Uploads : Arrive(u) \/ Accept(u) \/ Refuse(u) \/ Fail(u)

Spec == Init /\ [][Next]_contractVars

\* Of two accepted registrations of one request, one was written more than
\* Window minutes after the other's created_at.
NoEarlyRepeat ==
  \A r, s \in accepted :
    r.key = s.key /\ r # s => r.at + Window < s.put \/ s.at + Window < r.put
=============================================================================
