--------------------------- MODULE TimelineController ---------------------------
(***************************************************************************)
(* The web page in live mode (apps/web/controller/timeline_controller.js   *)
(* and view/app.js): it asks for the pending approvals every three         *)
(* seconds, shows whatever answer comes last, and submits a person's       *)
(* verdict.  Requests are in flight independently of one another, so their *)
(* answers come in any order, and the connection of a submission may break *)
(* before or after the server has received it.                             *)
(* The journal is reloaded next to the approvals; nothing depends on it.   *)
(* The page of the run "demo", which edits its own list, is left out.      *)
(***************************************************************************)
EXTENDS Naturals, FiniteSets

CONSTANTS
  Items,      \* approvals, by their submissionId
  Lists,      \* requests for the list that may be in flight at once
  Posts,      \* submissions that the network and the server may hold at once
  Nobody,     \* asked for by the timer
  MaxFaults    \* bound on the number of faults

VARIABLES
  page,    \* pendingApprovals, whether pendingStatus is success, pendingSubmissionByEventId
  lists,   \* the requests for the list in flight
  posts,   \* the submissions in flight
  faults    \* connections broken and appends failed so far

pageVars == <<page, lists, posts, faults>>

Unused == [state |-> "unused"]

Verdicts == {"approved", "rejected"}

\* A list request belongs to the timer or to the submission that reloads the page.
\* A submission the page no longer waits for is not awaited.
PageTypeOK ==
  /\ page \in [shown: SUBSET Items, ready: BOOLEAN, submitting: SUBSET Items]
  /\ lists \in [Lists -> {Unused} \cup [state: {"sent"}, for: Items \cup {Nobody}]
                 \cup [state: {"answered"}, for: Items \cup {Nobody}, items: SUBSET Items]
                 \cup [state: {"failed"}, for: Items \cup {Nobody}]]
  /\ posts \in [Posts -> {Unused}
                 \cup [state: {"sent"}, item: Items, awaited: BOOLEAN, verdict: Verdicts]
                 \cup [state: {"served"}, item: Items, awaited: BOOLEAN]
                 \cup [state: {"accepted", "refused"}, item: Items, awaited: {TRUE}]]
  /\ faults \in 0..MaxFaults

PageInit ==
  /\ page = [shown |-> {}, ready |-> FALSE, submitting |-> {}]
  /\ lists = [list \in Lists |-> Unused]
  /\ posts = [post \in Posts |-> Unused]
  /\ faults = 0

--------------------------------------------------------------------------------
\* Something breaks.
Fault == faults < MaxFaults /\ faults' = faults + 1

(* loadPendingApprovals *)

\* Requests are alike: the first that is unused stands for any.
SendList(list, for) ==
  /\ lists[list] = Unused
  /\ list = CHOOSE unused \in Lists : lists[unused] = Unused
  /\ lists' = [lists EXCEPT ![list] = [state |-> "sent", for |-> for]]

\* The timer.
Refresh(list) ==
  /\ SendList(list, Nobody)
  /\ page' = [page EXCEPT !.ready = FALSE]
  /\ UNCHANGED <<posts, faults>>

\* The server reads the approvals that are pending.
AnswerList(list, items) ==
  /\ lists[list].state = "sent"
  /\ lists' = [lists EXCEPT ![list] =
                 [state |-> "answered", for |-> @.for, items |-> items]]
  /\ UNCHANGED <<page, posts, faults>>

\* It cannot, or the connection breaks.
ListFails(list) ==
  /\ lists[list].state = "sent"
  /\ lists' = [lists EXCEPT ![list] = [state |-> "failed", for |-> @.for]]
  /\ UNCHANGED <<page, posts>>

\* The answer arrives; a submission that waited for it is over.
ShowList(list) ==
  /\ lists[list].state = "answered"
  /\ page' = [shown      |-> lists[list].items,
              ready      |-> TRUE,
              submitting |-> page.submitting \ {lists[list].for}]
  /\ lists' = [lists EXCEPT ![list] = Unused]
  /\ UNCHANGED <<posts, faults>>

\* The old list stays, behind the message.
ShowListError(list) ==
  /\ lists[list].state = "failed"
  /\ page' = [page EXCEPT !.ready = FALSE, !.submitting = @ \ {lists[list].for}]
  /\ lists' = [lists EXCEPT ![list] = Unused]
  /\ UNCHANGED <<posts, faults>>

--------------------------------------------------------------------------------
(* submitApprovalDecision *)

Send(post, item, verdict) ==
  /\ posts[post] = Unused
  /\ post = CHOOSE unused \in Posts : posts[unused] = Unused
  /\ posts' = [posts EXCEPT ![post] =
                 [state |-> "sent", item |-> item, awaited |-> TRUE, verdict |-> verdict]]

\* Wrong: only the list shown is looked at.
ClickAgain(post, item, verdict) ==
  /\ page.ready
  /\ item \in page.shown
  /\ Send(post, item, verdict)
  /\ page' = [page EXCEPT !.submitting = @ \cup {item}]
  /\ UNCHANGED <<lists, faults>>

\* Approve or Reject, on an item that the page shows.
Click(post, item, verdict) ==
  /\ page.ready
  /\ item \in page.shown
  /\ item \notin page.submitting
  /\ Send(post, item, verdict)
  /\ page' = [page EXCEPT !.submitting = @ \cup {item}]
  /\ UNCHANGED <<lists, faults>>

\* What the server makes of a submission is composed with the approvals.
Served(post) ==
  posts' = [posts EXCEPT ![post] =
              [state |-> "served", item |-> @.item, awaited |-> @.awaited]]

\* The answer of the server; one that the page does not wait for is lost.
Answered(post, state) ==
  posts' = [posts EXCEPT ![post] =
              IF @.awaited THEN [state |-> state, item |-> @.item, awaited |-> TRUE]
              ELSE Unused]

\* The page reloads after its submission was accepted, and goes on submitting until
\* it has.
Accepted(post) ==
  /\ posts[post].state = "accepted"
  /\ posts' = [posts EXCEPT ![post] = Unused]
  /\ \E list \in Lists : SendList(list, posts[post].item)
  /\ page' = [page EXCEPT !.ready = FALSE]
  /\ UNCHANGED faults

\* Wrong: a submission that fails is never over.
RefusedForever(post) ==
  /\ posts[post].state = "refused"
  /\ posts' = [posts EXCEPT ![post] = Unused]
  /\ UNCHANGED <<page, lists, faults>>

Refused(post) ==
  /\ posts[post].state = "refused"
  /\ posts' = [posts EXCEPT ![post] = Unused]
  /\ page' = [page EXCEPT !.submitting = @ \ {posts[post].item}]
  /\ UNCHANGED <<lists, faults>>

\* The connection breaks under a submission: the server has it or will not get it,
\* or its answer is lost.
PostFails(post) ==
  /\ Fault
  /\ posts[post] # Unused
  /\ posts[post].awaited
  /\ \/ /\ posts[post].state \in {"sent", "served"}
        /\ posts' = [posts EXCEPT ![post].awaited = FALSE]
     \/ /\ posts[post].state # "served"
        /\ posts' = [posts EXCEPT ![post] = Unused]
  /\ page' = [page EXCEPT !.submitting = @ \ {posts[post].item}]
  /\ UNCHANGED lists

\* What the page does when an answer arrives.
ListStep(list) == ShowList(list) \/ ShowListError(list)

PostStep(post) == Accepted(post) \/ Refused(post)
================================================================================
