---------------------------- MODULE SupportReply ----------------------------
(***************************************************************************)
(* A customer's support request (lib/support, lib/skills/support-handler   *)
(* and customer-support-triage): a background handler triages it and       *)
(* drafts a reply into the approval queue; an operator sends or rejects    *)
(* the draft at /operator/support, or sets the request's status by hand;   *)
(* and the same draft also stands on its owner's /approvals page.          *)
(*                                                                         *)
(* The drafts' verdicts are those of ApprovalRecord: ApprovalQueue.tla     *)
(* shows that applyApprovalDecisionTx implements its Decide, so here a     *)
(* decision is one step.  E-mail is sent outside any transaction.          *)
(*                                                                         *)
(* Not modelled: the page to a human, which changes no state, and the text *)
(* of requests and replies.                                                *)
(***************************************************************************)
CONSTANTS Requests, Items, Tasks, NoRequest

ASSUME NoRequestIsNoRequest == NoRequest \notin Requests

VARIABLES request,   \* request[r]: its status
          of,        \* of[i]: the request draft i replies to, once it exists
          verdict,   \* verdict[i]: the status of draft i
          evidence,  \* the decision rows of the audit log
          closing,   \* support_reply.approved_sent and .rejected rows
          escalated, \* requests with a support_triage.escalated row
          triaged,   \* support_triage.decision rows, by the call that wrote them
          sent,      \* e-mails delivered to the customer
          job, pc,   \* what a call is asked to do, and how far it has got
          saw        \* saw[t]: the request status a rejection has read

draftVars == <<of, verdict, evidence>>
vars == <<request, draftVars, closing, escalated, triaged, sent, job, pc, saw>>

Record == INSTANCE ApprovalRecord

Statuses == {"NEW", "IN_REVIEW", "OPEN", "RESOLVED", "ARCHIVED"}
Outcomes == {"escalated", "auto-answered", "auto-resolved", "drafted"}

Jobs == [op : {"handle"}, request : Requests]
          \cup [op : {"approve", "reject", "ownerApprove", "ownerReject"}, item : Items]

PCs == {"idle", "mark", "draft", "review", "send", "record", "look", "archive", "end"}

TypeOK ==
  /\ request \in [Requests -> Statuses]
  /\ of \in [Items -> Requests \cup {NoRequest}]
  /\ verdict \in [Items -> {"PENDING", "APPROVED", "REJECTED"}]
  /\ evidence \in SUBSET [item : Items, action : {"APPROVED", "REJECTED"}, by : Tasks]
  /\ closing \in SUBSET [item : Items, action : {"approved_sent", "rejected"}, by : Tasks]
  /\ escalated \in SUBSET Requests
  /\ triaged \in SUBSET [by : Tasks, outcome : Outcomes]
  /\ sent \in SUBSET [by : Tasks, item : Items]
  /\ job \in [Tasks -> Jobs]
  /\ pc \in [Tasks -> PCs]
  /\ saw \in [Tasks -> Statuses]

Init ==
  /\ request = [r \in Requests |-> "NEW"]
  /\ of = [i \in Items |-> NoRequest]
  /\ Record!Init
  /\ closing = {} /\ escalated = {} /\ triaged = {} /\ sent = {}
  /\ job \in [Tasks -> Jobs]
  /\ pc = [t \in Tasks |-> "idle"]
  /\ saw = [t \in Tasks |-> "NEW"]

GoTo(t, l) == pc' = [pc EXCEPT ![t] = l]

SetRequest(r, status) == request' = [request EXCEPT ![r] = status]

\* Fault: the update names the id and not the status.
AnyToInReview(r) == SetRequest(r, "IN_REVIEW")

\* updateMany where the status is NEW.
NewToInReview(r) ==
  IF request[r] = "NEW" THEN SetRequest(r, "IN_REVIEW") ELSE UNCHANGED request

-----------------------------------------------------------------------------
(* supportHandlerOnCreateFn, fired by the request's created event.          *)

Handles(t) == job[t].op = "handle"

\* The workspace is paused, gone, or has the skill switched off.
Skip(t) ==
  /\ Handles(t) /\ pc[t] = "idle"
  /\ GoTo(t, "end")
  /\ UNCHANGED <<request, draftVars, closing, escalated, triaged, sent, job, saw>>

\* The decision row is best-effort, and an answer ends the call.
Triage(t) ==
  /\ Handles(t) /\ pc[t] = "idle"
  /\ \/ GoTo(t, "mark") /\ UNCHANGED triaged
     \/ \E outcome \in Outcomes \ {"escalated"} :
          /\ GoTo(t, IF outcome = "drafted" THEN "draft" ELSE "end")
          /\ triaged' \in {triaged, triaged \cup {[by |-> t, outcome |-> outcome]}}
  /\ UNCHANGED <<request, draftVars, closing, escalated, sent, job, saw>>

\* The mark and its audit row are one transaction, whose failure is swallowed.
MarkEscalated(t) ==
  LET r == job[t].request
  IN  /\ pc[t] = "mark"
      /\ \/ NewToInReview(r) /\ escalated' = escalated \cup {r}
         \/ UNCHANGED <<request, escalated>>
      /\ triaged' \in {triaged, triaged \cup {[by |-> t, outcome |-> "escalated"]}}
      /\ GoTo(t, "end")
      /\ UNCHANGED <<draftVars, closing, sent, job, saw>>

\* Fault: sunk is not looked at.
RecordDraftOrNot(t) ==
  /\ pc[t] = "draft"
  /\ \/ UNCHANGED of
     \/ \E i \in Items :
          of[i] = NoRequest /\ of' = [of EXCEPT ![i] = job[t].request]
  /\ GoTo(t, "review")
  /\ UNCHANGED <<request, verdict, evidence, closing, escalated, triaged, sent, job, saw>>

\* The skill's draft becomes a row of the approval queue.
RecordDraft(t) ==
  /\ pc[t] = "draft"
  /\ \E i \in Items :
       of[i] = NoRequest /\ of' = [of EXCEPT ![i] = job[t].request]
  /\ GoTo(t, "review")
  /\ UNCHANGED <<request, verdict, evidence, closing, escalated, triaged, sent, job, saw>>

\* A failure is swallowed.
MarkRequestInReview(t) ==
  /\ pc[t] = "review"
  /\ NewToInReview(job[t].request) \/ UNCHANGED request
  /\ GoTo(t, "end")
  /\ UNCHANGED <<draftVars, closing, escalated, triaged, sent, job, saw>>

\* Inngest runs a handler that threw or died again, from the start.
Retry(t) ==
  /\ Handles(t) /\ pc[t] \notin {"idle", "end"}
  /\ GoTo(t, "idle")
  /\ UNCHANGED <<request, draftVars, closing, escalated, triaged, sent, job, saw>>

-----------------------------------------------------------------------------
(* The operator's calls, on a draft.                                        *)

Draft(t)   == job[t].item
Decidable(t) == of[Draft(t)] # NoRequest /\ verdict[Draft(t)] = "PENDING"
Decides(t, verdictOf) == Record!Decide(Draft(t), verdictOf, t) /\ UNCHANGED of
Close(t, action) ==
  closing' = closing \cup {[item |-> Draft(t), action |-> action, by |-> t]}

\* loadDraftContext: only a PENDING draft goes on.
LoadDraftContext(t) ==
  /\ job[t].op \in {"approve", "reject"} /\ pc[t] = "idle" /\ Decidable(t)
  /\ GoTo(t, IF job[t].op = "approve" THEN "send" ELSE "look")
  /\ UNCHANGED <<request, draftVars, closing, escalated, triaged, sent, job, saw>>

\* Fault: a failure of the provider is swallowed.
SendOrNot(t) ==
  /\ pc[t] = "send"
  /\ sent' \in {sent, sent \cup {[by |-> t, item |-> Draft(t)]}}
  /\ GoTo(t, "record")
  /\ UNCHANGED <<request, draftVars, closing, escalated, triaged, job, saw>>

\* Sent; lost and reported so; or delivered and reported lost (a timeout).
Send(t) ==
  /\ pc[t] = "send"
  /\ \/ /\ sent' = sent \cup {[by |-> t, item |-> Draft(t)]}
        /\ \E l \in {"record", "end"} : GoTo(t, l)
     \/ UNCHANGED sent /\ GoTo(t, "end")
  /\ UNCHANGED <<request, draftVars, closing, escalated, triaged, job, saw>>

RecordResolved(t) ==
  /\ pc[t] = "record" /\ Decidable(t)
  /\ Decides(t, "APPROVED")
  /\ SetRequest(of[Draft(t)], "RESOLVED")
  /\ Close(t, "approved_sent")
  /\ GoTo(t, "end")
  /\ UNCHANGED <<escalated, triaged, sent, job, saw>>

\* The first half of recordRejected's transaction.  Its claim of the draft
\* shows at the commit, and holds off the other deciders until then: here they
\* may win instead, and this call is refused.
LookAtRequest(t) ==
  /\ pc[t] = "look" /\ Decidable(t)
  /\ saw' = [saw EXCEPT ![t] = request[of[Draft(t)]]]
  /\ GoTo(t, "archive")
  /\ UNCHANGED <<request, draftVars, closing, escalated, triaged, sent, job>>

\* Fault: the draft's status is written without claiming it.
RejectUnclaimed(t) ==
  /\ pc[t] = "archive"
  /\ verdict' = [verdict EXCEPT ![Draft(t)] = "REJECTED"]
  /\ evidence' = evidence \cup {[item |-> Draft(t), action |-> "REJECTED", by |-> t]}
  /\ SetRequest(of[Draft(t)], "OPEN")
  /\ Close(t, "rejected")
  /\ GoTo(t, "end")
  /\ UNCHANGED <<of, escalated, triaged, sent, job, saw>>

RecordRejected(t) ==
  /\ pc[t] = "archive" /\ Decidable(t)
  /\ Decides(t, "REJECTED")
  /\ IF saw[t] = "RESOLVED" THEN UNCHANGED request
     ELSE SetRequest(of[Draft(t)], "OPEN")
  /\ Close(t, "rejected")
  /\ GoTo(t, "end")
  /\ UNCHANGED <<escalated, triaged, sent, job, saw>>

\* Fault: a status of the sibling SupportTicket.
SetTicketStatus(r) ==
  /\ SetRequest(r, "CLOSED")
  /\ UNCHANGED <<draftVars, closing, escalated, triaged, sent, job, pc, saw>>

\* markSupportOpen, markSupportResolved, reopenSupport, archiveSupportRequest.
SetStatus(r) ==
  /\ \E status \in Statuses \ {"IN_REVIEW"} : SetRequest(r, status)
  /\ UNCHANGED <<draftVars, closing, escalated, triaged, sent, job, pc, saw>>

\* The owner decides the draft on /approvals; nothing else follows but the
\* artifact, which ApprovalQueue.tla models.
OwnerDecides(t) ==
  /\ job[t].op \in {"ownerApprove", "ownerReject"} /\ pc[t] = "idle" /\ Decidable(t)
  /\ Decides(t, IF job[t].op = "ownerApprove" THEN "APPROVED" ELSE "REJECTED")
  /\ GoTo(t, "end")
  /\ UNCHANGED <<request, closing, escalated, triaged, sent, job, saw>>

\* Any call may end here: no draft, decided already (before or after an e-mail),
\* nobody to send to, the draft not sunk, or the instance dead.  The operator may
\* press the button again, which is another call.
End(t) ==
  /\ pc[t] # "end" /\ ~(Handles(t) /\ pc[t] = "idle")
  /\ GoTo(t, "end")
  /\ UNCHANGED <<request, draftVars, closing, escalated, triaged, sent, job, saw>>

Next ==
  \/ \E t \in Tasks :
       \/ Skip(t) \/ Triage(t) \/ MarkEscalated(t)
       \/ RecordDraft(t) \/ MarkRequestInReview(t) \/ Retry(t)
       \/ LoadDraftContext(t) \/ Send(t) \/ RecordResolved(t)
       \/ LookAtRequest(t) \/ RecordRejected(t)
       \/ OwnerDecides(t) \/ End(t)
  \/ \E r \in Requests : SetStatus(r)

Spec == Init /\ [][Next]_vars

-----------------------------------------------------------------------------
(* What holds however the calls interleave.                                 *)

ClosingRows(i) == {c \in closing : c.item = i}

\* The reply log tells one story per draft: at most one closing row, written by
\* the call whose decision row the draft has, with the matching verdict.  A reject
\* racing an approve cannot rewrite the record (applyApprovalDecisionTx inside
\* recordResolved and recordRejected).
OneClosing ==
  \A i \in Items : \A c, d \in ClosingRows(i) :
    /\ c = d
    /\ [item |-> i, by |-> c.by,
        action |-> IF c.action = "rejected" THEN "REJECTED" ELSE "APPROVED"] \in evidence

\* "We never mark RESOLVED without a reply out": a reply recorded as approved and
\* sent has reached the customer, by that very call (approveAndSendSupportReply
\* sends first and records after).
ClosedIsSent ==
  \A c \in closing : c.action = "approved_sent" => [by |-> c.by, item |-> c.item] \in sent

\* IN_REVIEW tells the operator that something waits for them: a request that
\* stands there has a draft, or an escalation in the audit log (the mark follows the
\* sunk draft, or shares the escalation's transaction; reopening it starts afresh).
InReviewIsDue ==
  \A r \in Requests : request[r] = "IN_REVIEW" =>
    r \in escalated \/ \E i \in Items : of[i] = r

\* A late or retried handler never takes a request back from an operator: only a
\* step of the operator moves a request that is no longer NEW, and the handler
\* leaves it IN_REVIEW (the NEW in both updateMany calls).
TouchedIsKept ==
  [][\A t \in Tasks, r \in Requests :
       Handles(t) /\ pc'[t] # pc[t] /\ request[r] # "NEW" => request'[r] = request[r]]_vars

-----------------------------------------------------------------------------
(* What makes the guarantees inductive (SupportReplyProofs).                *)

\* A call stays within its own steps.
OwnSteps ==
  \A t \in Tasks :
    /\ pc[t] \in {"mark", "draft", "review"} => Handles(t)
    /\ pc[t] \in {"send", "record"} => job[t].op = "approve"
    /\ pc[t] \in {"look", "archive"} => job[t].op = "reject"

\* Whoever records a reply as sent has sent it, and whoever marks a request
\* IN_REVIEW has sunk its draft.
StepsAreDue ==
  \A t \in Tasks :
    /\ pc[t] = "record" => [by |-> t, item |-> Draft(t)] \in sent
    /\ pc[t] = "review" => \E i \in Items : of[i] = job[t].request

\* An undecided draft has no closing row.
UndecidedIsOpen ==
  \A i \in Items : verdict[i] = "PENDING" => ClosingRows(i) = {}

IInv == /\ TypeOK /\ OwnSteps /\ StepsAreDue /\ UndecidedIsOpen
        /\ OneClosing /\ ClosedIsSent /\ InReviewIsDue

-----------------------------------------------------------------------------
(* What the comments promise and the code does not keep.                    *)

\* The status guard "makes a double-approve a no-op" (resolve-reply.ts:36), "not a
\* re-send" (158): a draft is sent to the customer once.
SentOnce == \A m, n \in sent : m.item = n.item => m = n

\* What it takes: approvals of one draft do not overlap, and none ends after its mail
\* has reached the customer with the draft still open, as one does that dies or is
\* told that the mail was lost.
SendAlone ==
  \A t, u \in Tasks :
    {pc[t], pc[u]} \subseteq {"send", "record"} /\ Draft(t) = Draft(u) => t = u
SendsAreRecorded == \A m \in sent : pc[m.by] = "end" => verdict[m.item] # "PENDING"

\* "The fleet drafts; a human approves; the send executes on that approval"
\* (resolve-reply.ts:22): an approved draft has been sent.
ApprovedIsSent ==
  \A i \in Items : verdict[i] = "APPROVED" => \E m \in sent : m.item = i

\* What it takes: the owner approves none.
OwnerApprovesNone ==
  [][\A t \in Tasks : job[t].op = "ownerApprove" => ~OwnerDecides(t)]_vars

\* An auto-answer is sent "through the existing reply path"; "the caller only
\* relays the customer-facing reply" (customer-support-triage/types.ts:166,170).
AnswerIsRelayed ==
  \A d \in triaged : d.outcome = "auto-answered" /\ pc[d.by] = "end" =>
    \E m \in sent : m.by = d.by
=============================================================================
