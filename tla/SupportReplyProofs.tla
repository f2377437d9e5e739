------------------------- MODULE SupportReplyProofs -------------------------
(***************************************************************************)
(* What holds of the support path, proved for every number of requests,    *)
(* drafts and calls.                                                       *)
(***************************************************************************)
EXTENDS SupportReply, TLAPS

LEMMA ReplyTypeInit == Init => TypeOK
BY DEF Init, Record!Init, TypeOK, Statuses, PCs

\* The draft an operator's or the owner's call names, and its request.
LEMMA DraftType ==
  ASSUME TypeOK, NEW t \in Tasks,
         job[t].op \in {"approve", "reject", "ownerApprove", "ownerReject"}
  PROVE  /\ Draft(t) \in Items
         /\ Decidable(t) => of[Draft(t)] \in Requests
<1>1. job[t] \in Jobs
  BY DEF TypeOK
<1>2. Draft(t) \in Items
  BY <1>1 DEF Jobs, Draft
<1> QED
  BY <1>2 DEF TypeOK, Decidable

LEMMA RequestType ==
  ASSUME TypeOK, NEW t \in Tasks, Handles(t) PROVE job[t].request \in Requests
<1>1. job[t] \in Jobs
  BY DEF TypeOK
<1> QED
  BY <1>1 DEF Jobs, Handles

\* A step keeps the types; that calls stay within their steps makes the drafts and
\* the requests they name exist.
LEMMA ReplyTypeStep == TypeOK /\ OwnSteps /\ [Next]_vars => TypeOK'
<1> SUFFICES ASSUME TypeOK, OwnSteps, [Next]_vars PROVE TypeOK'
  OBVIOUS
<1>1. CASE UNCHANGED vars
  BY <1>1 DEF vars, draftVars, TypeOK
<1>2. ASSUME NEW r \in Requests, SetStatus(r) PROVE TypeOK'
  BY <1>2 DEF SetStatus, SetRequest, draftVars, TypeOK, Statuses
<1>3. ASSUME NEW t \in Tasks, Skip(t) \/ Retry(t) \/ End(t) \/ LoadDraftContext(t)
      PROVE  TypeOK'
  BY <1>3 DEF Skip, Retry, End, LoadDraftContext, GoTo, draftVars, TypeOK, PCs
<1>4. ASSUME NEW t \in Tasks, Triage(t) PROVE TypeOK'
  <2>1. triaged' \in SUBSET [by : Tasks, outcome : Outcomes]
    BY <1>4 DEF Triage, TypeOK, Outcomes
  <2>2. pc' \in [Tasks -> PCs]
    BY <1>4 DEF Triage, GoTo, TypeOK, PCs
  <2> QED
    BY <1>4, <2>1, <2>2 DEF Triage, draftVars, TypeOK
<1>5. ASSUME NEW t \in Tasks, MarkEscalated(t) PROVE TypeOK'
  <2>1. job[t].request \in Requests
    BY <1>5, RequestType DEF MarkEscalated, OwnSteps
  <2>2. request' \in [Requests -> Statuses]
    BY <1>5, <2>1 DEF MarkEscalated, NewToInReview, SetRequest, TypeOK, Statuses
  <2>3. escalated' \in SUBSET Requests
    BY <1>5, <2>1 DEF MarkEscalated, TypeOK
  <2>4. triaged' \in SUBSET [by : Tasks, outcome : Outcomes]
    BY <1>5 DEF MarkEscalated, TypeOK, Outcomes
  <2> QED
    BY <1>5, <2>2, <2>3, <2>4 DEF MarkEscalated, GoTo, draftVars, TypeOK, PCs
<1>6. ASSUME NEW t \in Tasks, RecordDraft(t) PROVE TypeOK'
  <2>1. job[t].request \in Requests
    BY <1>6, RequestType DEF RecordDraft, OwnSteps
  <2> QED
    BY <1>6, <2>1 DEF RecordDraft, GoTo, TypeOK, PCs
<1>7. ASSUME NEW t \in Tasks, MarkRequestInReview(t) PROVE TypeOK'
  BY <1>7 DEF MarkRequestInReview, NewToInReview, SetRequest, GoTo, draftVars, TypeOK,
              PCs, Statuses
<1>8. ASSUME NEW t \in Tasks, Send(t) PROVE TypeOK'
  <2>1. Draft(t) \in Items
    BY <1>8, DraftType DEF Send, OwnSteps
  <2>2. sent' \in SUBSET [by : Tasks, item : Items]
    BY <1>8, <2>1 DEF Send, TypeOK
  <2>3. pc' \in [Tasks -> PCs]
    BY <1>8 DEF Send, GoTo, TypeOK, PCs
  <2> QED
    BY <1>8, <2>2, <2>3 DEF Send, draftVars, TypeOK
<1>9. ASSUME NEW t \in Tasks, RecordResolved(t) PROVE TypeOK'
  <2>1. Draft(t) \in Items /\ of[Draft(t)] \in Requests
    BY <1>9, DraftType DEF RecordResolved, OwnSteps
  <2> QED
    BY <1>9, <2>1 DEF RecordResolved, Decides, Record!Decide, SetRequest, Close, GoTo,
                      TypeOK, PCs, Statuses
<1>10. ASSUME NEW t \in Tasks, LookAtRequest(t) PROVE TypeOK'
  <2>1. of[Draft(t)] \in Requests
    BY <1>10, DraftType DEF LookAtRequest, OwnSteps
  <2> QED
    BY <1>10, <2>1 DEF LookAtRequest, GoTo, draftVars, TypeOK, PCs
<1>11. ASSUME NEW t \in Tasks, RecordRejected(t) PROVE TypeOK'
  <2>1. Draft(t) \in Items /\ of[Draft(t)] \in Requests
    BY <1>11, DraftType DEF RecordRejected, OwnSteps
  <2> QED
    BY <1>11, <2>1 DEF RecordRejected, Decides, Record!Decide, SetRequest, Close, GoTo,
                       TypeOK, PCs, Statuses
<1>12. ASSUME NEW t \in Tasks, OwnerDecides(t) PROVE TypeOK'
  <2>1. Draft(t) \in Items
    BY <1>12, DraftType DEF OwnerDecides
  <2> QED
    BY <1>12, <2>1 DEF OwnerDecides, Decides, Record!Decide, GoTo, TypeOK, PCs
<1> QED
  BY <1>1, <1>2, <1>3, <1>4, <1>5, <1>6, <1>7, <1>8, <1>9, <1>10, <1>11, <1>12 DEF Next

-----------------------------------------------------------------------------
(* The inductive invariant.                                                 *)

LEMMA ReplyInvInit == Init => IInv
BY ReplyTypeInit
   DEF Init, Record!Init, IInv, OwnSteps, StepsAreDue, UndecidedIsOpen, OneClosing,
       ClosedIsSent, InReviewIsDue, ClosingRows

LEMMA OwnStepsStep == TypeOK /\ OwnSteps /\ [Next]_vars => OwnSteps'
<1> SUFFICES ASSUME TypeOK, OwnSteps, [Next]_vars PROVE OwnSteps'
  OBVIOUS
<1>1. CASE UNCHANGED vars
  BY <1>1 DEF vars, OwnSteps, Handles
<1>2. ASSUME NEW r \in Requests, SetStatus(r) PROVE OwnSteps'
  BY <1>2 DEF SetStatus, OwnSteps, Handles
<1>3. ASSUME NEW t \in Tasks,
             \/ Skip(t) \/ Triage(t) \/ MarkEscalated(t) \/ RecordDraft(t)
             \/ MarkRequestInReview(t) \/ Retry(t)
      PROVE  OwnSteps'
  <2>1. job' = job /\ Handles(t) /\ \A u \in Tasks \ {t} : pc'[u] = pc[u]
    BY <1>3 DEF Skip, Triage, MarkEscalated, RecordDraft, MarkRequestInReview, Retry,
                GoTo, TypeOK, OwnSteps
  <2>2. pc'[t] \in {"idle", "mark", "draft", "review", "end"}
    BY <1>3 DEF Skip, Triage, MarkEscalated, RecordDraft, MarkRequestInReview, Retry,
                GoTo, TypeOK
  <2> QED
    BY <2>1, <2>2 DEF OwnSteps, Handles
<1>4. ASSUME NEW t \in Tasks,
             \/ LoadDraftContext(t) \/ Send(t) \/ RecordResolved(t)
             \/ LookAtRequest(t) \/ RecordRejected(t) \/ OwnerDecides(t) \/ End(t)
      PROVE  OwnSteps'
  <2>1. job' = job /\ \A u \in Tasks \ {t} : pc'[u] = pc[u]
    BY <1>4 DEF LoadDraftContext, Send, RecordResolved, LookAtRequest, RecordRejected,
                OwnerDecides, End, GoTo, TypeOK
  <2>2. \/ pc'[t] = "end"
        \/ pc'[t] \in {"send", "record"} /\ job[t].op = "approve"
        \/ pc'[t] \in {"look", "archive"} /\ job[t].op = "reject"
    BY <1>4 DEF LoadDraftContext, Send, RecordResolved, LookAtRequest, RecordRejected,
                OwnerDecides, End, GoTo, TypeOK, OwnSteps
  <2> QED
    BY <2>1, <2>2 DEF OwnSteps, Handles
<1> QED
  BY <1>1, <1>2, <1>3, <1>4 DEF Next

\* No step takes back a draft, an escalation, an e-mail or a decision row.
LEMMA NothingIsTakenBack ==
  TypeOK /\ OwnSteps /\ [Next]_vars =>
    /\ \A i \in Items : of[i] # NoRequest => of'[i] = of[i]
    /\ escalated \subseteq escalated' /\ sent \subseteq sent' /\ evidence \subseteq evidence'
    /\ job' = job
BY DEF TypeOK, Next, vars, draftVars, Skip, Triage, MarkEscalated, RecordDraft,
       MarkRequestInReview, Retry, LoadDraftContext, Send, RecordResolved, LookAtRequest,
       RecordRejected, OwnerDecides, End, SetStatus, Decides, Record!Decide

LEMMA StepsAreDueStep ==
  TypeOK /\ OwnSteps /\ StepsAreDue /\ [Next]_vars => StepsAreDue'
<1> SUFFICES ASSUME TypeOK, OwnSteps, StepsAreDue, [Next]_vars PROVE StepsAreDue'
  OBVIOUS
<1> job' = job
  BY NothingIsTakenBack
<1> SUFFICES ASSUME NEW t \in Tasks
             PROVE  /\ pc'[t] = "record" => [by |-> t, item |-> Draft(t)] \in sent'
                    /\ pc'[t] = "review" => \E i \in Items : of'[i] = job[t].request
  BY DEF StepsAreDue, Draft
<1>1. CASE pc'[t] = pc[t]
  <2>1. pc[t] = "review" => job[t].request # NoRequest
    BY RequestType, NoRequestIsNoRequest DEF OwnSteps
  <2> QED
    BY <1>1, <2>1, NothingIsTakenBack DEF StepsAreDue
<1>2. CASE pc'[t] # pc[t]
  <2>1. ASSUME pc'[t] = "record" PROVE Send(t)
    BY <1>2, <2>1
       DEF TypeOK, Next, vars, GoTo, Skip, Triage, MarkEscalated, RecordDraft,
           MarkRequestInReview, Retry, LoadDraftContext, Send, RecordResolved,
           LookAtRequest, RecordRejected, OwnerDecides, End, SetStatus
  <2>2. ASSUME pc'[t] = "review" PROVE RecordDraft(t)
    BY <1>2, <2>2
       DEF TypeOK, Next, vars, GoTo, Skip, Triage, MarkEscalated, RecordDraft,
           MarkRequestInReview, Retry, LoadDraftContext, Send, RecordResolved,
           LookAtRequest, RecordRejected, OwnerDecides, End, SetStatus
  <2>3. ASSUME pc'[t] = "record" PROVE [by |-> t, item |-> Draft(t)] \in sent'
    BY <2>1, <2>3 DEF Send, GoTo, TypeOK
  <2>4. ASSUME pc'[t] = "review" PROVE \E i \in Items : of'[i] = job[t].request
    BY <2>2, <2>4 DEF RecordDraft, TypeOK
  <2> QED
    BY <2>3, <2>4
<1> QED
  BY <1>1, <1>2

\* An undecided draft has no closing row, and a closing row agrees with the decision
\* row of the call that wrote it.
LEMMA OneClosingStep ==
  TypeOK /\ OwnSteps /\ UndecidedIsOpen /\ OneClosing /\ [Next]_vars =>
    UndecidedIsOpen' /\ OneClosing'
<1> SUFFICES ASSUME TypeOK, OwnSteps, UndecidedIsOpen, OneClosing, [Next]_vars
             PROVE  UndecidedIsOpen' /\ OneClosing'
  OBVIOUS
<1>1. CASE closing' = closing /\ verdict' = verdict
  <2>1. evidence \subseteq evidence'
    BY NothingIsTakenBack
  <2> QED
    BY <1>1, <2>1 DEF UndecidedIsOpen, OneClosing, ClosingRows
<1>2. ASSUME NEW t \in Tasks, NEW action \in {"approved_sent", "rejected"},
             Decidable(t), Close(t, action), Draft(t) \in Items,
             Record!Decide(Draft(t),
                           IF action = "rejected" THEN "REJECTED" ELSE "APPROVED", t)
      PROVE  UndecidedIsOpen' /\ OneClosing'
  <2>1. PICK k \in Items : k = Draft(t)
    BY <1>2
  <2> DEFINE new == [item |-> k, action |-> action, by |-> t]
  <2>2. closing' = closing \cup {new} /\ ClosingRows(k) = {}
    BY <1>2, <2>1 DEF Close, Decidable, UndecidedIsOpen
  <2>3. /\ {c \in closing' : c.item = k} = {new}
        /\ \A i \in Items \ {k} :
             {c \in closing' : c.item = i} = {c \in closing : c.item = i}
    BY <2>2 DEF ClosingRows
  <2>4. verdict'[k] # "PENDING" /\ \A i \in Items \ {k} : verdict'[i] = verdict[i]
    BY <1>2, <2>1 DEF Record!Decide, TypeOK
  <2>5. /\ evidence \subseteq evidence'
        /\ [item |-> k, by |-> t,
            action |-> IF new.action = "rejected" THEN "REJECTED" ELSE "APPROVED"]
             \in evidence'
    BY <1>2, <2>1 DEF Record!Decide
  <2>6. UndecidedIsOpen'
    BY <2>3, <2>4 DEF UndecidedIsOpen, ClosingRows
  <2>7. OneClosing'
    <3> SUFFICES ASSUME NEW i \in Items, NEW c \in closing', NEW d \in closing',
                        c.item = i, d.item = i
                 PROVE  /\ c = d
                        /\ [item |-> i, by |-> c.by,
                            action |-> IF c.action = "rejected" THEN "REJECTED"
                                       ELSE "APPROVED"] \in evidence'
      BY DEF OneClosing, ClosingRows
    <3>1. CASE i = k
      BY <2>3, <2>5, <3>1
    <3>2. CASE i # k
      BY <2>3, <2>5, <3>2 DEF OneClosing, ClosingRows
    <3> QED
      BY <3>1, <3>2
  <2> QED
    BY <2>6, <2>7
<1>3. ASSUME NEW t \in Tasks, RecordResolved(t) PROVE UndecidedIsOpen' /\ OneClosing'
  BY <1>2, <1>3, DraftType DEF RecordResolved, Decides, OwnSteps
<1>4. ASSUME NEW t \in Tasks, RecordRejected(t) PROVE UndecidedIsOpen' /\ OneClosing'
  BY <1>2, <1>4, DraftType DEF RecordRejected, Decides, OwnSteps
<1>5. ASSUME NEW t \in Tasks, OwnerDecides(t) PROVE UndecidedIsOpen' /\ OneClosing'
  <2>1. closing' = closing /\ evidence \subseteq evidence'
    BY <1>5, NothingIsTakenBack DEF OwnerDecides
  <2>2. \A i \in Items : verdict'[i] = "PENDING" => verdict[i] = "PENDING"
    BY <1>5 DEF OwnerDecides, Decides, Record!Decide, TypeOK
  <2> QED
    BY <2>1, <2>2 DEF UndecidedIsOpen, OneClosing, ClosingRows
<1> QED
  BY <1>1, <1>3, <1>4, <1>5
     DEF Next, vars, draftVars, Skip, Triage, MarkEscalated, RecordDraft,
         MarkRequestInReview, Retry, LoadDraftContext, Send, LookAtRequest, End, SetStatus

\* Only the call that has sent a reply records it as sent.
LEMMA ClosedIsSentStep ==
  TypeOK /\ OwnSteps /\ StepsAreDue /\ ClosedIsSent /\ [Next]_vars => ClosedIsSent'
<1> SUFFICES ASSUME TypeOK, OwnSteps, StepsAreDue, ClosedIsSent, [Next]_vars,
                    NEW c \in closing', c.action = "approved_sent"
             PROVE  [by |-> c.by, item |-> c.item] \in sent'
  BY DEF ClosedIsSent
<1>1. sent \subseteq sent'
  BY NothingIsTakenBack
<1>2. CASE c \in closing
  BY <1>1, <1>2 DEF ClosedIsSent
<1>3. CASE c \notin closing
  <2>1. PICK t \in Tasks : RecordResolved(t) \/ RecordRejected(t)
    BY <1>3 DEF Next, vars, draftVars, Skip, Triage, MarkEscalated, RecordDraft,
                MarkRequestInReview, Retry, LoadDraftContext, Send, LookAtRequest,
                OwnerDecides, End, SetStatus
  <2>2. /\ pc[t] = "record"
        /\ c = [item |-> Draft(t), action |-> "approved_sent", by |-> t]
    BY <1>3, <2>1 DEF RecordResolved, RecordRejected, Close
  <2> QED
    BY <1>1, <2>2 DEF StepsAreDue
<1> QED
  BY <1>2, <1>3

\* Only a handler moves a request to IN_REVIEW, and only with something to review.
LEMMA InReviewStep ==
  TypeOK /\ OwnSteps /\ StepsAreDue /\ InReviewIsDue /\ [Next]_vars => InReviewIsDue'
<1> SUFFICES ASSUME TypeOK, OwnSteps, StepsAreDue, InReviewIsDue, [Next]_vars,
                    NEW r \in Requests, request'[r] = "IN_REVIEW"
             PROVE  r \in escalated' \/ \E i \in Items : of'[i] = r
  BY DEF InReviewIsDue
<1>1. /\ escalated \subseteq escalated'
      /\ \A i \in Items : of[i] = r => of'[i] = r
  BY NothingIsTakenBack, NoRequestIsNoRequest
<1>2. CASE request[r] = "IN_REVIEW"
  BY <1>1, <1>2 DEF InReviewIsDue
<1>3. CASE request[r] # "IN_REVIEW"
  <2>1. PICK t \in Tasks :
          \/ RecordResolved(t) \/ RecordRejected(t)
          \/ MarkEscalated(t) \/ MarkRequestInReview(t)
    <3>1. ASSUME NEW q \in Requests, SetStatus(q) PROVE FALSE
      BY <1>3, <3>1 DEF SetStatus, SetRequest, TypeOK
    <3> QED
      BY <1>3, <3>1 DEF Next, vars, draftVars, Skip, Triage, RecordDraft, Retry,
                        LoadDraftContext, Send, LookAtRequest, OwnerDecides, End
  <2>2. ~RecordResolved(t) /\ ~RecordRejected(t)
    BY <1>3 DEF RecordResolved, RecordRejected, SetRequest, TypeOK
  <2>3. CASE MarkEscalated(t)
    BY <1>3, <2>3 DEF MarkEscalated, NewToInReview, SetRequest, TypeOK
  <2>4. CASE MarkRequestInReview(t)
    <3>1. job[t].request = r /\ pc[t] = "review"
      BY <1>3, <2>4 DEF MarkRequestInReview, NewToInReview, SetRequest, TypeOK
    <3> QED
      BY <1>1, <3>1 DEF StepsAreDue
  <2> QED
    BY <2>1, <2>2, <2>3, <2>4
<1> QED
  BY <1>2, <1>3

LEMMA ReplyInvStep == IInv /\ [Next]_vars => IInv'
BY ReplyTypeStep, OwnStepsStep, StepsAreDueStep, OneClosingStep, ClosedIsSentStep,
   InReviewStep
   DEF IInv

\* A handler's step leaves a request alone that is no longer NEW.
LEMMA TouchedStep ==
  TypeOK /\ OwnSteps /\ [Next]_vars =>
    \A t \in Tasks, r \in Requests :
      Handles(t) /\ pc'[t] # pc[t] /\ request[r] # "NEW" => request'[r] = request[r]
<1> SUFFICES ASSUME TypeOK, OwnSteps, [Next]_vars, NEW t \in Tasks, NEW r \in Requests,
                    Handles(t), pc'[t] # pc[t], request[r] # "NEW"
             PROVE  request'[r] = request[r]
  OBVIOUS
<1>1. PICK u \in Tasks :
        \/ Skip(u) \/ Triage(u) \/ MarkEscalated(u)
        \/ RecordDraft(u) \/ MarkRequestInReview(u) \/ Retry(u)
        \/ LoadDraftContext(u) \/ Send(u) \/ RecordResolved(u)
        \/ LookAtRequest(u) \/ RecordRejected(u)
        \/ OwnerDecides(u) \/ End(u)
  BY DEF Next, vars, SetStatus
<1>2. u = t
  BY <1>1 DEF Skip, Triage, MarkEscalated, RecordDraft, MarkRequestInReview, Retry,
              LoadDraftContext, Send, RecordResolved, LookAtRequest, RecordRejected,
              OwnerDecides, End, GoTo, TypeOK
<1>3. ~RecordResolved(t) /\ ~RecordRejected(t)
  BY DEF RecordResolved, RecordRejected, OwnSteps, Handles
<1>4. ASSUME NEW q \in Requests, NewToInReview(q) PROVE request'[r] = request[r]
  BY <1>4 DEF NewToInReview, SetRequest, TypeOK
<1>5. CASE MarkEscalated(t) \/ MarkRequestInReview(t)
  <2>1. job[t].request \in Requests
    BY RequestType
  <2> QED
    BY <1>4, <1>5, <2>1 DEF MarkEscalated, MarkRequestInReview
<1> QED
  BY <1>1, <1>2, <1>3, <1>5
     DEF Skip, Triage, RecordDraft, Retry, LoadDraftContext, Send, LookAtRequest,
         OwnerDecides, End

\* A step of the support path is a decision of the abstract record, or leaves it alone.
LEMMA ReplyRecordStep ==
  TypeOK /\ OwnSteps /\ [Next]_vars => [Record!Next]_Record!vars
<1> SUFFICES ASSUME TypeOK, OwnSteps, [Next]_vars PROVE [Record!Next]_Record!vars
  OBVIOUS
<1>1. CASE UNCHANGED <<verdict, evidence>>
  BY <1>1 DEF Record!vars
<1>2. ASSUME NEW t \in Tasks, RecordResolved(t) \/ RecordRejected(t) \/ OwnerDecides(t)
      PROVE  Record!Next
  <2>1. Draft(t) \in Items
    BY <1>2, DraftType DEF RecordResolved, RecordRejected, OwnerDecides, OwnSteps
  <2> QED
    BY <1>2, <2>1 DEF RecordResolved, RecordRejected, OwnerDecides, Decides, Record!Next
<1> QED
  BY <1>1, <1>2
     DEF Next, vars, draftVars, Skip, Triage, MarkEscalated, RecordDraft,
         MarkRequestInReview, Retry, LoadDraftContext, Send, LookAtRequest, End, SetStatus

-----------------------------------------------------------------------------
(* The theorems.                                                            *)

\* The invariant holds however the handlers, the operators and the owner interleave
\* (support-handler-on-create.ts, resolve-reply.ts, prisma-resolve-store.ts).
THEOREM ReplyInvariant == Spec => []IInv
BY ReplyInvInit, ReplyInvStep, PTL DEF Spec

\* Every reachable state is well typed.
THEOREM ReplyTypeCorrect == Spec => []TypeOK
<1>1. IInv => TypeOK
  BY DEF IInv
<1> QED
  BY ReplyInvariant, <1>1, PTL

\* One closing row per draft, in agreement with its decision row (recordResolved,
\* recordRejected), for any number of racing calls.
THEOREM OneClosingHolds == Spec => []OneClosing
<1>1. IInv => OneClosing
  BY DEF IInv
<1> QED
  BY ReplyInvariant, <1>1, PTL

\* A reply recorded as sent was sent, by that call (approveAndSendSupportReply).
THEOREM ClosedWasSent == Spec => []ClosedIsSent
<1>1. IInv => ClosedIsSent
  BY DEF IInv
<1> QED
  BY ReplyInvariant, <1>1, PTL

\* A request IN_REVIEW has a draft or an escalation (markRequestInReview,
\* markEscalated).
THEOREM InReviewHasReason == Spec => []InReviewIsDue
<1>1. IInv => InReviewIsDue
  BY DEF IInv
<1> QED
  BY ReplyInvariant, <1>1, PTL

\* No handler takes a request back from an operator (the NEW in both updateMany
\* calls).
THEOREM TouchedStaysKept == Spec => TouchedIsKept
<1>1. IInv /\ [Next]_vars =>
        [\A t \in Tasks, r \in Requests :
           Handles(t) /\ pc'[t] # pc[t] /\ request[r] # "NEW" =>
             request'[r] = request[r]]_vars
  BY TouchedStep DEF IInv
<1> QED
  BY ReplyInvariant, <1>1, PTL DEF Spec, TouchedIsKept

\* The drafts' verdicts and decision rows obey the abstract record, which
\* ApprovalQueue implements: an approval or a rejection anywhere in the support path
\* is a decision of the queue.
THEOREM RepliesObeyTheRecord == Spec => Record!Spec
<1>1. Init => Record!Init
  BY DEF Init
<1>2. IInv /\ [Next]_vars => [Record!Next]_Record!vars
  BY ReplyRecordStep DEF IInv
<1> QED
  BY ReplyInvariant, <1>1, <1>2, PTL DEF Spec, Record!Spec

-----------------------------------------------------------------------------
(* What the refuted promise takes.                                          *)

\* Who is about to send is the first to, and the draft of a mail that is out is
\* decided, or about to be by its sender.
SenderIsFirst ==
  \A t \in Tasks : pc[t] = "send" => \A m \in sent : m.item # Draft(t)
SentIsDecided ==
  \A m \in sent :
    verdict[m.item] = "PENDING" => pc[m.by] = "record" /\ Draft(m.by) = m.item

SendInv == SenderIsFirst /\ SentIsDecided /\ SentOnce

\* A mail comes from a call that is about to send it.
LEMMA NewMail ==
  ASSUME TypeOK, OwnSteps, [Next]_vars, NEW m \in sent', m \notin sent
  PROVE  /\ m.by \in Tasks /\ m.item = Draft(m.by) /\ pc[m.by] = "send"
         /\ sent' = sent \cup {m} /\ pc'[m.by] \in {"record", "end"}
         /\ \A u \in Tasks : u # m.by => pc'[u] = pc[u]
<1>1. PICK t \in Tasks : Send(t)
  BY DEF Next, vars, draftVars, Skip, Triage, MarkEscalated, RecordDraft,
         MarkRequestInReview, Retry, LoadDraftContext, RecordResolved, LookAtRequest,
         RecordRejected, OwnerDecides, End, SetStatus
<1>2. m = [by |-> t, item |-> Draft(t)] /\ sent' = sent \cup {m}
  BY <1>1 DEF Send
<1>3. pc'[t] \in {"record", "end"} /\ \A u \in Tasks : u # t => pc'[u] = pc[u]
  BY <1>1 DEF Send, GoTo, TypeOK
<1> QED
  BY <1>1, <1>2, <1>3 DEF Send

\* A decided draft stays decided.
LEMMA DecidedStays ==
  ASSUME TypeOK, OwnSteps, [Next]_vars, NEW i \in Items, verdict[i] # "PENDING"
  PROVE  verdict'[i] = verdict[i]
BY DEF TypeOK, Next, vars, draftVars, Skip, Triage, MarkEscalated, RecordDraft,
       MarkRequestInReview, Retry, LoadDraftContext, Send, RecordResolved, LookAtRequest,
       RecordRejected, OwnerDecides, End, SetStatus, Decidable, Decides, Record!Decide

\* A call at "record" stays, decides its draft, or ends.
LEMMA RecordLeaves ==
  ASSUME TypeOK, OwnSteps, [Next]_vars, NEW t \in Tasks, pc[t] = "record"
  PROVE  pc'[t] \in {"record", "end"}
<1>1. job[t].op = "approve"
  BY DEF OwnSteps
<1> QED
  BY <1>1
     DEF TypeOK, Next, vars, GoTo, Handles, Skip, Triage, MarkEscalated, RecordDraft,
         MarkRequestInReview, Retry, LoadDraftContext, Send, RecordResolved,
         LookAtRequest, RecordRejected, OwnerDecides, End, SetStatus

\* Only who has just read an open draft is about to send it.
LEMMA SenderComes ==
  ASSUME TypeOK, OwnSteps, [Next]_vars, NEW t \in Tasks, pc'[t] = "send", pc[t] # "send"
  PROVE  Decidable(t) /\ sent' = sent /\ \A u \in Tasks : u # t => pc'[u] = pc[u]
<1>1. LoadDraftContext(t)
  BY DEF TypeOK, Next, vars, GoTo, Skip, Triage, MarkEscalated, RecordDraft,
         MarkRequestInReview, Retry, LoadDraftContext, Send, RecordResolved,
         LookAtRequest, RecordRejected, OwnerDecides, End, SetStatus
<1> QED
  BY <1>1 DEF LoadDraftContext, GoTo, TypeOK

LEMMA SendStep ==
  /\ TypeOK /\ OwnSteps /\ SendInv /\ [Next]_vars
  /\ SendAlone /\ SendAlone' /\ SendsAreRecorded'
  => SendInv'
<1> SUFFICES ASSUME TypeOK, OwnSteps, SendInv, [Next]_vars, SendAlone, SendAlone',
                    SendsAreRecorded'
             PROVE  SendInv'
  OBVIOUS
<1>0. job' = job /\ sent \subseteq sent' /\ SenderIsFirst /\ SentIsDecided /\ SentOnce
  BY NothingIsTakenBack DEF SendInv
<1>t. \A m \in sent' : m.by \in Tasks /\ m.item \in Items
  BY ReplyTypeStep DEF TypeOK
<1>1. SenderIsFirst'
  <2> SUFFICES ASSUME NEW t \in Tasks, pc'[t] = "send", NEW m \in sent', m.item = Draft(t)
               PROVE  FALSE
    BY <1>0 DEF SenderIsFirst, Draft
  <2>1. CASE pc[t] = "send" /\ m \in sent
    BY <1>0, <2>1 DEF SenderIsFirst
  <2>2. CASE pc[t] = "send" /\ m \notin sent
    <3>1. m.by \in Tasks /\ Draft(m.by) = Draft(t) /\ pc[m.by] = "send"
      BY <2>2, NewMail
    <3>2. m.by = t
      BY <2>2, <3>1 DEF SendAlone
    <3> QED
      BY <2>2, <3>2, NewMail
  <2>3. CASE pc[t] # "send"
    <3>1. Decidable(t) /\ sent' = sent /\ \A u \in Tasks : u # t => pc'[u] = pc[u]
      BY <2>3, SenderComes
    <3>2. pc[m.by] = "record" /\ Draft(m.by) = Draft(t)
      BY <1>0, <3>1 DEF SentIsDecided, Decidable
    <3>3. m.by # t
      BY <2>3, <3>2, RecordLeaves, <1>t
    <3>4. pc'[m.by] = "record"
      BY <1>t, <3>1, <3>2, <3>3
    <3> QED
      BY <1>0, <1>t, <3>2, <3>3, <3>4 DEF SendAlone, Draft
  <2> QED
    BY <2>1, <2>2, <2>3
<1>2. SentIsDecided'
  <2> SUFFICES ASSUME NEW m \in sent', verdict'[m.item] = "PENDING"
               PROVE  pc'[m.by] = "record" /\ Draft(m.by) = m.item
    BY <1>0 DEF SentIsDecided, Draft
  <2>1. pc'[m.by] # "end"
    BY DEF SendsAreRecorded
  <2>2. CASE m \in sent
    <3>1. pc[m.by] = "record" /\ Draft(m.by) = m.item
      BY <1>0, <1>t, <2>2, DecidedStays DEF SentIsDecided
    <3> QED
      BY <1>t, <2>1, <3>1, RecordLeaves
  <2>3. CASE m \notin sent
    BY <2>1, <2>3, NewMail
  <2> QED
    BY <2>2, <2>3
<1>3. SentOnce'
  <2> SUFFICES ASSUME NEW m \in sent', NEW n \in sent', m.item = n.item PROVE m = n
    BY DEF SentOnce
  <2>1. CASE m \in sent /\ n \in sent
    BY <1>0, <2>1 DEF SentOnce
  <2>2. ASSUME NEW x \in sent', NEW y \in sent', x.item = y.item, x \notin sent
        PROVE  y = x
    <3>1. /\ x.by \in Tasks /\ x.item = Draft(x.by) /\ pc[x.by] = "send"
          /\ sent' = sent \cup {x}
      BY <2>2, NewMail
    <3> QED
      BY <1>0, <2>2, <3>1 DEF SenderIsFirst
  <2> QED
    BY <2>1, <2>2
<1> QED
  BY <1>1, <1>2, <1>3 DEF SendInv

\* A draft is sent to the customer once (resolve-reply.ts: "a no-op, not a re-send")
\* as long as approvals of one draft do not overlap, and none ends after its mail has
\* gone with the draft still open: the guard of the record, which comes after the mail,
\* stops every other repeat.
THEOREM SentOnceOtherwise == Spec /\ []SendAlone /\ []SendsAreRecorded => []SentOnce
<1>1. Init => SendInv
  BY DEF Init, SendInv, SenderIsFirst, SentIsDecided, SentOnce
<1>2. IInv => TypeOK /\ OwnSteps
  BY DEF IInv
<1>3. SendInv => SentOnce
  BY DEF SendInv
<1> QED
  BY ReplyInvariant, SendStep, <1>1, <1>2, <1>3, PTL DEF Spec

LEMMA ApprovedStep ==
  ASSUME IInv, ApprovedIsSent, [Next]_vars,
         \A t \in Tasks : job[t].op = "ownerApprove" => ~OwnerDecides(t)
  PROVE  ApprovedIsSent'
<1> SUFFICES ASSUME NEW i \in Items, verdict'[i] = "APPROVED"
             PROVE  \E m \in sent' : m.item = i
  BY DEF ApprovedIsSent
<1>0. TypeOK /\ OwnSteps /\ StepsAreDue /\ sent \subseteq sent'
  BY NothingIsTakenBack DEF IInv
<1>1. CASE verdict[i] = "APPROVED"
  BY <1>0, <1>1 DEF ApprovedIsSent
<1>2. CASE verdict[i] # "APPROVED"
  <2>1. PICK t \in Tasks : RecordResolved(t) /\ Draft(t) = i
    <3>1. ASSUME NEW t \in Tasks, RecordRejected(t) PROVE FALSE
      BY <1>0, <1>2, <3>1 DEF RecordRejected, Decides, Record!Decide, TypeOK
    <3>2. ASSUME NEW t \in Tasks, OwnerDecides(t) PROVE FALSE
      BY <1>0, <1>2, <3>2 DEF OwnerDecides, Decides, Record!Decide, TypeOK
    <3>3. ASSUME NEW t \in Tasks, RecordResolved(t) PROVE Draft(t) = i
      BY <1>0, <1>2, <3>3 DEF RecordResolved, Decides, Record!Decide, TypeOK
    <3> QED
      BY <1>2, <3>1, <3>2, <3>3
         DEF Next, vars, draftVars, Skip, Triage, MarkEscalated, RecordDraft,
             MarkRequestInReview, Retry, LoadDraftContext, Send, LookAtRequest, End,
             SetStatus
  <2> QED
    BY <1>0, <2>1 DEF RecordResolved, StepsAreDue
<1> QED
  BY <1>1, <1>2

\* An approved draft has been sent (resolve-reply.ts: "the send executes on that
\* approval") unless it was the owner who approved it.
THEOREM ApprovedIsSentOtherwise == Spec /\ OwnerApprovesNone => []ApprovedIsSent
<1>1. Init => ApprovedIsSent
  BY DEF Init, Record!Init, ApprovedIsSent
<1>2. /\ IInv /\ ApprovedIsSent /\ [Next]_vars
      /\ [\A t \in Tasks : job[t].op = "ownerApprove" => ~OwnerDecides(t)]_vars
      => ApprovedIsSent'
  <2>1. UNCHANGED vars /\ ApprovedIsSent => ApprovedIsSent'
    BY DEF vars, draftVars, ApprovedIsSent
  <2> QED
    BY <2>1, ApprovedStep
<1> QED
  BY ReplyInvariant, <1>1, <1>2, PTL DEF Spec, OwnerApprovesNone
=============================================================================
