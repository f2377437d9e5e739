--------------------------- MODULE ApprovalQueue ----------------------------
(***************************************************************************)
(* The approval queue (lib/approvals) and the instruction drafter that     *)
(* writes into the same rows (lib/plaino).  Owners approve, reject and     *)
(* edit items from several tabs and devices; an approval is followed,      *)
(* after its commit, by the artifact executor; and the drafter fills in    *)
(* the text of an instruction item whenever its language model answers.    *)
(* A third writer is the connector gate (lib/integrations/approval), which *)
(* lets the approval of a connector write lapse after a day.               *)
(*                                                                         *)
(* Every task is one call of a handler.  A transaction runs at READ        *)
(* COMMITTED: its SELECT is one step, and its UPDATE ... COMMIT another,   *)
(* for a second UPDATE of the row waits for the first one's commit and     *)
(* then evaluates its WHERE clause afresh.  Between the two, anyone may    *)
(* commit.                                                                 *)
(*                                                                         *)
(* Not modelled: the preference store behind a captured signal, tenancy    *)
(* (all tasks belong to one workspace), encryption, deletion of rows, the  *)
(* clock behind a lapse (any approval may be a day old), and what else the *)
(* connector gate does with its rows (ConnectorGate).                      *)
(***************************************************************************)
CONSTANTS Items,          \* rows of WorkApprovalQueueItem
          Instructions,   \* those of kind PLAINO_INSTRUCTION
          Writes,         \* those of kind CONNECTOR_WRITE_ACTION
          Tasks,          \* calls of the handlers
          Texts,          \* bodies a person or a model may write
          NoText, NoTask

ASSUME KindsAreItems == /\ Instructions \subseteq Items
                        /\ Writes \subseteq Items \ Instructions
ASSUME NoTextIsNoText == NoText \notin Texts
ASSUME NoTaskIsNoTask == NoTask \notin Tasks

VARIABLES row,      \* row[i]: status, who decided it, payload
          audit,    \* rows of AuditLog about the items
          signals,  \* preference signals captured from decisions and edits
          job,      \* job[t]: what task t was called to do
          pc,       \* pc[t]: how far it has got
          snap,     \* snap[t]: the payload it read, or is about to write
          seen      \* seen[t]: the text on the card its owner is looking at

vars == <<row, audit, signals, job, pc, snap, seen>>

MaybeText == Texts \cup {NoText}
Decisions == {"APPROVED", "REJECTED"}

\* body is what a card shows and an edit replaces, draft what the drafter attaches
\* (NoText while payload.status is 'drafting'), artifact what the executor stores.
\* A connector write's card shows its detail, fixed when the row is created: it is
\* not tracked, and neither is the body an edit would store next to it.
Payloads == [body : MaybeText, draft : MaybeText, artifact : SUBSET MaybeText]

Rows == [status : {"PENDING", "EXPIRED"} \cup Decisions,
         by : Tasks \cup {NoTask},
         payload : Payloads]

AuditRows == [item : Items, action : Decisions \cup {"edited"}, by : Tasks]

Signals == [item : Items, kind : {"reject", "edit"}, by : Tasks]

\* editApprove is the mobile approve call that carries an edited body; check is an
\* attempt of a connector write that presents its approval.
Jobs ==
  {j \in [op : {"approve", "reject", "edit", "editApprove", "draft", "check"},
          item : Items, text : MaybeText] :
     /\ j.op \in {"approve", "reject", "check"} => j.text = NoText
     /\ j.op \in {"edit", "editApprove", "draft"} => j.text \in Texts
     /\ j.op = "draft" => j.item \in Instructions
     /\ j.op = "check" => j.item \in Writes}

PCs == {"idle", "view", "decide", "dispatch", "store", "edit", "signal",
        "llm", "attach", "expire", "end"}

TypeOK == /\ row \in [Items -> Rows]
          /\ audit \in SUBSET AuditRows
          /\ signals \in SUBSET Signals
          /\ job \in [Tasks -> Jobs]
          /\ pc \in [Tasks -> PCs]
          /\ snap \in [Tasks -> Payloads]
          /\ seen \in [Tasks -> MaybeText]

NoPayload == [body |-> NoText, draft |-> NoText, artifact |-> {}]

\* The text renderApprovalPayload shows: an instruction's card shows
\* draftBody, a reply's card body.
Rendered(i, p) == IF i \in Instructions THEN p.draft ELSE p.body

Pending(i) == row[i].status = "PENDING"
Item(t)    == job[t].item

\* What was decided of the row.  Only an approval expires, and an artifact of it
\* "stays valid regardless of any later status change" (dispatch.ts:114).
Decided(i)  == IF row[i].status = "EXPIRED" THEN "APPROVED" ELSE row[i].status
Approved(i) == Decided(i) = "APPROVED"

Init ==
  /\ row \in [Items -> [status : {"PENDING"}, by : {NoTask}, payload : Payloads]]
  /\ \A i \in Items :
       /\ row[i].payload.draft = NoText
       /\ row[i].payload.artifact = {}
       /\ row[i].payload.body = NoText <=> i \in Instructions \cup Writes
  /\ audit = {} /\ signals = {}
  /\ job \in [Tasks -> Jobs]
  /\ pc = [t \in Tasks |-> "idle"]
  /\ snap = [t \in Tasks |-> NoPayload]
  /\ seen = [t \in Tasks |-> NoText]

-----------------------------------------------------------------------------
GoTo(t, l) == pc' = [pc EXCEPT ![t] = l]

Audit(t, action) ==
  audit' = audit \cup {[item |-> Item(t), action |-> action, by |-> t]}

WritePayload(t) == row' = [row EXCEPT ![Item(t)].payload = snap[t]]

\* The owner opens /approvals and reads the card.
View(t) ==
  /\ pc[t] = "idle" /\ job[t].op \in {"approve", "reject"}
  /\ seen' = [seen EXCEPT ![t] = Rendered(Item(t), row[Item(t)].payload)]
  /\ GoTo(t, "view")
  /\ UNCHANGED <<row, audit, signals, job, snap>>

\* Fault: a refused reject still captures its reason.
RefuseWithSignal(t) ==
  /\ \/ pc[t] \in {"view", "decide", "edit"}
     \/ pc[t] = "idle" /\ job[t].op \in {"edit", "editApprove"}
  /\ ~Pending(Item(t))
  /\ GoTo(t, IF job[t].op = "reject" THEN "signal" ELSE "end")
  /\ UNCHANGED <<row, audit, signals, job, snap, seen>>

\* ALREADY_DECIDED, from the findFirst or from the update that matched no row.
Refuse(t) ==
  /\ \/ pc[t] \in {"view", "decide", "edit"}
     \/ pc[t] = "idle" /\ job[t].op \in {"edit", "editApprove"}
  /\ ~Pending(Item(t))
  /\ GoTo(t, "end")
  /\ UNCHANGED <<row, audit, signals, job, snap, seen>>

FindForDecision(t) ==
  /\ pc[t] = "view" /\ Pending(Item(t))
  /\ snap' = [snap EXCEPT ![t] = row[Item(t)].payload]
  /\ GoTo(t, "decide")
  /\ UNCHANGED <<row, audit, signals, job, seen>>

\* Fault: the name of the call is written where the status belongs.
VerdictIsOp(t) == job[t].op

Verdict(t) == IF job[t].op = "reject" THEN "REJECTED" ELSE "APPROVED"

\* Fault: executors are dispatched whatever the verdict.
DispatchAlways(t) == {"dispatch"}

\* A reject may come with a reason.
AfterDecision(t) ==
  IF Verdict(t) = "APPROVED" THEN {"dispatch"} ELSE {"signal", "end"}

\* Fault: the status check of the findFirst is trusted; the update names the id.
ReadThenWriteDecision(t) ==
  /\ pc[t] = "decide"
  /\ row' = [row EXCEPT ![Item(t)].status = Verdict(t), ![Item(t)].by = t]
  /\ Audit(t, Verdict(t))
  /\ \E l \in AfterDecision(t) : GoTo(t, l)
  /\ UNCHANGED <<signals, job, snap, seen>>

\* Fault: the surface flips the status itself and leaves no audit row.
UnauditedDecision(t) ==
  /\ pc[t] = "decide" /\ Pending(Item(t))
  /\ row' = [row EXCEPT ![Item(t)].status = Verdict(t), ![Item(t)].by = t]
  /\ \E l \in AfterDecision(t) : GoTo(t, l)
  /\ UNCHANGED <<audit, signals, job, snap, seen>>

ApplyApprovalDecision(t) ==
  /\ pc[t] = "decide" /\ Pending(Item(t))
  /\ row' = [row EXCEPT ![Item(t)].status = Verdict(t), ![Item(t)].by = t]
  /\ Audit(t, Verdict(t))
  /\ \E l \in AfterDecision(t) : GoTo(t, l)
  /\ UNCHANGED <<signals, job, snap, seen>>

\* The artifact is rendered from the payload the decision's findFirst saw;
\* writeKey merges it into the payload it reads itself.
FindForWriteKey(t) ==
  /\ pc[t] = "dispatch"
  /\ snap' = [snap EXCEPT ![t] =
       [row[Item(t)].payload EXCEPT !.artifact = {Rendered(Item(t), snap[t])}]]
  /\ GoTo(t, "store")
  /\ UNCHANGED <<row, audit, signals, job, seen>>

WriteKey(t) ==
  /\ pc[t] = "store"
  /\ WritePayload(t)
  /\ GoTo(t, "end")
  /\ UNCHANGED <<audit, signals, job, snap, seen>>

FindForEdit(t) ==
  /\ pc[t] = "idle" /\ job[t].op \in {"edit", "editApprove"} /\ Pending(Item(t))
  /\ snap' = [snap EXCEPT ![t] =
       [row[Item(t)].payload EXCEPT !.body = IF Item(t) \in Writes THEN @ ELSE job[t].text]]
  /\ GoTo(t, "edit")
  /\ UNCHANGED <<row, audit, signals, job, seen>>

\* Fault: the update of an edit names the id and not the status.
ReadThenWriteEdit(t) ==
  /\ pc[t] = "edit"
  /\ WritePayload(t)
  /\ Audit(t, "edited")
  /\ GoTo(t, "signal")
  /\ UNCHANGED <<signals, job, snap, seen>>

EditApprovalDraft(t) ==
  /\ pc[t] = "edit" /\ Pending(Item(t))
  /\ WritePayload(t)
  /\ Audit(t, "edited")
  /\ GoTo(t, "signal")
  /\ UNCHANGED <<signals, job, snap, seen>>

\* A failure to store a signal is swallowed.
Capture(t, kind) ==
  signals' \in {signals, signals \cup {[item |-> Item(t), kind |-> kind, by |-> t]}}

CaptureRejectSignal(t) ==
  /\ pc[t] = "signal" /\ job[t].op = "reject"
  /\ Capture(t, "reject")
  /\ GoTo(t, "end")
  /\ UNCHANGED <<row, audit, job, snap, seen>>

\* The mobile call goes on to decide what it has edited.
CaptureEditSignal(t) ==
  /\ pc[t] = "signal" /\ job[t].op \in {"edit", "editApprove"}
  /\ Capture(t, "edit")
  /\ IF job[t].op = "editApprove"
     THEN GoTo(t, "view") /\ seen' = [seen EXCEPT ![t] = job[t].text]
     ELSE GoTo(t, "end") /\ UNCHANGED seen
  /\ UNCHANGED <<row, audit, job, snap>>

-----------------------------------------------------------------------------
(* The instruction drafter, called once per instruction.created event and  *)
(* again when Inngest retries it.                                          *)

ReadForDrafting(t) ==
  /\ pc[t] = "idle" /\ job[t].op = "draft"
  /\ GoTo(t, IF row[Item(t)].payload.draft = NoText THEN "llm" ELSE "end")
  /\ UNCHANGED <<row, audit, signals, job, snap, seen>>

FindForAttach(t) ==
  /\ pc[t] = "llm"
  /\ snap' = [snap EXCEPT ![t] = [row[Item(t)].payload EXCEPT !.draft = job[t].text]]
  /\ GoTo(t, "attach")
  /\ UNCHANGED <<row, audit, signals, job, seen>>

\* The update names the row's id and nothing else.
AttachDraft(t) ==
  /\ pc[t] = "attach"
  /\ WritePayload(t)
  /\ GoTo(t, "end")
  /\ UNCHANGED <<audit, signals, job, snap, seen>>

-----------------------------------------------------------------------------
(* The connector gate, called when a write is attempted with its approval.  *)

FindExpired(t) ==
  /\ pc[t] = "idle" /\ job[t].op = "check" /\ row[Item(t)].status = "APPROVED"
  /\ GoTo(t, "expire")
  /\ UNCHANGED <<row, audit, signals, job, snap, seen>>

\* The update names the row's id and nothing else, and leaves no audit row.
Expire(t) ==
  /\ pc[t] = "expire"
  /\ row' = [row EXCEPT ![Item(t)].status = "EXPIRED"]
  /\ GoTo(t, "end")
  /\ UNCHANGED <<audit, signals, job, snap, seen>>

\* The serverless instance dies, the model fails, or an executor throws and is
\* swallowed: what was committed stays, and nothing more happens.
Abandon(t) ==
  /\ pc[t] \notin {"idle", "end"}
  /\ GoTo(t, "end")
  /\ UNCHANGED <<row, audit, signals, job, snap, seen>>

Step(t) == \/ View(t) \/ Refuse(t)
           \/ FindForDecision(t) \/ ApplyApprovalDecision(t)
           \/ FindForWriteKey(t) \/ WriteKey(t)
           \/ FindForEdit(t) \/ EditApprovalDraft(t)
           \/ CaptureRejectSignal(t) \/ CaptureEditSignal(t)
           \/ ReadForDrafting(t) \/ FindForAttach(t) \/ AttachDraft(t)
           \/ FindExpired(t) \/ Expire(t)
           \/ Abandon(t)

Next == \E t \in Tasks : Step(t)

Spec == Init /\ [][Next]_vars

-----------------------------------------------------------------------------
(* What the queue guarantees however the calls interleave.                  *)

DecisionRows(i) == {a \in audit : a.item = i /\ a.action \in Decisions}

\* Every item out of PENDING has exactly one decision row in the audit log, and
\* that row carries what was decided and by whom; a PENDING item has none (the
\* conditional updateMany of applyApprovalDecisionTx).  A lapse, which writes no
\* audit row, only ever follows an approval.
DecidedOnce ==
  \A i \in Items :
    DecisionRows(i) =
      IF Pending(i) THEN {}
      ELSE {[item |-> i, action |-> Decided(i), by |-> row[i].by]}

\* Only the call whose own update approved the item gets as far as the
\* executors, so no two calls ever execute one item (decideApproval dispatches
\* after the commit and a losing call throws first).
OneExecutor ==
  \A t \in Tasks : pc[t] \in {"dispatch", "store"} =>
    Approved(Item(t)) /\ row[Item(t)].by = t

\* An artifact hangs only on a row that was approved, and the audit log names who
\* approved it (dispatch runs for APPROVED, after the commit of the audit row).
\* The row may have EXPIRED since, before the artifact was stored or after
\* (approval-gate-prisma.ts:112, dispatch.ts:113); it is never PENDING or REJECTED.
ArtifactOfApproved ==
  \A i \in Items : row[i].payload.artifact # {} =>
    /\ row[i].status \in {"APPROVED", "EXPIRED"}
    /\ [item |-> i, action |-> "APPROVED", by |-> row[i].by] \in audit

\* A preference signal records something that happened: a reject signal the
\* rejection that stands, an edit signal an edit in the audit log (signals are
\* captured after the commit of decideApproval and editApprovalDraft).
SignalsAreEarned ==
  \A s \in signals :
    IF s.kind = "reject"
    THEN row[s.item].status = "REJECTED" /\ row[s.item].by = s.by
    ELSE [item |-> s.item, action |-> "edited", by |-> s.by] \in audit

\* The text of a decided reply or connector write never changes again, whatever
\* edit was under way when it was decided (the conditional update of
\* editApprovalDraft), and whether or not the approval lapses.
DecidedTextFrozen ==
  [][\A i \in Items \ Instructions : ~Pending(i) =>
       Rendered(i, row'[i].payload) = Rendered(i, row[i].payload)]_vars

\* An artifact stored on a reply or connector write is never lost or replaced
\* (writeKey merges, and edits stop at the decision).
ArtifactKept ==
  [][\A i \in Items \ Instructions : row[i].payload.artifact # {} =>
       row'[i].payload.artifact = row[i].payload.artifact]_vars

\* The queue implements the approval record: one verdict, one piece of evidence.
Record == INSTANCE ApprovalRecord WITH
            verdict  <- [i \in Items |-> Decided(i)],
            evidence <- {a \in audit : a.action \in Decisions}
ImplementsRecord == Record!Spec

\* The queue keeps the standing promise (ApprovedFirst): a reply or connector write
\* is done, as far as the queue is concerned, when its artifact is stored.
Replies == Items \ Instructions
Promise == INSTANCE ApprovedFirst WITH
             Deeds    <- Replies,
             approved <- {i \in Replies : Approved(i)},
             done     <- {i \in Replies : row[i].payload.artifact # {}}
KeepsPromise == Promise!Spec

-----------------------------------------------------------------------------
(* What makes the guarantees above inductive (ApprovalQueueProofs).         *)

\* A call only reaches the steps of its own handler.
OwnSteps ==
  \A t \in Tasks : /\ pc[t] \in {"llm", "attach"} => job[t].op = "draft"
                   /\ pc[t] = "edit" => job[t].op \in {"edit", "editApprove"}
                   /\ pc[t] = "expire" => job[t].op = "check"

\* Who has found an approval lapsed finds the row still approved: nothing is written
\* over an approval but its lapse.
LapseIsDue == \A t \in Tasks : pc[t] = "expire" => Approved(Item(t))

\* A payload read by an editor or a drafter carries an artifact only if the row
\* was approved before it was read, and only a lapse is written over an approval.
SnapOfApproved ==
  \A t \in Tasks : pc[t] \in {"edit", "attach"} /\ snap[t].artifact # {} =>
    Approved(Item(t))

\* A reply being executed has no artifact yet, and the payload about to be
\* stored still has the row's text.
StoreIsFresh ==
  \A t \in Tasks : Item(t) \notin Instructions =>
    /\ pc[t] \in {"dispatch", "store"} => row[Item(t)].payload.artifact = {}
    /\ pc[t] = "store" => snap[t].body = row[Item(t)].payload.body

\* A call about to capture a signal has committed what the signal is about.
SignalIsDue ==
  \A t \in Tasks : pc[t] = "signal" =>
    IF job[t].op = "reject"
    THEN row[Item(t)].status = "REJECTED" /\ row[Item(t)].by = t
    ELSE [item |-> Item(t), action |-> "edited", by |-> t] \in audit

IInv == /\ TypeOK /\ OwnSteps /\ LapseIsDue
        /\ DecidedOnce /\ OneExecutor
        /\ SnapOfApproved /\ ArtifactOfApproved /\ StoreIsFresh
        /\ SignalIsDue /\ SignalsAreEarned

-----------------------------------------------------------------------------
(* What the comments promise and the code does not keep.                    *)

\* Nothing is executed that is "text the human never saw" (decisions.ts:89): the
\* artifact is the text on the card its approver had open.
ArtifactIsSeen ==
  \A i \in Items \ Instructions : row[i].payload.artifact # {} =>
    row[i].payload.artifact = {seen[row[i].by]}

\* What it takes of an item: that no edit of it commits.
NeverEdited(i) == [][\A t \in Tasks : Item(t) = i => ~EditApprovalDraft(t)]_vars

\* No text changes "after the human authorized it, which is the one thing an
\* approval record must never allow" (decisions.ts:364), instructions included.
ApprovedTextFrozen ==
  [][\A i \in Items : Approved(i) =>
       Rendered(i, row'[i].payload) = Rendered(i, row[i].payload)]_vars

\* Storing an artifact never empties the card: "MERGE, never replace. The
\* skill's own fields are what the renderer reads; clobbering them would empty
\* the card" (dispatch.ts:109).
ArtifactWriteKeepsDraft ==
  [][\A t \in Tasks : WriteKey(t) /\ row[Item(t)].payload.draft # NoText =>
       row'[Item(t)].payload.draft # NoText]_vars
=============================================================================
