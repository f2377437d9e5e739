------------------------- MODULE ApprovalQueueProofs -------------------------
(***************************************************************************)
(* What holds of the approval queue for any number of items, calls and     *)
(* texts.                                                                  *)
(***************************************************************************)
EXTENDS ApprovalQueue, TLAPS

LEMMA TypeInit == Init => TypeOK
BY DEF Init, TypeOK, Rows, Payloads, PCs, NoPayload, MaybeText

\* A step of any handler of lib/approvals, or of the drafter, keeps the types.
LEMMA TypeStep == TypeOK /\ [Next]_vars => TypeOK'
<1> SUFFICES ASSUME TypeOK, [Next]_vars PROVE TypeOK'
  OBVIOUS
<1>1. CASE UNCHANGED vars
  BY <1>1 DEF vars, TypeOK
<1>2. CASE Next
  <2>1. PICK t \in Tasks : Step(t)
    BY <1>2 DEF Next
  <2> USE DEF TypeOK, GoTo, PCs, Item
  <2>2. job[t] \in Jobs /\ job[t].item \in Items /\ job[t].text \in MaybeText
    BY DEF Jobs
  <2> DEFINE p == row[Item(t)].payload
  <2>3. p \in Payloads /\ snap[t] \in Payloads
    BY <2>2 DEF Rows
  <2>4. Rendered(Item(t), p) \in MaybeText /\ Rendered(Item(t), snap[t]) \in MaybeText
    BY <2>3 DEF Rendered, Payloads
  <2>5. CASE View(t)
    BY <2>4, <2>5 DEF View
  <2>6. CASE Refuse(t)
    BY <2>6 DEF Refuse
  <2>7. CASE FindForDecision(t)
    BY <2>3, <2>7 DEF FindForDecision
  <2>8. CASE ApplyApprovalDecision(t)
    <3>1. row' \in [Items -> Rows]
      BY <2>2, <2>8 DEF ApplyApprovalDecision, Rows, Verdict, Decisions
    <3>2. audit' \in SUBSET AuditRows
      BY <2>2, <2>8 DEF ApplyApprovalDecision, Audit, AuditRows, Verdict, Decisions
    <3> QED
      BY <2>8, <3>1, <3>2 DEF ApplyApprovalDecision, AfterDecision
  <2>9. CASE FindForWriteKey(t)
    <3>1. [p EXCEPT !.artifact = {Rendered(Item(t), snap[t])}] \in Payloads
      BY <2>3, <2>4 DEF Payloads
    <3> QED
      BY <2>9, <3>1 DEF FindForWriteKey
  <2>10. ASSUME WritePayload(t) PROVE row' \in [Items -> Rows]
    BY <2>2, <2>3, <2>10 DEF WritePayload, Rows
  <2>11. CASE WriteKey(t)
    BY <2>10, <2>11 DEF WriteKey
  <2>12. CASE FindForEdit(t)
    <3> DEFINE b == IF Item(t) \in Writes THEN p.body ELSE job[t].text
    <3>1. b \in MaybeText
      BY <2>2, <2>3 DEF Payloads
    <3>2. [p EXCEPT !.body = b] \in Payloads
      BY <2>3, <3>1 DEF Payloads
    <3>3. snap' = [snap EXCEPT ![t] = [p EXCEPT !.body = b]]
      BY <2>3, <2>12 DEF FindForEdit, Payloads
    <3> QED
      BY <2>12, <3>2, <3>3 DEF FindForEdit
  <2>13. CASE EditApprovalDraft(t)
    BY <2>2, <2>10, <2>13 DEF EditApprovalDraft, Audit, AuditRows
  <2>14. CASE CaptureRejectSignal(t) \/ CaptureEditSignal(t)
    BY <2>2, <2>14 DEF CaptureRejectSignal, CaptureEditSignal, Capture, Signals
  <2>15. CASE ReadForDrafting(t)
    BY <2>15 DEF ReadForDrafting
  <2>16. CASE FindForAttach(t)
    <3>1. [p EXCEPT !.draft = job[t].text] \in Payloads
      BY <2>2, <2>3 DEF Payloads
    <3> QED
      BY <2>16, <3>1 DEF FindForAttach
  <2>17. CASE AttachDraft(t)
    BY <2>10, <2>17 DEF AttachDraft
  <2>18. CASE FindExpired(t) \/ Abandon(t)
    BY <2>18 DEF FindExpired, Abandon
  <2>19. CASE Expire(t)
    BY <2>2, <2>19 DEF Expire, Rows
  <2> QED
    BY <2>1, <2>5, <2>6, <2>7, <2>8, <2>9, <2>11, <2>12, <2>13, <2>14,
       <2>15, <2>16, <2>17, <2>18, <2>19 DEF Step
<1> QED
  BY <1>1, <1>2

\* Every variable keeps its type: rows, audit rows, signals and the calls'
\* own state stay within what the handlers of lib/approvals write.
THEOREM TypeCorrect == Spec => []TypeOK
BY TypeInit, TypeStep, PTL DEF Spec

-----------------------------------------------------------------------------
(* The inductive invariant.                                                 *)

LEMMA InvInit == Init => IInv
BY TypeInit DEF Init, IInv, OwnSteps, DecidedOnce, DecisionRows, Pending,
   OneExecutor, SnapOfApproved, ArtifactOfApproved, StoreIsFresh, SignalIsDue,
   SignalsAreEarned, Item, NoPayload, LapseIsDue, Decided, Approved

\* Once approved, a row stays approved by the same call: a decision needs a PENDING
\* row, and a lapse is no other decision.
LEMMA ApprovalStands ==
  ASSUME TypeOK, LapseIsDue, [Next]_vars, NEW i \in Items, Approved(i)
  PROVE  Approved(i)' /\ row'[i].by = row[i].by
<1> DEFINE Stands == Approved(i)' /\ row'[i].by = row[i].by
<1>1. ASSUME NEW t \in Tasks, ApplyApprovalDecision(t) PROVE Stands
  <2>1. Item(t) # i
    BY <1>1 DEF ApplyApprovalDecision, Pending, Approved, Decided
  <2>2. row'[i] = row[i]
    BY <1>1, <2>1 DEF ApplyApprovalDecision, TypeOK
  <2> QED
    BY <2>2 DEF Approved, Decided
<1>2. ASSUME NEW t \in Tasks, WritePayload(t) PROVE Stands
  <2>1. row'[i].status = row[i].status /\ row'[i].by = row[i].by
    BY <1>2 DEF WritePayload, TypeOK, Rows
  <2> QED
    BY <2>1 DEF Approved, Decided
<1>3. ASSUME NEW t \in Tasks, Expire(t) PROVE Stands
  <2>1. /\ row'[i].by = row[i].by
        /\ row'[i].status \in {row[i].status, "EXPIRED"}
    BY <1>3 DEF Expire, TypeOK, Rows
  <2> QED
    BY <2>1 DEF Approved, Decided
<1>4. CASE row' = row
  BY <1>4 DEF Approved, Decided
<1> QED
  BY <1>1, <1>2, <1>3, <1>4
     DEF Next, Step, View, Refuse, FindForDecision, FindForWriteKey, WriteKey, FindForEdit,
         EditApprovalDraft, CaptureRejectSignal, CaptureEditSignal, ReadForDrafting,
         FindForAttach, AttachDraft, FindExpired, Abandon, vars

\* An artifact appears on approved rows only, and their decision row is there.
LEMMA ArtifactStep ==
  ASSUME TypeOK, LapseIsDue, DecidedOnce, OneExecutor, SnapOfApproved,
         ArtifactOfApproved, [Next]_vars
  PROVE  ArtifactOfApproved'
<1> SUFFICES ASSUME NEW i \in Items, row'[i].payload.artifact # {}
             PROVE  /\ row'[i].status \in {"APPROVED", "EXPIRED"}
                    /\ [item |-> i, action |-> "APPROVED", by |-> row'[i].by] \in audit'
  BY DEF ArtifactOfApproved
<1>1. audit \subseteq audit'
  BY DEF Next, Step, View, Refuse, FindForDecision, ApplyApprovalDecision, FindForWriteKey,
         WriteKey, FindForEdit, EditApprovalDraft, CaptureRejectSignal, CaptureEditSignal,
         ReadForDrafting, FindForAttach, AttachDraft, FindExpired, Expire, Abandon, Audit,
         vars
<1>2. CASE Approved(i)
  <2>1. Approved(i)' /\ row'[i].by = row[i].by
    BY <1>2, ApprovalStands
  <2>2. row'[i].status \in {"APPROVED", "EXPIRED"}
    BY <2>1 DEF Approved, Decided
  <2>3. [item |-> i, action |-> "APPROVED", by |-> row[i].by] \in audit
    BY <1>2 DEF DecidedOnce, DecisionRows, Pending, Approved, Decided
  <2> QED
    BY <1>1, <2>1, <2>2, <2>3
<1>3. CASE ~Approved(i)
  <2>1. row[i].payload.artifact = {}
    BY <1>3 DEF ArtifactOfApproved, Approved, Decided
  <2>2. ASSUME NEW t \in Tasks, WritePayload(t), pc[t] \in {"store", "edit", "attach"}
        PROVE  FALSE
    <3>1. CASE Item(t) = i
      <4>1. row'[i].payload = snap[t]
        BY <2>2, <3>1 DEF WritePayload, TypeOK, Rows
      <4> QED
        BY <1>3, <2>2, <3>1, <4>1 DEF OneExecutor, SnapOfApproved
    <3>2. CASE Item(t) # i
      <4>1. row'[i] = row[i]
        BY <2>2, <3>2 DEF WritePayload, TypeOK
      <4> QED
        BY <2>1, <4>1
    <3> QED
      BY <3>1, <3>2
  <2>3. ASSUME NEW t \in Tasks, ApplyApprovalDecision(t) \/ Expire(t) PROVE FALSE
    <3>1. row'[i].payload = row[i].payload
      BY <2>3 DEF ApplyApprovalDecision, Expire, TypeOK, Rows
    <3> QED
      BY <2>1, <3>1
  <2>4. CASE row' = row
    BY <2>1, <2>4
  <2> QED
    BY <2>2, <2>3, <2>4
       DEF Next, Step, View, Refuse, FindForDecision, FindForWriteKey, WriteKey,
           FindForEdit, EditApprovalDraft, CaptureRejectSignal, CaptureEditSignal,
           ReadForDrafting, FindForAttach, AttachDraft, FindExpired, Abandon, vars
<1> QED
  BY <1>2, <1>3

\* Who reads a payload with an artifact reads it off an approved row.
LEMMA SnapStep ==
  ASSUME TypeOK, LapseIsDue, SnapOfApproved, ArtifactOfApproved, [Next]_vars
  PROVE  SnapOfApproved'
<1> SUFFICES ASSUME NEW q \in Tasks, pc'[q] \in {"edit", "attach"},
                    snap'[q].artifact # {}
             PROVE  Approved(Item(q))'
  BY DEF SnapOfApproved
<1>1. job' = job /\ Item(q) \in Items
  BY DEF TypeOK, Jobs, Item, Next, Step, View, Refuse, FindForDecision,
         ApplyApprovalDecision, FindForWriteKey, WriteKey, FindForEdit,
         EditApprovalDraft, CaptureRejectSignal, CaptureEditSignal, ReadForDrafting,
         FindForAttach, AttachDraft, FindExpired, Expire, Abandon, vars
<1>2. ASSUME Approved(Item(q)) PROVE Approved(Item(q))'
  <2>1. PICK i \in Items : i = Item(q)
    BY <1>1
  <2>2. Item(q)' = i
    BY <1>1, <2>1 DEF Item
  <2>3. Approved(i)'
    BY <1>2, <2>1, ApprovalStands
  <2> QED
    BY <2>2, <2>3 DEF Approved, Decided
<1>3. CASE pc[q] \in {"edit", "attach"} /\ snap'[q] = snap[q]
  BY <1>2, <1>3 DEF SnapOfApproved
<1>4. CASE FindForEdit(q) \/ FindForAttach(q)
  <2>1. snap'[q].artifact = row[Item(q)].payload.artifact
    BY <1>1, <1>4 DEF FindForEdit, FindForAttach, TypeOK, Rows, Payloads
  <2> QED
    BY <1>1, <1>2, <2>1 DEF ArtifactOfApproved, Approved, Decided
<1>5. ASSUME NEW t \in Tasks, Step(t), t # q
      PROVE  pc'[q] = pc[q] /\ snap'[q] = snap[q]
  BY <1>5 DEF TypeOK, Step, View, Refuse, FindForDecision,
         ApplyApprovalDecision, FindForWriteKey, WriteKey, FindForEdit,
         EditApprovalDraft, CaptureRejectSignal, CaptureEditSignal, ReadForDrafting,
         FindForAttach, AttachDraft, FindExpired, Expire, Abandon, GoTo
<1>6. ASSUME Step(q) PROVE FindForEdit(q) \/ FindForAttach(q)
  BY <1>6 DEF TypeOK, Step, View, Refuse, FindForDecision,
         ApplyApprovalDecision, AfterDecision, FindForWriteKey, WriteKey,
         EditApprovalDraft, CaptureRejectSignal, CaptureEditSignal, ReadForDrafting,
         AttachDraft, FindExpired, Expire, Abandon, GoTo
<1>7. CASE UNCHANGED vars
  BY <1>3, <1>7 DEF vars
<1> QED
  BY <1>3, <1>4, <1>5, <1>6, <1>7 DEF Next

\* Every step keeps all of IInv: the conditional update decides an item once,
\* and no later write takes back what the earlier ones established.
LEMMA InvStep == IInv /\ [Next]_vars => IInv'
<1> SUFFICES ASSUME IInv, [Next]_vars PROVE IInv'
  OBVIOUS
<1>1. TypeOK /\ TypeOK'
  BY TypeStep DEF IInv
<1>2. CASE UNCHANGED vars
  BY <1>1, <1>2 DEF vars, IInv, OwnSteps, DecidedOnce, DecisionRows, Pending,
     OneExecutor, SnapOfApproved, ArtifactOfApproved, StoreIsFresh,
     SignalIsDue, SignalsAreEarned, Item, LapseIsDue, Decided, Approved
<1>3. CASE Next
  <2>1. PICK t \in Tasks : Step(t)
    BY <1>3 DEF Next
  <2> USE <1>1 DEF TypeOK, GoTo, Item, Pending, IInv, OwnSteps, DecidedOnce,
     DecisionRows, OneExecutor, StoreIsFresh, SignalIsDue, SignalsAreEarned, Rows,
     Payloads, Jobs, LapseIsDue
  <2>0. \A i \in Items : Approved(i) => Approved(i)' /\ row'[i].by = row[i].by
    BY ApprovalStands
  <2>01. ArtifactOfApproved' /\ SnapOfApproved'
    BY ArtifactStep, SnapStep DEF IInv
  <2>2. CASE View(t)
    BY <2>01, <2>2 DEF View, Approved, Decided
  <2>3. CASE Refuse(t)
    BY <2>01, <2>3 DEF Refuse, Approved, Decided
  <2>4. CASE FindForDecision(t)
    BY <2>01, <2>4 DEF FindForDecision, Approved, Decided
  <2>5. CASE ApplyApprovalDecision(t)
    <3> USE <2>5 DEF ApplyApprovalDecision
    <3>1. OwnSteps'
      BY DEF Audit, Verdict, AfterDecision, Decisions
    <3>2. DecidedOnce'
      BY DEF Audit, Verdict, Decided, Decisions
    <3>0. /\ Verdict(t) = "APPROVED" => Approved(Item(t))'
          /\ \A i \in Items : i # Item(t) => row'[i] = row[i]
          /\ \A i \in Items : row'[i].payload = row[i].payload
          /\ row'[Item(t)].by = t /\ row[Item(t)].status = "PENDING"
      BY DEF Verdict, Approved, Decided
    <3>3. OneExecutor'
      BY <2>0, <3>0 DEF AfterDecision
    <3>4. SnapOfApproved'
      BY <2>01
    <3>5. ArtifactOfApproved'
      BY <2>01
    <3>6. StoreIsFresh'
      <4>1. /\ \A q \in Tasks : q # t => pc'[q] = pc[q]
            /\ pc'[t] \in {"dispatch", "signal", "end"}
            /\ snap' = snap /\ job' = job
        BY DEF AfterDecision
      <4>2. row[Item(t)].payload.artifact = {}
        BY <3>0 DEF ArtifactOfApproved
      <4> QED
        BY <3>0, <4>1, <4>2
    <3>7. SignalIsDue'
      BY DEF Audit, Verdict, AfterDecision, Decisions
    <3>8. SignalsAreEarned'
      <4> SUFFICES ASSUME NEW s \in signals'
                   PROVE  IF s.kind = "reject"
                          THEN row'[s.item].status = "REJECTED" /\ row'[s.item].by = s.by
                          ELSE [item |-> s.item, action |-> "edited", by |-> s.by] \in audit'
        OBVIOUS
      <4>1. s \in signals /\ s.item \in Items
        BY DEF Signals
      <4> QED
        BY <4>1 DEF Audit, Verdict, AfterDecision, Decisions
    <3>9. LapseIsDue'
      BY <2>0 DEF AfterDecision
    <3> QED
      BY <3>1, <3>2, <3>3, <3>4, <3>5, <3>6, <3>7, <3>8, <3>9
  <2>6. CASE FindForWriteKey(t)
    BY <2>01, <2>6 DEF FindForWriteKey, Approved, Decided
  <2>7. CASE WriteKey(t)
    <3> USE <2>7 DEF WriteKey, WritePayload
    <3>1. OwnSteps'
      OBVIOUS
    <3>2. LapseIsDue'
      BY <2>0
    <3>3. DecidedOnce'
      BY DEF Decided, Approved
    <3>4. OneExecutor'
      BY <2>0
    <3>5. SnapOfApproved'
      BY <2>01
    <3>6. ArtifactOfApproved'
      BY <2>01
    <3>7. StoreIsFresh'
      OBVIOUS
    <3>8. SignalIsDue'
      BY DEF Approved, Decided
    <3>9. SignalsAreEarned'
      <4> SUFFICES ASSUME NEW s \in signals
                   PROVE  IF s.kind = "reject"
                          THEN row'[s.item].status = "REJECTED" /\ row'[s.item].by = s.by
                          ELSE [item |-> s.item, action |-> "edited", by |-> s.by] \in audit
        OBVIOUS
      <4>1. s.item \in Items
        BY DEF Signals
      <4> QED
        BY <4>1 DEF Approved, Decided
    <3> QED
      BY <3>1, <3>2, <3>3, <3>4, <3>5, <3>6, <3>7, <3>8, <3>9
  <2>8. CASE FindForEdit(t)
    <3> USE <2>8 DEF FindForEdit
    <3>1. OwnSteps'
      OBVIOUS
    <3>2. LapseIsDue'
      BY <2>0
    <3>3. DecidedOnce'
      BY DEF Decided
    <3>4. OneExecutor'
      BY <2>0
    <3>5. StoreIsFresh'
      OBVIOUS
    <3>6. SignalIsDue'
      OBVIOUS
    <3>7. SignalsAreEarned'
      OBVIOUS
    <3> QED
      BY <2>01, <3>1, <3>2, <3>3, <3>4, <3>5, <3>6, <3>7
  <2>9. CASE EditApprovalDraft(t)
    <3> USE <2>9 DEF EditApprovalDraft
    <3>1. OwnSteps'
      BY DEF WritePayload, Audit, Decisions
    <3>2. DecidedOnce'
      BY DEF WritePayload, Audit, Decisions, Decided
    <3>3. OneExecutor'
      BY <2>0
    <3>4. SnapOfApproved'
      BY <2>01
    <3>5. ArtifactOfApproved'
      BY <2>01
    <3>6. StoreIsFresh'
      BY DEF WritePayload, Approved, Decided
    <3>7. SignalIsDue'
      BY DEF WritePayload, Audit, Decisions
    <3>8. SignalsAreEarned'
      <4> SUFFICES ASSUME NEW s \in signals'
                   PROVE  IF s.kind = "reject"
                          THEN row'[s.item].status = "REJECTED" /\ row'[s.item].by = s.by
                          ELSE [item |-> s.item, action |-> "edited", by |-> s.by] \in audit'
        OBVIOUS
      <4>1. s \in signals /\ s.item \in Items
        BY DEF Signals
      <4> QED
        BY <4>1 DEF WritePayload, Audit, Decisions
    <3>9. LapseIsDue'
      BY <2>0 DEF AfterDecision
    <3> QED
      BY <3>1, <3>2, <3>3, <3>4, <3>5, <3>6, <3>7, <3>8, <3>9
  <2>10. CASE CaptureRejectSignal(t) \/ CaptureEditSignal(t)
    <3> USE <2>10 DEF CaptureRejectSignal, CaptureEditSignal, Capture
    <3>1. OwnSteps'
      OBVIOUS
    <3>2. DecidedOnce'
      BY DEF Decided
    <3>3. OneExecutor'
      BY <2>0
    <3>4. SnapOfApproved'
      BY <2>01
    <3>5. ArtifactOfApproved'
      BY <2>01
    <3>6. StoreIsFresh'
      OBVIOUS
    <3>7. SignalIsDue'
      OBVIOUS
    <3>8. SignalsAreEarned'
      <4> SUFFICES ASSUME NEW s \in signals'
                   PROVE  IF s.kind = "reject"
                          THEN row'[s.item].status = "REJECTED" /\ row'[s.item].by = s.by
                          ELSE [item |-> s.item, action |-> "edited", by |-> s.by] \in audit'
        OBVIOUS
      <4>1. CASE s \in signals
        <5>1. s.item \in Items
          BY <4>1 DEF Signals
        <5> QED
          BY <4>1
      <4>2. CASE s \notin signals
        <5>1. CASE CaptureRejectSignal(t)
          <6>1. s = [item |-> job[t].item, kind |-> "reject", by |-> t]
            BY <4>2, <5>1
          <6> QED
            BY <5>1, <6>1
        <5>2. CASE CaptureEditSignal(t)
          <6>1. s = [item |-> job[t].item, kind |-> "edit", by |-> t]
            BY <4>2, <5>2
          <6> QED
            BY <5>2, <6>1
        <5> QED
          BY <5>1, <5>2
      <4> QED
        BY <4>1, <4>2
    <3>9. LapseIsDue'
      BY <2>0 DEF AfterDecision
    <3> QED
      BY <3>1, <3>2, <3>3, <3>4, <3>5, <3>6, <3>7, <3>8, <3>9
  <2>11. CASE ReadForDrafting(t)
    BY <2>01, <2>11 DEF ReadForDrafting, Approved, Decided
  <2>12. CASE FindForAttach(t)
    <3> USE <2>12 DEF FindForAttach
    <3>1. OwnSteps'
      OBVIOUS
    <3>2. LapseIsDue'
      BY <2>0
    <3>3. DecidedOnce'
      BY DEF Decided
    <3>4. OneExecutor'
      BY <2>0
    <3>5. StoreIsFresh'
      OBVIOUS
    <3>6. SignalIsDue'
      OBVIOUS
    <3>7. SignalsAreEarned'
      OBVIOUS
    <3> QED
      BY <2>01, <3>1, <3>2, <3>3, <3>4, <3>5, <3>6, <3>7
  <2>13. CASE AttachDraft(t)
    <3> USE <2>13 DEF AttachDraft, WritePayload
    <3>1. OwnSteps'
      OBVIOUS
    <3>2. LapseIsDue'
      BY <2>0
    <3>3. DecidedOnce'
      BY DEF Decided, Approved
    <3>4. OneExecutor'
      BY <2>0
    <3>5. SnapOfApproved'
      BY <2>01
    <3>6. ArtifactOfApproved'
      BY <2>01
    <3>7. StoreIsFresh'
      OBVIOUS
    <3>8. SignalIsDue'
      BY DEF Approved, Decided
    <3>9. SignalsAreEarned'
      <4> SUFFICES ASSUME NEW s \in signals
                   PROVE  IF s.kind = "reject"
                          THEN row'[s.item].status = "REJECTED" /\ row'[s.item].by = s.by
                          ELSE [item |-> s.item, action |-> "edited", by |-> s.by] \in audit
        OBVIOUS
      <4>1. s.item \in Items
        BY DEF Signals
      <4> QED
        BY <4>1 DEF Approved, Decided
    <3> QED
      BY <3>1, <3>2, <3>3, <3>4, <3>5, <3>6, <3>7, <3>8, <3>9
  <2>14. CASE FindExpired(t) \/ Abandon(t)
    BY <2>01, <2>14 DEF FindExpired, Abandon, Approved, Decided
  <2>15. CASE Expire(t)
    <3> USE <2>15 DEF Expire
    <3>1. OwnSteps'
      OBVIOUS
    <3>2. LapseIsDue'
      BY <2>0
    <3>3. DecidedOnce'
      BY DEF Decided, Approved
    <3>4. OneExecutor'
      BY <2>0
    <3>5. SnapOfApproved'
      BY <2>01
    <3>6. ArtifactOfApproved'
      BY <2>01
    <3>7. StoreIsFresh'
      OBVIOUS
    <3>8. SignalIsDue'
      BY DEF Approved, Decided
    <3>9. SignalsAreEarned'
      <4> SUFFICES ASSUME NEW s \in signals
                   PROVE  IF s.kind = "reject"
                          THEN row'[s.item].status = "REJECTED" /\ row'[s.item].by = s.by
                          ELSE [item |-> s.item, action |-> "edited", by |-> s.by] \in audit
        OBVIOUS
      <4>1. s.item \in Items
        BY DEF Signals
      <4> QED
        BY <4>1 DEF Approved, Decided
    <3> QED
      BY <3>1, <3>2, <3>3, <3>4, <3>5, <3>6, <3>7, <3>8, <3>9
  <2> QED
    BY <2>1, <2>2, <2>3, <2>4, <2>5, <2>6, <2>7, <2>8, <2>9, <2>10, <2>11,
       <2>12, <2>13, <2>14, <2>15 DEF Step
<1> QED
  BY <1>2, <1>3

\* The invariant holds in every reachable state.
THEOREM InvCorrect == Spec => []IInv
BY InvInit, InvStep, PTL DEF Spec

-----------------------------------------------------------------------------
(* What follows from it.                                                    *)

\* However many calls race, every decided item has exactly one decision row in
\* the audit log, and it says what the item says (applyApprovalDecisionTx).
THEOREM DecidedOnceHolds == Spec => []DecidedOnce
<1>1. IInv => DecidedOnce
  BY DEF IInv
<1> QED
  BY <1>1, InvCorrect, PTL

\* However many calls race, an approved item is executed by the one call that
\* approved it (decideApproval dispatches after its own commit).
THEOREM OneExecutorHolds == Spec => []OneExecutor
<1>1. IInv => OneExecutor
  BY DEF IInv
<1> QED
  BY <1>1, InvCorrect, PTL

\* An artifact hangs only on a row whose approval is in the audit log, whether or not
\* that approval has lapsed since (dispatch.ts:113, approval-gate-prisma.ts:112).
THEOREM ArtifactOfApprovedHolds == Spec => []ArtifactOfApproved
<1>1. IInv => ArtifactOfApproved
  BY DEF IInv
<1> QED
  BY <1>1, InvCorrect, PTL

\* Preference signals record decisions and edits that were committed.
THEOREM SignalsAreEarnedHolds == Spec => []SignalsAreEarned
<1>1. IInv => SignalsAreEarned
  BY DEF IInv
<1> QED
  BY <1>1, InvCorrect, PTL

\* A decided reply's text, and an artifact once stored, never change: what the
\* conditional updates leave unprotected (WriteKey) writes back what it read.
LEMMA StepKeepsReply ==
  ASSUME IInv, [Next]_vars, NEW i \in Items, i \notin Instructions
  PROVE  /\ ~Pending(i) =>
              Rendered(i, row'[i].payload) = Rendered(i, row[i].payload)
         /\ row[i].payload.artifact # {} =>
              row'[i].payload.artifact = row[i].payload.artifact
<1> USE DEF Rendered, Pending, Item, TypeOK, Rows, Payloads, Jobs
<1>1. TypeOK /\ ArtifactOfApproved /\ OneExecutor /\ StoreIsFresh /\ OwnSteps
  BY DEF IInv
<1>2. CASE UNCHANGED vars
  BY <1>2 DEF vars
<1>3. CASE Next
  <2>1. PICK t \in Tasks : Step(t)
    BY <1>3 DEF Next
  <2>2. CASE ApplyApprovalDecision(t)
    BY <1>1, <2>2 DEF ApplyApprovalDecision
  <2>3. CASE WriteKey(t)
    BY <1>1, <2>3 DEF WriteKey, WritePayload, StoreIsFresh
  <2>4. CASE EditApprovalDraft(t)
    BY <1>1, <2>4 DEF EditApprovalDraft, WritePayload, ArtifactOfApproved
  <2>5. CASE AttachDraft(t)
    BY <1>1, <2>5 DEF AttachDraft, WritePayload, OwnSteps
  <2>6. CASE Expire(t)
    BY <1>1, <2>6 DEF Expire
  <2>7. CASE row' = row
    BY <2>7
  <2> QED
    BY <2>1, <2>2, <2>3, <2>4, <2>5, <2>6, <2>7 DEF Step, View, Refuse,
       FindForDecision, FindForWriteKey, FindForEdit, CaptureRejectSignal,
       CaptureEditSignal, ReadForDrafting, FindForAttach, FindExpired, Abandon
<1> QED
  BY <1>2, <1>3

\* The text of a decided reply is frozen, whatever edit was under way
\* (the conditional update of editApprovalDraft).
THEOREM DecidedTextFrozenHolds == Spec => DecidedTextFrozen
<1>1. IInv /\ [Next]_vars =>
        [\A i \in Items \ Instructions : ~Pending(i) =>
           Rendered(i, row'[i].payload) = Rendered(i, row[i].payload)]_vars
  BY StepKeepsReply
<1> QED
  BY <1>1, InvCorrect, PTL DEF Spec, DecidedTextFrozen

\* An artifact stored on a reply stays as it was stored (writeKey).
THEOREM ArtifactKeptHolds == Spec => ArtifactKept
<1>1. IInv /\ [Next]_vars =>
        [\A i \in Items \ Instructions : row[i].payload.artifact # {} =>
           row'[i].payload.artifact = row[i].payload.artifact]_vars
  BY StepKeepsReply
<1> QED
  BY <1>1, InvCorrect, PTL DEF Spec, ArtifactKept

-----------------------------------------------------------------------------
(* The queue implements the approval record.                                *)

LEMMA RecordInit == Init => Record!Init
BY DEF Init, Record!Init, Decided

\* A step of the queue is a Decide step of the record or leaves it alone.
LEMMA RecordStep == IInv /\ [Next]_vars => [Record!Next]_Record!vars
<1> SUFFICES ASSUME IInv, [Next]_vars PROVE [Record!Next]_Record!vars
  OBVIOUS
<1> DEFINE verdict == [i \in Items |-> Decided(i)]
           evidence == {a \in audit : a.action \in Decisions}
<1>0. TypeOK /\ LapseIsDue
  BY DEF IInv
<1> USE <1>0 DEF TypeOK, Rows, Jobs, Item
<1>1. CASE UNCHANGED vars
  BY <1>1 DEF vars, Record!vars, Decided
<1>2. CASE Next
  <2>1. PICK t \in Tasks : Step(t)
    BY <1>2 DEF Next
  <2>2. CASE ApplyApprovalDecision(t)
    <3>1. Item(t) \in Items /\ Verdict(t) \in {"APPROVED", "REJECTED"}
      BY DEF Verdict
    <3>2. verdict[Item(t)] = "PENDING"
      BY <2>2, <3>1 DEF ApplyApprovalDecision, Pending, Decided
    <3>3. verdict' = [verdict EXCEPT ![Item(t)] = Verdict(t)]
      BY <2>2, <3>1 DEF ApplyApprovalDecision, Decided
    <3>4. evidence' = evidence \cup
            {[item |-> Item(t), action |-> Verdict(t), by |-> t]}
      BY <2>2, <3>1 DEF ApplyApprovalDecision, Audit, Decisions
    <3>5. Record!Decide(Item(t), Verdict(t), t)
      BY <3>2, <3>3, <3>4 DEF Record!Decide
    <3> QED
      BY <3>1, <3>5 DEF Record!Next
  <2>3. ASSUME WritePayload(t) PROVE verdict' = verdict
    BY <2>3 DEF WritePayload, Decided
  <2>4. CASE WriteKey(t) \/ AttachDraft(t)
    BY <2>3, <2>4 DEF WriteKey, AttachDraft, Record!vars
  <2>5. CASE EditApprovalDraft(t)
    <3>1. evidence' = evidence
      BY <2>5 DEF EditApprovalDraft, Audit, Decisions
    <3> QED
      BY <2>3, <2>5, <3>1 DEF EditApprovalDraft, Record!vars
  <2>6. CASE Expire(t)
    <3>1. verdict' = verdict
      BY <2>6 DEF Expire, LapseIsDue, Approved, Decided
    <3> QED
      BY <2>6, <3>1 DEF Expire, Record!vars
  <2>7. CASE UNCHANGED <<row, audit>>
    BY <2>7 DEF Record!vars, Decided
  <2> QED
    BY <2>1, <2>2, <2>4, <2>5, <2>6, <2>7 DEF Step, View, Refuse, FindForDecision,
       FindForWriteKey, FindForEdit, CaptureRejectSignal, CaptureEditSignal,
       ReadForDrafting, FindForAttach, FindExpired, Abandon
<1> QED
  BY <1>1, <1>2

\* One verdict, one piece of evidence, each in the same step: the promise in the
\* header of applyApprovalDecisionTx, for any number of racing calls.
THEOREM Implementation == Spec => ImplementsRecord
BY RecordInit, RecordStep, InvCorrect, PTL DEF Spec, Record!Spec, ImplementsRecord

-----------------------------------------------------------------------------
(* The queue implements the standing promise.                               *)

Grants == {i \in Replies : Approved(i)}
Deeds  == {i \in Replies : row[i].payload.artifact # {}}

LEMMA PromiseInit == Init => Promise!Init
<1> SUFFICES ASSUME Init PROVE Promise!Init
  OBVIOUS
<1>1. \A i \in Items : row[i].status = "PENDING" /\ row[i].payload.artifact = {}
  BY DEF Init
<1> QED
  BY <1>1 DEF Promise!Init, Replies, Approved, Decided

\* One decision at a time grants, and it touches no payload.
LEMMA GrantsGrow ==
  ASSUME IInv, [Next]_vars
  PROVE  \/ Grants' = Grants
         \/ \E i \in Replies : Grants' = Grants \cup {i} /\ Deeds' = Deeds
<1> DEFINE Grow == \/ Grants' = Grants
                   \/ \E i \in Replies : Grants' = Grants \cup {i} /\ Deeds' = Deeds
<1>0. TypeOK /\ LapseIsDue
  BY DEF IInv
<1> USE DEF Approved, Decided
<1>1. ASSUME NEW t \in Tasks, ApplyApprovalDecision(t) PROVE Grow
  <2>1. Item(t) \in Items /\ row[Item(t)].status = "PENDING"
    BY <1>0, <1>1 DEF TypeOK, Jobs, Item, ApplyApprovalDecision, Pending
  <2>2. /\ row'[Item(t)].status = Verdict(t)
        /\ \A i \in Items : row'[i].payload = row[i].payload
        /\ \A i \in Items : i # Item(t) => row'[i].status = row[i].status
    BY <1>0, <1>1, <2>1 DEF TypeOK, Rows, ApplyApprovalDecision
  <2>3. Deeds' = Deeds
    BY <2>2 DEF Deeds, Replies
  <2>4. CASE Item(t) \in Replies /\ Verdict(t) = "APPROVED"
    <3>1. Grants' = Grants \cup {Item(t)}
      BY <2>2, <2>4 DEF Grants, Replies
    <3> QED
      BY <2>3, <2>4, <3>1
  <2>5. CASE ~(Item(t) \in Replies /\ Verdict(t) = "APPROVED")
    <3>1. \A i \in Replies : i # Item(t) => (Approved(i)' <=> Approved(i))
      BY <2>2 DEF Replies
    <3>2. Item(t) \in Replies => row'[Item(t)].status = "REJECTED"
      BY <2>2, <2>5 DEF Verdict
    <3>3. \A i \in Replies : i = Item(t) => (Approved(i)' <=> Approved(i))
      BY <2>1, <3>2
    <3>4. \A i \in Replies : Approved(i)' <=> Approved(i)
      BY <3>1, <3>3
    <3> HIDE DEF Approved
    <3> QED
      BY <3>4 DEF Grants
  <2> QED
    BY <2>4, <2>5
<1>2. ASSUME NEW t \in Tasks, WritePayload(t) PROVE Grow
  <2>1. Item(t) \in Items
    BY <1>0 DEF TypeOK, Jobs, Item
  <2>2. \A i \in Items : row'[i].status = row[i].status
    BY <1>0, <1>2, <2>1 DEF WritePayload, TypeOK, Rows
  <2> QED
    BY <2>2 DEF Grants, Replies
<1>3. ASSUME NEW t \in Tasks, Expire(t) PROVE Grow
  <2>1. /\ Item(t) \in Items /\ Approved(Item(t))
        /\ row'[Item(t)].status = "EXPIRED"
        /\ \A i \in Items : i # Item(t) => row'[i].status = row[i].status
    BY <1>0, <1>3 DEF TypeOK, Jobs, Item, Rows, Expire, LapseIsDue
  <2> QED
    BY <2>1 DEF Grants, Replies
<1>4. CASE UNCHANGED row
  BY <1>4 DEF Grants
<1> QED
  BY <1>1, <1>2, <1>3, <1>4
     DEF Next, Step, View, Refuse, FindForDecision, FindForWriteKey, WriteKey, FindForEdit,
         EditApprovalDraft, CaptureRejectSignal, CaptureEditSignal, ReadForDrafting,
         FindForAttach, AttachDraft, FindExpired, Abandon, vars

LEMMA PromiseStep == IInv /\ IInv' /\ [Next]_vars => [Promise!Next]_(Promise!vars)
<1> SUFFICES ASSUME IInv, IInv', [Next]_vars PROVE Promise!Next
  OBVIOUS
<1>1. CASE Grants' = Grants
  <2>1. PICK D : D = Deeds'
    OBVIOUS
  <2>2. ASSUME NEW i \in Replies, row'[i].payload.artifact # {}
        PROVE  Approved(i)'
    BY <2>2 DEF IInv, ArtifactOfApproved, Replies, Approved, Decided
  <2>3. D \subseteq Grants /\ D \in SUBSET Replies
    BY <1>1, <2>1, <2>2 DEF Grants, Deeds
  <2>4. Deeds \subseteq Deeds'
    BY StepKeepsReply DEF Deeds, Replies
  <2>5. Deeds' = Deeds \cup D
    BY <2>1, <2>4
  <2>6. Promise!Perform(D)
    BY <1>1, <2>3, <2>5 DEF Promise!Perform, Grants, Deeds
  <2> QED
    BY <2>3, <2>6 DEF Promise!Next
<1>2. ASSUME NEW i \in Replies, Grants' = Grants \cup {i}, Deeds' = Deeds PROVE Promise!Next
  <2>1. Promise!Approve(i)
    BY <1>2 DEF Promise!Approve, Grants, Deeds
  <2> QED
    BY <2>1 DEF Promise!Next
<1> QED
  BY <1>1, <1>2, GrantsGrow

\* The queue implements the standing promise, "agents draft, a human approves": an
\* artifact (writeKey) is stored only on a reply approved in an earlier step, and
\* stays, for any number of racing calls.
THEOREM QueueKeepsPromise == Spec => KeepsPromise
BY PromiseInit, PromiseStep, InvCorrect, PTL DEF Spec, Promise!Spec, KeepsPromise

-----------------------------------------------------------------------------
(* What the promise of decisions.ts:89 takes.                               *)

\* Of an item nobody has edited: who looks at it, decides it and executes it has its
\* text, and so has its artifact; who approved it is past its decision.
NoneEdited(i) == \A a \in audit : a.item = i => a.action # "edited"

CallHasText(i, t) ==
  /\ pc[t] \in {"view", "decide", "dispatch", "store"} => seen[t] = row[i].payload.body
  /\ pc[t] \in {"decide", "dispatch"} => snap[t].body = row[i].payload.body
  /\ pc[t] = "store" => snap[t].artifact = {row[i].payload.body}

ApproverIsPast(i) ==
  Approved(i) =>
    /\ row[i].by \in Tasks /\ Item(row[i].by) = i
    /\ pc[row[i].by] \in {"dispatch", "store", "end"}
    /\ seen[row[i].by] = row[i].payload.body

TextIsSeen(i) ==
  /\ NoneEdited(i)
  /\ \A t \in Tasks : Item(t) = i => CallHasText(i, t)
  /\ ApproverIsPast(i)
  /\ row[i].payload.artifact \in {{}, {row[i].payload.body}}

LEMMA SeenInit == Init => \A i \in Items : TextIsSeen(i)
<1> SUFFICES ASSUME Init, NEW i \in Items PROVE TextIsSeen(i)
  OBVIOUS
<1>1. row[i].status = "PENDING" /\ row[i].payload.artifact = {}
  BY DEF Init
<1> QED
  BY <1>1 DEF Init, TextIsSeen, NoneEdited, CallHasText, ApproverIsPast, Approved, Decided

\* A reply nobody edits keeps its text, and its row changes by decision and execution.
LEMMA RowStep ==
  ASSUME IInv, [Next]_vars, NEW i \in Replies,
         [\A t \in Tasks : Item(t) = i => ~EditApprovalDraft(t)]_vars
  PROVE  /\ row'[i].payload.body = row[i].payload.body
         /\ \/ row'[i] = row[i]
            \/ \E t \in Tasks :
                 Item(t) = i /\ (ApplyApprovalDecision(t) \/ WriteKey(t) \/ Expire(t))
<1> DEFINE Kept ==
      /\ row'[i].payload.body = row[i].payload.body
      /\ \/ row'[i] = row[i]
         \/ \E t \in Tasks :
              Item(t) = i /\ (ApplyApprovalDecision(t) \/ WriteKey(t) \/ Expire(t))
<1>0. TypeOK /\ StoreIsFresh /\ OwnSteps /\ i \in Items
  BY DEF IInv, Replies
<1>1. ASSUME NEW t \in Tasks, ApplyApprovalDecision(t) PROVE Kept
  <2>1. CASE Item(t) = i
    <3>1. row'[i].payload = row[i].payload
      BY <1>0, <1>1, <2>1 DEF ApplyApprovalDecision, TypeOK, Rows
    <3> QED
      BY <1>1, <2>1, <3>1
  <2>2. CASE Item(t) # i
    <3>1. row'[i] = row[i]
      BY <1>0, <1>1, <2>2 DEF ApplyApprovalDecision, TypeOK
    <3> QED
      BY <3>1
  <2> QED
    BY <2>1, <2>2
<1>2. ASSUME NEW t \in Tasks, WriteKey(t) PROVE Kept
  <2>1. Item(t) = i => snap[t].body = row[i].payload.body
    BY <1>0, <1>2 DEF WriteKey, StoreIsFresh, Replies
  <2>2. CASE Item(t) = i
    <3>1. row'[i].payload = snap[t]
      BY <1>0, <1>2, <2>2 DEF WriteKey, WritePayload, TypeOK, Rows
    <3> QED
      BY <1>2, <2>1, <2>2, <3>1
  <2>3. CASE Item(t) # i
    <3>1. row'[i] = row[i]
      BY <1>0, <1>2, <2>3 DEF WriteKey, WritePayload, TypeOK
    <3> QED
      BY <3>1
  <2> QED
    BY <2>2, <2>3
<1>3. ASSUME NEW t \in Tasks, EditApprovalDraft(t) PROVE Kept
  <2>1. Item(t) # i \/ row' = row
    BY <1>3 DEF vars
  <2>2. row'[i] = row[i]
    BY <1>0, <1>3, <2>1 DEF EditApprovalDraft, WritePayload, TypeOK
  <2> QED
    BY <2>2
<1>4. ASSUME NEW t \in Tasks, AttachDraft(t) PROVE Kept
  <2>1. Item(t) # i
    BY <1>0, <1>4 DEF AttachDraft, OwnSteps, TypeOK, Jobs, Item, Replies
  <2>2. row'[i] = row[i]
    BY <1>0, <1>4, <2>1 DEF AttachDraft, WritePayload, TypeOK
  <2> QED
    BY <2>2
<1>5. ASSUME NEW t \in Tasks, Expire(t) PROVE Kept
  <2>1. row'[i].payload = row[i].payload
    BY <1>0, <1>5 DEF Expire, TypeOK, Rows
  <2>2. Item(t) = i \/ row'[i] = row[i]
    BY <1>0, <1>5 DEF Expire, TypeOK
  <2> QED
    BY <1>5, <2>1, <2>2
<1>6. CASE row' = row
  BY <1>6
<1>7. \/ row' = row
      \/ \E t \in Tasks :
           \/ ApplyApprovalDecision(t) \/ WriteKey(t) \/ Expire(t)
           \/ EditApprovalDraft(t) \/ AttachDraft(t)
  BY DEF Next, Step, View, Refuse, FindForDecision, FindForWriteKey, FindForEdit,
         CaptureRejectSignal, CaptureEditSignal, ReadForDrafting, FindForAttach,
         FindExpired, Abandon, vars
<1> QED
  BY <1>1, <1>2, <1>3, <1>4, <1>5, <1>6, <1>7

LEMMA CallStep ==
  ASSUME IInv, [Next]_vars, NEW i \in Replies, TextIsSeen(i),
         [\A t \in Tasks : Item(t) = i => ~EditApprovalDraft(t)]_vars,
         NEW t \in Tasks, Item(t) = i
  PROVE  CallHasText(i, t)'
<1>0. TypeOK /\ OneExecutor /\ i \in Items /\ i \notin Instructions
  BY DEF IInv, Replies
<1>1. CallHasText(i, t) /\ NoneEdited(i)
  BY DEF TextIsSeen
<1>2. row'[i].payload.body = row[i].payload.body
  BY RowStep
<1>3. CASE pc'[t] = pc[t] /\ seen'[t] = seen[t] /\ snap'[t] = snap[t]
  BY <1>1, <1>2, <1>3 DEF CallHasText
<1>4. CASE View(t)
  <2>1. seen'[t] = row[i].payload.body /\ pc'[t] = "view"
    BY <1>0, <1>4 DEF View, GoTo, TypeOK, Rendered
  <2> QED
    BY <1>2, <2>1 DEF CallHasText
<1>5. CASE FindForDecision(t)
  <2>1. /\ pc[t] = "view" /\ pc'[t] = "decide" /\ seen' = seen
        /\ snap'[t] = row[i].payload
    BY <1>0, <1>5 DEF FindForDecision, GoTo, TypeOK
  <2> QED
    BY <1>1, <1>2, <2>1 DEF CallHasText
<1>6. CASE ApplyApprovalDecision(t)
  <2>1. /\ pc[t] = "decide" /\ pc'[t] \in {"dispatch", "signal", "end"}
        /\ seen' = seen /\ snap' = snap
    BY <1>0, <1>6 DEF ApplyApprovalDecision, AfterDecision, GoTo, TypeOK
  <2> QED
    BY <1>1, <1>2, <2>1 DEF CallHasText
<1>7. CASE FindForWriteKey(t)
  <2>1. /\ pc[t] = "dispatch" /\ pc'[t] = "store" /\ seen' = seen
        /\ snap'[t] = [row[i].payload EXCEPT !.artifact = {snap[t].body}]
    BY <1>0, <1>7 DEF FindForWriteKey, GoTo, TypeOK, Rendered
  <2>2. snap'[t].artifact = {snap[t].body}
    BY <1>0, <2>1 DEF TypeOK, Rows, Payloads
  <2> QED
    BY <1>1, <1>2, <2>1, <2>2 DEF CallHasText
<1>8. CASE CaptureRejectSignal(t) \/ CaptureEditSignal(t)
  <2>1. pc[t] = "signal" /\ job[t].op # "editApprove"
    BY <1>0, <1>1, <1>8
       DEF CaptureRejectSignal, CaptureEditSignal, IInv, SignalIsDue, NoneEdited
  <2>2. pc'[t] = "end"
    BY <1>0, <1>8, <2>1 DEF CaptureRejectSignal, CaptureEditSignal, GoTo, TypeOK
  <2> QED
    BY <2>2 DEF CallHasText
<1>9. CASE \/ Refuse(t) \/ WriteKey(t) \/ FindForEdit(t) \/ EditApprovalDraft(t)
           \/ ReadForDrafting(t) \/ FindForAttach(t) \/ AttachDraft(t)
           \/ FindExpired(t) \/ Expire(t) \/ Abandon(t)
  <2>1. pc'[t] \in {"end", "edit", "signal", "llm", "attach", "expire"}
    BY <1>0, <1>9 DEF Refuse, WriteKey, FindForEdit, EditApprovalDraft, ReadForDrafting,
                      FindForAttach, AttachDraft, FindExpired, Expire, Abandon, GoTo, TypeOK
  <2> QED
    BY <2>1 DEF CallHasText
<1>10. ASSUME NEW q \in Tasks, Step(q), q # t
       PROVE  pc'[t] = pc[t] /\ seen'[t] = seen[t] /\ snap'[t] = snap[t]
  BY <1>0, <1>10
     DEF TypeOK, Step, View, Refuse, FindForDecision, ApplyApprovalDecision,
         FindForWriteKey, WriteKey, FindForEdit, EditApprovalDraft, CaptureRejectSignal,
         CaptureEditSignal, ReadForDrafting, FindForAttach, AttachDraft, FindExpired,
         Expire, Abandon, GoTo
<1>11. CASE UNCHANGED vars
  BY <1>3, <1>11 DEF vars
<1> QED
  BY <1>3, <1>4, <1>5, <1>6, <1>7, <1>8, <1>9, <1>10, <1>11 DEF Next, Step

LEMMA ApproverStep ==
  ASSUME IInv, [Next]_vars, NEW i \in Replies, TextIsSeen(i),
         [\A t \in Tasks : Item(t) = i => ~EditApprovalDraft(t)]_vars
  PROVE  ApproverIsPast(i)'
<1>0. TypeOK /\ i \in Items /\ ApproverIsPast(i)
  BY DEF IInv, Replies, TextIsSeen
<1>1. row'[i].payload.body = row[i].payload.body
  BY RowStep
<1>2. ASSUME Approved(i), row'[i].by = row[i].by
      PROVE  ApproverIsPast(i)'
  <2> DEFINE t == row[i].by
  <2>1. /\ t \in Tasks /\ Item(t) = i /\ pc[t] \in {"dispatch", "store", "end"}
        /\ seen[t] = row[i].payload.body
    BY <1>0, <1>2 DEF ApproverIsPast
  <2>2. pc'[t] \in {"dispatch", "store", "end"} /\ seen'[t] = seen[t] /\ job' = job
    BY <1>0, <2>1
       DEF TypeOK, Next, Step, View, Refuse, FindForDecision, ApplyApprovalDecision,
           FindForWriteKey, WriteKey, FindForEdit, EditApprovalDraft,
           CaptureRejectSignal, CaptureEditSignal, ReadForDrafting, FindForAttach,
           AttachDraft, FindExpired, Expire, Abandon, GoTo, vars
  <2> QED
    BY <1>1, <1>2, <2>1, <2>2 DEF ApproverIsPast, Item
<1>3. ASSUME NEW t \in Tasks, Item(t) = i, ApplyApprovalDecision(t)
      PROVE  ApproverIsPast(i)'
  <2>1. /\ row'[i].by = t /\ row'[i].status = Verdict(t) /\ seen' = seen /\ job' = job
        /\ pc'[t] \in AfterDecision(t)
    BY <1>0, <1>3 DEF ApplyApprovalDecision, GoTo, TypeOK, Rows
  <2>2. Approved(i)' => pc'[t] = "dispatch"
    BY <2>1 DEF AfterDecision, Verdict, Approved, Decided
  <2>3. seen[t] = row[i].payload.body
    BY <1>3 DEF TextIsSeen, CallHasText, ApplyApprovalDecision
  <2> QED
    BY <1>1, <1>3, <2>1, <2>2, <2>3 DEF ApproverIsPast, Item
<1>4. ASSUME NEW t \in Tasks, Item(t) = i, WriteKey(t)
      PROVE  row'[i].status = row[i].status /\ row'[i].by = row[i].by
  BY <1>0, <1>4 DEF WriteKey, WritePayload, TypeOK, Rows
<1>5. ASSUME NEW t \in Tasks, Item(t) = i, Expire(t)
      PROVE  Approved(i) /\ row'[i].by = row[i].by
  BY <1>0, <1>5 DEF Expire, IInv, LapseIsDue, TypeOK, Rows
<1>6. CASE row'[i].status = row[i].status /\ ~Approved(i)
  BY <1>6 DEF ApproverIsPast, Approved, Decided
<1> QED
  BY <1>2, <1>3, <1>4, <1>5, <1>6, RowStep

LEMMA SeenStep ==
  ASSUME IInv, [Next]_vars, NEW i \in Replies, TextIsSeen(i),
         [\A t \in Tasks : Item(t) = i => ~EditApprovalDraft(t)]_vars
  PROVE  TextIsSeen(i)'
<1>0. TypeOK /\ i \in Items
  BY DEF IInv, Replies
<1>1. NoneEdited(i)'
  <2>1. ASSUME NEW t \in Tasks, EditApprovalDraft(t) PROVE NoneEdited(i)'
    <3>1. Item(t) # i \/ audit' = audit
      BY <2>1 DEF vars
    <3> QED
      BY <2>1, <3>1 DEF EditApprovalDraft, Audit, TextIsSeen, NoneEdited
  <2>2. ASSUME NEW t \in Tasks, ApplyApprovalDecision(t) PROVE NoneEdited(i)'
    BY <2>2 DEF ApplyApprovalDecision, Audit, Verdict, TextIsSeen, NoneEdited
  <2>3. CASE audit' = audit
    BY <2>3 DEF TextIsSeen, NoneEdited
  <2> QED
    BY <2>1, <2>2, <2>3
       DEF Next, Step, View, Refuse, FindForDecision, FindForWriteKey, WriteKey,
           FindForEdit, CaptureRejectSignal, CaptureEditSignal, ReadForDrafting,
           FindForAttach, AttachDraft, FindExpired, Expire, Abandon, vars
<1>2. ASSUME NEW t \in Tasks, Item(t)' = i PROVE CallHasText(i, t)'
  <2>1. job' = job
    BY DEF Next, Step, View, Refuse, FindForDecision, ApplyApprovalDecision,
           FindForWriteKey, WriteKey, FindForEdit, EditApprovalDraft,
           CaptureRejectSignal, CaptureEditSignal, ReadForDrafting, FindForAttach,
           AttachDraft, FindExpired, Expire, Abandon, vars
  <2> QED
    BY <1>2, <2>1, CallStep DEF Item
<1>3. row'[i].payload.artifact \in {{}, {row'[i].payload.body}}
  <2>1. row'[i].payload.body = row[i].payload.body
    BY RowStep
  <2>2. ASSUME NEW t \in Tasks, Item(t) = i, ApplyApprovalDecision(t)
        PROVE  row'[i].payload = row[i].payload
    BY <1>0, <2>2 DEF ApplyApprovalDecision, TypeOK, Rows
  <2>3. ASSUME NEW t \in Tasks, Item(t) = i, WriteKey(t)
        PROVE  row'[i].payload.artifact = {row[i].payload.body}
    BY <1>0, <2>3 DEF WriteKey, WritePayload, TypeOK, Rows, TextIsSeen, CallHasText
  <2>4. ASSUME NEW t \in Tasks, Item(t) = i, Expire(t)
        PROVE  row'[i].payload = row[i].payload
    BY <1>0, <2>4 DEF Expire, TypeOK, Rows
  <2> QED
    BY <2>1, <2>2, <2>3, <2>4, RowStep DEF TextIsSeen
<1> QED
  BY <1>1, <1>2, <1>3, ApproverStep DEF TextIsSeen

\* That nothing is executed that is "text the human never saw" (decisions.ts:89) fails
\* of a reply for one reason only: an edit of it that commits.  Other calls, in
\* whatever order, and calls that die do not break it.
THEOREM ArtifactIsSeenUnlessEdited ==
  ASSUME NEW i \in Replies
  PROVE  Spec /\ NeverEdited(i) =>
           [](row[i].payload.artifact # {} => row[i].payload.artifact = {seen[row[i].by]})
<1>1. Init => TextIsSeen(i)
  BY SeenInit DEF Replies
<1>2. IInv /\ TextIsSeen(i) /\ [Next]_vars
      /\ [\A t \in Tasks : Item(t) = i => ~EditApprovalDraft(t)]_vars => TextIsSeen(i)'
  BY SeenStep
<1>3. IInv /\ TextIsSeen(i) =>
        (row[i].payload.artifact # {} => row[i].payload.artifact = {seen[row[i].by]})
  BY DEF IInv, ArtifactOfApproved, TextIsSeen, ApproverIsPast, Replies, Approved, Decided
<1> QED
  BY InvCorrect, <1>1, <1>2, <1>3, PTL DEF Spec, NeverEdited
=============================================================================
