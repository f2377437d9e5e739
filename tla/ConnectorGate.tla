---------------------------- MODULE ConnectorGate ----------------------------
(***************************************************************************)
(* The gate before every connector write                                   *)
(* (lib/integrations/approval/with-approval.ts, approval-gate-prisma.ts,    *)
(* audit.ts).  An attempt without a valid approval opens a request in the   *)
(* owner's queue and stops; an attempt that carries the id of an approved   *)
(* request runs, and is audited.  Every attempt is one call of gateAndRun,  *)
(* and the statements of its check are steps: other calls, the owner and    *)
(* the 24 hours of an approval come in between.                             *)
(***************************************************************************)
EXTENDS Naturals

CONSTANTS Workspaces,
          Actions,      \* connector, action and detail: what a fingerprint is of
          Calls,        \* calls of gateAndRun
          MaxRequests,  \* bound of the requests
          MaxCrashes    \* bound of the calls that die half way

ASSUME BoundsAreNat == MaxRequests \in Nat /\ MaxCrashes \in Nat

Ids == 1 .. MaxRequests

\* No pendingApprovalId.
NoToken == 0

VARIABLES request,   \* request[r]: the WorkApprovalQueueItem, or NoRequest
          approvals, \* history: requests an owner has approved
          job,       \* job[c]: what call c is to do, with which token
          pc,        \* pc[c]: how far it is
          writes,    \* history: calls whose execute has reached the vendor
          audit,     \* calls with a connector_write row in the audit log
          crashes

vars == <<request, approvals, job, pc, writes, audit, crashes>>

Statuses == {"none", "PENDING", "APPROVED", "REJECTED", "EXPIRED"}

\* recent: no more than 24 hours have passed since decidedAt.
Requests == [ws : Workspaces \cup {"none"}, action : Actions \cup {"none"},
             status : Statuses, recent : BOOLEAN]

NoRequest ==
  [ws |-> "none", action |-> "none", status |-> "none", recent |-> FALSE]

Jobs  == [ws : Workspaces, action : Actions, token : Ids \cup {NoToken}]
NoJob == [token |-> NoToken]

PCs == {"idle", "expire", "find", "create", "execute", "audit", "end"}

TypeOK ==
  /\ request \in [Ids -> Requests]
  /\ approvals \in SUBSET Ids
  /\ job \in [Calls -> Jobs \cup {NoJob}]
  /\ pc \in [Calls -> PCs]
  /\ writes \in SUBSET Calls
  /\ audit \in SUBSET Calls
  /\ crashes \in 0 .. MaxCrashes

Init ==
  /\ request = [r \in Ids |-> NoRequest]
  /\ approvals = {}
  /\ job = [c \in Calls |-> NoJob]
  /\ pc = [c \in Calls |-> "idle"]
  /\ writes = {}
  /\ audit = {}
  /\ crashes = 0

-----------------------------------------------------------------------------
(* The owner, and time.                                                     *)

\* decideApproval (ApprovalQueue): the update names the status PENDING.
Decide(r, verdict) ==
  /\ request[r].status = "PENDING"
  /\ request' = [request EXCEPT ![r].status = verdict, ![r].recent = TRUE]
  /\ approvals' = IF verdict = "APPROVED" THEN approvals \cup {r} ELSE approvals
  /\ UNCHANGED <<job, pc, writes, audit, crashes>>

DayPasses(r) ==
  /\ request[r].recent
  /\ request' = [request EXCEPT ![r].recent = FALSE]
  /\ UNCHANGED <<approvals, job, pc, writes, audit, crashes>>

-----------------------------------------------------------------------------
(* gateAndRun.                                                              *)

GoTo(c, l) == pc' = [pc EXCEPT ![c] = l]

Exists(r) == request[r].status # "none"

\* Fault: any approved request of the workspace is a grant.
HonoursAny(r, j) == request[r].ws = j.ws

\* The fingerprint of the request is that of the action presented.
Honours(r, j) == request[r].ws = j.ws /\ request[r].action = j.action

\* Fault: whatever was decided a day ago has expired.
AfterOldToken(r, j) ==
  IF request[r].ws # j.ws \/ request[r].status = "EXPIRED" THEN "find"
  ELSE IF request[r].status = "PENDING" \/ ~Honours(r, j) THEN "end"
  ELSE IF ~request[r].recent THEN "expire"
  ELSE IF request[r].status = "APPROVED" THEN "execute" ELSE "find"

\* What the findFirst by id, workspace and kind leads to.
AfterToken(r, j) ==
  IF request[r].ws # j.ws \/ request[r].status \notin {"PENDING", "APPROVED"} THEN "find"
  ELSE IF request[r].status = "PENDING" \/ ~Honours(r, j) THEN "end"
  ELSE IF request[r].recent THEN "execute" ELSE "expire"

\* A call for j begins: gateAndRun, check, and the lookup of the token.
Begin(c) ==
  /\ pc[c] = "idle"
  /\ \E j \in Jobs :
       /\ j.token # NoToken => Exists(j.token)
       /\ job' = [job EXCEPT ![c] = j]
       /\ GoTo(c, IF j.token = NoToken THEN "find" ELSE AfterToken(j.token, j))
  /\ UNCHANGED <<request, approvals, writes, audit, crashes>>

\* The update names the id and nothing else.
Expire(c) ==
  /\ pc[c] = "expire"
  /\ request' = [request EXCEPT ![job[c].token].status = "EXPIRED"]
  /\ GoTo(c, "end")
  /\ UNCHANGED <<approvals, job, writes, audit, crashes>>

OpenFor(j) == {r \in Ids : request[r].status = "PENDING" /\ Honours(r, j)}

FindOpen(c) ==
  /\ pc[c] = "find"
  /\ GoTo(c, IF OpenFor(job[c]) = {} THEN "create" ELSE "end")
  /\ UNCHANGED <<request, approvals, job, writes, audit, crashes>>

\* Fault: the workspace's approval threshold is asked.
CreateByThreshold(c) ==
  /\ pc[c] = "create"
  /\ \E r \in Ids :
       /\ ~Exists(r) /\ \A q \in Ids : q < r => Exists(q)
       /\ request' = [request EXCEPT ![r] =
            [ws |-> job[c].ws, action |-> job[c].action,
             status |-> "AUTO_APPROVED", recent |-> FALSE]]
  /\ GoTo(c, "end")
  /\ UNCHANGED <<approvals, job, writes, audit, crashes>>

CreateRequest(c) ==
  /\ pc[c] = "create"
  /\ \E r \in Ids :
       /\ ~Exists(r) /\ \A q \in Ids : q < r => Exists(q)
       /\ request' = [request EXCEPT ![r] =
            [ws |-> job[c].ws, action |-> job[c].action,
             status |-> "PENDING", recent |-> FALSE]]
  /\ GoTo(c, "end")
  /\ UNCHANGED <<approvals, job, writes, audit, crashes>>

\* The grant is in hand; nothing is read again before the vendor is called.
Execute(c) ==
  /\ pc[c] = "execute"
  /\ writes' = writes \cup {c}
  /\ GoTo(c, "audit")
  /\ UNCHANGED <<request, approvals, job, audit, crashes>>

RecordWrite(c) ==
  /\ pc[c] = "audit"
  /\ audit' = audit \cup {c}
  /\ GoTo(c, "end")
  /\ UNCHANGED <<request, approvals, job, writes, crashes>>

\* The instance dies, or a statement throws: the caller sees no answer.
Crash(c) ==
  /\ pc[c] \notin {"idle", "end"} /\ crashes < MaxCrashes
  /\ crashes' = crashes + 1
  /\ GoTo(c, "end")
  /\ UNCHANGED <<request, approvals, job, writes, audit>>

Run(c) == \/ Begin(c) \/ Expire(c) \/ FindOpen(c) \/ CreateRequest(c)
          \/ Execute(c) \/ RecordWrite(c) \/ Crash(c)

Next == \/ \E r \in Ids : DayPasses(r)
        \/ \E r \in Ids, verdict \in {"APPROVED", "REJECTED"} : Decide(r, verdict)
        \/ \E c \in Calls : Run(c)

Spec == Init /\ [][Next]_vars

-----------------------------------------------------------------------------
(* What the gate guarantees however the attempts overlap.                   *)

\* No write reaches a vendor unless the owner of its workspace approved a request
\* for this very action, whatever token the caller brought and whatever happened to
\* the request since (check's lookup and fingerprint comparison).
WriteIsApproved ==
  \A c \in writes :
    /\ job[c].token \in approvals
    /\ request[job[c].token].ws = job[c].ws
    /\ request[job[c].token].action = job[c].action

\* The audit log says of a write what happened: there is no row without a write,
\* and short of a crash no write without its row, or a call about to store it
\* (gateAndRun records the outcome whether the write succeeded or not).
AuditIsTrue ==
  /\ audit \subseteq writes
  /\ crashes = 0 => \A c \in writes : c \in audit \/ pc[c] = "audit"

\* What the owner decided stands.  The one status written over a decision is
\* EXPIRED, over an approval more than a day old, though the update names no status
\* and its findFirst was a statement before.
DecisionStands ==
  [][\A r \in Ids : request[r].status \in {"APPROVED", "REJECTED", "EXPIRED"} =>
       \/ request'[r].status = request[r].status
       \/ /\ request[r].status = "APPROVED" /\ ~request[r].recent
          /\ request'[r].status = "EXPIRED"]_vars

\* The gate keeps the standing promise (ApprovedFirst): a deed is an action of a
\* workspace, done when the vendor has been called for it.
Promise == INSTANCE ApprovedFirst WITH
             Deeds    <- Workspaces \X Actions,
             approved <- {<<request[r].ws, request[r].action>> : r \in approvals},
             done     <- {<<job[c].ws, job[c].action>> : c \in writes}
KeepsPromise == Promise!Spec

-----------------------------------------------------------------------------
(* What makes the guarantees inductive (ConnectorGateProofs).               *)

\* A call under way knows what it is to do.
HasJob == \A c \in Calls : pc[c] # "idle" => job[c] \in Jobs

\* A request that exists is of a workspace and an action.
RequestsAreWhole ==
  \A r \in Ids : Exists(r) => request[r].ws \in Workspaces /\ request[r].action \in Actions

\* Approvals are remembered, of requests that exist.
ApprovalsAreKept ==
  /\ \A r \in approvals : Exists(r)
  /\ \A r \in Ids : request[r].status = "APPROVED" => r \in approvals

\* A call about to execute, and one that has, holds an approval of its action.
GrantInHand ==
  \A c \in Calls : pc[c] \in {"execute", "audit"} \/ c \in writes =>
    /\ job[c].token \in approvals
    /\ request[job[c].token].ws = job[c].ws
    /\ request[job[c].token].action = job[c].action

\* A call about to expire a request found an approval more than a day old.
ExpiryIsDue ==
  \A c \in Calls : pc[c] = "expire" =>
    /\ job[c].token \in Ids
    /\ request[job[c].token].status \in {"APPROVED", "EXPIRED"}
    /\ ~request[job[c].token].recent

\* A call about to record its write has written, and no other call under way has.
RecordIsDue   == \A c \in Calls : pc[c] = "audit" => c \in writes
WritesAreOver == \A c \in writes : pc[c] \in {"audit", "end"}

IInv == /\ TypeOK /\ HasJob /\ RequestsAreWhole /\ ApprovalsAreKept /\ GrantInHand
        /\ ExpiryIsDue /\ RecordIsDue /\ WritesAreOver /\ AuditIsTrue
=============================================================================
