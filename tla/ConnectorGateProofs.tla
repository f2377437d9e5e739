------------------------- MODULE ConnectorGateProofs -------------------------
(***************************************************************************)
(* What holds of the connector gate, proved for every number of workspaces, *)
(* actions, attempts and requests.                                          *)
(***************************************************************************)
EXTENDS ConnectorGate, TLAPS

LEMMA GateInvInit == Init => IInv
BY BoundsAreNat
   DEF Init, IInv, TypeOK, HasJob, RequestsAreWhole, ApprovalsAreKept,
       GrantInHand, ExpiryIsDue, RecordIsDue, AuditIsTrue, WritesAreOver, Exists,
       Ids, Requests, NoRequest, Statuses, PCs

\* What a step of a call leaves alone: it creates a request, or expires its own.
LEMMA GateTypeStep == IInv /\ [Next]_vars => TypeOK'
<1> SUFFICES ASSUME IInv, [Next]_vars PROVE TypeOK'
  OBVIOUS
<1>0. TypeOK /\ HasJob /\ ExpiryIsDue
  BY DEF IInv
<1>1. CASE UNCHANGED vars
  BY <1>0, <1>1 DEF vars, TypeOK
<1>2. ASSUME NEW r \in Ids, NEW verdict \in {"APPROVED", "REJECTED"}, Decide(r, verdict)
      PROVE  TypeOK'
  BY <1>0, <1>2 DEF Decide, TypeOK, Requests, Statuses
<1>3. ASSUME NEW r \in Ids, DayPasses(r) PROVE TypeOK'
  BY <1>0, <1>3 DEF DayPasses, TypeOK, Requests
<1>4. ASSUME NEW c \in Calls, Begin(c) PROVE TypeOK'
  BY <1>0, <1>4 DEF Begin, AfterToken, GoTo, TypeOK, PCs
<1>5. ASSUME NEW c \in Calls, Expire(c) PROVE TypeOK'
  <2>1. job[c].token \in Ids
    BY <1>0, <1>5 DEF Expire, ExpiryIsDue
  <2>2. request' \in [Ids -> Requests]
    BY <1>0, <1>5, <2>1 DEF Expire, TypeOK, Requests, Statuses
  <2> QED
    BY <1>0, <1>5, <2>2 DEF Expire, GoTo, TypeOK, PCs
<1>6. ASSUME NEW c \in Calls, CreateRequest(c) PROVE TypeOK'
  <2>1. job[c] \in Jobs
    BY <1>0, <1>6 DEF CreateRequest, HasJob
  <2>2. request' \in [Ids -> Requests]
    BY <1>0, <1>6, <2>1 DEF CreateRequest, TypeOK, Jobs, Requests, Statuses
  <2> QED
    BY <1>0, <1>6, <2>2 DEF CreateRequest, GoTo, TypeOK, PCs
<1>7. ASSUME NEW c \in Calls, FindOpen(c) \/ Execute(c) \/ RecordWrite(c) PROVE TypeOK'
  BY <1>0, <1>7 DEF FindOpen, Execute, RecordWrite, GoTo, TypeOK, PCs
<1>8. ASSUME NEW c \in Calls, Crash(c) PROVE TypeOK'
  BY <1>0, <1>8, BoundsAreNat DEF Crash, GoTo, TypeOK, PCs
<1> QED
  BY <1>1, <1>2, <1>3, <1>4, <1>5, <1>6, <1>7, <1>8 DEF Next, Run

\* A request keeps its workspace and its action for ever, an approval is never taken
\* back, and what was decided is only ever overwritten by expiry.
LEMMA RequestsKept ==
  ASSUME IInv, [Next]_vars, NEW r \in Ids, Exists(r)
  PROVE  /\ request'[r].ws = request[r].ws /\ request'[r].action = request[r].action
         /\ Exists(r)'
         /\ approvals \subseteq approvals'
<1>0. TypeOK /\ ExpiryIsDue
  BY DEF IInv
<1>1. ASSUME NEW q \in Ids, NEW verdict \in {"APPROVED", "REJECTED"}, Decide(q, verdict)
      PROVE  /\ request'[r].ws = request[r].ws /\ request'[r].action = request[r].action
             /\ Exists(r)' /\ approvals \subseteq approvals'
  BY <1>0, <1>1 DEF Decide, Exists, TypeOK, Requests
<1>2. ASSUME NEW q \in Ids, DayPasses(q)
      PROVE  /\ request'[r].ws = request[r].ws /\ request'[r].action = request[r].action
             /\ Exists(r)' /\ approvals \subseteq approvals'
  BY <1>0, <1>2 DEF DayPasses, Exists, TypeOK, Requests
<1>3. ASSUME NEW c \in Calls, Expire(c)
      PROVE  /\ request'[r].ws = request[r].ws /\ request'[r].action = request[r].action
             /\ Exists(r)' /\ approvals \subseteq approvals'
  BY <1>0, <1>3 DEF Expire, Exists, TypeOK, Requests
<1>4. ASSUME NEW c \in Calls, CreateRequest(c)
      PROVE  /\ request'[r].ws = request[r].ws /\ request'[r].action = request[r].action
             /\ Exists(r)' /\ approvals \subseteq approvals'
  BY <1>0, <1>4 DEF CreateRequest, Exists, TypeOK
<1> QED
  BY <1>1, <1>2, <1>3, <1>4
     DEF Next, Run, Begin, FindOpen, Execute, RecordWrite, Crash, vars, Exists

\* A decided request changes only from APPROVED to EXPIRED, once its day is over.
LEMMA DecisionStandsStep ==
  ASSUME IInv, [Next]_vars, NEW r \in Ids,
         request[r].status \in {"APPROVED", "REJECTED", "EXPIRED"}
  PROVE  /\ \/ request'[r].status = request[r].status
            \/ /\ request[r].status = "APPROVED" /\ ~request[r].recent
               /\ request'[r].status = "EXPIRED"
         /\ ~request[r].recent => ~request'[r].recent
<1> DEFINE Stands ==
      /\ \/ request'[r].status = request[r].status
         \/ /\ request[r].status = "APPROVED" /\ ~request[r].recent
            /\ request'[r].status = "EXPIRED"
      /\ ~request[r].recent => ~request'[r].recent
<1>0. TypeOK /\ ExpiryIsDue
  BY DEF IInv
<1>1. ASSUME NEW q \in Ids, NEW verdict \in {"APPROVED", "REJECTED"}, Decide(q, verdict)
      PROVE  Stands
  <2>1. q # r
    BY <1>1 DEF Decide
  <2> QED
    BY <1>0, <1>1, <2>1 DEF Decide, TypeOK
<1>2. ASSUME NEW q \in Ids, DayPasses(q) PROVE Stands
  BY <1>0, <1>2 DEF DayPasses, TypeOK, Requests
<1>3. ASSUME NEW c \in Calls, Expire(c) PROVE Stands
  BY <1>0, <1>3 DEF Expire, ExpiryIsDue, TypeOK, Requests
<1>4. ASSUME NEW c \in Calls, CreateRequest(c) PROVE Stands
  BY <1>0, <1>4 DEF CreateRequest, Exists, TypeOK
<1> QED
  BY <1>1, <1>2, <1>3, <1>4 DEF Next, Run, Begin, FindOpen, Execute, RecordWrite, Crash, vars

LEMMA HasJobStep == IInv /\ [Next]_vars => HasJob'
<1> SUFFICES ASSUME IInv, [Next]_vars, NEW c \in Calls, pc'[c] # "idle" PROVE job'[c] \in Jobs
  BY DEF HasJob
<1>0. TypeOK /\ HasJob
  BY DEF IInv
<1>1. ASSUME NEW d \in Calls, Begin(d) PROVE job'[c] \in Jobs
  BY <1>0, <1>1 DEF Begin, GoTo, TypeOK, HasJob
<1> QED
  BY <1>0, <1>1
     DEF Next, Run, Decide, DayPasses, Expire, FindOpen, CreateRequest, Execute,
         RecordWrite, Crash, GoTo, vars, TypeOK, HasJob

LEMMA WholeStep == IInv /\ [Next]_vars => RequestsAreWhole'
<1> SUFFICES ASSUME IInv, [Next]_vars, NEW r \in Ids, Exists(r)'
             PROVE  request'[r].ws \in Workspaces /\ request'[r].action \in Actions
  BY DEF RequestsAreWhole
<1>0. TypeOK /\ HasJob
  BY DEF IInv
<1>1. CASE Exists(r)
  BY <1>1, RequestsKept DEF IInv, RequestsAreWhole
<1>2. ASSUME NEW c \in Calls, CreateRequest(c), ~Exists(r)
      PROVE  request'[r].ws \in Workspaces /\ request'[r].action \in Actions
  <2>1. job[c] \in Jobs
    BY <1>0, <1>2 DEF CreateRequest, HasJob
  <2>2. request'[r] = request[r] \/ (/\ request'[r].ws = job[c].ws
                                     /\ request'[r].action = job[c].action)
    BY <1>0, <1>2 DEF CreateRequest, TypeOK
  <2>3. request'[r] # request[r]
    BY <1>2 DEF Exists
  <2> QED
    BY <2>1, <2>2, <2>3 DEF Jobs
<1>3. ASSUME NEW c \in Calls, Expire(c), ~Exists(r) PROVE FALSE
  <2>1. job[c].token \in Ids /\ request[job[c].token].status \in {"APPROVED", "EXPIRED"}
    BY <1>3 DEF IInv, ExpiryIsDue, Expire
  <2>2. job[c].token # r
    BY <1>3, <2>1 DEF Exists
  <2> QED
    BY <1>0, <1>3, <2>1, <2>2 DEF Expire, Exists, TypeOK
<1>4. ASSUME ~Exists(r), \A c \in Calls : ~CreateRequest(c) /\ ~Expire(c) PROVE FALSE
  <2>1. ASSUME NEW q \in Ids, NEW verdict \in {"APPROVED", "REJECTED"}, Decide(q, verdict)
        PROVE  FALSE
    <3>1. q # r
      BY <1>4, <2>1 DEF Decide, Exists
    <3> QED
      BY <1>0, <1>4, <2>1, <3>1 DEF Decide, Exists, TypeOK
  <2>2. ASSUME NEW q \in Ids, DayPasses(q) PROVE FALSE
    BY <1>0, <1>4, <2>2 DEF DayPasses, Exists, TypeOK, Requests
  <2> QED
    BY <1>4, <2>1, <2>2
       DEF Next, Run, Begin, FindOpen, Execute, RecordWrite, Crash, vars, Exists
<1> QED
  BY <1>1, <1>2, <1>3, <1>4

LEMMA ApprovalsStep == IInv /\ [Next]_vars => ApprovalsAreKept'
<1> SUFFICES ASSUME IInv, [Next]_vars PROVE ApprovalsAreKept'
  OBVIOUS
<1>0. TypeOK /\ ApprovalsAreKept /\ ExpiryIsDue
  BY DEF IInv
<1>1. ASSUME NEW q \in Ids, NEW verdict \in {"APPROVED", "REJECTED"}, Decide(q, verdict)
      PROVE  ApprovalsAreKept'
  BY <1>0, <1>1 DEF Decide, ApprovalsAreKept, Exists, TypeOK, Requests
<1>2. ASSUME NEW q \in Ids, DayPasses(q) PROVE ApprovalsAreKept'
  BY <1>0, <1>2 DEF DayPasses, ApprovalsAreKept, Exists, TypeOK, Requests
<1>3. ASSUME NEW c \in Calls, Expire(c) PROVE ApprovalsAreKept'
  BY <1>0, <1>3 DEF Expire, ApprovalsAreKept, Exists, TypeOK, Requests
<1>4. ASSUME NEW c \in Calls, CreateRequest(c) PROVE ApprovalsAreKept'
  BY <1>0, <1>4 DEF CreateRequest, ApprovalsAreKept, Exists, TypeOK
<1> QED
  BY <1>0, <1>1, <1>2, <1>3, <1>4
     DEF Next, Run, Begin, FindOpen, Execute, RecordWrite, Crash, vars, ApprovalsAreKept,
         Exists

\* The token that leads to a write is an approval of the action: check's lookup.
LEMMA TokenIsGrant ==
  ASSUME IInv, NEW j \in Jobs, j.token # NoToken,
         AfterToken(j.token, j) \in {"execute", "expire"}
  PROVE  /\ j.token \in Ids /\ j.token \in approvals
         /\ request[j.token].status = "APPROVED"
         /\ request[j.token].ws = j.ws /\ request[j.token].action = j.action
         /\ AfterToken(j.token, j) = "expire" => ~request[j.token].recent
<1>1. j.token \in Ids
  BY DEF Jobs
<1>2. request[j.token].status = "APPROVED" /\ Honours(j.token, j)
  BY DEF AfterToken, Honours
<1>3. AfterToken(j.token, j) = "expire" => ~request[j.token].recent
  BY DEF AfterToken
<1> QED
  BY <1>1, <1>2, <1>3 DEF IInv, ApprovalsAreKept, Honours

LEMMA GrantStep == IInv /\ [Next]_vars => GrantInHand'
<1> SUFFICES ASSUME IInv, [Next]_vars, NEW c \in Calls,
                    pc'[c] \in {"execute", "audit"} \/ c \in writes'
             PROVE  /\ job'[c].token \in approvals'
                    /\ request'[job'[c].token].ws = job'[c].ws
                    /\ request'[job'[c].token].action = job'[c].action
  BY DEF GrantInHand
<1>0. TypeOK /\ GrantInHand /\ ApprovalsAreKept /\ RecordIsDue
  BY DEF IInv
<1>1. CASE Begin(c)
  <2>1. PICK j \in Jobs : /\ job' = [job EXCEPT ![c] = j]
                          /\ GoTo(c, IF j.token = NoToken THEN "find"
                                                          ELSE AfterToken(j.token, j))
    BY <1>1 DEF Begin
  <2>2. job'[c] = j
    BY <1>0, <2>1 DEF TypeOK
  <2>3. CASE c \in writes
    BY <1>0, <1>1, <2>3 DEF Begin, IInv, WritesAreOver
  <2>4. CASE c \notin writes
    <3>1. j.token # NoToken /\ AfterToken(j.token, j) = "execute"
      BY <1>0, <1>1, <2>1, <2>4 DEF Begin, GoTo, TypeOK, AfterToken
    <3> QED
      BY <1>1, <2>2, <3>1, TokenIsGrant DEF Begin
  <2> QED
    BY <2>3, <2>4
<1>2. CASE ~Begin(c)
  <2>1. job'[c] = job[c]
    BY <1>0, <1>2
       DEF Next, Run, Decide, DayPasses, Begin, Expire, FindOpen, CreateRequest, Execute,
           RecordWrite, Crash, vars, TypeOK
  <2>2. pc[c] \in {"execute", "audit"} \/ c \in writes
    BY <1>0, <1>2
       DEF Next, Run, Decide, DayPasses, Begin, Expire, FindOpen, CreateRequest, Execute,
           RecordWrite, Crash, GoTo, vars, TypeOK
  <2>3. /\ job[c].token \in approvals
        /\ request[job[c].token].ws = job[c].ws
        /\ request[job[c].token].action = job[c].action
    BY <1>0, <2>2 DEF GrantInHand
  <2>4. job[c].token \in Ids /\ Exists(job[c].token)
    BY <1>0, <2>3 DEF TypeOK, ApprovalsAreKept
  <2> QED
    BY <2>1, <2>3, <2>4, RequestsKept
<1> QED
  BY <1>1, <1>2

LEMMA ExpiryStep == IInv /\ [Next]_vars => ExpiryIsDue'
<1> SUFFICES ASSUME IInv, [Next]_vars, NEW c \in Calls, pc'[c] = "expire"
             PROVE  /\ job'[c].token \in Ids
                    /\ request'[job'[c].token].status \in {"APPROVED", "EXPIRED"}
                    /\ ~request'[job'[c].token].recent
  BY DEF ExpiryIsDue
<1>0. TypeOK /\ ExpiryIsDue
  BY DEF IInv
<1>1. CASE Begin(c)
  <2>1. PICK j \in Jobs : /\ job' = [job EXCEPT ![c] = j]
                          /\ GoTo(c, IF j.token = NoToken THEN "find"
                                                          ELSE AfterToken(j.token, j))
    BY <1>1 DEF Begin
  <2>2. job'[c] = j /\ j.token # NoToken /\ AfterToken(j.token, j) = "expire"
    BY <1>0, <2>1 DEF GoTo, TypeOK
  <2> QED
    BY <1>1, <2>2, TokenIsGrant DEF Begin
<1>2. CASE ~Begin(c)
  <2>1. job'[c] = job[c] /\ pc[c] = "expire"
    BY <1>0, <1>2
       DEF Next, Run, Decide, DayPasses, Begin, Expire, FindOpen, CreateRequest, Execute,
           RecordWrite, Crash, GoTo, vars, TypeOK
  <2>2. /\ job[c].token \in Ids /\ request[job[c].token].status \in {"APPROVED", "EXPIRED"}
        /\ ~request[job[c].token].recent
    BY <1>0, <2>1 DEF ExpiryIsDue
  <2> QED
    BY <2>1, <2>2, DecisionStandsStep
<1> QED
  BY <1>1, <1>2

LEMMA RecordStep == IInv /\ [Next]_vars => RecordIsDue' /\ AuditIsTrue' /\ WritesAreOver'
<1> SUFFICES ASSUME IInv, [Next]_vars PROVE RecordIsDue' /\ AuditIsTrue' /\ WritesAreOver'
  OBVIOUS
<1>0. TypeOK /\ RecordIsDue /\ AuditIsTrue /\ WritesAreOver
  BY DEF IInv
<1>1. ASSUME NEW c \in Calls, Execute(c) \/ RecordWrite(c)
      PROVE  RecordIsDue' /\ AuditIsTrue' /\ WritesAreOver'
  BY <1>0, <1>1 DEF Execute, RecordWrite, GoTo, TypeOK, RecordIsDue, AuditIsTrue,
                    WritesAreOver
<1>2. ASSUME NEW c \in Calls, Crash(c) PROVE RecordIsDue' /\ AuditIsTrue' /\ WritesAreOver'
  BY <1>0, <1>2, BoundsAreNat DEF Crash, GoTo, TypeOK, RecordIsDue, AuditIsTrue,
                                  WritesAreOver
<1>3. ASSUME NEW c \in Calls, Begin(c) \/ Expire(c) \/ FindOpen(c) \/ CreateRequest(c)
      PROVE  RecordIsDue' /\ AuditIsTrue' /\ WritesAreOver'
  BY <1>0, <1>3 DEF Begin, Expire, FindOpen, CreateRequest, AfterToken, GoTo, TypeOK,
                    RecordIsDue, AuditIsTrue, WritesAreOver
<1> QED
  BY <1>0, <1>1, <1>2, <1>3
     DEF Next, Run, Decide, DayPasses, vars, RecordIsDue, AuditIsTrue, WritesAreOver

LEMMA GateInvStep == IInv /\ [Next]_vars => IInv'
BY GateTypeStep, HasJobStep, WholeStep, ApprovalsStep, GrantStep, ExpiryStep, RecordStep
   DEF IInv

-----------------------------------------------------------------------------
(* The theorems.                                                            *)

\* The invariant holds however attempts, owners and time interleave (gateAndRun,
\* PrismaApprovalGate.check).
THEOREM GateInvariant == Spec => []IInv
BY GateInvInit, GateInvStep, PTL DEF Spec

\* Every reachable state is well typed.
THEOREM GateTypeCorrect == Spec => []TypeOK
<1>1. IInv => TypeOK
  BY DEF IInv
<1> QED
  BY GateInvariant, <1>1, PTL

\* No connector write without its owner's approval of that action (check's lookup
\* and fingerprint comparison), for any number of overlapping attempts.
THEOREM WritesWereApproved == Spec => []WriteIsApproved
<1>1. IInv => WriteIsApproved
  BY DEF IInv, TypeOK, GrantInHand, WriteIsApproved
<1> QED
  BY GateInvariant, <1>1, PTL

\* Every audited write was made, and short of a crash every write is audited
\* (recordConnectorWrite, audit.ts).
THEOREM AuditTellsTheTruth == Spec => []AuditIsTrue
<1>1. IInv => AuditIsTrue
  BY DEF IInv
<1> QED
  BY GateInvariant, <1>1, PTL

\* A decision is only ever overwritten by the expiry of an approval more than a day
\* old, though the update names neither status nor date.
THEOREM DecisionsStand == Spec => DecisionStands
<1>1. IInv /\ [Next]_vars =>
        [\A r \in Ids : request[r].status \in {"APPROVED", "REJECTED", "EXPIRED"} =>
           \/ request'[r].status = request[r].status
           \/ /\ request[r].status = "APPROVED" /\ ~request[r].recent
              /\ request'[r].status = "EXPIRED"]_vars
  BY DecisionStandsStep
<1> QED
  BY GateInvariant, <1>1, PTL DEF Spec, DecisionStands

-----------------------------------------------------------------------------
(* The gate implements the standing promise.                                *)

GrantOf(r) == <<request[r].ws, request[r].action>>
DeedOf(c)  == <<job[c].ws, job[c].action>>
Grants == {GrantOf(r) : r \in approvals}
Deeds  == {DeedOf(c) : c \in writes}

\* A grant stays the grant of the same action, and a write the same write.
LEMMA GrantsStay ==
  ASSUME IInv, [Next]_vars
  PROVE  /\ \A r \in approvals : r \in Ids /\ GrantOf(r)' = GrantOf(r)
         /\ \A c \in writes : DeedOf(c)' = DeedOf(c)
<1>0. TypeOK /\ ApprovalsAreKept /\ WritesAreOver
  BY DEF IInv
<1>1. ASSUME NEW r \in approvals PROVE r \in Ids /\ GrantOf(r)' = GrantOf(r)
  <2>1. r \in Ids /\ Exists(r)
    BY <1>0 DEF TypeOK, ApprovalsAreKept
  <2> QED
    BY <2>1, RequestsKept DEF GrantOf
<1>2. ASSUME NEW c \in writes PROVE DeedOf(c)' = DeedOf(c)
  <2>1. c \in Calls /\ pc[c] # "idle"
    BY <1>0 DEF TypeOK, WritesAreOver
  <2>2. job'[c] = job[c]
    BY <1>0, <2>1
       DEF Next, Run, Decide, DayPasses, Begin, Expire, FindOpen, CreateRequest, Execute,
           RecordWrite, Crash, vars, TypeOK
  <2> QED
    BY <2>2 DEF DeedOf
<1> QED
  BY <1>1, <1>2

\* An approval is a step of the promise and leaves what was done.
LEMMA DecideKeepsPromise ==
  ASSUME IInv, NEW r \in Ids, NEW verdict \in {"APPROVED", "REJECTED"}, Decide(r, verdict)
  PROVE  /\ Deeds' = Deeds
         /\ \/ Grants' = Grants
            \/ \E d \in Workspaces \X Actions : Grants' = Grants \cup {d}
<1>0. TypeOK /\ RequestsAreWhole
  BY DEF IInv
<1>1. [Next]_vars
  BY DEF Next
<1>2. job' = job /\ writes' = writes
  BY DEF Decide
<1>3. \A q \in approvals : GrantOf(q)' = GrantOf(q)
  BY <1>1, GrantsStay
<1>4. GrantOf(r) \in Workspaces \X Actions
  BY <1>0 DEF Decide, Exists, RequestsAreWhole, GrantOf
<1>5. GrantOf(r)' = GrantOf(r)
  BY <1>0 DEF Decide, GrantOf, TypeOK, Requests
<1>6. approvals' = approvals \/ approvals' = approvals \cup {r}
  BY DEF Decide
<1>7. CASE approvals' = approvals
  BY <1>2, <1>3, <1>7 DEF Grants, Deeds, DeedOf
<1>8. CASE approvals' = approvals \cup {r}
  <2>1. Grants' = Grants \cup {GrantOf(r)}
    BY <1>3, <1>5, <1>8 DEF Grants
  <2> QED
    BY <1>2, <1>4, <2>1 DEF Deeds, DeedOf
<1> QED
  BY <1>6, <1>7, <1>8

\* A write is a step of the promise: its deed has been granted.
LEMMA ExecuteKeepsPromise ==
  ASSUME IInv, NEW c \in Calls, Execute(c)
  PROVE  Grants' = Grants /\ Deeds' = Deeds \cup {DeedOf(c)} /\ DeedOf(c) \in Grants
<1>1. request' = request /\ approvals' = approvals /\ job' = job
  BY DEF Execute
<1>2. writes' = writes \cup {c}
  BY DEF Execute
<1>3. Deeds' = Deeds \cup {DeedOf(c)}
  BY <1>1, <1>2 DEF Deeds, DeedOf
<1>4. job[c].token \in approvals /\ GrantOf(job[c].token) = DeedOf(c)
  BY DEF Execute, IInv, GrantInHand, GrantOf, DeedOf
<1> QED
  BY <1>1, <1>3, <1>4 DEF Grants, GrantOf

LEMMA OthersKeepPromise ==
  ASSUME IInv, [Next]_vars, approvals' = approvals, writes' = writes
  PROVE  Grants' = Grants /\ Deeds' = Deeds
BY GrantsStay DEF Grants, Deeds

LEMMA PromiseStep == IInv /\ [Next]_vars => [Promise!Next]_(Promise!vars)
<1> SUFFICES ASSUME IInv, [Next]_vars PROVE [Promise!Next]_(Promise!vars)
  OBVIOUS
<1>1. CASE Grants' = Grants /\ Deeds' = Deeds
  BY <1>1 DEF Promise!vars, Grants, Deeds, GrantOf, DeedOf
<1>2. ASSUME NEW d \in Workspaces \X Actions, Grants' = Grants \cup {d}, Deeds' = Deeds
      PROVE  Promise!Next
  <2>1. Promise!Approve(d)
    BY <1>2 DEF Promise!Approve, Grants, Deeds, GrantOf, DeedOf
  <2> QED
    BY <2>1 DEF Promise!Next
<1>3. ASSUME NEW c \in Calls, Execute(c) PROVE Promise!Next
  <2>1. PICK D : D = {DeedOf(c)}
    OBVIOUS
  <2>2. Grants' = Grants /\ Deeds' = Deeds \cup D /\ D \subseteq Grants
    BY <1>3, <2>1, ExecuteKeepsPromise
  <2>3. Promise!Perform(D)
    BY <2>2 DEF Promise!Perform, Grants, Deeds, GrantOf, DeedOf
  <2>4. D \in SUBSET (Workspaces \X Actions)
    BY <1>3, <2>1 DEF Execute, IInv, HasJob, Jobs, DeedOf
  <2> QED
    BY <2>3, <2>4 DEF Promise!Next
<1>4. \/ approvals' = approvals /\ writes' = writes
      \/ \E r \in Ids, verdict \in {"APPROVED", "REJECTED"} : Decide(r, verdict)
      \/ \E c \in Calls : Execute(c)
  BY DEF Next, Run, DayPasses, Begin, Expire, FindOpen, CreateRequest, RecordWrite, Crash, vars
<1> QED
  BY <1>1, <1>2, <1>3, <1>4, DecideKeepsPromise, OthersKeepPromise

LEMMA PromiseInit == Init => Promise!Init
BY DEF Init, Promise!Init

\* The gate implements the standing promise, "agents draft, a human approves": the
\* vendor is called only for an action of a workspace that its owner approved in an
\* earlier step (gateAndRun), for any attempts and whatever becomes of the requests.
THEOREM GateKeepsPromise == Spec => KeepsPromise
BY PromiseInit, PromiseStep, GateInvariant, PTL DEF Spec, Promise!Spec, KeepsPromise
=============================================================================
