-------------------------- MODULE PortalChatProofs ---------------------------
(***************************************************************************)
(* That clients see only what was approved for them, that approvals are     *)
(* delivered, and the types, for any clients, visits and bodies.            *)
(***************************************************************************)
EXTENDS PortalChat, TLAPS

LEMMA InitInv == Init => IInv
<1> SUFFICES ASSUME Init PROVE IInv
  OBVIOUS
<1>1. TypeOK
  BY BoundsAreNat DEF Init, TypeOK, None, PCs
<1>2. LatestIsTheirs /\ WorkIsInHand /\ RepliesMatchCards /\ SeenAreReplies /\ SeenIsApproved
  BY DEF Init, LatestIsTheirs, WorkIsInHand, RepliesMatchCards, SeenAreReplies, SeenIsApproved
<1>3. CardsAreWanted /\ CardsHaveClients
  BY DEF Init, CardsAreWanted, CardsHaveClients
<1> QED
  BY <1>1, <1>2, <1>3 DEF IInv

-----------------------------------------------------------------------------
(* What a step may do.                                                      *)

LEMMA RowsAreNotNone ==
  /\ \A r \in CardRows : r # NoCard /\ r.status # "none"
  /\ NoCard.status \notin Statuses
  /\ \A m \in Replies : m # NoReply /\ m.card # None
  /\ NoReply.card = None
<1>1. /\ \A r \in CardRows : r.status # "none"
      /\ NoCard.status = "none"
  BY DEF CardRows, NoCard, Statuses
<1>2. /\ \A m \in Replies : m.card # None
      /\ NoReply.card = None
  BY DEF Replies, NoReply, Cards, None
<1> QED
  BY <1>1, <1>2 DEF Statuses

LEMMA TypeStep == TypeOK /\ WorkIsInHand /\ [Next]_vars => TypeOK'
<1> SUFFICES ASSUME TypeOK, WorkIsInHand, [Next]_vars PROVE TypeOK'
  OBVIOUS
<1> USE DEF TypeOK, GoTo, PCs
<1>1. ASSUME NEW k \in Cards, NEW verdict \in {"APPROVED", "REJECTED"}, Decide(k, verdict)
      PROVE  TypeOK'
  <2>1. card[k] \in CardRows
    BY <1>1, RowsAreNotNone DEF Decide, Statuses
  <2>2. card' \in [Cards -> CardRows \cup {NoCard}]
    BY <1>1, <2>1 DEF Decide, CardRows, Statuses
  <2> QED
    BY <1>1, <2>2 DEF Decide
<1>2. ASSUME NEW k \in Cards, NEW body \in Bodies, EditCard(k, body)
      PROVE  TypeOK'
  <2>1. card[k] \in CardRows
    BY <1>2, RowsAreNotNone DEF EditCard, Statuses
  <2>2. card' \in [Cards -> CardRows \cup {NoCard}]
    BY <1>2, <2>1 DEF EditCard, CardRows, Statuses
  <2> QED
    BY <1>2, <2>2 DEF EditCard
<1>3. ASSUME NEW v \in Visits, FindThread(v) PROVE TypeOK'
  <2>1. job' \in [Visits -> Jobs \cup {NoJob}]
    BY <1>3 DEF FindThread, Jobs
  <2> QED
    BY <1>3, <2>1 DEF FindThread
<1>4. ASSUME NEW v \in Visits, CreateThread(v) PROVE TypeOK'
  <2>1. job[v] \in Jobs
    BY <1>4 DEF CreateThread, WorkIsInHand
  <2>2. job' \in [Visits -> Jobs \cup {NoJob}]
    BY <1>4, <2>1 DEF CreateThread, Jobs
  <2>3. job[v].client \in Clients
    BY <2>1 DEF Jobs
  <2> QED
    BY <1>4, <2>2, <2>3 DEF CreateThread
<1>5. ASSUME NEW v \in Visits, LoadPage(v) PROVE TypeOK'
  <2>1. job[v] \in Jobs
    BY <1>5 DEF LoadPage, WorkIsInHand
  <2>2. job[v].client \in Clients
    BY <2>1 DEF Jobs
  <2> QED
    BY <1>5, <2>2 DEF LoadPage
<1>6. ASSUME NEW v \in Visits, StoreClientMessage(v) PROVE TypeOK'
  BY <1>6 DEF StoreClientMessage
<1>7. ASSUME NEW v \in Visits, DraftReply(v) PROVE TypeOK'
  <2>1. job[v] \in Jobs
    BY <1>7 DEF DraftReply, WorkIsInHand
  <2>2. job' \in [Visits -> Jobs \cup {NoJob}]
    BY <1>7, <2>1 DEF DraftReply, Jobs
  <2> QED
    BY <1>7, <2>2 DEF DraftReply
<1>8. ASSUME NEW v \in Visits, FindOpenCard(v) PROVE TypeOK'
  <2>1. job[v] \in Jobs
    BY <1>8 DEF FindOpenCard, WorkIsInHand
  <2>2. job' \in [Visits -> Jobs \cup {NoJob}]
    BY <1>8, <2>1 DEF FindOpenCard, OpenFor, Jobs
  <2> QED
    BY <1>8, <2>2 DEF FindOpenCard
<1>9. ASSUME NEW v \in Visits, OpenCard(v) PROVE TypeOK'
  <2>1. job[v] \in Jobs /\ job[v].thread \in Threads /\ job[v].body \in Bodies
    BY <1>9 DEF OpenCard, WorkIsInHand
  <2>2. job' \in [Visits -> Jobs \cup {NoJob}]
    BY <1>9, <2>1 DEF OpenCard, Jobs
  <2>3. card' \in [Cards -> CardRows \cup {NoCard}]
    BY <1>9, <2>1 DEF OpenCard, CardRows, Statuses
  <2> QED
    BY <1>9, <2>2, <2>3 DEF OpenCard
<1>10. ASSUME NEW v \in Visits, StoreReply(v) PROVE TypeOK'
  <2>1. job[v].thread \in Threads /\ job[v].body \in Bodies /\ job[v].card \in Cards
    BY <1>10 DEF StoreReply, WorkIsInHand
  <2>2. reply' \in [Visits -> Replies \cup {NoReply}]
    BY <1>10, <2>1 DEF StoreReply, Replies
  <2> QED
    BY <1>10, <2>2 DEF StoreReply
<1>11. ASSUME NEW v \in Visits, TouchThread(v) PROVE TypeOK'
  <2>1. job[v] \in Jobs
    BY <1>11 DEF TouchThread, WorkIsInHand
  <2>2. job[v].client \in Clients /\ job[v].thread \in Threads \cup {None}
    BY <2>1 DEF Jobs
  <2> QED
    BY <1>11, <2>2 DEF TouchThread
<1>12. ASSUME NEW v \in Visits, Crash(v) PROVE TypeOK'
  BY <1>12, BoundsAreNat DEF Crash
<1>13. CASE UNCHANGED vars
  BY <1>13 DEF vars
<1> QED
  BY <1>1, <1>2, <1>3, <1>4, <1>5, <1>6, <1>7, <1>8, <1>9, <1>10, <1>11, <1>12, <1>13
     DEF Next, Visit

\* Threads keep their clients.
LEMMA ThreadsStay ==
  ASSUME TypeOK, [Next]_vars, NEW h \in Threads, threadOf[h] # "none"
  PROVE  threadOf'[h] = threadOf[h]
BY DEF TypeOK, Next, vars, Visit, Decide, EditCard, FindThread, CreateThread, LoadPage,
       StoreClientMessage, DraftReply, FindOpenCard, OpenCard, StoreReply, TouchThread, Crash

\* Cards keep what they were drafted for, and approved ones keep everything.
LEMMA CardsStay ==
  ASSUME TypeOK, [Next]_vars, NEW k \in Cards, card[k] \in CardRows
  PROVE  /\ card'[k] \in CardRows
         /\ card'[k].thread = card[k].thread /\ card'[k].drafted = card[k].drafted
         /\ card[k].status = "APPROVED" => card'[k] = card[k]
<1>1. ASSUME NEW j \in Cards, NEW verdict \in {"APPROVED", "REJECTED"}, Decide(j, verdict)
      PROVE  /\ card'[k] \in CardRows
             /\ card'[k].thread = card[k].thread /\ card'[k].drafted = card[k].drafted
             /\ card[k].status = "APPROVED" => card'[k] = card[k]
  BY <1>1 DEF TypeOK, Decide, CardRows, Statuses
<1>2. ASSUME NEW j \in Cards, NEW body \in Bodies, EditCard(j, body)
      PROVE  /\ card'[k] \in CardRows
             /\ card'[k].thread = card[k].thread /\ card'[k].drafted = card[k].drafted
             /\ card[k].status = "APPROVED" => card'[k] = card[k]
  BY <1>2 DEF TypeOK, EditCard, CardRows, Statuses
<1>3. ASSUME NEW v \in Visits, OpenCard(v) PROVE card'[k] = card[k]
  BY <1>3, RowsAreNotNone DEF TypeOK, OpenCard
<1>4. ASSUME NEW v \in Visits, Visit(v), ~OpenCard(v) PROVE card'[k] = card[k]
  BY <1>4 DEF Visit, FindThread, CreateThread, LoadPage, StoreClientMessage, DraftReply,
              FindOpenCard, StoreReply, TouchThread, Crash
<1>5. CASE UNCHANGED vars
  BY <1>5 DEF vars
<1> QED
  BY <1>1, <1>2, <1>3, <1>4, <1>5 DEF Next

LEMMA IsCardStays ==
  ASSUME TypeOK, [Next]_vars, NEW k \in Cards, NEW h, NEW b, IsCardOf(k, h, b)
  PROVE  IsCardOf(k, h, b)'
BY CardsStay DEF IsCardOf

\* A visit is moved by its own steps only.
LEMMA OwnSteps ==
  ASSUME TypeOK, [Next]_vars, NEW v \in Visits
  PROVE  Visit(v) \/ (pc'[v] = pc[v] /\ job'[v] = job[v] /\ reply'[v] = reply[v])
<1>1. ASSUME NEW u \in Visits, Visit(u), u # v
      PROVE  pc'[v] = pc[v] /\ job'[v] = job[v] /\ reply'[v] = reply[v]
  BY <1>1 DEF TypeOK, Visit, GoTo, FindThread, CreateThread, LoadPage, StoreClientMessage,
              DraftReply, FindOpenCard, OpenCard, StoreReply, TouchThread, Crash
<1>2. CASE ~\E u \in Visits : Visit(u)
  BY <1>2 DEF Next, vars, Decide, EditCard
<1> QED
  BY <1>1, <1>2

\* What a visit stored stays.
LEMMA RepliesStay ==
  ASSUME TypeOK, RepliesMatchCards, [Next]_vars, NEW v \in Visits, reply[v] # NoReply
  PROVE  reply'[v] = reply[v]
<1>1. pc[v] \in {"touch", "end"}
  BY DEF RepliesMatchCards
<1>2. CASE Visit(v)
  BY <1>1, <1>2 DEF Visit, FindThread, CreateThread, LoadPage, StoreClientMessage,
              DraftReply, FindOpenCard, OpenCard, StoreReply, TouchThread, Crash
<1> QED
  BY <1>2, OwnSteps

-----------------------------------------------------------------------------
(* The parts of the invariant.                                              *)

LEMMA LatestStep == IInv /\ [Next]_vars => LatestIsTheirs'
<1> SUFFICES ASSUME IInv, [Next]_vars, NEW c \in Clients, latest'[c] # None
             PROVE  threadOf'[latest'[c]] = c
  BY DEF LatestIsTheirs
<1>0. TypeOK /\ LatestIsTheirs /\ WorkIsInHand /\ latest[c] \in Threads \cup {None}
  BY DEF IInv, TypeOK
<1>1. CASE latest'[c] = latest[c]
  BY <1>0, <1>1, ThreadsStay, NoneIsNoClient DEF LatestIsTheirs
<1>2. ASSUME NEW v \in Visits, CreateThread(v), job[v].client = c
      PROVE  threadOf'[latest'[c]] = c
  BY <1>0, <1>2 DEF CreateThread, TypeOK
<1>3. ASSUME NEW v \in Visits, TouchThread(v), job[v].client = c
      PROVE  threadOf'[latest'[c]] = c
  <2>1. job[v].thread \in Threads /\ threadOf[job[v].thread] = c
    BY <1>0, <1>3 DEF TouchThread, WorkIsInHand
  <2>2. threadOf' = threadOf /\ latest'[c] = job[v].thread
    BY <1>0, <1>3 DEF TouchThread, TypeOK
  <2> QED
    BY <2>1, <2>2
<1>4. \/ latest'[c] = latest[c]
      \/ \E v \in Visits : (CreateThread(v) \/ TouchThread(v)) /\ job[v].client = c
  BY <1>0 DEF TypeOK, Next, vars, Visit, Decide, EditCard, FindThread, CreateThread, LoadPage,
       StoreClientMessage, DraftReply, FindOpenCard, OpenCard, StoreReply, TouchThread, Crash
<1> QED
  BY <1>1, <1>2, <1>3, <1>4

WorkOf(v) ==
  /\ pc[v] # "idle" => job[v] \in Jobs
  /\ pc[v] \in {"begin", "draft", "find", "open", "store", "touch"} =>
       job[v].thread \in Threads /\ threadOf[job[v].thread] = job[v].client
  /\ pc[v] \in {"find", "open", "store"} => job[v].body \in Bodies
  /\ pc[v] = "store" =>
       job[v].card \in Cards /\ IsCardOf(job[v].card, job[v].thread, job[v].body)

LEMMA WorkStep == IInv /\ [Next]_vars => WorkIsInHand'
<1> SUFFICES ASSUME IInv, [Next]_vars, NEW v \in Visits PROVE WorkOf(v)'
  BY DEF WorkIsInHand, WorkOf, IsCardOf
<1>0. TypeOK /\ LatestIsTheirs /\ WorkOf(v)
  BY DEF IInv, WorkIsInHand, WorkOf
<1>a. /\ job[v] \in Jobs => job[v].client \in Clients
      /\ \A h \in Threads : threadOf[h] \in Clients => threadOf'[h] = threadOf[h]
  BY <1>0, ThreadsStay, NoneIsNoClient DEF Jobs
<1>1. CASE pc'[v] = pc[v] /\ job'[v] = job[v]
  <2>1. IsCardOf(job[v].card, job[v].thread, job[v].body) /\ job[v].card \in Cards =>
          IsCardOf(job[v].card, job[v].thread, job[v].body)'
    BY <1>0, CardsStay, <1>1 DEF IsCardOf
  <2> QED
    BY <1>0, <1>a, <1>1, <2>1 DEF WorkOf, IsCardOf
<1>2. CASE FindThread(v)
  <2>1. PICK c \in Clients, op \in {"page", "send"} :
          /\ job'[v] = [op |-> op, client |-> c, thread |-> latest[c],
                        body |-> "none", card |-> None]
          /\ pc'[v] = IF latest[c] = None THEN "create" ELSE "begin"
    BY <1>0, <1>2 DEF FindThread, GoTo, TypeOK
  <2>2. job'[v] \in Jobs
    BY <1>0, <2>1 DEF Jobs, TypeOK
  <2>3. pc'[v] = "begin" => latest[c] \in Threads /\ threadOf[latest[c]] = c
    BY <1>0, <2>1 DEF LatestIsTheirs, TypeOK
  <2>4. threadOf' = threadOf
    BY <1>2 DEF FindThread
  <2> QED
    BY <2>1, <2>2, <2>3, <2>4 DEF WorkOf
<1>3. CASE CreateThread(v)
  <2>0. job[v] \in Jobs /\ job[v].client \in Clients
    BY <1>0, <1>3, <1>a DEF CreateThread, WorkOf
  <2>1. PICK h \in Threads : /\ job' = [job EXCEPT ![v].thread = h]
                             /\ threadOf' = [threadOf EXCEPT ![h] = job[v].client]
    BY <1>3 DEF CreateThread
  <2>2. job'[v] \in Jobs /\ job'[v].thread = h /\ job'[v].client = job[v].client
    BY <1>0, <2>0, <2>1 DEF Jobs, TypeOK
  <2>3. threadOf'[h] = job[v].client /\ pc'[v] = "begin"
    BY <1>0, <1>3, <2>1 DEF CreateThread, GoTo, TypeOK
  <2> QED
    BY <2>2, <2>3 DEF WorkOf
<1>4. CASE LoadPage(v) \/ StoreClientMessage(v) \/ TouchThread(v) \/ Crash(v)
  <2>1. /\ pc[v] # "idle" /\ job' = job /\ threadOf' = threadOf
        /\ \/ pc'[v] = "end"
           \/ pc[v] = "begin" /\ pc'[v] = "draft"
    BY <1>0, <1>4 DEF LoadPage, StoreClientMessage, TouchThread, Crash, GoTo, TypeOK
  <2> QED
    BY <1>0, <2>1 DEF WorkOf
<1>5. CASE StoreReply(v)
  <2>1. /\ pc[v] = "store" /\ job' = job /\ threadOf' = threadOf /\ pc'[v] = "touch"
    BY <1>0, <1>5 DEF StoreReply, GoTo, TypeOK
  <2> QED
    BY <1>0, <2>1 DEF WorkOf
<1>6. CASE DraftReply(v)
  <2>1. /\ pc[v] = "draft" /\ job[v] \in Jobs /\ threadOf' = threadOf
        /\ job[v].thread \in Threads /\ threadOf[job[v].thread] = job[v].client
    BY <1>0, <1>6 DEF DraftReply, WorkOf
  <2>2. \/ pc'[v] = "end" /\ job' = job
        \/ pc'[v] = "find" /\ \E b \in Bodies : job' = [job EXCEPT ![v].body = b]
    BY <1>0, <1>6 DEF DraftReply, GoTo, TypeOK
  <2>3. ASSUME NEW b \in Bodies, job' = [job EXCEPT ![v].body = b], pc'[v] = "find"
        PROVE  /\ job'[v] \in Jobs /\ job'[v].thread = job[v].thread
               /\ job'[v].client = job[v].client /\ job'[v].body = b
    BY <1>0, <2>1, <2>3 DEF Jobs, TypeOK
  <2> QED
    BY <2>1, <2>2, <2>3 DEF WorkOf
<1>7. CASE FindOpenCard(v)
  <2>1. /\ pc[v] = "find" /\ job[v] \in Jobs /\ threadOf' = threadOf /\ card' = card
        /\ job[v].thread \in Threads /\ threadOf[job[v].thread] = job[v].client
        /\ job[v].body \in Bodies
    BY <1>0, <1>7 DEF FindOpenCard, WorkOf
  <2>2. \/ pc'[v] = "open" /\ job' = job
        \/ pc'[v] = "store" /\ \E k \in OpenFor(v) : job' = [job EXCEPT ![v].card = k]
    BY <1>0, <1>7 DEF FindOpenCard, GoTo, TypeOK
  <2>3. ASSUME NEW k \in OpenFor(v), job' = [job EXCEPT ![v].card = k], pc'[v] = "store"
        PROVE  WorkOf(v)'
    <3>1. /\ job'[v] \in Jobs /\ job'[v].thread = job[v].thread
          /\ job'[v].client = job[v].client /\ job'[v].body = job[v].body
          /\ job'[v].card = k /\ k \in Cards
      BY <1>0, <2>1, <2>3 DEF Jobs, TypeOK, OpenFor
    <3>2. IsCardOf(k, job[v].thread, job[v].body)
      BY <1>0, <2>3, RowsAreNotNone DEF OpenFor, IsCardOf, TypeOK, Statuses
    <3>3. IsCardOf(job[v].card, job[v].thread, job[v].body)'
      BY <2>1, <3>1, <3>2 DEF IsCardOf
    <3> QED
      BY <2>1, <2>3, <3>1, <3>3 DEF WorkOf, IsCardOf
  <2> QED
    BY <2>1, <2>2, <2>3 DEF WorkOf
<1>8. CASE OpenCard(v)
  <2>1. /\ pc[v] = "open" /\ job[v] \in Jobs /\ threadOf' = threadOf /\ pc'[v] = "store"
        /\ job[v].thread \in Threads /\ threadOf[job[v].thread] = job[v].client
        /\ job[v].body \in Bodies
    BY <1>0, <1>8 DEF OpenCard, WorkOf, GoTo, TypeOK
  <2>2. PICK k \in Cards : /\ job' = [job EXCEPT ![v].card = k]
                           /\ card' = [card EXCEPT ![k] =
                                [thread |-> job[v].thread, drafted |-> job[v].body,
                                 body |-> job[v].body, status |-> "PENDING"]]
    BY <1>8 DEF OpenCard
  <2>3. /\ job'[v] \in Jobs /\ job'[v].thread = job[v].thread
        /\ job'[v].client = job[v].client /\ job'[v].body = job[v].body
        /\ job'[v].card = k
    BY <1>0, <2>1, <2>2 DEF Jobs, TypeOK
  <2>4. IsCardOf(k, job[v].thread, job[v].body)'
    <3>1. card'[k] = [thread |-> job[v].thread, drafted |-> job[v].body,
                      body |-> job[v].body, status |-> "PENDING"]
      BY <1>0, <2>2 DEF TypeOK
    <3> QED
      BY <2>1, <2>3, <3>1 DEF IsCardOf, CardRows, Statuses
  <2> QED
    BY <2>1, <2>3, <2>4 DEF WorkOf, IsCardOf
<1> QED
  BY <1>0, <1>1, <1>2, <1>3, <1>4, <1>5, <1>6, <1>7, <1>8, OwnSteps DEF Visit

LEMMA RepliesStep == IInv /\ [Next]_vars => RepliesMatchCards'
<1> SUFFICES ASSUME IInv, [Next]_vars, NEW v \in Visits
             PROVE  /\ pc'[v] \notin {"touch", "end"} => reply'[v] = NoReply
                    /\ reply'[v] # NoReply =>
                         IsCardOf(reply[v].card, reply[v].thread, reply[v].body)'
  BY DEF RepliesMatchCards, IsCardOf
<1>0. TypeOK /\ RepliesMatchCards /\ WorkIsInHand
  BY DEF IInv
<1>1. CASE reply'[v] = reply[v]
  <2>1. pc'[v] \notin {"touch", "end"} => pc[v] \notin {"touch", "end"}
    <3>1. CASE Visit(v)
      BY <1>0, <3>1 DEF Visit, FindThread, CreateThread, LoadPage, StoreClientMessage,
              DraftReply, FindOpenCard, OpenCard, StoreReply, TouchThread, Crash, GoTo, TypeOK
    <3> QED
      BY <1>0, <3>1, OwnSteps
  <2>2. reply[v] # NoReply => reply[v].card \in Cards
    BY <1>0 DEF TypeOK, Replies
  <2>3. reply[v] # NoReply =>
          IsCardOf(reply[v].card, reply[v].thread, reply[v].body)'
    BY <1>0, <1>1, <2>2, CardsStay DEF RepliesMatchCards, IsCardOf
  <2> QED
    BY <1>0, <1>1, <2>1, <2>3 DEF RepliesMatchCards
<1>2. CASE StoreReply(v)
  <2>1. /\ pc'[v] = "touch" /\ card' = card
        /\ reply'[v] = [thread |-> job[v].thread, body |-> job[v].body, card |-> job[v].card]
    BY <1>0, <1>2 DEF StoreReply, GoTo, TypeOK
  <2>2. IsCardOf(job[v].card, job[v].thread, job[v].body)
    BY <1>0, <1>2 DEF StoreReply, WorkIsInHand
  <2> QED
    BY <2>1, <2>2 DEF IsCardOf
<1>3. reply'[v] = reply[v] \/ StoreReply(v)
  BY <1>0, OwnSteps DEF Visit, FindThread, CreateThread, LoadPage, StoreClientMessage,
              DraftReply, FindOpenCard, OpenCard, TouchThread, Crash
<1> QED
  BY <1>1, <1>2, <1>3

LEMMA SeenStep == IInv /\ [Next]_vars => SeenAreReplies' /\ SeenIsApproved'
<1> SUFFICES ASSUME IInv, [Next]_vars, NEW s \in seen'
             PROVE  /\ reply'[s[2]] # NoReply
                    /\ threadOf'[reply'[s[2]].thread] = s[1]
                    /\ card'[reply'[s[2]].card].status = "APPROVED"
                    /\ card'[reply'[s[2]].card].thread = reply'[s[2]].thread
                    /\ card'[reply'[s[2]].card].drafted = reply'[s[2]].body
  BY DEF SeenAreReplies, SeenIsApproved
<1> DEFINE m == reply[s[2]]
<1>0. TypeOK /\ RepliesMatchCards /\ WorkIsInHand /\ TypeOK'
  BY TypeStep DEF IInv
<1>1. s[1] \in Clients /\ s[2] \in Visits
  BY <1>0 DEF TypeOK
<1>2. ASSUME m # NoReply, threadOf[m.thread] = s[1], card[m.card].status = "APPROVED",
             card[m.card].thread = m.thread, card[m.card].drafted = m.body
      PROVE  /\ reply'[s[2]] # NoReply
             /\ threadOf'[reply'[s[2]].thread] = s[1]
             /\ card'[reply'[s[2]].card].status = "APPROVED"
             /\ card'[reply'[s[2]].card].thread = reply'[s[2]].thread
             /\ card'[reply'[s[2]].card].drafted = reply'[s[2]].body
  <2>1. m.thread \in Threads /\ m.card \in Cards
    BY <1>0, <1>1, <1>2 DEF TypeOK, Replies
  <2>2. reply'[s[2]] = m
    BY <1>0, <1>1, <1>2, RepliesStay
  <2>3. threadOf'[m.thread] = threadOf[m.thread]
    BY <1>0, <1>1, <1>2, <2>1, ThreadsStay, NoneIsNoClient
  <2>4. card[m.card] \in CardRows
    BY <1>0, <1>1, <1>2 DEF RepliesMatchCards, IsCardOf
  <2>5. card'[m.card] = card[m.card]
    BY <1>0, <1>2, <2>1, <2>4, CardsStay
  <2> QED
    BY <1>2, <2>2, <2>3, <2>5
<1>3. CASE s \in seen
  <2>1. m # NoReply
    BY <1>3 DEF IInv, SeenAreReplies
  <2>2. /\ threadOf[m.thread] = s[1] /\ card[m.card].status = "APPROVED"
        /\ card[m.card].thread = m.thread /\ card[m.card].drafted = m.body
    BY <1>3 DEF IInv, SeenIsApproved
  <2> QED
    BY <1>2, <2>1, <2>2
<1>4. ASSUME NEW v \in Visits, LoadPage(v), s \notin seen
      PROVE  /\ m # NoReply /\ threadOf[m.thread] = s[1] /\ card[m.card].status = "APPROVED"
             /\ card[m.card].thread = m.thread /\ card[m.card].drafted = m.body
  <2>1. /\ s[1] = job[v].client /\ Shown(s[2]) /\ m.thread = job[v].thread /\ pc[v] = "begin"
    BY <1>4 DEF LoadPage
  <2>2. m # NoReply /\ card[m.card].status = "APPROVED"
    BY <2>1, RowsAreNotNone DEF Shown
  <2>3. card[m.card].thread = m.thread /\ card[m.card].drafted = m.body
    BY <1>0, <1>1, <2>2 DEF RepliesMatchCards, IsCardOf
  <2>4. threadOf[job[v].thread] = job[v].client
    BY <1>0, <2>1 DEF WorkIsInHand
  <2> QED
    BY <2>1, <2>2, <2>3, <2>4
<1>5. s \in seen \/ \E v \in Visits : LoadPage(v)
  BY DEF Next, vars, Visit, Decide, EditCard, FindThread, CreateThread,
       StoreClientMessage, DraftReply, FindOpenCard, OpenCard, StoreReply, TouchThread, Crash
<1> QED
  BY <1>2, <1>3, <1>4, <1>5

LEMMA WantedStep == IInv /\ [Next]_vars => CardsAreWanted'
<1> SUFFICES ASSUME IInv, [Next]_vars, crashes' = 0, NEW k \in Cards, card'[k] # NoCard
             PROVE  CardIsWanted(k)'
  BY DEF CardsAreWanted, CardIsWanted
<1>0. TypeOK /\ RepliesMatchCards /\ CardsAreWanted
  BY DEF IInv
<1>1. /\ crashes = 0
      /\ \A v \in Visits : ~Crash(v)
  BY <1>0 DEF TypeOK, Next, vars, Visit, Decide, EditCard, FindThread, CreateThread, LoadPage,
       StoreClientMessage, DraftReply, FindOpenCard, OpenCard, StoreReply, TouchThread, Crash
<1>2. CASE card[k] # NoCard
  <2>1. PICK v \in Visits : reply[v].card = k \/ (pc[v] = "store" /\ job[v].card = k)
    BY <1>0, <1>1, <1>2 DEF CardsAreWanted, CardIsWanted
  <2>2. CASE reply[v].card = k
    <3>1. reply[v] # NoReply
      BY <2>2, RowsAreNotNone DEF Cards, None
    <3>2. reply'[v] = reply[v]
      BY <1>0, <3>1, RepliesStay
    <3> QED
      BY <2>2, <3>2 DEF CardIsWanted
  <2>3. CASE StoreReply(v) /\ job[v].card = k
    <3>1. reply'[v].card = k
      BY <1>0, <2>3 DEF StoreReply, TypeOK
    <3> QED
      BY <3>1 DEF CardIsWanted
  <2>4. CASE pc[v] = "store" /\ job[v].card = k /\ ~StoreReply(v)
    <3>1. ~Visit(v)
      BY <1>1, <2>4 DEF Visit, FindThread, CreateThread, LoadPage, StoreClientMessage,
              DraftReply, FindOpenCard, OpenCard, TouchThread
    <3>2. pc'[v] = "store" /\ job'[v].card = k
      BY <1>0, <2>4, <3>1, OwnSteps
    <3> QED
      BY <3>2 DEF CardIsWanted
  <2> QED
    BY <2>1, <2>2, <2>3, <2>4
<1>3. ASSUME card[k] = NoCard, NEW v \in Visits, OpenCard(v) PROVE CardIsWanted(k)'
  <2>1. job[v] \in Jobs
    BY <1>3 DEF IInv, WorkIsInHand, OpenCard
  <2>2. PICK j \in Cards : job' = [job EXCEPT ![v].card = j] /\ (k = j \/ card'[k] = card[k])
    BY <1>0, <1>3 DEF OpenCard, TypeOK
  <2>3. k = j
    BY <1>3, <2>2
  <2>4. pc'[v] = "store" /\ job'[v].card = k
    BY <1>0, <1>3, <2>1, <2>2, <2>3 DEF OpenCard, GoTo, TypeOK, Jobs
  <2> QED
    BY <2>4 DEF CardIsWanted
<1>4. CASE card[k] = NoCard /\ \A v \in Visits : ~OpenCard(v)
  <2>1. card[k].status # "PENDING"
    BY <1>4 DEF NoCard
  <2>2. card'[k] = card[k]
    BY <1>0, <1>4, <2>1 DEF TypeOK, Next, vars, Visit, Decide, EditCard, FindThread,
       CreateThread, LoadPage, StoreClientMessage, DraftReply, FindOpenCard, StoreReply,
       TouchThread, Crash
  <2> QED
    BY <1>4, <2>2
<1> QED
  BY <1>2, <1>3, <1>4

LEMMA ClientsStep == IInv /\ [Next]_vars => CardsHaveClients'
<1> SUFFICES ASSUME IInv, [Next]_vars, NEW k \in Cards, card'[k] # NoCard
             PROVE  threadOf'[card'[k].thread] \in Clients
  BY DEF CardsHaveClients
<1>0. TypeOK /\ WorkIsInHand /\ CardsHaveClients
  BY DEF IInv
<1>1. CASE card[k] # NoCard
  <2>1. card[k] \in CardRows /\ card[k].thread \in Threads
    BY <1>0, <1>1 DEF TypeOK, CardRows
  <2>2. card'[k].thread = card[k].thread
    BY <1>0, <2>1, CardsStay
  <2>3. threadOf[card[k].thread] \in Clients
    BY <1>0, <1>1 DEF CardsHaveClients
  <2> QED
    BY <1>0, <2>1, <2>2, <2>3, ThreadsStay, NoneIsNoClient
<1>2. ASSUME NEW v \in Visits, OpenCard(v), card[k] = NoCard
      PROVE  threadOf'[card'[k].thread] \in Clients
  <2>1. /\ job[v] \in Jobs /\ threadOf' = threadOf
        /\ threadOf[job[v].thread] = job[v].client
    BY <1>0, <1>2 DEF OpenCard, WorkIsInHand
  <2>2. card'[k] = card[k] \/ card'[k].thread = job[v].thread
    BY <1>0, <1>2 DEF OpenCard, TypeOK
  <2> QED
    BY <1>2, <2>1, <2>2 DEF Jobs
<1>3. CASE card[k] = NoCard /\ \A v \in Visits : ~OpenCard(v)
  <2>1. card[k].status # "PENDING"
    BY <1>3 DEF NoCard
  <2>2. card'[k] = card[k]
    BY <1>0, <1>3, <2>1 DEF TypeOK, Next, vars, Visit, Decide, EditCard, FindThread,
       CreateThread, LoadPage, StoreClientMessage, DraftReply, FindOpenCard, StoreReply,
       TouchThread, Crash
  <2> QED
    BY <1>3, <2>2
<1> QED
  BY <1>1, <1>2, <1>3

\* The invariant from which the theorems follow.
THEOREM ChatInvariant == Spec => []IInv
<1>1. IInv /\ [Next]_vars => IInv'
  <2> SUFFICES ASSUME IInv, [Next]_vars PROVE IInv'
    OBVIOUS
  <2>1. TypeOK'
    BY TypeStep DEF IInv
  <2> QED
    BY <2>1, LatestStep, WorkStep, RepliesStep, ClientsStep, SeenStep, WantedStep DEF IInv
<1> QED
  BY InitInv, <1>1, PTL DEF Spec

\* Every reachable state of the chat is well typed.
THEOREM ChatTypeCorrect == Spec => []TypeOK
BY ChatInvariant, PTL DEF IInv

\* A client is shown (loadVisibleMessages) only replies of their own thread whose card
\* the owner approved, drafted in that thread with those words.
THEOREM SeenWasApproved == Spec => []SeenIsApproved
BY ChatInvariant, PTL DEF IInv

\* Short of a crash, an approved card (check) has its message, or a visit about to
\* store it (runPortalChatTurn).
THEOREM ApprovedWasDelivered == Spec => []ApprovedIsDelivered
<1>1. IInv => ApprovedIsDelivered
  <2> SUFFICES ASSUME IInv, crashes = 0, NEW k \in Cards, card[k].status = "APPROVED"
               PROVE  CardIsWanted(k)
    BY DEF ApprovedIsDelivered, CardIsWanted
  <2>1. card[k] # NoCard
    BY DEF NoCard
  <2> QED
    BY <2>1 DEF IInv, CardsAreWanted
<1> QED
  BY <1>1, ChatInvariant, PTL

-----------------------------------------------------------------------------
(* The chat implements the standing promise.                                *)

GrantOf(k) == <<threadOf[card[k].thread], card[k].drafted>>
DeedOf(s)  == <<s[1], reply[s[2]].body>>
Grants == {GrantOf(k) : k \in Approved}
Deeds  == {DeedOf(s) : s \in seen}

LEMMA ApprovedAreRows ==
  ASSUME IInv, NEW k \in Cards, card[k].status \in Statuses
  PROVE  card[k] \in CardRows /\ GrantOf(k) \in Clients \X Bodies
<1>1. card[k] \in CardRows /\ card[k] # NoCard
  BY RowsAreNotNone DEF IInv, TypeOK
<1>2. threadOf[card[k].thread] \in Clients /\ card[k].drafted \in Bodies
  BY <1>1 DEF IInv, CardsHaveClients, CardRows
<1> QED
  BY <1>1, <1>2 DEF GrantOf

\* A grant keeps its client and its words, and what was shown keeps its own.
LEMMA GrantsStay ==
  ASSUME IInv, [Next]_vars
  PROVE  /\ \A k \in Cards : card[k].status \in Statuses => GrantOf(k)' = GrantOf(k)
         /\ Approved \subseteq Approved'
         /\ Deeds \subseteq Deeds'
<1>0. TypeOK /\ RepliesMatchCards /\ SeenAreReplies
  BY DEF IInv
<1>1. ASSUME NEW k \in Cards, card[k].status \in Statuses
      PROVE  /\ GrantOf(k)' = GrantOf(k)
             /\ card[k].status = "APPROVED" => card'[k].status = "APPROVED"
  <2>1. /\ card[k] \in CardRows /\ card[k].thread \in Threads
        /\ threadOf[card[k].thread] \in Clients
    BY <1>1, ApprovedAreRows DEF CardRows, GrantOf
  <2>2. /\ card'[k].thread = card[k].thread /\ card'[k].drafted = card[k].drafted
        /\ card[k].status = "APPROVED" => card'[k] = card[k]
    BY <1>0, <2>1, CardsStay
  <2>3. threadOf'[card[k].thread] = threadOf[card[k].thread]
    BY <1>0, <2>1, ThreadsStay, NoneIsNoClient
  <2> QED
    BY <2>2, <2>3 DEF GrantOf
<1>2. Approved \subseteq Approved'
  BY <1>1 DEF Approved, Statuses
<1>3. ASSUME NEW s \in seen PROVE s \in seen' /\ DeedOf(s)' = DeedOf(s)
  <2>1. s[2] \in Visits /\ reply[s[2]] # NoReply
    BY <1>0 DEF TypeOK, SeenAreReplies
  <2>2. reply'[s[2]] = reply[s[2]]
    BY <1>0, <2>1, RepliesStay
  <2>3. s \in seen'
    BY DEF Next, vars, Visit, Decide, EditCard, FindThread, CreateThread, LoadPage,
       StoreClientMessage, DraftReply, FindOpenCard, OpenCard, StoreReply, TouchThread, Crash
  <2> QED
    BY <2>2, <2>3 DEF DeedOf
<1> QED
  BY <1>1, <1>2, <1>3 DEF Deeds

\* All that clients were shown was granted.
LEMMA DeedsAreGranted == IInv => Deeds \subseteq Grants /\ Grants \subseteq Clients \X Bodies
<1> SUFFICES ASSUME IInv PROVE Deeds \subseteq Grants /\ Grants \subseteq Clients \X Bodies
  OBVIOUS
<1>1. ASSUME NEW s \in seen PROVE DeedOf(s) \in Grants
  <2> DEFINE k == reply[s[2]].card
  <2>1. s[2] \in Visits /\ reply[s[2]] # NoReply
    BY DEF IInv, TypeOK, SeenAreReplies
  <2>2. k \in Cards
    BY <2>1 DEF IInv, TypeOK, Replies
  <2>3. card[k].status = "APPROVED" /\ GrantOf(k) = DeedOf(s)
    BY DEF IInv, SeenIsApproved, GrantOf, DeedOf
  <2> QED
    BY <2>2, <2>3 DEF Grants, Approved
<1>2. Grants \subseteq Clients \X Bodies
  BY ApprovedAreRows DEF Grants, Approved, Statuses
<1> QED
  BY <1>1, <1>2 DEF Deeds

\* Only an owner's approval grants anything, one card at a time.
LEMMA GrantsGrow ==
  ASSUME IInv, [Next]_vars
  PROVE  \/ Approved' = Approved
         \/ \E k \in Cards :
              /\ card[k].status = "PENDING" /\ Approved' = Approved \cup {k}
              /\ seen' = seen /\ reply' = reply
<1> DEFINE Grow ==
      \/ Approved' = Approved
      \/ \E k \in Cards :
           /\ card[k].status = "PENDING" /\ Approved' = Approved \cup {k}
           /\ seen' = seen /\ reply' = reply
<1>0. TypeOK
  BY DEF IInv
<1>1. ASSUME NEW k \in Cards, NEW verdict \in {"APPROVED", "REJECTED"}, Decide(k, verdict)
      PROVE  Grow
  <2>1. card[k] \in CardRows
    BY <1>0, <1>1, RowsAreNotNone DEF Decide, TypeOK, Statuses
  <2>2. /\ card[k].status = "PENDING" /\ card'[k].status = verdict
        /\ \A j \in Cards : j # k => card'[j] = card[j]
        /\ seen' = seen /\ reply' = reply
    BY <1>0, <1>1, <2>1 DEF Decide, TypeOK, CardRows
  <2>3. Approved' = IF verdict = "APPROVED" THEN Approved \cup {k} ELSE Approved
    BY <2>2 DEF Approved
  <2> QED
    BY <2>2, <2>3
<1>2. ASSUME NEW k \in Cards, NEW body \in Bodies, EditCard(k, body) PROVE Grow
  <2>1. card[k] \in CardRows
    BY <1>0, <1>2, RowsAreNotNone DEF EditCard, TypeOK, Statuses
  <2>2. \A j \in Cards : card'[j].status = card[j].status
    BY <1>0, <1>2, <2>1 DEF EditCard, TypeOK, CardRows
  <2> QED
    BY <2>2 DEF Approved
<1>3. ASSUME NEW v \in Visits, OpenCard(v) PROVE Grow
  <2>1. PICK k \in Cards :
          /\ card[k] = NoCard
          /\ card' = [card EXCEPT ![k] =
               [thread |-> job[v].thread, drafted |-> job[v].body,
                body |-> job[v].body, status |-> "PENDING"]]
    BY <1>3 DEF OpenCard
  <2>2. card[k].status # "APPROVED" /\ card'[k].status # "APPROVED"
    BY <1>0, <2>1 DEF NoCard, TypeOK
  <2>3. \A j \in Cards : j # k => card'[j] = card[j]
    BY <1>0, <2>1 DEF TypeOK
  <2> QED
    BY <2>2, <2>3 DEF Approved
<1>4. ASSUME NEW v \in Visits, Visit(v), ~OpenCard(v) PROVE Grow
  <2>1. card' = card
    BY <1>4 DEF Visit, FindThread, CreateThread, LoadPage, StoreClientMessage, DraftReply,
                FindOpenCard, StoreReply, TouchThread, Crash
  <2> QED
    BY <2>1 DEF Approved
<1>5. CASE UNCHANGED vars
  BY <1>5 DEF vars, Approved
<1> QED
  BY <1>1, <1>2, <1>3, <1>4, <1>5 DEF Next

LEMMA PromiseStep == IInv /\ IInv' /\ [Next]_vars => [Promise!Next]_(Promise!vars)
<1> SUFFICES ASSUME IInv, IInv', [Next]_vars PROVE Promise!Next
  OBVIOUS
<1>1. CASE Approved' = Approved
  <2>1. Grants' = Grants
    BY <1>1, GrantsStay DEF Grants, Approved, Statuses
  <2>2. PICK D : D = Deeds'
    OBVIOUS
  <2>3. D \subseteq Grants /\ D \in SUBSET (Clients \X Bodies)
    <3>1. (Deeds \subseteq Grants /\ Grants \subseteq Clients \X Bodies)'
      BY DeedsAreGranted, PTL
    <3> QED
      BY <2>1, <2>2, <3>1
  <2>4. Deeds' = Deeds \cup D
    BY <2>2, GrantsStay
  <2>5. Promise!Perform(D)
    BY <2>1, <2>3, <2>4 DEF Promise!Perform, Grants, Deeds, GrantOf, DeedOf
  <2> QED
    BY <2>3, <2>5 DEF Promise!Next
<1>2. ASSUME NEW k \in Cards, card[k].status = "PENDING", Approved' = Approved \cup {k},
             seen' = seen, reply' = reply
      PROVE  Promise!Next
  <2>1. PICK d : d = GrantOf(k)
    OBVIOUS
  <2>2. d \in Clients \X Bodies
    BY <1>2, <2>1, ApprovedAreRows DEF Statuses
  <2>3. \A j \in Approved' : GrantOf(j)' = GrantOf(j)
    BY <1>2, GrantsStay DEF Approved, Statuses
  <2>4. Grants' = Grants \cup {d} /\ Deeds' = Deeds
    BY <1>2, <2>1, <2>3 DEF Grants, Deeds, DeedOf
  <2>5. Promise!Approve(d)
    BY <2>4 DEF Promise!Approve, Grants, Deeds, GrantOf, DeedOf
  <2> QED
    BY <2>2, <2>5 DEF Promise!Next
<1> QED
  BY <1>1, <1>2, GrantsGrow

LEMMA PromiseInit == Init => Promise!Init
BY DEF Init, Promise!Init, Approved, NoCard

\* The chat implements the standing promise, "agents draft, a human approves": a client
\* is shown (loadVisibleMessages) only words that the owner approved for that client
\* in an earlier step, for any visits, edits, decisions and crashes.
THEOREM ChatKeepsPromise == Spec => KeepsPromise
BY PromiseInit, PromiseStep, ChatInvariant, PTL DEF Spec, Promise!Spec, KeepsPromise

-----------------------------------------------------------------------------
(* What the promise of owner-approval-gate-prisma.ts takes.                 *)

\* The card still has the words it was drafted with.
IsAsDrafted(k) == card[k] # NoCard => card[k].body = card[k].drafted

LEMMA AsDraftedStep ==
  ASSUME IInv, NEW k \in Cards, IsAsDrafted(k), [Next]_vars,
         [\A body \in Bodies : ~EditCard(k, body)]_vars
  PROVE  IsAsDrafted(k)'
<1>0. TypeOK
  BY DEF IInv
<1>1. ASSUME NEW j \in Cards, NEW verdict \in {"APPROVED", "REJECTED"}, Decide(j, verdict)
      PROVE  IsAsDrafted(k)'
  <2>1. card[j] \in CardRows /\ card[j] # NoCard
    BY <1>0, <1>1, RowsAreNotNone DEF Decide, TypeOK, Statuses
  <2> QED
    BY <1>0, <1>1, <2>1 DEF Decide, IsAsDrafted, TypeOK, CardRows
<1>2. ASSUME NEW j \in Cards, NEW body \in Bodies, EditCard(j, body) PROVE IsAsDrafted(k)'
  <2>1. j # k \/ card' = card
    BY <1>2 DEF vars
  <2> QED
    BY <1>0, <1>2, <2>1 DEF EditCard, IsAsDrafted, TypeOK
<1>3. ASSUME NEW v \in Visits, OpenCard(v) PROVE IsAsDrafted(k)'
  BY <1>0, <1>3 DEF OpenCard, IsAsDrafted, TypeOK
<1>4. ASSUME NEW v \in Visits, Visit(v), ~OpenCard(v) PROVE card' = card
  BY <1>4 DEF Visit, FindThread, CreateThread, LoadPage, StoreClientMessage, DraftReply,
              FindOpenCard, StoreReply, TouchThread, Crash
<1>5. CASE UNCHANGED vars
  BY <1>5 DEF vars, IsAsDrafted
<1> QED
  BY <1>1, <1>2, <1>3, <1>4, <1>5 DEF Next, IsAsDrafted

\* "The owner sees exactly what would be sent" (owner-approval-gate-prisma.ts:7) fails
\* for one reason only: an edit of the very card.  Overlapping visits, drafts that
\* share a card, edits of other cards and crashes do not break it.
THEOREM SeenAsApprovedUnlessEdited ==
  ASSUME NEW k \in Cards
  PROVE  Spec /\ NeverEdited(k) =>
           [](\A s \in seen : reply[s[2]].card = k => reply[s[2]].body = card[k].body)
<1>1. Init => IsAsDrafted(k)
  BY DEF Init, IsAsDrafted
<1>2. IInv /\ IsAsDrafted(k) /\ [Next]_vars
      /\ [\A body \in Bodies : ~EditCard(k, body)]_vars => IsAsDrafted(k)'
  BY AsDraftedStep
<1>3. IInv /\ IsAsDrafted(k) =>
        \A s \in seen : reply[s[2]].card = k => reply[s[2]].body = card[k].body
  BY DEF IInv, SeenIsApproved, IsAsDrafted, NoCard
<1> QED
  BY ChatInvariant, <1>1, <1>2, <1>3, PTL DEF Spec, NeverEdited
=============================================================================
