----------------------------- MODULE PortalChat ------------------------------
(***************************************************************************)
(* The chat of a customer's own clients (lib/portal/chat.ts) and the gate   *)
(* its replies pass (lib/portal/owner-approval-gate-prisma.ts).  A visit    *)
(* is one call of the chat page or of its send action; a reply drafted for  *)
(* the client becomes a card in the owner's queue, and the client is shown  *)
(* it while that card is approved.  Visits of one client overlap: two tabs, *)
(* a message sent while the reply to the last one is being drafted.         *)
(***************************************************************************)
EXTENDS Naturals

CONSTANTS Clients,
          Visits,      \* calls of the page or of sendPortalMessageAction
          Bodies,      \* what the model or the owner may write
          MaxThreads,  \* bound of the threads
          MaxCards,    \* bound of the cards
          MaxCrashes   \* bound of the visits that die half way

ASSUME BoundsAreNat ==
  /\ MaxThreads \in Nat /\ MaxCards \in Nat /\ MaxCrashes \in Nat

ASSUME NoneIsNoClient == "none" \notin Clients

Threads == 1 .. MaxThreads
Cards   == 1 .. MaxCards
None    == 0

VARIABLES threadOf, \* threadOf[h]: the client thread h is for, or "none"
          latest,   \* latest[c]: the thread of c that was updated last
          card,     \* card[k]: the PORTAL_CLIENT_MESSAGE row, or NoCard
          reply,    \* reply[v]: the PLAINO message stored by visit v, or NoReply
          seen,     \* history: <<c, v>> when client c was shown the reply of v
          job,      \* job[v]: what visit v is, and what it has in hand
          pc,       \* pc[v]: how far it is
          crashes

vars == <<threadOf, latest, card, reply, seen, job, pc, crashes>>

Statuses == {"PENDING", "APPROVED", "REJECTED"}

\* drafted is the body refId is the fingerprint of; body what an edit replaces.
CardRows == [thread : Threads, drafted : Bodies, body : Bodies, status : Statuses]
NoCard   == [status |-> "none"]

Replies == [thread : Threads, body : Bodies, card : Cards]
NoReply == [card |-> None]

Jobs == [op : {"page", "send"}, client : Clients, thread : Threads \cup {None},
         body : Bodies \cup {"none"}, card : Cards \cup {None}]
NoJob == [op |-> "none"]

PCs == {"idle", "create", "begin", "draft", "find", "open", "store", "touch", "end"}

TypeOK ==
  /\ threadOf \in [Threads -> Clients \cup {"none"}]
  /\ latest \in [Clients -> Threads \cup {None}]
  /\ card \in [Cards -> CardRows \cup {NoCard}]
  /\ reply \in [Visits -> Replies \cup {NoReply}]
  /\ seen \in SUBSET (Clients \X Visits)
  /\ job \in [Visits -> Jobs \cup {NoJob}]
  /\ pc \in [Visits -> PCs]
  /\ crashes \in 0 .. MaxCrashes

Init ==
  /\ threadOf = [h \in Threads |-> "none"]
  /\ latest = [c \in Clients |-> None]
  /\ card = [k \in Cards |-> NoCard]
  /\ reply = [v \in Visits |-> NoReply]
  /\ seen = {}
  /\ job = [v \in Visits |-> NoJob]
  /\ pc = [v \in Visits |-> "idle"]
  /\ crashes = 0

-----------------------------------------------------------------------------
(* The owner, in the approval queue (ApprovalQueue): an edit replaces the    *)
(* body of the payload and nothing else; both updates name the status.      *)

Decide(k, verdict) ==
  /\ card[k].status = "PENDING"
  /\ card' = [card EXCEPT ![k].status = verdict]
  /\ UNCHANGED <<threadOf, latest, reply, seen, job, pc, crashes>>

EditCard(k, body) ==
  /\ card[k].status = "PENDING"
  /\ card' = [card EXCEPT ![k].body = body]
  /\ UNCHANGED <<threadOf, latest, reply, seen, job, pc, crashes>>

-----------------------------------------------------------------------------
(* A visit.                                                                 *)

GoTo(v, l) == pc' = [pc EXCEPT ![v] = l]

\* ensurePortalThread: the client's thread with the latest updatedAt.
FindThread(v) ==
  /\ pc[v] = "idle"
  /\ \E c \in Clients, op \in {"page", "send"} :
       /\ job' = [job EXCEPT ![v] = [op |-> op, client |-> c, thread |-> latest[c],
                                     body |-> "none", card |-> None]]
       /\ GoTo(v, IF latest[c] = None THEN "create" ELSE "begin")
  /\ UNCHANGED <<threadOf, latest, card, reply, seen, crashes>>

CreateThread(v) ==
  /\ pc[v] = "create"
  /\ \E h \in Threads :
       /\ threadOf[h] = "none" /\ \A g \in Threads : g < h => threadOf[g] # "none"
       /\ threadOf' = [threadOf EXCEPT ![h] = job[v].client]
       /\ latest' = [latest EXCEPT ![job[v].client] = h]
       /\ job' = [job EXCEPT ![v].thread = h]
  /\ GoTo(v, "begin")
  /\ UNCHANGED <<card, reply, seen, crashes>>

\* isPortalMessageVisibleToClient, of a PLAINO message.
Shown(u) ==
  /\ reply[u].card # None
  /\ card[reply[u].card].status = "APPROVED"

\* loadVisibleMessages.  Its two statements are one step: messages are only added,
\* so the second one's answer is about all that the first one found.
LoadPage(v) ==
  /\ pc[v] = "begin" /\ job[v].op = "page"
  /\ seen' = seen \cup {<<job[v].client, u>> :
                          u \in {u \in Visits : Shown(u) /\ reply[u].thread = job[v].thread}}
  /\ GoTo(v, "end")
  /\ UNCHANGED <<threadOf, latest, card, reply, job, crashes>>

\* runPortalChatTurn stores the client's own message, which is always shown.  In
\* degraded mode it does nothing.
StoreClientMessage(v) ==
  /\ pc[v] = "begin" /\ job[v].op = "send"
  /\ \E degraded \in BOOLEAN : GoTo(v, IF degraded THEN "end" ELSE "draft")
  /\ UNCHANGED <<threadOf, latest, card, reply, seen, job, crashes>>

\* The model writes anything, or fails, or the history does not end with the client.
DraftReply(v) ==
  /\ pc[v] = "draft"
  /\ \/ \E b \in Bodies :
          /\ job' = [job EXCEPT ![v].body = b]
          /\ GoTo(v, "find")
     \/ GoTo(v, "end") /\ UNCHANGED job
  /\ UNCHANGED <<threadOf, latest, card, reply, seen, crashes>>

\* Fault: a thread has one pending card at a time.
OpenOfThread(v) ==
  {k \in Cards : card[k].status = "PENDING" /\ card[k].thread = job[v].thread}

\* The pending card with the fingerprint of this thread and this body.
OpenFor(v) ==
  {k \in Cards : /\ card[k].status = "PENDING" /\ card[k].thread = job[v].thread
                 /\ card[k].drafted = job[v].body}

\* check, without a token: find ...
FindOpenCard(v) ==
  /\ pc[v] = "find"
  /\ \/ \E k \in OpenFor(v) : /\ job' = [job EXCEPT ![v].card = k]
                              /\ GoTo(v, "store")
     \/ OpenFor(v) = {} /\ GoTo(v, "open") /\ UNCHANGED job
  /\ UNCHANGED <<threadOf, latest, card, reply, seen, crashes>>

\* ... or create.
OpenCard(v) ==
  /\ pc[v] = "open"
  /\ \E k \in Cards :
       /\ card[k] = NoCard /\ \A j \in Cards : j < k => card[j] # NoCard
       /\ card' = [card EXCEPT ![k] =
            [thread |-> job[v].thread, drafted |-> job[v].body,
             body |-> job[v].body, status |-> "PENDING"]]
       /\ job' = [job EXCEPT ![v].card = k]
  /\ GoTo(v, "store")
  /\ UNCHANGED <<threadOf, latest, reply, seen, crashes>>

\* Fault: a reply the owner has decided in the meantime needs no message.
StoreIfPending(v) ==
  /\ pc[v] = "store"
  /\ reply' = IF card[job[v].card].status = "PENDING"
              THEN [reply EXCEPT ![v] = [thread |-> job[v].thread, body |-> job[v].body,
                                         card |-> job[v].card]]
              ELSE reply
  /\ GoTo(v, "touch")
  /\ UNCHANGED <<threadOf, latest, card, seen, job, crashes>>

\* Fault: the message keeps the draft and not the thread.
StoreDraft(v) ==
  /\ pc[v] = "store"
  /\ reply' = [reply EXCEPT ![v] = [body |-> job[v].body, card |-> job[v].card]]
  /\ GoTo(v, "touch")
  /\ UNCHANGED <<threadOf, latest, card, seen, job, crashes>>

\* The message keeps the body as it was drafted, and the card's id.
StoreReply(v) ==
  /\ pc[v] = "store"
  /\ reply' = [reply EXCEPT ![v] = [thread |-> job[v].thread, body |-> job[v].body,
                                    card |-> job[v].card]]
  /\ GoTo(v, "touch")
  /\ UNCHANGED <<threadOf, latest, card, seen, job, crashes>>

TouchThread(v) ==
  /\ pc[v] = "touch"
  /\ latest' = [latest EXCEPT ![job[v].client] = job[v].thread]
  /\ GoTo(v, "end")
  /\ UNCHANGED <<threadOf, card, reply, seen, job, crashes>>

\* The instance dies, or a statement throws.
Crash(v) ==
  /\ pc[v] \notin {"idle", "end"} /\ crashes < MaxCrashes
  /\ crashes' = crashes + 1
  /\ GoTo(v, "end")
  /\ UNCHANGED <<threadOf, latest, card, reply, seen, job>>

Visit(v) == \/ FindThread(v) \/ CreateThread(v) \/ LoadPage(v)
            \/ StoreClientMessage(v) \/ DraftReply(v)
            \/ FindOpenCard(v) \/ OpenCard(v) \/ StoreReply(v) \/ TouchThread(v)
            \/ Crash(v)

Next == \/ \E k \in Cards, verdict \in {"APPROVED", "REJECTED"} : Decide(k, verdict)
        \/ \E k \in Cards, body \in Bodies : EditCard(k, body)
        \/ \E v \in Visits : Visit(v)

Spec == Init /\ [][Next]_vars

-----------------------------------------------------------------------------
(* What the chat guarantees however visits, edits and decisions interleave. *)

\* A client was shown a reply only if it is theirs and the owner approved the card
\* drafted for it, in its thread and with its words; and an approval is for ever,
\* so what was shown stays (the fingerprint of the find-or-create, the live status
\* of loadVisibleMessages).
SeenIsApproved ==
  \A s \in seen :
    LET m == reply[s[2]]
        k == card[m.card]
    IN  /\ threadOf[m.thread] = s[1]
        /\ k.status = "APPROVED" /\ k.thread = m.thread /\ k.drafted = m.body

\* An approval is not given in vain: short of a crash, an approved card has its
\* message, or a visit about to store it, though the card is committed first and
\* the owner may be quicker than the visit.
ApprovedIsDelivered ==
  crashes = 0 => \A k \in Cards : card[k].status = "APPROVED" =>
    \E v \in Visits : \/ reply[v].card = k
                      \/ pc[v] = "store" /\ job[v].card = k

\* The chat keeps the standing promise (ApprovedFirst): a deed is a text for a
\* client, approved with the card of the client's thread that was drafted with it,
\* done when the client is shown it.
Approved == {k \in Cards : card[k].status = "APPROVED"}
Promise == INSTANCE ApprovedFirst WITH
             Deeds    <- Clients \X Bodies,
             approved <- {<<threadOf[card[k].thread], card[k].drafted>> : k \in Approved},
             done     <- {<<s[1], reply[s[2]].body>> : s \in seen}
KeepsPromise == Promise!Spec

-----------------------------------------------------------------------------
(* What makes them inductive (PortalChatProofs).                            *)

LatestIsTheirs == \A c \in Clients : latest[c] # None => threadOf[latest[c]] = c

IsCardOf(k, h, b) == card[k] \in CardRows /\ card[k].thread = h /\ card[k].drafted = b

\* A visit under way has a thread of its client, then a body, then a card for both.
WorkIsInHand ==
  \A v \in Visits :
    /\ pc[v] # "idle" => job[v] \in Jobs
    /\ pc[v] \in {"begin", "draft", "find", "open", "store", "touch"} =>
         job[v].thread \in Threads /\ threadOf[job[v].thread] = job[v].client
    /\ pc[v] \in {"find", "open", "store"} => job[v].body \in Bodies
    /\ pc[v] = "store" =>
         job[v].card \in Cards /\ IsCardOf(job[v].card, job[v].thread, job[v].body)

\* The message is the last thing a visit stores, and is of its card for ever.
RepliesMatchCards ==
  \A v \in Visits :
    /\ pc[v] \notin {"touch", "end"} => reply[v] = NoReply
    /\ reply[v] # NoReply => IsCardOf(reply[v].card, reply[v].thread, reply[v].body)

\* A card is of a thread that has its client.
CardsHaveClients ==
  \A k \in Cards : card[k] # NoCard => threadOf[card[k].thread] \in Clients

SeenAreReplies == \A s \in seen : reply[s[2]] # NoReply

\* Every card has its message or a visit about to store it, unless a visit died.
CardIsWanted(k) == \E v \in Visits : \/ reply[v].card = k
                                     \/ pc[v] = "store" /\ job[v].card = k
CardsAreWanted == crashes = 0 => \A k \in Cards : card[k] # NoCard => CardIsWanted(k)

IInv == /\ TypeOK /\ LatestIsTheirs /\ WorkIsInHand /\ RepliesMatchCards
        /\ CardsHaveClients /\ SeenAreReplies /\ CardsAreWanted /\ SeenIsApproved

-----------------------------------------------------------------------------
(* What the comments promise and the code does not keep.                    *)

\* The card holds "the (encrypted) draft so the owner sees exactly what would be
\* sent" (owner-approval-gate-prisma.ts:7): the words the client was shown are
\* those of the approved card.
SeenAsApproved == \A s \in seen : reply[s[2]].body = card[reply[s[2]].card].body

\* What it takes of a card: that the owner does not edit it.
NeverEdited(k) == [][\A body \in Bodies : ~EditCard(k, body)]_vars
=============================================================================
