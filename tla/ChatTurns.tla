----------------------------- MODULE ChatTurns -----------------------------
(***************************************************************************)
(* The turns of one conversation, from the admission of a request to the   *)
(* terminal write of its answer. A turn is one HTTP request on some        *)
(* replica; what it does between two database transactions interleaves     *)
(* with every other turn, with stops, deletions, branch switches, removed  *)
(* and returning members, and with crashes of its replica.                 *)
(*                                                                         *)
(* Turn t inserts at most two rows, its question <<t, "q">> and its answer *)
(* <<t, "a">>. What a message says is left out.                            *)
(***************************************************************************)
EXTENDS ConversationTree

CONSTANTS
  Turns,      \* the requests that are ever made
  Users,      \* the members of the conversation's workspace
  Owner,      \* the creator of the conversation, who is never removed
  TTL,        \* generationcfg.ProtectedDuration, the lifetime of a lease
  Lifetime,   \* how long a turn may live: MaxDuration, set-up and unwinding
  MaxNow      \* bound on the clock

ASSUME TurnAssumption ==
  /\ IsFiniteSet(Turns) /\ Owner \in Users
  /\ NoMessage \notin Turns \X {"q", "a"}
  /\ Lifetime \in Nat /\ TTL \in Nat /\ TTL > Lifetime /\ MaxNow \in Nat

VARIABLES
  messages,   \* the rows of the conversation
  leaf,       \* conversations.active_leaf_id
  leases,     \* conversation_generation_leases
  turn,       \* what each request knows and how far it is
  access,     \* the users who may write to the conversation
  deleted,    \* some round has been deleted
  now

vars == <<messages, leaf, leases, turn, access, deleted, now>>

Q(t) == <<t, "q">>
A(t) == <<t, "a">>
Rows == Turns \X {"q", "a"}
Ids == Rows \cup {NoMessage}

RowType ==
  [parent : Ids, role : {"user", "assistant"}, author : Users,
   status : {"complete", "streaming", "stopping", "stopped", "error", "done"},
   created : 0..MaxNow]

LeaseType == [parent : Ids, user : Users, turn : Turns, expires : 0..(MaxNow + TTL)]

TurnType ==
  [phase : {"idle", "admitted", "running", "asked", "streaming", "ending", "ended", "crashed"},
   kind : {"append", "edit", "regenerate"}, user : Users, parent : Ids, seen : Ids,
   started : 0..MaxNow, leased : BOOLEAN]

Live(t) == turn[t].phase \in {"admitted", "running", "asked", "streaming"}
Held(t) == turn[t].phase \in {"admitted", "running", "asked", "streaming", "ending"}

Fresh == [phase |-> "idle", kind |-> "append", user |-> Owner, parent |-> NoMessage,
          seen |-> NoMessage, started |-> 0, leased |-> FALSE]

Init ==
  /\ messages = <<>>
  /\ leaf = NoMessage
  /\ leases = {}
  /\ turn = [t \in Turns |-> Fresh]
  /\ access = Users
  /\ deleted = FALSE
  /\ now = 0

\* What is left of a turn that is over.
Over(phase) == [Fresh EXCEPT !.phase = phase]

\* The handler is over. One that took a lease still has its deferred release to
\* run.
Leave(t) ==
  [turn EXCEPT ![t] = IF turn[t].kind = "append" THEN [turn[t] EXCEPT !.phase = "ending", !.seen = NoMessage]
                      ELSE Over("ended")]

-----------------------------------------------------------------------------
(* Admission.                                                              *)

\* Mutant: the age of a placeholder is not looked at.
SettleAll(ms) ==
  [m \in DOMAIN ms |->
    IF ms[m].status = "streaming" THEN [ms[m] EXCEPT !.status = "error"] ELSE ms[m]]

\* A placeholder older than any live generation is settled.
SettleStale(ms) ==
  [m \in DOMAIN ms |->
    IF ms[m].role = "assistant" /\ ms[m].status = "streaming" /\ ms[m].created <= now - TTL
    THEN [ms[m] EXCEPT !.status = "error"] ELSE ms[m]]

\* Mutant: leases stay for ever.
KeepLeases(ls) == ls

DropExpired(ls) == {l \in ls : l.expires > now}

\* The parent of a normal append: the one the request names, if it still exists,
\* else the active leaf, else the newest leaf. (A named parent that is gone is
\* treated as none.)
AppendParents(preferred) ==
  IF preferred # NoMessage THEN {preferred}
  ELSE IF leaf \in DOMAIN messages THEN {leaf}
  ELSE DeepestLeaves(messages, NoMessage)

\* The user's own answer is still streaming on the path.
OwnAnswerStreams(ms, u, p) ==
  \E m \in Path(ms, p) :
    ms[m].role = "assistant" /\ ms[m].status = "streaming" /\ ms[m].author = u

\* Mutant: another lease on the branch is no obstacle.
LeaseIgnored(ls, u, p) == FALSE

LeaseTaken(ls, u, p) == \E l \in ls : l.parent = p /\ l.user = u

TryAcquire(t, u, preferred) ==
  \E p \in AppendParents(preferred) :
    /\ messages' = SettleStale(messages)
    /\ LET ls == DropExpired(leases) IN
       IF OwnAnswerStreams(messages', u, p)
       THEN turn' = [turn EXCEPT ![t] = Over("ended")] /\ leases' = leases
       ELSE IF LeaseTaken(ls, u, p)
       THEN turn' = [turn EXCEPT ![t] = Over("ended")] /\ leases' = ls
       ELSE /\ turn' = [turn EXCEPT ![t] = [Fresh EXCEPT !.phase = "admitted", !.user = u,
                          !.parent = p, !.started = now, !.leased = TRUE]]
            /\ leases' = ls \cup {[parent |-> p, user |-> u, turn |-> t, expires |-> now + TTL]}

\* A normal send.
PostMessage(t) ==
  /\ turn[t].phase = "idle"
  /\ \E u \in access, preferred \in DOMAIN messages \cup {NoMessage} : TryAcquire(t, u, preferred)
  /\ UNCHANGED <<leaf, access, deleted, now>>

\* An edit names the exact parent of its new question and takes no lease.
Edit(t) ==
  /\ turn[t].phase = "idle"
  /\ \E u \in access, p \in DOMAIN messages \cup {NoMessage} :
       turn' = [turn EXCEPT ![t] = [Fresh EXCEPT !.phase = "running", !.kind = "edit",
                  !.user = u, !.parent = p, !.started = now]]
  /\ UNCHANGED <<messages, leaf, leases, access, deleted, now>>

\* A regeneration answers the question of an existing answer again.
Regenerate(t) ==
  /\ turn[t].phase = "idle"
  /\ \E u \in access, m \in DOMAIN messages :
       /\ messages[m].role = "assistant" /\ IsUser(messages, messages[m].parent)
       /\ turn' = [turn EXCEPT ![t] = [Fresh EXCEPT !.phase = "running", !.kind = "regenerate",
                     !.user = u, !.parent = messages[m].parent, !.started = now]]
  /\ UNCHANGED <<messages, leaf, leases, access, deleted, now>>

-----------------------------------------------------------------------------
(* The orchestrator's part of a turn.                                      *)

\* Run loads the conversation, and with it the active leaf, which only an append
\* may still need.
Load(t) ==
  /\ turn[t].phase = "admitted"
  /\ turn' = [turn EXCEPT ![t] = [@ EXCEPT !.phase = "running", !.seen = leaf]]
  /\ UNCHANGED <<messages, leaf, leases, access, deleted, now>>

Insert(ms, m, p, role, u, status) ==
  [x \in DOMAIN ms \cup {m} |->
    IF x = m THEN [parent |-> p, role |-> role, author |-> u, status |-> status, created |-> now]
    ELSE ms[x]]

\* ResolveConversationAppendParent, for an append whose parent is gone.
RecoveredParents(t) ==
  IF turn[t].seen \in DOMAIN messages THEN {turn[t].seen} ELSE DeepestLeaves(messages, NoMessage)

\* The parents the new question may get. An append without one resolves it again;
\* an edit of the first question stays at the root.
QuestionParents(t) ==
  IF turn[t].parent \in DOMAIN messages THEN {turn[t].parent}
  ELSE CASE turn[t].kind = "append" -> RecoveredParents(t)
         [] turn[t].kind = "edit" /\ turn[t].parent = NoMessage -> {NoMessage}
         [] OTHER -> {}

\* The question is inserted and becomes the active leaf. A regeneration reuses
\* the question it found.
Ask(t) ==
  /\ turn[t].phase = "running" /\ turn[t].user \in access
  /\ turn' = [turn EXCEPT ![t] = [@ EXCEPT !.phase = "asked", !.seen = NoMessage]]
  /\ IF turn[t].kind = "regenerate"
     THEN IsUser(messages, turn[t].parent) /\ UNCHANGED <<messages, leaf>>
     ELSE /\ \E p \in QuestionParents(t) :
               messages' = Insert(messages, Q(t), p, "user", turn[t].user, "complete")
          /\ leaf' = Q(t)
  /\ UNCHANGED <<leases, access, deleted, now>>

QuestionOf(t) == IF turn[t].kind = "regenerate" THEN turn[t].parent ELSE Q(t)

\* The placeholder is inserted in a transaction of its own. The foreign key
\* refuses it when the question has been deleted meanwhile.
Place(t) ==
  /\ turn[t].phase = "asked" /\ turn[t].user \in access
  /\ QuestionOf(t) \in DOMAIN messages
  /\ messages' = Insert(messages, A(t), QuestionOf(t), "assistant", turn[t].user, "streaming")
  /\ leaf' = A(t)
  /\ turn' = [turn EXCEPT ![t].phase = "streaming"]
  /\ UNCHANGED <<leases, access, deleted, now>>

\* An error, a lost parent, lost access, a stop or a cancellation before the
\* placeholder exists. The question stays.
GiveUp(t) ==
  /\ turn[t].phase \in {"admitted", "running", "asked"}
  /\ turn' = Leave(t)
  /\ UNCHANGED <<messages, leaf, leases, access, deleted, now>>

\* Mutant: an early exit forgets the placeholder.
AbandonedRow(t) == messages

\* What FinishMessageForUser leaves: nothing changes in a row that is gone or
\* settled; without access a row that still streams is emptied; else the answer,
\* complete or partial or an error, is written.
Finished(t) ==
  IF A(t) \notin DOMAIN messages \/ messages[A(t)].status \notin {"streaming", "stopping"} THEN messages
  ELSE IF turn[t].user \notin access
       THEN IF messages[A(t)].status = "streaming"
            THEN [messages EXCEPT ![A(t)].status = "stopped"] ELSE messages
  ELSE [messages EXCEPT ![A(t)].status = "done"]

Finish(t) ==
  /\ turn[t].phase = "streaming"
  /\ messages' = Finished(t)
  /\ turn' = Leave(t)
  /\ UNCHANGED <<leaf, leases, access, deleted, now>>

\* ReleaseConversationGenerationLease
Release(t) ==
  /\ turn[t].phase = "ending"
  /\ leases' = {l \in leases : ~(l.parent = turn[t].parent /\ l.turn = t)}
  /\ turn' = [turn EXCEPT ![t] = Over("ended")]
  /\ UNCHANGED <<messages, leaf, access, deleted, now>>

\* The replica dies with the turn. Its rows and its lease stay.
Crash(t) ==
  /\ Held(t)
  /\ turn' = [turn EXCEPT ![t] = [Over("crashed") EXCEPT !.started = turn[t].started]]
  /\ UNCHANGED <<messages, leaf, leases, access, deleted, now>>

-----------------------------------------------------------------------------
(* What happens around the turns.                                          *)

\* MarkMessageStoppingForUser: the author asked for the stop.
MarkStopping(t) ==
  /\ A(t) \in DOMAIN messages /\ messages[A(t)].status = "streaming"
  /\ messages' = [messages EXCEPT ![A(t)].status = "stopping"]
  /\ UNCHANGED <<leaf, leases, turn, access, deleted, now>>

\* The creator may delete any round, a member the rounds of his own questions; a
\* branch he deletes must hold no question of another member. What an admin of the
\* workspace may delete in addition the creator may too, and the outcome does not
\* depend on who it was, so admins are not told apart.
MayDelete(u, m) ==
  /\ u \in access
  /\ u # Owner =>
       /\ IsUser(messages, RoundHead(messages, m)) /\ messages[RoundHead(messages, m)].author = u
       /\ DeletesBranch(messages, m) =>
            \A x \in Subtree(messages, m) : messages[x].role = "user" => messages[x].author = u

\* DeleteRound, with the leases of every turn of the conversation. The handler
\* then tells the turns that listen to cancel, which is a GiveUp or a Finish.
DeleteRound(u, m) ==
  /\ MayDelete(u, m)
  /\ leaf' \in RepointedLeaves(messages, m, leaf)
  /\ messages' = RemainingRows(messages, m)
  /\ deleted' = TRUE
  /\ leases' = {}
  /\ turn' = [t \in Turns |-> [turn[t] EXCEPT !.leased = FALSE]]
  /\ UNCHANGED <<access, now>>

\* setActiveLeafHandler looks up the newest leaf below the chosen message, and
\* writes it in a second statement: what it writes was a leaf once, may have
\* children by now, and may be gone, which every reader takes for none.
SetActiveLeaf ==
  /\ leaf' \in DOMAIN messages \cup (IF deleted THEN {NoMessage} ELSE {})
  /\ UNCHANGED <<messages, leases, turn, access, deleted, now>>

\* A member is removed or leaves: what still streams for him is emptied in the
\* same transaction.
RemoveMember(u) ==
  /\ u \in access \ {Owner}
  /\ access' = access \ {u}
  /\ messages' = [m \in DOMAIN messages |->
       IF messages[m].status = "streaming" /\ messages[m].author = u
       THEN [messages[m] EXCEPT !.status = "stopped"] ELSE messages[m]]
  /\ UNCHANGED <<leaf, leases, turn, deleted, now>>

Rejoin(u) ==
  /\ u \in Users \ access
  /\ access' = access \cup {u}
  /\ UNCHANGED <<messages, leaf, leases, turn, deleted, now>>

\* Time passes; a turn whose time is up has been cancelled and is over.
Tick ==
  /\ now < MaxNow
  /\ \A t \in Turns : Held(t) => now + 1 <= turn[t].started + Lifetime
  /\ now' = now + 1
  /\ UNCHANGED <<messages, leaf, leases, turn, access, deleted>>

Step(t) == PostMessage(t) \/ Edit(t) \/ Regenerate(t) \/ Load(t) \/ Ask(t) \/ Place(t) \/ GiveUp(t)
           \/ Finish(t) \/ Release(t) \/ Crash(t) \/ MarkStopping(t)

Next ==
  \/ \E t \in Turns : Step(t)
  \/ \E u \in Users : RemoveMember(u) \/ Rejoin(u) \/ \E m \in DOMAIN messages : DeleteRound(u, m)
  \/ SetActiveLeaf
  \/ Tick

Spec == Init /\ [][Next]_vars
-----------------------------------------------------------------------------
(* Properties.                                                             *)

TypeOK ==
  /\ DOMAIN messages \subseteq Rows /\ messages \in [DOMAIN messages -> RowType]
  /\ leaf \in Ids /\ deleted \in BOOLEAN
  /\ leases \subseteq LeaseType
  /\ turn \in [Turns -> TurnType]
  /\ access \subseteq Users
  /\ now \in 0..MaxNow

\* Whatever is deleted while turns insert and branches are switched, every row
\* hangs below a root, and the next send finds a row to hang below.
TreeStaysConnected ==
  /\ TypeOK
  /\ \A m \in DOMAIN messages : \E r \in Path(messages, m) : messages[r].parent = NoMessage
  /\ messages # <<>> => AppendParents(NoMessage) \subseteq DOMAIN messages

\* Neither the clean-up of crashed turns nor the release of another turn takes
\* what a live turn holds: its lease stays until it is over or a deletion has
\* removed the leases of the conversation, and its placeholder is not declared
\* interrupted.
LiveTurnKeepsItsClaim ==
  \A t \in Turns :
    /\ Live(t) /\ turn[t].leased =>
         \E l \in leases : l.turn = t /\ l.parent = turn[t].parent /\ l.user = turn[t].user
    /\ Live(t) /\ A(t) \in DOMAIN messages => messages[A(t)].status # "error"

\* Two sends of one user from the same message never run side by side, unless a
\* deletion came between them.
OneSendPerParent ==
  \A t, s \in Turns :
    t # s /\ Live(t) /\ Live(s) /\ turn[t].leased /\ turn[s].leased /\ turn[t].user = turn[s].user
      => turn[t].parent # turn[s].parent

\* The sends of user u from p that admission would refuse now.
Refused(u, p) ==
  OwnAnswerStreams(SettleStale(messages), u, p) \/ LeaseTaken(DropExpired(leases), u, p)

\* A crash blocks nobody for ever: once every turn is over and the lifetimes of a
\* turn and of a lease have passed, no send is refused.
CrashBlocksNobody ==
  (\A t \in Turns : ~Held(t) /\ now >= turn[t].started + Lifetime + TTL) =>
    \A u \in Users, p \in DOMAIN messages \cup {NoMessage} : ~Refused(u, p)

\* No answer streams for ever: its turn is under way or has crashed, for a turn
\* that ends settles its row on every path; and its author has access, for a
\* removal empties what streams and a turn it overtakes places nothing.
EveryStreamIsBacked ==
  \A m \in DOMAIN messages : messages[m].status = "streaming" =>
    messages[m].author \in access /\ turn[m[1]].phase \notin {"ending", "ended"}
=============================================================================
