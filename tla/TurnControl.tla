---------------------------- MODULE TurnControl ----------------------------
(***************************************************************************)
(* How one detached generation is stopped, how its access is revoked, and  *)
(* how another device follows it. The handler of the turn, the goroutines  *)
(* that listen on its topics, the handlers of stop requests, the           *)
(* administrator who changes permissions or a workspace policy, and the    *)
(* follower of the stream all run concurrently; what they share is the     *)
(* cache (markers, epochs, topics, the frames of the stream) and the row   *)
(* of the answer. The process of the turn may die at any step.             *)
(*                                                                         *)
(* A topic is named for what is published on it. A notice reaches only     *)
(* those subscribed when it is published. What is streamed is left out.    *)
(***************************************************************************)
EXTENDS Naturals, Sequences, FiniteSets

CONSTANTS
  Scopes,      \* the stop requests made, each once
  Attempts,    \* how often the permission snapshot is tried
  MaxChanges,  \* bound on the changes of the user's permissions
  MaxDeltas,   \* bound on the pieces of the answer
  BatchSize,   \* streamReplayBatchSize
  MaxEvents    \* bound on what happens to the turn from outside

ASSUME TurnControlAssumption ==
  /\ Scopes \subseteq {"generation", "message", "conversation"}
  /\ Attempts \in Nat \ {0} /\ MaxChanges \in Nat
  /\ MaxDeltas \in Nat /\ BatchSize \in Nat \ {0} /\ MaxEvents \in Nat

VARIABLES
  turn,          \* the handler: where it is and what it knows
  snap,          \* requestPermissionSnapshot
  policy,        \* the user's permissions, their epochs, and a change under way
  workspace,     \* the workspace policy: as the turn found it, changed, published
  inbox,         \* the notices the listeners of the turn have not taken
  markers,       \* the stop intents in the cache
  stop,          \* how far each stop request is
  hearing,       \* stop listeners between their two steps
  stopRequested,
  why,           \* what cancelled the context of the turn
  flags,         \* permissionRevoked and workspaceRevoked
  revoking,      \* how far each revocation listener is
  row,           \* the status of the row of the answer
  frames,        \* gen:<id>
  tombstone,     \* gen:<id>:revoked
  follower,      \* a device that follows the stream
  events         \* counts what happened to the turn from outside

stopVars == <<markers, stop, hearing, stopRequested>>
revokeVars == <<flags, revoking>>
streamVars == <<frames, tombstone, follower>>
outside == <<policy, workspace, inbox, stopVars>>
controlVars == <<turn, snap, outside, why, revokeVars, row, streamVars, events>>

Causes == {"permission", "workspace"}
ScopedTopics == {"generation", "message"}
Topics == ScopedTopics \cup Causes \cup {"conversation"}

Cancelled == why # {}
Ended == turn.at \in {"over", "crashed"}
Gone == follower.at \in {"away", "ended"}

ControlInit ==
  /\ turn = [at |-> "start", subs |-> {}, active |-> FALSE, watched |-> FALSE,
             remembered |-> FALSE, question |-> FALSE]
  /\ snap = [tries |-> 0, before |-> 0, perms |-> 0, gen |-> 0]
  /\ policy = [perms |-> 0, epoch |-> 0, gen |-> 0, writer |-> "idle"]
  /\ workspace = "current"
  /\ inbox = {} /\ markers = {}
  /\ stop = [s \in Scopes |-> "none"]
  /\ hearing = {} /\ stopRequested = FALSE /\ why = {}
  /\ flags = {} /\ revoking = [c \in Causes |-> "idle"]
  /\ row = "none"
  /\ frames = <<>> /\ tombstone = FALSE
  /\ follower = [at |-> "away", last |-> 0, notified |-> FALSE, revoked |-> FALSE, settled |-> FALSE]
  /\ events = 0

\* Cache.Publish: only a current subscriber is reached.
Publish(t) == inbox' = IF t \in turn.subs THEN inbox \cup {t} ELSE inbox

-----------------------------------------------------------------------------
(* The row and the stream.                                                 *)

\* MarkMessageStoppingForUser.
Stopping(r) == IF r = "streaming" THEN "stopping" ELSE r

\* ScrubAccessRevokedGeneration: whatever the row says.
Scrubbed(r) == IF r = "none" THEN r ELSE "scrubbed"

\* FinishMessageForUser: only a placeholder is written.
Written(r, s) == IF r \in {"streaming", "stopping"} THEN s ELSE r

\* genstream.Append with its notice. A tombstone cancels the turn instead.
AppendFrame(f) ==
  /\ UNCHANGED tombstone
  /\ \/ tombstone /\ why' = why \cup {"tombstone"} /\ UNCHANGED <<frames, follower>>
     \/ /\ ~tombstone
        /\ frames' = Append(frames, f)
        /\ follower' = [follower EXCEPT !.notified = @ \/ follower.at \in {"second", "loop"}]
        /\ UNCHANGED why

\* genstream.Revoke with the notice on its topic.
RevokeStream ==
  /\ tombstone' = TRUE
  /\ frames' = <<>>
  /\ follower' = [follower EXCEPT !.revoked = ~Gone]

-----------------------------------------------------------------------------
(* The handler: the snapshot of the permissions and the subscriptions.     *)

At(pc) == turn.at = pc
Goto(pc) == turn' = [turn EXCEPT !.at = pc]

\* currentPermissionEpoch, before the permissions are read.
SnapshotBefore ==
  /\ At("start") /\ Goto("read")
  /\ snap' = [snap EXCEPT !.before = policy.epoch, !.tries = @ + 1]
  /\ UNCHANGED <<outside, why, revokeVars, row, streamVars>>

SnapshotRead ==
  /\ At("read") /\ Goto("compare")
  /\ snap' = [snap EXCEPT !.perms = policy.perms]
  /\ UNCHANGED <<outside, why, revokeVars, row, streamVars>>

\* The epoch moved: once more, or refuse.
SnapshotAfter ==
  /\ At("compare")
  /\ \/ snap.before = policy.epoch /\ Goto("version")
     \/ snap.before # policy.epoch /\ snap.tries < Attempts /\ Goto("start")
     \/ snap.before # policy.epoch /\ snap.tries = Attempts /\ Goto("over")
  /\ UNCHANGED <<snap, outside, why, revokeVars, row, streamVars>>

\* The epochs the watcher will compare.
SnapshotVersion ==
  /\ At("version") /\ Goto("watch")
  /\ snap' = [snap EXCEPT !.gen = policy.gen]
  /\ UNCHANGED <<outside, why, revokeVars, row, streamVars>>

\* newGenerationAccessRevocationWatcher subscribes ...
WatchAccess ==
  /\ At("watch")
  /\ turn' = [turn EXCEPT !.at = "check access", !.subs = @ \cup Causes]
  /\ UNCHANGED <<snap, outside, why, revokeVars, row, streamVars>>

\* What the versions say is no longer as the turn found it.
NoLongerCurrent ==
  {c \in Causes : IF c = "permission" THEN policy.gen # snap.gen ELSE workspace # "current"}

\* ... and then compares the versions. There is no message yet.
CheckAccess ==
  /\ At("check access") /\ Goto("subscribe")
  /\ flags' = flags \cup NoLongerCurrent
  /\ why' = why \cup NoLongerCurrent
  /\ UNCHANGED <<snap, outside, revoking, row, streamVars>>

\* newGenerationStopWatcher subscribes, and then looks for the marker.
SubscribeGeneration ==
  /\ At("subscribe")
  /\ turn' = [turn EXCEPT !.at = "marker", !.subs = @ \cup {"generation"}]
  /\ UNCHANGED <<snap, outside, why, revokeVars, row, streamVars>>

\* Mutant: the subscription is enough.
MarkerUnread(t) == UNCHANGED stopRequested

\* The second half of subscribeScopedStop. The turn is not active yet.
ReadMarker(t) == stopRequested' = (stopRequested \/ t \in markers)

CheckGenerationMarker ==
  /\ At("marker") /\ Goto("legacy")
  /\ ReadMarker("generation")
  /\ UNCHANGED <<snap, policy, workspace, inbox, markers, stop, hearing, why, revokeVars, row, streamVars>>

SubscribeConversation ==
  /\ At("legacy")
  /\ turn' = [turn EXCEPT !.at = "ask", !.subs = @ \cup {"conversation"}]
  /\ UNCHANGED <<snap, outside, why, revokeVars, row, streamVars>>

-----------------------------------------------------------------------------
(* The handler: the rows, and message_start.                               *)

\* The two inserts run on the context of the turn.
AskQuestion ==
  /\ At("ask")
  /\ turn' = [turn EXCEPT !.at = IF Cancelled THEN "recheck" ELSE "place", !.question = ~Cancelled]
  /\ UNCHANGED <<snap, outside, why, revokeVars, row, streamVars>>

Place ==
  /\ At("place") /\ Goto(IF Cancelled THEN "recheck" ELSE "remember")
  /\ row' = IF Cancelled THEN "none" ELSE "streaming"
  /\ UNCHANGED <<snap, outside, why, revokeVars, streamVars>>

Remember ==
  /\ At("remember")
  /\ turn' = [turn EXCEPT !.at = "watch message", !.remembered = TRUE]
  /\ UNCHANGED <<snap, outside, why, revokeVars, row, streamVars>>

\* generationStopWatcher.watchMessage
SubscribeMessage ==
  /\ At("watch message")
  /\ turn' = [turn EXCEPT !.at = "message marker", !.subs = @ \cup {"message"}]
  /\ UNCHANGED <<snap, outside, why, revokeVars, row, streamVars>>

CheckMessageMarker ==
  /\ At("message marker") /\ Goto("activate")
  /\ ReadMarker("message")
  /\ UNCHANGED <<snap, policy, workspace, inbox, markers, stop, hearing, why, revokeVars, row, streamVars>>

Activate ==
  /\ At("activate")
  /\ turn' = [turn EXCEPT !.at = "apply stop", !.active = TRUE]
  /\ UNCHANGED <<snap, outside, why, revokeVars, row, streamVars>>

\* A stop that was only remembered is applied now.
ApplyStop ==
  /\ At("apply stop") /\ Goto("know message")
  /\ why' = why \cup (IF stopRequested THEN {"stop"} ELSE {})
  /\ row' = IF stopRequested THEN Stopping(row) ELSE row
  /\ UNCHANGED <<snap, outside, revokeVars, streamVars>>

\* generationAccessRevocationWatcher.watchMessage learns the id ...
KnowMessage ==
  /\ At("know message")
  /\ turn' = [turn EXCEPT !.at = "settle access", !.watched = TRUE]
  /\ UNCHANGED <<snap, outside, why, revokeVars, row, streamVars>>

\* Mutant: a revocation before the id was known is forgotten.
OnlyLaterRevocations ==
  /\ At("settle access") /\ Goto("announce")
  /\ UNCHANGED <<snap, outside, why, revokeVars, row, streamVars>>

\* ... and then does what a revocation that came before could not.
SettleAccess ==
  /\ At("settle access") /\ Goto("announce")
  /\ \/ flags = {} /\ UNCHANGED <<row, streamVars>>
     \/ flags # {} /\ RevokeStream /\ row' = Scrubbed(row)
  /\ UNCHANGED <<snap, outside, why, revokeVars>>

Announce ==
  /\ At("announce") /\ Goto("generate")
  /\ AppendFrame("start")
  /\ UNCHANGED <<snap, outside, revokeVars, row>>

-----------------------------------------------------------------------------
(* The handler: the answer and the end.                                    *)

\* A piece of the answer: sendEvent looks at the context ...
Produce ==
  /\ At("generate") /\ Goto("forward")
  /\ ~Cancelled
  /\ Cardinality({i \in DOMAIN frames : frames[i] = "delta"}) < MaxDeltas
  /\ UNCHANGED <<snap, outside, why, revokeVars, row, streamVars>>

\* ... and then appends.
Forward ==
  /\ At("forward") /\ Goto("generate")
  /\ AppendFrame("delta")
  /\ UNCHANGED <<snap, outside, revokeVars, row>>

FinishTurn(s) ==
  /\ Goto("recheck")
  /\ row' = Written(row, s)
  /\ UNCHANGED <<snap, outside, why, revokeVars, streamVars>>

\* The provider is done; a cancellation that comes now is too late.
ProviderReturns == At("generate") /\ FinishTurn("complete")

\* The provider call fails on the cancelled context.
Unwind == At("generate") /\ Cancelled /\ FinishTurn("stopped")

\* Mutant: the end of the turn trusts its listeners.
TrustListeners ==
  /\ At("recheck") /\ Goto("terminal")
  /\ UNCHANGED <<snap, outside, why, revokeVars, row, streamVars>>

\* Before the handler answers, the permission epochs are compared once more.
Recheck ==
  /\ At("recheck") /\ Goto("terminal")
  /\ LET changed == NoLongerCurrent \cap {"permission"} IN
     /\ flags' = flags \cup changed
     /\ why' = why \cup changed
     /\ IF changed # {} /\ turn.watched THEN RevokeStream ELSE UNCHANGED streamVars
     /\ row' = IF "permission" \in flags' THEN Scrubbed(row) ELSE row
  /\ UNCHANGED <<snap, outside, revoking>>

\* The terminal event, if there is a stream to put it in.
Terminal ==
  /\ At("terminal") /\ Goto("close")
  /\ IF row = "none" THEN UNCHANGED <<why, streamVars>> ELSE AppendFrame("end")
  /\ UNCHANGED <<snap, outside, revokeVars, row>>

\* The deferred calls: the subscriptions and the markers go, the context ends.
Close ==
  /\ At("close")
  /\ turn' = [turn EXCEPT !.at = "over", !.subs = {}]
  /\ inbox' = {}
  /\ markers' = markers \ (turn.subs \cap ScopedTopics)
  /\ why' = why \cup {"over"}
  /\ UNCHANGED <<snap, policy, workspace, stop, hearing, stopRequested, revokeVars, row, streamVars>>

Running == turn.at \notin {"start", "read", "compare", "version", "over", "crashed"}

\* MaxDuration is up.
TimeOut ==
  /\ Running
  /\ why' = why \cup {"timeout"}
  /\ UNCHANGED <<turn, snap, outside, revokeVars, row, streamVars>>

\* The replica of the turn dies with all its goroutines.
ReplicaCrash ==
  /\ Running
  /\ turn' = [turn EXCEPT !.at = "crashed", !.subs = {}]
  /\ inbox' = {} /\ hearing' = {}
  /\ revoking' = [c \in Causes |-> "idle"]
  /\ UNCHANGED <<snap, policy, workspace, markers, stop, stopRequested, why, flags, row, streamVars>>

\* A later send settles the placeholder a crash has left.
SettleStale ==
  /\ At("crashed")
  /\ row = "streaming"
  /\ row' = "error"
  /\ UNCHANGED <<turn, snap, outside, why, revokeVars, streamVars>>

Setup ==
  \/ SnapshotBefore \/ SnapshotRead \/ SnapshotAfter \/ SnapshotVersion
  \/ WatchAccess \/ CheckAccess \/ SubscribeGeneration \/ CheckGenerationMarker
  \/ SubscribeConversation \/ AskQuestion \/ Place \/ Remember \/ SubscribeMessage \/ CheckMessageMarker
  \/ Activate \/ ApplyStop \/ KnowMessage \/ SettleAccess \/ Announce

Handler == Setup \/ Forward \/ Unwind \/ Recheck \/ Terminal \/ Close

-----------------------------------------------------------------------------
(* Stop requests and their listeners.                                      *)

\* publishScopedStop sets the marker ...
RequestStop(s) ==
  /\ s \in ScopedTopics /\ stop[s] = "none"
  /\ s = "message" => row # "none"
  /\ markers' = markers \cup {s}
  /\ stop' = [stop EXCEPT ![s] = "marked"]
  /\ UNCHANGED <<turn, snap, policy, workspace, inbox, hearing, stopRequested, why, revokeVars, row, streamVars>>

\* ... and then publishes.
PublishStop(s) ==
  /\ stop[s] = "marked"
  /\ Publish(s)
  /\ stop' = [stop EXCEPT ![s] = "published"]
  /\ UNCHANGED <<turn, snap, policy, workspace, markers, hearing, stopRequested, why, revokeVars, row, streamVars>>

\* The row shows the stop before the request is answered, once the message of
\* the generation is known.
ShowStop(s) ==
  /\ stop[s] = "published"
  /\ row' = IF s = "message" \/ turn.remembered THEN Stopping(row) ELSE row
  /\ stop' = [stop EXCEPT ![s] = "answered"]
  /\ UNCHANGED <<turn, snap, policy, workspace, inbox, markers, hearing, stopRequested, why, revokeVars, streamVars>>

\* A client that names neither: a broadcast that leaves nothing behind.
StopConversation ==
  /\ "conversation" \in Scopes /\ stop["conversation"] = "none"
  /\ Publish("conversation")
  /\ stop' = [stop EXCEPT !["conversation"] = "answered"]
  /\ UNCHANGED <<turn, snap, policy, workspace, markers, hearing, stopRequested, why, revokeVars, row, streamVars>>

\* requestStop remembers the stop ...
HearStop(s) ==
  /\ s \in inbox \cap ScopedTopics
  /\ inbox' = inbox \ {s}
  /\ hearing' = hearing \cup {s}
  /\ stopRequested' = TRUE
  /\ UNCHANGED <<turn, snap, policy, workspace, markers, stop, why, revokeVars, row, streamVars>>

\* Mutant: a stop cancels at once.
ActAtOnce(s) ==
  /\ s \in hearing
  /\ hearing' = hearing \ {s}
  /\ why' = why \cup {"stop"}
  /\ UNCHANGED <<turn, snap, policy, workspace, inbox, markers, stop, stopRequested, revokeVars, row, streamVars>>

\* ... and then cancels if the turn is active.
ActOnStop(s) ==
  /\ s \in hearing
  /\ hearing' = hearing \ {s}
  /\ why' = why \cup (IF turn.active THEN {"stop"} ELSE {})
  /\ UNCHANGED <<turn, snap, policy, workspace, inbox, markers, stop, stopRequested, revokeVars, row, streamVars>>

HearConversation ==
  /\ "conversation" \in inbox
  /\ inbox' = inbox \ {"conversation"}
  /\ why' = why \cup {"conversation"}
  /\ UNCHANGED <<turn, snap, policy, workspace, stopVars, revokeVars, row, streamVars>>

\* A listener whose context has ended leaves without its notice.
Deaf(t) ==
  /\ Cancelled /\ t \in inbox
  /\ inbox' = inbox \ {t}
  /\ UNCHANGED <<turn, snap, policy, workspace, stopVars, why, revokeVars, row, streamVars>>

-----------------------------------------------------------------------------
(* Revocations and their listeners.                                        *)

\* The change is committed; then the epochs move; then it is published.
ChangePermissions ==
  /\ policy.writer = "idle" /\ policy.perms < MaxChanges
  /\ policy' = [policy EXCEPT !.perms = @ + 1, !.writer = "committed"]
  /\ UNCHANGED <<turn, snap, workspace, inbox, stopVars, why, revokeVars, row, streamVars>>

BumpEpoch ==
  /\ policy.writer = "committed"
  /\ policy' = [policy EXCEPT !.epoch = @ + 1, !.writer = "bumped"]
  /\ UNCHANGED <<turn, snap, workspace, inbox, stopVars, why, revokeVars, row, streamVars>>

BumpGeneration ==
  /\ policy.writer = "bumped"
  /\ policy' = [policy EXCEPT !.gen = @ + 1, !.writer = "versioned"]
  /\ UNCHANGED <<turn, snap, workspace, inbox, stopVars, why, revokeVars, row, streamVars>>

PublishPermissions ==
  /\ policy.writer = "versioned"
  /\ Publish("permission")
  /\ policy' = [policy EXCEPT !.writer = "idle"]
  /\ UNCHANGED <<turn, snap, workspace, stopVars, why, revokeVars, row, streamVars>>

\* revokeUserPermissionSnapshots and its siblings, after the commit.
Writer == BumpEpoch \/ BumpGeneration \/ PublishPermissions

ChangeWorkspace ==
  /\ workspace = "current"
  /\ workspace' = "changed"
  /\ UNCHANGED <<turn, snap, policy, inbox, stopVars, why, revokeVars, row, streamVars>>

PublishWorkspace ==
  /\ workspace = "changed"
  /\ workspace' = "published"
  /\ Publish("workspace")
  /\ UNCHANGED <<turn, snap, policy, stopVars, why, revokeVars, row, streamVars>>

\* revokePermissionAccess and revokeWorkspaceAccess raise the flag and cancel, ...
RaiseFlag(c) ==
  /\ revoking[c] = "idle"
  /\ flags' = flags \cup {c}
  /\ why' = why \cup {c}
  /\ revoking' = [revoking EXCEPT ![c] = "flagged"]
  /\ UNCHANGED <<turn, snap, policy, workspace, stopVars, row, streamVars>>

\* ... when their notice comes, or, for the workspace, on the periodic recheck, ...
HearRevocation(c) ==
  /\ \/ c \in inbox
     \/ c = "workspace" /\ c \in turn.subs /\ workspace # "current" /\ ~Cancelled
  /\ inbox' = inbox \ {c}
  /\ RaiseFlag(c)

\* ... or when the user's group expires, ...
GroupExpires ==
  /\ "permission" \in turn.subs
  /\ UNCHANGED inbox
  /\ RaiseFlag("permission")

\* ... close the stream of the message, if they know it, ...
CloseStream(c) ==
  /\ revoking[c] = "flagged"
  /\ \/ turn.watched /\ RevokeStream /\ revoking' = [revoking EXCEPT ![c] = "closed"]
     \/ ~turn.watched /\ UNCHANGED streamVars /\ revoking' = [revoking EXCEPT ![c] = "idle"]
  /\ UNCHANGED <<turn, snap, outside, why, flags, row>>

\* ... and scrub its row.
Scrub(c) ==
  /\ revoking[c] = "closed"
  /\ row' = Scrubbed(row)
  /\ revoking' = [revoking EXCEPT ![c] = "idle"]
  /\ UNCHANGED <<turn, snap, outside, why, flags, streamVars>>

-----------------------------------------------------------------------------
(* streamMessageHandler.                                                   *)

Open ==
  /\ follower.at = "away"
  /\ row # "none"
  /\ follower' = [follower EXCEPT !.at = "replay", !.settled = row # "streaming"]
  /\ UNCHANGED <<turn, snap, outside, why, revokeVars, row, frames, tombstone>>

Left == [follower EXCEPT !.at = "ended", !.last = 0, !.notified = FALSE, !.revoked = FALSE, !.settled = FALSE]

\* One batch of the stream after the last frame read; the end of it, a closed
\* stream, or a settled message end the connection.
Flush(next, settled) ==
  LET last == IF follower.last + BatchSize < Len(frames) THEN follower.last + BatchSize ELSE Len(frames)
      batch == SubSeq(frames, follower.last + 1, last)
      over == tombstone \/ settled \/ \E i \in 1 .. Len(batch) : batch[i] = "end"
  IN follower' = IF over THEN Left
                 ELSE [follower EXCEPT !.at = next, !.last = last, !.notified = FALSE]

Replay ==
  /\ follower.at = "replay"
  /\ Flush("subscribe", follower.settled)
  /\ UNCHANGED <<turn, snap, outside, why, revokeVars, row, frames, tombstone>>

Subscribe ==
  /\ follower.at = "subscribe"
  /\ follower' = [follower EXCEPT !.at = "second"]
  /\ UNCHANGED <<turn, snap, outside, why, revokeVars, row, frames, tombstone>>

ReplayAgain ==
  /\ follower.at = "second"
  /\ Flush("loop", FALSE)
  /\ UNCHANGED <<turn, snap, outside, why, revokeVars, row, frames, tombstone>>

Notified ==
  /\ follower.at = "loop" /\ follower.notified
  /\ Flush("loop", FALSE)
  /\ UNCHANGED <<turn, snap, outside, why, revokeVars, row, frames, tombstone>>

\* Mutant: the tick only flushes.
OnlyFlush ==
  /\ follower.at = "loop"
  /\ Flush("loop", FALSE)
  /\ UNCHANGED <<turn, snap, outside, why, revokeVars, row, frames, tombstone>>

\* The periodic recheck flushes and looks at the row.
Recheck5s ==
  /\ follower.at = "loop"
  /\ Flush("loop", row # "streaming")
  /\ UNCHANGED <<turn, snap, outside, why, revokeVars, row, frames, tombstone>>

\* The stream was closed under the follower.
HearRevoked ==
  /\ ~Gone /\ follower.revoked
  /\ follower' = Left
  /\ UNCHANGED <<turn, snap, outside, why, revokeVars, row, frames, tombstone>>

Following == Replay \/ Subscribe \/ ReplayAgain \/ Notified \/ Recheck5s \/ HearRevoked

-----------------------------------------------------------------------------
Listener == \E s \in ScopedTopics : HearStop(s) \/ ActOnStop(s)
Revoker(c) == HearRevocation(c) \/ CloseStream(c) \/ Scrub(c)

\* What the goroutines do that are already running.
Step ==
  /\ UNCHANGED events
  /\ \/ Handler \/ Produce \/ ProviderReturns \/ SettleStale
     \/ \E s \in Scopes : PublishStop(s) \/ ShowStop(s)
     \/ Listener \/ HearConversation \/ \E t \in Topics : Deaf(t)
     \/ Writer \/ PublishWorkspace \/ \E c \in Causes : Revoker(c)
     \/ Following

\* What happens to the turn from outside.
Event ==
  /\ events < MaxEvents /\ events' = events + 1
  /\ \/ TimeOut \/ GroupExpires \/ ReplicaCrash \/ Open
     \/ \E s \in Scopes : RequestStop(s)
     \/ StopConversation \/ ChangePermissions \/ ChangeWorkspace

ControlNext == Step \/ Event

\* Every goroutine goes on once it runs, and so does a request that has begun.
\* Nobody need stop or change anything, and a provider may stream for ever.
ControlFairness ==
  /\ WF_controlVars(Handler /\ UNCHANGED events)
  /\ \A s \in Scopes : WF_controlVars((PublishStop(s) \/ ShowStop(s)) /\ UNCHANGED events)
  /\ WF_controlVars(Listener /\ UNCHANGED events) /\ WF_controlVars(HearConversation /\ UNCHANGED events)
  /\ WF_controlVars(Writer /\ UNCHANGED events) /\ WF_controlVars(PublishWorkspace /\ UNCHANGED events)
  /\ \A c \in Causes : WF_controlVars(Revoker(c) /\ UNCHANGED events)
  /\ WF_controlVars(Following /\ UNCHANGED events)

ControlSpec == ControlInit /\ [][ControlNext]_controlVars /\ ControlFairness

-----------------------------------------------------------------------------
(* Properties.                                                             *)

ControlTypeOK ==
  /\ turn.subs \subseteq Topics /\ inbox \subseteq turn.subs
  /\ turn.active \in BOOLEAN /\ turn.watched \in BOOLEAN /\ turn.remembered \in BOOLEAN
  /\ snap.tries \in 0 .. Attempts
  /\ policy.gen \in 0 .. policy.epoch /\ policy.epoch \in 0 .. policy.perms
  /\ markers \subseteq ScopedTopics /\ hearing \subseteq ScopedTopics
  /\ flags \subseteq Causes /\ flags \subseteq why
  /\ row \in {"none", "streaming", "stopping", "complete", "stopped", "error", "scrubbed"}
  /\ frames \in Seq({"start", "delta", "end"}) /\ Len(frames) <= MaxDeltas + 2
  /\ tombstone \in BOOLEAN
  /\ follower.last \in 0 .. MaxDeltas + 2

\* A stop of one generation or message never loses the set-up: a question is not
\* left without an answer row unless something else cancelled the turn too.
StopSparesSetup ==
  turn.at = "over" /\ turn.question /\ row = "none" =>
    why \cap {"conversation", "permission", "workspace", "timeout"} # {}

\* When a turn is over and its listeners are idle, a revocation that any of them
\* saw has left nothing of the answer: not in the row and not in the stream. A
\* closed stream holds no frame at any time, neither an old nor a late one.
RevokedLeavesNothing ==
  /\ ControlTypeOK
  /\ tombstone => frames = <<>>
  /\ turn.at = "over" /\ flags # {} /\ row # "none" /\ (\A c \in Causes : revoking[c] = "idle")
       => row = "scrubbed" /\ tombstone

\* No turn announces its end while the permission version has moved on and the
\* row still holds an answer: what the listeners missed is caught at the end.
NoAnswerSurvivesRevocation ==
  [][turn.at # "terminal" /\ turn'.at = "terminal" /\ policy.gen # snap.gen
       => row' \in {"none", "scrubbed"}]_controlVars

\* However long the provider would go on, a turn ends when its generation or
\* message is asked to stop, whenever in its course that is, and when its permission
\* version or the policy of its workspace has moved on.
CancelledTurnEnds ==
  \/ \E s \in Scopes \cap ScopedTopics : stop[s] # "none"
  \/ Running /\ (policy.gen # snap.gen \/ workspace # "current")
  ~> Ended

\* A follower is released once the row is settled, by the end of the stream, by
\* its closing, or by the recheck of the row.
FollowerIsReleased == row \notin {"none", "streaming"} ~> Gone
=============================================================================
