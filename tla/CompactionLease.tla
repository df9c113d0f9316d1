--------------------------- MODULE CompactionLease ---------------------------
(***************************************************************************)
(* The lease that keeps two replicas from summarising one conversation at  *)
(* the same time, and from billing it twice. The row in the database is    *)
(* the authority; it carries the token of its owner and an expiry written  *)
(* with the clock of the replica that took it. A worker runs under a       *)
(* deadline set before it asks for the lease. It may crash at any point,   *)
(* and its release may come late or not at all.                            *)
(***************************************************************************)
EXTENDS Integers

CONSTANTS
  Workers,         \* goroutines, of one or several replicas
  Conversations,
  MaxDuration,     \* generationcfg.MaxDuration, the deadline of a compaction
  TTL,             \* effectiveCompactionLeaseTTL
  Skew,            \* how far the clocks of two replicas are apart at most
  MaxNow,          \* bound on the clock
  MaxAttempts      \* bound on the leases one worker takes

\* ProtectedDuration, the least TTL, is MaxDuration plus a margin of one minute:
\* the clocks have to agree to within that margin.
ASSUME LeaseAssumption ==
  /\ MaxDuration \in Nat /\ TTL \in Nat /\ Skew \in Nat
  /\ MaxNow \in Nat /\ MaxAttempts \in Nat
  /\ MaxDuration + Skew < TTL

VARIABLES
  now,
  offset,     \* how far a worker's clock is ahead
  lease,      \* conversation_compaction_leases by conversation
  phase,      \* idle, begun (deadline set), working (lease held), releasing
  target,     \* the conversation a worker is about
  deadline,   \* the deadline of its context
  attempt     \* makes the worker's owner tokens different (store.GenID)

vars == <<now, offset, lease, phase, target, deadline, attempt>>

\* No row: it has no owner and counts as expired.
NoLease == [owner |-> <<>>, expiresAt |-> 0]
Token(w) == <<w, attempt[w]>>
Lease == [owner : (Workers \X Nat) \cup {<<>>}, expiresAt : Nat]

Clock(w) == now + offset[w]

-----------------------------------------------------------------------------
Begin(w, c) ==
  /\ phase[w] = "idle"
  /\ attempt[w] < MaxAttempts
  /\ phase' = [phase EXCEPT ![w] = "begun"]
  /\ target' = [target EXCEPT ![w] = c]
  /\ deadline' = [deadline EXCEPT ![w] = now + MaxDuration]
  /\ attempt' = [attempt EXCEPT ![w] = @ + 1]
  /\ UNCHANGED <<now, offset, lease>>

\* Mutant: a lease that is there is overwritten.
TakeAlways(w) == TRUE

\* Delete an expired row, then insert unless one is left.
Free(w) == lease[target[w]].expiresAt <= Clock(w)

\* Mutant: the expiry is counted from the deadline's start without the margin.
ShortExpiry(w) == Clock(w) + MaxDuration - 1

LeaseExpiry(w) == Clock(w) + TTL

TryAcquire(w) ==
  /\ phase[w] = "begun"
  /\ now <= deadline[w]
  /\ Free(w)
  /\ lease' = [lease EXCEPT ![target[w]] = [owner |-> Token(w), expiresAt |-> LeaseExpiry(w)]]
  /\ phase' = [phase EXCEPT ![w] = "working"]
  /\ UNCHANGED <<now, offset, target, deadline, attempt>>

\* Refused, or the acquisition failed: nothing has been taken.
GiveUp(w) ==
  /\ phase[w] = "begun"
  /\ phase' = [phase EXCEPT ![w] = "idle"]
  /\ UNCHANGED <<now, offset, lease, target, deadline, attempt>>

\* The summary is done, failed, or the context ran out.
Finish(w) ==
  /\ phase[w] = "working"
  /\ phase' = [phase EXCEPT ![w] = "releasing"]
  /\ UNCHANGED <<now, offset, lease, target, deadline, attempt>>

\* The deferred release, on a context of its own: however late it comes, it
\* deletes the row only if the row is still this worker's.
Release(w) ==
  /\ phase[w] = "releasing"
  /\ lease' = [lease EXCEPT ![target[w]] = IF @.owner = Token(w) THEN NoLease ELSE @]
  /\ phase' = [phase EXCEPT ![w] = "idle"]
  /\ UNCHANGED <<now, offset, target, deadline, attempt>>

\* The process dies, or the release fails: the row stays until it expires.
Crash(w) ==
  /\ phase[w] \in {"working", "releasing"}
  /\ phase' = [phase EXCEPT ![w] = "idle"]
  /\ UNCHANGED <<now, offset, lease, target, deadline, attempt>>

\* A context that has reached its deadline stops the work before time goes on.
Tick ==
  /\ now < MaxNow
  /\ \A w \in Workers : phase[w] = "working" => now < deadline[w]
  /\ now' = now + 1
  /\ UNCHANGED <<offset, lease, phase, target, deadline, attempt>>

-----------------------------------------------------------------------------
Init ==
  /\ now = 0
  /\ offset \in [Workers -> 0..Skew]
  /\ lease = [c \in Conversations |-> NoLease]
  /\ phase = [w \in Workers |-> "idle"]
  /\ target \in [Workers -> Conversations]
  /\ deadline = [w \in Workers |-> 0]
  /\ attempt = [w \in Workers |-> 0]

Next ==
  \/ \E w \in Workers, c \in Conversations : Begin(w, c)
  \/ \E w \in Workers : TryAcquire(w)
  \/ \E w \in Workers : GiveUp(w)
  \/ \E w \in Workers : Finish(w)
  \/ \E w \in Workers : Release(w)
  \/ \E w \in Workers : Crash(w)
  \/ Tick

Spec == Init /\ [][Next]_vars

-----------------------------------------------------------------------------
(* Properties.                                                             *)

\* The values of the state.
TypeOK ==
  /\ now \in Nat
  /\ offset \in [Workers -> 0..Skew]
  /\ lease \in [Conversations -> Lease]
  /\ phase \in [Workers -> {"idle", "begun", "working", "releasing"}]
  /\ target \in [Workers -> Conversations]
  /\ deadline \in [Workers -> Nat]
  /\ attempt \in [Workers -> Nat]

Working(w, c) == phase[w] = "working" /\ target[w] = c

\* "a stalled provider cannot let another replica start a duplicate summary call":
\* two workers are never busy with one conversation, whatever crashes, late
\* releases and clock differences there are.
OneSummaryAtATime ==
  \A w, v \in Workers : \A c \in Conversations : Working(w, c) /\ Working(v, c) => w = v

\* A worker that is busy owns the row, and no clock can see the row expire before
\* the worker's deadline has stopped it. (The strengthening the theorem needs.)
WorkerOwnsLease ==
  \A w \in Workers : phase[w] = "working" =>
    /\ now <= deadline[w]
    /\ lease[target[w]].owner = Token(w)
    /\ lease[target[w]].expiresAt > deadline[w] + Skew

\* A late release never frees the lease of another worker.
ReleaseKeepsOthers ==
  [][\A w, v \in Workers : phase[w] = "releasing" /\ phase'[w] = "idle" /\ phase[v] = "working"
       => lease'[target[v]] = lease[target[v]]]_vars

\* The lease keeps what it promises.
Promise == INSTANCE ExclusiveTask WITH
  Items <- Conversations,
  busy <- [c \in Conversations |-> {w \in Workers : Working(w, c)}]

\* Every behaviour of the leased workers is one of workers that exclude each other.
KeepsPromise == Promise!Spec
=============================================================================
