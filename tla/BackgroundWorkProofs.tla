------------------------ MODULE BackgroundWorkProofs ------------------------
(***************************************************************************)
(* What goes on beside the requests: the compaction lease that excludes    *)
(* two workers from one conversation, the in-process queue that keeps each *)
(* job in one place, and the detached turn that is stopped, revoked and    *)
(* followed. The proofs hold for any number of workers, conversations and  *)
(* jobs and for any bounds the assumptions on the constants allow.         *)
(***************************************************************************)
EXTENDS CompactionLease, JobQueue, TurnControl, FiniteSetTheorems, SequenceTheorems, TLAPS

-----------------------------------------------------------------------------
(* The compaction lease.                                                   *)


\* A deadline is set MaxDuration ahead and only comes nearer.
DeadlineNear == \A w \in Workers : deadline[w] <= now + MaxDuration

\* The inductive invariant: a busy worker owns a row that outlives its deadline
\* on every clock. Two busy workers would own the same row.
IInv == TypeOK /\ WorkerOwnsLease /\ DeadlineNear

\* Two workers never have the same token.
LEMMA TokensDiffer ==
  ASSUME NEW w \in Workers, NEW v \in Workers, Token(w) = Token(v)
  PROVE  w = v
  BY DEF Token

\* The row of a busy worker is not free, for any worker and whatever its clock.
LEMMA BusyRowIsTaken ==
  ASSUME IInv, NEW w \in Workers, NEW v \in Workers,
         phase[w] = "working", target[v] = target[w]
  PROVE  ~Free(v)
  <1>1. /\ now <= deadline[w]
        /\ lease[target[w]].expiresAt > deadline[w] + Skew
    BY DEF IInv, WorkerOwnsLease
  <1>2. /\ now \in Nat /\ deadline[w] \in Nat /\ offset[v] \in 0..Skew
        /\ lease[target[w]] \in Lease
    BY DEF IInv, TypeOK
  <1>3. lease[target[w]].expiresAt \in Nat
    BY <1>2 DEF Lease
  <1>4. Clock(v) <= deadline[w] + Skew
    BY <1>1, <1>2, LeaseAssumption DEF Clock
  <1> QED
    BY <1>1, <1>2, <1>3, <1>4, LeaseAssumption DEF Free, Clock

\* Init establishes the invariant.
LEMMA InitInv == Init => IInv
  BY LeaseAssumption DEF Init, IInv, TypeOK, WorkerOwnsLease, DeadlineNear, Lease, NoLease

\* Every step preserves the types.
LEMMA StepType == TypeOK /\ [Next]_vars => TypeOK'
  <1> SUFFICES ASSUME TypeOK, [Next]_vars PROVE TypeOK'
    OBVIOUS
  <1> USE LeaseAssumption DEF TypeOK
  <1>1. ASSUME NEW w \in Workers, NEW c \in Conversations, Begin(w, c) PROVE TypeOK'
    BY <1>1 DEF Begin
  <1>2. ASSUME NEW w \in Workers, TryAcquire(w) PROVE TypeOK'
    <2>1. [owner |-> Token(w), expiresAt |-> LeaseExpiry(w)] \in Lease
      BY DEF Lease, Token, LeaseExpiry, Clock
    <2>2. lease' \in [Conversations -> Lease]
      BY <1>2, <2>1 DEF TryAcquire
    <2> QED
      BY <1>2, <2>2 DEF TryAcquire
  <1>3. ASSUME NEW w \in Workers, GiveUp(w) PROVE TypeOK'
    BY <1>3 DEF GiveUp
  <1>4. ASSUME NEW w \in Workers, Finish(w) PROVE TypeOK'
    BY <1>4 DEF Finish
  <1>5. ASSUME NEW w \in Workers, Release(w) PROVE TypeOK'
    <2>1. NoLease \in Lease
      BY DEF Lease, NoLease
    <2>2. lease' \in [Conversations -> Lease]
      BY <1>5, <2>1 DEF Release
    <2> QED
      BY <1>5, <2>2 DEF Release
  <1>6. ASSUME NEW w \in Workers, Crash(w) PROVE TypeOK'
    BY <1>6 DEF Crash
  <1>7. CASE Tick
    BY <1>7 DEF Tick
  <1>8. CASE UNCHANGED vars
    BY <1>8 DEF vars
  <1> QED
    BY <1>1, <1>2, <1>3, <1>4, <1>5, <1>6, <1>7, <1>8 DEF Next

\* Every step preserves what a busy worker owns: v stands for that worker.
LEMMA StepOwns == IInv /\ [Next]_vars => WorkerOwnsLease'
  <1> SUFFICES ASSUME IInv, [Next]_vars, NEW v \in Workers, phase'[v] = "working"
               PROVE  /\ now' <= deadline'[v]
                      /\ lease'[target'[v]].owner = Token(v)'
                      /\ lease'[target'[v]].expiresAt > deadline'[v] + Skew
    BY DEF WorkerOwnsLease
  <1> USE LeaseAssumption
  <1>t. TypeOK /\ TypeOK'
    BY StepType DEF IInv
  <1>o. phase[v] = "working" =>
          /\ now <= deadline[v]
          /\ lease[target[v]].owner = Token(v)
          /\ lease[target[v]].expiresAt > deadline[v] + Skew
    BY DEF IInv, WorkerOwnsLease
  <1> DEFINE Owns == /\ now' <= deadline'[v]
                     /\ lease'[target'[v]].owner = Token(v)'
                     /\ lease'[target'[v]].expiresAt > deadline'[v] + Skew
  <1>1. ASSUME NEW w \in Workers, NEW c \in Conversations, Begin(w, c) PROVE Owns
    <2>1. v # w /\ phase[v] = "working"
      BY <1>1, <1>t DEF Begin, TypeOK
    <2>2. deadline'[v] = deadline[v] /\ target'[v] = target[v] /\ attempt'[v] = attempt[v]
      BY <1>1, <1>t, <2>1 DEF Begin, TypeOK
    <2> QED
      BY <1>1, <1>o, <2>1, <2>2 DEF Begin, Token
  <1>2. ASSUME NEW w \in Workers, TryAcquire(w) PROVE Owns
    <2>1. CASE v = w
      <3>1. lease'[target[w]] = [owner |-> Token(w), expiresAt |-> LeaseExpiry(w)]
        BY <1>2, <1>t DEF TryAcquire, TypeOK
      <3>2. deadline[w] \in Nat /\ now \in Nat /\ offset[w] \in Nat
        BY <1>t DEF TypeOK
      <3>3. deadline[w] <= now + MaxDuration
        BY DEF IInv, DeadlineNear
      <3>4. LeaseExpiry(w) > deadline[w] + Skew
        BY <3>2, <3>3 DEF LeaseExpiry, Clock
      <3> QED
        BY <1>2, <2>1, <3>1, <3>4 DEF TryAcquire, Token
    <2>2. CASE v # w
      <3>1. phase[v] = "working"
        BY <1>2, <1>t, <2>2 DEF TryAcquire, TypeOK
      <3>2. target[v] # target[w]
        BY <1>2, <3>1, BusyRowIsTaken DEF TryAcquire
      <3>3. lease'[target[v]] = lease[target[v]]
        BY <1>2, <1>t, <3>2 DEF TryAcquire, TypeOK
      <3> QED
        BY <1>2, <1>o, <3>1, <3>3 DEF TryAcquire, Token
    <2> QED
      BY <2>1, <2>2
  <1>3. ASSUME NEW w \in Workers, GiveUp(w) \/ Finish(w) \/ Crash(w) PROVE Owns
    <2>1. phase[v] = "working"
      BY <1>3, <1>t DEF GiveUp, Finish, Crash, TypeOK
    <2> QED
      BY <1>3, <1>o, <2>1 DEF GiveUp, Finish, Crash, Token
  <1>4. ASSUME NEW w \in Workers, Release(w) PROVE Owns
    <2>1. v # w /\ phase[v] = "working"
      BY <1>4, <1>t DEF Release, TypeOK
    <2>2. Token(v) # Token(w)
      BY <2>1, TokensDiffer
    <2>3. lease'[target[v]] = lease[target[v]]
      BY <1>4, <1>o, <1>t, <2>1, <2>2 DEF Release, TypeOK
    <2> QED
      BY <1>4, <1>o, <2>1, <2>3 DEF Release, Token
  <1>5. CASE Tick
    <2>1. phase[v] = "working" /\ now < deadline[v] /\ now' = now + 1
      BY <1>5 DEF Tick
    <2>2. now' <= deadline[v]
      BY <1>t, <2>1 DEF TypeOK
    <2> QED
      BY <1>5, <1>o, <2>1, <2>2 DEF Tick, Token
  <1>6. CASE UNCHANGED vars
    BY <1>6, <1>o DEF vars, Token
  <1> QED
    BY <1>1, <1>2, <1>3, <1>4, <1>5, <1>6 DEF Next

\* No step moves a deadline further away than a new context's.
LEMMA StepDeadline == IInv /\ [Next]_vars => DeadlineNear'
  <1> SUFFICES ASSUME IInv, [Next]_vars, NEW v \in Workers
               PROVE  deadline'[v] <= now' + MaxDuration
    BY DEF DeadlineNear
  <1>1. deadline[v] <= now + MaxDuration /\ now \in Nat /\ deadline \in [Workers -> Nat]
    BY DEF IInv, DeadlineNear, TypeOK
  <1>2. ASSUME NEW w \in Workers, NEW c \in Conversations, Begin(w, c)
        PROVE  deadline'[v] <= now' + MaxDuration
    BY <1>1, <1>2, LeaseAssumption DEF Begin
  <1>3. CASE Tick
    BY <1>1, <1>3, LeaseAssumption DEF Tick
  <1>4. CASE UNCHANGED <<now, deadline>>
    BY <1>1, <1>4
  <1> QED
    BY <1>2, <1>3, <1>4 DEF Next, TryAcquire, GiveUp, Finish, Release, Crash, vars

\* Every step preserves the inductive invariant.
LEMMA InductiveStep == IInv /\ [Next]_vars => IInv'
  BY StepType, StepOwns, StepDeadline DEF IInv

\* The inductive invariant holds in every reachable state.
THEOREM Invariant == Spec => []IInv
  BY InitInv, InductiveStep, PTL DEF Spec

\* The invariant gives mutual exclusion: two busy workers would own one row.
LEMMA ExclusionFromInv == IInv => OneSummaryAtATime
  <1> SUFFICES ASSUME IInv, NEW w \in Workers, NEW v \in Workers, NEW c \in Conversations,
                      Working(w, c), Working(v, c)
               PROVE  w = v
    BY DEF OneSummaryAtATime
  <1>1. Token(w) = Token(v)
    BY DEF IInv, WorkerOwnsLease, Working
  <1> QED
    BY <1>1, TokensDiffer

\* Two workers never summarise one conversation at the same time.
THEOREM Exclusion == Spec => []OneSummaryAtATime
  BY Invariant, ExclusionFromInv, PTL

\* A late release leaves the row of a busy worker alone.
THEOREM LateReleaseHarmless == Spec => ReleaseKeepsOthers
  <1>1. ASSUME IInv, [Next]_vars, NEW w \in Workers, NEW v \in Workers,
               phase[w] = "releasing", phase'[w] = "idle", phase[v] = "working"
        PROVE  lease'[target[v]] = lease[target[v]]
    <2>t. TypeOK
      BY <1>1 DEF IInv
    <2>1. CASE Release(w)
      <3>1. Token(v) # Token(w)
        BY <1>1, TokensDiffer
      <3>2. lease[target[v]].owner = Token(v)
        BY <1>1 DEF IInv, WorkerOwnsLease
      <3> QED
        BY <2>1, <2>t, <3>1, <3>2 DEF Release, TypeOK
    <2>2. CASE Crash(w)
      BY <2>2 DEF Crash
    <2>3. Release(w) \/ Crash(w)
      BY <1>1, <2>t DEF Next, Begin, TryAcquire, GiveUp, Finish, Release, Crash, Tick, vars,
         TypeOK
    <2> QED
      BY <2>1, <2>2, <2>3
  <1>2. IInv /\ [Next]_vars =>
          [\A w, v \in Workers :
             phase[w] = "releasing" /\ phase'[w] = "idle" /\ phase[v] = "working"
               => lease'[target[v]] = lease[target[v]]]_vars
    BY <1>1
  <1> QED
    BY <1>2, Invariant, PTL DEF Spec, ReleaseKeepsOthers

-----------------------------------------------------------------------------
(* Refinement.                                                             *)

Busy == [c \in Conversations |-> {w \in Workers : Working(w, c)}]

\* Nobody is busy at first.
LEMMA RefineInit == Init => Promise!Init
  BY DEF Init, Promise!Init, Working

\* A step of the leased workers is a step of the promise or leaves it alone.
LEMMA RefineStep == IInv /\ [Next]_vars => [Promise!Next]_Busy
  <1> SUFFICES ASSUME IInv, [Next]_vars PROVE Promise!Next \/ Busy' = Busy
    BY DEF Busy
  <1>t. TypeOK
    BY DEF IInv
  <1>1. ASSUME NEW w \in Workers, NEW c \in Conversations, Begin(w, c) PROVE Busy' = Busy
    <2>1. \A x \in Workers, d \in Conversations : Working(x, d)' <=> Working(x, d)
      BY <1>1, <1>t DEF Begin, Working, TypeOK
    <2> QED
      BY <2>1 DEF Busy
  <1>2. ASSUME NEW w \in Workers, TryAcquire(w) PROVE Promise!Next
    <2> DEFINE c == target[w]
    <2>0. c \in Conversations
      BY <1>t DEF TypeOK
    <2>1. \A x \in Workers : ~Working(x, c)
      BY <1>2, BusyRowIsTaken DEF TryAcquire, Working
    <2>2. \A x \in Workers, d \in Conversations :
            Working(x, d)' <=> (x = w /\ d = c) \/ Working(x, d)
      BY <1>2, <1>t DEF TryAcquire, Working, TypeOK
    <2>3. Busy[c] = {}
      BY <2>0, <2>1 DEF Busy
    <2>4. Busy' = [Busy EXCEPT ![c] = {w}]
      <3>1. Busy' = [d \in Conversations |-> {x \in Workers : Working(x, d)'}]
        BY DEF Busy
      <3>2. ASSUME NEW d \in Conversations
            PROVE  {x \in Workers : Working(x, d)'} = IF d = c THEN {w} ELSE Busy[d]
        BY <2>1, <2>2, <3>2 DEF Busy
      <3> QED
        BY <3>1, <3>2 DEF Busy
    <2>5. Promise!Start(w, c)
      BY <2>3, <2>4 DEF Promise!Start, Busy
    <2> QED
      BY <2>0, <2>5 DEF Promise!Next
  <1>3. ASSUME NEW w \in Workers, GiveUp(w) PROVE Busy' = Busy
    <2>1. \A x \in Workers, d \in Conversations : Working(x, d)' <=> Working(x, d)
      BY <1>3, <1>t DEF GiveUp, Working, TypeOK
    <2> QED
      BY <2>1 DEF Busy
  <1>4. ASSUME NEW w \in Workers, Release(w) PROVE Busy' = Busy
    <2>1. \A x \in Workers, d \in Conversations : Working(x, d)' <=> Working(x, d)
      BY <1>4, <1>t DEF Release, Working, TypeOK
    <2> QED
      BY <2>1 DEF Busy
  <1>5. ASSUME NEW w \in Workers, phase[w] = "working", Finish(w) \/ Crash(w)
        PROVE  Promise!Next
    <2> DEFINE c == target[w]
    <2>0. c \in Conversations
      BY <1>t DEF TypeOK
    <2>1. Working(w, c)
      BY <1>5 DEF Working
    <2>2. \A x \in Workers, d \in Conversations :
            Working(x, d)' <=> Working(x, d) /\ ~(x = w /\ d = c)
      BY <1>5, <1>t DEF Finish, Crash, Working, TypeOK
    <2>3. w \in Busy[c]
      BY <2>0, <2>1 DEF Busy
    <2>4. Busy' = [Busy EXCEPT ![c] = @ \ {w}]
      <3>1. Busy' = [d \in Conversations |-> {x \in Workers : Working(x, d)'}]
        BY DEF Busy
      <3>2. ASSUME NEW d \in Conversations
            PROVE  {x \in Workers : Working(x, d)'} = IF d = c THEN Busy[d] \ {w} ELSE Busy[d]
        BY <2>2, <3>2 DEF Busy
      <3> QED
        BY <3>1, <3>2 DEF Busy
    <2>5. Promise!Stop(w, c)
      BY <2>3, <2>4 DEF Promise!Stop, Busy
    <2> QED
      BY <2>0, <2>5 DEF Promise!Next
  <1>6. ASSUME NEW w \in Workers, Crash(w), phase[w] # "working" PROVE Busy' = Busy
    <2>1. \A x \in Workers, d \in Conversations : Working(x, d)' <=> Working(x, d)
      BY <1>6, <1>t DEF Crash, Working, TypeOK
    <2> QED
      BY <2>1 DEF Busy
  <1>7. CASE Tick
    BY <1>7 DEF Tick, Busy, Working
  <1>8. CASE UNCHANGED vars
    BY <1>8 DEF vars, Busy, Working
  <1> QED
    BY <1>1, <1>2, <1>3, <1>4, <1>5, <1>6, <1>7, <1>8 DEF Next, Finish

\* The leased workers implement workers that exclude each other.
THEOREM Implements == Spec => KeepsPromise
  BY RefineInit, RefineStep, Invariant, PTL DEF Spec, KeepsPromise, Promise!Spec, Busy


-----------------------------------------------------------------------------
(* The job queue: every accepted job is in one place.                      *)

\* The channel holds the queued jobs, each once.
QueuedOnce ==
  /\ \A i, k \in DOMAIN jobs : jobs[i] = jobs[k] => i = k
  /\ \A j \in Jobs : status[j] = "queued" <=> \E i \in DOMAIN jobs : jobs[i] = j

\* The workers hold the running jobs, each once.
RunBySomeone ==
  /\ \A w, v \in Pool : running[w] = running[v] /\ running[w] \in Jobs => w = v
  /\ \A j \in Jobs : status[j] = "running" <=> \E w \in Pool : running[w] = j

\* The channel is closed after the last worker has left, and by a Close.
ClosedLast ==
  jobsClosed => closed /\ \A w \in Pool : running[w] = Exited

QueueInv == QueueTypeOK /\ QueuedOnce /\ RunBySomeone /\ ClosedLast

\* A set that is a singleton or empty has one element or none.
LEMMA OneOrNone ==
  ASSUME NEW S, \A x, y \in S : x = y
  PROVE  Cardinality(S) = IF S = {} THEN 0 ELSE 1
<1>1. CASE S = {}
  BY <1>1, FS_EmptySet
<1>2. CASE S # {}
  <2>1. PICK x \in S : TRUE
    BY <1>2
  <2>2. S = {x}
    BY <2>1
  <2>3. QED
    BY <1>2, <2>2, FS_Singleton
<1>3. QED
  BY <1>1, <1>2

\* The invariant says where each job is.
LEMMA OnePlaceFromInv == QueueInv => EachJobInOnePlace
<1> SUFFICES ASSUME QueueInv PROVE EachJobInOnePlace
  OBVIOUS
<1>1. ASSUME NEW j \in Jobs
      PROVE  Cardinality({i \in DOMAIN jobs : jobs[i] = j}) = IF status[j] = "queued" THEN 1 ELSE 0
  <2>1. \A x, y \in {i \in DOMAIN jobs : jobs[i] = j} : x = y
    BY DEF QueueInv, QueuedOnce
  <2>2. {i \in DOMAIN jobs : jobs[i] = j} = {} <=> status[j] # "queued"
    BY DEF QueueInv, QueuedOnce
  <2>3. QED
    BY <2>1, <2>2, OneOrNone
<1>2. ASSUME NEW j \in Jobs
      PROVE  Cardinality({w \in Pool : running[w] = j}) = IF status[j] = "running" THEN 1 ELSE 0
  <2>1. \A x, y \in {w \in Pool : running[w] = j} : x = y
    BY DEF QueueInv, RunBySomeone
  <2>2. {w \in Pool : running[w] = j} = {} <=> status[j] # "running"
    BY DEF QueueInv, RunBySomeone
  <2>3. QED
    BY <2>1, <2>2, OneOrNone
<1>3. QED
  BY <1>1, <1>2 DEF QueueInv, ClosedLast, EachJobInOnePlace

\* At first there is no job anywhere.
LEMMA QueueBegins == QueueInit => QueueInv
<1> SUFFICES ASSUME QueueInit PROVE QueueInv
  OBVIOUS
<1>1. jobs = <<>> /\ jobs \in Seq(Jobs) /\ Len(jobs) = 0
  <2>1. jobs = <<>>
    BY DEF QueueInit
  <2>2. <<>> \in Seq(Jobs)
    BY EmptySeq
  <2>4. jobs \in Seq(Jobs) /\ (jobs = <<>> <=> Len(jobs) = 0)
    BY <2>1, <2>2, EmptySeq, Zenon
  <2>3. QED BY <2>1, <2>4, Zenon
<1>d. DOMAIN jobs = 1 .. 0
  BY <1>1, LenProperties
<1>2. QueueTypeOK
  <2>1. /\ status = [j \in Jobs |-> "new"] /\ running = [w \in Pool |-> Idle]
        /\ closed = FALSE /\ jobsClosed = FALSE /\ panicked = FALSE
    BY DEF QueueInit
  <2>2. jobs \in Seq(Jobs) /\ Len(jobs) <= Buffer
    BY <1>1, QueueAssumption
  <2>3. QED BY <2>1, <2>2 DEF QueueTypeOK
<1>3. QueuedOnce
  BY <1>d DEF QueueInit, QueuedOnce
<1>4. /\ \A w \in Pool : running[w] = Idle
      /\ \A j \in Jobs : status[j] = "new" /\ j # Idle
  BY NamesAssumption DEF QueueInit
<1>5. RunBySomeone
  BY <1>4, NamesAssumption DEF RunBySomeone
<1>6. QED
  BY <1>2, <1>3, <1>5 DEF QueueInit, QueueInv, ClosedLast

\* A new job in the channel is the last one.
LEMMA SendKeeps ==
  ASSUME QueueInv, NEW j \in Jobs, EnqueueSend(j)
  PROVE  QueueInv'
<1>1. /\ jobs \in Seq(Jobs) /\ Len(jobs) \in Nat /\ Len(jobs) < Buffer /\ status[j] = "new"
      /\ jobs' = Append(jobs, j) /\ status' = [status EXCEPT ![j] = "queued"]
      /\ UNCHANGED <<running, closed, jobsClosed, panicked>>
  BY DEF EnqueueSend, QueueInv, QueueTypeOK
<1>2. /\ jobs' \in Seq(Jobs) /\ Len(jobs') = Len(jobs) + 1
      /\ DOMAIN jobs = 1..Len(jobs) /\ DOMAIN jobs' = 1..(Len(jobs) + 1)
      /\ jobs'[Len(jobs) + 1] = j /\ \A i \in DOMAIN jobs : jobs'[i] = jobs[i]
      /\ \A i \in DOMAIN jobs' : i \in DOMAIN jobs \/ i = Len(jobs) + 1
      /\ DOMAIN jobs \subseteq DOMAIN jobs' /\ Len(jobs) + 1 \in DOMAIN jobs'
  BY <1>1
<1>3. QueueTypeOK'
  BY <1>1, <1>2, QueueAssumption DEF QueueInv, QueueTypeOK
<1>4. \A i \in DOMAIN jobs : jobs[i] # j
  BY <1>1 DEF QueueInv, QueuedOnce
<1>5. \A i, k \in DOMAIN jobs' : jobs'[i] = jobs'[k] => i = k
  BY <1>2, <1>4 DEF QueueInv, QueuedOnce
<1>6. ASSUME NEW x \in Jobs
      PROVE  status'[x] = "queued" <=> \E i \in DOMAIN jobs' : jobs'[i] = x
  BY <1>1, <1>2 DEF QueueInv, QueuedOnce, QueueTypeOK
<1>7. RunBySomeone' /\ ClosedLast'
  BY <1>1 DEF QueueInv, RunBySomeone, ClosedLast, QueueTypeOK
<1>8. QED
  BY <1>3, <1>5, <1>6, <1>7 DEF QueueInv, QueuedOnce

\* The first job leaves the channel, to a worker or for good.
LEMMA HeadLeaves ==
  ASSUME QueueInv, jobs # <<>>, jobs' = Tail(jobs), NEW s \in {"running", "dropped"},
         status' = [status EXCEPT ![Head(jobs)] = s]
  PROVE  /\ Head(jobs) \in Jobs /\ status[Head(jobs)] = "queued"
         /\ jobs' \in Seq(Jobs) /\ Len(jobs') <= Buffer /\ QueuedOnce'
<1>1. /\ jobs \in Seq(Jobs) /\ Len(jobs) \in Nat /\ Len(jobs) > 0 /\ Len(jobs) <= Buffer
      /\ Buffer \in Nat
  BY QueueAssumption DEF QueueInv, QueueTypeOK
<1>2. /\ Head(jobs) = jobs[1] /\ Head(jobs) \in Jobs
      /\ jobs' \in Seq(Jobs) /\ Len(jobs') = Len(jobs) - 1
      /\ DOMAIN jobs = 1..Len(jobs) /\ DOMAIN jobs' = 1..(Len(jobs) - 1)
      /\ \A i \in DOMAIN jobs' : jobs'[i] = jobs[i + 1]
  BY <1>1
<1>3. status[Head(jobs)] = "queued"
  BY <1>1, <1>2 DEF QueueInv, QueuedOnce
<1>4. \A i \in DOMAIN jobs' : i + 1 \in DOMAIN jobs /\ i + 1 # 1 /\ i \in Int
  BY <1>1, <1>2
<1>5. ASSUME NEW i \in DOMAIN jobs', NEW k \in DOMAIN jobs', jobs'[i] = jobs'[k] PROVE i = k
  <2>1. i + 1 = k + 1
    BY <1>2, <1>4, <1>5 DEF QueueInv, QueuedOnce
  <2>2. QED BY <1>4, <2>1
<1>6. ASSUME NEW x \in Jobs
      PROVE  status'[x] = "queued" <=> \E i \in DOMAIN jobs' : jobs'[i] = x
  <2>1. CASE x = Head(jobs)
    <3>1. status'[x] = s /\ s # "queued"
      BY <2>1 DEF QueueInv, QueueTypeOK
    <3>2. ASSUME NEW i \in DOMAIN jobs', jobs'[i] = x PROVE FALSE
      <4>1. 1 \in DOMAIN jobs /\ jobs[1] = x /\ jobs[i + 1] = x
        BY <1>1, <1>2, <2>1, <3>2
      <4>2. QED
        BY <1>4, <4>1 DEF QueueInv, QueuedOnce
    <3>3. QED BY <3>1, <3>2
  <2>2. CASE x # Head(jobs)
    <3>1. status'[x] = status[x]
      BY <2>2 DEF QueueInv, QueueTypeOK
    <3>2. ASSUME NEW i \in DOMAIN jobs, jobs[i] = x
          PROVE  i - 1 \in DOMAIN jobs' /\ jobs'[i - 1] = x
      <4>1. i # 1 /\ i \in 1..Len(jobs)
        BY <1>2, <2>2, <3>2
      <4>2. i - 1 \in 1..(Len(jobs) - 1) /\ (i - 1) + 1 = i
        BY <1>1, <4>1
      <4>3. QED BY <1>2, <3>2, <4>2
    <3>3. ASSUME NEW i \in DOMAIN jobs', jobs'[i] = x
          PROVE  i + 1 \in DOMAIN jobs /\ jobs[i + 1] = x
      BY <1>2, <1>4, <3>3
    <3>4. status[x] = "queued" <=> \E i \in DOMAIN jobs : jobs[i] = x
      BY DEF QueueInv, QueuedOnce
    <3>5. QED
      BY <3>1, <3>2, <3>3, <3>4
  <2>3. QED BY <2>1, <2>2
<1>7. QED
  BY <1>1, <1>2, <1>3, <1>5, <1>6 DEF QueuedOnce

\* Every step of the queue preserves the invariant.
LEMMA QueueKeeps == QueueInv /\ [QueueNext]_queueVars => QueueInv'
<1> SUFFICES ASSUME QueueInv, [QueueNext]_queueVars PROVE QueueInv'
  OBVIOUS
<1>t. QueueTypeOK /\ QueuedOnce /\ RunBySomeone /\ ClosedLast
  BY DEF QueueInv
<1>n. Idle \notin Jobs /\ Exited \notin Jobs /\ Idle # Exited
  BY NamesAssumption DEF Idle, Exited
<1>1. ASSUME NEW j \in Jobs, EnqueueSend(j) PROVE QueueInv'
  BY <1>1, SendKeeps
<1>2. ASSUME NEW j \in Jobs, EnqueueOnClosed(j) \/ EnqueueSkip(j) \/ EnqueueOverflow(j) \/ OverflowDone(j)
      PROVE  QueueInv'
  <2>1. /\ status[j] \in {"new", "overflow"} /\ panicked' \in BOOLEAN
        /\ \E s \in {"dropped", "overflow", "done"} : status' = [status EXCEPT ![j] = s]
        /\ UNCHANGED <<jobs, running, closed, jobsClosed>>
    BY <1>2, <1>t DEF EnqueueOnClosed, EnqueueSkip, EnqueueOverflow, OverflowDone, QueueTypeOK
  <2>2. \A x \in Jobs : /\ status'[x] = "queued" <=> status[x] = "queued"
                        /\ status'[x] = "running" <=> status[x] = "running"
    BY <1>t, <2>1 DEF QueueTypeOK
  <2>3. QueueTypeOK'
    BY <1>t, <2>1 DEF QueueTypeOK
  <2>4. QED
    BY <1>t, <2>1, <2>2, <2>3 DEF QueueInv, QueuedOnce, RunBySomeone, ClosedLast
<1>3. ASSUME NEW w \in Pool, WorkerTake(w) PROVE QueueInv'
  <2> DEFINE h == Head(jobs)
  <2>1. /\ running[w] = Idle /\ jobs # <<>> /\ jobs' = Tail(jobs)
        /\ running' = [running EXCEPT ![w] = h]
        /\ status' = [status EXCEPT ![h] = "running"]
        /\ UNCHANGED <<closed, jobsClosed, panicked>>
    BY <1>3 DEF WorkerTake
  <2>2. /\ h \in Jobs /\ status[h] = "queued"
        /\ jobs' \in Seq(Jobs) /\ Len(jobs') <= Buffer /\ QueuedOnce'
    BY <2>1, HeadLeaves
  <2> HIDE DEF h
  <2>3. QueueTypeOK'
    BY <1>t, <2>1, <2>2 DEF QueueTypeOK
  <2>4. RunBySomeone'
    <3>1. \A v \in Pool : running[v] # h
      BY <1>t, <2>2 DEF RunBySomeone
    <3>2. \A v \in Pool : running'[v] = IF v = w THEN h ELSE running[v]
      BY <1>t, <2>1 DEF QueueTypeOK
    <3>3. \A j \in Jobs : status'[j] = IF j = h THEN "running" ELSE status[j]
      BY <1>t, <2>1 DEF QueueTypeOK
    <3>4. \A u, v \in Pool : running'[u] = running'[v] /\ running'[u] \in Jobs => u = v
      BY <1>t, <3>1, <3>2 DEF RunBySomeone
    <3>5. ASSUME NEW j \in Jobs
          PROVE  status'[j] = "running" <=> \E v \in Pool : running'[v] = j
      BY <1>t, <1>n, <2>1, <3>1, <3>2, <3>3 DEF RunBySomeone
    <3>6. QED BY <3>4, <3>5 DEF RunBySomeone
  <2>5. ClosedLast'
    BY <1>t, <1>n, <2>1 DEF ClosedLast
  <2>6. QED
    BY <2>2, <2>3, <2>4, <2>5 DEF QueueInv
<1>4. ASSUME NEW w \in Pool, WorkerDone(w) PROVE QueueInv'
  <2> DEFINE d == running[w]
  <2>1. /\ d \in Jobs /\ status[d] = "running"
        /\ running' = [running EXCEPT ![w] = Idle]
        /\ status' = [status EXCEPT ![d] = "done"]
        /\ UNCHANGED <<jobs, closed, jobsClosed, panicked>>
    BY <1>4, <1>t DEF WorkerDone, RunBySomeone
  <2>2. QueueTypeOK'
    BY <1>t, <2>1 DEF QueueTypeOK
  <2>3. /\ \A v \in Pool : running'[v] = IF v = w THEN Idle ELSE running[v]
        /\ \A v \in Pool : v # w => running[v] # d
        /\ \A j \in Jobs : status'[j] = IF j = d THEN "done" ELSE status[j]
    BY <1>t, <2>1 DEF QueueTypeOK, RunBySomeone
  <2>4. RunBySomeone'
    BY <1>t, <1>n, <2>1, <2>3 DEF RunBySomeone
  <2>5. QueuedOnce' /\ ClosedLast'
    BY <1>t, <1>n, <2>1, <2>3 DEF QueuedOnce, ClosedLast
  <2>6. QED
    BY <2>2, <2>4, <2>5 DEF QueueInv
<1>5. ASSUME NEW w \in Pool, WorkerExit(w) PROVE QueueInv'
  <2>1. \A v \in Pool : running'[v] = IF v = w THEN Exited ELSE running[v]
    BY <1>5, <1>t DEF WorkerExit, QueueTypeOK
  <2>2. running[w] = Idle /\ UNCHANGED <<status, jobs, closed, jobsClosed, panicked>>
    BY <1>5 DEF WorkerExit
  <2>3. QueueTypeOK'
    BY <1>5, <1>t DEF WorkerExit, QueueTypeOK
  <2>4. QED
    BY <1>t, <1>n, <2>1, <2>2, <2>3 DEF QueueInv, QueuedOnce, RunBySomeone, ClosedLast
<1>6. CASE CloseSignal
  BY <1>6, <1>t DEF CloseSignal, QueueInv, QueueTypeOK, QueuedOnce, RunBySomeone, ClosedLast
<1>7. CASE Drain
  <2> DEFINE h == Head(jobs)
  <2>1. /\ jobs # <<>> /\ jobs' = Tail(jobs) /\ status' = [status EXCEPT ![h] = "dropped"]
        /\ UNCHANGED <<running, closed, jobsClosed, panicked>>
    BY <1>7 DEF Drain
  <2>2. /\ h \in Jobs /\ status[h] = "queued"
        /\ jobs' \in Seq(Jobs) /\ Len(jobs') <= Buffer /\ QueuedOnce'
    BY <2>1, HeadLeaves
  <2> HIDE DEF h
  <2>3. QueueTypeOK'
    BY <1>t, <2>1, <2>2 DEF QueueTypeOK
  <2>4. \A j \in Jobs : status'[j] = "running" <=> status[j] = "running"
    BY <1>t, <2>1, <2>2 DEF QueueTypeOK
  <2>5. RunBySomeone' /\ ClosedLast'
    BY <1>t, <2>1, <2>4 DEF RunBySomeone, ClosedLast
  <2>6. QED
    BY <2>2, <2>3, <2>5 DEF QueueInv
<1>8. CASE CloseJobs
  BY <1>8, <1>t DEF CloseJobs, QueueInv, QueueTypeOK, QueuedOnce, RunBySomeone, ClosedLast
<1>9. CASE UNCHANGED queueVars
  BY <1>9, <1>t DEF queueVars, QueueInv, QueueTypeOK, QueuedOnce, RunBySomeone, ClosedLast
<1>10. QED
  BY <1>1, <1>2, <1>3, <1>4, <1>5, <1>6, <1>7, <1>8, <1>9 DEF QueueNext, Enqueue

\* Every accepted job is in one place, whatever callers, workers and Close do.
THEOREM OnePlace == QueueSpec => []EachJobInOnePlace
<1>1. QueueInit => QueueInv
  BY QueueBegins
<1>2. QueueInv /\ [QueueNext]_queueVars => QueueInv'
  BY QueueKeeps
<1>3. QED
  BY <1>1, <1>2, OnePlaceFromInv, PTL DEF QueueSpec

-----------------------------------------------------------------------------
(* The detached turn: what its invariant says.                             *)

\* Where the handler is before the row of the answer may exist, before the
\* stream may hold a frame, and once it knows what was revoked before.
Early == {"start", "read", "compare", "version", "watch", "check access", "subscribe",
          "marker", "legacy", "ask", "place"}
Silent == Early \cup {"remember", "watch message", "message marker", "activate", "apply stop",
                      "know message", "settle access", "announce"}
Settled == {"announce", "generate", "forward", "recheck", "terminal", "close", "over"}
Stages == Silent \cup Settled \cup {"crashed"}

\* What may cancel a turn that is being set up.
Others == {"conversation", "permission", "workspace", "timeout"}

Frame == {"start", "delta", "end"}
DeltasIn(fs) == Cardinality({i \in DOMAIN fs : fs[i] = "delta"})

\* The values of the state.
TurnType == [at : Stages, subs : SUBSET Topics, active : BOOLEAN, watched : BOOLEAN,
             remembered : BOOLEAN, question : BOOLEAN]
SnapType == [tries : 0 .. Attempts, before : Nat, perms : Nat, gen : Nat]
PolicyType == [perms : Nat, epoch : Nat, gen : Nat,
               writer : {"idle", "committed", "bumped", "versioned"}]
FollowerType == [at : {"away", "replay", "subscribe", "second", "loop", "ended"}, last : Nat,
                 notified : BOOLEAN, revoked : BOOLEAN, settled : BOOLEAN]
Rows == {"none", "streaming", "stopping", "complete", "stopped", "error", "scrubbed"}

ControlTypes ==
  /\ turn \in TurnType /\ snap \in SnapType /\ policy \in PolicyType /\ follower \in FollowerType
  /\ inbox \subseteq turn.subs
  /\ markers \subseteq ScopedTopics /\ hearing \subseteq ScopedTopics
  /\ flags \subseteq Causes /\ flags \subseteq why
  /\ revoking \in [Causes -> {"idle", "flagged", "closed"}]
  /\ row \in Rows
  /\ frames \in Seq(Frame)
  /\ tombstone \in BOOLEAN

\* A try is left where the snapshot begins, and a change of the permissions moves
\* its three versions one after the other.
Versions ==
  /\ turn.at = "start" => snap.tries < Attempts
  /\ policy.perms = policy.epoch + (IF policy.writer = "committed" THEN 1 ELSE 0)
  /\ policy.epoch = policy.gen + (IF policy.writer = "bumped" THEN 1 ELSE 0)

\* Until the row of the answer is there, no stop cancels the turn; and a question
\* without an answer row was cancelled by something else.
Spared ==
  /\ turn.at \in Early => ~turn.active /\ why \subseteq Others /\ row = "none"
  /\ turn.question /\ row = "none" => turn.at \in {"place", "crashed"} \/ why \cap Others # {}

\* Once the handler has settled what came before it knew the message, a flag has
\* had its effect or its listener is still about to have it.
Revoked ==
  /\ tombstone => frames = <<>>
  /\ turn.at \in Settled \cup {"settle access"} /\ row # "none" => turn.watched
  /\ \A c \in Causes : revoking[c] = "closed" => tombstone
  /\ turn.at \in Settled /\ row # "none" /\ flags # {} =>
       \/ row = "scrubbed" /\ tombstone
       \/ \E c \in Causes : revoking[c] # "idle"

\* The stream holds one start, the pieces, and one end.
Counted ==
  /\ turn.at \in Silent => frames = <<>>
  /\ Len(frames) <= DeltasIn(frames) + (IF turn.at \in {"close", "over", "crashed"} THEN 2 ELSE 1)
  /\ DeltasIn(frames) <= MaxDeltas
  /\ turn.at = "forward" => DeltasIn(frames) < MaxDeltas
  /\ follower.last <= MaxDeltas + 2

ControlInv == ControlTypes /\ Versions /\ Spared /\ Revoked /\ Counted

-----------------------------------------------------------------------------
(* The detached turn: what its steps move.                                 *)

\* What moves the row, the stream and the flags.
MovesRow ==
  \/ Place \/ ApplyStop \/ SettleAccess \/ Unwind \/ ProviderReturns \/ Recheck \/ SettleStale
  \/ (\E s \in Scopes : ShowStop(s)) \/ \E c \in Causes : Scrub(c)
MovesStream ==
  \/ Announce \/ Forward \/ SettleAccess \/ Recheck \/ Terminal
  \/ \E c \in Causes : CloseStream(c)
MovesFlags ==
  \/ CheckAccess \/ Recheck \/ GroupExpires \/ ReplicaCrash
  \/ \E c \in Causes : Revoker(c)

\* Which actions move which part of the state.
LEMMA WhoMoves ==
  ASSUME ControlNext
  PROVE  /\ UNCHANGED turn \/ Handler \/ Produce \/ ProviderReturns \/ ReplicaCrash
         /\ UNCHANGED snap \/ SnapshotBefore \/ SnapshotRead \/ SnapshotVersion
         /\ UNCHANGED policy \/ ChangePermissions \/ Writer
         /\ UNCHANGED row \/ MovesRow
         /\ UNCHANGED <<frames, tombstone>> \/ MovesStream
         /\ UNCHANGED follower \/ MovesStream \/ Open \/ Following
         /\ UNCHANGED <<flags, revoking>> \/ MovesFlags
<1> USE DEF MovesRow, MovesStream, MovesFlags, ControlNext, Step, Event, Handler, Setup, Listener,
   Writer, Revoker, Following, RaiseFlag, AppendFrame, RevokeStream, FinishTurn, ReadMarker,
   Publish, Goto, outside, stopVars, revokeVars, streamVars, SnapshotBefore, SnapshotRead,
   SnapshotAfter, SnapshotVersion, WatchAccess, CheckAccess, SubscribeGeneration,
   CheckGenerationMarker, SubscribeConversation, AskQuestion, Place, Remember, SubscribeMessage,
   CheckMessageMarker, Activate, ApplyStop, KnowMessage, SettleAccess, Announce, Forward, Unwind,
   Recheck, Terminal, Close, Produce, ProviderReturns, SettleStale, HearConversation, BumpEpoch,
   BumpGeneration, PublishPermissions, PublishWorkspace, Replay, Subscribe, ReplayAgain, Notified,
   Recheck5s, HearRevoked, TimeOut, GroupExpires, ReplicaCrash, Open, StopConversation,
   ChangePermissions, ChangeWorkspace, PublishStop, ShowStop, HearStop, ActOnStop, Deaf,
   HearRevocation, CloseStream, Scrub, RequestStop
<1>1. UNCHANGED turn \/ Handler \/ Produce \/ ProviderReturns \/ ReplicaCrash
  OBVIOUS
<1>2. UNCHANGED snap \/ SnapshotBefore \/ SnapshotRead \/ SnapshotVersion
  OBVIOUS
<1>3. UNCHANGED policy \/ ChangePermissions \/ Writer
  OBVIOUS
<1>4. UNCHANGED row \/ MovesRow
  OBVIOUS
<1>5. UNCHANGED <<frames, tombstone>> \/ MovesStream
  OBVIOUS
<1>6. UNCHANGED follower \/ MovesStream \/ Open \/ Following
  OBVIOUS
<1>7. UNCHANGED <<flags, revoking>> \/ MovesFlags
  OBVIOUS
<1> HIDE DEF MovesRow, MovesStream, MovesFlags, ControlNext, Step, Event, Handler, Setup,
   Listener, Writer, Revoker, Following, RaiseFlag, AppendFrame, RevokeStream, FinishTurn,
   ReadMarker, Publish, Goto, outside, stopVars, revokeVars, streamVars, SnapshotBefore,
   SnapshotRead, SnapshotAfter, SnapshotVersion, WatchAccess, CheckAccess, SubscribeGeneration,
   CheckGenerationMarker, SubscribeConversation, AskQuestion, Place, Remember, SubscribeMessage,
   CheckMessageMarker, Activate, ApplyStop, KnowMessage, SettleAccess, Announce, Forward, Unwind,
   Recheck, Terminal, Close, Produce, ProviderReturns, SettleStale, HearConversation, BumpEpoch,
   BumpGeneration, PublishPermissions, PublishWorkspace, Replay, Subscribe, ReplayAgain, Notified,
   Recheck5s, HearRevoked, TimeOut, GroupExpires, ReplicaCrash, Open, StopConversation,
   ChangePermissions, ChangeWorkspace, PublishStop, ShowStop, HearStop, ActOnStop, Deaf,
   HearRevocation, CloseStream, Scrub, RequestStop
<1>8. QED
  BY <1>1, <1>2, <1>3, <1>4, <1>5, <1>6, <1>7

-----------------------------------------------------------------------------
(* The detached turn: the values of its state.                             *)

\* The handler keeps to its course.
LEMMA TurnTyped ==
  ASSUME turn \in TurnType, ControlNext
  PROVE  turn' \in TurnType
<1> USE DEF TurnType, Stages, Silent, Settled, Early
<1>1. CASE Setup
  <2>1. ASSUME NEW pc \in Stages, Goto(pc) PROVE turn' \in TurnType
    BY <2>1 DEF Goto
  <2>2. CASE WatchAccess \/ SubscribeGeneration \/ SubscribeConversation \/ SubscribeMessage
    <3>1. ASSUME NEW pc \in Stages, NEW S \in SUBSET Topics,
                 turn' = [turn EXCEPT !.at = pc, !.subs = @ \cup S]
          PROVE  turn' \in TurnType
      BY <3>1
    <3>2. QED
      BY <2>2, <3>1 DEF WatchAccess, SubscribeGeneration, SubscribeConversation, SubscribeMessage,
         Topics, ScopedTopics, Causes
  <2>3. CASE AskQuestion
    BY <2>3 DEF AskQuestion, Cancelled
  <2>4. CASE Remember \/ Activate \/ KnowMessage
    BY <2>4 DEF Remember, Activate, KnowMessage
  <2>5. CASE \/ SnapshotBefore \/ SnapshotRead \/ SnapshotAfter \/ SnapshotVersion
             \/ CheckAccess \/ CheckGenerationMarker \/ Place \/ CheckMessageMarker
             \/ ApplyStop \/ SettleAccess \/ Announce
    BY <2>1, <2>5 DEF SnapshotBefore, SnapshotRead, SnapshotAfter, SnapshotVersion, CheckAccess,
       CheckGenerationMarker, Place, CheckMessageMarker, ApplyStop, SettleAccess, Announce
  <2>6. QED
    BY <1>1, <2>2, <2>3, <2>4, <2>5 DEF Setup
<1>2. CASE Forward \/ Unwind \/ Recheck \/ Terminal \/ Close \/ Produce \/ ProviderReturns \/ ReplicaCrash
  BY <1>2 DEF Goto, FinishTurn, Forward, Unwind, Recheck, Terminal, Close, Produce,
     ProviderReturns, ReplicaCrash
<1>3. QED
  BY <1>1, <1>2, WhoMoves DEF Handler

\* The versions of the permissions stay numbers.
LEMMA PolicyTyped ==
  ASSUME policy \in PolicyType, ControlNext
  PROVE  policy' \in PolicyType
<1>n. policy.perms + 1 \in Nat /\ policy.epoch + 1 \in Nat /\ policy.gen + 1 \in Nat
  BY DEF PolicyType
<1>1. CASE ChangePermissions
  <2>1. ASSUME NEW n \in Nat, policy' = [policy EXCEPT !.perms = n, !.writer = "committed"]
        PROVE  policy' \in PolicyType
    BY <2>1 DEF PolicyType
  <2>2. QED
    BY <1>n, <1>1, <2>1 DEF ChangePermissions
<1>2. CASE BumpEpoch
  <2>1. ASSUME NEW n \in Nat, policy' = [policy EXCEPT !.epoch = n, !.writer = "bumped"]
        PROVE  policy' \in PolicyType
    BY <2>1 DEF PolicyType
  <2>2. QED
    BY <1>n, <1>2, <2>1 DEF BumpEpoch
<1>3. CASE BumpGeneration
  <2>1. ASSUME NEW n \in Nat, policy' = [policy EXCEPT !.gen = n, !.writer = "versioned"]
        PROVE  policy' \in PolicyType
    BY <2>1 DEF PolicyType
  <2>2. QED
    BY <1>n, <1>3, <2>1 DEF BumpGeneration
<1>4. CASE PublishPermissions
  BY <1>4 DEF PublishPermissions, PolicyType
<1>5. QED
  BY <1>1, <1>2, <1>3, <1>4, WhoMoves DEF Writer

\* No snapshot is tried more often than allowed.
LEMMA SnapTyped ==
  ASSUME ControlTypes, Versions, ControlNext
  PROVE  snap' \in SnapType
<1>1. snap \in SnapType /\ policy.epoch \in Nat /\ policy.perms \in Nat /\ policy.gen \in Nat
  BY DEF ControlTypes, PolicyType
<1>2. CASE SnapshotBefore
  <2>1. snap.tries + 1 \in 0 .. Attempts
    BY <1>1, <1>2, TurnControlAssumption DEF Versions, SnapshotBefore, At, SnapType
  <2>2. QED
    BY <1>1, <1>2, <2>1 DEF SnapshotBefore, SnapType
<1>3. CASE SnapshotRead \/ SnapshotVersion
  BY <1>1, <1>3 DEF SnapshotRead, SnapshotVersion, SnapType
<1>4. QED
  BY <1>1, <1>2, <1>3, WhoMoves

\* A row has one of its statuses.
LEMMA RowTyped ==
  ASSUME row \in Rows, ControlNext
  PROVE  row' \in Rows
<1>1. QED
  BY WhoMoves DEF MovesRow, Rows, Place, ApplyStop, SettleAccess, Unwind, ProviderReturns,
     FinishTurn, Recheck, SettleStale, ShowStop, Scrub, Stopping, Scrubbed, Written

\* The stream holds frames.
LEMMA StreamTyped ==
  ASSUME frames \in Seq(Frame), tombstone \in BOOLEAN, ControlNext
  PROVE  frames' \in Seq(Frame) /\ tombstone' \in BOOLEAN
<1>1. ASSUME NEW f \in Frame, AppendFrame(f) PROVE frames' \in Seq(Frame) /\ tombstone' \in BOOLEAN
  BY <1>1 DEF AppendFrame
<1>2. ASSUME RevokeStream PROVE frames' \in Seq(Frame) /\ tombstone' \in BOOLEAN
  BY <1>2, EmptySeq DEF RevokeStream
<1>3. ASSUME UNCHANGED <<frames, tombstone>> PROVE frames' \in Seq(Frame) /\ tombstone' \in BOOLEAN
  BY <1>3
<1>4. \/ UNCHANGED <<frames, tombstone>> \/ RevokeStream \/ \E f \in Frame : AppendFrame(f)
  BY WhoMoves DEF MovesStream, Announce, Forward, SettleAccess, Recheck, Terminal, CloseStream,
     Frame, streamVars
<1>5. QED
  BY <1>1, <1>2, <1>3, <1>4

\* A follower reads a batch, opens, subscribes, leaves, or is notified.
LEMMA FollowerMoves ==
  ASSUME follower \in FollowerType, ControlNext
  PROVE  \/ UNCHANGED follower \/ RevokeStream \/ (\E f \in Frame : AppendFrame(f))
         \/ (\E n \in {"subscribe", "loop"}, b \in BOOLEAN : Flush(n, b))
         \/ Open \/ Subscribe \/ HearRevoked
<1>1. Replay => Flush("subscribe", follower.settled) /\ follower.settled \in BOOLEAN
  BY DEF Replay, FollowerType
<1>2. ReplayAgain \/ Notified => Flush("loop", FALSE)
  BY DEF ReplayAgain, Notified
<1>3. Recheck5s => Flush("loop", row # "streaming")
  BY DEF Recheck5s
<1>4. Following => \/ (\E n \in {"subscribe", "loop"}, b \in BOOLEAN : Flush(n, b))
                   \/ Subscribe \/ HearRevoked
  BY <1>1, <1>2, <1>3 DEF Following
<1>5. QED
  BY <1>4, WhoMoves DEF MovesStream, Announce, Forward, SettleAccess, Recheck, Terminal,
     CloseStream, Frame, streamVars

\* The follower keeps to its course.
LEMMA FollowerTyped ==
  ASSUME follower \in FollowerType, frames \in Seq(Frame), ControlNext
  PROVE  follower' \in FollowerType
<1>1. ASSUME NEW f \in Frame, AppendFrame(f) PROVE follower' \in FollowerType
  BY <1>1 DEF AppendFrame, FollowerType
<1>2. ASSUME RevokeStream PROVE follower' \in FollowerType
  BY <1>2 DEF RevokeStream, FollowerType, Gone
<1>3. ASSUME NEW n \in {"subscribe", "loop"}, NEW b \in BOOLEAN, Flush(n, b) PROVE follower' \in FollowerType
  <2>1. follower.last \in Nat /\ Len(frames) \in Nat /\ BatchSize \in Nat
    BY TurnControlAssumption DEF FollowerType
  <2>2. Left \in FollowerType
    BY DEF Left, FollowerType
  <2>3. ASSUME NEW l \in Nat, follower' = [follower EXCEPT !.at = n, !.last = l, !.notified = FALSE]
        PROVE  follower' \in FollowerType
    BY <2>3 DEF FollowerType
  <2> DEFINE last == IF follower.last + BatchSize < Len(frames) THEN follower.last + BatchSize ELSE Len(frames)
  <2>4. last \in Nat
    BY <2>1
  <2>5. follower' = Left \/ follower' = [follower EXCEPT !.at = n, !.last = last, !.notified = FALSE]
    BY <1>3 DEF Flush
  <2> HIDE DEF last
  <2>6. QED
    BY <2>2, <2>3, <2>4, <2>5
<1>4. CASE Open \/ Subscribe \/ HearRevoked
  <2>1. Left \in FollowerType
    BY DEF Left, FollowerType
  <2>2. CASE Open
    <3>1. ASSUME NEW b \in BOOLEAN, follower' = [follower EXCEPT !.at = "replay", !.settled = b]
          PROVE  follower' \in FollowerType
      BY <3>1 DEF FollowerType
    <3>2. QED
      BY <2>2, <3>1 DEF Open
  <2>3. CASE Subscribe
    BY <2>3 DEF Subscribe, FollowerType
  <2>4. QED
    BY <1>4, <2>1, <2>2, <2>3 DEF HearRevoked
<1>5. QED
  BY <1>1, <1>2, <1>3, <1>4, FollowerMoves

\* A notice is published, taken or thrown away.
LEMMA WhoNotifies ==
  ASSUME ControlNext
  PROVE  \/ UNCHANGED inbox \/ inbox' \subseteq inbox \/ Close \/ ReplicaCrash
         \/ \E t \in Topics : Publish(t)
<1> USE DEF ControlNext, Step, Event, Handler, Setup, Listener, Writer, Revoker, Following,
   FinishTurn, outside, SnapshotBefore, SnapshotRead, SnapshotAfter, SnapshotVersion, WatchAccess,
   CheckAccess, SubscribeGeneration, CheckGenerationMarker, SubscribeConversation, AskQuestion,
   Place, Remember, SubscribeMessage, CheckMessageMarker, Activate, ApplyStop, KnowMessage,
   SettleAccess, Announce, Forward, Unwind, Recheck, Terminal, Close, Produce, ProviderReturns,
   SettleStale, HearConversation, BumpEpoch, BumpGeneration, PublishPermissions, PublishWorkspace,
   Replay, Subscribe, ReplayAgain, Notified, Recheck5s, HearRevoked, TimeOut, GroupExpires,
   ReplicaCrash, Open, StopConversation, ChangePermissions, ChangeWorkspace, PublishStop,
   ShowStop, HearStop, ActOnStop, Deaf, HearRevocation, CloseStream, Scrub, RequestStop
<1>1. \/ UNCHANGED inbox \/ Close \/ ReplicaCrash \/ (\E s \in Scopes : PublishStop(s)) \/ StopConversation
      \/ PublishPermissions \/ PublishWorkspace \/ (\E s \in ScopedTopics : HearStop(s))
      \/ HearConversation \/ (\E t \in Topics : Deaf(t)) \/ (\E c \in Causes : HearRevocation(c))
  OBVIOUS
<1>2. QED
  BY <1>1, TurnControlAssumption DEF Topics, ScopedTopics, Causes

\* Only stops of a generation or a message are marked and heard.
LEMMA WhoMarks ==
  ASSUME ControlNext
  PROVE  /\ \/ UNCHANGED markers \/ markers' \subseteq markers
            \/ \E s \in ScopedTopics : markers' = markers \cup {s}
         /\ \/ UNCHANGED hearing \/ hearing' \subseteq hearing
            \/ \E s \in ScopedTopics : hearing' = hearing \cup {s}
<1> USE DEF ControlNext, Step, Event, Handler, Setup, Listener, Writer, Revoker, Following,
   FinishTurn, RaiseFlag, outside, stopVars, SnapshotBefore, SnapshotRead, SnapshotAfter,
   SnapshotVersion, WatchAccess, CheckAccess, SubscribeGeneration, CheckGenerationMarker,
   SubscribeConversation, AskQuestion, Place, Remember, SubscribeMessage, CheckMessageMarker,
   Activate, ApplyStop, KnowMessage, SettleAccess, Announce, Forward, Unwind, Recheck, Terminal,
   Close, Produce, ProviderReturns, SettleStale, HearConversation, BumpEpoch, BumpGeneration,
   PublishPermissions, PublishWorkspace, Replay, Subscribe, ReplayAgain, Notified, Recheck5s,
   HearRevoked, TimeOut, GroupExpires, ReplicaCrash, Open, StopConversation, ChangePermissions,
   ChangeWorkspace, PublishStop, ShowStop, HearStop, ActOnStop, Deaf, HearRevocation, CloseStream,
   Scrub, RequestStop
<1>1. UNCHANGED markers \/ Close \/ \E s \in Scopes : RequestStop(s)
  OBVIOUS
<1>2. UNCHANGED hearing \/ ReplicaCrash \/ (\E s \in ScopedTopics : HearStop(s) \/ ActOnStop(s))
  OBVIOUS
<1>3. QED
  BY <1>1, <1>2

\* A notice waits only for a subscriber.
LEMMA NoticesTyped ==
  ASSUME ControlTypes, ControlNext
  PROVE  inbox' \subseteq turn'.subs /\ markers' \subseteq ScopedTopics /\ hearing' \subseteq ScopedTopics
<1>1. ASSUME ReplicaCrash \/ Close PROVE inbox' \subseteq turn'.subs
  BY <1>1 DEF ReplicaCrash, Close, ControlTypes, TurnType
<1>2. ASSUME ~ReplicaCrash, ~Close PROVE inbox' \subseteq turn'.subs
  <2>1. turn.subs \subseteq turn'.subs
    <3>1. CASE WatchAccess \/ SubscribeGeneration \/ SubscribeConversation \/ SubscribeMessage
      <4>1. ASSUME NEW pc, NEW S, turn' = [turn EXCEPT !.at = pc, !.subs = @ \cup S]
            PROVE  turn'.subs = turn.subs \cup S
        BY <4>1 DEF ControlTypes, TurnType
      <4>2. QED
        BY <3>1, <4>1 DEF WatchAccess, SubscribeGeneration, SubscribeConversation,
           SubscribeMessage
    <3>2. CASE AskQuestion \/ Remember \/ Activate \/ KnowMessage
      BY <3>2 DEF AskQuestion, Remember, Activate, KnowMessage, ControlTypes, TurnType
    <3>3. ASSUME NEW pc, Goto(pc) PROVE turn.subs = turn'.subs
      BY <3>3 DEF Goto, ControlTypes, TurnType
    <3>4. CASE \/ SnapshotBefore \/ SnapshotRead \/ SnapshotAfter \/ SnapshotVersion
               \/ CheckAccess \/ CheckGenerationMarker \/ Place \/ CheckMessageMarker
               \/ ApplyStop \/ SettleAccess \/ Announce \/ Forward \/ Unwind \/ Recheck \/ Terminal
               \/ Produce \/ ProviderReturns
      BY <3>3, <3>4 DEF SnapshotBefore, SnapshotRead, SnapshotAfter, SnapshotVersion, CheckAccess,
         CheckGenerationMarker, Place, CheckMessageMarker, ApplyStop, SettleAccess, Announce,
         Forward, Unwind, Recheck, Terminal, Produce, ProviderReturns, FinishTurn
    <3>5. CASE UNCHANGED turn
      BY <3>5
    <3>6. QED
      BY <1>2, <3>1, <3>2, <3>4, <3>5, WhoMoves DEF Handler, Setup
  <2>2. inbox' \subseteq turn.subs
    BY <1>2, WhoNotifies DEF ControlTypes, Publish
  <2>3. QED BY <2>1, <2>2
<1>3. markers' \subseteq ScopedTopics /\ hearing' \subseteq ScopedTopics
  BY WhoMarks DEF ControlTypes
<1>4. QED
  BY <1>1, <1>2, <1>3

\* Which actions cancel the context of the turn.
LEMMA WhoCancels ==
  ASSUME ControlNext
  PROVE  \/ UNCHANGED why \/ CheckAccess \/ ApplyStop \/ Announce \/ Forward \/ Recheck \/ Terminal
         \/ Close \/ TimeOut \/ GroupExpires \/ HearConversation
         \/ (\E s \in ScopedTopics : ActOnStop(s)) \/ \E c \in Causes : HearRevocation(c)
BY DEF ControlNext, Step, Event, Handler, Setup, Listener, Writer, Revoker, Following,
   RevokeStream, FinishTurn, outside, stopVars, revokeVars, streamVars, SnapshotBefore,
   SnapshotRead, SnapshotAfter, SnapshotVersion, WatchAccess, CheckAccess, SubscribeGeneration,
   CheckGenerationMarker, SubscribeConversation, AskQuestion, Place, Remember, SubscribeMessage,
   CheckMessageMarker, Activate, ApplyStop, KnowMessage, SettleAccess, Announce, Forward, Unwind,
   Recheck, Terminal, Close, Produce, ProviderReturns, ReplicaCrash, SettleStale,
   HearConversation, BumpEpoch, BumpGeneration, PublishPermissions, PublishWorkspace, Replay,
   Subscribe, ReplayAgain, Notified, Recheck5s, HearRevoked, TimeOut, GroupExpires, Open,
   StopConversation, ChangePermissions, ChangeWorkspace, PublishStop, ShowStop, HearStop,
   ActOnStop, Deaf, HearRevocation, CloseStream, Scrub, RequestStop

\* A cancelled context stays cancelled, for the same reasons.
LEMMA OnlyMoreCauses == ASSUME ControlNext PROVE why \subseteq why'
BY WhoCancels DEF CheckAccess, ApplyStop, Announce, Forward, Recheck, Terminal, AppendFrame,
   Close, TimeOut, GroupExpires, HearConversation, ActOnStop, HearRevocation, RaiseFlag

-----------------------------------------------------------------------------
(* The detached turn: the invariant.                                       *)

\* Every step keeps the versions in their order.
LEMMA VersionsStep ==
  ASSUME ControlTypes, Versions, ControlNext
  PROVE  Versions'
<1>1. turn'.at = "start" => UNCHANGED snap /\ (turn.at = "start" \/ snap.tries < Attempts)
  <2>1. CASE Handler \/ Produce \/ ProviderReturns
    BY <2>1 DEF Handler, Setup, FinishTurn, At, Goto, ControlTypes, TurnType, SnapshotBefore,
       SnapshotRead, SnapshotAfter, SnapshotVersion, WatchAccess, CheckAccess,
       SubscribeGeneration, CheckGenerationMarker, SubscribeConversation, AskQuestion, Place,
       Remember, SubscribeMessage, CheckMessageMarker, Activate, ApplyStop, KnowMessage,
       SettleAccess, Announce, Forward, Unwind, Recheck, Terminal, Close, Produce, ProviderReturns
  <2>2. CASE UNCHANGED turn /\ UNCHANGED snap
    BY <2>2 DEF Versions
  <2>3. CASE ReplicaCrash
    BY <2>3 DEF ReplicaCrash, ControlTypes, TurnType
  <2>4. QED
    BY <2>1, <2>2, <2>3, WhoMoves DEF Handler, Setup
<1>2. /\ policy'.perms = policy'.epoch + (IF policy'.writer = "committed" THEN 1 ELSE 0)
      /\ policy'.epoch = policy'.gen + (IF policy'.writer = "bumped" THEN 1 ELSE 0)
  <2>1. CASE ChangePermissions
    BY <2>1 DEF ChangePermissions, ControlTypes, PolicyType, Versions
  <2>2. CASE BumpEpoch
    BY <2>2 DEF BumpEpoch, ControlTypes, PolicyType, Versions
  <2>3. CASE BumpGeneration
    BY <2>3 DEF BumpGeneration, ControlTypes, PolicyType, Versions
  <2>4. CASE PublishPermissions
    BY <2>4 DEF PublishPermissions, ControlTypes, PolicyType, Versions
  <2>5. QED
    BY <2>1, <2>2, <2>3, <2>4, WhoMoves DEF Writer, Versions
<1>3. QED
  BY <1>1, <1>2 DEF Versions

\* A raised flag cancels the turn.
LEMMA FlagsTyped ==
  ASSUME ControlTypes, ControlNext
  PROVE  /\ flags' \subseteq Causes /\ flags' \subseteq why'
         /\ revoking' \in [Causes -> {"idle", "flagged", "closed"}]
<1>1. why \subseteq why'
  BY OnlyMoreCauses
<1>2. CASE CheckAccess \/ Recheck
  BY <1>2 DEF ControlTypes, CheckAccess, Recheck, NoLongerCurrent
<1>3. ASSUME NEW c \in Causes, RaiseFlag(c)
      PROVE  /\ flags' \subseteq Causes /\ flags' \subseteq why'
             /\ revoking' \in [Causes -> {"idle", "flagged", "closed"}]
  BY <1>3 DEF ControlTypes, RaiseFlag
<1>4. ASSUME NEW c \in Causes, CloseStream(c) \/ Scrub(c) \/ ReplicaCrash
      PROVE  /\ flags' \subseteq Causes /\ flags' \subseteq why'
             /\ revoking' \in [Causes -> {"idle", "flagged", "closed"}]
  BY <1>1, <1>4 DEF ControlTypes, CloseStream, Scrub, ReplicaCrash
<1>5. QED
  BY <1>1, <1>2, <1>3, <1>4, WhoMoves DEF MovesFlags, ControlTypes, GroupExpires, Revoker,
     HearRevocation, Causes

\* Every step spares the set-up.
LEMMA SparedStep ==
  ASSUME ControlTypes, Spared, ControlNext
  PROVE  Spared'
<1>1. ASSUME turn'.at \in Early PROVE ~turn'.active /\ why' \subseteq Others /\ row' = "none"
  <2>1. turn.at \in Early /\ turn'.active = turn.active /\ ~Place
    <3>1. CASE Handler \/ Produce \/ ProviderReturns
      BY <1>1, <3>1 DEF Handler, Setup, FinishTurn, At, Goto, ControlTypes, TurnType, Early,
         Stages, Silent, SnapshotBefore, SnapshotRead, SnapshotAfter, SnapshotVersion,
         WatchAccess, CheckAccess, SubscribeGeneration, CheckGenerationMarker,
         SubscribeConversation, AskQuestion, Place, Remember, SubscribeMessage,
         CheckMessageMarker, Activate, ApplyStop, KnowMessage, SettleAccess, Announce, Forward,
         Unwind, Recheck, Terminal, Close, Produce, ProviderReturns
    <3>2. CASE ReplicaCrash
      BY <1>1, <3>2 DEF ReplicaCrash, Early, ControlTypes, TurnType
    <3>3. CASE UNCHANGED turn
      BY <1>1, <3>3 DEF Place, At, Goto, ControlTypes, TurnType
    <3>4. QED
      BY <3>1, <3>2, <3>3, WhoMoves
  <2>2. ~turn.active /\ why \subseteq Others /\ row = "none"
    BY <2>1 DEF Spared
  <2>3. row' = "none"
    BY <2>1, <2>2, WhoMoves DEF MovesRow, ApplyStop, SettleAccess, Unwind, ProviderReturns,
       FinishTurn, Recheck, SettleStale, ShowStop, Scrub, Stopping, Scrubbed, Written, At, Early
  <2>4. why' \subseteq Others
    <3>1. ~ApplyStop /\ ~Announce /\ ~Forward /\ ~Recheck /\ ~Terminal /\ ~Close
      BY <2>1 DEF ApplyStop, Announce, Forward, Recheck, Terminal, Close, At, Early
    <3>2. CASE CheckAccess
      BY <2>2, <3>2 DEF CheckAccess, NoLongerCurrent, Causes, Others
    <3>3. CASE TimeOut \/ GroupExpires \/ HearConversation \/ (\E s \in ScopedTopics : ActOnStop(s))
      BY <2>2, <3>3 DEF TimeOut, GroupExpires, RaiseFlag, HearConversation, ActOnStop, Others
    <3>4. ASSUME NEW c \in Causes, HearRevocation(c) PROVE why' \subseteq Others
      BY <2>2, <3>4 DEF HearRevocation, RaiseFlag, Causes, Others
    <3>5. QED
      BY <2>2, <3>1, <3>2, <3>3, <3>4, WhoCancels
  <2>5. QED
    BY <2>1, <2>2, <2>3, <2>4
<1> USE DEF ControlTypes, TurnType, At, Goto
<1>2. ASSUME turn'.question, row' = "none" PROVE turn'.at \in {"place", "crashed"} \/ why' \cap Others # {}
  <2>1. CASE AskQuestion
    BY <2>1 DEF AskQuestion, Cancelled, Spared, Early
  <2>2. CASE Place
    BY <1>2, <2>2 DEF Place, Cancelled, Spared, Early
  <2>3. CASE ~AskQuestion /\ ~Place
    <3>1. row = "none" /\ why \subseteq why'
      BY <1>2, <2>3, OnlyMoreCauses, WhoMoves DEF MovesRow, ApplyStop, SettleAccess, Unwind,
         ProviderReturns, FinishTurn, Recheck, SettleStale, ShowStop, Scrub, Stopping, Scrubbed,
         Written, Rows
    <3>2. turn.question /\ (turn.at \in {"place", "crashed"} => turn'.at \in {"place", "crashed"})
      <4>1. CASE Handler \/ Produce \/ ProviderReturns
        BY <1>2, <2>3, <4>1 DEF Handler, Setup, FinishTurn, SnapshotBefore, SnapshotRead,
           SnapshotAfter, SnapshotVersion, WatchAccess, CheckAccess, SubscribeGeneration,
           CheckGenerationMarker, SubscribeConversation, AskQuestion, Place, Remember,
           SubscribeMessage, CheckMessageMarker, Activate, ApplyStop, KnowMessage, SettleAccess,
           Announce, Forward, Unwind, Recheck, Terminal, Close, Produce, ProviderReturns
      <4>2. CASE ReplicaCrash
        BY <1>2, <4>2 DEF ReplicaCrash
      <4>3. QED
        BY <1>2, <4>1, <4>2, WhoMoves
    <3>3. QED
      BY <3>1, <3>2 DEF Spared
  <2>4. QED
    BY <2>1, <2>2, <2>3
<1>3. QED
  BY <1>1, <1>2 DEF Spared

\* Every step keeps a revocation under way or done.
LEMMA RevokedStep ==
  ASSUME ControlTypes, Spared, Revoked, ControlNext
  PROVE  Revoked'
<1> USE DEF ControlTypes, TurnType
<1>1. tombstone' => frames' = <<>>
  <2>1. ASSUME NEW f \in Frame, AppendFrame(f) PROVE tombstone' => frames' = <<>>
    BY <2>1 DEF AppendFrame, Revoked
  <2>2. ASSUME RevokeStream PROVE tombstone' => frames' = <<>>
    BY <2>2 DEF RevokeStream
  <2>3. ASSUME UNCHANGED <<frames, tombstone>> PROVE tombstone' => frames' = <<>>
    BY <2>3 DEF Revoked
  <2>4. \/ UNCHANGED <<frames, tombstone>> \/ RevokeStream \/ \E f \in Frame : AppendFrame(f)
    BY WhoMoves DEF MovesStream, Announce, Forward, SettleAccess, Recheck, Terminal, CloseStream,
       Frame, streamVars
  <2>5. QED
    BY <2>1, <2>2, <2>3, <2>4
<1>s. ASSUME turn'.at \in Settled \cup {"settle access"}, row' # "none"
      PROVE  /\ row # "none"
             /\ KnowMessage \/ turn.at \in Settled \cup {"settle access"}
             /\ \/ UNCHANGED turn \/ KnowMessage
                \/ turn'.watched = turn.watched /\ (turn.at = "settle access" => SettleAccess)
  <2>1. row # "none" \/ Place
    BY <1>s, WhoMoves DEF MovesRow, ApplyStop, SettleAccess, Unwind, ProviderReturns, FinishTurn,
       Recheck, SettleStale, ShowStop, Scrub, Stopping, Scrubbed, Written, Rows
  <2>2. ~Place /\ ~AskQuestion /\ ~SnapshotAfter /\ row # "none"
    BY <1>s, <2>1 DEF Place, AskQuestion, SnapshotAfter, At, Goto, Settled, Spared, Early
  <2>3. CASE (Handler \/ Produce \/ ProviderReturns) /\ ~KnowMessage
    <3>1. turn.at \in Settled \cup {"settle access"}
      BY <1>s, <2>2, <2>3 DEF Handler, Setup, FinishTurn, At, Goto, Settled, SnapshotBefore,
         SnapshotRead, SnapshotAfter, SnapshotVersion, WatchAccess, CheckAccess,
         SubscribeGeneration, CheckGenerationMarker, SubscribeConversation, AskQuestion, Place,
         Remember, SubscribeMessage, CheckMessageMarker, Activate, ApplyStop, KnowMessage,
         SettleAccess, Announce, Forward, Unwind, Recheck, Terminal, Close, Produce,
         ProviderReturns
    <3>2. \/ SettleAccess \/ Announce \/ Forward \/ Unwind \/ Recheck \/ Terminal \/ Close
          \/ Produce \/ ProviderReturns
      BY <2>2, <2>3, <3>1 DEF Handler, Setup, At, Settled, SnapshotBefore, SnapshotRead,
         SnapshotAfter, SnapshotVersion, WatchAccess, CheckAccess, SubscribeGeneration,
         CheckGenerationMarker, SubscribeConversation, AskQuestion, Place, Remember,
         SubscribeMessage, CheckMessageMarker, Activate, ApplyStop, KnowMessage, SettleAccess,
         Announce, Forward, Unwind, Recheck, Terminal, Close, Produce, ProviderReturns
    <3>3. ASSUME NEW pc, Goto(pc) PROVE turn'.watched = turn.watched
      BY <3>3 DEF Goto
    <3>4. turn'.watched = turn.watched
      BY <3>2, <3>3 DEF SettleAccess, Announce, Forward, Unwind, Recheck, Terminal, Close,
         Produce, ProviderReturns, FinishTurn
    <3>5. turn.at = "settle access" => SettleAccess
      BY <3>2 DEF Announce, Forward, Unwind, Recheck, Terminal, Close, Produce, ProviderReturns,
         At
    <3>6. QED
      BY <2>2, <3>1, <3>4, <3>5
  <2>4. ~ReplicaCrash
    BY <1>s DEF ReplicaCrash, Settled
  <2>5. QED
    BY <1>s, <2>2, <2>3, <2>4, WhoMoves
<1>2. ASSUME turn'.at \in Settled \cup {"settle access"}, row' # "none" PROVE turn'.watched
  <2>1. CASE KnowMessage
    <3>1. turn' = [turn EXCEPT !.at = "settle access", !.watched = TRUE]
      BY <2>1 DEF KnowMessage
    <3>2. turn'.watched = TRUE
      BY <3>1
    <3>3. QED BY <3>2
  <2>2. QED
    BY <1>s, <1>2, <2>1 DEF Revoked
<1>3. tombstone => tombstone'
  BY WhoMoves DEF MovesStream, Announce, Forward, SettleAccess, Recheck, Terminal, CloseStream,
     AppendFrame, RevokeStream, streamVars
<1>4. ASSUME NEW c \in Causes, revoking'[c] = "closed" PROVE tombstone'
  <2>1. UNCHANGED revoking \/ ReplicaCrash \/ (\E d \in Causes : RaiseFlag(d) \/ CloseStream(d) \/ Scrub(d))
    BY WhoMoves DEF MovesFlags, CheckAccess, Recheck, GroupExpires, Revoker, HearRevocation,
       Causes
  <2>2. CASE UNCHANGED revoking
    BY <1>3, <1>4, <2>2 DEF Revoked
  <2>3. ~ReplicaCrash
    BY <1>4 DEF ReplicaCrash
  <2>4. ASSUME NEW d \in Causes, RaiseFlag(d) \/ Scrub(d) PROVE tombstone'
    BY <1>3, <1>4, <2>4 DEF Revoked, RaiseFlag, Scrub
  <2>5. ASSUME NEW d \in Causes, CloseStream(d) PROVE tombstone'
    BY <1>3, <1>4, <2>5 DEF Revoked, CloseStream, RevokeStream
  <2>6. QED
    BY <2>1, <2>2, <2>3, <2>4, <2>5
<1>5. ASSUME turn'.at \in Settled, row' # "none", flags' # {}
      PROVE  \/ row' = "scrubbed" /\ tombstone'
             \/ \E c \in Causes : revoking'[c] # "idle"
  <2> DEFINE Effect == (row = "scrubbed" /\ tombstone) \/ \E c \in Causes : revoking[c] # "idle"
  <2>r. row = "scrubbed" => row' = "scrubbed"
    BY WhoMoves DEF MovesRow, Place, ApplyStop, SettleAccess, Unwind, ProviderReturns, FinishTurn,
       Recheck, SettleStale, ShowStop, Scrub, Stopping, Scrubbed, Written, At, Spared, Early
  <2>1. CASE SettleAccess
    <3>1. flags # {} /\ tombstone' = TRUE /\ row' = Scrubbed(row)
      BY <1>5, <2>1 DEF SettleAccess, RevokeStream, revokeVars
    <3>2. QED
      BY <1>5, <3>1 DEF Scrubbed
  <2>2. CASE Recheck
    <3>1. turn.watched /\ row # "none" /\ turn.at \in Settled
      BY <1>2, <1>5, <2>2 DEF Recheck, Scrubbed, At, Goto, Settled
    <3>2. CASE NoLongerCurrent \cap {"permission"} # {}
      BY <1>5, <2>2, <3>1, <3>2 DEF Recheck, RevokeStream, Scrubbed
    <3>3. CASE NoLongerCurrent \cap {"permission"} = {}
      <4>1. flags' = flags /\ UNCHANGED <<revoking, tombstone>>
        BY <2>2, <3>3 DEF Recheck, streamVars
      <4>2. Effect
        BY <1>5, <3>1, <4>1 DEF Revoked
      <4>3. QED
        BY <2>r, <4>1, <4>2
    <3>4. QED
      BY <3>2, <3>3
  <2>3. ASSUME NEW c \in Causes, RaiseFlag(c) PROVE \E d \in Causes : revoking'[d] # "idle"
    BY <2>3 DEF RaiseFlag
  <2>5. ASSUME NEW c \in Causes, CloseStream(c) PROVE \E d \in Causes : revoking'[d] # "idle"
    BY <1>5, <2>5 DEF CloseStream, Revoked
  <2>6. ASSUME NEW c \in Causes, Scrub(c) PROVE row' = "scrubbed" /\ tombstone'
    BY <1>3, <1>5, <2>6 DEF Scrub, Scrubbed, Revoked
  <2>7. UNCHANGED <<flags, revoking>> \/ CheckAccess \/ Recheck \/ ReplicaCrash
        \/ \E c \in Causes : RaiseFlag(c) \/ CloseStream(c) \/ Scrub(c)
    BY WhoMoves DEF MovesFlags, GroupExpires, Revoker, HearRevocation, Causes
  <2>8. ~CheckAccess /\ ~ReplicaCrash
    BY <1>5 DEF CheckAccess, ReplicaCrash, Goto, Settled
  <2>9. ASSUME ~SettleAccess, UNCHANGED <<flags, revoking>>
        PROVE  \/ row' = "scrubbed" /\ tombstone'
               \/ \E c \in Causes : revoking'[c] # "idle"
    <3>1. turn.at \in Settled
      BY <1>s, <1>5, <2>9 DEF KnowMessage, Settled
    <3>2. row # "none"
      BY <1>s, <1>5
    <3>3. QED
      BY <1>3, <1>5, <2>9, <2>r, <3>1, <3>2 DEF Revoked
  <2>10. QED
    BY <2>1, <2>2, <2>3, <2>5, <2>6, <2>7, <2>8, <2>9
<1>6. QED
  BY <1>1, <1>2, <1>4, <1>5 DEF Revoked

\* A frame more is a piece more if it is a piece.
LEMMA DeltasGrow ==
  ASSUME NEW fs \in Seq(Frame), NEW f \in Frame
  PROVE  /\ DeltasIn(fs) \in Nat
         /\ DeltasIn(Append(fs, f)) = DeltasIn(fs) + (IF f = "delta" THEN 1 ELSE 0)
<1> DEFINE D == {i \in DOMAIN fs : fs[i] = "delta"}
           E == {i \in DOMAIN Append(fs, f) : Append(fs, f)[i] = "delta"}
           n == Len(fs) + 1
<1>1. /\ Len(fs) \in Nat /\ DOMAIN fs = 1 .. Len(fs) /\ DOMAIN Append(fs, f) = 1 .. n
      /\ Append(fs, f)[n] = f /\ \A i \in 1 .. Len(fs) : Append(fs, f)[i] = fs[i]
  OBVIOUS
<1>2. n \notin D /\ D \subseteq 1 .. Len(fs)
  BY <1>1
<1>3. E = IF f = "delta" THEN D \cup {n} ELSE D
  <2>1. \A i : i \in E <=> i \in 1 .. n /\ Append(fs, f)[i] = "delta"
    BY <1>1
  <2>2. \A i : i \in D <=> i \in 1 .. Len(fs) /\ fs[i] = "delta"
    BY <1>1
  <2>3. \A i : i \in 1 .. n <=> i \in 1 .. Len(fs) \/ i = n
    BY <1>1
  <2> HIDE DEF D, E
  <2>4. CASE f = "delta"
    <3>1. \A i : i \in E <=> i \in D \/ i = n
      BY <1>1, <2>1, <2>2, <2>3, <2>4
    <3>2. QED BY <2>4, <3>1
  <2>5. CASE f # "delta"
    <3>1. \A i : i \in E <=> i \in D
      BY <1>1, <2>1, <2>2, <2>3, <2>5
    <3>2. QED BY <2>5, <3>1
  <2>6. QED BY <2>4, <2>5
<1>4. DeltasIn(fs) = Cardinality(D) /\ DeltasIn(Append(fs, f)) = Cardinality(E)
  BY DEF DeltasIn
<1> HIDE DEF D, E
<1>5. IsFiniteSet(1 .. Len(fs)) /\ IsFiniteSet(D)
  <2>1. IsFiniteSet(1 .. Len(fs))
    BY <1>1, FS_Interval
  <2>2. QED BY <1>2, <2>1, FS_Subset
<1>6. Cardinality(D) \in Nat /\ Cardinality(D \cup {n}) = Cardinality(D) + 1
  BY <1>2, <1>5, FS_CardinalityType, FS_AddElement
<1>7. QED
  BY <1>3, <1>4, <1>6

\* An empty stream holds no piece.
LEMMA EmptyStream ==
  ASSUME NEW fs, fs = <<>>
  PROVE  fs \in Seq(Frame) /\ Len(fs) = 0 /\ DeltasIn(fs) = 0
<1>1. fs \in Seq(Frame) /\ Len(fs) = 0
  BY EmptySeq
<1>2. DOMAIN fs = 1 .. 0
  BY <1>1, LenProperties
<1>3. {i \in DOMAIN fs : fs[i] = "delta"} = {}
  BY <1>2
<1>4. QED
  BY <1>1, <1>3, FS_EmptySet DEF DeltasIn

\* Every step keeps the stream within its bounds.
LEMMA CountedStep ==
  ASSUME ControlTypes, Counted, ControlNext
  PROVE  Counted'
<1> USE DEF ControlTypes, TurnType
<1> DEFINE Tail2 == {"close", "over", "crashed"}
<1>n. /\ Len(frames) \in Nat /\ DeltasIn(frames) \in Nat /\ MaxDeltas \in Nat
      /\ frames \in Seq(Frame) /\ frames' \in Seq(Frame)
  BY DeltasGrow, StreamTyped, TurnControlAssumption DEF Frame
<1>m. /\ turn.at \in Tail2 => turn'.at \in Tail2
      /\ turn'.at \in Silent => turn.at \in Silent
      /\ turn'.at = "forward" => turn.at = "forward" \/ Produce
  <2>1. CASE Handler \/ Produce \/ ProviderReturns
    BY <2>1 DEF Handler, Setup, FinishTurn, At, Goto, Stages, Silent, Early, SnapshotBefore,
       SnapshotRead, SnapshotAfter, SnapshotVersion, WatchAccess, CheckAccess,
       SubscribeGeneration, CheckGenerationMarker, SubscribeConversation, AskQuestion, Place,
       Remember, SubscribeMessage, CheckMessageMarker, Activate, ApplyStop, KnowMessage,
       SettleAccess, Announce, Forward, Unwind, Recheck, Terminal, Close, Produce, ProviderReturns
  <2>2. CASE ReplicaCrash
    BY <2>2 DEF ReplicaCrash, Silent, Early
  <2>3. QED
    BY <2>1, <2>2, WhoMoves
<1>l. follower'.last <= MaxDeltas + 2
  <2>1. Len(frames) <= MaxDeltas + 2 /\ follower.last <= MaxDeltas + 2 /\ follower \in FollowerType
    BY <1>n DEF Counted
  <2>2. Left.last = 0
    BY <2>1 DEF Left, FollowerType
  <2>3. ASSUME NEW next \in {"subscribe", "loop"}, NEW b \in BOOLEAN, Flush(next, b)
        PROVE  follower'.last <= MaxDeltas + 2
    <3> DEFINE last == IF follower.last + BatchSize < Len(frames) THEN follower.last + BatchSize ELSE Len(frames)
    <3>1. last <= MaxDeltas + 2
      BY <1>n, <2>1, TurnControlAssumption DEF FollowerType
    <3>2. follower' = Left \/ follower' = [follower EXCEPT !.at = next, !.last = last, !.notified = FALSE]
      BY <2>3 DEF Flush
    <3> HIDE DEF last
    <3>3. follower'.last = last \/ follower' = Left
      BY <2>1, <3>2 DEF FollowerType
    <3>4. QED
      BY <1>n, <2>2, <3>1, <3>3
  <2>4. ASSUME NEW f \in Frame, AppendFrame(f) PROVE follower'.last = follower.last
    BY <2>1, <2>4 DEF AppendFrame, FollowerType
  <2>5. ASSUME RevokeStream PROVE follower'.last = follower.last
    BY <2>1, <2>5 DEF RevokeStream, FollowerType
  <2>6. CASE Open \/ Subscribe
    BY <2>1, <2>6 DEF Open, Subscribe, FollowerType
  <2>7. CASE HearRevoked
    BY <1>n, <2>2, <2>7 DEF HearRevoked
  <2>8. QED
    BY <2>1, <2>3, <2>4, <2>5, <2>6, <2>7, FollowerMoves
<1>1. CASE UNCHANGED <<frames, tombstone>>
  <2>1. turn'.at = "forward" => DeltasIn(frames) < MaxDeltas
    BY <1>m DEF Counted, Produce, DeltasIn
  <2>2. QED
    BY <1>1, <1>l, <1>m, <1>n, <2>1 DEF Counted
<1>2. CASE RevokeStream
  <2>1. frames' = <<>> /\ Len(frames') = 0 /\ DeltasIn(frames') = 0
    BY <1>2, EmptyStream DEF RevokeStream
  <2>2. turn'.at = "forward" => 0 < MaxDeltas
    BY <1>m, <1>n DEF Counted, Produce, DeltasIn
  <2>3. QED
    BY <1>l, <1>n, <2>1, <2>2 DEF Counted
<1>3. ASSUME NEW f \in Frame, frames' = Append(frames, f)
      PROVE  /\ Len(frames') = Len(frames) + 1
             /\ DeltasIn(frames') = DeltasIn(frames) + (IF f = "delta" THEN 1 ELSE 0)
  BY <1>3, <1>n, DeltasGrow
<1>4. CASE Announce /\ ~tombstone
  <2>1. frames = <<>> /\ frames' = Append(frames, "start") /\ turn'.at = "generate"
    BY <1>4 DEF Announce, AppendFrame, Counted, Silent, At, Goto
  <2>2. Len(frames) = 0 /\ DeltasIn(frames) = 0
    BY <2>1, EmptyStream
  <2>3. QED
    BY <1>3, <1>l, <1>n, <2>1, <2>2 DEF Counted, Frame, Silent, Early
<1>5. CASE Forward /\ ~tombstone
  <2>1. frames' = Append(frames, "delta") /\ turn.at = "forward" /\ turn'.at = "generate"
    BY <1>5 DEF Forward, AppendFrame, At, Goto
  <2>2. QED
    BY <1>3, <1>l, <1>n, <2>1 DEF Counted, Frame, Silent, Early
<1>6. CASE Terminal /\ ~tombstone /\ row # "none"
  <2>1. frames' = Append(frames, "end") /\ turn.at = "terminal" /\ turn'.at = "close"
    BY <1>6 DEF Terminal, AppendFrame, At, Goto
  <2>2. QED
    BY <1>3, <1>l, <1>n, <2>1 DEF Counted, Frame, Silent, Early
<1>7. QED
  BY <1>1, <1>2, <1>4, <1>5, <1>6, WhoMoves DEF MovesStream, Announce, Forward, SettleAccess,
     Recheck, Terminal, CloseStream, AppendFrame, streamVars

\* The invariant holds before the turn begins.
LEMMA ControlBegins == ControlInit => ControlInv
<1> SUFFICES ASSUME ControlInit PROVE ControlInv
  OBVIOUS
<1>1. frames = <<>> /\ frames \in Seq(Frame) /\ Len(frames) = 0 /\ DeltasIn(frames) = 0
  BY EmptyStream DEF ControlInit
<1>2. ControlTypes
  <2>1. turn \in TurnType
    BY DEF ControlInit, TurnType, Stages, Silent, Early
  <2>2. snap \in SnapType /\ policy \in PolicyType
    BY TurnControlAssumption DEF ControlInit, SnapType, PolicyType
  <2>3. follower \in FollowerType
    BY DEF ControlInit, FollowerType
  <2>4. QED
    BY <1>1, <2>1, <2>2, <2>3 DEF ControlInit, ControlTypes, Rows, TurnType
<1>3. Versions
  BY TurnControlAssumption DEF ControlInit, Versions
<1>4. Spared
  BY DEF ControlInit, Spared, Early
<1>5. Revoked
  BY <1>1 DEF ControlInit, Revoked, Settled
<1>6. Counted
  BY <1>1, TurnControlAssumption DEF ControlInit, Counted
<1>7. QED
  BY <1>2, <1>3, <1>4, <1>5, <1>6 DEF ControlInv

\* Every step preserves the invariant.
LEMMA ControlKeeps == ControlInv /\ [ControlNext]_controlVars => ControlInv'
<1> SUFFICES ASSUME ControlInv, [ControlNext]_controlVars PROVE ControlInv'
  OBVIOUS
<1>1. CASE ControlNext
  <2>1. ControlTypes /\ Versions /\ Spared /\ Revoked /\ Counted
    BY DEF ControlInv
  <2>2. ControlTypes'
    BY <1>1, <2>1, TurnTyped, PolicyTyped, SnapTyped, FollowerTyped, NoticesTyped, FlagsTyped,
       RowTyped, StreamTyped DEF ControlTypes
  <2>3. QED
    BY <1>1, <2>1, <2>2, VersionsStep, SparedStep, RevokedStep, CountedStep DEF ControlInv
<1>2. CASE UNCHANGED controlVars
  <2>1. ControlTypes'
    BY <1>2 DEF controlVars, outside, stopVars, revokeVars, streamVars, ControlInv, ControlTypes
  <2>2. Versions' /\ Spared' /\ Revoked'
    BY <1>2 DEF controlVars, outside, stopVars, revokeVars, streamVars, ControlInv, Versions,
       Spared, Revoked
  <2>3. Counted'
    BY <1>2 DEF controlVars, outside, stopVars, revokeVars, streamVars, ControlInv, Counted
  <2>4. QED
    BY <2>1, <2>2, <2>3 DEF ControlInv
<1>3. QED
  BY <1>1, <1>2

\* The invariant bounds what the type invariant bounds.
LEMMA ControlTyped == ControlInv => ControlTypeOK
<1> SUFFICES ASSUME ControlInv PROVE ControlTypeOK
  OBVIOUS
<1>1. Len(frames) <= MaxDeltas + 2
  <2>1. Len(frames) \in Nat /\ DeltasIn(frames) \in Nat /\ MaxDeltas \in Nat
    BY DeltasGrow, TurnControlAssumption DEF ControlInv, ControlTypes, Frame
  <2>2. QED
    BY <2>1 DEF ControlInv, Counted
<1>2. policy.gen \in 0 .. policy.epoch /\ policy.epoch \in 0 .. policy.perms
  BY DEF ControlInv, ControlTypes, PolicyType, Versions
<1>3. follower.last \in 0 .. MaxDeltas + 2
  BY TurnControlAssumption DEF ControlInv, ControlTypes, FollowerType, Counted
<1>4. /\ turn.subs \subseteq Topics /\ inbox \subseteq turn.subs
      /\ turn.active \in BOOLEAN /\ turn.watched \in BOOLEAN /\ turn.remembered \in BOOLEAN
      /\ snap.tries \in 0 .. Attempts
  BY DEF ControlInv, ControlTypes, TurnType, SnapType
<1>5. QED
  BY <1>1, <1>2, <1>3, <1>4 DEF ControlInv, ControlTypes, Rows, Frame, ControlTypeOK

-----------------------------------------------------------------------------
(* The detached turn: the theorems.                                        *)

\* A stop of one generation or message never loses the set-up, wherever it falls
\* between the marker, the notice and the two steps of a listener (requestStop,
\* subscribeScopedStop).
THEOREM SetupIsSpared == ControlSpec => []StopSparesSetup
<1>i. ControlInit => ControlInv
  BY ControlBegins
<1>s. ControlInv /\ [ControlNext]_controlVars => ControlInv'
  BY ControlKeeps
<1>1. ControlInv => StopSparesSetup
  BY DEF ControlInv, Spared, Others, StopSparesSetup
<1>2. QED
  BY <1>1, <1>i, <1>s, PTL DEF ControlSpec

\* A revocation that any listener saw leaves nothing of the answer, neither in the
\* row nor in the stream, once the turn is over and the listeners are idle
\* (generationAccessRevocationWatcher).
THEOREM NothingIsLeft == ControlSpec => []RevokedLeavesNothing
<1>i. ControlInit => ControlInv
  BY ControlBegins
<1>s. ControlInv /\ [ControlNext]_controlVars => ControlInv'
  BY ControlKeeps
<1>1. ControlInv => RevokedLeavesNothing
  BY ControlTyped DEF ControlInv, Revoked, Settled, RevokedLeavesNothing
<1>2. QED
  BY <1>1, <1>i, <1>s, PTL DEF ControlSpec

\* A turn whose permission version has moved on announces no answer: the last
\* comparison scrubs the row before the terminal event.
THEOREM NoAnswerIsAnnounced == ControlSpec => NoAnswerSurvivesRevocation
<1>i. ControlInit => ControlInv
  BY ControlBegins
<1>s. ControlInv /\ [ControlNext]_controlVars => ControlInv'
  BY ControlKeeps
<1> DEFINE Announced == turn.at # "terminal" /\ turn'.at = "terminal" /\ policy.gen # snap.gen
                          => row' \in {"none", "scrubbed"}
<1>1. ControlInv /\ [ControlNext]_controlVars => [Announced]_controlVars
  <2> SUFFICES ASSUME ControlInv, ControlNext, turn.at # "terminal", turn'.at = "terminal", policy.gen # snap.gen
               PROVE  row' \in {"none", "scrubbed"}
    OBVIOUS
  <2>t. turn \in TurnType
    BY DEF ControlInv, ControlTypes
  <2>1. Recheck
    <3>1. CASE Handler \/ Produce \/ ProviderReturns
      BY <2>t, <3>1 DEF Handler, Setup, FinishTurn, Goto, TurnType, SnapshotBefore, SnapshotRead,
         SnapshotAfter, SnapshotVersion, WatchAccess, CheckAccess, SubscribeGeneration,
         CheckGenerationMarker, SubscribeConversation, AskQuestion, Place, Remember,
         SubscribeMessage, CheckMessageMarker, Activate, ApplyStop, KnowMessage, SettleAccess,
         Announce, Forward, Unwind, Terminal, Close, Produce, ProviderReturns
    <3>2. ~ReplicaCrash
      BY <2>t DEF ReplicaCrash, TurnType
    <3>3. QED
      BY <3>1, <3>2, WhoMoves
  <2>2. "permission" \in flags' /\ row' = Scrubbed(row)
    BY <2>1 DEF Recheck, NoLongerCurrent, Causes
  <2>3. QED
    BY <2>2 DEF Scrubbed
<1>2. QED
  BY <1>1, <1>i, <1>s, PTL DEF ControlSpec, NoAnswerSurvivesRevocation
=============================================================================
