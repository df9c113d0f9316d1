--------------------------- MODULE StorageCleanup ---------------------------
(***************************************************************************)
(* The stored bytes of one account and the rows that point at them. An     *)
(* upload writes bytes and then rows, a fork copies the rows of a          *)
(* conversation to a new one, and a deletion removes rows in one           *)
(* transaction and bytes afterwards. A path is shared, so whoever wants to *)
(* remove its bytes counts the rows first, under the exclusive storage     *)
(* lock. pending_storage_cleanup remembers the paths a committed deletion  *)
(* still has to look at; a sweeper works it off every two minutes, and the *)
(* job that deletes the account is resumed after a restart.                *)
(*                                                                         *)
(* Files, documents and artifacts of one conversation that point at the    *)
(* same path are one row here. SQLite has one connection, which an open    *)
(* transaction keeps to itself; on Postgres it locks the rows it names.    *)
(***************************************************************************)
EXTENDS Naturals, FiniteSets

CONSTANTS
  Paths,          \* the storage paths
  Conversations,
  First,          \* the conversation that exists at the start, with a file
  FirstPath,      \* the path of that file
  Library,        \* the knowledge base of the project the conversations are in
  Deleters,       \* the requests that delete a file, a conversation or a project
  Job,            \* the worker that deletes the account
  Sweeper,        \* the worker that works off the ledger
  NoPath,
  Postgres,       \* whether the database is Postgres (else SQLite)
  AtOnce,         \* the bound on the deletions that are in progress at once
  MaxFailures,    \* the bound on failed steps
  MaxCrashes      \* the bound on restarts of the server

ASSUME StorageAssumption ==
  /\ First \in Conversations /\ FirstPath \in Paths /\ NoPath \notin Paths
  /\ Library \notin Conversations /\ Postgres \in BOOLEAN
  /\ Job \notin Deleters /\ Sweeper \notin Deleters /\ Job # Sweeper
  /\ AtOnce \in Nat \ {0} /\ MaxFailures \in Nat /\ MaxCrashes \in Nat
  /\ IsFiniteSet(Deleters)

VARIABLES
  user,      \* users.status, "gone" when there is no row
  state,     \* the row of each container
  refs,      \* the rows <<container, path>>
  bytes,     \* the paths that have bytes
  ledger,    \* pending_storage_cleanup
  upload,    \* the request that stores each path
  fork,      \* the transaction of the one fork in progress
  worker,    \* what each worker is at
  owed,      \* history: the paths whose last row went with a container
  failures, crashes

vars == <<user, state, refs, bytes, ledger, upload, fork, worker, owed, failures, crashes>>
memory == <<upload, fork, worker>>
bounds == <<failures, crashes>>

Containers == Conversations \cup {Library}
Workers == Deleters \cup {Job, Sweeper}
NoFork == [at |-> "idle", src |-> Library, dst |-> Library, paths |-> {}]
NoWork == [at |-> "idle", scope |-> {}, found |-> {}, queued |-> {}, todo |-> {},
           path |-> NoPath, seen |-> FALSE, keeps |-> FALSE]

Init ==
  /\ user = "active"
  /\ state = [c \in Containers |-> IF c \in {First, Library} THEN "live" ELSE "unused"]
  /\ \E cs \in SUBSET {Library} : refs = ({First} \cup cs) \X {FirstPath}
  /\ bytes = {FirstPath} /\ ledger = {}
  /\ upload = [p \in Paths |-> [at |-> IF p = FirstPath THEN "done" ELSE "unused",
                                conv |-> First]]
  /\ fork = NoFork
  /\ worker = [w \in Workers |-> NoWork]
  /\ owed = {} /\ failures = 0 /\ crashes = 0

Live(c) == state[c] = "live"
PathsOf(cs) == {p \in Paths : \E c \in cs : <<c, p>> \in refs}
Referenced(p) == \E c \in Containers : <<c, p>> \in refs

\* What an open transaction keeps from others: a conversation, or the one connection.
Locked(c) ==
  \/ fork.at = "copying" /\ c \in {fork.src, fork.dst}
  \/ \E w \in Workers : worker[w].at = "deleting" /\ c \in worker[w].scope
Available == Postgres \/ (fork.at = "idle" /\ \A w \in Workers : worker[w].at # "deleting")

\* The storage lock, shared by the uploads and exclusive for a cleaner.
Storing(p) == upload[p].at \in {"written", "saved"}
Cleaning(w) == worker[w].at = "checked"
MayStore == \A w \in Workers : ~Cleaning(w)
MayClean == MayStore /\ \A p \in Paths : ~Storing(p)

\* More rows for paths that have, or had, some.
AddRows(rows) ==
  /\ refs' = refs \cup rows
  /\ owed' = {p \in owed : \A r \in rows : r[2] # p}

\* A deletion may begin.
MayDelete == Cardinality({w \in Deleters \cup {Job} : worker[w].at # "idle"}) < AtOnce
Fails == failures < MaxFailures /\ failures' = failures + 1
Goto(w, at) == worker' = [worker EXCEPT ![w].at = at]
\* The path is dealt with; the next one, if there is one.
NextPath(w) ==
  LET left == worker[w].todo \ {worker[w].path}
  IN worker' = [worker EXCEPT ![w] =
       IF left = {} THEN NoWork
       ELSE [@ EXCEPT !.at = "cleaning", !.todo = left, !.path = NoPath, !.seen = FALSE]]

-----------------------------------------------------------------------------
(* Uploads: receiveDocument, uploadFileHandler, saveArtifact               *)

SetUpload(p, at) == upload' = [upload EXCEPT ![p].at = at]

\* The shared lock is taken and the bytes are written under a fresh path.
UploadWrites(p, c) ==
  /\ user = "active" /\ upload[p].at = "unused" /\ Live(c) /\ MayStore
  /\ upload' = [upload EXCEPT ![p] = [at |-> "written", conv |-> c]]
  /\ bytes' = bytes \cup {p}
  /\ UNCHANGED <<user, state, refs, ledger, fork, worker, owed, bounds>>

\* CreateFile, or an insertion that is refused: the bytes are removed again.
UploadSaves(p) ==
  /\ upload[p].at = "written" /\ Available
  /\ \/ /\ Live(upload[p].conv) /\ SetUpload(p, "saved")
        /\ refs' = refs \cup {<<upload[p].conv, p>>}
        /\ UNCHANGED bytes
     \/ /\ SetUpload(p, "done") /\ bytes' = bytes \ {p}
        /\ UNCHANGED refs
  /\ UNCHANGED <<user, state, ledger, fork, worker, owed, bounds>>

\* Mutant: bytes whose commit was not acknowledged are taken back.
UploadUndone(p) ==
  /\ upload[p].at = "written" /\ Available /\ Fails
  /\ SetUpload(p, "late") /\ bytes' = bytes \ {p}
  /\ UNCHANGED <<user, state, refs, ledger, fork, worker, owed, crashes>>

\* ErrStoragePersistenceUncertain: the commit was not acknowledged; the bytes are kept.
UploadUncertain(p) ==
  /\ upload[p].at = "written" /\ Available /\ Fails
  /\ SetUpload(p, "late")
  /\ UNCHANGED <<user, state, refs, bytes, ledger, fork, worker, owed, crashes>>

\* The transaction completes on the database server after all, or never does.
LateCommit(p) ==
  /\ upload[p].at = "late" /\ Available
  /\ SetUpload(p, "done")
  /\ refs' \in {refs, refs \cup {<<c, p>> : c \in {d \in {upload[p].conv} : Live(d)}}}
  /\ UNCHANGED <<user, state, bytes, ledger, fork, worker, owed, bounds>>

\* The documents over the same bytes: in the library (auto_add_uploads) or the conversation (rag=1).
UploadAddsDocuments(p) ==
  /\ upload[p].at = "saved" /\ Available
  /\ SetUpload(p, "done")
  /\ \E cs \in SUBSET {c \in {Library, upload[p].conv} : Live(c)} :
       AddRows(cs \X {p})
  /\ UNCHANGED <<user, state, bytes, ledger, fork, worker, bounds>>

-----------------------------------------------------------------------------
(* A fork: forkConversationHandler, ForkMessagePathWithResources           *)

\* The target is created; the source is locked and the rows of the branch are read.
ForkReads(src, dst) ==
  /\ user = "active" /\ fork.at = "idle" /\ Available
  /\ Live(src) /\ ~Locked(src) /\ state[dst] = "unused"
  /\ state' = [state EXCEPT ![dst] = "live"]
  /\ \E ps \in SUBSET PathsOf({src}) :
       fork' = [at |-> "copying", src |-> src, dst |-> dst, paths |-> ps]
  /\ UNCHANGED <<user, refs, bytes, ledger, upload, worker, owed, bounds>>

ForkCommits ==
  /\ fork.at = "copying"
  /\ AddRows({fork.dst} \X fork.paths)
  /\ fork' = NoFork
  /\ UNCHANGED <<user, state, bytes, ledger, upload, worker, bounds>>

\* An attachment is still being processed, the quota is used up: the target is removed.
ForkFails ==
  /\ fork.at = "copying"
  /\ state' = [state EXCEPT ![fork.dst] = "deleted"]
  /\ fork' = NoFork
  /\ UNCHANGED <<user, refs, bytes, ledger, upload, worker, owed, bounds>>

-----------------------------------------------------------------------------
(* Deletions                                                               *)

\* DeleteConversationFileAndDocuments, DeleteDocumentForUser: no lock on the
\* conversation, no entry in the ledger; the bytes are cleaned up afterwards.
DeleteFile(w, c, p) ==
  /\ user = "active" /\ worker[w].at = "idle" /\ MayDelete /\ Available /\ <<c, p>> \in refs
  /\ refs' = refs \ {<<c, p>>}
  /\ worker' = [worker EXCEPT ![w] = [NoWork EXCEPT !.at = "cleaning", !.todo = {p}]]
  /\ UNCHANGED <<user, state, bytes, ledger, upload, fork, owed, bounds>>

\* Mutant: nothing is queued, the request cleans up by itself.
QueuesNothing(ps) == {}

\* queueConversationCleanupTx: INSERT ... ON CONFLICT DO NOTHING sees the committed rows.
Queued(ps) == ps \ ledger

\* The transaction has locked the containers, read the paths and inserted them.
Begin(w, cs, work) ==
  /\ Available /\ \A c \in cs : Live(c) /\ ~Locked(c)
  /\ worker' = [worker EXCEPT ![w] = [work EXCEPT
       !.at = "deleting", !.scope = cs, !.found = PathsOf(cs), !.queued = Queued(PathsOf(cs))]]
  /\ UNCHANGED <<user, state, refs, bytes, ledger, upload, fork, owed, bounds>>

\* DeleteConversationWithState; with the library, DeleteProjectWithOptions.
DeleteBegins(w, cs) ==
  /\ user = "active" /\ worker[w].at = "idle" /\ MayDelete
  /\ Begin(w, cs, [NoWork EXCEPT !.keeps = TRUE])

\* The rows of the containers go, those that came after the paths were read too.
Commit(w) ==
  LET cs == worker[w].scope
      left == {r \in refs : r[1] \notin cs}
  IN /\ worker[w].at = "deleting"
     /\ refs' = left
     /\ state' = [c \in Containers |-> IF c \in cs THEN "deleted" ELSE state[c]]
     /\ ledger' = ledger \cup worker[w].queued
     /\ owed' = owed \cup {p \in PathsOf(cs) : \A c \in Containers : <<c, p>> \notin left}

\* The committed deletion goes on with the bytes: first, for a project or an account,
\* with its own pass over the local disk, then with the paths to clean.
CleansUp(w, at, paths) ==
  worker' = [worker EXCEPT ![w] =
    IF worker[w].found \cup paths = {} THEN NoWork
    ELSE [NoWork EXCEPT !.at = at, !.found = worker[w].found, !.todo = paths, !.keeps = TRUE]]

DeleteCommits(w) ==
  /\ Commit(w)
  /\ CleansUp(w, IF Library \in worker[w].scope THEN "local" ELSE "cleaning", worker[w].found)
  /\ UNCHANGED <<user, bytes, upload, fork, bounds>>

\* removeLocalStoragePath for each path: it looks for rows under the exclusive lock,
\* too, and what it does not get at is left to the pass that follows.
RemoveLocally(w) ==
  /\ worker[w].at = "local" /\ Available
  /\ \E gone \in SUBSET {p \in worker[w].found : ~Referenced(p)} :
       /\ gone # {} => MayClean
       /\ bytes' = bytes \ gone
  /\ worker' = [worker EXCEPT ![w] =
       IF worker[w].todo = {} THEN NoWork ELSE [@ EXCEPT !.at = "cleaning"]]
  /\ UNCHANGED <<user, state, refs, ledger, upload, fork, owed, bounds>>

-----------------------------------------------------------------------------
(* cleanupOneStoragePath and what its callers do with the answer           *)

\* The exclusive lock is taken and the rows that point at the path are counted.
Check(w) ==
  /\ worker[w].at = "cleaning" /\ MayClean /\ Available
  /\ \E p \in worker[w].todo :
       worker' = [worker EXCEPT ![w] = [@ EXCEPT !.at = "checked", !.path = p, !.seen = Referenced(p)]]
  /\ UNCHANGED <<user, state, refs, bytes, ledger, upload, fork, owed, bounds>>

\* Rows still point at it. The sweeper keeps its entry, a deletion forgets it.
Spare(w) ==
  /\ Cleaning(w) /\ worker[w].seen
  /\ IF worker[w].keeps /\ w # Sweeper THEN Goto(w, "forget") ELSE NextPath(w)
  /\ UNCHANGED <<user, state, refs, bytes, ledger, upload, fork, owed, bounds>>

Remove(w) ==
  /\ Cleaning(w) /\ ~worker[w].seen
  /\ bytes' = bytes \ {worker[w].path}
  /\ IF worker[w].keeps THEN Goto(w, "forget") ELSE NextPath(w)
  /\ UNCHANGED <<user, state, refs, ledger, upload, fork, owed, bounds>>

\* The removal failed or its time was up: the entry, if there is one, stays.
RemoveFails(w) ==
  /\ Cleaning(w) /\ ~worker[w].seen /\ Fails
  /\ NextPath(w)
  /\ UNCHANGED <<user, state, refs, bytes, ledger, upload, fork, owed, crashes>>

\* DeletePendingStorageCleanup, a statement of its own after the lock.
Forget(w) ==
  /\ worker[w].at = "forget" /\ Available
  /\ ledger' = ledger \ {worker[w].path}
  /\ NextPath(w)
  /\ UNCHANGED <<user, state, refs, bytes, upload, fork, owed, bounds>>

ForgetFails(w) ==
  /\ worker[w].at = "forget" /\ Fails
  /\ NextPath(w)
  /\ UNCHANGED <<user, state, refs, bytes, ledger, upload, fork, owed, crashes>>

\* Mutant: only what accounts that are gone have left behind is swept.
SweepsTheGone ==
  /\ worker[Sweeper].at = "idle" /\ ledger # {} /\ Available /\ user = "gone"
  /\ worker' = [worker EXCEPT ![Sweeper] =
       [NoWork EXCEPT !.at = "cleaning", !.todo = ledger, !.keeps = TRUE]]
  /\ UNCHANGED <<user, state, refs, bytes, ledger, upload, fork, owed, bounds>>

\* sweepPendingStorageCleanupContext, at the start and on every tick.
SweepLists ==
  /\ worker[Sweeper].at = "idle" /\ ledger # {} /\ Available
  /\ worker' = [worker EXCEPT ![Sweeper] =
       [NoWork EXCEPT !.at = "cleaning", !.todo = ledger, !.keeps = TRUE]]
  /\ UNCHANGED <<user, state, refs, bytes, ledger, upload, fork, owed, bounds>>

-----------------------------------------------------------------------------
(* The account: MarkUserDeleting, runUserDeletionJob, DeleteUser           *)

MarkUserDeleting ==
  /\ user = "active" /\ Available
  /\ user' = "deleting"
  /\ UNCHANGED <<state, refs, bytes, ledger, memory, owed, bounds>>

\* BuildUserCleanupPlan. A job runs for an account that was just marked, on an
\* administrator's second try and, after a restart, from resumeUserDeletions.
JobPlans ==
  /\ user = "deleting" /\ worker[Job].at = "idle" /\ MayDelete /\ Available
  /\ worker' = [worker EXCEPT ![Job] =
       [NoWork EXCEPT !.at = "planned", !.todo = PathsOf(Containers), !.keeps = TRUE]]
  /\ UNCHANGED <<user, state, refs, bytes, ledger, upload, fork, owed, bounds>>

\* InsertPendingStorageCleanup, before anything is deleted.
JobRecords ==
  /\ worker[Job].at = "planned" /\ Available
  /\ ledger' = ledger \cup worker[Job].todo
  /\ Goto(Job, "draining")
  /\ UNCHANGED <<user, state, refs, bytes, upload, fork, owed, bounds>>

\* DeleteConversationRows, a batch of one conversation.
JobDrains(c) ==
  /\ worker[Job].at = "draining" /\ c \in Conversations
  /\ Begin(Job, {c}, worker[Job])

JobDrained ==
  /\ ~worker[Job].seen /\ Commit(Job)
  /\ worker' = [worker EXCEPT ![Job] =
       [@ EXCEPT !.at = "draining", !.scope = {}, !.found = {}, !.queued = {}]]
  /\ UNCHANGED <<user, bytes, upload, fork, bounds>>

\* DeleteUser plans again within its transaction and takes what is left.
JobDeletesUser ==
  /\ worker[Job].at = "draining" /\ \A c \in Conversations : ~Live(c)
  /\ Begin(Job, {Library} \cap {c \in Containers : Live(c)}, [worker[Job] EXCEPT !.seen = TRUE])

\* The bytes of the plan are next; what came later is left to the sweeper.
UserDeleted ==
  /\ worker[Job].seen /\ Commit(Job)
  /\ user' = "gone"
  /\ CleansUp(Job, "local", worker[Job].todo)
  /\ UNCHANGED <<bytes, upload, fork, bounds>>

\* The job ends as failed; an open transaction is rolled back.
JobFails ==
  /\ worker[Job].at \in {"planned", "draining", "deleting"} /\ Fails
  /\ worker' = [worker EXCEPT ![Job] = NoWork]
  /\ UNCHANGED <<user, state, refs, bytes, ledger, upload, fork, owed, crashes>>

-----------------------------------------------------------------------------

\* The server stops: transactions are rolled back, locks and work in memory are lost.
Crash ==
  /\ crashes < MaxCrashes /\ crashes' = crashes + 1
  /\ fork' = NoFork
  /\ worker' = [w \in Workers |-> NoWork]
  /\ upload' = [p \in Paths |-> IF Storing(p) THEN [upload[p] EXCEPT !.at = "done"] ELSE upload[p]]
  /\ UNCHANGED <<user, state, refs, bytes, ledger, owed, failures>>

Upload(p) ==
  \/ \E c \in Conversations : UploadWrites(p, c)
  \/ UploadSaves(p) \/ UploadUncertain(p) \/ LateCommit(p) \/ UploadAddsDocuments(p)
Fork ==
  \/ \E src, dst \in Conversations : ForkReads(src, dst)
  \/ ForkCommits \/ ForkFails
Delete(w) ==
  \/ \E c \in Containers, p \in Paths : DeleteFile(w, c, p)
  \/ \E c \in Conversations : DeleteBegins(w, {c})
  \/ \E cs \in {{Library}, {c \in Containers : Live(c)}} :
       Library \in cs /\ DeleteBegins(w, cs)
  \/ DeleteCommits(w)
CleanUp(w) ==
  RemoveLocally(w) \/ Check(w) \/ Spare(w) \/ Remove(w) \/ RemoveFails(w) \/ Forget(w) \/ ForgetFails(w)
DeleteAccount ==
  \/ MarkUserDeleting \/ JobPlans \/ JobRecords \/ (\E c \in Conversations : JobDrains(c))
  \/ JobDrained \/ JobDeletesUser \/ UserDeleted \/ JobFails

Next ==
  \/ \E p \in Paths : Upload(p)
  \/ Fork
  \/ \E w \in Deleters : Delete(w)
  \/ \E w \in Workers : CleanUp(w)
  \/ SweepLists \/ DeleteAccount \/ Crash

\* A request or a job that has begun goes on, the ticker of the sweeper keeps running, and
\* the lock files are polled until they are free.
Fairness ==
  /\ \A p \in Paths : WF_vars(UploadSaves(p)) /\ WF_vars(UploadAddsDocuments(p))
  /\ WF_vars(ForkCommits)
  /\ \A w \in Deleters : WF_vars(DeleteCommits(w))
  /\ WF_vars(JobRecords) /\ WF_vars(\E c \in Conversations : JobDrains(c)) /\ WF_vars(JobDrained)
  /\ WF_vars(JobDeletesUser) /\ WF_vars(UserDeleted) /\ WF_vars(SweepLists)
  /\ \A w \in Workers :
       /\ WF_vars(RemoveLocally(w)) /\ WF_vars(Check(w)) /\ WF_vars(Spare(w))
       /\ WF_vars(Remove(w)) /\ WF_vars(Forget(w))

Spec == Init /\ [][Next]_vars /\ Fairness

-----------------------------------------------------------------------------
(* Properties                                                              *)

TypeOK ==
  /\ user \in {"active", "deleting", "gone"}
  /\ state \in [Containers -> {"unused", "live", "deleted"}]
  /\ refs \subseteq Containers \X Paths
  /\ bytes \subseteq Paths /\ ledger \subseteq Paths /\ owed \subseteq Paths

\* A row never points at bytes that are gone, whichever of the deletions, the sweeper,
\* the forks and the late commits overlap: the guard of cleanupOneStoragePath,
\* LockStorage and ErrStoragePersistenceUncertain together.
ReferencedBytesExist == TypeOK /\ \A r \in refs : r[2] \in bytes

\* Bytes whose last row a deletion has removed are remembered, in the ledger or by a
\* worker that still has to look at them: queueConversationCleanupTx.
DeletionsAreRemembered ==
  \A p \in owed \cap bytes : p \in ledger \/ \E w \in Workers : p \in worker[w].todo

\* Such bytes are removed in the end.
OrphansAreRemoved == \A p \in Paths : (p \in owed) ~> (p \notin owed \cap bytes)
=============================================================================
