------------------------ MODULE StorageCleanupProofs -------------------------
(***************************************************************************)
(* No row points at bytes that are gone, and no bytes whose last row was   *)
(* deleted are forgotten, for any paths, conversations and workers, with   *)
(* the one connection of SQLite. The second is for one deletion at a time. *)
(***************************************************************************)
EXTENDS StorageCleanup, FiniteSetTheorems, TLAPS

UploadType ==
  [at : {"unused", "written", "saved", "late", "done"}, conv : Conversations]

ForkType ==
  [at : {"idle", "copying"}, src : Containers, dst : Containers, paths : SUBSET Paths]

Ats == {"idle", "deleting", "local", "cleaning", "checked", "forget", "planned", "draining"}

WorkType ==
  [at : Ats, scope : SUBSET Containers, found : SUBSET Paths, queued : SUBSET Paths, todo : SUBSET Paths,
   path : Paths \cup {NoPath}, seen : BOOLEAN, keeps : BOOLEAN]

\* What is in memory has its type.
MemoryOK ==
  /\ upload \in [Paths -> UploadType]
  /\ fork \in ForkType
  /\ worker \in [Workers -> WorkType]

\* What an upload has not put into a row yet.
Fresh(p) == upload[p].at \in {"unused", "written", "late"}

\* The paths that the worker w has read somewhere.
Known(w) == worker[w].found \cup worker[w].queued \cup worker[w].todo \cup {worker[w].path}

\* Nobody has seen such a path.
FreshIsUnseen ==
  \A p \in Paths : Fresh(p) =>
    /\ ~Referenced(p) /\ p \notin ledger /\ p \notin owed /\ p \notin fork.paths
    /\ \A w \in Workers : p \notin Known(w)

\* What has, gets or may get a row has bytes.
BytesAreThere ==
  /\ \A r \in refs : r[2] \in bytes
  /\ fork.paths \subseteq bytes /\ (fork.at = "idle" => fork.paths = {})
  /\ \A p \in Paths : upload[p].at \in {"written", "saved", "late"} => p \in bytes

\* Who holds the storage lock to clean up excludes the uploads, and what it has
\* found without a row gets none.
CleanersAreAlone ==
  \A w \in Workers : Cleaning(w) =>
    /\ \A p \in Paths : ~Storing(p)
    /\ ~worker[w].seen => ~Referenced(worker[w].path) /\ worker[w].path \notin fork.paths

\* The inductive invariant of the bytes.
BytesInv == TypeOK /\ MemoryOK /\ FreshIsUnseen /\ BytesAreThere /\ CleanersAreAlone

Owners == Deleters \cup {Job}

\* One deletion is in progress at once.
SoleDeletion ==
  \A v, w \in Owners : worker[v].at # "idle" /\ worker[w].at # "idle" => v = w

\* Paths are owed only while they have no row.
OwedHaveNoRow == \A p \in owed : ~Referenced(p)

\* An open transaction is the only one, so what it has read is still so.
OneTransaction ==
  \A w \in Workers : worker[w].at = "deleting" =>
    /\ fork.at = "idle" /\ \A v \in Workers : worker[v].at = "deleting" => v = w
    /\ PathsOf(worker[w].scope) \subseteq worker[w].found
    /\ worker[w].found \subseteq ledger \cup worker[w].queued

\* What is about to be forgotten is gone or still needed.
ForgetsInTime ==
  \A w \in Workers :
    /\ worker[w].at = "checked" /\ worker[w].seen /\ w # Sweeper => worker[w].path \notin owed
    /\ worker[w].at = "forget" =>
         worker[w].path \notin bytes \/ (w # Sweeper /\ worker[w].path \notin owed)

\* The inductive invariant of the ledger.
LedgerInv ==
  /\ BytesInv /\ SoleDeletion /\ OwedHaveNoRow /\ OneTransaction /\ ForgetsInTime
  /\ owed \cap bytes \subseteq ledger

-----------------------------------------------------------------------------
(* Records                                                                 *)

Rec(a, cs, f, q, t, p, s, k) ==
  [at |-> a, scope |-> cs, found |-> f, queued |-> q, todo |-> t, path |-> p, seen |-> s, keeps |-> k]

\* A record of a worker is its fields, and one with some of them replaced is the others
\* and these.
LEMMA WorkFields ==
  ASSUME NEW x \in WorkType
  PROVE  /\ \A a : [x EXCEPT !.at = a]
                   = Rec(a, x.scope, x.found, x.queued, x.todo, x.path, x.seen, x.keeps)
         /\ [x EXCEPT !.seen = TRUE]
            = Rec(x.at, x.scope, x.found, x.queued, x.todo, x.path, TRUE, x.keeps)
         /\ \A p, s : [x EXCEPT !.at = "checked", !.path = p, !.seen = s]
                      = Rec("checked", x.scope, x.found, x.queued, x.todo, p, s, x.keeps)
         /\ \A t : [x EXCEPT !.at = "cleaning", !.todo = t, !.path = NoPath, !.seen = FALSE]
                   = Rec("cleaning", x.scope, x.found, x.queued, t, NoPath, FALSE, x.keeps)
         /\ \A a, cs, f, q : [x EXCEPT !.at = a, !.scope = cs, !.found = f, !.queued = q]
                             = Rec(a, cs, f, q, x.todo, x.path, x.seen, x.keeps)
  <1>1. x = Rec(x.at, x.scope, x.found, x.queued, x.todo, x.path, x.seen, x.keeps)
    BY DEF WorkType, Rec
  <1>2. ASSUME NEW a
        PROVE  [x EXCEPT !.at = a]
             = Rec(a, x.scope, x.found, x.queued, x.todo, x.path, x.seen, x.keeps)
    <2>1. [Rec(x.at, x.scope, x.found, x.queued, x.todo, x.path, x.seen, x.keeps) EXCEPT !.at = a]
          = Rec(a, x.scope, x.found, x.queued, x.todo, x.path, x.seen, x.keeps)
      BY DEF Rec
    <2> QED
      BY <1>1, <2>1, Zenon
  <1>3. [x EXCEPT !.seen = TRUE]
        = Rec(x.at, x.scope, x.found, x.queued, x.todo, x.path, TRUE, x.keeps)
    <2>1. [Rec(x.at, x.scope, x.found, x.queued, x.todo, x.path, x.seen, x.keeps) EXCEPT !.seen = TRUE]
          = Rec(x.at, x.scope, x.found, x.queued, x.todo, x.path, TRUE, x.keeps)
      <3>1. ASSUME NEW v
            PROVE  [Rec(x.at, x.scope, x.found, x.queued, x.todo, x.path, x.seen, x.keeps) EXCEPT !.seen = v]
                   = Rec(x.at, x.scope, x.found, x.queued, x.todo, x.path, v, x.keeps)
        BY DEF Rec
      <3> QED
        BY <3>1, Zenon
    <2> QED
      BY <1>1, <2>1, Zenon
  <1>4. ASSUME NEW p, NEW s
        PROVE  [x EXCEPT !.at = "checked", !.path = p, !.seen = s]
             = Rec("checked", x.scope, x.found, x.queued, x.todo, p, s, x.keeps)
    <2>0. [x EXCEPT !.at = "checked", !.path = p, !.seen = s]
          = [[[x EXCEPT !.at = "checked"] EXCEPT !.path = p] EXCEPT !.seen = s]
      BY Zenon
    <2>1. [Rec(x.at, x.scope, x.found, x.queued, x.todo, x.path, x.seen, x.keeps) EXCEPT !.at = "checked"]
          = Rec("checked", x.scope, x.found, x.queued, x.todo, x.path, x.seen, x.keeps)
      BY DEF Rec
    <2>2. [Rec("checked", x.scope, x.found, x.queued, x.todo, x.path, x.seen, x.keeps) EXCEPT !.path = p]
          = Rec("checked", x.scope, x.found, x.queued, x.todo, p, x.seen, x.keeps)
      BY DEF Rec
    <2>3. [Rec("checked", x.scope, x.found, x.queued, x.todo, p, x.seen, x.keeps) EXCEPT !.seen = s]
          = Rec("checked", x.scope, x.found, x.queued, x.todo, p, s, x.keeps)
      BY DEF Rec
    <2> QED
      BY <1>1, <2>0, <2>1, <2>2, <2>3, Zenon
  <1>5. ASSUME NEW t
        PROVE  [x EXCEPT !.at = "cleaning", !.todo = t, !.path = NoPath, !.seen = FALSE]
             = Rec("cleaning", x.scope, x.found, x.queued, t, NoPath, FALSE, x.keeps)
    <2>0. [x EXCEPT !.at = "cleaning", !.todo = t, !.path = NoPath, !.seen = FALSE]
          = [[[[x EXCEPT !.at = "cleaning"] EXCEPT !.todo = t] EXCEPT !.path = NoPath] EXCEPT !.seen = FALSE]
      BY Zenon
    <2>1. [Rec(x.at, x.scope, x.found, x.queued, x.todo, x.path, x.seen, x.keeps) EXCEPT !.at = "cleaning"]
          = Rec("cleaning", x.scope, x.found, x.queued, x.todo, x.path, x.seen, x.keeps)
      BY DEF Rec
    <2>2. [Rec("cleaning", x.scope, x.found, x.queued, x.todo, x.path, x.seen, x.keeps) EXCEPT !.todo = t]
          = Rec("cleaning", x.scope, x.found, x.queued, t, x.path, x.seen, x.keeps)
      BY DEF Rec
    <2>3. [Rec("cleaning", x.scope, x.found, x.queued, t, x.path, x.seen, x.keeps) EXCEPT !.path = NoPath]
          = Rec("cleaning", x.scope, x.found, x.queued, t, NoPath, x.seen, x.keeps)
      BY DEF Rec
    <2>4. [Rec("cleaning", x.scope, x.found, x.queued, t, NoPath, x.seen, x.keeps) EXCEPT !.seen = FALSE]
          = Rec("cleaning", x.scope, x.found, x.queued, t, NoPath, FALSE, x.keeps)
      <3>1. ASSUME NEW v
            PROVE  [Rec("cleaning", x.scope, x.found, x.queued, t, NoPath, x.seen, x.keeps) EXCEPT !.seen = v]
                   = Rec("cleaning", x.scope, x.found, x.queued, t, NoPath, v, x.keeps)
        BY DEF Rec
      <3> QED
        BY <3>1, Zenon
    <2> QED
      BY <1>1, <2>0, <2>1, <2>2, <2>3, <2>4, ZenonT(60)
  <1>6. ASSUME NEW a, NEW cs, NEW f, NEW q
        PROVE  [x EXCEPT !.at = a, !.scope = cs, !.found = f, !.queued = q]
             = Rec(a, cs, f, q, x.todo, x.path, x.seen, x.keeps)
    <2>0. [x EXCEPT !.at = a, !.scope = cs, !.found = f, !.queued = q]
          = [[[[x EXCEPT !.at = a] EXCEPT !.scope = cs] EXCEPT !.found = f] EXCEPT !.queued = q]
      BY Zenon
    <2>1. [Rec(x.at, x.scope, x.found, x.queued, x.todo, x.path, x.seen, x.keeps) EXCEPT !.at = a]
          = Rec(a, x.scope, x.found, x.queued, x.todo, x.path, x.seen, x.keeps)
      BY DEF Rec
    <2>2. [Rec(a, x.scope, x.found, x.queued, x.todo, x.path, x.seen, x.keeps) EXCEPT !.scope = cs]
          = Rec(a, cs, x.found, x.queued, x.todo, x.path, x.seen, x.keeps)
      BY DEF Rec
    <2>3. [Rec(a, cs, x.found, x.queued, x.todo, x.path, x.seen, x.keeps) EXCEPT !.found = f]
          = Rec(a, cs, f, x.queued, x.todo, x.path, x.seen, x.keeps)
      BY DEF Rec
    <2>4. [Rec(a, cs, f, x.queued, x.todo, x.path, x.seen, x.keeps) EXCEPT !.queued = q]
          = Rec(a, cs, f, q, x.todo, x.path, x.seen, x.keeps)
      BY DEF Rec
    <2> QED
      BY <1>1, <2>0, <2>1, <2>2, <2>3, <2>4, ZenonT(60)
  <1> QED
    BY <1>1, <1>2, <1>3, <1>4, <1>5, <1>6, Zenon

\* The records that the actions start from are of their types.
LEMMA DefaultTypes == NoWork \in WorkType /\ NoFork \in ForkType
  BY DEF NoWork, NoFork, WorkType, ForkType, Ats, Containers

-----------------------------------------------------------------------------
(* What a step does to a worker                                            *)

Found == {p \in Paths : Referenced(p)}

\* It goes idle.
Ends(w, x) == x = NoWork

\* It goes on with paths that it knew, that have a row, or that are in the ledger.
Takes(w, x) ==
  /\ x.at \in {"cleaning", "local", "planned", "draining"}
  /\ x.found \cup x.queued \cup x.todo \cup {x.path} \subseteq Known(w) \cup Found \cup ledger \cup {NoPath}
  /\ w \in Owners => worker[w].at # "idle" \/ MayDelete

\* It opens a transaction.
Opens(w, x) ==
  /\ x.at = "deleting" /\ Available /\ UNCHANGED <<refs, ledger, fork>>
  /\ x.found = PathsOf(x.scope) /\ x.queued = Queued(x.found)
  /\ x.todo \subseteq worker[w].todo /\ x.path \in {worker[w].path, NoPath}
  /\ w \in Owners => worker[w].at # "idle" \/ MayDelete

SamePaths(w, x) == x.found = worker[w].found /\ x.queued = worker[w].queued /\ x.todo = worker[w].todo

\* It takes the storage lock and counts the rows.
Checks(w, x) ==
  /\ worker[w].at = "cleaning" /\ x.at = "checked" /\ SamePaths(w, x)
  /\ MayClean /\ Available /\ UNCHANGED <<refs, fork, upload, owed, bytes>>
  /\ x.path \in worker[w].todo /\ x.seen = Referenced(x.path)

\* It has spared the path or removed its bytes.
Decides(w, x) ==
  /\ worker[w].at = "checked" /\ x.at = "forget" /\ SamePaths(w, x) /\ x.path = worker[w].path
  /\ owed' = owed
  /\ (worker[w].seen /\ w # Sweeper /\ bytes' = bytes) \/ x.path \notin bytes'

Moves(w, x) == Ends(w, x) \/ Takes(w, x) \/ Opens(w, x) \/ Checks(w, x) \/ Decides(w, x)

OneMoves(w) == \E x \in WorkType : worker' = [worker EXCEPT ![w] = x] /\ Moves(w, x)

\* To go on with the next path is to take one or to end.
LEMMA NextPathMoves ==
  ASSUME MemoryOK, NEW w \in Workers, worker[w].at # "idle", NextPath(w)
  PROVE  OneMoves(w)
  <1> DEFINE left == worker[w].todo \ {worker[w].path}
             x == worker[w]
             y == Rec("cleaning", x.scope, x.found, x.queued, left, NoPath, FALSE, x.keeps)
  <1>1. x \in WorkType
    BY DEF MemoryOK
  <1>2. CASE left = {}
    <2>1. worker' = [worker EXCEPT ![w] = NoWork]
      BY <1>2 DEF NextPath
    <2> QED
      BY <2>1, DefaultTypes DEF OneMoves, Moves, Ends
  <1>3. CASE left # {}
    <2>1. worker' = [worker EXCEPT ![w] = [x EXCEPT !.at = "cleaning", !.todo = left, !.path = NoPath, !.seen = FALSE]]
      BY <1>3 DEF NextPath
    <2>2. worker' = [worker EXCEPT ![w] = y]
      BY <1>1, <2>1, WorkFields
    <2>3. y \in WorkType
      BY <1>1 DEF WorkType, Rec, Ats
    <2>4. Takes(w, y)
      BY DEF Takes, Rec, Known
    <2> QED
      BY <2>2, <2>3, <2>4 DEF OneMoves, Moves
  <1> QED
    BY <1>2, <1>3

\* To open a transaction.
LEMMA BeginMoves ==
  ASSUME MemoryOK, NEW w \in Workers, NEW cs \in SUBSET Containers, NEW work \in WorkType, Begin(w, cs, work),
         work.todo \subseteq worker[w].todo, work.path \in {worker[w].path, NoPath},
         w \in Owners => worker[w].at # "idle" \/ MayDelete
  PROVE  OneMoves(w)
  <1> DEFINE y == Rec("deleting", cs, PathsOf(cs), Queued(PathsOf(cs)), work.todo, work.path, work.seen, work.keeps)
  <1>1. worker' = [worker EXCEPT ![w] = y]
    <2>1. \A a, ds, f, q : [work EXCEPT !.at = a, !.scope = ds, !.found = f, !.queued = q]
                          = Rec(a, ds, f, q, work.todo, work.path, work.seen, work.keeps)
      BY WorkFields, Zenon
    <2>2. [work EXCEPT !.at = "deleting", !.scope = cs, !.found = PathsOf(cs), !.queued = Queued(PathsOf(cs))] = y
      BY <2>1, Zenon
    <2> HIDE DEF y
    <2> QED
      BY <2>2, Zenon DEF Begin
  <1>2. y \in WorkType
    BY DEF WorkType, Rec, Ats, PathsOf, Queued
  <1>3. Opens(w, y)
    BY DEF Opens, Rec, Begin
  <1> QED
    BY <1>1, <1>2, <1>3 DEF OneMoves, Moves

\* The steps of a deletion up to its commit.
LEMMA DeleteMoves ==
  ASSUME TypeOK, MemoryOK, NEW w \in Deleters, Delete(w)
  PROVE  OneMoves(w)
  <1>0. w \in Workers /\ worker[w] \in WorkType
    BY DEF MemoryOK, Workers
  <1>1. ASSUME NEW c \in Containers, NEW p \in Paths, DeleteFile(w, c, p) PROVE OneMoves(w)
    <2> DEFINE x == [NoWork EXCEPT !.at = "cleaning", !.todo = {p}]
    <2>1. x \in WorkType
      BY DEF NoWork, WorkType, Ats
    <2>2. Takes(w, x)
      BY <1>1 DEF Takes, NoWork, DeleteFile, Found, Referenced
    <2> QED
      BY <1>1, <2>1, <2>2 DEF DeleteFile, OneMoves, Moves
  <1>2. ASSUME NEW cs \in SUBSET Containers, DeleteBegins(w, cs) PROVE OneMoves(w)
    <2> DEFINE x == [NoWork EXCEPT !.keeps = TRUE]
    <2>1. x \in WorkType /\ x.todo = {} /\ x.path = NoPath
      BY DEF NoWork, WorkType, Ats
    <2>2. Begin(w, cs, x) /\ MayDelete
      BY <1>2 DEF DeleteBegins
    <2> HIDE DEF x
    <2> QED
      BY <1>0, <2>1, <2>2, BeginMoves
  <1>3. CASE DeleteCommits(w)
    <2> DEFINE at == IF Library \in worker[w].scope THEN "local" ELSE "cleaning"
               x == [NoWork EXCEPT !.at = at, !.found = worker[w].found, !.todo = worker[w].found, !.keeps = TRUE]
    <2>1. worker[w].at = "deleting" /\ (worker' = [worker EXCEPT ![w] = NoWork] \/ worker' = [worker EXCEPT ![w] = x])
      BY <1>3 DEF DeleteCommits, CleansUp, Commit
    <2>2. at \in {"local", "cleaning"}
      OBVIOUS
    <2> HIDE DEF at
    <2>3. x \in WorkType
      BY <1>0, <2>2 DEF NoWork, WorkType, Ats
    <2>4. Takes(w, x)
      BY <2>1, <2>2 DEF Takes, NoWork, Known
    <2> QED
      BY <2>1, <2>3, <2>4, DefaultTypes DEF OneMoves, Moves, Ends
  <1> QED
    BY <1>1, <1>2, <1>3 DEF Delete, Containers

\* The steps of cleaning up.
LEMMA CleanUpMoves ==
  ASSUME TypeOK, MemoryOK, NEW w \in Workers, CleanUp(w)
  PROVE  OneMoves(w)
  <1> DEFINE x == worker[w]
  <1>0. x \in WorkType
    BY DEF MemoryOK
  <1>1. CASE RemoveLocally(w)
    <2>1. /\ x.at = "local"
          /\ worker' = [worker EXCEPT ![w] = NoWork] \/ worker' = [worker EXCEPT ![w] = [x EXCEPT !.at = "cleaning"]]
      BY <1>1 DEF RemoveLocally
    <2> DEFINE y == Rec("cleaning", x.scope, x.found, x.queued, x.todo, x.path, x.seen, x.keeps)
    <2>2. [x EXCEPT !.at = "cleaning"] = y
      BY <1>0, WorkFields
    <2>3. y \in WorkType
      BY <1>0 DEF WorkType, Rec, Ats
    <2>4. Takes(w, y)
      BY <2>1 DEF Takes, Rec, Known
    <2> QED
      BY <2>1, <2>2, <2>3, <2>4, DefaultTypes DEF OneMoves, Moves, Ends
  <1>2. CASE Check(w)
    <2>1. PICK p \in x.todo :
            worker' = [worker EXCEPT ![w] = [x EXCEPT !.at = "checked", !.path = p, !.seen = Referenced(p)]]
      BY <1>2 DEF Check
    <2> DEFINE y == Rec("checked", x.scope, x.found, x.queued, x.todo, p, Referenced(p), x.keeps)
    <2>2. worker' = [worker EXCEPT ![w] = y]
      <3>1. \A q, s : [x EXCEPT !.at = "checked", !.path = q, !.seen = s]
                      = Rec("checked", x.scope, x.found, x.queued, x.todo, q, s, x.keeps)
        BY <1>0, WorkFields, Zenon
      <3>2. [x EXCEPT !.at = "checked", !.path = p, !.seen = Referenced(p)] = y
        BY <3>1, Zenon
      <3> HIDE DEF y
      <3> QED
        BY <2>1, <3>2, Zenon
    <2>3. Referenced(p) \in BOOLEAN
      BY DEF Referenced
    <2>4. y \in WorkType
      BY <1>0, <2>3 DEF WorkType, Rec, Ats
    <2>5. Checks(w, y)
      BY <1>2 DEF Check, Checks, Rec, SamePaths
    <2> QED
      BY <2>2, <2>4, <2>5 DEF OneMoves, Moves
  <1> DEFINE z == Rec("forget", x.scope, x.found, x.queued, x.todo, x.path, x.seen, x.keeps)
  <1>3. z \in WorkType /\ [x EXCEPT !.at = "forget"] = z
    <2>1. z \in WorkType
      BY <1>0 DEF WorkType, Rec, Ats
    <2> QED
      BY <1>0, <2>1, WorkFields
  <1>4. CASE Spare(w)
    <2>1. CASE w # Sweeper /\ x.keeps
      <3>1. worker' = [worker EXCEPT ![w] = z]
        BY <1>3, <1>4, <2>1 DEF Spare, Goto
      <3>2. Decides(w, z)
        BY <1>4, <2>1 DEF Spare, Decides, Rec, SamePaths, Cleaning
      <3> QED
        BY <1>3, <3>1, <3>2 DEF OneMoves, Moves
    <2>2. CASE ~(w # Sweeper /\ x.keeps)
      BY <1>4, <2>2, NextPathMoves DEF Spare, Cleaning
    <2> QED
      BY <2>1, <2>2
  <1>5. CASE Remove(w)
    <2>1. CASE x.keeps
      <3>1. worker' = [worker EXCEPT ![w] = z]
        BY <1>3, <1>5, <2>1 DEF Remove, Goto
      <3>2. Decides(w, z)
        BY <1>5, <2>1 DEF Remove, Decides, Rec, SamePaths, Cleaning
      <3> QED
        BY <1>3, <3>1, <3>2 DEF OneMoves, Moves
    <2>2. CASE ~x.keeps
      BY <1>5, <2>2, NextPathMoves DEF Remove, Cleaning
    <2> QED
      BY <2>1, <2>2
  <1>6. CASE RemoveFails(w) \/ Forget(w) \/ ForgetFails(w)
    BY <1>6, NextPathMoves DEF RemoveFails, Forget, ForgetFails, Cleaning
  <1> QED
    BY <1>1, <1>2, <1>4, <1>5, <1>6 DEF CleanUp

\* The steps of the sweeper and of the job that are no cleaning.
LEMMA JobMoves ==
  ASSUME TypeOK, MemoryOK, SweepLists \/ (DeleteAccount /\ ~MarkUserDeleting)
  PROVE  OneMoves(Job) \/ OneMoves(Sweeper)
  <1> DEFINE x == worker[Job]
  <1>0. Job \in Workers /\ Sweeper \in Workers /\ x \in WorkType /\ Sweeper \notin Owners
    BY StorageAssumption DEF MemoryOK, Workers, Owners
  <1>1. CASE SweepLists
    <2> DEFINE y == [NoWork EXCEPT !.at = "cleaning", !.todo = ledger, !.keeps = TRUE]
    <2>1. y \in WorkType
      BY DEF TypeOK, NoWork, WorkType, Ats
    <2>2. Takes(Sweeper, y)
      BY <1>0 DEF Takes, NoWork
    <2> QED
      BY <1>0, <1>1, <2>1, <2>2 DEF SweepLists, OneMoves, Moves
  <1>2. CASE JobPlans
    <2> DEFINE y == [NoWork EXCEPT !.at = "planned", !.todo = PathsOf(Containers), !.keeps = TRUE]
    <2>1. y \in WorkType
      BY DEF PathsOf, NoWork, WorkType, Ats
    <2>2. Takes(Job, y)
      BY <1>2 DEF Takes, NoWork, JobPlans, PathsOf, Found, Referenced
    <2> QED
      BY <1>0, <1>2, <2>1, <2>2 DEF JobPlans, OneMoves, Moves
  <1>3. CASE JobRecords
    <2> DEFINE y == Rec("draining", x.scope, x.found, x.queued, x.todo, x.path, x.seen, x.keeps)
    <2>1. worker' = [worker EXCEPT ![Job] = y] /\ x.at = "planned"
      <3>1. [x EXCEPT !.at = "draining"] = y
        BY <1>0, WorkFields
      <3> QED
        BY <1>3, <3>1 DEF JobRecords, Goto
    <2>2. y \in WorkType
      BY <1>0 DEF WorkType, Rec, Ats
    <2>3. Takes(Job, y)
      BY <2>1 DEF Takes, Rec, Known
    <2> QED
      BY <2>1, <2>2, <2>3 DEF OneMoves, Moves
  <1>4. ASSUME NEW c \in Conversations, JobDrains(c) PROVE OneMoves(Job)
    <2>1. Begin(Job, {c}, x) /\ x.at # "idle" /\ {c} \in SUBSET Containers
      BY <1>4 DEF JobDrains, Containers
    <2> QED
      BY <1>0, <2>1, BeginMoves
  <1>5. CASE JobDrained
    <2> DEFINE y == Rec("draining", {}, {}, {}, x.todo, x.path, x.seen, x.keeps)
    <2>1. worker' = [worker EXCEPT ![Job] = y] /\ x.at = "deleting"
      <3>0. \A a, ds, f, q : [x EXCEPT !.at = a, !.scope = ds, !.found = f, !.queued = q]
                            = Rec(a, ds, f, q, x.todo, x.path, x.seen, x.keeps)
        BY <1>0, WorkFields, Zenon
      <3>1. [x EXCEPT !.at = "draining", !.scope = {}, !.found = {}, !.queued = {}] = y
        BY <3>0, Zenon
      <3> QED
        BY <1>5, <3>1 DEF JobDrained, Commit
    <2>2. y \in WorkType
      BY <1>0 DEF WorkType, Rec, Ats
    <2>3. Takes(Job, y)
      BY <2>1 DEF Takes, Rec, Known
    <2> QED
      BY <2>1, <2>2, <2>3 DEF OneMoves, Moves
  <1>6. CASE JobDeletesUser
    <2> DEFINE y == Rec(x.at, x.scope, x.found, x.queued, x.todo, x.path, TRUE, x.keeps)
               cs == {Library} \cap {c \in Containers : Live(c)}
    <2>1. y \in WorkType /\ y.todo = x.todo /\ y.path = x.path
      BY <1>0 DEF WorkType, Rec
    <2>2. Begin(Job, cs, y) /\ x.at = "draining" /\ cs \in SUBSET Containers
      <3>1. [x EXCEPT !.seen = TRUE] = y
        BY <1>0, WorkFields
      <3> QED
        BY <1>6, <3>1 DEF JobDeletesUser
    <2> HIDE DEF y, cs
    <2> QED
      BY <1>0, <2>1, <2>2, BeginMoves
  <1>7. CASE UserDeleted
    <2> DEFINE y == [NoWork EXCEPT !.at = "local", !.found = x.found, !.todo = x.todo, !.keeps = TRUE]
    <2>1. /\ x.at = "deleting"
          /\ worker' = [worker EXCEPT ![Job] = NoWork] \/ worker' = [worker EXCEPT ![Job] = y]
      BY <1>7 DEF UserDeleted, CleansUp, Commit
    <2>2. y \in WorkType
      BY <1>0 DEF NoWork, WorkType, Ats
    <2>3. Takes(Job, y)
      BY <2>1 DEF Takes, NoWork, Known
    <2> QED
      BY <2>1, <2>2, <2>3, DefaultTypes DEF OneMoves, Moves, Ends
  <1>8. CASE JobFails
    BY <1>8, DefaultTypes DEF JobFails, OneMoves, Moves, Ends
  <1> QED
    BY <1>1, <1>2, <1>3, <1>4, <1>5, <1>6, <1>7, <1>8 DEF DeleteAccount

\* Every step leaves the workers as they are, moves one, or stops them all.
LEMMA WorkMoves ==
  ASSUME TypeOK, MemoryOK, [Next]_vars
  PROVE  \/ worker' = worker
         \/ worker' = [w \in Workers |-> NoWork]
         \/ \E w \in Workers : OneMoves(w)
  <1>1. ASSUME NEW p \in Paths, Upload(p) PROVE worker' = worker
    BY <1>1 DEF Upload, UploadWrites, UploadSaves, UploadUncertain, LateCommit, UploadAddsDocuments
  <1>2. CASE Fork
    BY <1>2 DEF Fork, ForkReads, ForkCommits, ForkFails
  <1>3. CASE MarkUserDeleting
    BY <1>3 DEF MarkUserDeleting, memory
  <1>4. Deleters \subseteq Workers /\ Job \in Workers /\ Sweeper \in Workers
    BY DEF Workers
  <1> QED
    BY <1>1, <1>2, <1>3, <1>4, DeleteMoves, CleanUpMoves, JobMoves DEF Next, Crash, vars, memory

-----------------------------------------------------------------------------
(* What a step does to the tables                                          *)

\* The steps that are a commit of a deletion.
Commits(w) == Commit(w) /\ UNCHANGED <<bytes, upload, fork>> /\ worker'[w].at # "deleting"

\* A commit ends the transaction.
LEMMA CommitsEnd ==
  ASSUME MemoryOK, NEW w \in Owners, \/ DeleteCommits(w) \/ (w = Job /\ (JobDrained \/ UserDeleted))
  PROVE  Commits(w)
  <1>0. w \in Workers /\ worker \in [Workers -> WorkType] /\ worker[w] \in WorkType /\ NoWork.at = "idle"
    BY DEF MemoryOK, Owners, Workers, NoWork
  <1>1. ASSUME NEW at \in {"local", "cleaning"}, NEW paths, CleansUp(w, at, paths) PROVE worker'[w].at # "deleting"
    <2> DEFINE x == [NoWork EXCEPT !.at = at, !.found = worker[w].found, !.todo = paths, !.keeps = TRUE]
    <2>1. x.at = at
      BY DEF NoWork
    <2>2. worker' = [worker EXCEPT ![w] = NoWork] \/ worker' = [worker EXCEPT ![w] = x]
      BY <1>1 DEF CleansUp
    <2> HIDE DEF x
    <2> QED
      BY <1>0, <2>1, <2>2
  <1>2. CASE DeleteCommits(w)
    <2>1. PICK at \in {"local", "cleaning"} : CleansUp(w, at, worker[w].found)
      BY <1>2 DEF DeleteCommits
    <2> QED
      BY <1>1, <1>2, <2>1 DEF DeleteCommits, Commits
  <1>3. CASE w = Job /\ JobDrained
    <2> DEFINE x == worker[Job]
               y == Rec("draining", {}, {}, {}, x.todo, x.path, x.seen, x.keeps)
    <2>1. \A a, ds, f, q : [x EXCEPT !.at = a, !.scope = ds, !.found = f, !.queued = q]
                          = Rec(a, ds, f, q, x.todo, x.path, x.seen, x.keeps)
      BY <1>0, <1>3, WorkFields, Zenon
    <2>2. [x EXCEPT !.at = "draining", !.scope = {}, !.found = {}, !.queued = {}] = y
      BY <2>1, Zenon
    <2>3. worker' = [worker EXCEPT ![Job] = y] /\ y.at = "draining"
      BY <1>3, <2>2 DEF JobDrained, Rec
    <2> HIDE DEF y
    <2>4. worker'[w].at # "deleting"
      BY <1>0, <1>3, <2>3
    <2> QED
      BY <1>3, <2>4 DEF JobDrained, Commits
  <1>4. CASE w = Job /\ UserDeleted
    <2>1. CleansUp(w, "local", worker[w].todo)
      BY <1>4 DEF UserDeleted
    <2> QED
      BY <1>1, <1>4, <2>1 DEF UserDeleted, Commits
  <1> QED
    BY <1>2, <1>3, <1>4

\* The steps, by the tables that they write.
LEMMA StepKinds ==
  ASSUME MemoryOK, [Next]_vars
  PROVE  \/ \E p \in Paths : Upload(p)
         \/ Fork
         \/ \E w \in Deleters, c \in Containers, p \in Paths : DeleteFile(w, c, p)
         \/ \E w \in Owners : Commits(w)
         \/ \E w \in Workers : RemoveLocally(w) \/ Remove(w) \/ Forget(w)
         \/ JobRecords \/ Crash
         \/ UNCHANGED <<state, refs, bytes, ledger, upload, fork, owed>>
  <1>1. ASSUME NEW w \in Deleters, Delete(w)
        PROVE  \/ \E c \in Containers, p \in Paths : DeleteFile(w, c, p)
               \/ Commits(w)
               \/ UNCHANGED <<state, refs, bytes, ledger, upload, fork, owed>>
    BY <1>1, CommitsEnd DEF Delete, DeleteBegins, Begin, Owners
  <1>2. ASSUME NEW w \in Workers, CleanUp(w)
        PROVE  \/ RemoveLocally(w) \/ Remove(w) \/ Forget(w)
               \/ UNCHANGED <<state, refs, bytes, ledger, upload, fork, owed>>
    BY <1>2 DEF CleanUp, Check, Spare, RemoveFails, ForgetFails
  <1>3. CASE DeleteAccount
    <2>1. JobDrained \/ UserDeleted => Commits(Job) /\ Job \in Owners
      BY CommitsEnd DEF Owners
    <2> QED
      BY <1>3, <2>1 DEF DeleteAccount, MarkUserDeleting, JobPlans, JobDrains, JobDeletesUser, JobFails, Begin, memory
  <1>4. CASE SweepLists
    BY <1>4 DEF SweepLists
  <1>5. Deleters \subseteq Owners
    BY DEF Owners
  <1> QED
    BY <1>1, <1>2, <1>3, <1>4, <1>5 DEF Next, vars

\* What an upload does to itself: it has bytes from the first step on, and goes forward.
UploadMoves(p) ==
  \/ upload'[p] = upload[p]
  \/ /\ upload[p].at = "unused" /\ upload'[p].at = "written"
     /\ MayStore /\ worker' = worker /\ p \in bytes'
  \/ upload[p].at = "written" /\ upload'[p].at \in {"saved", "late"}
  \/ upload[p].at # "unused" /\ upload'[p].at = "done"

\* A new row is one the fork read, or of an upload that goes forward; only the row of
\* a first commit leaves what is owed alone, and nobody has seen its path.
NewRow(p) ==
  \/ p \in fork.paths /\ p \notin owed'
  \/ upload[p].at \in {"written", "late"} /\ upload'[p].at \in {"saved", "done"}
  \/ upload[p].at = "saved" /\ upload'[p].at = "done" /\ p \notin owed'

\* The tables after a step, as far as the workers are not concerned.
TablesMove ==
  /\ upload' \in [Paths -> UploadType] /\ \A p \in Paths : UploadMoves(p)
  /\ fork' \in ForkType /\ fork'.paths \subseteq fork.paths \cup Found
  /\ fork' = fork \/ fork'.at = "copying" \/ fork'.paths = {}
  /\ refs' \subseteq Containers \X Paths /\ \A r \in refs' : r \in refs \/ NewRow(r[2])
  /\ bytes' \subseteq Paths /\ ledger' \subseteq Paths /\ owed' \subseteq Paths
  /\ state' \in [Containers -> {"unused", "live", "deleted"}]
  /\ \A p \in ledger' : p \in ledger \/ \E w \in Workers : p \in Known(w)
  /\ \A p \in owed' : p \in owed \/ (Referenced(p) /\ ~Referenced(p)' /\ \E w \in Owners : Commits(w))
  /\ \A p \in bytes' : p \in bytes \/ upload[p].at = "unused"

\* The steps of an upload.
LEMMA UploadTables ==
  ASSUME TypeOK, MemoryOK, NEW p \in Paths, Upload(p)
  PROVE  TablesMove
  <1>0. /\ upload \in [Paths -> UploadType] /\ upload[p].conv \in Containers
        /\ \A q \in Paths : upload[q] \in UploadType
    BY DEF MemoryOK, UploadType, Containers
  <1>t. /\ fork \in ForkType /\ refs \subseteq Containers \X Paths /\ bytes \subseteq Paths /\ ledger \subseteq Paths
        /\ owed \subseteq Paths /\ state \in [Containers -> {"unused", "live", "deleted"}]
    BY DEF TypeOK, MemoryOK
  <1>1. ASSUME NEW at \in {"saved", "late", "done"}, SetUpload(p, at)
        PROVE  /\ upload' \in [Paths -> UploadType] /\ upload'[p].at = at
               /\ \A q \in Paths \ {p} : upload'[q] = upload[q]
    <2>1. [upload[p] EXCEPT !.at = at] \in UploadType /\ [upload[p] EXCEPT !.at = at].at = at
      BY <1>0 DEF UploadType
    <2>2. upload' = [upload EXCEPT ![p] = [upload[p] EXCEPT !.at = at]]
      BY <1>1 DEF SetUpload
    <2> QED
      BY <1>0, <2>1, <2>2
  <1>2. ASSUME NEW c \in Conversations, UploadWrites(p, c) PROVE TablesMove
    <2> DEFINE x == [at |-> "written", conv |-> c]
    <2>1. x \in UploadType /\ x.at = "written"
      BY DEF UploadType
    <2>2. /\ upload' = [upload EXCEPT ![p] = x] /\ upload[p].at = "unused" /\ MayStore /\ bytes' = bytes \cup {p}
          /\ UNCHANGED <<state, refs, ledger, fork, worker, owed>>
      BY <1>2 DEF UploadWrites
    <2> HIDE DEF x
    <2>3. /\ upload' \in [Paths -> UploadType] /\ upload'[p].at = "written"
          /\ \A q \in Paths \ {p} : upload'[q] = upload[q]
      BY <1>0, <2>1, <2>2
    <2> QED
      BY <1>t, <2>2, <2>3 DEF TablesMove, UploadMoves
  <1>3. CASE UploadSaves(p)
    <2>1. CASE /\ Live(upload[p].conv) /\ SetUpload(p, "saved")
               /\ refs' = refs \cup {<<upload[p].conv, p>>} /\ UNCHANGED bytes
      <3>1. upload[p].at = "written" /\ UNCHANGED <<state, ledger, fork, owed>>
        BY <1>3 DEF UploadSaves
      <3> QED
        BY <1>0, <1>1, <1>t, <2>1, <3>1 DEF TablesMove, UploadMoves, NewRow
    <2>2. CASE SetUpload(p, "done") /\ bytes' = bytes \ {p} /\ UNCHANGED refs
      <3>1. upload[p].at = "written" /\ UNCHANGED <<state, ledger, fork, owed>>
        BY <1>3 DEF UploadSaves
      <3> QED
        BY <1>0, <1>1, <1>t, <2>2, <3>1 DEF TablesMove, UploadMoves
    <2> QED
      BY <1>3, <2>1, <2>2 DEF UploadSaves
  <1>4. CASE UploadUncertain(p)
    <2>1. /\ upload[p].at = "written" /\ SetUpload(p, "late")
          /\ UNCHANGED <<state, refs, bytes, ledger, fork, owed>>
      BY <1>4 DEF UploadUncertain
    <2> QED
      BY <1>0, <1>1, <1>t, <2>1 DEF TablesMove, UploadMoves
  <1>5. CASE LateCommit(p)
    <2>1. /\ upload[p].at = "late" /\ SetUpload(p, "done")
          /\ UNCHANGED <<state, bytes, ledger, fork, owed>>
          /\ \A r \in refs' : r \in refs \/ r = <<upload[p].conv, p>>
      BY <1>5 DEF LateCommit
    <2> QED
      BY <1>0, <1>1, <1>t, <2>1 DEF TablesMove, UploadMoves, NewRow
  <1>6. CASE UploadAddsDocuments(p)
    <2>1. PICK cs \in SUBSET {c \in {Library, upload[p].conv} : Live(c)} : AddRows(cs \X {p})
      BY <1>6 DEF UploadAddsDocuments
    <2>2. /\ upload[p].at = "saved" /\ SetUpload(p, "done") /\ UNCHANGED <<state, bytes, ledger, fork>>
      BY <1>6 DEF UploadAddsDocuments
    <2>3. /\ refs' = refs \cup (cs \X {p}) /\ owed' \subseteq owed
          /\ \A r \in cs \X {p} : r[2] = p /\ p \notin owed'
      BY <2>1 DEF AddRows
    <2>4. cs \X {p} \subseteq Containers \X Paths
      BY <1>0 DEF Containers
    <2> QED
      BY <1>0, <1>1, <1>t, <2>2, <2>3, <2>4 DEF TablesMove, UploadMoves, NewRow
  <1> QED
    BY <1>2, <1>3, <1>4, <1>5, <1>6 DEF Upload

\* The steps of a fork.
LEMMA ForkTables ==
  ASSUME TypeOK, MemoryOK, Fork
  PROVE  TablesMove
  <1>t. /\ upload \in [Paths -> UploadType]
        /\ fork \in ForkType /\ refs \subseteq Containers \X Paths /\ bytes \subseteq Paths /\ ledger \subseteq Paths
        /\ owed \subseteq Paths /\ state \in [Containers -> {"unused", "live", "deleted"}]
    BY DEF TypeOK, MemoryOK
  <1>1. ASSUME NEW src \in Conversations, NEW dst \in Conversations, ForkReads(src, dst) PROVE TablesMove
    <2>1. PICK ps \in SUBSET PathsOf({src}) : fork' = [at |-> "copying", src |-> src, dst |-> dst, paths |-> ps]
      BY <1>1 DEF ForkReads
    <2>2. fork' \in ForkType /\ fork'.paths \subseteq Found /\ fork'.at = "copying"
      BY <2>1 DEF ForkType, Containers, PathsOf, Found, Referenced
    <2>3. state' \in [Containers -> {"unused", "live", "deleted"}] /\ UNCHANGED <<refs, bytes, ledger, upload, owed>>
      BY <1>1, <1>t DEF ForkReads, Containers
    <2> QED
      BY <1>t, <2>2, <2>3 DEF TablesMove, UploadMoves
  <1>2. CASE ForkCommits
    <2>1. /\ refs' = refs \cup ({fork.dst} \X fork.paths) /\ owed' \subseteq owed
          /\ \A r \in {fork.dst} \X fork.paths : r[2] \in fork.paths /\ r[2] \notin owed'
      BY <1>2 DEF ForkCommits, AddRows
    <2>2. {fork.dst} \X fork.paths \subseteq Containers \X Paths
      BY <1>t DEF ForkType
    <2>3. fork' \in ForkType /\ fork'.paths = {} /\ UNCHANGED <<state, bytes, ledger, upload>>
      BY <1>2, DefaultTypes DEF ForkCommits, NoFork
    <2> QED
      BY <1>t, <2>1, <2>2, <2>3 DEF TablesMove, UploadMoves, NewRow
  <1>3. CASE ForkFails
    <2>1. fork' \in ForkType /\ fork'.paths = {} /\ UNCHANGED <<refs, bytes, ledger, upload, owed>>
      BY <1>3, DefaultTypes DEF ForkFails, NoFork
    <2>2. state' \in [Containers -> {"unused", "live", "deleted"}]
      BY <1>3, <1>t DEF ForkFails
    <2> QED
      BY <1>t, <2>1, <2>2 DEF TablesMove, UploadMoves
  <1> QED
    BY <1>1, <1>2, <1>3 DEF Fork

\* Every step.
LEMMA Tables ==
  ASSUME TypeOK, MemoryOK, [Next]_vars
  PROVE  TablesMove
  <1>t. /\ upload \in [Paths -> UploadType] /\ worker \in [Workers -> WorkType]
        /\ fork \in ForkType /\ refs \subseteq Containers \X Paths /\ bytes \subseteq Paths /\ ledger \subseteq Paths
        /\ owed \subseteq Paths /\ state \in [Containers -> {"unused", "live", "deleted"}]
    BY DEF TypeOK, MemoryOK
  <1>1. ASSUME NEW w \in Deleters, NEW c \in Containers, NEW p \in Paths, DeleteFile(w, c, p) PROVE TablesMove
    BY <1>1, <1>t DEF DeleteFile, TablesMove, UploadMoves
  <1>2. ASSUME NEW w \in Owners, Commits(w) PROVE TablesMove
    <2>0. w \in Workers
      BY DEF Owners, Workers
    <2>1. /\ refs' = {r \in refs : r[1] \notin worker[w].scope} /\ ledger' = ledger \cup worker[w].queued
          /\ owed' = owed \cup {p \in PathsOf(worker[w].scope) : \A c \in Containers : <<c, p>> \notin refs'}
          /\ UNCHANGED <<bytes, upload, fork>>
      BY <1>2 DEF Commits, Commit
    <2>2. worker[w].queued \subseteq Paths /\ worker[w].scope \subseteq Containers
      BY <1>t, <2>0 DEF WorkType
    <2>3. state' \in [Containers -> {"unused", "live", "deleted"}]
      BY <1>2, <1>t DEF Commits, Commit
    <2>4. \A p \in PathsOf(worker[w].scope) : p \in Paths /\ Referenced(p)
      BY <2>2 DEF PathsOf, Referenced
    <2>5. \A p \in owed' : p \in owed \/ (Referenced(p) /\ ~Referenced(p)')
      BY <2>1, <2>4 DEF Referenced
    <2>6. ledger' \subseteq Paths /\ owed' \subseteq Paths
      BY <1>t, <2>1, <2>2, <2>4
    <2>7. \A p \in ledger' : p \in ledger \/ p \in Known(w)
      BY <2>1 DEF Known
    <2> QED
      BY <1>2, <1>t, <2>0, <2>1, <2>3, <2>5, <2>6, <2>7 DEF TablesMove, UploadMoves
  <1>3. ASSUME NEW w \in Workers, RemoveLocally(w) \/ Remove(w) \/ Forget(w) PROVE TablesMove
    <2>1. /\ bytes' \subseteq bytes /\ ledger' \subseteq ledger /\ UNCHANGED <<state, refs, upload, fork, owed>>
      BY <1>3 DEF RemoveLocally, Remove, Forget
    <2> QED
      BY <1>t, <2>1 DEF TablesMove, UploadMoves
  <1>4. CASE JobRecords
    <2>1. Job \in Workers /\ worker[Job].todo \subseteq Paths
      BY <1>t DEF Workers, WorkType
    <2>2. ledger' = ledger \cup worker[Job].todo /\ UNCHANGED <<state, refs, bytes, upload, fork, owed>>
      BY <1>4 DEF JobRecords
    <2> QED
      BY <1>t, <2>1, <2>2 DEF TablesMove, UploadMoves, Known
  <1>5. CASE Crash
    <2>1. /\ upload' = [p \in Paths |-> IF Storing(p) THEN [upload[p] EXCEPT !.at = "done"] ELSE upload[p]]
          /\ fork' = NoFork /\ UNCHANGED <<state, refs, bytes, ledger, owed>>
      BY <1>5 DEF Crash
    <2>2. \A p \in Paths : [upload[p] EXCEPT !.at = "done"] \in UploadType /\ [upload[p] EXCEPT !.at = "done"].at = "done"
      BY <1>t DEF UploadType
    <2>3. upload' \in [Paths -> UploadType] /\ \A p \in Paths : UploadMoves(p)
      BY <1>t, <2>1, <2>2 DEF UploadMoves, Storing
    <2>4. fork' \in ForkType /\ fork'.paths = {}
      BY <2>1, DefaultTypes DEF NoFork
    <2> QED
      BY <1>t, <2>1, <2>3, <2>4 DEF TablesMove
  <1>6. CASE UNCHANGED <<state, refs, bytes, ledger, upload, fork, owed>>
    BY <1>6, <1>t DEF TablesMove, UploadMoves
  <1> QED
    BY <1>1, <1>2, <1>3, <1>4, <1>5, <1>6, StepKinds, UploadTables, ForkTables

-----------------------------------------------------------------------------
(* The bytes                                                               *)

\* Init establishes the invariant of the bytes.
LEMMA BytesInit == Init => BytesInv
  <1> SUFFICES ASSUME Init PROVE BytesInv
    OBVIOUS
  <1> USE StorageAssumption DEF Init
  <1>1. TypeOK
    BY DEF TypeOK, Containers
  <1>2. MemoryOK
    BY DefaultTypes DEF MemoryOK, UploadType
  <1>3. /\ \A p \in Paths : upload[p].at = IF p = FirstPath THEN "done" ELSE "unused"
        /\ fork.paths = {} /\ \A r \in refs : r[2] = FirstPath
        /\ \A w \in Workers : worker[w].at = "idle" /\ Known(w) = {NoPath}
    BY DEF NoFork, NoWork, Known
  <1>4. bytes = {FirstPath} /\ ledger = {} /\ owed = {}
    OBVIOUS
  <1> HIDE DEF Init
  <1>5. FreshIsUnseen
    BY <1>3, <1>4 DEF FreshIsUnseen, Fresh, Referenced
  <1>6. BytesAreThere
    BY <1>3, <1>4 DEF BytesAreThere
  <1>7. CleanersAreAlone
    BY <1>3 DEF CleanersAreAlone, Cleaning
  <1> QED
    BY <1>1, <1>2, <1>5, <1>6, <1>7 DEF BytesInv

\* A worker learns of paths from the rows and the ledger.
LEMMA KnownMoves ==
  ASSUME TypeOK, MemoryOK, [Next]_vars, NEW w \in Workers
  PROVE  Known(w)' \subseteq Known(w) \cup Found \cup ledger \cup {NoPath}
  <1>1. ASSUME NEW x \in WorkType, Moves(w, x)
        PROVE  x.found \cup x.queued \cup x.todo \cup {x.path} \subseteq Known(w) \cup Found \cup ledger \cup {NoPath}
    <2>1. CASE Ends(w, x)
      BY <2>1 DEF Ends, NoWork
    <2>2. CASE Takes(w, x)
      BY <2>2 DEF Takes
    <2>3. CASE Opens(w, x)
      <3>1. x.found \subseteq Found /\ x.queued \subseteq x.found
        BY <1>1, <2>3 DEF Opens, Queued, PathsOf, Found, Referenced, WorkType
      <3> QED
        BY <2>3, <3>1 DEF Opens, Known
    <2>4. CASE Checks(w, x) \/ Decides(w, x)
      BY <2>4 DEF Checks, Decides, SamePaths, Known
    <2> QED
      BY <1>1, <2>1, <2>2, <2>3, <2>4 DEF Moves
  <1>2. ASSUME NEW v \in Workers, NEW x \in WorkType, worker' = [worker EXCEPT ![v] = x], Moves(v, x)
        PROVE  Known(w)' \subseteq Known(w) \cup Found \cup ledger \cup {NoPath}
    <2>1. CASE v = w
      <3>1. worker'[w] = x
        BY <1>2, <2>1 DEF MemoryOK
      <3> QED
        BY <1>1, <1>2, <2>1, <3>1 DEF Known
    <2>2. CASE v # w
      <3>1. worker'[w] = worker[w]
        BY <1>2, <2>2 DEF MemoryOK
      <3> QED
        BY <3>1 DEF Known
    <2> QED
      BY <2>1, <2>2
  <1>3. CASE worker' = worker
    BY <1>3 DEF Known
  <1>4. CASE worker' = [v \in Workers |-> NoWork]
    BY <1>4 DEF Known, NoWork
  <1> QED
    BY <1>2, <1>3, <1>4, WorkMoves DEF OneMoves

\* Every step preserves the types.
LEMMA TypesInv ==
  ASSUME TypeOK, MemoryOK, [Next]_vars
  PROVE  TypeOK' /\ MemoryOK'
  <1>1. worker' \in [Workers -> WorkType]
    BY WorkMoves, DefaultTypes DEF OneMoves, MemoryOK
  <1>2. user' \in {"active", "deleting", "gone"}
    <2>1. user' = user \/ MarkUserDeleting \/ UserDeleted
      <3>1. ASSUME NEW w \in Deleters, Delete(w) PROVE user' = user
        BY <3>1 DEF Delete, DeleteFile, DeleteBegins, Begin, DeleteCommits
      <3>2. ASSUME NEW w \in Workers, CleanUp(w) PROVE user' = user
        BY <3>2 DEF CleanUp, RemoveLocally, Check, Spare, Remove, RemoveFails, Forget, ForgetFails
      <3>3. ASSUME DeleteAccount PROVE user' = user \/ MarkUserDeleting \/ UserDeleted
        BY <3>3 DEF DeleteAccount, JobPlans, JobRecords, JobDrains, JobDrained, JobDeletesUser, JobFails, Begin
      <3>4. ASSUME NEW p \in Paths, Upload(p) PROVE user' = user
        BY <3>4 DEF Upload, UploadWrites, UploadSaves, UploadUncertain, LateCommit, UploadAddsDocuments
      <3>5. ASSUME Fork \/ SweepLists \/ Crash PROVE user' = user
        BY <3>5 DEF Fork, ForkReads, ForkCommits, ForkFails, SweepLists, Crash
      <3> QED
        BY <3>1, <3>2, <3>3, <3>4, <3>5 DEF Next, vars
    <2> QED
      BY <2>1 DEF TypeOK, MarkUserDeleting, UserDeleted
  <1> QED
    BY <1>1, <1>2, Tables DEF TablesMove, TypeOK, MemoryOK

\* Every step leaves what has no row yet unseen.
LEMMA FreshInv ==
  ASSUME BytesInv, [Next]_vars
  PROVE  FreshIsUnseen'
  <1>0. TypeOK /\ MemoryOK /\ FreshIsUnseen
    BY DEF BytesInv
  <1>1. TablesMove
    BY <1>0, Tables
  <1>2. ASSUME NEW p \in Paths, Fresh(p)'
        PROVE  /\ ~Referenced(p)' /\ p \notin ledger' /\ p \notin owed' /\ p \notin fork'.paths
               /\ \A w \in Workers : p \notin Known(w)'
    <2>1. UploadMoves(p) /\ upload'[p].at \in {"unused", "written", "late"}
      BY <1>1, <1>2 DEF TablesMove, Fresh
    <2>2. Fresh(p)
      BY <2>1 DEF UploadMoves, Fresh
    <2>3. /\ ~Referenced(p) /\ p \notin ledger /\ p \notin owed /\ p \notin fork.paths /\ p # NoPath
          /\ \A w \in Workers : p \notin Known(w)
      BY <1>0, <2>2, StorageAssumption DEF FreshIsUnseen
    <2>4. ~NewRow(p)
      BY <2>1, <2>2, <2>3 DEF NewRow, Fresh
    <2>5. \A r \in refs' : r[2] # p
      <3>1. \A r \in refs : r[2] # p
        BY <1>0, <2>3 DEF TypeOK, Referenced
      <3> QED
        BY <1>1, <2>4, <3>1 DEF TablesMove
    <2>6. ~Referenced(p)'
      BY <2>5 DEF Referenced
    <2>7. p \notin ledger' /\ p \notin owed' /\ p \notin fork'.paths
      BY <1>1, <2>3 DEF TablesMove, Found
    <2>8. \A w \in Workers : p \notin Known(w)'
      BY <1>0, <2>3, KnownMoves DEF Found
    <2> QED
      BY <2>6, <2>7, <2>8
  <1> QED
    BY <1>2 DEF FreshIsUnseen, Fresh

\* With one connection bytes are removed only if nothing needs them afterwards.
LEMMA Removals ==
  ASSUME BytesInv, [Next]_vars, ~Postgres, NEW p \in Paths, p \in bytes, p \notin bytes'
  PROVE  /\ ~Referenced(p) /\ ~Referenced(p)' /\ p \notin fork'.paths
         /\ upload'[p].at \in {"unused", "done"}
  <1>0. TypeOK /\ MemoryOK /\ FreshIsUnseen /\ BytesAreThere /\ CleanersAreAlone
    BY DEF BytesInv
  <1>1. ASSUME NEW q \in Paths, Upload(q)
        PROVE  q = p /\ upload[p].at = "written" /\ SetUpload(p, "done") /\ UNCHANGED <<refs, fork>>
    BY <1>1 DEF Upload, UploadWrites, UploadSaves, UploadUncertain, LateCommit, UploadAddsDocuments
  <1>2. CASE \E q \in Paths : Upload(q)
    <2>1. upload[p].at = "written" /\ SetUpload(p, "done") /\ UNCHANGED <<refs, fork>>
      BY <1>1, <1>2
    <2>2. upload'[p].at = "done"
      BY <1>0, <2>1 DEF SetUpload, MemoryOK, UploadType
    <2> QED
      BY <1>0, <2>1, <2>2 DEF FreshIsUnseen, Fresh, Referenced
  <1>3. ASSUME NEW w \in Workers, RemoveLocally(w)
        PROVE  /\ ~Referenced(p) /\ p \notin fork.paths /\ upload[p].at \in {"unused", "done"}
               /\ UNCHANGED <<refs, fork, upload>>
    <2>1. PICK gone \in SUBSET {q \in worker[w].found : ~Referenced(q)} :
            (gone # {} => MayClean) /\ bytes' = bytes \ gone
      BY <1>3 DEF RemoveLocally
    <2>2. p \in worker[w].found /\ ~Referenced(p) /\ MayClean
      BY <2>1
    <2>3. ~Fresh(p)
      BY <1>0, <2>2 DEF FreshIsUnseen, Known
    <2>4. fork.paths = {}
      <3>1. fork.at = "idle"
        BY <1>3 DEF RemoveLocally, Available
      <3> QED
        BY <1>0, <3>1 DEF BytesAreThere
    <2> QED
      BY <1>0, <1>3, <2>2, <2>3, <2>4 DEF RemoveLocally, MayClean, Storing, Fresh, MemoryOK, UploadType
  <1>4. ASSUME NEW w \in Workers, Remove(w)
        PROVE  /\ ~Referenced(p) /\ p \notin fork.paths /\ upload[p].at \in {"unused", "done"}
               /\ UNCHANGED <<refs, fork, upload>>
    <2>1. p = worker[w].path /\ Cleaning(w) /\ ~worker[w].seen /\ UNCHANGED <<refs, fork, upload>>
      BY <1>4 DEF Remove
    <2>2. ~Fresh(p)
      BY <1>0, <2>1 DEF FreshIsUnseen, Known
    <2> QED
      BY <1>0, <2>1, <2>2 DEF CleanersAreAlone, Storing, Fresh, MemoryOK, UploadType
  <1>5. CASE \E w \in Workers : RemoveLocally(w) \/ Remove(w)
    BY <1>3, <1>4, <1>5 DEF Referenced
  <1>6. (\E q \in Paths : Upload(q)) \/ \E w \in Workers : RemoveLocally(w) \/ Remove(w)
    BY <1>0, StepKinds DEF Fork, ForkReads, ForkCommits, ForkFails, DeleteFile, Commits, Forget, JobRecords, Crash
  <1> QED
    BY <1>2, <1>5, <1>6

\* Every step leaves bytes where they are needed.
LEMMA ThereInv ==
  ASSUME BytesInv, [Next]_vars, ~Postgres
  PROVE  BytesAreThere'
  <1>0. TypeOK /\ MemoryOK /\ FreshIsUnseen /\ BytesAreThere
    BY DEF BytesInv
  <1>1. TablesMove
    BY <1>0, Tables
  <1>2. ASSUME NEW p \in Paths, Referenced(p)' \/ p \in fork'.paths \/ upload'[p].at \in {"written", "saved", "late"}
        PROVE  p \in bytes'
    <2>1. p \in bytes \/ p \in bytes'
      <3>1. CASE Referenced(p)'
        <4>1. PICK r \in refs' : r[2] = p
          BY <1>1, <3>1 DEF Referenced
        <4>2. r \in refs \/ NewRow(p)
          BY <1>1, <4>1 DEF TablesMove
        <4>3. NewRow(p) => p \in bytes
          BY <1>0 DEF NewRow, BytesAreThere
        <4> QED
          BY <1>0, <4>1, <4>2, <4>3 DEF BytesAreThere
      <3>2. CASE p \in fork'.paths
        BY <1>0, <1>1, <3>2 DEF TablesMove, Found, Referenced, BytesAreThere
      <3>3. CASE upload'[p].at \in {"written", "saved", "late"}
        <4>1. UploadMoves(p)
          BY <1>1 DEF TablesMove
        <4> QED
          BY <1>0, <3>3, <4>1 DEF UploadMoves, BytesAreThere
      <3> QED
        BY <1>2, <3>1, <3>2, <3>3
    <2>2. CASE p \in bytes /\ p \notin bytes'
      <3>1. ~Referenced(p)' /\ p \notin fork'.paths /\ upload'[p].at \in {"unused", "done"}
        BY <2>2, Removals
      <3> QED
        BY <1>2, <3>1
    <2> QED
      BY <2>1, <2>2
  <1>3. \A r \in refs' : r[2] \in Paths /\ Referenced(r[2])'
    BY <1>1 DEF TablesMove, Referenced
  <1>4. fork'.paths \subseteq Paths /\ (fork'.at = "idle" => fork'.paths = {})
    BY <1>0, <1>1 DEF TablesMove, ForkType, BytesAreThere
  <1> QED
    BY <1>2, <1>3, <1>4 DEF BytesAreThere

\* Every step leaves cleaners to themselves.
LEMMA AloneInv ==
  ASSUME BytesInv, [Next]_vars, ~Postgres
  PROVE  CleanersAreAlone'
  <1>0. TypeOK /\ MemoryOK /\ FreshIsUnseen /\ CleanersAreAlone
    BY DEF BytesInv
  <1>1. TablesMove
    BY <1>0, Tables
  <1>2. ASSUME NEW w \in Workers, Cleaning(w), worker'[w] = worker[w]
        PROVE  /\ \A p \in Paths : ~Storing(p)'
               /\ ~worker'[w].seen => (~Referenced(worker[w].path) /\ worker[w].path \notin fork.paths)'
    <2>1. \A p \in Paths : ~Storing(p)
      BY <1>0, <1>2 DEF CleanersAreAlone
    <2>2. ASSUME NEW p \in Paths, Storing(p)' PROVE FALSE
      <3>1. UploadMoves(p) /\ upload[p].at \notin {"written", "saved"} /\ upload'[p].at \in {"written", "saved"}
        BY <1>1, <2>1, <2>2 DEF TablesMove, Storing
      <3>2. MayStore
        BY <3>1 DEF UploadMoves
      <3> QED
        BY <1>2, <3>2 DEF MayStore
    <2>3. ASSUME ~worker[w].seen, NEW p, p = worker[w].path
          PROVE  (\A r \in refs' : r[2] # p) /\ p \notin fork'.paths
      <3>1. ~Referenced(p) /\ p \notin fork.paths
        BY <1>0, <1>2, <2>3 DEF CleanersAreAlone
      <3>2. p \in Paths => ~Fresh(p) /\ ~Storing(p)
        BY <1>0, <2>1, <2>3 DEF FreshIsUnseen, Known
      <3>3. p \in Paths => ~NewRow(p)
        BY <3>1, <3>2 DEF NewRow, Fresh, Storing
      <3>4. ASSUME NEW r \in refs' PROVE r[2] # p
        <4>1. r \in Containers \X Paths /\ (r \in refs \/ NewRow(r[2]))
          BY <1>1 DEF TablesMove
        <4>2. r \in refs => Referenced(r[2])
          BY <4>1 DEF Referenced
        <4> QED
          BY <3>1, <3>3, <4>1, <4>2
      <3> QED
        BY <1>1, <3>1, <3>4 DEF TablesMove, Found
    <2>4. ASSUME ~worker[w].seen PROVE ~Referenced(worker[w].path)'
      <3>1. \A r \in refs' : r[2] # worker'[w].path
        BY <1>2, <2>3, <2>4
      <3> QED
        BY <1>2, <3>1 DEF Referenced
    <2>5. worker'[w].seen = worker[w].seen /\ worker'[w].path = worker[w].path
      BY <1>2
    <2> QED
      BY <2>2, <2>3, <2>4, <2>5
  <1>3. ASSUME NEW w \in Workers, NEW x \in WorkType, Checks(w, x), worker'[w] = x
        PROVE  /\ \A p \in Paths : ~Storing(p)'
               /\ ~worker'[w].seen => (~Referenced(worker[w].path) /\ worker[w].path \notin fork.paths)'
    <2>1. MayClean /\ Available /\ x.seen = Referenced(x.path) /\ UNCHANGED <<refs, fork, upload>>
      BY <1>3 DEF Checks
    <2>2. fork.paths = {}
      BY <2>1 DEF Available, BytesInv, BytesAreThere
    <2>3. \A p \in Paths : ~Storing(p)'
      BY <2>1 DEF MayClean, Storing
    <2>4. worker'[w].path = x.path /\ worker'[w].seen = Referenced(x.path) /\ fork'.paths = {} /\ refs' = refs
      BY <1>3, <2>1, <2>2
    <2> QED
      BY <2>3, <2>4 DEF Referenced
  <1>4. ASSUME NEW w \in Workers, Cleaning(w)'
        PROVE  \/ Cleaning(w) /\ worker'[w] = worker[w]
               \/ \E x \in WorkType : Checks(w, x) /\ worker'[w] = x
    <2>1. CASE worker'[w] = worker[w]
      BY <1>4, <2>1 DEF Cleaning
    <2>2. ASSUME NEW v \in Workers, NEW x \in WorkType, worker' = [worker EXCEPT ![v] = x], Moves(v, x),
                 worker'[w] # worker[w]
          PROVE  \E y \in WorkType : Checks(w, y) /\ worker'[w] = y
      <3>1. v = w /\ worker'[w] = x
        BY <1>0, <2>2 DEF MemoryOK
      <3>2. x.at = "checked"
        BY <1>4, <3>1 DEF Cleaning
      <3> QED
        BY <2>2, <3>1, <3>2 DEF Moves, Ends, Takes, Opens, Decides, NoWork
    <2>3. CASE worker' = [v \in Workers |-> NoWork]
      BY <1>4, <2>3 DEF Cleaning, NoWork
    <2> QED
      BY <1>0, <2>1, <2>2, <2>3, WorkMoves DEF OneMoves
  <1> QED
    BY <1>2, <1>3, <1>4 DEF CleanersAreAlone

\* Every step preserves the invariant of the bytes.
LEMMA BytesStep == ASSUME ~Postgres PROVE BytesInv /\ [Next]_vars => BytesInv'
  <1> SUFFICES ASSUME BytesInv, [Next]_vars PROVE BytesInv'
    OBVIOUS
  <1>1. TypeOK' /\ MemoryOK'
    BY TypesInv DEF BytesInv
  <1>2. FreshIsUnseen' /\ BytesAreThere' /\ CleanersAreAlone'
    BY FreshInv, ThereInv, AloneInv
  <1> QED
    BY <1>1, <1>2 DEF BytesInv

\* With the one connection of SQLite the invariant of the bytes holds of every
\* reachable state.
THEOREM BytesInvariant == ASSUME ~Postgres PROVE Spec => []BytesInv
  BY BytesInit, BytesStep, PTL DEF Spec

\* No row points at bytes that are gone, for any number of deletions, uploads and
\* forks: the count of rows and the removal happen under the lock of the storage, and
\* uploads and forks commit while the one connection keeps deletions away
\* (cleanupOneStoragePath, ForkMessagePathWithResources).
THEOREM BytesExist == ASSUME ~Postgres PROVE Spec => []ReferencedBytesExist
  <1>1. BytesInv => ReferencedBytesExist
    BY DEF BytesInv, BytesAreThere, ReferencedBytesExist
  <1> QED
    BY <1>1, BytesInvariant, PTL

-----------------------------------------------------------------------------
(* The ledger                                                              *)

\* A deletion may begin only while there is none, if one is the bound.
LEMMA NoneInProgress ==
  ASSUME AtOnce = 1, MayDelete, NEW w \in Owners
  PROVE  worker[w].at = "idle"
  <1> DEFINE S == {v \in Deleters \cup {Job} : worker[v].at # "idle"}
  <1>1. IsFiniteSet(Deleters \cup {Job})
    BY StorageAssumption, FS_Singleton, FS_Union
  <1>2. IsFiniteSet(S)
    BY <1>1, FS_Subset
  <1>3. Cardinality(S) < 1 /\ Cardinality(S) \in Nat
    BY <1>2, FS_CardinalityType DEF MayDelete
  <1>4. Cardinality(S) = 0
    BY <1>3
  <1>5. S = {}
    BY <1>2, <1>4, FS_EmptySet
  <1> QED
    BY <1>5 DEF Owners

\* Init establishes the invariant of the ledger.
LEMMA LedgerInit == Init => LedgerInv
  <1> SUFFICES ASSUME Init PROVE LedgerInv
    OBVIOUS
  <1>1. /\ \A w \in Workers : worker[w].at = "idle"
        /\ owed = {} /\ Owners \subseteq Workers
    BY DEF Init, NoWork, Owners, Workers
  <1>2. SoleDeletion /\ OwedHaveNoRow /\ OneTransaction /\ ForgetsInTime
    BY <1>1 DEF SoleDeletion, OwedHaveNoRow, OneTransaction, ForgetsInTime
  <1> QED
    BY <1>1, <1>2, BytesInit DEF LedgerInv

\* What became of the worker w.
Became(w) ==
  \/ worker'[w] = worker[w]
  \/ /\ \A v \in Workers \ {w} : worker'[v] = worker[v]
     /\ Takes(w, worker'[w]) \/ Opens(w, worker'[w]) \/ Checks(w, worker'[w]) \/ Decides(w, worker'[w])
  \/ worker'[w].at = "idle"

\* Every step, from the worker's point of view.
LEMMA BecomesMoved ==
  ASSUME TypeOK, MemoryOK, [Next]_vars, NEW w \in Workers
  PROVE  Became(w)
  <1>1. ASSUME NEW v \in Workers, NEW x \in WorkType, worker' = [worker EXCEPT ![v] = x], Moves(v, x)
        PROVE  Became(w)
    <2>1. CASE v = w
      <3>1. worker'[w] = x /\ \A u \in Workers \ {w} : worker'[u] = worker[u]
        BY <1>1, <2>1 DEF MemoryOK
      <3>2. Ends(w, x) => x.at = "idle"
        BY DEF Ends, NoWork
      <3> QED
        BY <1>1, <2>1, <3>1, <3>2 DEF Moves, Became
    <2>2. CASE v # w
      <3>1. worker'[w] = worker[w]
        BY <1>1, <2>2 DEF MemoryOK
      <3> QED
        BY <3>1 DEF Became
    <2> QED
      BY <2>1, <2>2
  <1>2. CASE worker' = [v \in Workers |-> NoWork]
    BY <1>2 DEF Became, NoWork
  <1> QED
    BY <1>1, <1>2, WorkMoves DEF OneMoves, Became

\* Every step leaves one deletion in progress.
LEMMA SoleInv ==
  ASSUME LedgerInv, [Next]_vars, AtOnce = 1
  PROVE  SoleDeletion'
  <1>0. TypeOK /\ MemoryOK /\ SoleDeletion /\ Owners \subseteq Workers
    BY DEF LedgerInv, BytesInv, Owners, Workers
  <1>1. ASSUME NEW w \in Owners, worker'[w].at # "idle"
        PROVE  \/ worker[w].at # "idle"
               \/ (\A v \in Owners : worker[v].at = "idle") /\ \A v \in Workers \ {w} : worker'[v] = worker[v]
    <2>1. Became(w)
      BY <1>0, BecomesMoved
    <2>2. CASE worker'[w] = worker[w]
      BY <1>1, <2>2
    <2>3. CASE Takes(w, worker'[w]) \/ Opens(w, worker'[w]) \/ Checks(w, worker'[w]) \/ Decides(w, worker'[w])
      <3>1. worker[w].at # "idle" \/ MayDelete
        BY <2>3 DEF Takes, Opens, Checks, Decides
      <3>2. MayDelete => \A v \in Owners : worker[v].at = "idle"
        BY NoneInProgress
      <3>3. worker'[w] = worker[w] \/ \A v \in Workers \ {w} : worker'[v] = worker[v]
        BY <1>1, <2>1 DEF Became
      <3> QED
        BY <1>1, <3>1, <3>2, <3>3
    <2> QED
      BY <1>1, <2>1, <2>2, <2>3 DEF Became
  <1> QED
    BY <1>0, <1>1 DEF SoleDeletion

\* Every step leaves without a row what is owed.
LEMMA OwedInv ==
  ASSUME LedgerInv, [Next]_vars
  PROVE  OwedHaveNoRow'
  <1>0. TypeOK /\ MemoryOK /\ FreshIsUnseen /\ OwedHaveNoRow
    BY DEF LedgerInv, BytesInv
  <1>1. TablesMove
    BY <1>0, Tables
  <1>2. ASSUME NEW p \in owed', p \in owed, NEW r \in refs', r[2] = p PROVE FALSE
    <2>1. r \in Containers \X Paths /\ (r \in refs \/ NewRow(p)) /\ p \in Paths
      BY <1>1, <1>2 DEF TablesMove
    <2>2. r \notin refs
      <3>1. ~Referenced(p)
        BY <1>0, <1>2 DEF OwedHaveNoRow
      <3> QED
        BY <1>2, <2>1, <3>1 DEF Referenced
    <2>3. ~Fresh(p)
      BY <1>0, <1>2, <2>1 DEF FreshIsUnseen
    <2> QED
      BY <1>2, <2>1, <2>2, <2>3 DEF NewRow, Fresh
  <1>3. ASSUME NEW p \in owed' PROVE ~Referenced(p)'
    <2>1. CASE p \in owed
      <3>1. \A r \in refs' : r[2] # p
        BY <1>2, <1>3, <2>1
      <3> QED
        BY <3>1 DEF Referenced
    <2>2. CASE p \notin owed
      BY <1>1, <1>3, <2>2 DEF TablesMove
    <2> QED
      BY <2>1, <2>2
  <1> QED
    BY <1>3 DEF OwedHaveNoRow, Referenced

\* While a transaction is open and does not end, the tables it has read stay as they are.
LEMMA Quiet ==
  ASSUME LedgerInv, [Next]_vars, ~Postgres, NEW w \in Workers, worker[w].at = "deleting",
         worker'[w].at = "deleting"
  PROVE  UNCHANGED <<refs, ledger, fork>>
  <1>0. TypeOK /\ MemoryOK /\ OneTransaction /\ Sweeper \notin Owners
    BY StorageAssumption DEF LedgerInv, BytesInv, Owners
  <1>1. ~Available /\ fork.at = "idle"
    BY <1>0 DEF Available, OneTransaction
  <1>2. ASSUME NEW v \in Owners, Commits(v) PROVE FALSE
    <2>1. v = w
      BY <1>0, <1>2 DEF Commits, Commit, OneTransaction, Owners, Workers
    <2> QED
      BY <1>2, <2>1 DEF Commits
  <1>3. ASSUME NEW p \in Paths, Upload(p) PROVE UNCHANGED <<refs, ledger, fork>>
    BY <1>1, <1>3 DEF Upload, UploadWrites, UploadSaves, UploadUncertain, LateCommit, UploadAddsDocuments
  <1>4. ~Fork
    BY <1>1 DEF Fork, ForkReads, ForkCommits, ForkFails
  <1>6. ~Crash
    BY DEF Crash, NoWork
  <1>5. ASSUME NEW v \in Workers, RemoveLocally(v) \/ Remove(v) \/ Forget(v) PROVE UNCHANGED <<refs, ledger, fork>>
    BY <1>1, <1>5 DEF RemoveLocally, Remove, Forget
  <1> QED
    BY <1>0, <1>1, <1>2, <1>3, <1>4, <1>5, <1>6, StepKinds DEF DeleteFile, JobRecords

\* Every step leaves open transactions alone.
LEMMA TransactionInv ==
  ASSUME LedgerInv, [Next]_vars, ~Postgres
  PROVE  OneTransaction'
  <1>0. TypeOK /\ MemoryOK /\ OneTransaction
    BY DEF LedgerInv, BytesInv
  <1>1. ASSUME NEW w \in Workers, worker'[w].at = "deleting"
        PROVE  \/ worker[w].at = "deleting" /\ worker'[w] = worker[w]
               \/ Opens(w, worker'[w]) /\ \A v \in Workers \ {w} : worker'[v] = worker[v]
    <2>1. Became(w)
      BY <1>0, BecomesMoved
    <2> QED
      BY <1>1, <2>1 DEF Became, Takes, Checks, Decides
  <1>2. ASSUME NEW w \in Workers, worker'[w].at = "deleting"
        PROVE  /\ fork'.at = "idle"
               /\ PathsOf(worker[w].scope)' \subseteq worker'[w].found
               /\ worker'[w].found \subseteq ledger' \cup worker'[w].queued
               /\ \A v \in Workers \ {w} : worker[v].at # "deleting" \/ worker'[v].at # "deleting"
    <2>1. CASE worker[w].at = "deleting" /\ worker'[w] = worker[w]
      <3>1. UNCHANGED <<refs, ledger, fork>>
        BY <1>2, <2>1, Quiet
      <3> QED
        BY <1>0, <2>1, <3>1 DEF OneTransaction, PathsOf
    <2>2. CASE Opens(w, worker'[w]) /\ \A v \in Workers \ {w} : worker'[v] = worker[v]
      <3>1. fork.at = "idle" /\ \A v \in Workers : worker[v].at # "deleting"
        BY <2>2 DEF Opens, Available
      <3>2. /\ UNCHANGED <<refs, ledger, fork>> /\ worker'[w].found = PathsOf(worker'[w].scope)
            /\ worker'[w].queued = Queued(worker'[w].found)
        BY <2>2 DEF Opens
      <3> QED
        BY <3>1, <3>2 DEF PathsOf, Queued
    <2> QED
      BY <1>1, <1>2, <2>1, <2>2
  <1>3. ASSUME NEW w \in Workers, NEW v \in Workers, worker'[w].at = "deleting", worker'[v].at = "deleting"
        PROVE  v = w
    BY <1>0, <1>1, <1>3 DEF OneTransaction, Opens, Available
  <1> QED
    BY <1>2, <1>3 DEF OneTransaction

\* Nothing becomes owed except by an owner's commit, and no bytes come back.
LEMMA OwedMoves ==
  ASSUME LedgerInv, [Next]_vars, NEW p \in Paths
  PROVE  /\ p \in owed' /\ p \notin owed => \E v \in Owners : Commits(v)
         /\ p \in bytes' /\ p \notin bytes => Fresh(p) /\ p \notin owed /\ \A w \in Workers : p \notin Known(w)
  <1>1. TypeOK /\ MemoryOK /\ FreshIsUnseen
    BY DEF LedgerInv, BytesInv
  <1>2. TablesMove
    BY <1>1, Tables
  <1> QED
    BY <1>1, <1>2 DEF TablesMove, FreshIsUnseen, Fresh

\* Every step leaves the ledger with what is still to be looked at.
LEMMA ForgetsInv ==
  ASSUME LedgerInv, [Next]_vars
  PROVE  ForgetsInTime'
  <1>0. /\ TypeOK /\ MemoryOK /\ OwedHaveNoRow /\ ForgetsInTime /\ SoleDeletion
        /\ Owners \subseteq Workers /\ Sweeper \in Workers /\ Workers = Owners \cup {Sweeper}
    BY DEF LedgerInv, BytesInv, Owners, Workers
  <1>1. ASSUME NEW w \in Workers PROVE Became(w)
    BY <1>0, BecomesMoved
  \* While one deletion is at its paths, no other makes one owed.
  <1>2. ASSUME NEW w \in Workers, w # Sweeper, worker[w].at \in {"checked", "forget"}, NEW p \in Paths, p \notin owed
        PROVE  p \notin owed'
    <2>1. ASSUME NEW v \in Owners, Commits(v) PROVE FALSE
      <3>1. worker[v].at = "deleting" /\ w \in Owners
        BY <1>0, <1>2, <2>1 DEF Commits, Commit
      <3> QED
        BY <1>0, <1>2, <3>1 DEF SoleDeletion
    <2> QED
      BY <1>2, <2>1, OwedMoves
  <1>3. \A w \in Workers : worker[w].path \in Paths \cup {NoPath} /\ worker[w].path \in Known(w)
    BY <1>0 DEF MemoryOK, WorkType, Known
  <1>n. NoPath \notin owed /\ NoPath \notin owed' /\ NoPath \notin bytes'
    BY <1>0, StorageAssumption, Tables DEF TypeOK, TablesMove
  <1>4. ASSUME NEW w \in Workers, worker'[w].at = "checked", worker'[w].seen, w # Sweeper
        PROVE  worker'[w].path \notin owed'
    <2>1. CASE worker'[w] = worker[w]
      <3>1. worker[w].path \notin owed
        BY <1>0, <1>4, <2>1 DEF ForgetsInTime
      <3> QED
        BY <1>2, <1>3, <1>4, <1>n, <2>1, <3>1
    <2>2. CASE Checks(w, worker'[w])
      <3>1. Referenced(worker'[w].path) /\ owed' = owed
        BY <1>4, <2>2 DEF Checks
      <3> QED
        BY <1>0, <3>1 DEF OwedHaveNoRow
    <2> QED
      BY <1>1, <1>4, <2>1, <2>2 DEF Became, Takes, Opens, Decides
  <1>5. ASSUME NEW w \in Workers, worker'[w].at = "forget"
        PROVE  worker'[w].path \notin bytes' \/ (w # Sweeper /\ worker'[w].path \notin owed')
    <2>1. CASE worker'[w] = worker[w]
      <3>1. worker[w].path \notin bytes \/ (w # Sweeper /\ worker[w].path \notin owed)
        BY <1>0, <1>5, <2>1 DEF ForgetsInTime
      <3>2. worker[w].path \notin bytes => worker[w].path \notin bytes'
        BY <1>3, <1>n, OwedMoves
      <3> QED
        BY <1>2, <1>3, <1>5, <1>n, <2>1, <3>1, <3>2
    <2>2. CASE Decides(w, worker'[w])
      <3>1. /\ worker[w].at = "checked" /\ worker'[w].path = worker[w].path /\ owed' = owed
            /\ (worker[w].seen /\ w # Sweeper) \/ worker'[w].path \notin bytes'
        BY <2>2 DEF Decides
      <3> QED
        BY <1>0, <3>1 DEF ForgetsInTime
    <2> QED
      BY <1>1, <1>5, <2>1, <2>2 DEF Became, Takes, Opens, Checks
  <1> QED
    BY <1>4, <1>5 DEF ForgetsInTime

\* Every step leaves what is owed in the ledger.
LEMMA RememberInv ==
  ASSUME LedgerInv, [Next]_vars
  PROVE  owed' \cap bytes' \subseteq ledger'
  <1>0. TypeOK /\ MemoryOK /\ OneTransaction /\ ForgetsInTime /\ owed \cap bytes \subseteq ledger
    BY DEF LedgerInv, BytesInv
  <1>1. owed' \subseteq Paths /\ Owners \subseteq Workers
    BY <1>0, Tables DEF TablesMove, Owners, Workers
  <1>2. ASSUME NEW v \in Owners, Commits(v) PROVE owed' \cap bytes' \subseteq ledger'
    <2>1. worker[v].at = "deleting" /\ ledger' = ledger \cup worker[v].queued /\ bytes' = bytes
      BY <1>2 DEF Commits, Commit
    <2>2. PathsOf(worker[v].scope) \subseteq worker[v].found /\ worker[v].found \subseteq ledger \cup worker[v].queued
      BY <1>0, <1>1, <2>1 DEF OneTransaction
    <2>3. owed' \subseteq owed \cup PathsOf(worker[v].scope)
      BY <1>2 DEF Commits, Commit
    <2> QED
      BY <1>0, <2>1, <2>2, <2>3
  <1>3. CASE ~\E v \in Owners : Commits(v)
    <2>1. owed' \cap bytes' \subseteq owed \cap bytes
      BY <1>1, <1>3, OwedMoves
    <2>2. ASSUME NEW p \in owed' \cap bytes', p \in ledger, p \notin ledger' PROVE FALSE
      <3>1. PICK w \in Workers : Forget(w)
        <4>1. ASSUME NEW q \in Paths, Upload(q) PROVE ledger' = ledger
          BY <4>1 DEF Upload, UploadWrites, UploadSaves, UploadUncertain, LateCommit, UploadAddsDocuments
        <4>2. Fork \/ Crash => ledger' = ledger
          BY DEF Fork, ForkReads, ForkCommits, ForkFails, Crash
        <4>3. ASSUME NEW w \in Workers, RemoveLocally(w) \/ Remove(w) PROVE ledger' = ledger
          BY <4>3 DEF RemoveLocally, Remove
        <4>4. JobRecords => ledger \subseteq ledger'
          BY DEF JobRecords
        <4> QED
          BY <1>0, <1>3, <2>2, <4>1, <4>2, <4>3, <4>4, StepKinds DEF DeleteFile
      <3>2. /\ worker[w].at = "forget" /\ ledger' = ledger \ {worker[w].path} /\ bytes' = bytes /\ owed' = owed
        BY <3>1 DEF Forget
      <3>3. p = worker[w].path
        BY <2>2, <3>2
      <3> QED
        BY <1>0, <2>2, <3>2, <3>3 DEF ForgetsInTime
    <2> QED
      BY <1>0, <2>1, <2>2
  <1> QED
    BY <1>2, <1>3

\* Every step preserves the invariant of the ledger.
LEMMA LedgerStep == ASSUME ~Postgres, AtOnce = 1 PROVE LedgerInv /\ [Next]_vars => LedgerInv'
  <1> SUFFICES ASSUME LedgerInv, [Next]_vars PROVE LedgerInv'
    OBVIOUS
  <1>1. BytesInv'
    BY BytesStep DEF LedgerInv
  <1>2. SoleDeletion' /\ OwedHaveNoRow' /\ OneTransaction' /\ ForgetsInTime' /\ (owed \cap bytes \subseteq ledger)'
    BY SoleInv, OwedInv, TransactionInv, ForgetsInv, RememberInv
  <1> QED
    BY <1>1, <1>2 DEF LedgerInv

\* DeletionsAreRemembered: with one connection and one deletion at a time, bytes whose
\* last row a deletion has removed stay in the ledger until they are gone.
THEOREM DeletionsRemembered == ASSUME ~Postgres, AtOnce = 1 PROVE Spec => []DeletionsAreRemembered
  <1>1. Spec => []LedgerInv
    BY LedgerInit, LedgerStep, PTL DEF Spec
  <1>2. LedgerInv => DeletionsAreRemembered
    BY DEF LedgerInv, DeletionsAreRemembered
  <1> QED
    BY <1>1, <1>2, PTL
=============================================================================
