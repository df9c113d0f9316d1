------------------------- MODULE ContextCompaction -------------------------
(***************************************************************************)
(* Context compaction: a summary block stands for a range of messages, and *)
(* the prompt holds the blocks of the active path and the messages after   *)
(* their frontier. A worker reads the path, asks a model for a summary,    *)
(* and stores it much later; in between messages are added, finished,      *)
(* edited and deleted, and the active branch changes.                      *)
(*                                                                         *)
(* The content of a message is its version, 0 while its answer has not     *)
(* been written. What a block says is the versions it was made from. Token *)
(* counts and budgets decide only how far a cut goes: any cut the rules    *)
(* allow may be taken.                                                     *)
(***************************************************************************)
EXTENDS ConversationTree, SequencesExt

CONSTANTS
  Workers,      \* the compaction jobs that may be under way
  MaxMessages,  \* bound on the rows ever inserted
  MaxVersion,   \* bound on the edits of a message
  Edited,       \* the messages whose edits are explored
  Interrupted   \* the answers whose stop and crash are explored

ASSUME CompactionAssumption ==
  /\ MaxMessages \in Nat /\ MaxVersion \in Nat \ {0}
  /\ NoMessage \notin 1..MaxMessages
  /\ Edited \subseteq 1..MaxMessages /\ Interrupted \subseteq 1..MaxMessages

VARIABLES
  rows,       \* the messages; their ids are numbered by age
  activeLeaf, \* conversations.active_leaf_id
  blocks,     \* conversations.summary_blocks
  job,        \* what each worker has read and asked for
  next        \* the next id

compactionVars == <<rows, activeLeaf, blocks, job, next>>

NoJob == [at |-> "idle"]

CompactionInit ==
  /\ rows = <<>> /\ activeLeaf = NoMessage /\ blocks = {} /\ next = 1
  /\ job = [w \in Workers |-> NoJob]

-----------------------------------------------------------------------------
(* The prompt: the blocks of a path and their frontier.                    *)

\* The messages from the root to m, by their age.
History(ms, m) ==
  LET path == Path(ms, m)
  IN  [i \in 1..Cardinality(path) |-> CHOOSE x \in path : Cardinality({y \in path : y <= x}) = i]

OnPath(b, h) == b.anchor \in ToSet(h) /\ b.from \in ToSet(h) /\ b.from <= b.anchor

IndexOf(h, m) == CHOOSE i \in 1..Len(h) : h[i] = m

\* One block lies inside the range of another.
Contained(b, c) == c # b /\ c.from <= b.from /\ b.anchor <= c.anchor

\* How many messages of the path the blocks cover without a gap.
SummarizedFrontier(bs, h) ==
  LET reach[n \in Nat] ==
        IF n = 0 THEN 0
        ELSE LET before == reach[n - 1]
                 ends   == {IndexOf(h, b.anchor) :
                              b \in {c \in bs : OnPath(c, h) /\ IndexOf(h, c.from) <= before + 1}}
             IN  CHOOSE e \in ends \cup {before} : \A f \in ends \cup {before} : f <= e
  IN  reach[Cardinality(bs)]

\* The blocks that are rendered on a path: those on it that lie in no other one
\* and are connected to its start.
FilterBlocksForPath(bs, h) ==
  LET on   == {b \in bs : OnPath(b, h)}
      kept == {b \in on : \A c \in on : ~Contained(b, c)}
  IN  {b \in kept : IndexOf(h, b.anchor) <= SummarizedFrontier(kept, h)}

-----------------------------------------------------------------------------
(* Messages.                                                               *)

InsertRow(ms, m, p, role, status, version) ==
  [x \in DOMAIN ms \cup {m} |->
    IF x = m THEN [parent |-> p, role |-> role, created |-> m, status |-> status, version |-> version]
    ELSE ms[x]]

\* A send: the question and the placeholder of its answer.
Send(p) ==
  /\ next + 1 <= MaxMessages
  /\ rows' = InsertRow(InsertRow(rows, next, p, "user", "complete", 1),
                       next + 1, next, "assistant", "streaming", 0)
  /\ activeLeaf' = next + 1 /\ next' = next + 2
  /\ UNCHANGED <<blocks, job>>

\* Another answer to a question.
RegenerateMessage(q) ==
  /\ rows[q].role = "user" /\ next <= MaxMessages
  /\ rows' = InsertRow(rows, next, q, "assistant", "streaming", 0)
  /\ activeLeaf' = next /\ next' = next + 1
  /\ UNCHANGED <<blocks, job>>

\* The answer is written.
FinishMessage(m) ==
  /\ rows[m].status \in {"streaming", "stopping"}
  /\ rows' = [rows EXCEPT ![m].status = "complete", ![m].version = 1]
  /\ UNCHANGED <<activeLeaf, blocks, job, next>>

MarkMessageStopping(m) ==
  /\ rows[m].status = "streaming" /\ m \in Interrupted
  /\ rows' = [rows EXCEPT ![m].status = "stopping"]
  /\ UNCHANGED <<activeLeaf, blocks, job, next>>

\* The turn died, and its placeholder is older than the grace of one in flight.
Orphan(m) ==
  /\ rows[m].status = "streaming" /\ m \in Interrupted
  /\ rows' = [rows EXCEPT ![m].status = "orphan"]
  /\ UNCHANGED <<activeLeaf, blocks, job, next>>

\* The blocks that survive a change of some messages, the first of them made at
\* the given time: those with neither end among them and a range it is not in.
PruneSummaryBlocks(bs, ms, changed, at) ==
  {b \in bs :
    /\ b.anchor \notin changed /\ b.from \notin changed
    /\ ~(/\ b.from \in DOMAIN ms /\ b.anchor \in DOMAIN ms
         /\ ms[b.from].created <= at /\ at <= ms[b.anchor].created)}

\* An edit in place.
UpdateMessageContent(m) ==
  /\ rows[m].version < MaxVersion /\ rows[m].status = "complete" /\ m \in Edited
  /\ rows' = [rows EXCEPT ![m].version = @ + 1]
  /\ blocks' = PruneSummaryBlocks(blocks, rows, {m}, rows[m].created)
  /\ UNCHANGED <<activeLeaf, job, next>>

DeleteRoundAndPrune(m) ==
  LET head == IF DeletesBranch(rows, m) THEN m ELSE RoundHead(rows, m) IN
  /\ activeLeaf' \in RepointedLeaves(rows, m, activeLeaf)
  /\ rows' = RemainingRows(rows, m)
  /\ blocks' = PruneSummaryBlocks(blocks, rows', DeletedRows(rows, m), rows[head].created)
  /\ UNCHANGED <<job, next>>

\* What a branch switch writes was a leaf once: any row that ever was.
SwitchBranch(m) ==
  /\ activeLeaf' = m
  /\ UNCHANGED <<rows, blocks, job, next>>

-----------------------------------------------------------------------------
(* maybeCompact.                                                           *)

\* The cuts the rules allow: past the frontier, before a question, with at least
\* the last two messages left, and short of the first answer in flight.
Cuts(h, frontier) ==
  {c \in frontier + 1 .. Len(h) - 2 :
    /\ rows[h[c + 1]].role = "user"
    /\ \A i \in 1..c : rows[h[i]].status # "streaming"}

\* Mutant: the block is anchored at the first message that was not summarised.
AskPastTheCut(w, manual, m, cut) ==
  LET h == History(rows, m)
      path == FilterBlocksForPath(blocks, h)
      frontier == SummarizedFrontier(path, h)
  IN  /\ cut \in Cuts(h, frontier)
      /\ job' = [job EXCEPT ![w] =
           [at |-> "asked", manual |-> manual, expected |-> m, history |-> h, path |-> path,
            newer |-> [x \in {h[i] : i \in frontier + 1 .. cut} |->
                         [parent |-> rows[x].parent, version |-> rows[x].version]],
            anchor |-> h[cut + 1]]]
      /\ UNCHANGED <<rows, activeLeaf, blocks, next>>

\* A worker reads the path down to a message and the blocks on it, and asks for a
\* summary of what lies between the frontier and the cut.
AskForSummary(w, manual, m, cut) ==
  LET h == History(rows, m)
      path == FilterBlocksForPath(blocks, h)
      frontier == SummarizedFrontier(path, h)
  IN  /\ cut \in Cuts(h, frontier)
      /\ job' = [job EXCEPT ![w] =
           [at |-> "asked", manual |-> manual, expected |-> m, history |-> h, path |-> path,
            newer |-> [x \in {h[i] : i \in frontier + 1 .. cut} |->
                         [parent |-> rows[x].parent, version |-> rows[x].version]],
            anchor |-> h[cut]]]
      /\ UNCHANGED <<rows, activeLeaf, blocks, next>>

\* The queued job of a turn works on the path to the turn's question, as long as
\* that is on the active path, and cuts as the budgets say.
PlanAutomatic(w, q) ==
  /\ job[w] = NoJob
  /\ q \in Path(rows, activeLeaf) /\ rows[q].role = "user"
  /\ \E cut \in 1..MaxMessages : AskForSummary(w, FALSE, q, cut)

\* The command of the owner works on the whole active path, when nothing is in
\* flight, and cuts before the last question or, where the summary model would not
\* take that much, before an earlier one.
PlanManual(w) ==
  /\ job[w] = NoJob
  /\ activeLeaf \in DOMAIN rows /\ \A m \in DOMAIN rows : rows[m].status # "streaming"
  /\ \E cut \in 1..MaxMessages : AskForSummary(w, TRUE, activeLeaf, cut)

\* The block the summary becomes: it continues the state of the path.
NewBlock(j) ==
  LET told == (UNION {{<<x, b.covers[x]>> : x \in DOMAIN b.covers} : b \in j.path})
              \cup {<<x, j.newer[x].version>> : x \in DOMAIN j.newer}
      ids  == {p[1] : p \in told}
      least(S) == CHOOSE x \in S : \A y \in S : x <= y
  IN  [from |-> IF j.path = {} THEN least(DOMAIN j.newer) ELSE least({b.from : b \in j.path}),
       anchor |-> j.anchor,
       covers |-> [x \in ids |-> CHOOSE v \in 0..MaxVersion : <<x, v>> \in told]]

\* The branch the summary was made for is still the active one. For the command
\* the leaf must be the very same and nothing may be in flight.
BranchCurrent(j) ==
  IF j.manual
  THEN activeLeaf = j.expected /\ \A m \in DOMAIN rows : rows[m].status # "streaming"
  ELSE j.expected \in Path(rows, activeLeaf)

\* Mutant: the messages are not compared with what was read.
MessagesUnchecked(j) == TRUE

\* Every message of the summary still exists, where it was and as it was.
MessagesStillCurrent(j) ==
  \A m \in DOMAIN j.newer :
    m \in DOMAIN rows /\ rows[m].parent = j.newer[m].parent /\ rows[m].version = j.newer[m].version

\* A block is needed by a branch that sees it and does not see its replacement.
NeededOutside(b, r, h) ==
  \/ b.anchor \notin Path(rows, r.anchor)
  \/ \E x \in DOMAIN rows \ ToSet(h) :
       b.anchor \in Path(rows, x) /\ r.anchor \notin Path(rows, x)

\* Mutant: the blocks of the path always go.
ReplacePath(bs, path, r, h) == (bs \ path) \cup {r}

\* The new block replaces those of the path that no other branch needs. When a
\* message of the path has gone, none are replaced.
InstallReplacement(bs, path, r, h) ==
  IF ToSet(h) \subseteq DOMAIN rows
  THEN {b \in bs : b \in path => NeededOutside(b, r, h)} \cup {r}
  ELSE bs \cup {r}

\* The transaction that stores the block, or gives the work up.
Persist(w) ==
  /\ job[w].at = "asked"
  /\ job' = [job EXCEPT ![w] = NoJob]
  /\ LET j == job[w]
         path == FilterBlocksForPath(blocks, j.history)
     IN  blocks' = IF BranchCurrent(j) /\ path = j.path /\ MessagesStillCurrent(j)
                   THEN InstallReplacement(blocks, path, NewBlock(j), j.history)
                   ELSE blocks
  /\ UNCHANGED <<rows, activeLeaf, next>>

\* The model refuses, fails or returns nothing, or the worker dies.
GiveUpSummary(w) ==
  /\ job[w].at = "asked"
  /\ job' = [job EXCEPT ![w] = NoJob]
  /\ UNCHANGED <<rows, activeLeaf, blocks, next>>

CompactionNext ==
  \/ \E p \in DOMAIN rows \cup {NoMessage} : Send(p)
  \/ \E m \in DOMAIN rows :
       \/ RegenerateMessage(m) \/ FinishMessage(m) \/ MarkMessageStopping(m) \/ Orphan(m)
       \/ UpdateMessageContent(m) \/ DeleteRoundAndPrune(m)
  \/ \E m \in 1..(next - 1) : SwitchBranch(m)
  \/ \E w \in Workers :
       \/ PlanManual(w) \/ Persist(w) \/ GiveUpSummary(w)
       \/ \E q \in DOMAIN rows : PlanAutomatic(w, q)

CompactionSpec == CompactionInit /\ [][CompactionNext]_compactionVars

-----------------------------------------------------------------------------
(* Properties.                                                             *)

CompactionTypeOK ==
  /\ DOMAIN rows \subseteq 1..MaxMessages /\ next \in 1..(MaxMessages + 1)
  /\ activeLeaf \in 1..MaxMessages \cup {NoMessage}
  /\ \A b \in blocks : b.from <= b.anchor /\ DOMAIN b.covers \subseteq b.from..b.anchor
  /\ \A b, c \in blocks : b.from = c.from /\ b.anchor = c.anchor => b = c

\* Deleted content is never told again, and edited content not as it was: every
\* message a stored block was made from exists, with the content it was made from.
\* A message that had no content then is excepted: an answer being stopped may be
\* summarised before it is written. One that is being streamed is never covered.
SummariesAreCurrent ==
  /\ CompactionTypeOK
  /\ \A b \in blocks : \A x \in DOMAIN b.covers :
       /\ x \in DOMAIN rows /\ b.covers[x] \in {rows[x].version, 0}
       /\ rows[x].status # "streaming"

\* Nothing is silently left out of a prompt: on every branch each message before
\* the frontier is told by a block that is rendered there.
NothingIsSkipped ==
  \A m \in DOMAIN rows :
    LET h == History(rows, m)
        path == FilterBlocksForPath(blocks, h)
    IN  \A i \in 1..SummarizedFrontier(path, h) : \E b \in path : h[i] \in DOMAIN b.covers

\* Storing a summary for one branch never takes away what another one has: the
\* frontier of no branch, a path down to a message nothing follows, moves back.
NoBranchLosesItsSummary ==
  [][(\E w \in Workers : Persist(w)) =>
       \A m \in {x \in DOMAIN rows : Children(rows, x) = {}} :
         LET h == History(rows, m)
         IN  SummarizedFrontier(FilterBlocksForPath(blocks', h), h)
               >= SummarizedFrontier(FilterBlocksForPath(blocks, h), h)]_compactionVars
=============================================================================
