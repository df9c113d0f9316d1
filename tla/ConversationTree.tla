-------------------------- MODULE ConversationTree --------------------------
(***************************************************************************)
(* The messages of a conversation as a tree, and the walks the store makes *)
(* over it: a root-to-leaf path, the newest leaf below a message, and what *)
(* deleting a round removes, reattaches and leaves. A tree is a function   *)
(* ms from the ids of the rows to records with at least the fields parent, *)
(* role and created; the rows without a parent have parent NoMessage.      *)
(***************************************************************************)
EXTENDS Integers, FiniteSets

CONSTANT NoMessage   \* the empty id

Children(ms, m) == {c \in DOMAIN ms : ms[c].parent = m}

\* ORDER BY created_at DESC LIMIT 1: rows of the same second tie.
Newest(ms, S) == {c \in S : \A d \in S : ms[d].created <= ms[c].created}

\* The message and everything above it.
Path(ms, m) ==
  LET up[n \in Nat] ==
        IF n = 0 THEN {m} \cap DOMAIN ms
        ELSE LET below == up[n - 1] IN below \cup ({ms[x].parent : x \in below} \cap DOMAIN ms)
  IN  up[Cardinality(DOMAIN ms)]

Subtree(ms, m) == {x \in DOMAIN ms : m \in Path(ms, x)}

\* The leaves that following the newest child from a message may end in, or from
\* the newest root when no message is given.
DeepestLeaves(ms, from) ==
  LET start == IF from = NoMessage THEN Newest(ms, Children(ms, NoMessage)) ELSE {from}
      down[n \in Nat] ==
        IF n = 0 THEN start
        ELSE LET above == down[n - 1] IN above \cup UNION {Newest(ms, Children(ms, x)) : x \in above}
  IN  IF start = {} THEN {NoMessage}
      ELSE {x \in down[Cardinality(DOMAIN ms)] : Children(ms, x) = {}}

-----------------------------------------------------------------------------
(* DeleteRound.                                                            *)

IsUser(ms, m) == m \in DOMAIN ms /\ ms[m].role = "user"

\* An answer with siblings is deleted alone, with what is below it.
DeletesBranch(ms, m) ==
  /\ ms[m].role = "assistant"
  /\ IsUser(ms, ms[m].parent)
  /\ Cardinality(Children(ms, ms[m].parent)) > 1

\* Otherwise its round is: the question, and every child the question has.
RoundHead(ms, m) == IF ms[m].role = "assistant" /\ IsUser(ms, ms[m].parent) THEN ms[m].parent ELSE m

DeletedRows(ms, m) ==
  LET u == RoundHead(ms, m)
  IN  IF DeletesBranch(ms, m) THEN Subtree(ms, m)
      ELSE IF IsUser(ms, u) THEN {u} \cup Children(ms, u) ELSE {u}

\* Mutant: the continuations are not moved up.
RowsNotMoved(ms, m) == [x \in DOMAIN ms \ DeletedRows(ms, m) |-> ms[x]]

\* What is left, with the continuations moved onto the parent of the round.
RemainingRows(ms, m) ==
  LET gone == DeletedRows(ms, m)
      up   == ms[RoundHead(ms, m)].parent
  IN  [x \in DOMAIN ms \ gone |->
        IF ms[x].parent \in gone THEN [ms[x] EXCEPT !.parent = up] ELSE ms[x]]

\* Where the search for a new active leaf starts.
LeafBase(ms, m) == IF DeletesBranch(ms, m) THEN ms[m].parent ELSE ms[RoundHead(ms, m)].parent

\* The active leaf is replaced only when it has gone with the round.
RepointedLeaves(ms, m, leaf) ==
  LET left == RemainingRows(ms, m)
  IN  IF leaf \in DOMAIN left THEN {leaf} ELSE DeepestLeaves(left, LeafBase(ms, m))
=============================================================================
