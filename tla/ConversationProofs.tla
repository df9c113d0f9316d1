-------------------------- MODULE ConversationProofs --------------------------
(***************************************************************************)
(* The messages stay a tree whatever is deleted under the running turns,   *)
(* no turn loses what it holds, no two sends run from one message, and no  *)
(* crash blocks a conversation for ever; and the summaries of the messages *)
(* stay true and whole while the tree changes under them: for any turns,   *)
(* users, messages and workers.                                            *)
(***************************************************************************)
EXTENDS ChatTurns, ContextCompaction, FiniteSetTheorems, WellFoundedInduction, TLAPS

-----------------------------------------------------------------------------
(* Induction and recursion over the natural numbers.                       *)

\* Every set of natural numbers that is not empty has a smallest element.
LEMMA Smallest ==
  ASSUME NEW T, T \subseteq Nat, T # {}
  PROVE  \E n \in T : \A k \in T : n <= k
<1>1. \E n \in T : \A k \in T : ~ (<<k, n>> \in OpToRel(<, Nat))
  BY NatLessThanWellFounded, WFMin
<1>2. PICK n \in T : \A k \in T : ~ (<<k, n>> \in OpToRel(<, Nat))
  BY <1>1
<1>3. ASSUME NEW k \in T PROVE ~(k < n)
  BY <1>2 DEF OpToRel
<1>4. \A k \in T : n <= k
  BY <1>3
<1> QED BY <1>4

\* Induction over the natural numbers, for the set of those that satisfy a claim.
LEMMA Induction ==
  ASSUME NEW T, 0 \in T, \A n \in Nat : n \in T => n + 1 \in T
  PROVE  Nat \subseteq T
<1> SUFFICES ASSUME Nat \ T # {} PROVE FALSE
  OBVIOUS
<1>1. PICK n \in Nat \ T : \A k \in Nat \ T : n <= k
  BY Smallest
<1>2. n # 0 /\ n - 1 \in Nat
  BY <1>1
<1>3. n - 1 \in T
  BY <1>1, <1>2
<1> QED BY <1>1, <1>2, <1>3

\* A function given by its first value and by how each value yields the next.
LEMMA Recursion ==
  ASSUME NEW V, NEW v \in V, NEW h \in [V -> V]
  PROVE  \E f : f = [n \in Nat |-> IF n = 0 THEN v ELSE h[f[n - 1]]] /\ f \in [Nat -> V]
<1> DEFINE Begins(g, n) == g[0] = v /\ \A i \in 1..n : g[i] = h[g[i - 1]]
           T == {n \in Nat : \E g \in [0..n -> V] : Begins(g, n)}
<1>1. 0 \in T
  <2>1. [i \in 0..0 |-> v] \in [0..0 -> V] /\ Begins([i \in 0..0 |-> v], 0)
    OBVIOUS
  <2> QED BY <2>1
<1>2. ASSUME NEW n \in Nat, n \in T PROVE n + 1 \in T
  <2>1. PICK g \in [0..n -> V] : Begins(g, n)
    BY <1>2
  <2> DEFINE e == [i \in 0..(n + 1) |-> IF i = n + 1 THEN h[g[n]] ELSE g[i]]
  <2>2. e \in [0..(n + 1) -> V]
    BY <2>1
  <2>3. Begins(e, n + 1)
    BY <2>1
  <2> QED BY <2>2, <2>3, SMTT(60)
<1>3. \A n \in Nat : n \in T
  <2> HIDE DEF T
  <2> QED BY <1>1, <1>2, Induction
<1> DEFINE G(n) == CHOOSE g \in [0..n -> V] : Begins(g, n)
           f == [n \in Nat |-> G(n)[n]]
<1>4. \A n \in Nat : G(n) \in [0..n -> V] /\ Begins(G(n), n)
  BY <1>3
<1>5. ASSUME NEW n \in Nat, NEW g \in [0..n -> V], Begins(g, n), 
             NEW k \in Nat, NEW e \in [0..k -> V], Begins(e, k)
      PROVE  \A i \in Nat : i <= n /\ i <= k => g[i] = e[i]
  <2> DEFINE S == {i \in Nat : i <= n /\ i <= k => g[i] = e[i]}
  <2>1. 0 \in S
    BY <1>5
  <2>2. ASSUME NEW i \in Nat, i \in S PROVE i + 1 \in S
    <3> SUFFICES ASSUME i + 1 <= n, i + 1 <= k PROVE g[i + 1] = e[i + 1]
      OBVIOUS
    <3>1. g[i] = e[i]
      BY <2>2
    <3>2. i + 1 \in 1..n /\ i + 1 \in 1..k /\ (i + 1) - 1 = i
      OBVIOUS
    <3> QED BY <1>5, <3>1, <3>2
  <2> HIDE DEF S
  <2>3. Nat \subseteq S
    BY <2>1, <2>2, Induction
  <2> QED BY <2>3 DEF S
<1>6. f \in [Nat -> V]
  <2> HIDE DEF G, Begins
  <2>1. \A n \in Nat : G(n)[n] \in V
    BY <1>4
  <2> QED BY <2>1
<1>7. ASSUME NEW n \in Nat PROVE f[n] = IF n = 0 THEN v ELSE h[f[n - 1]]
  <2>1. CASE n = 0
    BY <1>4, <2>1
  <2>2. CASE n # 0
    <3>1. n - 1 \in Nat /\ n \in 1..n /\ n - 1 <= n
      BY <2>2
    <3>2. f[n] = G(n)[n] /\ f[n - 1] = G(n - 1)[n - 1]
      BY <3>1
    <3>3. G(n)[n] = h[G(n)[n - 1]]
      BY <1>4, <3>1
    <3>4. /\ G(n) \in [0..n -> V] /\ Begins(G(n), n)
          /\ G(n - 1) \in [0..(n - 1) -> V] /\ Begins(G(n - 1), n - 1)
      BY <1>4, <3>1
    <3> HIDE DEF G, Begins
    <3>5. G(n)[n - 1] = G(n - 1)[n - 1]
      BY <1>5, <3>1, <3>4
    <3> QED BY <2>2, <3>2, <3>3, <3>5
  <2> QED BY <2>1, <2>2
<1> HIDE DEF f
<1>8. f = [n \in Nat |-> f[n]]
  BY <1>6
<1>9. [n \in Nat |-> f[n]] = [n \in Nat |-> IF n = 0 THEN v ELSE h[f[n - 1]]]
  BY <1>7
<1> QED BY <1>6, <1>8, <1>9

-----------------------------------------------------------------------------
(* The walks over a tree.                                                  *)

\* A set of rows that contains the rows its members hang below.
Closed(ms, S) == \A x \in S : ms[x].parent \in DOMAIN ms => ms[x].parent \in S

\* A set that grows within D until it stops has stopped after |D| + 1 rounds.
LEMMA Saturation ==
  ASSUME NEW D, IsFiniteSet(D), NEW f \in [Nat -> SUBSET D], NEW h \in [SUBSET D -> SUBSET D],
         \A n \in Nat : f[n + 1] = h[f[n]] /\ f[n] \subseteq f[n + 1]
  PROVE  h[f[Cardinality(D)]] = f[Cardinality(D)]
<1> DEFINE S == {n \in Nat : h[f[n]] = f[n] \/ Cardinality(f[n]) >= n}
<1>f. \A n \in Nat : IsFiniteSet(f[n]) /\ Cardinality(f[n]) \in Nat
  BY FS_Subset, FS_CardinalityType
<1>1. 0 \in S
  BY <1>f
<1>2. ASSUME NEW n \in Nat, n \in S PROVE n + 1 \in S
  <2>1. CASE f[n + 1] = f[n]
    <3>1. h[f[n + 1]] = f[n + 1]
      BY <2>1
    <3> QED BY <3>1
  <2>2. CASE f[n + 1] # f[n]
    <3>1. Cardinality(f[n]) >= n /\ f[n + 1] = h[f[n]]
      BY <1>2, <2>2
    <3>2. Cardinality(f[n]) <= Cardinality(f[n + 1])
          /\ Cardinality(f[n]) # Cardinality(f[n + 1])
      BY <1>f, <2>2, FS_Subset
    <3>3. Cardinality(f[n + 1]) >= n + 1
      BY <1>f, <3>1, <3>2
    <3> QED BY <3>3
  <2> QED BY <2>1, <2>2
<1>3. Cardinality(D) \in Nat
  BY FS_CardinalityType
<1> DEFINE c == Cardinality(D)
<1>4. c \in S
  <2> HIDE DEF S
  <2> QED BY <1>1, <1>2, <1>3, Induction
<1>5. CASE h[f[c]] = f[c]
  BY <1>5
<1>6. CASE Cardinality(f[c]) >= c
  <2>1. Cardinality(f[c]) <= c /\ (Cardinality(D) = Cardinality(f[c]) => D = f[c])
    BY <1>3, FS_Subset
  <2>2. f[c] = D
    BY <1>3, <1>6, <1>f, <2>1
  <2>3. f[c] \subseteq f[c + 1] /\ f[c + 1] \subseteq D /\ f[c + 1] = h[f[c]]
    BY <1>3
  <2> QED BY <2>2, <2>3
<1> QED BY <1>4, <1>5, <1>6

\* A path is the smallest set of rows that has its end and is closed.
THEOREM PathIsClosure ==
  ASSUME NEW ms, IsFiniteSet(DOMAIN ms), NEW m
  PROVE  /\ Path(ms, m) \subseteq DOMAIN ms
         /\ m \in DOMAIN ms => m \in Path(ms, m)
         /\ Closed(ms, Path(ms, m))
         /\ \A S : m \in S /\ Closed(ms, S) => Path(ms, m) \subseteq S
<1> DEFINE D == DOMAIN ms
           v == {m} \cap D
           V == SUBSET D
           Up(B) == B \cup ({ms[x].parent : x \in B} \cap D)
           h == [B \in V |-> Up(B)]
           f == CHOOSE f : f = [n \in Nat |-> IF n = 0 THEN {m} \cap DOMAIN ms
                                              ELSE LET below == f[n - 1]
                                                   IN  below \cup ({ms[x].parent : x \in below}
                                                                 \cap DOMAIN ms)]
<1>1. v \in V /\ h \in [V -> V]
  OBVIOUS
<1> HIDE DEF h, v, V, f
<1>2. PICK g : g = [n \in Nat |-> IF n = 0 THEN v ELSE h[g[n - 1]]] /\ g \in [Nat -> V]
  BY <1>1, Recursion, SMTT(60)
<1>3. ASSUME NEW n \in Nat PROVE g[n] = IF n = 0 THEN v ELSE Up(g[n - 1])
  <2>1. g[n] = IF n = 0 THEN v ELSE h[g[n - 1]]
    BY <1>2
  <2>2. n # 0 => g[n - 1] \in V
    BY <1>2
  <2>3. n # 0 => h[g[n - 1]] = Up(g[n - 1])
    BY <2>2 DEF h
  <2> HIDE DEF Up
  <2> QED BY <2>1, <2>3
<1>4. g = [n \in Nat |-> IF n = 0 THEN v ELSE Up(g[n - 1])]
  <2> HIDE DEF Up
  <2>1. g = [n \in Nat |-> g[n]]
    BY <1>2
  <2> QED BY <1>3, <2>1
<1>5. f = [n \in Nat |-> IF n = 0 THEN v ELSE Up(f[n - 1])]
  BY <1>4 DEF f, v
<1>6. f[0] = v /\ \A n \in Nat : f[n + 1] = Up(f[n])
  <2> HIDE DEF Up
  <2>1. \A n \in Nat : f[n] = IF n = 0 THEN v ELSE Up(f[n - 1])
    BY <1>5
  <2> QED BY <2>1
<1>7. \A n \in Nat : f[n] \in V
  <2> DEFINE T == {n \in Nat : f[n] \in V}
  <2>1. 0 \in T
    BY <1>1, <1>6
  <2>2. ASSUME NEW n \in Nat, n \in T PROVE n + 1 \in T
    BY <1>6, <2>2 DEF V
  <2> HIDE DEF T
  <2>3. Nat \subseteq T
    BY <2>1, <2>2, Induction
  <2> QED BY <2>3 DEF T
<1> DEFINE c == Cardinality(D)
           P == f[c]
<1>8. Path(ms, m) = P
  BY DEF Path, f
<1>9. c \in Nat
  BY FS_CardinalityType
<1>10. Up(P) = P
  <2>1. \A n \in Nat : f[n + 1] = h[f[n]] /\ f[n] \subseteq f[n + 1]
    BY <1>6, <1>7 DEF h
  <2>2. f \in [Nat -> SUBSET D]
    <3>1. f = [n \in Nat |-> f[n]]
      BY <1>5
    <3> QED BY <3>1, <1>7 DEF V
  <2>3. h \in [SUBSET D -> SUBSET D]
    BY <1>1 DEF V
  <2>4. h[f[c]] = f[c]
    BY <2>1, <2>2, <2>3, Saturation
  <2> QED BY <1>7, <1>9, <2>4 DEF h
<1>11. P \subseteq D
  BY <1>7, <1>9 DEF V
<1>12. ASSUME m \in D PROVE m \in P
  <2> DEFINE T == {n \in Nat : m \in f[n]}
  <2>1. 0 \in T
    BY <1>6, <1>12 DEF v
  <2>2. ASSUME NEW n \in Nat, n \in T PROVE n + 1 \in T
    BY <1>6, <2>2
  <2> HIDE DEF T
  <2>3. Nat \subseteq T
    BY <2>1, <2>2, Induction
  <2> QED BY <1>9, <2>3 DEF T
<1>13. Closed(ms, P)
  BY <1>10 DEF Closed
<1>14. ASSUME NEW S, m \in S, Closed(ms, S) PROVE P \subseteq S
  <2> DEFINE T == {n \in Nat : f[n] \subseteq S}
  <2>1. 0 \in T
    BY <1>6, <1>14 DEF v
  <2>2. ASSUME NEW n \in Nat, n \in T PROVE n + 1 \in T
    BY <1>6, <1>14, <2>2 DEF Closed
  <2> HIDE DEF T
  <2>3. Nat \subseteq T
    BY <2>1, <2>2, Induction
  <2> QED BY <1>9, <2>3 DEF T
<1> HIDE DEF P
<1> QED BY <1>8, <1>11, <1>12, <1>13, <1>14

\* Everything the search for the newest leaf meets is a row, or where it starts.
LEMMA LeavesAreRows ==
  ASSUME NEW ms, IsFiniteSet(DOMAIN ms), NEW from
  PROVE  \/ /\ from = NoMessage /\ Newest(ms, Children(ms, NoMessage)) = {}
            /\ DeepestLeaves(ms, from) = {NoMessage}
         \/ /\ from = NoMessage /\ DeepestLeaves(ms, from) \subseteq DOMAIN ms
         \/ /\ from # NoMessage /\ DeepestLeaves(ms, from) \subseteq DOMAIN ms \cup {from}
<1> DEFINE start == IF from = NoMessage THEN Newest(ms, Children(ms, NoMessage)) ELSE {from}
           V == SUBSET (DOMAIN ms \cup start)
           Down(B) == B \cup UNION {Newest(ms, Children(ms, x)) : x \in B}
           h == [B \in V |-> Down(B)]
           f == CHOOSE f : f = [n \in Nat |-> IF n = 0 THEN start
                                ELSE LET above == f[n - 1]
                                     IN  above \cup UNION {Newest(ms, Children(ms, x))
                                                             : x \in above}]
<1>0. \A S : Newest(ms, S) \subseteq S
  BY DEF Newest
<1>1. start \in V /\ h \in [V -> V]
  <2>1. \A x : Newest(ms, Children(ms, x)) \subseteq DOMAIN ms
    BY <1>0 DEF Children
  <2>2. \A B \in V : Down(B) \in V
    BY <2>1
  <2> QED BY <2>2
<1>s. from = NoMessage => start \subseteq DOMAIN ms
  BY <1>0 DEF Children
<1> HIDE DEF h, start, V, f, Down
<1>2. PICK g : g = [n \in Nat |-> IF n = 0 THEN start ELSE h[g[n - 1]]] /\ g \in [Nat -> V]
  BY <1>1, Recursion, SMTT(60)
<1>3. ASSUME NEW n \in Nat PROVE g[n] = IF n = 0 THEN start ELSE Down(g[n - 1])
  <2>1. g[n] = IF n = 0 THEN start ELSE h[g[n - 1]]
    BY <1>2
  <2>2. n # 0 => g[n - 1] \in V
    BY <1>2
  <2>3. n # 0 => h[g[n - 1]] = Down(g[n - 1])
    BY <2>2 DEF h
  <2> QED BY <2>1, <2>3
<1>4. g = [n \in Nat |-> IF n = 0 THEN start ELSE Down(g[n - 1])]
  <2>1. g = [n \in Nat |-> g[n]]
    BY <1>2
  <2> QED BY <1>3, <2>1
<1>5. f = [n \in Nat |-> IF n = 0 THEN start ELSE Down(f[n - 1])]
  BY <1>4 DEF f, Down
<1>6. f[0] = start /\ \A n \in Nat : f[n + 1] = Down(f[n])
  <2>1. \A n \in Nat : f[n] = IF n = 0 THEN start ELSE Down(f[n - 1])
    BY <1>5
  <2> QED BY <2>1
<1>7. \A n \in Nat : f[n] \in V
  <2> DEFINE T == {n \in Nat : f[n] \in V}
  <2>1. 0 \in T
    BY <1>1, <1>6
  <2>2. ASSUME NEW n \in Nat, n \in T PROVE n + 1 \in T
    <3>1. h[f[n]] \in V /\ h[f[n]] = Down(f[n])
      BY <1>1, <2>2 DEF h
    <3> QED BY <1>6, <3>1
  <2> HIDE DEF T
  <2>3. Nat \subseteq T
    BY <2>1, <2>2, Induction
  <2> QED BY <2>3 DEF T
<1>8. DeepestLeaves(ms, from)
        = IF start = {} THEN {NoMessage}
          ELSE {x \in f[Cardinality(DOMAIN ms)] : Children(ms, x) = {}}
  BY DEF DeepestLeaves, f, start
<1>9. f[Cardinality(DOMAIN ms)] \subseteq DOMAIN ms \cup start
  BY <1>7, FS_CardinalityType DEF V
<1>10. CASE from = NoMessage
  BY <1>8, <1>9, <1>10, <1>s DEF start
<1>11. CASE from # NoMessage
  BY <1>8, <1>9, <1>11 DEF start
<1> QED BY <1>10, <1>11

-----------------------------------------------------------------------------
(* The tree.                                                               *)

\* Following the parents ends, from any set of rows.
Grounded(ms) == \A S \in SUBSET DOMAIN ms : S # {} => \E x \in S : ms[x].parent \notin S

\* Every row hangs below another, or is a root.
HasParents(ms) == \A m \in DOMAIN ms : ms[m].parent \in DOMAIN ms \cup {NoMessage}

Tree(ms) == IsFiniteSet(DOMAIN ms) /\ Grounded(ms) /\ HasParents(ms)

\* In a tree every path ends at a root.
LEMMA PathReachesRoot ==
  ASSUME NEW ms, Tree(ms), NEW m \in DOMAIN ms
  PROVE  \E r \in Path(ms, m) : ms[r].parent = NoMessage
<1>1. Path(ms, m) \in SUBSET DOMAIN ms /\ m \in Path(ms, m) /\ Closed(ms, Path(ms, m))
  BY PathIsClosure DEF Tree
<1>2. PICK r \in Path(ms, m) : ms[r].parent \notin Path(ms, m)
  BY <1>1 DEF Tree, Grounded
<1> QED BY <1>1, <1>2 DEF Tree, HasParents, Closed

\* A tree that is not empty has a newest root.
LEMMA NewestRoot ==
  ASSUME NEW ms, Tree(ms), DOMAIN ms # {}, NEW bound \in Nat,
         \A m \in DOMAIN ms : ms[m].created \in 0..bound
  PROVE  Newest(ms, Children(ms, NoMessage)) # {}
<1> DEFINE C == Children(ms, NoMessage)
           Ages == {bound - ms[m].created : m \in C}
<1>1. C # {} /\ C \subseteq DOMAIN ms
  BY DEF Tree, Grounded, HasParents, Children
<1> HIDE DEF C
<1>2. Ages # {} /\ Ages \subseteq Nat
  BY <1>1
<1>3. PICK a \in Ages : \A b \in Ages : a <= b
  BY <1>2, Smallest
<1>4. PICK m \in C : a = bound - ms[m].created
  BY <1>3
<1>5. ASSUME NEW d \in C PROVE ms[d].created <= ms[m].created
  <2>1. a <= bound - ms[d].created
    BY <1>3
  <2>2. ms[d].created \in 0..bound /\ ms[m].created \in 0..bound
    BY <1>1
  <2> QED BY <1>4, <2>1, <2>2
<1> QED BY <1>4, <1>5 DEF Newest, C

\* A new row below a row, or a new root.
LEMMA GrownTree ==
  ASSUME NEW ms, NEW new, Tree(ms), NEW n, n \notin DOMAIN ms, n # NoMessage,
         NEW p \in DOMAIN ms \cup {NoMessage},
         DOMAIN new = DOMAIN ms \cup {n}, new[n].parent = p,
         \A x \in DOMAIN ms : new[x].parent = ms[x].parent
  PROVE  Tree(new)
<1>1. IsFiniteSet(DOMAIN new)
  BY FS_AddElement DEF Tree
<1>2. HasParents(new)
  BY DEF Tree, HasParents
<1>3. ASSUME NEW S \in SUBSET DOMAIN new, S # {} PROVE \E x \in S : new[x].parent \notin S
  <2>1. CASE S = {n}
    BY <2>1
  <2>2. CASE S # {n}
    <3>1. S \ {n} \in SUBSET DOMAIN ms /\ S \ {n} # {}
      BY <1>3, <2>2
    <3>2. PICK x \in S \ {n} : ms[x].parent \notin S \ {n}
      BY <3>1 DEF Tree, Grounded
    <3>3. ms[x].parent # n
      BY <3>1 DEF Tree, HasParents
    <3> QED BY <3>1, <3>2, <3>3
  <2> QED BY <2>1, <2>2
<1> QED BY <1>1, <1>2, <1>3 DEF Tree, Grounded

\* Only the parents matter.
LEMMA SameTree ==
  ASSUME NEW ms, NEW new, Tree(ms), DOMAIN new = DOMAIN ms,
         \A x \in DOMAIN ms : new[x].parent = ms[x].parent
  PROVE  Tree(new)
BY DEF Tree, Grounded, HasParents

\* Below what is in a subtree there is nothing else.
LEMMA SubtreeIsClosed ==
  ASSUME NEW ms, Tree(ms), NEW m, NEW x \in DOMAIN ms, ms[x].parent \in Subtree(ms, m)
  PROVE  x \in Subtree(ms, m)
<1> DEFINE p == ms[x].parent
<1>1. p \in DOMAIN ms /\ m \in Path(ms, p)
  BY DEF Subtree
<1>2. x \in Path(ms, x) /\ Closed(ms, Path(ms, x))
  BY PathIsClosure DEF Tree
<1>3. p \in Path(ms, x)
  BY <1>1, <1>2 DEF Closed
<1>4. Path(ms, p) \subseteq Path(ms, x)
  BY <1>2, <1>3, PathIsClosure DEF Tree
<1> QED BY <1>1, <1>4 DEF Subtree

\* What is left of a tree when rows go and those below them move up to the
\* parent of one that goes.
LEMMA ShrunkTree ==
  ASSUME NEW ms, NEW new, Tree(ms), NEW gone, NEW u \in gone, gone \subseteq DOMAIN ms,
         DOMAIN new = DOMAIN ms \ gone,
         \A x \in DOMAIN new : new[x].parent = IF ms[x].parent \in gone THEN ms[u].parent
                                               ELSE ms[x].parent,
         \A x \in gone : ms[x].parent \in gone \/ x = u,
         ms[u].parent \notin gone
  PROVE  Tree(new)
<1>1. IsFiniteSet(DOMAIN new)
  <2>1. DOMAIN new \in SUBSET DOMAIN ms
    OBVIOUS
  <2> QED BY <2>1, FS_Subset DEF Tree
<1>2. HasParents(new)
  BY DEF Tree, HasParents
<1>3. ASSUME NEW S \in SUBSET DOMAIN new, S # {} PROVE \E x \in S : new[x].parent \notin S
  <2> SUFFICES ASSUME \A x \in S : new[x].parent \in S PROVE FALSE
    OBVIOUS
  <2>1. CASE \A x \in S : ms[x].parent \notin gone
    BY <1>3, <2>1 DEF Tree, Grounded
  <2>2. CASE \E x \in S : ms[x].parent \in gone
    <3>1. ms[u].parent \in S
      BY <1>3, <2>2
    <3>2. \A x \in S \cup gone : ms[x].parent \in S \cup gone
      BY <1>3, <3>1
    <3>3. S \cup gone \in SUBSET DOMAIN ms /\ S \cup gone # {}
      BY <1>3
    <3> QED BY <3>2, <3>3 DEF Tree, Grounded
  <2> QED BY <2>1, <2>2
<1> QED BY <1>1, <1>2, <1>3 DEF Tree, Grounded

\* A row can be moved below another.
ParentsMove(ms) == \A x \in DOMAIN ms : \A p : [ms[x] EXCEPT !.parent = p].parent = p

\* Deleting a round, or a branch, leaves a tree (store/conversations.go).
LEMMA DeletionLeavesTree ==
  ASSUME NEW ms, Tree(ms), NEW m \in DOMAIN ms,
         ParentsMove(ms)
  PROVE  Tree(RemainingRows(ms, m))
<1> DEFINE new == RemainingRows(ms, m)
           gone == DeletedRows(ms, m)
           u == RoundHead(ms, m)
<1>1. /\ DOMAIN new = DOMAIN ms \ gone
      /\ \A x \in DOMAIN new : new[x].parent = IF ms[x].parent \in gone THEN ms[u].parent
                                               ELSE ms[x].parent
  BY DEF RemainingRows, ParentsMove
<1>2. u \in DOMAIN ms
  BY DEF RoundHead, IsUser
<1>3. CASE DeletesBranch(ms, m)
  <2>1. gone = Subtree(ms, m)
    BY <1>3 DEF DeletedRows
  <2>2. \A x \in DOMAIN new : ms[x].parent \notin gone
    BY <1>1, <2>1, SubtreeIsClosed
  <2>3. gone \subseteq DOMAIN ms
    BY <2>1 DEF Subtree
  <2> HIDE DEF new, gone, u
  <2>4. IsFiniteSet(DOMAIN new)
    <3>1. DOMAIN new \in SUBSET DOMAIN ms
      BY <1>1
    <3> QED BY <3>1, FS_Subset DEF Tree
  <2>5. HasParents(new)
    BY <1>1, <2>2 DEF Tree, HasParents
  <2>6. Grounded(new)
    BY <1>1, <2>2 DEF Tree, Grounded
  <2> QED BY <2>4, <2>5, <2>6 DEF Tree, new
<1>4. CASE ~DeletesBranch(ms, m)
  <2>1. gone = IF IsUser(ms, u) THEN {u} \cup Children(ms, u) ELSE {u}
    BY <1>4, Zenon DEF DeletedRows
  <2>2. u \in gone /\ gone \subseteq DOMAIN ms
    BY <1>2, <2>1 DEF Children
  <2>3. \A x \in gone : ms[x].parent \in gone \/ x = u
    BY <2>1 DEF Children
  <2>4. ms[u].parent # u
    <3>1. {u} \in SUBSET DOMAIN ms /\ {u} # {}
      BY <1>2
    <3>2. \E x \in {u} : ms[x].parent \notin {u}
      BY <3>1 DEF Tree, Grounded
    <3> QED BY <3>2
  <2>5. ms[u].parent \notin Children(ms, u)
    <3> SUFFICES ASSUME ms[u].parent \in Children(ms, u) PROVE FALSE
      OBVIOUS
    <3> DEFINE S == {u, ms[u].parent}
    <3>1. S \in SUBSET DOMAIN ms /\ S # {} /\ \A x \in S : ms[x].parent \in S
      BY <1>2 DEF Children
    <3> QED BY <3>1 DEF Tree, Grounded
  <2>6. ms[u].parent \notin gone
    BY <2>1, <2>4, <2>5
  <2> HIDE DEF new, gone, u
  <2>7. Tree(new)
    BY <1>1, <2>2, <2>3, <2>6, ShrunkTree
  <2> QED BY <2>7 DEF new
<1> QED BY <1>3, <1>4

-----------------------------------------------------------------------------
(* The inductive invariant.                                                *)

\* A turn has begun, and one that is under way has not outlived its time.
TurnsInTime ==
  \A t \in Turns : turn[t].started <= now /\ (Held(t) => now <= turn[t].started + Lifetime)

\* The rows of a turn say how far it is.
RowsFollow(t) ==
  /\ A(t) \in DOMAIN messages => turn[t].phase \in {"streaming", "ending", "ended", "crashed"}
  /\ Q(t) \in DOMAIN messages =>
       /\ turn[t].phase \in {"asked", "streaming", "ending", "ended", "crashed"}
       /\ messages[Q(t)].status # "streaming"
  /\ A(t) \in DOMAIN messages /\ messages[A(t)].status = "streaming" =>
       /\ messages[A(t)].author \in access /\ turn[t].phase \in {"streaming", "crashed"}
       /\ messages[A(t)].created <= turn[t].started + Lifetime
  /\ A(t) \in DOMAIN messages /\ Live(t) =>
       messages[A(t)].created >= turn[t].started /\ messages[A(t)].status # "error"

\* A lease is that of an append that is under way or has crashed.
LeaseFollows(l) ==
  /\ l.expires = turn[l.turn].started + TTL
  /\ Held(l.turn) \/ turn[l.turn].phase = "crashed"
  /\ Held(l.turn) => turn[l.turn].kind = "append" /\ l.parent = turn[l.turn].parent

\* What a turn that counts on its lease has.
HasLease(t) ==
  Live(t) /\ turn[t].leased =>
    \E l \in leases : l.turn = t /\ l.parent = turn[t].parent /\ l.user = turn[t].user

\* The inductive invariant.
IInv ==
  /\ TypeOK
  /\ Tree(messages)
  /\ TurnsInTime
  /\ \A t \in Turns : RowsFollow(t)
  /\ \A l \in leases : LeaseFollows(l)
  /\ \A t \in Turns : HasLease(t)
  /\ OneSendPerParent

-----------------------------------------------------------------------------
(* The records.                                                            *)

\* The fields of a row.
LEMMA RowFields ==
  ASSUME NEW p \in Ids, NEW role \in {"user", "assistant"}, NEW u \in Users,
         NEW s \in {"complete", "streaming", "stopping", "stopped", "error", "done"},
         NEW c \in 0..MaxNow,
         NEW x, x = [parent |-> p, role |-> role, author |-> u, status |-> s, created |-> c]
  PROVE  /\ x \in RowType
         /\ x.parent = p /\ x.role = role /\ x.author = u /\ x.status = s /\ x.created = c
BY DEF RowType

\* A row that gets another status.
LEMMA RowChanges ==
  ASSUME NEW x \in RowType,
         NEW s \in {"complete", "streaming", "stopping", "stopped", "error", "done"}
  PROVE  /\ [x EXCEPT !.status = s] \in RowType
         /\ [x EXCEPT !.status = s].status = s /\ [x EXCEPT !.status = s].parent = x.parent
         /\ [x EXCEPT !.status = s].role = x.role /\ [x EXCEPT !.status = s].author = x.author
         /\ [x EXCEPT !.status = s].created = x.created
<1>1. PICK p \in Ids, role \in {"user", "assistant"}, u \in Users,
           r \in {"complete", "streaming", "stopping", "stopped", "error", "done"},
           c \in 0..MaxNow :
        x = [parent |-> p, role |-> role, author |-> u, status |-> r, created |-> c]
  BY DEF RowType
<1>2. [x EXCEPT !.status = s]
        = [parent |-> p, role |-> role, author |-> u, status |-> s, created |-> c]
  BY <1>1
<1> QED BY <1>1, <1>2 DEF RowType

\* A row that gets another parent.
LEMMA RowMoves ==
  ASSUME NEW x \in RowType, NEW p
  PROVE  /\ [x EXCEPT !.parent = p].parent = p
         /\ p \in Ids => [x EXCEPT !.parent = p] \in RowType
         /\ [x EXCEPT !.parent = p].status = x.status
         /\ [x EXCEPT !.parent = p].author = x.author
         /\ [x EXCEPT !.parent = p].created = x.created
<1>1. PICK q \in Ids, role \in {"user", "assistant"}, u \in Users,
           r \in {"complete", "streaming", "stopping", "stopped", "error", "done"},
           c \in 0..MaxNow :
        x = [parent |-> q, role |-> role, author |-> u, status |-> r, created |-> c]
  BY DEF RowType
<1>2. [x EXCEPT !.parent = p]
        = [parent |-> p, role |-> role, author |-> u, status |-> r, created |-> c]
  BY <1>1
<1> QED BY <1>1, <1>2 DEF RowType

Phases == {"idle", "admitted", "running", "asked", "streaming", "ending", "ended", "crashed"}
Kinds == {"append", "edit", "regenerate"}

\* The turn with the given fields.
TurnOf(f, k, u, p, n, d, b) ==
  [phase |-> f, kind |-> k, user |-> u, parent |-> p, seen |-> n, started |-> d, leased |-> b]

\* Every turn has such fields.
LEMMA TurnForm ==
  ASSUME NEW x \in TurnType
  PROVE  /\ x = TurnOf(x.phase, x.kind, x.user, x.parent, x.seen, x.started, x.leased)
         /\ x.phase \in Phases /\ x.kind \in Kinds /\ x.user \in Users /\ x.parent \in Ids
         /\ x.seen \in Ids /\ x.started \in 0..MaxNow /\ x.leased \in BOOLEAN
BY DEF TurnType, TurnOf, Phases, Kinds

\* What the steps make of a turn.
LEMMA TurnChanges ==
  ASSUME NEW x \in TurnType
  PROVE  /\ \A f : [x EXCEPT !.phase = f]
                     = TurnOf(f, x.kind, x.user, x.parent, x.seen, x.started, x.leased)
         /\ \A f, n : [x EXCEPT !.phase = f, !.seen = n]
                        = TurnOf(f, x.kind, x.user, x.parent, n, x.started, x.leased)
         /\ [x EXCEPT !.leased = FALSE]
              = TurnOf(x.phase, x.kind, x.user, x.parent, x.seen, x.started, FALSE)
<1> DEFINE g == x.phase
           k == x.kind
           u == x.user
           p == x.parent
           m == x.seen
           d == x.started
           b == x.leased
           no == FALSE
<1>1. x = TurnOf(g, k, u, p, m, d, b)
  BY TurnForm
<1> HIDE DEF g, k, u, p, m, d, b, no
<1>2. ASSUME NEW f PROVE [x EXCEPT !.phase = f] = TurnOf(f, k, u, p, m, d, b)
  <2>1. [TurnOf(g, k, u, p, m, d, b) EXCEPT !.phase = f] = TurnOf(f, k, u, p, m, d, b)
    BY DEF TurnOf
  <2> QED BY <1>1, <2>1, Zenon
<1>3. ASSUME NEW f, NEW n
      PROVE  [x EXCEPT !.phase = f, !.seen = n] = TurnOf(f, k, u, p, n, d, b)
  <2>1. [TurnOf(f, k, u, p, m, d, b) EXCEPT !.seen = n] = TurnOf(f, k, u, p, n, d, b)
    BY DEF TurnOf
  <2>2. [x EXCEPT !.phase = f, !.seen = n] = [[x EXCEPT !.phase = f] EXCEPT !.seen = n]
    BY Zenon
  <2> QED BY <1>2, <2>1, <2>2, Zenon
<1>4. [x EXCEPT !.leased = no] = TurnOf(g, k, u, p, m, d, no)
  <2>1. [TurnOf(g, k, u, p, m, d, b) EXCEPT !.leased = no] = TurnOf(g, k, u, p, m, d, no)
    BY DEF TurnOf
  <2> QED BY <1>1, <2>1, Zenon
<1> QED BY <1>2, <1>3, <1>4, Zenon DEF g, k, u, p, m, d, b, no

\* A turn that has not begun, and those that are over.
LEMMA TurnsOver ==
  /\ Fresh = TurnOf("idle", "append", Owner, NoMessage, NoMessage, 0, FALSE)
  /\ \A f : Over(f) = TurnOf(f, "append", Owner, NoMessage, NoMessage, 0, FALSE)
  /\ \A f, d : [Over(f) EXCEPT !.started = d]
                 = TurnOf(f, "append", Owner, NoMessage, NoMessage, d, FALSE)
<1> DEFINE no == FALSE
<1>1. Fresh = TurnOf("idle", "append", Owner, NoMessage, NoMessage, 0, no)
  BY DEF Fresh, TurnOf
<1> HIDE DEF no
<1>2. ASSUME NEW f
      PROVE  Over(f) = TurnOf(f, "append", Owner, NoMessage, NoMessage, 0, no)
  <2>1. [TurnOf("idle", "append", Owner, NoMessage, NoMessage, 0, no) EXCEPT !.phase = f]
          = TurnOf(f, "append", Owner, NoMessage, NoMessage, 0, no)
    BY DEF TurnOf
  <2> QED BY <1>1, <2>1, Zenon DEF Over
<1>3. ASSUME NEW f, NEW d
      PROVE  [Over(f) EXCEPT !.started = d]
               = TurnOf(f, "append", Owner, NoMessage, NoMessage, d, no)
  <2>1. [TurnOf(f, "append", Owner, NoMessage, NoMessage, 0, no) EXCEPT !.started = d]
          = TurnOf(f, "append", Owner, NoMessage, NoMessage, d, no)
    BY DEF TurnOf
  <2> QED BY <1>2, <2>1, Zenon
<1> QED BY <1>1, <1>2, <1>3, Zenon DEF no

\* A turn that is admitted.
LEMMA TurnAdmitted ==
  ASSUME NEW u, NEW p, NEW d
  PROVE  [Fresh EXCEPT !.phase = "admitted", !.user = u, !.parent = p, !.started = d,
                       !.leased = TRUE]
           = TurnOf("admitted", "append", u, p, NoMessage, d, TRUE)
<1> DEFINE no == FALSE
           yes == TRUE
<1>0. Fresh = TurnOf("idle", "append", Owner, NoMessage, NoMessage, 0, no)
  BY DEF Fresh, TurnOf
<1> HIDE DEF no, yes
<1>1. [Fresh EXCEPT !.phase = "admitted", !.user = u, !.parent = p, !.started = d,
                    !.leased = TRUE]
        = [[[[[Fresh EXCEPT !.phase = "admitted"] EXCEPT !.user = u] EXCEPT !.parent = p]
             EXCEPT !.started = d] EXCEPT !.leased = yes]
  BY Zenon DEF yes
<1>2. [TurnOf("idle", "append", Owner, NoMessage, NoMessage, 0, no) EXCEPT !.phase = "admitted"]
        = TurnOf("admitted", "append", Owner, NoMessage, NoMessage, 0, no)
  BY DEF TurnOf
<1>3. [TurnOf("admitted", "append", Owner, NoMessage, NoMessage, 0, no) EXCEPT !.user = u]
        = TurnOf("admitted", "append", u, NoMessage, NoMessage, 0, no)
  BY DEF TurnOf
<1>4. [TurnOf("admitted", "append", u, NoMessage, NoMessage, 0, no) EXCEPT !.parent = p]
        = TurnOf("admitted", "append", u, p, NoMessage, 0, no)
  BY DEF TurnOf
<1>5. [TurnOf("admitted", "append", u, p, NoMessage, 0, no) EXCEPT !.started = d]
        = TurnOf("admitted", "append", u, p, NoMessage, d, no)
  BY DEF TurnOf
<1>6. [TurnOf("admitted", "append", u, p, NoMessage, d, no) EXCEPT !.leased = yes]
        = TurnOf("admitted", "append", u, p, NoMessage, d, yes)
  BY DEF TurnOf
<1>7. [Fresh EXCEPT !.phase = "admitted"]
        = TurnOf("admitted", "append", Owner, NoMessage, NoMessage, 0, no)
  BY <1>0, <1>2, Zenon
<1>8. [[Fresh EXCEPT !.phase = "admitted"] EXCEPT !.user = u]
        = TurnOf("admitted", "append", u, NoMessage, NoMessage, 0, no)
  BY <1>7, <1>3, Zenon
<1>9. [[[Fresh EXCEPT !.phase = "admitted"] EXCEPT !.user = u] EXCEPT !.parent = p]
        = TurnOf("admitted", "append", u, p, NoMessage, 0, no)
  BY <1>8, <1>4, Zenon
<1>10. [[[[Fresh EXCEPT !.phase = "admitted"] EXCEPT !.user = u] EXCEPT !.parent = p]
        EXCEPT !.started = d]
        = TurnOf("admitted", "append", u, p, NoMessage, d, no)
  BY <1>9, <1>5, Zenon
<1>11. [[[[[Fresh EXCEPT !.phase = "admitted"] EXCEPT !.user = u] EXCEPT !.parent = p]
        EXCEPT !.started = d] EXCEPT !.leased = yes]
        = TurnOf("admitted", "append", u, p, NoMessage, d, yes)
  BY <1>10, <1>6, Zenon
<1> QED BY <1>1, <1>11, Zenon DEF yes

\* A turn that begins without a lease.
LEMMA TurnBegun ==
  ASSUME NEW k, NEW u, NEW p, NEW d
  PROVE  [Fresh EXCEPT !.phase = "running", !.kind = k, !.user = u, !.parent = p, !.started = d]
           = TurnOf("running", k, u, p, NoMessage, d, FALSE)
<1> DEFINE no == FALSE
<1>0. Fresh = TurnOf("idle", "append", Owner, NoMessage, NoMessage, 0, no)
  BY DEF Fresh, TurnOf
<1> HIDE DEF no
<1>1. [Fresh EXCEPT !.phase = "running", !.kind = k, !.user = u, !.parent = p, !.started = d]
        = [[[[[Fresh EXCEPT !.phase = "running"] EXCEPT !.kind = k] EXCEPT !.user = u]
             EXCEPT !.parent = p] EXCEPT !.started = d]
  BY Zenon
<1>2. [TurnOf("idle", "append", Owner, NoMessage, NoMessage, 0, no) EXCEPT !.phase = "running"]
        = TurnOf("running", "append", Owner, NoMessage, NoMessage, 0, no)
  BY DEF TurnOf
<1>3. [TurnOf("running", "append", Owner, NoMessage, NoMessage, 0, no) EXCEPT !.kind = k]
        = TurnOf("running", k, Owner, NoMessage, NoMessage, 0, no)
  BY DEF TurnOf
<1>4. [TurnOf("running", k, Owner, NoMessage, NoMessage, 0, no) EXCEPT !.user = u]
        = TurnOf("running", k, u, NoMessage, NoMessage, 0, no)
  BY DEF TurnOf
<1>5. [TurnOf("running", k, u, NoMessage, NoMessage, 0, no) EXCEPT !.parent = p]
        = TurnOf("running", k, u, p, NoMessage, 0, no)
  BY DEF TurnOf
<1>6. [TurnOf("running", k, u, p, NoMessage, 0, no) EXCEPT !.started = d]
        = TurnOf("running", k, u, p, NoMessage, d, no)
  BY DEF TurnOf
<1>7. [Fresh EXCEPT !.phase = "running"]
        = TurnOf("running", "append", Owner, NoMessage, NoMessage, 0, no)
  BY <1>0, <1>2, Zenon
<1>8. [[Fresh EXCEPT !.phase = "running"] EXCEPT !.kind = k]
        = TurnOf("running", k, Owner, NoMessage, NoMessage, 0, no)
  BY <1>7, <1>3, Zenon
<1>9. [[[Fresh EXCEPT !.phase = "running"] EXCEPT !.kind = k] EXCEPT !.user = u]
        = TurnOf("running", k, u, NoMessage, NoMessage, 0, no)
  BY <1>8, <1>4, Zenon
<1>10. [[[[Fresh EXCEPT !.phase = "running"] EXCEPT !.kind = k] EXCEPT !.user = u]
        EXCEPT !.parent = p]
        = TurnOf("running", k, u, p, NoMessage, 0, no)
  BY <1>9, <1>5, Zenon
<1>11. [[[[[Fresh EXCEPT !.phase = "running"] EXCEPT !.kind = k] EXCEPT !.user = u]
        EXCEPT !.parent = p] EXCEPT !.started = d]
        = TurnOf("running", k, u, p, NoMessage, d, no)
  BY <1>10, <1>6, Zenon
<1> QED BY <1>1, <1>11, Zenon DEF no

-----------------------------------------------------------------------------
(* What the steps do to the rows.                                          *)

Settled == {"complete", "stopping", "stopped", "done"}

\* Whose a row is.
LEMMA RowNames ==
  /\ \A t \in Turns : Q(t) \in Rows /\ A(t) \in Rows /\ Q(t) # A(t) /\ A(t)[1] = t
  /\ \A t, s \in Turns : Q(t) # A(s) /\ (Q(t) = Q(s) => t = s) /\ (A(t) = A(s) => t = s)
  /\ \A m \in Rows : \E t \in Turns : m = Q(t) \/ m = A(t)
BY DEF Rows, Q, A

\* No row has the empty id.
LEMMA NamesAreIds ==
  ASSUME TurnAssumption
  PROVE  /\ NoMessage \notin Rows /\ Rows \subseteq Ids /\ NoMessage \in Ids
BY DEF TurnAssumption, Rows, Ids

\* A row only gets another status, and streams no longer if it is another one;
\* a row is declared interrupted only when it has outlived its turn.
Restated(ms, new) ==
  /\ DOMAIN new = DOMAIN ms
  /\ \A m \in DOMAIN ms :
       /\ new[m] \in RowType
       /\ new[m].parent = ms[m].parent /\ new[m].role = ms[m].role
       /\ new[m].author = ms[m].author /\ new[m].created = ms[m].created
       /\ \/ new[m].status = ms[m].status
          \/ new[m].status \in Settled
          \/ new[m].status = "error" /\ ms[m].created <= now - TTL

\* Settling the stale placeholders, one row by one row.
LEMMA StaleIsRestated ==
  ASSUME TypeOK
  PROVE  Restated(messages, SettleStale(messages))
<1> DEFINE new == SettleStale(messages)
<1>1. ASSUME NEW m \in DOMAIN messages
      PROVE  /\ new[m] \in RowType
             /\ new[m].parent = messages[m].parent /\ new[m].role = messages[m].role
             /\ new[m].author = messages[m].author /\ new[m].created = messages[m].created
             /\ \/ new[m].status = messages[m].status
                \/ new[m].status = "error" /\ messages[m].created <= now - TTL
  <2>1. messages[m] \in RowType
    BY DEF TypeOK
  <2>2. new[m] = IF messages[m].role = "assistant" /\ messages[m].status = "streaming"
                    /\ messages[m].created <= now - TTL
                 THEN [messages[m] EXCEPT !.status = "error"] ELSE messages[m]
    BY DEF SettleStale
  <2> DEFINE e == [messages[m] EXCEPT !.status = "error"]
  <2>3. /\ e \in RowType /\ e.status = "error" /\ e.parent = messages[m].parent
        /\ e.role = messages[m].role /\ e.author = messages[m].author
        /\ e.created = messages[m].created
    BY <2>1, RowChanges
  <2> HIDE DEF new, e
  <2>4. new[m] = messages[m] \/ (new[m] = e /\ messages[m].created <= now - TTL)
    BY <2>2 DEF e
  <2> QED BY <2>1, <2>3, <2>4
<1>2. DOMAIN new = DOMAIN messages
  BY DEF SettleStale
<1> HIDE DEF new
<1>3. Restated(messages, new)
  BY <1>1, <1>2 DEF Restated
<1> QED BY <1>3 DEF new

\* One row gets another status.
LEMMA OneIsRestated ==
  ASSUME TypeOK, NEW n \in DOMAIN messages, NEW s \in Settled
  PROVE  /\ Restated(messages, [messages EXCEPT ![n].status = s])
         /\ [messages EXCEPT ![n].status = s][n].status = s
         /\ \A m \in DOMAIN messages \ {n} : [messages EXCEPT ![n].status = s][m] = messages[m]
<1> DEFINE e == [messages[n] EXCEPT !.status = s]
           new == [messages EXCEPT ![n].status = s]
<1>1. /\ e \in RowType /\ e.status = s /\ e.parent = messages[n].parent
      /\ e.role = messages[n].role /\ e.author = messages[n].author
      /\ e.created = messages[n].created
  <2>1. messages[n] \in RowType
    BY DEF TypeOK
  <2>2. s \in {"complete", "streaming", "stopping", "stopped", "error", "done"}
    BY DEF Settled
  <2> QED BY <2>1, <2>2, RowChanges, ZenonT(60)
<1>2. new = [messages EXCEPT ![n] = e]
  BY Zenon
<1>3. messages \in [DOMAIN messages -> RowType]
  BY DEF TypeOK
<1> HIDE DEF e, new
<1>4. DOMAIN new = DOMAIN messages /\ new[n] = e
      /\ \A m \in DOMAIN messages \ {n} : new[m] = messages[m]
  BY <1>2, <1>3
<1>5. Restated(messages, new)
  BY <1>1, <1>3, <1>4 DEF Restated
<1> QED BY <1>1, <1>4, <1>5 DEF new

\* A member is removed.
LEMMA RemovalRestates ==
  ASSUME TypeOK, NEW u \in Users, RemoveMember(u)
  PROVE  /\ Restated(messages, messages')
         /\ \A m \in DOMAIN messages : messages'[m].status = "streaming" => messages[m].author # u
<1>1. ASSUME NEW m \in DOMAIN messages
      PROVE  /\ messages'[m] \in RowType
             /\ messages'[m].parent = messages[m].parent /\ messages'[m].role = messages[m].role
             /\ messages'[m].author = messages[m].author
             /\ messages'[m].created = messages[m].created
             /\ messages'[m].status = messages[m].status \/ messages'[m].status = "stopped"
             /\ messages'[m].status = "streaming" => messages[m].author # u
  <2>1. messages[m] \in RowType
    BY DEF TypeOK
  <2>2. messages'[m] = IF messages[m].status = "streaming" /\ messages[m].author = u
                       THEN [messages[m] EXCEPT !.status = "stopped"] ELSE messages[m]
    BY DEF RemoveMember
  <2> DEFINE e == [messages[m] EXCEPT !.status = "stopped"]
  <2>3. /\ e \in RowType /\ e.status = "stopped" /\ e.parent = messages[m].parent
        /\ e.role = messages[m].role /\ e.author = messages[m].author
        /\ e.created = messages[m].created
    BY <2>1, RowChanges
  <2> HIDE DEF e
  <2>4. \/ messages'[m] = messages[m]
           /\ ~(messages[m].status = "streaming" /\ messages[m].author = u)
        \/ messages'[m] = e
    BY <2>2 DEF e
  <2> QED BY <2>1, <2>3, <2>4
<1>2. DOMAIN messages' = DOMAIN messages
  BY DEF RemoveMember
<1> QED BY <1>1, <1>2 DEF Restated, Settled

\* What a turn that is over leaves of its placeholder.
LEMMA FinishRestates ==
  ASSUME TypeOK, NEW t \in Turns
  PROVE  /\ Restated(messages, Finished(t))
         /\ \A m \in DOMAIN messages \ {A(t)} : Finished(t)[m] = messages[m]
         /\ A(t) \in DOMAIN messages => Finished(t)[A(t)].status # "streaming"
         /\ Finished(t) \in [DOMAIN messages -> RowType]
<1>1. Restated(messages, messages) /\ messages \in [DOMAIN messages -> RowType]
  BY DEF Restated, TypeOK
<1>2. CASE Finished(t) = messages
           /\ (A(t) \in DOMAIN messages => messages[A(t)].status # "streaming")
  BY <1>1, <1>2, Zenon
<1>3. CASE A(t) \in DOMAIN messages
           /\ \E s \in {"stopped", "done"} : Finished(t) = [messages EXCEPT ![A(t)].status = s]
  <2>1. PICK s \in {"stopped", "done"} : Finished(t) = [messages EXCEPT ![A(t)].status = s]
    BY <1>3
  <2>2. A(t) \in DOMAIN messages
    BY <1>3
  <2> DEFINE new == [messages EXCEPT ![A(t)].status = s]
  <2>3. /\ Restated(messages, new) /\ new[A(t)].status = s
        /\ \A m \in DOMAIN messages \ {A(t)} : new[m] = messages[m]
    BY <2>2, OneIsRestated, ZenonT(60) DEF Settled
  <2>4. new = [m \in DOMAIN messages |-> new[m]]
    BY <1>1, Zenon
  <2> HIDE DEF new
  <2>5. new \in [DOMAIN messages -> RowType]
    BY <2>3, <2>4 DEF Restated
  <2>6. Finished(t) = new
    BY <2>1 DEF new
  <2> QED BY <2>3, <2>5, <2>6
<1>4. \/ Finished(t) = messages /\ (A(t) \in DOMAIN messages => messages[A(t)].status # "streaming")
      \/ A(t) \in DOMAIN messages
         /\ \E s \in {"stopped", "done"} : Finished(t) = [messages EXCEPT ![A(t)].status = s]
  BY Zenon DEF Finished
<1> QED BY <1>2, <1>3, <1>4

\* The rows after an insertion.
LEMMA InsertAddsOne ==
  ASSUME TurnAssumption, TypeOK, NEW n \in Rows, n \notin DOMAIN messages, NEW p \in Ids,
         NEW role \in {"user", "assistant"}, NEW u \in Users,
         NEW s \in {"complete", "streaming"},
         messages' = Insert(messages, n, p, role, u, s)
  PROVE  /\ DOMAIN messages' = DOMAIN messages \cup {n}
         /\ messages' \in [DOMAIN messages' -> RowType]
         /\ messages'[n].parent = p /\ messages'[n].author = u
         /\ messages'[n].status = s /\ messages'[n].created = now
         /\ \A m \in DOMAIN messages : messages'[m] = messages[m]
<1> DEFINE new == messages'
           x == [parent |-> p, role |-> role, author |-> u, status |-> s, created |-> now]
<1>1. /\ x \in RowType
      /\ x.parent = p /\ x.role = role /\ x.author = u /\ x.status = s /\ x.created = now
  BY RowFields DEF TypeOK
<1>2. new = [y \in DOMAIN messages \cup {n} |-> IF y = n THEN x ELSE messages[y]]
  BY DEF Insert
<1> HIDE DEF x, new
<1>3. /\ DOMAIN new = DOMAIN messages \cup {n} /\ new[n] = x
      /\ \A m \in DOMAIN messages : new[m] = messages[m]
  BY <1>2
<1>4. \A m \in DOMAIN new : new[m] \in RowType
  BY <1>1, <1>3 DEF TypeOK
<1> QED BY <1>1, <1>2, <1>3, <1>4 DEF new

\* What deleting a round does to the rows that stay.
LEMMA DeletionKeepsRows ==
  ASSUME TurnAssumption, TypeOK, NEW m \in DOMAIN messages,
         NEW new, new = RemainingRows(messages, m)
  PROVE  /\ DOMAIN new \subseteq DOMAIN messages /\ new \in [DOMAIN new -> RowType]
         /\ \A x \in DOMAIN new :
              /\ new[x].status = messages[x].status /\ new[x].author = messages[x].author
              /\ new[x].created = messages[x].created
<1> DEFINE up == messages[RoundHead(messages, m)].parent
           gone == DeletedRows(messages, m)
<1>1. up \in Ids
  <2>1. RoundHead(messages, m) \in DOMAIN messages
    BY DEF RoundHead, IsUser
  <2>2. messages[RoundHead(messages, m)] \in RowType
    BY <2>1 DEF TypeOK
  <2> QED BY <2>2 DEF RowType
<1>2. new = [x \in DOMAIN messages \ gone |->
              IF messages[x].parent \in gone THEN [messages[x] EXCEPT !.parent = up]
              ELSE messages[x]]
  BY DEF RemainingRows
<1> HIDE DEF up, gone
<1>3. ASSUME NEW x \in DOMAIN new
      PROVE  /\ new[x] \in RowType
             /\ new[x].status = messages[x].status /\ new[x].author = messages[x].author
             /\ new[x].created = messages[x].created
  <2>1. messages[x] \in RowType
    BY <1>2 DEF TypeOK
  <2> DEFINE e == [messages[x] EXCEPT !.parent = up]
  <2>2. /\ e \in RowType /\ e.status = messages[x].status /\ e.author = messages[x].author
        /\ e.created = messages[x].created
    <3>1. /\ up \in Ids => e \in RowType
          /\ e.status = messages[x].status /\ e.author = messages[x].author
          /\ e.created = messages[x].created
      BY <2>1, RowMoves, Zenon
    <3> QED BY <1>1, <3>1
  <2>3. new[x] = e \/ new[x] = messages[x]
    BY <1>2
  <2> HIDE DEF e
  <2> QED BY <2>1, <2>2, <2>3
<1>4. new = [x \in DOMAIN new |-> new[x]] /\ DOMAIN new \subseteq DOMAIN messages
  BY <1>2
<1> QED BY <1>3, <1>4

-----------------------------------------------------------------------------
(* What the steps do to the turns.                                         *)

\* A turn becomes another record.
LEMMA OneTurnMoves ==
  ASSUME TypeOK, NEW t \in Turns, NEW x \in TurnType, turn' = [turn EXCEPT ![t] = x]
  PROVE  /\ turn' \in [Turns -> TurnType] /\ turn'[t] = x
         /\ \A s \in Turns \ {t} : turn'[s] = turn[s]
BY DEF TypeOK

\* What the steps of a turn keep of the others, and of what it has itself: the
\* condition on the turn that moves is that a claim it has is one it had.
LEMMA ClaimsAreKept ==
  ASSUME TurnAssumption, IInv, NEW t \in Turns,
         \A s \in Turns \ {t} : turn'[s] = turn[s], now' = now,
         turn'[t].started <= now, Held(t)' => now <= turn'[t].started + Lifetime,
         leases' \subseteq leases, \A l \in leases : l.turn # t => l \in leases',
         \A l \in leases' : l.turn = t => LeaseFollows(l)',
         Live(t)' /\ turn'[t].leased =>
           /\ Live(t) /\ turn[t].leased /\ leases' = leases
           /\ turn'[t].user = turn[t].user /\ turn'[t].parent = turn[t].parent
  PROVE  /\ TurnsInTime' /\ OneSendPerParent'
         /\ \A l \in leases' : LeaseFollows(l)'
         /\ \A s \in Turns : HasLease(s)'
<1>1. TurnsInTime'
  BY DEF IInv, TurnsInTime, Held
<1>2. OneSendPerParent'
  BY DEF IInv, OneSendPerParent, Live
<1>3. ASSUME NEW l \in leases' PROVE LeaseFollows(l)'
  <2>1. CASE l.turn = t
    BY <2>1
  <2>2. CASE l.turn # t
    <3>1. l.turn \in Turns
      BY DEF IInv, TypeOK, LeaseType
    <3> QED BY <2>2, <3>1 DEF IInv, LeaseFollows, Held
  <2> QED BY <2>1, <2>2
<1>4. ASSUME NEW s \in Turns PROVE HasLease(s)'
  <2>1. CASE s = t
    BY <2>1 DEF IInv, HasLease, Live
  <2>2. CASE s # t
    BY <2>2 DEF IInv, HasLease, Live
  <2> QED BY <2>1, <2>2
<1> QED BY <1>1, <1>2, <1>3, <1>4

\* The rows of a turn that does not move, as long as they only settle.
LEMMA RowsOfOthers ==
  ASSUME TurnAssumption, IInv, NEW s \in Turns, turn'[s] = turn[s], now' = now,
         access' = access,
         Q(s) \in DOMAIN messages' =>
           Q(s) \in DOMAIN messages /\ messages'[Q(s)].status = messages[Q(s)].status,
         A(s) \in DOMAIN messages' =>
           /\ A(s) \in DOMAIN messages /\ messages'[A(s)].status = messages[A(s)].status
           /\ messages'[A(s)].author = messages[A(s)].author
           /\ messages'[A(s)].created = messages[A(s)].created
  PROVE  RowsFollow(s)'
BY DEF IInv, RowsFollow, Live, Held, Q, A

\* Rows that are only settled are still those of their turns.
LEMMA RowsOfRestated ==
  ASSUME TurnAssumption, IInv, Restated(messages, messages'), now' = now,
         NEW s \in Turns, turn'[s] = turn[s],
         A(s) \in DOMAIN messages /\ messages'[A(s)].status = "streaming" =>
           messages[A(s)].author \in access'
  PROVE  RowsFollow(s)'
<1>1. RowsFollow(s) /\ TurnsInTime
  BY DEF IInv
<1>2. Q(s) \in DOMAIN messages' => messages'[Q(s)].status # "streaming"
  BY <1>1 DEF Restated, RowsFollow, Settled
<1>3. A(s) \in DOMAIN messages' /\ messages'[A(s)].status = "streaming" =>
        messages[A(s)].status = "streaming"
  BY DEF Restated, Settled
<1>4. A(s) \in DOMAIN messages' /\ Live(s) => messages'[A(s)].status # "error"
  <2> SUFFICES ASSUME A(s) \in DOMAIN messages', Live(s), messages'[A(s)].status = "error"
               PROVE  FALSE
    OBVIOUS
  <2>1. A(s) \in DOMAIN messages /\ messages[A(s)].status # "error"
        /\ messages[A(s)].created >= turn[s].started
    BY <1>1 DEF RowsFollow, Restated
  <2>2. messages[A(s)].created <= now - TTL
    BY <2>1 DEF Restated, Settled
  <2>3. now <= turn[s].started + Lifetime
    BY <1>1 DEF TurnsInTime, Held, Live
  <2>4. turn[s].started \in Nat /\ messages[A(s)].created \in Nat /\ now \in Nat
    BY <2>1 DEF IInv, TypeOK, TurnType, RowType
  <2> QED BY <2>1, <2>2, <2>3, <2>4 DEF TurnAssumption
<1> QED BY <1>1, <1>2, <1>3, <1>4 DEF RowsFollow, Restated, Live

-----------------------------------------------------------------------------
(* The steps of a turn.                                                    *)

\* Where an append or the question of an append may go.
LEMMA ParentsAreIds ==
  ASSUME TurnAssumption, IInv
  PROVE  /\ DeepestLeaves(messages, NoMessage) \subseteq DOMAIN messages \cup {NoMessage}
         /\ \A p \in DOMAIN messages \cup {NoMessage} :
              AppendParents(p) \subseteq DOMAIN messages \cup {NoMessage}
         /\ \A t \in Turns : QuestionParents(t) \subseteq DOMAIN messages \cup {NoMessage}
         /\ DOMAIN messages \cup {NoMessage} \subseteq Ids
<1>1. DeepestLeaves(messages, NoMessage) \subseteq DOMAIN messages \cup {NoMessage}
  BY LeavesAreRows DEF IInv, Tree
<1>2. ASSUME NEW p \in DOMAIN messages \cup {NoMessage}
      PROVE  AppendParents(p) \subseteq DOMAIN messages \cup {NoMessage}
  BY <1>1 DEF AppendParents
<1>3. ASSUME NEW t \in Turns
      PROVE  QuestionParents(t) \subseteq DOMAIN messages \cup {NoMessage}
  BY <1>1 DEF QuestionParents, RecoveredParents
<1>4. DOMAIN messages \cup {NoMessage} \subseteq Ids
  BY NamesAreIds DEF IInv, TypeOK
<1> QED BY <1>1, <1>2, <1>3, <1>4

\* A turn whose rows and leases stay as they are: it begins, goes on, gives up
\* or dies.
LEMMA QuietMove ==
  ASSUME TurnAssumption, IInv, NEW t \in Turns, NEW x \in TurnType,
         turn' = [turn EXCEPT ![t] = x],
         UNCHANGED <<messages, leaf, leases, access, deleted, now>>,
         x.phase \in Phases \ {"idle"},
         A(t) \in DOMAIN messages => x.phase = "crashed" /\ Held(t),
         Q(t) \in DOMAIN messages => x.phase \in {"asked", "ending", "ended", "crashed"},
         x.started <= now,
         x.phase \notin {"ended", "crashed"} => now <= x.started + Lifetime,
         x.phase = "crashed" => x.started = turn[t].started,
         \A l \in leases : l.turn = t =>
           /\ x.started = turn[t].started /\ x.phase \notin {"idle", "ended"}
           /\ x.phase # "crashed" =>
                Held(t) /\ x.kind = turn[t].kind /\ x.parent = turn[t].parent,
         x.phase \in {"admitted", "running", "asked"} /\ x.leased =>
           /\ Live(t) /\ turn[t].leased
           /\ x.user = turn[t].user /\ x.parent = turn[t].parent,
         x.phase # "streaming"
  PROVE  IInv'
<1>1. /\ turn' \in [Turns -> TurnType] /\ turn'[t] = x
      /\ \A s \in Turns \ {t} : turn'[s] = turn[s]
  BY OneTurnMoves DEF IInv
<1>2. TypeOK'
  BY <1>1 DEF IInv, TypeOK
<1>3. Tree(messages)'
  BY DEF IInv
<1>4. ASSUME NEW l \in leases', l.turn = t PROVE LeaseFollows(l)'
  BY <1>1, <1>4 DEF IInv, LeaseFollows, Held, Phases
<1>5. TurnsInTime' /\ OneSendPerParent' /\ (\A l \in leases' : LeaseFollows(l)')
      /\ (\A s \in Turns : HasLease(s)')
  BY <1>1, <1>4, ClaimsAreKept DEF Live, Held, Phases
<1>6. ASSUME NEW s \in Turns PROVE RowsFollow(s)'
  <2>1. CASE s = t
    BY <1>1, <2>1 DEF IInv, RowsFollow, Live, Held, Q, A, Phases
  <2>2. CASE s # t
    BY <1>1, <2>2, RowsOfOthers
  <2> QED BY <2>1, <2>2
<1> QED BY <1>2, <1>3, <1>5, <1>6 DEF IInv

\* An edit begins.
LEMMA EditKeeps ==
  ASSUME TurnAssumption, IInv, NEW t \in Turns, Edit(t)
  PROVE  IInv'
<1>1. PICK u \in access, p \in DOMAIN messages \cup {NoMessage} :
        turn' = [turn EXCEPT ![t] = [Fresh EXCEPT !.phase = "running", !.kind = "edit",
                  !.user = u, !.parent = p, !.started = now]]
  BY DEF Edit
<1> DEFINE x == TurnOf("running", "edit", u, p, NoMessage, now, FALSE)
<1>2. turn' = [turn EXCEPT ![t] = x]
  <2>1. [Fresh EXCEPT !.phase = "running", !.kind = "edit", !.user = u, !.parent = p,
                      !.started = now] = x
    BY TurnBegun, Zenon
  <2> QED BY <1>1, <2>1, Zenon
<1>3. u \in Users /\ p \in Ids /\ now \in 0..MaxNow /\ NoMessage \in Ids
  BY ParentsAreIds, NamesAreIds DEF IInv, TypeOK
<1>4. /\ x \in TurnType
      /\ x.phase = "running" /\ x.started = now /\ x.leased = FALSE
  BY <1>3 DEF TurnOf, TurnType
<1> HIDE DEF x
<1>5. turn[t].phase = "idle" /\ UNCHANGED <<messages, leaf, leases, access, deleted, now>>
  BY DEF Edit
<1>6. A(t) \notin DOMAIN messages /\ Q(t) \notin DOMAIN messages
  BY <1>5 DEF IInv, RowsFollow
<1>7. \A l \in leases : l.turn # t
  BY <1>5 DEF IInv, LeaseFollows, Held
<1>8. now <= now + Lifetime /\ now <= now
  BY <1>3 DEF TurnAssumption
<1> QED BY <1>2, <1>4, <1>5, <1>6, <1>7, <1>8, QuietMove DEF Phases

\* A regeneration begins.
LEMMA RegenerateKeeps ==
  ASSUME TurnAssumption, IInv, NEW t \in Turns, Regenerate(t)
  PROVE  IInv'
<1>1. PICK u \in access, m \in DOMAIN messages :
        turn' = [turn EXCEPT ![t] = [Fresh EXCEPT !.phase = "running", !.kind = "regenerate",
                  !.user = u, !.parent = messages[m].parent, !.started = now]]
  BY DEF Regenerate
<1> DEFINE x == TurnOf("running", "regenerate", u, messages[m].parent, NoMessage, now, FALSE)
<1>2. turn' = [turn EXCEPT ![t] = x]
  <2>1. [Fresh EXCEPT !.phase = "running", !.kind = "regenerate", !.user = u,
                      !.parent = messages[m].parent, !.started = now] = x
    BY TurnBegun, Zenon
  <2> QED BY <1>1, <2>1, Zenon
<1>3. u \in Users /\ messages[m].parent \in Ids /\ now \in 0..MaxNow /\ NoMessage \in Ids
  BY NamesAreIds DEF IInv, TypeOK, RowType
<1>4. /\ x \in TurnType
      /\ x.phase = "running" /\ x.started = now /\ x.leased = FALSE
  BY <1>3 DEF TurnOf, TurnType
<1> HIDE DEF x
<1>5. turn[t].phase = "idle" /\ UNCHANGED <<messages, leaf, leases, access, deleted, now>>
  BY DEF Regenerate
<1>6. A(t) \notin DOMAIN messages /\ Q(t) \notin DOMAIN messages
  BY <1>5 DEF IInv, RowsFollow
<1>7. \A l \in leases : l.turn # t
  BY <1>5 DEF IInv, LeaseFollows, Held
<1>8. now <= now + Lifetime /\ now <= now
  BY <1>3 DEF TurnAssumption
<1> QED BY <1>2, <1>4, <1>5, <1>6, <1>7, <1>8, QuietMove DEF Phases

\* What a turn that is under way is.
LEMMA TurnUnderWay ==
  ASSUME TurnAssumption, IInv, NEW t \in Turns
  PROVE  /\ turn[t] \in TurnType
         /\ turn[t].phase \in Phases /\ turn[t].kind \in Kinds /\ turn[t].user \in Users
         /\ turn[t].parent \in Ids /\ turn[t].seen \in Ids /\ turn[t].started \in 0..MaxNow
         /\ turn[t].leased \in BOOLEAN
         /\ turn[t].started <= now /\ (Held(t) => now <= turn[t].started + Lifetime)
         /\ RowsFollow(t)
         /\ \A l \in leases : LeaseFollows(l)
         /\ NoMessage \in Ids /\ Owner \in Users /\ leaf \in Ids
         /\ now \in 0..MaxNow /\ 0 \in 0..MaxNow
<1>1. turn[t] \in TurnType /\ leaf \in Ids /\ now \in 0..MaxNow
  BY DEF IInv, TypeOK
<1>2. turn[t].started <= now /\ (Held(t) => now <= turn[t].started + Lifetime)
  BY DEF IInv, TurnsInTime
<1>3. RowsFollow(t) /\ \A l \in leases : LeaseFollows(l)
  BY DEF IInv
<1>4. Owner \in Users /\ 0 \in 0..MaxNow
  BY DEF TurnAssumption
<1> QED BY <1>1, <1>2, <1>3, <1>4, TurnForm, NamesAreIds

\* A turn loads the conversation.
LEMMA LoadKeeps ==
  ASSUME TurnAssumption, IInv, NEW t \in Turns, Load(t)
  PROVE  IInv'
<1> DEFINE o == turn[t]
           x == TurnOf("running", o.kind, o.user, o.parent, leaf, o.started, o.leased)
<1>1. /\ o \in TurnType /\ o.kind \in Kinds /\ o.user \in Users /\ o.parent \in Ids
      /\ o.started \in 0..MaxNow /\ o.leased \in BOOLEAN /\ leaf \in Ids
      /\ o.started <= now /\ (Held(t) => now <= o.started + Lifetime)
      /\ RowsFollow(t) /\ \A l \in leases : LeaseFollows(l)
  BY TurnUnderWay
<1>2. /\ o.phase = "admitted" /\ UNCHANGED <<messages, leaf, leases, access, deleted, now>>
      /\ turn' = [turn EXCEPT ![t] = [o EXCEPT !.phase = "running", !.seen = leaf]]
  BY Zenon DEF Load
<1>3. turn' = [turn EXCEPT ![t] = x]
  BY <1>1, <1>2, TurnChanges, ZenonT(60)
<1>4. /\ x \in TurnType /\ x.phase = "running" /\ x.kind = o.kind /\ x.user = o.user
      /\ x.parent = o.parent /\ x.started = o.started /\ x.leased = o.leased
  BY <1>1 DEF TurnOf, TurnType, Kinds
<1> HIDE DEF x
<1>5. Live(t) /\ Held(t)
  BY <1>2 DEF Live, Held
<1>6. A(t) \notin DOMAIN messages /\ Q(t) \notin DOMAIN messages
  BY <1>1, <1>2 DEF RowsFollow
<1> QED BY <1>1, <1>2, <1>3, <1>4, <1>5, <1>6, QuietMove DEF Phases

\* A turn inserts a row below a row, or a first question.
LEMMA InsertMove ==
  ASSUME TurnAssumption, IInv, NEW t \in Turns, NEW x \in TurnType, Live(t),
         turn' = [turn EXCEPT ![t] = x],
         x.kind = turn[t].kind, x.user = turn[t].user, x.parent = turn[t].parent,
         x.started = turn[t].started, x.leased = turn[t].leased,
         UNCHANGED <<leases, access, deleted, now>>, leaf' \in Ids,
         NEW n \in Rows, n \notin DOMAIN messages, NEW p \in DOMAIN messages \cup {NoMessage},
         NEW role \in {"user", "assistant"}, NEW s \in {"complete", "streaming"},
         messages' = Insert(messages, n, p, role, turn[t].user, s),
         \/ n = Q(t) /\ s = "complete" /\ x.phase = "asked" /\ A(t) \notin DOMAIN messages
         \/ n = A(t) /\ s = "streaming" /\ x.phase = "streaming" /\ turn[t].user \in access
  PROVE  IInv'
<1>1. /\ turn' \in [Turns -> TurnType] /\ turn'[t] = x
      /\ \A r \in Turns \ {t} : turn'[r] = turn[r]
  BY OneTurnMoves DEF IInv
<1>2. turn[t].user \in Users /\ p \in Ids /\ now \in 0..MaxNow /\ now <= turn[t].started + Lifetime
      /\ turn[t].started <= now /\ RowsFollow(t)
  BY TurnUnderWay, ParentsAreIds DEF Live, Held
<1>3. /\ DOMAIN messages' = DOMAIN messages \cup {n}
      /\ messages' \in [DOMAIN messages' -> RowType]
      /\ messages'[n].parent = p /\ messages'[n].author = turn[t].user
      /\ messages'[n].status = s /\ messages'[n].created = now
      /\ \A m \in DOMAIN messages : messages'[m] = messages[m]
  <2>1. TypeOK
    BY DEF IInv
  <2> DEFINE u == turn[t].user
  <2>2. u \in Users /\ p \in Ids /\ messages' = Insert(messages, n, p, role, u, s)
    BY <1>2
  <2> HIDE DEF u
  <2>3. /\ DOMAIN messages' = DOMAIN messages \cup {n}
        /\ messages' \in [DOMAIN messages' -> RowType]
        /\ messages'[n].parent = p /\ messages'[n].author = u
        /\ messages'[n].status = s /\ messages'[n].created = now
        /\ \A m \in DOMAIN messages : messages'[m] = messages[m]
    <3>1. DOMAIN messages' = DOMAIN messages \cup {n}
      BY ONLY TurnAssumption, <2>1, <2>2, n \notin DOMAIN messages, InsertAddsOne
    <3>2. messages' \in [DOMAIN messages' -> RowType]
      BY ONLY TurnAssumption, <2>1, <2>2, n \notin DOMAIN messages, InsertAddsOne
    <3>3. messages'[n].parent = p /\ messages'[n].author = u
      BY ONLY TurnAssumption, <2>1, <2>2, n \notin DOMAIN messages, InsertAddsOne, ZenonT(60)
    <3>4. messages'[n].status = s
      BY ONLY TurnAssumption, <2>1, <2>2, n \notin DOMAIN messages, InsertAddsOne
    <3>5. messages'[n].created = now
      BY ONLY TurnAssumption, <2>1, <2>2, n \notin DOMAIN messages, InsertAddsOne
    <3>6. \A m \in DOMAIN messages : messages'[m] = messages[m]
      BY ONLY TurnAssumption, <2>1, <2>2, n \notin DOMAIN messages, InsertAddsOne
    <3> QED BY <3>1, <3>2, <3>3, <3>4, <3>5, <3>6
  <2> QED BY <2>3 DEF u
<1>4. TypeOK'
  BY <1>1, <1>3 DEF IInv, TypeOK
<1>5. Tree(messages')
  <2>1. n # NoMessage /\ Tree(messages)
    BY NamesAreIds DEF IInv
  <2> QED BY <1>3, <2>1, GrownTree
<1>6. ASSUME NEW l \in leases', l.turn = t PROVE LeaseFollows(l)'
  BY <1>1, <1>6 DEF IInv, LeaseFollows, Held, Live
<1>7. TurnsInTime' /\ OneSendPerParent' /\ (\A l \in leases' : LeaseFollows(l)')
      /\ (\A r \in Turns : HasLease(r)')
  BY <1>1, <1>2, <1>6, ClaimsAreKept DEF Live, Held
<1>8. ASSUME NEW r \in Turns PROVE RowsFollow(r)'
  <2>1. CASE r = t
    <3>1. CASE n = Q(t)
      <4>1. A(t) \notin DOMAIN messages'
        BY <1>3, <3>1, RowNames
      <4>2. messages'[Q(t)].status = "complete" /\ x.phase = "asked"
        BY <1>3, <3>1, RowNames
      <4> QED BY <1>1, <2>1, <4>1, <4>2 DEF RowsFollow, Q, A, Live
    <3>2. CASE n = A(t)
      <4>1. Q(t) # A(t)
        BY RowNames
      <4>2. x.phase = "streaming" /\ turn[t].user \in access /\ s = "streaming"
        BY <3>2, <4>1
      <4>3. Q(t) \in DOMAIN messages' => messages'[Q(t)].status # "streaming"
        BY <1>2, <1>3, <3>2, <4>1 DEF RowsFollow
      <4>4. /\ A(t)' = A(t) /\ Q(t)' = Q(t) /\ access' = access
            /\ messages'[A(t)].author = turn[t].user
            /\ messages'[A(t)].created = now /\ messages'[A(t)].status = "streaming"
        BY <1>3, <3>2, <4>2 DEF Q, A
      <4> QED BY <1>1, <1>2, <2>1, <4>2, <4>3, <4>4 DEF RowsFollow, Live
    <3> QED BY <3>1, <3>2
  <2>2. CASE r # t
    <3>1. n # Q(r) /\ n # A(r)
      BY <2>2, RowNames
    <3> QED BY <1>1, <1>3, <2>2, <3>1, RowsOfOthers
  <2> QED BY <2>1, <2>2
<1> QED BY <1>4, <1>5, <1>7, <1>8 DEF IInv

\* A turn asks its question.
LEMMA AskKeeps ==
  ASSUME TurnAssumption, IInv, NEW t \in Turns, Ask(t)
  PROVE  IInv'
<1> DEFINE o == turn[t]
           x == TurnOf("asked", o.kind, o.user, o.parent, NoMessage, o.started, o.leased)
<1>1. /\ o \in TurnType /\ o.kind \in Kinds /\ o.user \in Users /\ o.parent \in Ids
      /\ o.started \in 0..MaxNow /\ o.leased \in BOOLEAN /\ NoMessage \in Ids
      /\ o.started <= now /\ (Held(t) => now <= o.started + Lifetime)
      /\ RowsFollow(t) /\ \A l \in leases : LeaseFollows(l)
  BY TurnUnderWay
<1>2. /\ o.phase = "running" /\ UNCHANGED <<leases, access, deleted, now>>
      /\ turn' = [turn EXCEPT ![t] = [o EXCEPT !.phase = "asked", !.seen = NoMessage]]
  BY Zenon DEF Ask
<1>3. turn' = [turn EXCEPT ![t] = x]
  BY <1>1, <1>2, TurnChanges, ZenonT(60)
<1>4. /\ x \in TurnType /\ x.phase = "asked" /\ x.kind = o.kind /\ x.user = o.user
      /\ x.parent = o.parent /\ x.started = o.started /\ x.leased = o.leased
  BY <1>1 DEF TurnOf, TurnType, Kinds
<1> HIDE DEF x
<1>5. Live(t) /\ Held(t)
  BY <1>2 DEF Live, Held
<1>6. A(t) \notin DOMAIN messages /\ Q(t) \notin DOMAIN messages
  BY <1>1, <1>2 DEF RowsFollow
<1>7. CASE UNCHANGED <<messages, leaf>>
  BY <1>1, <1>2, <1>3, <1>4, <1>5, <1>6, <1>7, QuietMove DEF Phases
<1>8. CASE (\E p \in QuestionParents(t) :
              messages' = Insert(messages, Q(t), p, "user", o.user, "complete")) /\ leaf' = Q(t)
  <2>1. PICK p \in QuestionParents(t) :
          messages' = Insert(messages, Q(t), p, "user", o.user, "complete")
    BY <1>8
  <2>2. p \in DOMAIN messages \cup {NoMessage}
    BY ParentsAreIds
  <2>3. Q(t) \in Rows /\ leaf' \in Ids
    BY <1>8, RowNames, NamesAreIds
  <2> QED BY <1>2, <1>3, <1>4, <1>5, <1>6, <2>1, <2>2, <2>3, InsertMove
<1> QED BY <1>7, <1>8 DEF Ask

\* A turn inserts its placeholder.
LEMMA PlaceKeeps ==
  ASSUME TurnAssumption, IInv, NEW t \in Turns, Place(t)
  PROVE  IInv'
<1> DEFINE o == turn[t]
           x == TurnOf("streaming", o.kind, o.user, o.parent, o.seen, o.started, o.leased)
<1>1. /\ o \in TurnType /\ o.kind \in Kinds /\ o.user \in Users /\ o.parent \in Ids
      /\ o.started \in 0..MaxNow /\ o.leased \in BOOLEAN /\ o.seen \in Ids
      /\ RowsFollow(t)
  BY TurnUnderWay
<1>2. /\ o.phase = "asked" /\ o.user \in access /\ UNCHANGED <<leases, access, deleted, now>>
      /\ turn' = [turn EXCEPT ![t].phase = "streaming"]
      /\ QuestionOf(t) \in DOMAIN messages /\ leaf' = A(t)
      /\ messages' = Insert(messages, A(t), QuestionOf(t), "assistant", o.user, "streaming")
  BY Zenon DEF Place
<1>3. turn' = [turn EXCEPT ![t] = x]
  BY <1>1, <1>2, TurnChanges, Zenon
<1>4. /\ x \in TurnType /\ x.phase = "streaming" /\ x.kind = o.kind /\ x.user = o.user
      /\ x.parent = o.parent /\ x.started = o.started /\ x.leased = o.leased
  BY <1>1 DEF TurnOf, TurnType, Kinds
<1> HIDE DEF x
<1>5. Live(t)
  BY <1>2 DEF Live
<1>6. A(t) \notin DOMAIN messages
  BY <1>1, <1>2 DEF RowsFollow
<1>7. A(t) \in Rows /\ A(t) \in Ids
  BY RowNames, NamesAreIds
<1> QED BY <1>2, <1>3, <1>4, <1>5, <1>6, <1>7, InsertMove

\* The record of a turn whose handler is over.
LEMMA TurnLeaves ==
  ASSUME TurnAssumption, IInv, NEW t \in Turns
  PROVE  \E x \in TurnType :
           /\ Leave(t) = [turn EXCEPT ![t] = x]
           /\ \/ /\ turn[t].kind = "append" /\ x.phase = "ending" /\ x.kind = "append"
                 /\ x.parent = turn[t].parent /\ x.started = turn[t].started
              \/ turn[t].kind # "append" /\ x.phase = "ended" /\ x.started = 0
<1> DEFINE o == turn[t]
<1>1. /\ o \in TurnType /\ o.kind \in Kinds /\ o.user \in Users /\ o.parent \in Ids
      /\ o.started \in 0..MaxNow /\ o.leased \in BOOLEAN /\ NoMessage \in Ids
      /\ Owner \in Users /\ 0 \in 0..MaxNow
  BY TurnUnderWay
<1>2. CASE o.kind = "append"
  <2> DEFINE x == TurnOf("ending", o.kind, o.user, o.parent, NoMessage, o.started, o.leased)
  <2>1. Leave(t) = [turn EXCEPT ![t] = [o EXCEPT !.phase = "ending", !.seen = NoMessage]]
    BY <1>2, Zenon DEF Leave
  <2>2. [o EXCEPT !.phase = "ending", !.seen = NoMessage] = x
    BY <1>1, TurnChanges, Zenon
  <2>9. Leave(t) = [turn EXCEPT ![t] = x]
    BY <2>1, <2>2, Zenon
  <2>3. /\ x \in TurnType /\ x.phase = "ending" /\ x.kind = o.kind
        /\ x.parent = o.parent /\ x.started = o.started
    BY <1>1 DEF TurnOf, TurnType, Kinds
  <2> HIDE DEF x
  <2> QED BY <1>2, <2>9, <2>3
<1>3. CASE o.kind # "append"
  <2> DEFINE x == TurnOf("ended", "append", Owner, NoMessage, NoMessage, 0, FALSE)
  <2>1. Leave(t) = [turn EXCEPT ![t] = x]
    BY <1>3, TurnsOver, Zenon DEF Leave
  <2>2. x \in TurnType /\ x.phase = "ended" /\ x.started = 0
    BY <1>1 DEF TurnOf, TurnType
  <2> HIDE DEF x
  <2> QED BY <1>3, <2>1, <2>2
<1> QED BY <1>2, <1>3

\* A turn ends before its placeholder exists.
LEMMA GiveUpKeeps ==
  ASSUME TurnAssumption, IInv, NEW t \in Turns, GiveUp(t)
  PROVE  IInv'
<1>1. PICK x \in TurnType :
        /\ Leave(t) = [turn EXCEPT ![t] = x]
        /\ \/ /\ turn[t].kind = "append" /\ x.phase = "ending" /\ x.kind = "append"
              /\ x.parent = turn[t].parent /\ x.started = turn[t].started
           \/ turn[t].kind # "append" /\ x.phase = "ended" /\ x.started = 0
  BY TurnLeaves
<1>2. /\ turn[t].phase \in {"admitted", "running", "asked"} /\ turn' = [turn EXCEPT ![t] = x]
      /\ UNCHANGED <<messages, leaf, leases, access, deleted, now>>
  BY <1>1 DEF GiveUp
<1>3. /\ turn[t].started <= now /\ (Held(t) => now <= turn[t].started + Lifetime)
      /\ RowsFollow(t) /\ (\A l \in leases : LeaseFollows(l)) /\ now \in 0..MaxNow
  BY TurnUnderWay
<1>4. Held(t) /\ A(t) \notin DOMAIN messages
  BY <1>2, <1>3 DEF Held, RowsFollow
<1>5. \A l \in leases : l.turn = t => turn[t].kind = "append"
  BY <1>3, <1>4 DEF LeaseFollows
<1>6. x.started <= now /\ x.phase \in {"ending", "ended"}
  BY <1>1, <1>3
<1>7. x.phase \notin {"ended", "crashed"} => now <= x.started + Lifetime
  BY <1>1, <1>3, <1>4
<1>8. \A l \in leases : l.turn = t =>
        /\ x.started = turn[t].started /\ x.phase \notin {"idle", "ended"}
        /\ x.phase # "crashed" =>
             Held(t) /\ x.kind = turn[t].kind /\ x.parent = turn[t].parent
  BY <1>1, <1>4, <1>5
<1>9. ~(x.phase \in {"admitted", "running", "asked"} /\ x.leased)
  BY <1>6
<1>10. x.phase \in Phases \ {"idle"} /\ x.phase # "streaming"
       /\ x.phase \in {"asked", "ending", "ended", "crashed"}
  BY <1>6 DEF Phases
<1> QED BY <1>2, <1>4, <1>6, <1>7, <1>8, <1>9, <1>10, QuietMove

\* A replica dies with a turn.
LEMMA CrashKeeps ==
  ASSUME TurnAssumption, IInv, NEW t \in Turns, Crash(t)
  PROVE  IInv'
<1> DEFINE x == TurnOf("crashed", "append", Owner, NoMessage, NoMessage, turn[t].started, FALSE)
<1>1. /\ turn[t].started \in 0..MaxNow /\ NoMessage \in Ids /\ Owner \in Users
      /\ turn[t].started <= now
  BY TurnUnderWay
<1>2. turn' = [turn EXCEPT ![t] = x]
  BY TurnsOver, Zenon DEF Crash
<1>3. /\ x \in TurnType /\ x.phase = "crashed" /\ x.started = turn[t].started
      /\ x.leased = FALSE
  BY <1>1 DEF TurnOf, TurnType
<1> HIDE DEF x
<1>4. Held(t) /\ UNCHANGED <<messages, leaf, leases, access, deleted, now>>
  BY DEF Crash
<1>5. \A l \in leases : l.turn = t =>
        /\ x.started = turn[t].started /\ x.phase \notin {"idle", "ended"}
        /\ x.phase # "crashed" =>
             Held(t) /\ x.kind = turn[t].kind /\ x.parent = turn[t].parent
  BY <1>3
<1> QED BY <1>1, <1>2, <1>3, <1>4, <1>5, QuietMove DEF Phases

\* A turn writes its answer, or what is left of it.
LEMMA FinishKeeps ==
  ASSUME TurnAssumption, IInv, NEW t \in Turns, Finish(t)
  PROVE  IInv'
<1>1. PICK x \in TurnType :
        /\ Leave(t) = [turn EXCEPT ![t] = x]
        /\ \/ /\ turn[t].kind = "append" /\ x.phase = "ending" /\ x.kind = "append"
              /\ x.parent = turn[t].parent /\ x.started = turn[t].started
           \/ turn[t].kind # "append" /\ x.phase = "ended" /\ x.started = 0
  BY TurnLeaves
<1>2. /\ turn[t].phase = "streaming" /\ turn' = [turn EXCEPT ![t] = x]
      /\ messages' = Finished(t) /\ UNCHANGED <<leaf, leases, access, deleted, now>>
  BY <1>1 DEF Finish
<1>3. /\ turn[t].started <= now /\ (Held(t) => now <= turn[t].started + Lifetime)
      /\ RowsFollow(t) /\ (\A l \in leases : LeaseFollows(l)) /\ now \in 0..MaxNow
  BY TurnUnderWay
<1>4. /\ turn' \in [Turns -> TurnType] /\ turn'[t] = x
      /\ \A r \in Turns \ {t} : turn'[r] = turn[r]
  BY <1>2, OneTurnMoves DEF IInv
<1>5. /\ Restated(messages, messages') /\ messages' \in [DOMAIN messages -> RowType]
      /\ \A m \in DOMAIN messages \ {A(t)} : messages'[m] = messages[m]
      /\ A(t) \in DOMAIN messages => messages'[A(t)].status # "streaming"
  BY <1>2, FinishRestates DEF IInv
<1>6. DOMAIN messages' = DOMAIN messages
  BY <1>5 DEF Restated
<1>7. TypeOK'
  BY <1>2, <1>4, <1>5, <1>6 DEF IInv, TypeOK
<1>8. Tree(messages')
  BY <1>5, SameTree DEF IInv, Restated
<1>9. Held(t)
  BY <1>2 DEF Held
<1>10. \A l \in leases : l.turn = t => turn[t].kind = "append"
  BY <1>3, <1>9 DEF LeaseFollows
<1>11. x.started <= now /\ x.phase \in {"ending", "ended"}
  BY <1>1, <1>3
<1>12. ASSUME NEW l \in leases', l.turn = t PROVE LeaseFollows(l)'
  BY <1>1, <1>2, <1>3, <1>4, <1>9, <1>10, <1>12 DEF LeaseFollows, Held
<1>13. TurnsInTime' /\ OneSendPerParent' /\ (\A l \in leases' : LeaseFollows(l)')
       /\ (\A r \in Turns : HasLease(r)')
  BY <1>1, <1>2, <1>3, <1>4, <1>9, <1>11, <1>12, ClaimsAreKept DEF Live, Held
<1>14. ASSUME NEW r \in Turns PROVE RowsFollow(r)'
  <2>1. CASE r = t
    <3>1. Q(t) # A(t)
      BY RowNames
    <3>2. Q(t) \in DOMAIN messages' => messages'[Q(t)].status # "streaming"
      BY <1>3, <1>5, <1>6, <3>1 DEF RowsFollow
    <3> QED BY <1>4, <1>5, <1>6, <1>11, <2>1, <3>2 DEF RowsFollow, Live, Q, A
  <2>2. CASE r # t
    <3>1. A(t) # Q(r) /\ A(t) # A(r)
      BY <2>2, RowNames
    <3> QED BY <1>2, <1>4, <1>5, <1>6, <2>2, <3>1, RowsOfOthers
  <2> QED BY <2>1, <2>2
<1> QED BY <1>7, <1>8, <1>13, <1>14 DEF IInv

\* A turn releases its lease.
LEMMA ReleaseKeeps ==
  ASSUME TurnAssumption, IInv, NEW t \in Turns, Release(t)
  PROVE  IInv'
<1> DEFINE x == TurnOf("ended", "append", Owner, NoMessage, NoMessage, 0, FALSE)
<1>1. /\ NoMessage \in Ids /\ Owner \in Users /\ 0 \in 0..MaxNow /\ now \in 0..MaxNow
      /\ RowsFollow(t) /\ \A l \in leases : LeaseFollows(l)
  BY TurnUnderWay
<1>2. turn' = [turn EXCEPT ![t] = x]
  BY TurnsOver, Zenon DEF Release
<1>3. x \in TurnType /\ x.phase = "ended" /\ x.started = 0 /\ x.leased = FALSE
  BY <1>1 DEF TurnOf, TurnType
<1> HIDE DEF x
<1>4. /\ turn[t].phase = "ending" /\ UNCHANGED <<messages, leaf, access, deleted, now>>
      /\ leases' = {l \in leases : ~(l.parent = turn[t].parent /\ l.turn = t)}
  BY DEF Release
<1>5. /\ turn' \in [Turns -> TurnType] /\ turn'[t] = x
      /\ \A r \in Turns \ {t} : turn'[r] = turn[r]
  BY <1>2, <1>3, OneTurnMoves DEF IInv
<1>6. TypeOK'
  BY <1>4, <1>5 DEF IInv, TypeOK
<1>7. Tree(messages')
  BY <1>4 DEF IInv
<1>8. \A l \in leases' : l.turn # t
  BY <1>1, <1>4 DEF LeaseFollows, Held
<1>9. 0 <= now
  BY <1>1
<1>10. TurnsInTime' /\ OneSendPerParent' /\ (\A l \in leases' : LeaseFollows(l)')
       /\ (\A r \in Turns : HasLease(r)')
  BY <1>3, <1>4, <1>5, <1>8, <1>9, ClaimsAreKept DEF Live, Held
<1>11. ASSUME NEW r \in Turns PROVE RowsFollow(r)'
  <2>1. CASE r = t
    BY <1>1, <1>3, <1>4, <1>5, <2>1 DEF RowsFollow, Live, Q, A
  <2>2. CASE r # t
    BY <1>4, <1>5, <2>2, RowsOfOthers
  <2> QED BY <2>1, <2>2
<1> QED BY <1>6, <1>7, <1>10, <1>11 DEF IInv

\* The leases that lapse are those of crashed turns.
LEMMA LapsedAreOver ==
  ASSUME TurnAssumption, IInv, NEW l \in leases, l \notin DropExpired(leases)
  PROVE  turn[l.turn].phase = "crashed"
<1>1. l \in LeaseType /\ l.turn \in Turns /\ l.expires <= now
  BY DEF IInv, TypeOK, LeaseType, DropExpired
<1>2. LeaseFollows(l)
  BY DEF IInv
<1>3. /\ turn[l.turn].started \in 0..MaxNow
      /\ (Held(l.turn) => now <= turn[l.turn].started + Lifetime) /\ now \in 0..MaxNow
  BY <1>1, TurnUnderWay
<1>4. ~Held(l.turn)
  BY <1>1, <1>2, <1>3 DEF LeaseFollows, TurnAssumption
<1> QED BY <1>2, <1>4 DEF LeaseFollows

\* An append is admitted or refused.
LEMMA PostMessageKeeps ==
  ASSUME TurnAssumption, IInv, NEW t \in Turns, PostMessage(t)
  PROVE  IInv'
<1> DEFINE ls == DropExpired(leases)
<1>1. PICK u \in access, preferred \in DOMAIN messages \cup {NoMessage} :
        TryAcquire(t, u, preferred)
  BY DEF PostMessage
<1>2. PICK p \in AppendParents(preferred) :
        /\ messages' = SettleStale(messages)
        /\ \/ turn' = [turn EXCEPT ![t] = Over("ended")] /\ leases' \in {leases, ls}
           \/ /\ ~LeaseTaken(ls, u, p)
              /\ turn' = [turn EXCEPT ![t] = [Fresh EXCEPT !.phase = "admitted", !.user = u,
                            !.parent = p, !.started = now, !.leased = TRUE]]
              /\ leases' = ls \cup {[parent |-> p, user |-> u, turn |-> t, expires |-> now + TTL]}
  BY <1>1, Zenon DEF TryAcquire
<1>3. turn[t].phase = "idle" /\ UNCHANGED <<leaf, access, deleted, now>>
  BY DEF PostMessage
<1>4. /\ u \in Users /\ p \in Ids /\ now \in 0..MaxNow /\ 0 \in 0..MaxNow
      /\ NoMessage \in Ids /\ Owner \in Users /\ RowsFollow(t)
      /\ (\A l \in leases : LeaseFollows(l)) /\ leases \subseteq LeaseType
  <2>1. p \in DOMAIN messages \cup {NoMessage}
    BY ParentsAreIds
  <2> QED BY <2>1, ParentsAreIds, TurnUnderWay DEF IInv, TypeOK
<1>5. \A l \in leases : l.turn # t
  BY <1>3, <1>4 DEF LeaseFollows, Held
<1>6. ls \subseteq leases /\ \A l \in leases : Held(l.turn) => l \in ls
  BY LapsedAreOver DEF DropExpired, Held
<1>7. A(t) \notin DOMAIN messages /\ Q(t) \notin DOMAIN messages
  BY <1>3, <1>4 DEF RowsFollow
<1>8. Restated(messages, messages')
  BY <1>2, StaleIsRestated DEF IInv
<1>9. DOMAIN messages' = DOMAIN messages /\ messages' \in [DOMAIN messages' -> RowType]
  <2>1. messages' = [m \in DOMAIN messages' |-> messages'[m]]
    BY <1>2 DEF SettleStale
  <2> QED BY <1>8, <2>1 DEF Restated
<1>10. Tree(messages')
  BY <1>8, SameTree DEF IInv, Restated
<1>11. ASSUME NEW s \in Turns \ {t}, turn'[s] = turn[s] PROVE RowsFollow(s)'
  <2>1. A(s) \in DOMAIN messages /\ messages'[A(s)].status = "streaming" =>
          messages[A(s)].author \in access'
    <3> SUFFICES ASSUME A(s) \in DOMAIN messages, messages'[A(s)].status = "streaming"
                 PROVE  messages[A(s)].author \in access'
      OBVIOUS
    <3>1. messages[A(s)].status = "streaming"
      BY <1>8 DEF Restated, Settled
    <3>2. RowsFollow(s)
      BY DEF IInv
    <3> QED BY <1>3, <3>1, <3>2 DEF RowsFollow
  <2> QED BY <1>3, <1>8, <1>11, <2>1, RowsOfRestated
<1>12. CASE turn' = [turn EXCEPT ![t] = Over("ended")] /\ leases' \in {leases, ls}
  <2> DEFINE x == TurnOf("ended", "append", Owner, NoMessage, NoMessage, 0, FALSE)
  <2>1. turn' = [turn EXCEPT ![t] = x]
    BY <1>12, TurnsOver, Zenon
  <2>2. x \in TurnType /\ x.phase = "ended" /\ x.started = 0
    BY <1>4 DEF TurnOf, TurnType
  <2> HIDE DEF x, ls
  <2>3. /\ turn' \in [Turns -> TurnType] /\ turn'[t] = x
        /\ \A s \in Turns \ {t} : turn'[s] = turn[s]
    BY <2>1, <2>2, OneTurnMoves DEF IInv
  <2>4. leases' \subseteq leases /\ \A l \in leases : Held(l.turn) => l \in leases'
    BY <1>6, <1>12
  <2>5. TypeOK'
    BY <1>3, <1>9, <2>3, <2>4 DEF IInv, TypeOK
  <2>6. TurnsInTime'
    BY <1>3, <1>4, <2>2, <2>3 DEF IInv, TurnsInTime, Held
  <2>7. ASSUME NEW l \in leases' PROVE LeaseFollows(l)'
    <3>1. l \in leases /\ l.turn \in Turns \ {t}
      BY <1>4, <1>5, <2>4 DEF LeaseType
    <3> QED BY <1>4, <2>3, <3>1 DEF LeaseFollows, Held
  <2>8. ASSUME NEW s \in Turns PROVE HasLease(s)'
    <3> SUFFICES ASSUME Live(s)', turn'[s].leased
                 PROVE  \E l \in leases' : l.turn = s /\ l.parent = turn'[s].parent
                                           /\ l.user = turn'[s].user
      BY DEF HasLease
    <3>1. s # t
      BY <2>2, <2>3 DEF Live
    <3>2. Live(s) /\ turn[s].leased /\ HasLease(s) /\ turn'[s] = turn[s]
      BY <2>3, <3>1 DEF IInv, Live
    <3>3. PICK l \in leases : l.turn = s /\ l.parent = turn[s].parent /\ l.user = turn[s].user
      BY <3>2 DEF HasLease
    <3>4. l \in leases'
      BY <2>4, <3>2, <3>3 DEF Live, Held
    <3> QED BY <3>2, <3>3, <3>4
  <2>9. OneSendPerParent'
    BY <2>2, <2>3 DEF IInv, OneSendPerParent, Live
  <2>10. RowsFollow(t)'
    BY <1>7, <1>9 DEF RowsFollow, Q, A
  <2> QED BY <1>10, <1>11, <2>3, <2>5, <2>6, <2>7, <2>8, <2>9, <2>10 DEF IInv
<1>13. CASE /\ ~LeaseTaken(ls, u, p)
            /\ turn' = [turn EXCEPT ![t] = [Fresh EXCEPT !.phase = "admitted", !.user = u,
                          !.parent = p, !.started = now, !.leased = TRUE]]
            /\ leases' = ls \cup {[parent |-> p, user |-> u, turn |-> t, expires |-> now + TTL]}
  <2> DEFINE x == TurnOf("admitted", "append", u, p, NoMessage, now, TRUE)
             new == [parent |-> p, user |-> u, turn |-> t, expires |-> now + TTL]
  <2>1. turn' = [turn EXCEPT ![t] = x]
    <3>1. [Fresh EXCEPT !.phase = "admitted", !.user = u, !.parent = p, !.started = now,
                        !.leased = TRUE] = x
      BY TurnAdmitted, Zenon
    <3> QED BY <1>13, <3>1, Zenon
  <2>2. /\ x \in TurnType /\ x.phase = "admitted" /\ x.kind = "append" /\ x.user = u
        /\ x.parent = p /\ x.started = now /\ x.leased = TRUE
    BY <1>4 DEF TurnOf, TurnType
  <2>3. /\ new \in LeaseType /\ new.parent = p /\ new.user = u /\ new.turn = t
        /\ new.expires = now + TTL
    BY <1>4 DEF LeaseType, TurnAssumption
  <2>4. leases' = ls \cup {new} /\ ~LeaseTaken(ls, u, p)
    BY <1>13
  <2> HIDE DEF x, ls, new
  <2>5. /\ turn' \in [Turns -> TurnType] /\ turn'[t] = x
        /\ \A s \in Turns \ {t} : turn'[s] = turn[s]
    BY <2>1, <2>2, OneTurnMoves DEF IInv
  <2>6. TypeOK'
    BY <1>3, <1>4, <1>6, <1>9, <2>3, <2>4, <2>5 DEF IInv, TypeOK
  <2>7. TurnsInTime'
    BY <1>3, <1>4, <2>2, <2>5 DEF IInv, TurnsInTime, Held, TurnAssumption
  <2>8. ASSUME NEW l \in leases' PROVE LeaseFollows(l)'
    <3>1. CASE l = new
      BY <2>2, <2>3, <2>5, <3>1 DEF LeaseFollows, Held
    <3>2. CASE l # new
      <4>1. l \in leases /\ l.turn \in Turns \ {t}
        BY <1>4, <1>5, <1>6, <2>4, <3>2 DEF LeaseType
      <4> QED BY <1>4, <2>5, <4>1 DEF LeaseFollows, Held
    <3> QED BY <3>1, <3>2
  <2>9. ASSUME NEW s \in Turns \ {t}, Live(s)', turn'[s].leased
        PROVE  /\ Live(s) /\ turn[s].leased
               /\ \E l \in ls : l.turn = s /\ l.parent = turn[s].parent /\ l.user = turn[s].user
    <3>1. Live(s) /\ turn[s].leased /\ HasLease(s) /\ turn'[s] = turn[s]
      BY <2>5, <2>9 DEF IInv, Live
    <3>2. PICK l \in leases : l.turn = s /\ l.parent = turn[s].parent /\ l.user = turn[s].user
      BY <3>1 DEF HasLease
    <3>3. l \in ls
      BY <1>6, <3>1, <3>2 DEF Live, Held
    <3> QED BY <3>1, <3>2, <3>3
  <2>10. ASSUME NEW s \in Turns PROVE HasLease(s)'
    <3>1. CASE s = t
      BY <2>2, <2>3, <2>4, <2>5, <3>1 DEF HasLease
    <3>2. CASE s # t
      BY <2>4, <2>5, <2>9, <3>2 DEF HasLease
    <3> QED BY <3>1, <3>2
  <2>11. ASSUME NEW s \in Turns \ {t}, Live(s)', turn'[s].leased, turn'[s].user = u
         PROVE  turn'[s].parent # p
    <3>1. turn'[s] = turn[s]
      BY <2>5
    <3> QED BY <2>4, <2>9, <2>11, <3>1 DEF LeaseTaken
  <2>12. OneSendPerParent'
    <3> SUFFICES ASSUME NEW r \in Turns, NEW s \in Turns, r # s, Live(r)', Live(s)',
                        turn'[r].leased, turn'[s].leased, turn'[r].user = turn'[s].user
                 PROVE  turn'[r].parent # turn'[s].parent
      BY DEF OneSendPerParent
    <3>1. CASE r = t
      BY <2>2, <2>5, <2>11, <3>1
    <3>2. CASE s = t
      BY <2>2, <2>5, <2>11, <3>2
    <3>3. CASE r # t /\ s # t
      BY <2>5, <2>9, <3>3 DEF IInv, OneSendPerParent
    <3> QED BY <3>1, <3>2, <3>3
  <2>13. RowsFollow(t)'
    BY <1>7, <1>9 DEF RowsFollow, Q, A
  <2> QED BY <1>10, <1>11, <2>5, <2>6, <2>7, <2>8, <2>10, <2>12, <2>13 DEF IInv
<1> QED BY <1>2, <1>12, <1>13

-----------------------------------------------------------------------------
(* The steps around the turns.                                             *)

\* Rows are settled, members come and go; no turn moves.
LEMMA RowsAreSettled ==
  ASSUME TurnAssumption, IInv, Restated(messages, messages'),
         messages' \in [DOMAIN messages' -> RowType],
         UNCHANGED <<leases, turn, now>>, leaf' \in Ids, deleted' \in BOOLEAN,
         access' \subseteq Users,
         \A s \in Turns : A(s) \in DOMAIN messages /\ messages'[A(s)].status = "streaming" =>
           messages[A(s)].author \in access'
  PROVE  IInv'
<1>1. TypeOK'
  BY DEF IInv, TypeOK, Restated
<1>2. Tree(messages')
  BY SameTree DEF IInv, Restated
<1>3. TurnsInTime' /\ OneSendPerParent' /\ (\A l \in leases' : LeaseFollows(l)')
      /\ (\A s \in Turns : HasLease(s)')
  BY DEF IInv, TurnsInTime, OneSendPerParent, LeaseFollows, HasLease, Live, Held
<1>4. ASSUME NEW s \in Turns PROVE RowsFollow(s)'
  BY RowsOfRestated
<1> QED BY <1>1, <1>2, <1>3, <1>4 DEF IInv

\* A streaming row has an author with access.
LEMMA StreamsHaveAccess ==
  ASSUME TurnAssumption, IInv, Restated(messages, messages'), NEW s \in Turns,
         A(s) \in DOMAIN messages, messages'[A(s)].status = "streaming"
  PROVE  messages[A(s)].author \in access
<1>1. messages[A(s)].status = "streaming"
  BY DEF Restated, Settled
<1> QED BY <1>1 DEF IInv, RowsFollow

\* An author asks for a stop.
LEMMA MarkStoppingKeeps ==
  ASSUME TurnAssumption, IInv, NEW t \in Turns, MarkStopping(t)
  PROVE  IInv'
<1>1. /\ A(t) \in DOMAIN messages /\ messages' = [messages EXCEPT ![A(t)].status = "stopping"]
      /\ UNCHANGED <<leaf, leases, turn, access, deleted, now>>
  BY DEF MarkStopping
<1>2. Restated(messages, messages')
  BY <1>1, OneIsRestated, Zenon DEF IInv, Settled
<1>3. messages' \in [DOMAIN messages' -> RowType]
  <2> DEFINE e == [messages[A(t)] EXCEPT !.status = "stopping"]
  <2>1. messages' = [messages EXCEPT ![A(t)] = e]
    BY <1>1, Zenon
  <2> HIDE DEF e
  <2>2. messages \in [DOMAIN messages -> RowType]
    BY DEF IInv, TypeOK
  <2>3. messages' = [m \in DOMAIN messages' |-> messages'[m]]
    BY <2>1, <2>2
  <2> QED BY <1>2, <2>3 DEF Restated
<1>4. leaf' \in Ids /\ deleted' \in BOOLEAN /\ access' \subseteq Users /\ access' = access
  BY <1>1 DEF IInv, TypeOK
<1>5. UNCHANGED <<leases, turn, now>>
  BY <1>1
<1> QED BY <1>2, <1>3, <1>4, <1>5, StreamsHaveAccess, RowsAreSettled

\* A member is removed.
LEMMA RemoveMemberKeeps ==
  ASSUME TurnAssumption, IInv, NEW u \in Users, RemoveMember(u)
  PROVE  IInv'
<1>1. /\ Restated(messages, messages')
      /\ \A m \in DOMAIN messages : messages'[m].status = "streaming" => messages[m].author # u
  BY RemovalRestates DEF IInv
<1>2. /\ access' = access \ {u} /\ UNCHANGED <<leaf, leases, turn, deleted, now>>
  BY DEF RemoveMember
<1>3. messages' \in [DOMAIN messages' -> RowType]
  <2>1. messages' = [m \in DOMAIN messages' |-> messages'[m]]
    BY DEF RemoveMember
  <2> QED BY <1>1, <2>1 DEF Restated
<1>4. leaf' \in Ids /\ deleted' \in BOOLEAN /\ access' \subseteq Users
  BY <1>2 DEF IInv, TypeOK
<1>5. UNCHANGED <<leases, turn, now>>
  BY <1>2
<1> QED BY <1>1, <1>2, <1>3, <1>4, <1>5, StreamsHaveAccess, RowsAreSettled

\* A member returns, another leaf is chosen, or nothing happens.
LEMMA QuietSteps ==
  ASSUME TurnAssumption, IInv,
         (\E u \in Users : Rejoin(u)) \/ SetActiveLeaf \/ UNCHANGED vars
  PROVE  IInv'
<1>1. Restated(messages, messages) /\ messages \in [DOMAIN messages -> RowType]
  BY DEF IInv, TypeOK, Restated
<1>2. /\ UNCHANGED <<messages, leases, turn, now>> /\ leaf' \in Ids /\ deleted' \in BOOLEAN
      /\ access' \subseteq Users /\ access \subseteq access'
  BY ParentsAreIds DEF IInv, TypeOK, Rejoin, SetActiveLeaf, vars
<1>3. Restated(messages, messages') /\ messages' \in [DOMAIN messages' -> RowType]
  BY <1>1, <1>2
<1>4. UNCHANGED <<leases, turn, now>>
  BY <1>2
<1> QED BY <1>2, <1>3, <1>4, StreamsHaveAccess, RowsAreSettled

\* Time passes.
LEMMA TickKeeps ==
  ASSUME TurnAssumption, IInv, Tick
  PROVE  IInv'
<1>1. /\ now < MaxNow /\ now' = now + 1
      /\ \A t \in Turns : Held(t) => now + 1 <= turn[t].started + Lifetime
      /\ UNCHANGED <<messages, leaf, leases, turn, access, deleted>>
  BY DEF Tick
<1>2. now \in 0..MaxNow /\ MaxNow \in Nat
  BY DEF IInv, TypeOK, TurnAssumption
<1>3. TypeOK' /\ Tree(messages')
  BY <1>1, <1>2 DEF IInv, TypeOK
<1>4. OneSendPerParent' /\ (\A l \in leases' : LeaseFollows(l)') /\ (\A s \in Turns : HasLease(s)')
  BY <1>1 DEF IInv, OneSendPerParent, LeaseFollows, HasLease, Live, Held
<1>5. ASSUME NEW s \in Turns PROVE RowsFollow(s)'
  BY <1>1 DEF IInv, RowsFollow, Live, Q, A
<1>6. ASSUME NEW s \in Turns
      PROVE  turn'[s].started <= now' /\ (Held(s)' => now' <= turn'[s].started + Lifetime)
  <2>1. turn[s].started \in 0..MaxNow /\ turn[s].started <= now
    BY TurnUnderWay
  <2> QED BY <1>1, <1>2, <2>1 DEF Held
<1> QED BY <1>3, <1>4, <1>5, <1>6 DEF IInv, TurnsInTime

\* A round is deleted.
LEMMA DeleteRoundKeeps ==
  ASSUME TurnAssumption, IInv, NEW u \in Users, NEW m \in DOMAIN messages, DeleteRound(u, m)
  PROVE  IInv'
<1>1. /\ leaf' \in RepointedLeaves(messages, m, leaf) /\ messages' = RemainingRows(messages, m)
      /\ deleted' = TRUE /\ leases' = {} /\ UNCHANGED <<access, now>>
      /\ turn' = [t \in Turns |-> [turn[t] EXCEPT !.leased = FALSE]]
  BY DEF DeleteRound
<1>2. /\ DOMAIN messages' \subseteq DOMAIN messages
      /\ messages' \in [DOMAIN messages' -> RowType]
      /\ \A x \in DOMAIN messages' :
           /\ messages'[x].status = messages[x].status /\ messages'[x].author = messages[x].author
           /\ messages'[x].created = messages[x].created
  BY <1>1, DeletionKeepsRows DEF IInv
<1>3. Tree(messages')
  <2>1. ParentsMove(messages)
    BY RowMoves, Zenon DEF IInv, TypeOK, ParentsMove
  <2> QED BY <1>1, <2>1, DeletionLeavesTree DEF IInv
<1>4. leaf' \in Ids
  <2> DEFINE left == RemainingRows(messages, m)
             base == LeafBase(messages, m)
  <2>1. base \in Ids
    <3>1. RoundHead(messages, m) \in DOMAIN messages
      BY DEF RoundHead, IsUser
    <3>2. messages[m] \in RowType /\ messages[RoundHead(messages, m)] \in RowType
      BY <3>1 DEF IInv, TypeOK
    <3> QED BY <3>2 DEF LeafBase, RowType
  <2>2. left = messages' /\ leaf' \in RepointedLeaves(messages, m, leaf)
    BY <1>1
  <2>3. IsFiniteSet(DOMAIN left) /\ DOMAIN left \subseteq Ids /\ leaf \in Ids /\ NoMessage \in Ids
    BY <1>2, <1>3, <2>2, ParentsAreIds, NamesAreIds DEF Tree, IInv, TypeOK
  <2>4. RepointedLeaves(messages, m, leaf)
          = IF leaf \in DOMAIN left THEN {leaf} ELSE DeepestLeaves(left, base)
    BY DEF RepointedLeaves
  <2> HIDE DEF left, base
  <2>5. DeepestLeaves(left, base) \subseteq DOMAIN left \cup {base, NoMessage}
    BY <2>3, LeavesAreRows
  <2> QED BY <2>1, <2>2, <2>3, <2>4, <2>5
<1>5. /\ turn' \in [Turns -> TurnType]
      /\ \A t \in Turns : /\ turn'[t].phase = turn[t].phase /\ turn'[t].kind = turn[t].kind
                          /\ turn'[t].started = turn[t].started /\ turn'[t].leased = FALSE
  <2>1. ASSUME NEW t \in Turns
        PROVE  /\ turn'[t] \in TurnType
               /\ turn'[t].phase = turn[t].phase /\ turn'[t].kind = turn[t].kind
               /\ turn'[t].started = turn[t].started /\ turn'[t].leased = FALSE
    <3> DEFINE o == turn[t]
               x == TurnOf(o.phase, o.kind, o.user, o.parent, o.seen, o.started, FALSE)
    <3>1. o \in TurnType
      BY TurnUnderWay
    <3>2. turn'[t] = [o EXCEPT !.leased = FALSE]
      BY <1>1
    <3>3. turn'[t] = x
      BY <3>1, <3>2, TurnChanges, Zenon
    <3>4. /\ x \in TurnType /\ x.phase = o.phase /\ x.kind = o.kind /\ x.started = o.started
          /\ x.leased = FALSE
      BY <3>1 DEF TurnOf, TurnType
    <3> QED BY <3>3, <3>4
  <2>2. turn' = [t \in Turns |-> turn'[t]]
    BY <1>1
  <2> QED BY <2>1, <2>2
<1>6. TypeOK'
  BY <1>1, <1>2, <1>4, <1>5 DEF IInv, TypeOK
<1>7. TurnsInTime' /\ OneSendPerParent' /\ (\A l \in leases' : LeaseFollows(l)')
      /\ (\A s \in Turns : HasLease(s)')
  BY <1>1, <1>5 DEF IInv, TurnsInTime, OneSendPerParent, HasLease, Held
<1>8. ASSUME NEW s \in Turns PROVE RowsFollow(s)'
  BY <1>1, <1>2, <1>5 DEF IInv, RowsFollow, Live, Q, A
<1> QED BY <1>3, <1>6, <1>7, <1>8 DEF IInv

-----------------------------------------------------------------------------
(* The theorems.                                                           *)

\* The function without arguments.
LEMMA NoRows ==
  ASSUME NEW S
  PROVE  DOMAIN <<>> = {} /\ <<>> \in [DOMAIN <<>> -> S]
         /\ \A f : f \in [DOMAIN f -> S] /\ DOMAIN f = {} => f = <<>>
OBVIOUS

\* A conversation begins without rows, and nobody has begun a turn.
LEMMA InitInvariant ==
  ASSUME TurnAssumption, Init
  PROVE  IInv
<1> DEFINE x == TurnOf("idle", "append", Owner, NoMessage, NoMessage, 0, FALSE)
<1>1. /\ messages = <<>> /\ leaf = NoMessage /\ leases = {} /\ access = Users
      /\ deleted = FALSE /\ now = 0
  BY DEF Init
<1>2. turn = [t \in Turns |-> x]
  BY TurnsOver, Zenon DEF Init
<1>3. NoMessage \in Ids /\ Owner \in Users /\ 0 \in 0..MaxNow /\ Lifetime \in Nat
  BY NamesAreIds DEF TurnAssumption
<1>4. x \in TurnType /\ x.phase = "idle" /\ x.started = 0 /\ x.leased = FALSE
  BY <1>3 DEF TurnOf, TurnType
<1> HIDE DEF x
<1>5. DOMAIN messages = {} /\ messages \in [DOMAIN messages -> RowType]
  BY <1>1, NoRows
<1>6. turn \in [Turns -> TurnType] /\ \A t \in Turns : turn[t] = x
  BY <1>2, <1>4
<1>7. TypeOK
  BY <1>1, <1>3, <1>5, <1>6 DEF TypeOK
<1>8. Tree(messages)
  BY <1>5, FS_EmptySet DEF Tree, Grounded, HasParents
<1>9. TurnsInTime
  BY <1>1, <1>3, <1>4, <1>6 DEF TurnsInTime, Held
<1>10. \A t \in Turns : RowsFollow(t) /\ HasLease(t)
  BY <1>4, <1>5, <1>6 DEF RowsFollow, HasLease
<1>11. OneSendPerParent
  BY <1>4, <1>6 DEF OneSendPerParent
<1> QED BY <1>1, <1>7, <1>8, <1>9, <1>10, <1>11 DEF IInv

\* Every step keeps the invariant.
LEMMA StepInvariant ==
  ASSUME TurnAssumption, IInv, [Next]_vars
  PROVE  IInv'
<1>1. ASSUME NEW t \in Turns, Step(t) PROVE IInv'
  BY <1>1, PostMessageKeeps, EditKeeps, RegenerateKeeps, LoadKeeps, AskKeeps, PlaceKeeps,
     GiveUpKeeps, FinishKeeps, ReleaseKeeps, CrashKeeps, MarkStoppingKeeps, Zenon DEF Step
<1>2. ASSUME NEW u \in Users, NEW m \in DOMAIN messages, DeleteRound(u, m) PROVE IInv'
  BY <1>2, DeleteRoundKeeps
<1>3. ASSUME NEW u \in Users, RemoveMember(u) PROVE IInv'
  BY <1>3, RemoveMemberKeeps
<1>4. CASE (\E u \in Users : Rejoin(u)) \/ SetActiveLeaf \/ UNCHANGED vars
  BY <1>4, QuietSteps
<1>5. CASE Tick
  BY <1>5, TickKeeps
<1> QED BY <1>1, <1>2, <1>3, <1>4, <1>5, Zenon DEF Next

\* The inductive invariant: the rows are a tree, and the rows and leases of a turn
\* follow how far it is.
THEOREM Invariant == Spec => []IInv
<1>1. Init => IInv
  BY InitInvariant, TurnAssumption
<1>2. IInv /\ [Next]_vars => IInv'
  BY StepInvariant, TurnAssumption
<1> QED BY <1>1, <1>2, PTL DEF Spec

\* Whatever is deleted while turns insert rows and branches are switched, every row
\* hangs below a root, and the next send finds a row to hang below
\* (DeleteRound, ResolveConversationAppendParent).
THEOREM Connected == Spec => []TreeStaysConnected
<1>1. ASSUME IInv PROVE TreeStaysConnected
  <2>1. TypeOK /\ Tree(messages)
    BY <1>1 DEF IInv
  <2>2. \A m \in DOMAIN messages : \E r \in Path(messages, m) : messages[r].parent = NoMessage
    BY <2>1, PathReachesRoot
  <2>3. ASSUME messages # <<>> PROVE AppendParents(NoMessage) \subseteq DOMAIN messages
    <3>1. DOMAIN messages # {}
      BY <2>1, <2>3, NoRows DEF TypeOK
    <3>2. \A m \in DOMAIN messages : messages[m].created \in 0..MaxNow
      BY <2>1 DEF TypeOK, RowType
    <3>3. Newest(messages, Children(messages, NoMessage)) # {}
      BY <2>1, <3>1, <3>2, NewestRoot, TurnAssumption DEF TurnAssumption
    <3>4. DeepestLeaves(messages, NoMessage) \subseteq DOMAIN messages
      BY <2>1, <3>3, LeavesAreRows DEF Tree
    <3> QED BY <3>4 DEF AppendParents
  <2> QED BY <2>1, <2>2, <2>3 DEF TreeStaysConnected
<1> QED BY <1>1, Invariant, PTL

\* Neither the clean-up of crashed turns nor the release of another turn takes the
\* lease or the placeholder of a live one (TryAcquireConversationGenerationLease,
\* ReleaseConversationGenerationLease).
THEOREM ClaimsLast == Spec => []LiveTurnKeepsItsClaim
<1>1. IInv => LiveTurnKeepsItsClaim
  BY DEF IInv, LiveTurnKeepsItsClaim, HasLease, RowsFollow
<1> QED BY <1>1, Invariant, PTL

\* Two sends of one user from one message never run side by side, unless a deletion
\* came between them (the unique key of conversation_generation_leases).
THEOREM SendsAreAlone == Spec => []OneSendPerParent
<1>1. IInv => OneSendPerParent
  BY DEF IInv
<1> QED BY <1>1, Invariant, PTL

\* Once every turn is over and the lifetimes of a turn and of a lease have passed,
\* no send is refused: what a crash left has lapsed.
THEOREM CrashesPass == Spec => []CrashBlocksNobody
<1>1. ASSUME IInv, \A t \in Turns : ~Held(t) /\ now >= turn[t].started + Lifetime + TTL,
             NEW u \in Users, NEW p \in DOMAIN messages \cup {NoMessage}
      PROVE  ~Refused(u, p)
  <2>0. Lifetime \in Nat /\ TTL \in Nat /\ now \in 0..MaxNow
        /\ \A t \in Turns : turn[t].started \in 0..MaxNow
    BY <1>1, TurnAssumption DEF IInv, TypeOK, TurnType, TurnAssumption
  <2>1. ~LeaseTaken(DropExpired(leases), u, p)
    <3> SUFFICES ASSUME NEW l \in leases, l.expires > now PROVE FALSE
      BY DEF LeaseTaken, DropExpired
    <3>1. l.turn \in Turns /\ l.expires = turn[l.turn].started + TTL
      BY <1>1 DEF IInv, TypeOK, LeaseType, LeaseFollows
    <3> QED BY <1>1, <2>0, <3>1
  <2>2. ~OwnAnswerStreams(SettleStale(messages), u, p)
    <3> DEFINE ms == SettleStale(messages)
    <3>1. Restated(messages, ms) /\ DOMAIN ms = DOMAIN messages /\ IsFiniteSet(DOMAIN ms)
      BY <1>1, StaleIsRestated DEF IInv, Tree, Restated
    <3> SUFFICES ASSUME NEW m \in Path(ms, p), ms[m].role = "assistant",
                        ms[m].status = "streaming"
                 PROVE  FALSE
      BY DEF OwnAnswerStreams
    <3>2. m \in DOMAIN messages
      BY <3>1, PathIsClosure
    <3>3. messages[m].status = "streaming" /\ messages[m].role = "assistant"
      BY <3>1, <3>2 DEF Restated, Settled
    <3>4. ~(messages[m].created <= now - TTL)
      <4>1. ms[m] = IF messages[m].role = "assistant" /\ messages[m].status = "streaming"
                       /\ messages[m].created <= now - TTL
                    THEN [messages[m] EXCEPT !.status = "error"] ELSE messages[m]
        BY <3>2 DEF SettleStale
      <4>2. [messages[m] EXCEPT !.status = "error"].status = "error"
        BY <1>1, <3>2, RowChanges DEF IInv, TypeOK
      <4> QED BY <3>3, <4>1, <4>2
    <3>5. PICK t \in Turns : m = A(t) /\ RowsFollow(t)
      BY <1>1, <3>2, <3>3, RowNames DEF IInv, TypeOK, RowsFollow
    <3>6. messages[m].created <= turn[t].started + Lifetime /\ messages[m].created \in 0..MaxNow
      BY <1>1, <3>2, <3>3, <3>5 DEF IInv, TypeOK, RowType, RowsFollow
    <3> QED BY <1>1, <2>0, <3>4, <3>6
  <2> QED BY <2>1, <2>2 DEF Refused
<1>2. IInv => CrashBlocksNobody
  BY <1>1 DEF CrashBlocksNobody
<1> QED BY <1>2, Invariant, PTL

\* No answer streams for ever: its turn is under way or has crashed, and its author
\* has access (FinishMessageForUser, the removal of a member).
THEOREM StreamsAreBacked == Spec => []EveryStreamIsBacked
<1>1. ASSUME IInv, NEW m \in DOMAIN messages, messages[m].status = "streaming"
      PROVE  messages[m].author \in access /\ turn[m[1]].phase \notin {"ending", "ended"}
  <2>1. PICK t \in Turns : m = Q(t) \/ m = A(t)
    BY <1>1, RowNames DEF IInv, TypeOK
  <2>2. RowsFollow(t) /\ A(t)[1] = t
    BY <1>1, RowNames DEF IInv
  <2> QED BY <1>1, <2>1, <2>2 DEF RowsFollow
<1>2. IInv => EveryStreamIsBacked
  BY <1>1 DEF EveryStreamIsBacked
<1> QED BY <1>2, Invariant, PTL

-----------------------------------------------------------------------------
(* Paths in a tree whose rows are numbered by age.                         *)

\* A message is younger than the one it answers.
Numbered(ms) ==
  /\ IsFiniteSet(DOMAIN ms) /\ DOMAIN ms \subseteq Nat /\ NoMessage \notin DOMAIN ms
  /\ \A x \in DOMAIN ms :
       /\ ms[x].created = x
       /\ ms[x].parent = NoMessage \/ (ms[x].parent \in DOMAIN ms /\ ms[x].parent < x)

\* What is above a message is older.
LEMMA PathGoesUp ==
  ASSUME NEW ms, Numbered(ms), NEW m \in DOMAIN ms, NEW x \in Path(ms, m)
  PROVE  x \in DOMAIN ms /\ x <= m
<1> DEFINE S == {y \in DOMAIN ms : y <= m}
<1>1. m \in S
  BY DEF Numbered
<1>2. Closed(ms, S)
  BY DEF Closed, Numbered
<1>3. Path(ms, m) \subseteq S
  <2> HIDE DEF S
  <2> QED BY <1>1, <1>2, PathIsClosure DEF Numbered
<1> QED BY <1>3

\* The path of a message of a path is part of it.
LEMMA PathOnPath ==
  ASSUME NEW ms, IsFiniteSet(DOMAIN ms), NEW m, NEW x \in Path(ms, m)
  PROVE  Path(ms, x) \subseteq Path(ms, m)
  BY PathIsClosure

\* A path is its end and the path of the parent.
LEMMA PathOfParent ==
  ASSUME NEW ms, IsFiniteSet(DOMAIN ms), NEW m \in DOMAIN ms
  PROVE  Path(ms, m) = {m} \cup (IF ms[m].parent \in DOMAIN ms THEN Path(ms, ms[m].parent) ELSE {})
<1> DEFINE p == ms[m].parent
           S == {m} \cup (IF p \in DOMAIN ms THEN Path(ms, p) ELSE {})
<1>1. m \in Path(ms, m) /\ Closed(ms, Path(ms, m))
  BY PathIsClosure
<1>2. p \in DOMAIN ms => Path(ms, p) \subseteq Path(ms, m)
  BY <1>1, PathOnPath DEF Closed
<1>3. p \in DOMAIN ms => p \in Path(ms, p) /\ Closed(ms, Path(ms, p))
  BY PathIsClosure
<1>4. Closed(ms, S)
  BY <1>3 DEF Closed
<1>5. Path(ms, m) \subseteq S
  BY <1>4, PathIsClosure
<1> QED BY <1>1, <1>2, <1>5

\* Of two messages of a path the older is above the younger.
LEMMA PathIsLine ==
  ASSUME NEW ms, Numbered(ms), NEW m \in DOMAIN ms,
         NEW x \in Path(ms, m), NEW y \in Path(ms, m), y <= x
  PROVE  y \in Path(ms, x)
<1> DEFINE Line(k) == \A a, b \in Path(ms, k) : b <= a => b \in Path(ms, a)
           T == {n \in Nat : \A k \in DOMAIN ms : k <= n => Line(k)}
<1>n. DOMAIN ms \subseteq Nat /\ IsFiniteSet(DOMAIN ms)
  BY DEF Numbered
<1>s. ASSUME NEW k \in DOMAIN ms, ms[k].parent \in DOMAIN ms => Line(ms[k].parent)
      PROVE  Line(k)
  <2> SUFFICES ASSUME NEW a \in Path(ms, k), NEW b \in Path(ms, k), b <= a
               PROVE  b \in Path(ms, a)
    OBVIOUS
  <2>1. a \in DOMAIN ms /\ b \in DOMAIN ms /\ a <= k /\ b <= k
    BY PathGoesUp
  <2>2. CASE a = k
    BY <2>2
  <2>3. CASE a # k
    <3>1. ms[k].parent \in DOMAIN ms /\ a \in Path(ms, ms[k].parent)
      BY <1>n, <2>3, PathOfParent
    <3>2. a <= ms[k].parent /\ ms[k].parent < k
      BY <3>1, PathGoesUp DEF Numbered
    <3>3. b # k
      BY <1>n, <2>1, <3>1, <3>2
    <3>4. b \in Path(ms, ms[k].parent)
      BY <1>n, <3>3, PathOfParent
    <3> QED BY <1>s, <3>1, <3>4
  <2> QED BY <2>2, <2>3
<1>1. 0 \in T
  <2> SUFFICES ASSUME NEW k \in DOMAIN ms, k <= 0 PROVE Line(k)
    OBVIOUS
  <2>1. ms[k].parent \notin DOMAIN ms
    BY <1>n DEF Numbered
  <2> HIDE DEF Line
  <2> QED BY <1>s, <2>1
<1>2. ASSUME NEW n \in Nat, n \in T PROVE n + 1 \in T
  <2> SUFFICES ASSUME NEW k \in DOMAIN ms, k <= n + 1 PROVE Line(k)
    OBVIOUS
  <2>1. ms[k].parent \in DOMAIN ms => ms[k].parent <= n
    BY <1>n DEF Numbered
  <2> HIDE DEF Line
  <2>2. ms[k].parent \in DOMAIN ms => Line(ms[k].parent)
    BY <1>2, <2>1
  <2> QED BY <1>s, <2>2
<1> HIDE DEF T
<1>3. m \in T
  BY <1>1, <1>2, <1>n, Induction
<1>4. m <= m
  BY <1>n
<1> QED BY <1>3, <1>4 DEF T

\* So the path of a message is what is no younger on any path it is on.
LEMMA PathBelow ==
  ASSUME NEW ms, Numbered(ms), NEW m \in DOMAIN ms, NEW x \in Path(ms, m)
  PROVE  Path(ms, x) = {y \in Path(ms, m) : y <= x}
<1>1. x \in DOMAIN ms
  BY PathGoesUp
<1>2. Path(ms, x) \subseteq Path(ms, m)
  BY PathOnPath DEF Numbered
<1>3. \A y \in Path(ms, x) : y <= x
  BY <1>1, PathGoesUp
<1> QED BY <1>2, <1>3, PathIsLine

\* What leaves the parents alone leaves the paths alone.
LEMMA SamePaths ==
  ASSUME NEW ms, NEW new, IsFiniteSet(DOMAIN ms), DOMAIN new = DOMAIN ms,
         \A x \in DOMAIN ms : new[x].parent = ms[x].parent, NEW m \in DOMAIN ms
  PROVE  Path(new, m) = Path(ms, m)
<1>1. /\ m \in Path(ms, m) /\ Path(ms, m) \subseteq DOMAIN ms /\ Closed(ms, Path(ms, m))
      /\ m \in Path(new, m) /\ Path(new, m) \subseteq DOMAIN ms /\ Closed(new, Path(new, m))
  BY PathIsClosure
<1>2. Closed(new, Path(ms, m)) /\ Closed(ms, Path(new, m))
  BY <1>1 DEF Closed
<1>3. Path(new, m) \subseteq Path(ms, m)
  BY <1>1, <1>2, PathIsClosure
<1>4. Path(ms, m) \subseteq Path(new, m)
  BY <1>1, <1>2, PathIsClosure
<1> QED BY <1>3, <1>4

\* A new message is on no path but those that end below it.
LEMMA PathsOfOthers ==
  ASSUME NEW ms, Numbered(ms), NEW new, NEW n, n \notin DOMAIN ms, n # NoMessage,
         DOMAIN new = DOMAIN ms \cup {n},
         \A x \in DOMAIN ms : new[x].parent = ms[x].parent, NEW m \in DOMAIN ms
  PROVE  Path(new, m) = Path(ms, m)
<1>f. IsFiniteSet(DOMAIN ms) /\ IsFiniteSet(DOMAIN new)
  BY FS_AddElement DEF Numbered
<1>1. /\ m \in Path(ms, m) /\ Path(ms, m) \subseteq DOMAIN ms /\ Closed(ms, Path(ms, m))
      /\ m \in Path(new, m) /\ Path(new, m) \subseteq DOMAIN new /\ Closed(new, Path(new, m))
  BY <1>f, PathIsClosure
<1>2. Closed(new, Path(ms, m))
  BY <1>1 DEF Closed, Numbered
<1>3. Path(new, m) \subseteq Path(ms, m)
  BY <1>1, <1>2, <1>f, PathIsClosure
<1>4. Closed(ms, Path(new, m))
  BY <1>1, <1>3 DEF Closed
<1>5. Path(ms, m) \subseteq Path(new, m)
  BY <1>1, <1>4, <1>f, PathIsClosure
<1> QED BY <1>3, <1>5

\* Some rows go, and those below them move up to the parent of the first, u.
Shrinks(ms, new, gone, u) ==
  /\ u \in gone /\ gone \subseteq DOMAIN ms /\ DOMAIN new = DOMAIN ms \ gone
  /\ \A x \in DOMAIN new :
       new[x].parent = IF ms[x].parent \in gone THEN ms[u].parent ELSE ms[x].parent
  /\ \A x \in gone : ms[x].parent \in gone \/ x = u
  /\ ms[u].parent \notin gone
  /\ \A x \in DOMAIN new : ms[x].parent \in gone => u \in Path(ms, x)

\* What has gone is missing from the paths, and nothing else.
LEMMA PathsShrink ==
  ASSUME NEW ms, Numbered(ms), NEW new, NEW gone, NEW u, Shrinks(ms, new, gone, u),
         NEW m \in DOMAIN new
  PROVE  Path(new, m) = Path(ms, m) \ gone
<1> USE DEF Shrinks
<1>f. IsFiniteSet(DOMAIN ms) /\ IsFiniteSet(DOMAIN new)
  <2>1. DOMAIN new \in SUBSET DOMAIN ms
    OBVIOUS
  <2> QED BY <2>1, FS_Subset DEF Numbered
<1>1. /\ m \in Path(ms, m) /\ Path(ms, m) \subseteq DOMAIN ms /\ Closed(ms, Path(ms, m))
      /\ m \in Path(new, m) /\ Path(new, m) \subseteq DOMAIN new /\ Closed(new, Path(new, m))
  BY <1>f, PathIsClosure
<1>2. \A x \in Path(ms, m) : Path(ms, x) \subseteq Path(ms, m)
  BY <1>f, PathOnPath
<1>3. Closed(new, Path(ms, m) \ gone)
  <2> SUFFICES ASSUME NEW x \in Path(ms, m) \ gone, new[x].parent \in DOMAIN new
               PROVE  new[x].parent \in Path(ms, m)
    BY DEF Closed
  <2>1. CASE ms[x].parent \in gone
    <3>1. u \in Path(ms, m) /\ new[x].parent = ms[u].parent
      BY <1>1, <1>2, <2>1
    <3> QED BY <1>1, <3>1 DEF Closed
  <2>2. CASE ms[x].parent \notin gone
    BY <1>1, <2>2 DEF Closed
  <2> QED BY <2>1, <2>2
<1>4. Path(new, m) \subseteq Path(ms, m) \ gone
  BY <1>1, <1>3, <1>f, PathIsClosure
<1> DEFINE S == Path(new, m) \cup {x \in gone : \E y \in Path(new, m) : ms[y].parent \in gone}
<1>5. Closed(ms, S)
  <2> SUFFICES ASSUME NEW x \in S, ms[x].parent \in DOMAIN ms PROVE ms[x].parent \in S
    BY DEF Closed
  <2>1. CASE x \in Path(new, m) /\ ms[x].parent \in gone
    BY <2>1
  <2>2. CASE x \in Path(new, m) /\ ms[x].parent \notin gone
    BY <1>1, <2>2 DEF Closed
  <2>3. CASE x \in gone /\ x \notin Path(new, m)
    <3>1. PICK y \in Path(new, m) : ms[y].parent \in gone
      BY <2>3
    <3>2. new[y].parent = ms[u].parent
      BY <1>1, <3>1
    <3>3. CASE x = u
      BY <1>1, <3>1, <3>2, <3>3 DEF Closed
    <3>4. CASE x # u
      BY <2>3, <3>1, <3>4
    <3> QED BY <3>3, <3>4
  <2> QED BY <2>1, <2>2, <2>3
<1>6. m \in S
  BY <1>1
<1>7. Path(ms, m) \subseteq S
  <2> HIDE DEF S
  <2> QED BY <1>5, <1>6, <1>f, PathIsClosure
<1> QED BY <1>4, <1>7

\* The deletion of a round or a branch is of this kind.
LEMMA DeletionShrinks ==
  ASSUME NEW ms, Numbered(ms), ParentsMove(ms), NEW m \in DOMAIN ms,
         NEW head, head = IF DeletesBranch(ms, m) THEN m ELSE RoundHead(ms, m)
  PROVE  /\ Shrinks(ms, RemainingRows(ms, m), DeletedRows(ms, m), head)
         /\ \/ DeletedRows(ms, m) = Subtree(ms, m) /\ head = m
            \/ DeletedRows(ms, m) \subseteq {head} \cup Children(ms, head)
<1> DEFINE new == RemainingRows(ms, m)
           gone == DeletedRows(ms, m)
           u == RoundHead(ms, m)
<1>n. /\ IsFiniteSet(DOMAIN ms) /\ DOMAIN ms \subseteq Nat /\ NoMessage \notin DOMAIN ms
      /\ \A x \in DOMAIN ms : ms[x].parent \in DOMAIN ms => ms[x].parent < x
  BY DEF Numbered
<1>p. \A x \in DOMAIN ms : ms[x].parent \in DOMAIN ms => Path(ms, ms[x].parent) \subseteq Path(ms, x)
  BY <1>n, PathOfParent
<1>q. \A x \in DOMAIN ms : x \in Path(ms, x)
  BY <1>n, PathIsClosure
<1>1. /\ DOMAIN new = DOMAIN ms \ gone
      /\ \A x \in DOMAIN new :
           new[x].parent = IF ms[x].parent \in gone THEN ms[u].parent ELSE ms[x].parent
  BY DEF RemainingRows, ParentsMove
<1>2. u \in DOMAIN ms
  BY DEF RoundHead, IsUser
<1>3. CASE DeletesBranch(ms, m)
  <2>1. gone = Subtree(ms, m) /\ head = m
    BY <1>3 DEF DeletedRows
  <2>2. \A x \in DOMAIN new : ms[x].parent \notin gone
    <3> SUFFICES ASSUME NEW x \in DOMAIN new, ms[x].parent \in gone PROVE FALSE
      OBVIOUS
    <3>1. /\ x \in DOMAIN ms /\ x \notin gone /\ ms[x].parent \in DOMAIN ms
          /\ m \in Path(ms, ms[x].parent)
      BY <1>1, <2>1 DEF Subtree
    <3> QED BY <1>p, <2>1, <3>1 DEF Subtree
  <2>3. m \in gone /\ gone \subseteq DOMAIN ms
    BY <1>q, <2>1 DEF Subtree
  <2>4. \A x \in gone : ms[x].parent \in gone \/ x = m
    <3> SUFFICES ASSUME NEW x \in gone, x # m PROVE ms[x].parent \in gone
      OBVIOUS
    <3>1. x \in DOMAIN ms /\ m \in Path(ms, x)
      BY <2>1 DEF Subtree
    <3>2. ms[x].parent \in DOMAIN ms /\ m \in Path(ms, ms[x].parent)
      BY <1>n, <3>1, PathOfParent
    <3> QED BY <2>1, <3>2 DEF Subtree
  <2>5. ms[m].parent \notin gone
    <3> SUFFICES ASSUME ms[m].parent \in gone PROVE FALSE
      OBVIOUS
    <3>1. ms[m].parent \in DOMAIN ms /\ m \in Path(ms, ms[m].parent)
      BY <2>1 DEF Subtree
    <3>2. m <= ms[m].parent
      BY <3>1, PathGoesUp
    <3> QED BY <1>n, <3>1, <3>2
  <2> HIDE DEF new, gone, u
  <2>6. \A x \in DOMAIN new : new[x].parent = ms[x].parent
    BY <1>1, <2>2
  <2> QED BY <1>1, <2>1, <2>2, <2>3, <2>4, <2>5, <2>6 DEF new, gone, Shrinks
<1>4. CASE ~DeletesBranch(ms, m)
  <2>1. /\ gone = (IF IsUser(ms, u) THEN {u} \cup Children(ms, u) ELSE {u})
        /\ head = u
    BY <1>4, Zenon DEF DeletedRows
  <2>2. u \in gone /\ gone \subseteq DOMAIN ms /\ gone \subseteq {u} \cup Children(ms, u)
    BY <1>2, <2>1 DEF Children
  <2>3. \A x \in gone : ms[x].parent \in gone \/ x = u
    BY <2>1 DEF Children
  <2>4. ms[u].parent \notin gone
    <3> SUFFICES ASSUME ms[u].parent \in gone PROVE FALSE
      OBVIOUS
    <3>1. ms[u].parent \in DOMAIN ms /\ ms[u].parent < u
      BY <1>2, <1>n, <2>2
    <3>2. ms[u].parent \in Children(ms, u)
      BY <1>2, <1>n, <2>2, <3>1
    <3>3. u < ms[u].parent
      BY <1>2, <1>n, <3>2 DEF Children
    <3> QED BY <1>2, <1>n, <3>1, <3>3
  <2>5. ASSUME NEW x \in DOMAIN new, ms[x].parent \in gone PROVE u \in Path(ms, x)
    <3>1. x \in DOMAIN ms /\ ms[x].parent \in DOMAIN ms
      BY <1>1, <2>2, <2>5
    <3>2. u \in Path(ms, ms[x].parent)
      <4>1. CASE ms[x].parent = u
        BY <1>2, <1>q, <4>1
      <4>2. CASE ms[x].parent # u
        <5>1. ms[ms[x].parent].parent = u
          BY <2>2, <2>5, <4>2 DEF Children
        <5> QED BY <1>2, <1>p, <1>q, <3>1, <5>1
      <4> QED BY <4>1, <4>2
    <3> QED BY <1>p, <3>1, <3>2
  <2> HIDE DEF new, gone, u
  <2> QED BY <1>1, <2>1, <2>2, <2>3, <2>4, <2>5 DEF new, gone, Shrinks
<1> QED BY <1>3, <1>4

\* A deletion takes the deleted rows off the paths and nothing else.
LEMMA DeletionKeepsPaths ==
  ASSUME NEW ms, Numbered(ms), ParentsMove(ms), NEW m \in DOMAIN ms,
         NEW x \in DOMAIN RemainingRows(ms, m)
  PROVE  Path(RemainingRows(ms, m), x) = Path(ms, x) \ DeletedRows(ms, m)
<1> DEFINE head == IF DeletesBranch(ms, m) THEN m ELSE RoundHead(ms, m)
<1>1. Shrinks(ms, RemainingRows(ms, m), DeletedRows(ms, m), head)
  BY DeletionShrinks
<1> QED BY <1>1, PathsShrink

\* A range of a path that loses a message, but neither end, has the first of the
\* deleted messages within it.
LEMMA DeletionBegins ==
  ASSUME NEW ms, Numbered(ms), ParentsMove(ms), NEW m \in DOMAIN ms,
         NEW head, head = IF DeletesBranch(ms, m) THEN m ELSE RoundHead(ms, m),
         NEW last \in DOMAIN RemainingRows(ms, m), NEW first \in Path(ms, last),
         first \notin DeletedRows(ms, m),
         NEW x \in DeletedRows(ms, m), x \in Path(ms, last), first <= x
  PROVE  first <= head /\ head <= last
<1> DEFINE new == RemainingRows(ms, m)
           gone == DeletedRows(ms, m)
<1>1. /\ head \in gone /\ gone \subseteq DOMAIN ms /\ DOMAIN new = DOMAIN ms \ gone
      /\ \/ gone = Subtree(ms, m) /\ head = m
         \/ gone \subseteq {head} \cup Children(ms, head)
  BY DeletionShrinks DEF Shrinks
<1>n. IsFiniteSet(DOMAIN ms) /\ DOMAIN ms \subseteq Nat
  BY DEF Numbered
<1>2. last \in DOMAIN ms /\ last \notin gone /\ first \notin gone /\ x \in gone
  BY <1>1
<1>3. first \in DOMAIN ms /\ x \in DOMAIN ms /\ first <= last /\ x <= last
  BY <1>2, PathGoesUp
<1> HIDE DEF new, gone
<1>4. CASE gone = Subtree(ms, m) /\ head = m
  <2>1. m \in Path(ms, x)
    BY <1>2, <1>4 DEF Subtree
  <2>2. m \in Path(ms, last)
    BY <1>n, <2>1, PathOnPath
  <2> QED BY <1>2, <1>4, <2>2 DEF Subtree
<1>5. CASE gone \subseteq {head} \cup Children(ms, head)
  <2>1. CASE x = head
    BY <1>3, <2>1
  <2>2. CASE x # head
    <3>1. ms[x].parent = head /\ head \in DOMAIN ms
      BY <1>1, <1>2, <1>5, <2>2 DEF Children
    <3>2. first \in Path(ms, x) /\ first # x
      BY <1>2, PathIsLine
    <3>3. first \in Path(ms, head)
      BY <1>3, <1>n, <3>1, <3>2, PathOfParent
    <3>4. first <= head
      BY <3>1, <3>3, PathGoesUp
    <3>5. head < x
      BY <1>3, <3>1 DEF Numbered
    <3>6. head <= last
      BY <1>2, <1>3, <1>n, <3>1, <3>5
    <3> QED BY <3>4, <3>6
  <2> QED BY <2>1, <2>2
<1> QED BY <1>1, <1>4, <1>5

-----------------------------------------------------------------------------
(* Histories, and how far blocks cover them.                               *)

\* A history is by age.
Ascending(h) ==
  /\ Len(h) \in Nat /\ DOMAIN h = 1..Len(h)
  /\ \A i \in 1..Len(h) : h[i] \in Nat
  /\ \A i, k \in 1..Len(h) : i < k => h[i] < h[k]

\* The ranks of the members of a finite set of numbers are the numbers up to its size.
LEMMA Ranks ==
  ASSUME NEW S, IsFiniteSet(S), S \subseteq Nat
  PROVE  LET rank(x) == Cardinality({y \in S : y <= x})
         IN  /\ Cardinality(S) \in Nat
             /\ \A x \in S : rank(x) \in 1..Cardinality(S)
             /\ \A x, y \in S : x < y => rank(x) < rank(y)
             /\ \A i \in 1..Cardinality(S) : \E x \in S : rank(x) = i
<1> DEFINE B(x) == {y \in S : y <= x}
           rank(x) == Cardinality(B(x))
           n == Cardinality(S)
<1>n. n \in Nat
  BY FS_CardinalityType
<1>1. ASSUME NEW x \in S PROVE IsFiniteSet(B(x)) /\ rank(x) \in 1..n
  <2>1. B(x) \in SUBSET S
    OBVIOUS
  <2>2. IsFiniteSet(B(x)) /\ rank(x) <= n
    BY <2>1, FS_Subset
  <2>3. rank(x) \in Nat
    BY <2>2, FS_CardinalityType
  <2>4. x \in B(x)
    OBVIOUS
  <2>5. rank(x) # 0
    BY <2>2, <2>4, FS_EmptySet
  <2> HIDE DEF rank, n
  <2> QED BY <1>n, <2>2, <2>3, <2>5
<1>2. ASSUME NEW x \in S, NEW y \in S, x < y PROVE rank(x) < rank(y)
  <2>1. B(x) \in SUBSET B(y) /\ y \in B(y) /\ y \notin B(x)
    <3>1. x \in Nat /\ y \in Nat
      OBVIOUS
    <3>2. \A z \in S : z \in Nat /\ (z <= x => z <= y)
      BY <1>2, <3>1
    <3>3. y <= y /\ ~(y <= x)
      BY <1>2, <3>1
    <3>4. \A z \in B(x) : z \in B(y)
      BY <3>2
    <3> QED BY <3>3, <3>4
  <2>2. rank(x) <= rank(y) /\ rank(x) # rank(y)
    <3>1. IsFiniteSet(B(y)) /\ B(x) # B(y)
      BY <1>1, <2>1
    <3> HIDE DEF B
    <3> QED BY <2>1, <3>1, FS_Subset
  <2>3. rank(x) \in 1..n /\ rank(y) \in 1..n
    BY <1>1
  <2> HIDE DEF rank, n
  <2> QED BY <1>n, <2>2, <2>3
<1> DEFINE f == [x \in S |-> rank(x)]
<1>3. f \in Injection(S, 1..n)
  <2>1. f \in [S -> 1..n]
    BY <1>1
  <2>2. \A x, y \in S : x # y => rank(x) # rank(y)
    <3> SUFFICES ASSUME NEW x \in S, NEW y \in S, x # y PROVE rank(x) # rank(y)
      OBVIOUS
    <3>1. x < y \/ y < x
      OBVIOUS
    <3>2. rank(x) < rank(y) \/ rank(y) < rank(x)
      BY <1>2, <3>1
    <3>3. rank(x) \in 1..n /\ rank(y) \in 1..n
      BY <1>1
    <3> HIDE DEF rank, n
    <3> QED BY <1>n, <3>2, <3>3
  <2>3. \A x, y \in S : f[x] = f[y] => x = y
    BY <2>2
  <2> QED BY <2>1, <2>3 DEF Injection, IsInjective
<1>4. f \in Surjection(S, 1..n)
  <2>1. IsFiniteSet(1..n) /\ Cardinality(1..n) = n
    <3> HIDE DEF n
    <3> QED BY <1>n, FS_Interval
  <2> QED BY <1>3, <2>1, FS_Injection
<1>5. \A i \in 1..n : \E x \in S : rank(x) = i
  BY <1>4 DEF Surjection
<1> QED BY <1>n, <1>1, <1>2, <1>5

\* The history of a message is its path, by age.
LEMMA HistoryAscends ==
  ASSUME NEW ms, Numbered(ms), NEW m
  PROVE  Ascending(History(ms, m)) /\ ToSet(History(ms, m)) = Path(ms, m)
<1> DEFINE P == Path(ms, m)
           rank(x) == Cardinality({y \in P : y <= x})
           n == Cardinality(P)
           h == History(ms, m)
<1>1. P \subseteq DOMAIN ms /\ DOMAIN ms \subseteq Nat
  BY PathIsClosure DEF Numbered
<1>2. IsFiniteSet(P)
  <2>1. P \in SUBSET DOMAIN ms
    BY <1>1
  <2> QED BY <2>1, FS_Subset DEF Numbered
<1>3. /\ n \in Nat /\ \A x \in P : rank(x) \in 1..n
      /\ \A x, y \in P : x < y => rank(x) < rank(y)
      /\ \A i \in 1..n : \E x \in P : rank(x) = i
  <2> HIDE DEF P
  <2> QED BY <1>1, <1>2, Ranks
<1>4. h = [i \in 1..n |-> CHOOSE x \in P : rank(x) = i]
  BY DEF History
<1> HIDE DEF P, rank, n, h
<1>5. \A i \in 1..n : h[i] \in P /\ rank(h[i]) = i
  BY <1>3, <1>4
<1>6. Len(h) = n /\ DOMAIN h = 1..n
  BY <1>3, <1>4
<1>7. ASSUME NEW i \in 1..n, NEW k \in 1..n, i < k PROVE h[i] < h[k]
  <2>1. h[i] \in Nat /\ h[k] \in Nat
    BY <1>1, <1>5
  <2>2. h[i] # h[k]
    BY <1>3, <1>5, <1>7
  <2>3. ~(h[k] < h[i])
    BY <1>3, <1>5, <1>7
  <2> QED BY <2>1, <2>2, <2>3
<1>8. ASSUME NEW x \in P PROVE x \in ToSet(h)
  <2>1. rank(x) \in 1..n
    BY <1>3
  <2>2. h[rank(x)] \in P /\ rank(h[rank(x)]) = rank(x)
    BY <1>5, <2>1
  <2>3. h[rank(x)] = x
    BY <1>1, <1>3, <2>2
  <2> QED BY <1>6, <2>1, <2>3 DEF ToSet
<1>9. ToSet(h) \subseteq P
  BY <1>5, <1>6 DEF ToSet
<1>10. Ascending(h)
  BY <1>1, <1>3, <1>5, <1>6, <1>7 DEF Ascending
<1>11. ToSet(h) = P
  BY <1>8, <1>9
<1> QED BY <1>10, <1>11 DEF h, P

\* Positions in a history are in the order of the messages.
LEMMA Indices ==
  ASSUME NEW h, Ascending(h)
  PROVE  /\ \A i \in 1..Len(h) : h[i] \in ToSet(h) /\ IndexOf(h, h[i]) = i
         /\ \A x \in ToSet(h) : x \in Nat /\ IndexOf(h, x) \in 1..Len(h) /\ h[IndexOf(h, x)] = x
         /\ \A x, y \in ToSet(h) : x <= y <=> IndexOf(h, x) <= IndexOf(h, y)
<1>1. \A i \in 1..Len(h) : h[i] \in ToSet(h)
  BY DEF ToSet, Ascending
<1>2. ASSUME NEW x \in ToSet(h)
      PROVE  x \in Nat /\ IndexOf(h, x) \in 1..Len(h) /\ h[IndexOf(h, x)] = x
  <2>1. \E i \in 1..Len(h) : h[i] = x
    BY DEF ToSet, Ascending
  <2> QED BY <2>1 DEF IndexOf, Ascending
<1>3. ASSUME NEW i \in 1..Len(h), NEW k \in 1..Len(h), h[i] = h[k] PROVE i = k
  BY <1>3 DEF Ascending
<1>4. ASSUME NEW x \in ToSet(h), NEW y \in ToSet(h)
      PROVE  x <= y <=> IndexOf(h, x) <= IndexOf(h, y)
  <2> DEFINE i == IndexOf(h, x)
             k == IndexOf(h, y)
  <2>1. /\ i \in 1..Len(h) /\ h[i] = x /\ x \in Nat
        /\ k \in 1..Len(h) /\ h[k] = y /\ y \in Nat
    BY <1>2
  <2> HIDE DEF i, k
  <2>2. (i < k => x < y) /\ (k < i => y < x) /\ (i = k => x = y)
    BY <2>1 DEF Ascending
  <2>3. i <= k <=> x <= y
    BY <2>1, <2>2 DEF Ascending
  <2> QED BY <2>3 DEF i, k
<1> QED BY <1>1, <1>2, <1>3, <1>4

\* No block of the history begins up to the message after the n-th and ends later.
Reached(bs, h, n) ==
  \A b \in bs : OnPath(b, h) /\ IndexOf(h, b.from) <= n + 1 => IndexOf(h, b.anchor) <= n

\* How far the blocks reach that begin up to the message after the n-th.
Reach(bs, h, n) ==
  LET ends == {IndexOf(h, b.anchor) :
                 b \in {c \in bs : OnPath(c, h) /\ IndexOf(h, c.from) <= n + 1}}
  IN  CHOOSE e \in ends \cup {n} : \A f \in ends \cup {n} : f <= e

\* Every bounded set of natural numbers that is not empty has a greatest element.
LEMMA Greatest ==
  ASSUME NEW T, T \subseteq Nat, T # {}, NEW k \in Nat, \A n \in T : n <= k
  PROVE  \E n \in T : \A i \in T : i <= n
<1> DEFINE D == {k - n : n \in T}
<1>1. D \subseteq Nat /\ D # {}
  <2>1. \A n \in T : k - n \in Nat
    OBVIOUS
  <2> QED BY <2>1
<1>2. PICK d \in D : \A i \in D : d <= i
  BY <1>1, Smallest
<1>3. PICK n \in T : d = k - n
  BY <1>2
<1>4. ASSUME NEW i \in T PROVE i <= n
  <2>1. k - n <= k - i
    BY <1>2, <1>3
  <2>2. i \in Nat /\ n \in Nat
    OBVIOUS
  <2> QED BY <2>1, <2>2
<1> QED BY <1>4

\* One round of the search for the frontier.
LEMMA ReachGrows ==
  ASSUME NEW bs, NEW h, Ascending(h), NEW n \in 0..Len(h)
  PROVE  /\ Reach(bs, h, n) \in 0..Len(h) /\ n <= Reach(bs, h, n)
         /\ \A b \in bs : OnPath(b, h) /\ IndexOf(h, b.from) <= n + 1
                            => IndexOf(h, b.anchor) <= Reach(bs, h, n)
         /\ \/ Reach(bs, h, n) = n
            \/ \E b \in bs : /\ OnPath(b, h) /\ IndexOf(h, b.from) <= n + 1
                             /\ IndexOf(h, b.anchor) = Reach(bs, h, n)
<1> DEFINE C == {c \in bs : OnPath(c, h) /\ IndexOf(h, c.from) <= n + 1}
           ends == {IndexOf(h, b.anchor) : b \in C}
           E == ends \cup {n}
<1>0. Len(h) \in Nat
  BY DEF Ascending
<1>1. \A b \in C : IndexOf(h, b.anchor) \in 1..Len(h)
  BY Indices DEF OnPath
<1>2. E \subseteq 0..Len(h) /\ n \in E
  BY <1>1
<1>3. \E e \in E : \A f \in E : f <= e
  <2> HIDE DEF E
  <2>1. E \subseteq Nat /\ E # {} /\ \A e \in E : e <= Len(h)
    BY <1>0, <1>2
  <2> QED BY <1>0, <2>1, Greatest
<1>4. Reach(bs, h, n) = CHOOSE e \in E : \A f \in E : f <= e
  BY DEF Reach
<1>5. Reach(bs, h, n) \in E /\ \A f \in E : f <= Reach(bs, h, n)
  <2> HIDE DEF E
  <2> QED BY <1>3, <1>4
<1>6. \A b \in C : IndexOf(h, b.anchor) \in E
  OBVIOUS
<1> QED BY <1>2, <1>5, <1>6

\* The frontier is the least position that the blocks have reached.
LEMMA FrontierIsLeast ==
  ASSUME NEW bs, IsFiniteSet(bs), NEW h, Ascending(h)
  PROVE  /\ SummarizedFrontier(bs, h) \in 0..Len(h)
         /\ Reached(bs, h, SummarizedFrontier(bs, h))
         /\ \A n \in Nat : Reached(bs, h, n) => SummarizedFrontier(bs, h) <= n
<1> DEFINE V == 0..Len(h)
           step == [n \in V |-> Reach(bs, h, n)]
           f == CHOOSE reach : reach = [n \in Nat |->
                  IF n = 0 THEN 0
                  ELSE LET before == reach[n - 1]
                           ends   == {IndexOf(h, b.anchor) :
                              b \in {c \in bs : OnPath(c, h) /\ IndexOf(h, c.from) <= before + 1}}
                       IN  CHOOSE e \in ends \cup {before} : \A g \in ends \cup {before} : g <= e]
           c == Cardinality(bs)
<1>0. Len(h) \in Nat /\ c \in Nat
  BY FS_CardinalityType DEF Ascending
<1>1. 0 \in V /\ step \in [V -> V]
  BY <1>0, ReachGrows
<1>2. SummarizedFrontier(bs, h) = f[c]
  BY DEF SummarizedFrontier
<1>3. f = CHOOSE r : r = [n \in Nat |-> IF n = 0 THEN 0 ELSE Reach(bs, h, r[n - 1])]
  BY DEF Reach
<1> HIDE DEF f, step, V, c
<1>4. PICK g : g = [n \in Nat |-> IF n = 0 THEN 0 ELSE step[g[n - 1]]] /\ g \in [Nat -> V]
  BY <1>1, Recursion, SMTT(60)
<1>5. g = [n \in Nat |-> IF n = 0 THEN 0 ELSE Reach(bs, h, g[n - 1])]
  <2>1. \A n \in Nat : g[n] = IF n = 0 THEN 0 ELSE Reach(bs, h, g[n - 1])
    <3> SUFFICES ASSUME NEW n \in Nat
                 PROVE  g[n] = IF n = 0 THEN 0 ELSE Reach(bs, h, g[n - 1])
      OBVIOUS
    <3>1. g[n] = IF n = 0 THEN 0 ELSE step[g[n - 1]]
      BY <1>4
    <3>2. n # 0 => g[n - 1] \in V
      BY <1>4
    <3>3. n # 0 => step[g[n - 1]] = Reach(bs, h, g[n - 1])
      BY <3>2 DEF step
    <3> QED BY <3>1, <3>3
  <2>2. g = [n \in Nat |-> g[n]]
    BY <1>4
  <2> QED BY <2>1, <2>2
<1>6. f = [n \in Nat |-> IF n = 0 THEN 0 ELSE Reach(bs, h, f[n - 1])]
  BY <1>3, <1>5
<1>7. f[0] = 0 /\ \A n \in Nat : f[n + 1] = Reach(bs, h, f[n])
  <2>1. \A n \in Nat : f[n] = IF n = 0 THEN 0 ELSE Reach(bs, h, f[n - 1])
    BY <1>6
  <2> QED BY <2>1
<1>8. \A n \in Nat : f[n] \in V
  <2> DEFINE T == {n \in Nat : f[n] \in V}
  <2>1. 0 \in T
    BY <1>1, <1>7
  <2>2. ASSUME NEW n \in Nat, n \in T PROVE n + 1 \in T
    <3>1. f[n] \in 0..Len(h)
      BY <2>2 DEF V
    <3>2. Reach(bs, h, f[n]) \in V
      BY <3>1, ReachGrows DEF V
    <3> QED BY <1>7, <3>2
  <2> HIDE DEF T
  <2>3. Nat \subseteq T
    BY <2>1, <2>2, Induction
  <2> QED BY <2>3 DEF T
<1> DEFINE Within(n) == {b \in bs : OnPath(b, h) /\ IndexOf(h, b.anchor) <= f[n]}
           S == {n \in Nat : Reach(bs, h, f[n]) = f[n] \/ Cardinality(Within(n)) >= n}
<1>9. \A n \in Nat : IsFiniteSet(Within(n)) /\ Cardinality(Within(n)) \in Nat
  <2>1. \A n \in Nat : Within(n) \in SUBSET bs
    OBVIOUS
  <2> HIDE DEF Within
  <2> QED BY <2>1, FS_Subset, FS_CardinalityType
<1>10. 0 \in S
  BY <1>9
<1>11. ASSUME NEW n \in Nat, n \in S PROVE n + 1 \in S
  <2>1. CASE Reach(bs, h, f[n]) = f[n]
    <3>1. f[n + 1] = f[n]
      BY <1>7, <2>1
    <3> QED BY <2>1, <3>1
  <2>2. CASE Reach(bs, h, f[n]) # f[n]
    <3>1. f[n] \in V /\ f[n + 1] \in V /\ f[n + 1] = Reach(bs, h, f[n])
      BY <1>7, <1>8
    <3>2. f[n] <= f[n + 1] /\ f[n] # f[n + 1]
      BY <2>2, <3>1, ReachGrows DEF V
    <3>3. PICK b \in bs : OnPath(b, h) /\ IndexOf(h, b.anchor) = f[n + 1]
      BY <2>2, <3>1, ReachGrows DEF V
    <3>4. b \in Within(n + 1) /\ b \notin Within(n)
      BY <3>1, <3>2, <3>3 DEF V
    <3>5. Within(n) \in SUBSET Within(n + 1)
      <4> SUFFICES ASSUME NEW x \in Within(n) PROVE IndexOf(h, x.anchor) <= f[n + 1]
        OBVIOUS
      <4>1. IndexOf(h, x.anchor) \in 1..Len(h) /\ IndexOf(h, x.anchor) <= f[n]
        BY Indices DEF OnPath
      <4> QED BY <1>0, <3>1, <3>2, <4>1 DEF V
    <3> HIDE DEF Within
    <3>6. /\ Cardinality(Within(n)) <= Cardinality(Within(n + 1))
          /\ Cardinality(Within(n)) # Cardinality(Within(n + 1))
      <4>1. Within(n) # Within(n + 1) /\ IsFiniteSet(Within(n + 1))
        BY <1>9, <3>4
      <4> QED BY <3>5, <4>1, FS_Subset
    <3>7. Cardinality(Within(n)) >= n
      BY <1>11, <2>2
    <3>8. Cardinality(Within(n)) \in Nat /\ Cardinality(Within(n + 1)) \in Nat
      BY <1>9
    <3>9. Cardinality(Within(n + 1)) >= n + 1
      BY <3>6, <3>7, <3>8
    <3> QED BY <3>9
  <2> QED BY <2>1, <2>2
<1>12. c \in S
  <2> HIDE DEF S
  <2> QED BY <1>0, <1>10, <1>11, Induction
<1>13. Reach(bs, h, f[c]) = f[c]
  <2>1. CASE Cardinality(Within(c)) >= c
    <3>1. Within(c) \in SUBSET bs
      OBVIOUS
    <3> HIDE DEF Within
    <3>2. Cardinality(Within(c)) <= c /\ (Cardinality(Within(c)) = c => Within(c) = bs)
      BY <3>1, FS_Subset DEF c
    <3>3. Within(c) = bs
      BY <1>0, <1>9, <2>1, <3>2
    <3>4. \A b \in bs : OnPath(b, h) /\ IndexOf(h, b.anchor) <= f[c]
      BY <3>3 DEF Within
    <3>5. f[c] \in 0..Len(h)
      BY <1>0, <1>8 DEF V
    <3>6. /\ Reach(bs, h, f[c]) \in 0..Len(h) /\ f[c] <= Reach(bs, h, f[c])
          /\ \/ Reach(bs, h, f[c]) = f[c]
             \/ \E b \in bs : IndexOf(h, b.anchor) = Reach(bs, h, f[c])
      BY <3>5, ReachGrows
    <3> QED BY <1>0, <3>4, <3>5, <3>6
  <2> QED BY <1>12, <2>1
<1>14. f[c] \in 0..Len(h)
  BY <1>0, <1>8 DEF V
<1>15. Reached(bs, h, f[c])
  BY <1>13, <1>14, ReachGrows DEF Reached
<1>16. ASSUME NEW k \in Nat, Reached(bs, h, k) PROVE f[c] <= k
  <2> DEFINE T == {n \in Nat : f[n] <= k}
  <2>1. 0 \in T
    BY <1>7
  <2>2. ASSUME NEW n \in Nat, n \in T PROVE n + 1 \in T
    <3>1. f[n] \in 0..Len(h) /\ f[n] <= k /\ f[n + 1] = Reach(bs, h, f[n])
      BY <1>7, <1>8, <2>2 DEF V
    <3>2. CASE Reach(bs, h, f[n]) = f[n]
      BY <3>1, <3>2
    <3>3. CASE Reach(bs, h, f[n]) # f[n]
      <4>1. PICK b \in bs : /\ OnPath(b, h) /\ IndexOf(h, b.from) <= f[n] + 1
                            /\ IndexOf(h, b.anchor) = Reach(bs, h, f[n])
        BY <3>1, <3>3, ReachGrows
      <4>2. IndexOf(h, b.from) \in 1..Len(h)
        BY <4>1, Indices DEF OnPath
      <4>3. IndexOf(h, b.from) <= k + 1
        BY <1>0, <3>1, <4>1, <4>2
      <4>4. Reach(bs, h, f[n]) <= k
        BY <1>16, <4>1, <4>3 DEF Reached
      <4> QED BY <3>1, <4>4
    <3> QED BY <3>2, <3>3
  <2> HIDE DEF T
  <2>3. Nat \subseteq T
    BY <2>1, <2>2, Induction
  <2> QED BY <1>0, <2>3 DEF T
<1> QED BY <1>2, <1>14, <1>15, <1>16

\* No two blocks have the same ends.
Distinct(bs) == \A b, c \in bs : b.from = c.from /\ b.anchor = c.anchor => b = c

\* The blocks of a history that lie in no other one.
Kept(bs, h) == {b \in bs : OnPath(b, h) /\ \A c \in bs : OnPath(c, h) => ~Contained(b, c)}

\* Every block of a history lies in one that is kept.
LEMMA WidestIsKept ==
  ASSUME NEW bs, Distinct(bs), NEW h, Ascending(h), NEW b \in bs, OnPath(b, h)
  PROVE  \E c \in Kept(bs, h) : c.from <= b.from /\ b.anchor <= c.anchor
<1> DEFINE In(c, d) == d.from <= c.from /\ c.anchor <= d.anchor
           C == {c \in bs : OnPath(c, h) /\ In(b, c)}
           weight(c) == IndexOf(h, c.from) + (Len(h) - IndexOf(h, c.anchor))
           W == {weight(c) : c \in C}
<1>1. \A c \in bs : OnPath(c, h) =>
        /\ c.from \in ToSet(h) /\ c.anchor \in ToSet(h) /\ c.from \in Nat /\ c.anchor \in Nat
        /\ IndexOf(h, c.from) \in 1..Len(h) /\ IndexOf(h, c.anchor) \in 1..Len(h)
        /\ weight(c) \in Nat
  <2> SUFFICES ASSUME NEW c \in bs, OnPath(c, h)
               PROVE  /\ c.from \in ToSet(h) /\ c.anchor \in ToSet(h) /\ c.from \in Nat /\ c.anchor \in Nat
                      /\ IndexOf(h, c.from) \in 1..Len(h) /\ IndexOf(h, c.anchor) \in 1..Len(h)
                      /\ weight(c) \in Nat
    BY Zenon
  <2>1. c.from \in ToSet(h) /\ c.anchor \in ToSet(h)
    BY DEF OnPath
  <2>2. /\ c.from \in Nat /\ IndexOf(h, c.from) \in 1..Len(h)
        /\ c.anchor \in Nat /\ IndexOf(h, c.anchor) \in 1..Len(h)
    BY <2>1, Indices
  <2>3. Len(h) \in Nat
    BY DEF Ascending
  <2> QED BY <2>1, <2>2, <2>3
<1>2. \A c, d \in bs : OnPath(c, h) /\ OnPath(d, h) /\ In(c, d) /\ c # d => weight(d) < weight(c)
  <2> SUFFICES ASSUME NEW c \in bs, NEW d \in bs, OnPath(c, h), OnPath(d, h), In(c, d), c # d
               PROVE  weight(d) < weight(c)
    OBVIOUS
  <2>1. /\ IndexOf(h, d.from) <= IndexOf(h, c.from)
        /\ IndexOf(h, c.anchor) <= IndexOf(h, d.anchor)
    BY <1>1, Indices
  <2>2. ~(d.from = c.from /\ d.anchor = c.anchor)
    BY DEF Distinct
  <2>3. ~(IndexOf(h, c.from) <= IndexOf(h, d.from) /\ IndexOf(h, d.anchor) <= IndexOf(h, c.anchor))
    <3>1. IndexOf(h, c.from) <= IndexOf(h, d.from) => c.from <= d.from
      BY <1>1, Indices
    <3>2. IndexOf(h, d.anchor) <= IndexOf(h, c.anchor) => d.anchor <= c.anchor
      BY <1>1, Indices
    <3>3. c.from \in Nat /\ d.from \in Nat /\ c.anchor \in Nat /\ d.anchor \in Nat
      BY <1>1
    <3> QED BY <2>2, <3>1, <3>2, <3>3
  <2> QED BY <1>1, <2>1, <2>3
<1>3. b \in C
  BY <1>1
<1>4. W \subseteq Nat /\ W # {}
  <2> HIDE DEF weight
  <2> QED BY <1>1, <1>3
<1>5. PICK w \in W : \A v \in W : w <= v
  <2> HIDE DEF W
  <2> QED BY <1>4, Smallest
<1>6. PICK c \in C : w = weight(c)
  BY <1>5
<1>7. ASSUME NEW d \in bs, OnPath(d, h), Contained(c, d) PROVE FALSE
  <2>1. d # c /\ In(c, d)
    BY <1>7 DEF Contained
  <2>2. d \in C
    <3>1. /\ d.from \in Nat /\ c.from \in Nat /\ b.from \in Nat
          /\ d.anchor \in Nat /\ c.anchor \in Nat /\ b.anchor \in Nat
      BY <1>1, <1>7
    <3>2. In(b, d)
      BY <2>1, <3>1
    <3> QED BY <1>7, <3>2
  <2>3. weight(d) < weight(c)
    BY <1>2, <1>7, <2>1
  <2>4. weight(c) <= weight(d)
    BY <1>5, <1>6, <2>2
  <2>5. weight(c) \in Nat /\ weight(d) \in Nat
    BY <1>1, <1>7
  <2> HIDE DEF weight
  <2> QED BY <2>3, <2>4, <2>5
<1> QED BY <1>6, <1>7 DEF Kept

\* Blocks whose positions are reached whenever those of others are have no greater frontier.
LEMMA FrontierGrows ==
  ASSUME NEW bs, IsFiniteSet(bs), NEW cs, IsFiniteSet(cs), NEW h, Ascending(h),
         \A k \in Nat : Reached(cs, h, k) => Reached(bs, h, k)
  PROVE  SummarizedFrontier(bs, h) <= SummarizedFrontier(cs, h)
<1>1. Len(h) \in Nat
  BY DEF Ascending
<1>2. SummarizedFrontier(cs, h) \in 0..Len(h) /\ Reached(cs, h, SummarizedFrontier(cs, h))
  BY FrontierIsLeast
<1>3. SummarizedFrontier(cs, h) \in Nat
  BY <1>1, <1>2
<1> QED BY <1>2, <1>3, FrontierIsLeast

\* What is rendered on a history: it reaches as far as all the blocks do, ends
\* there, and leaves out no position before (llm/compaction.go, filterBlocksForPath).
LEMMA FilterCovers ==
  ASSUME NEW bs, IsFiniteSet(bs), Distinct(bs), NEW h, Ascending(h)
  PROVE  LET path == FilterBlocksForPath(bs, h)
             n == SummarizedFrontier(bs, h)
         IN  /\ SummarizedFrontier(path, h) = n /\ n \in 0..Len(h)
             /\ \A b \in path : b \in bs /\ OnPath(b, h) /\ IndexOf(h, b.anchor) <= n
             /\ \A i \in 1..n : \E b \in path : /\ IndexOf(h, b.from) <= i
                                                /\ i <= IndexOf(h, b.anchor)
<1> DEFINE kept == Kept(bs, h)
           path == {b \in kept : IndexOf(h, b.anchor) <= SummarizedFrontier(kept, h)}
           n == SummarizedFrontier(bs, h)
           p == SummarizedFrontier(path, h)
<1>0. FilterBlocksForPath(bs, h) = path
  <2>1. kept = {b \in {c \in bs : OnPath(c, h)} :
                  \A c \in {d \in bs : OnPath(d, h)} : ~Contained(b, c)}
    BY DEF Kept
  <2> QED BY <2>1 DEF FilterBlocksForPath
<1>1. \A b \in kept : b \in bs /\ OnPath(b, h)
  BY DEF Kept
<1>2. IsFiniteSet(kept) /\ IsFiniteSet(path)
  <2>1. kept \in SUBSET bs /\ path \in SUBSET bs
    BY <1>1
  <2> QED BY <2>1, FS_Subset
<1>3. Len(h) \in Nat
  BY DEF Ascending
<1>4. \A b \in bs : OnPath(b, h) =>
        /\ IndexOf(h, b.from) \in 1..Len(h) /\ IndexOf(h, b.anchor) \in 1..Len(h)
  BY Indices DEF OnPath
<1>5. ASSUME NEW k \in Nat PROVE Reached(kept, h, k) => Reached(bs, h, k)
  <2> SUFFICES ASSUME Reached(kept, h, k), NEW b \in bs, OnPath(b, h), IndexOf(h, b.from) <= k + 1
               PROVE  IndexOf(h, b.anchor) <= k
    BY DEF Reached
  <2>1. PICK c \in kept : c.from <= b.from /\ b.anchor <= c.anchor
    BY WidestIsKept
  <2>2. OnPath(c, h) /\ c \in bs
    BY <1>1, <2>1
  <2>3. IndexOf(h, c.from) <= IndexOf(h, b.from) /\ IndexOf(h, b.anchor) <= IndexOf(h, c.anchor)
    BY <2>1, <2>2, Indices DEF OnPath
  <2>4. IndexOf(h, c.from) <= k + 1
    BY <1>3, <1>4, <2>2, <2>3
  <2>5. IndexOf(h, c.anchor) <= k
    BY <2>1, <2>2, <2>4 DEF Reached
  <2> QED BY <1>3, <1>4, <2>2, <2>3, <2>5
<1>6. \A k \in Nat : Reached(bs, h, k) => Reached(kept, h, k)
  BY <1>1 DEF Reached
<1>7. n \in 0..Len(h) /\ n \in Nat /\ SummarizedFrontier(kept, h) \in 0..Len(h)
  BY <1>2, <1>3, FrontierIsLeast
<1>8. SummarizedFrontier(kept, h) = n
  <2>1. SummarizedFrontier(kept, h) <= n /\ n <= SummarizedFrontier(kept, h)
    BY <1>2, <1>5, <1>6, FrontierGrows
  <2> QED BY <1>3, <1>7, <2>1
<1>9. \A b \in path : b \in bs /\ OnPath(b, h) /\ IndexOf(h, b.anchor) <= n
  BY <1>1, <1>8
<1>10. Reached(path, h, n) /\ Reached(kept, h, n)
  BY <1>2, <1>8, <1>9, FrontierIsLeast DEF Reached
<1>11. p \in 0..Len(h) /\ p <= n /\ Reached(path, h, p)
  BY <1>2, <1>7, <1>10, FrontierIsLeast
<1>12. Reached(kept, h, p)
  <2> SUFFICES ASSUME NEW b \in kept, OnPath(b, h), IndexOf(h, b.from) <= p + 1
               PROVE  IndexOf(h, b.anchor) <= p
    BY DEF Reached
  <2>1. IndexOf(h, b.from) <= n + 1
    BY <1>1, <1>3, <1>4, <1>7, <1>11
  <2>2. b \in path
    BY <1>8, <1>10, <2>1 DEF Reached
  <2> QED BY <1>11, <2>2 DEF Reached
<1>13. n <= p
  <2>1. p \in Nat
    BY <1>3, <1>11
  <2> QED BY <1>2, <1>8, <1>12, <2>1, FrontierIsLeast
<1>14. p = n
  BY <1>3, <1>7, <1>11, <1>13
<1>15. ASSUME NEW i \in 1..n,
              \A b \in path : ~(IndexOf(h, b.from) <= i /\ i <= IndexOf(h, b.anchor))
       PROVE  FALSE
  <2>1. i \in Nat /\ i - 1 \in Nat /\ (i - 1) + 1 = i /\ i <= n
    BY <1>7
  <2>2. Reached(path, h, i - 1)
    <3> SUFFICES ASSUME NEW b \in path, IndexOf(h, b.from) <= i
                 PROVE  IndexOf(h, b.anchor) <= i - 1
      BY <2>1 DEF Reached
    <3>1. ~(i <= IndexOf(h, b.anchor)) /\ IndexOf(h, b.anchor) \in 1..Len(h)
      BY <1>4, <1>9, <1>15
    <3> QED BY <1>3, <2>1, <3>1
  <2>3. p <= i - 1
    BY <1>2, <2>1, <2>2, FrontierIsLeast
  <2> QED BY <1>7, <1>14, <2>1, <2>3
<1>16. \A i \in 1..n : \E b \in path : IndexOf(h, b.from) <= i /\ i <= IndexOf(h, b.anchor)
  BY <1>15
<1> HIDE DEF path, n
<1> QED BY <1>0, <1>7, <1>9, <1>14, <1>16 DEF n

-----------------------------------------------------------------------------
(* The inductive invariant of the summaries.                               *)

\* A row, and how little a row whose answer is not written yet has to say.
SummaryRow ==
  [parent : Nat \cup {NoMessage}, role : {"user", "assistant"}, created : Nat,
   status : {"streaming", "stopping", "complete", "orphan"}, version : 0..MaxVersion]

RowsInOrder(ms) ==
  /\ Numbered(ms)
  /\ \A x \in DOMAIN ms :
       ms[x] \in SummaryRow /\ (ms[x].status \in {"streaming", "stopping"} => ms[x].version = 0)

\* A block covers a range of the path of its anchor, all of it, as it is.
Sound(b, ms) ==
  /\ b.anchor \in DOMAIN ms /\ b.from \in Path(ms, b.anchor)
  /\ DOMAIN b.covers = {x \in Path(ms, b.anchor) : b.from <= x}
  /\ \A x \in DOMAIN b.covers :
       b.covers[x] \in {ms[x].version, 0} /\ ms[x].status # "streaming"

\* What a worker has read was a path; what is left of it is one still. It asked for
\* what lies between the frontier and the cut, and none of that was in flight.
SoundJob(j, ms, n) ==
  /\ Ascending(j.history) /\ \A x \in ToSet(j.history) : x < n
  /\ \A x \in ToSet(j.history) \cap DOMAIN ms :
       Path(ms, x) = {y \in ToSet(j.history) \cap DOMAIN ms : y <= x}
  /\ LET f == SummarizedFrontier(j.path, j.history)
     IN  /\ f \in Nat
         /\ \E cut \in f + 1 .. Len(j.history) :
              j.anchor = j.history[cut] /\ DOMAIN j.newer = {j.history[i] : i \in f + 1 .. cut}
  /\ \A x \in DOMAIN j.newer :
       j.newer[x].version \in 0..MaxVersion /\ (x \in DOMAIN ms => ms[x].status # "streaming")

SummariesSound ==
  /\ next \in 1..(MaxMessages + 1) /\ DOMAIN rows \subseteq 1..(next - 1)
  /\ activeLeaf \in 1..MaxMessages \cup {NoMessage}
  /\ RowsInOrder(rows)
  /\ IsFiniteSet(blocks) /\ Distinct(blocks) /\ \A b \in blocks : Sound(b, rows)
  /\ job = [w \in Workers |-> job[w]]
  /\ \A w \in Workers : job[w].at = "asked" => SoundJob(job[w], rows, next)

-----------------------------------------------------------------------------
(* What the steps do to the rows.                                          *)

\* Rows may come and go and be written: the paths of those that stay lose the rows
\* that went, and none of them begins to stream.
Evolves(ms, new, n) ==
  /\ \A x \in DOMAIN new \ DOMAIN ms : n <= x
  /\ \A x \in DOMAIN new \cap DOMAIN ms :
       /\ Path(new, x) = Path(ms, x) \cap DOMAIN new
       /\ new[x].status = "streaming" => ms[x].status = "streaming"

\* A job that is under way keeps what it needs.
LEMMA JobsEndure ==
  ASSUME NEW ms, NEW new, NEW n \in Nat, NEW k \in Nat, n <= k, NEW j,
         SoundJob(j, ms, n), Evolves(ms, new, n)
  PROVE  SoundJob(j, new, k)
<1> DEFINE H == ToSet(j.history)
<1>1. Ascending(j.history) /\ \A x \in H : x \in Nat /\ x < n
  BY Indices DEF SoundJob
<1>2. \A x \in H : x < k
  BY <1>1
<1>3. \A x \in H : x \in DOMAIN new => x \in DOMAIN ms
  BY <1>1 DEF Evolves
<1>4. ASSUME NEW x \in H \cap DOMAIN new
      PROVE  Path(new, x) = {y \in H \cap DOMAIN new : y <= x}
  <2>1. x \in DOMAIN ms
    BY <1>3
  <2>2. Path(ms, x) = {y \in H \cap DOMAIN ms : y <= x}
    BY <2>1 DEF SoundJob
  <2>3. Path(new, x) = Path(ms, x) \cap DOMAIN new
    BY <2>1 DEF Evolves
  <2> QED BY <1>3, <2>2, <2>3
<1>5. \A x \in DOMAIN j.newer : x \in H
  <2>0. SummarizedFrontier(j.path, j.history) \in Nat
    BY DEF SoundJob
  <2>1. PICK cut \in SummarizedFrontier(j.path, j.history) + 1 .. Len(j.history) :
          DOMAIN j.newer = {j.history[i] : i \in SummarizedFrontier(j.path, j.history) + 1 .. cut}
    BY DEF SoundJob
  <2>2. Len(j.history) \in Nat
    BY <1>1 DEF Ascending
  <2> QED BY <1>1, <2>0, <2>1, <2>2, Indices
<1>6. \A x \in DOMAIN j.newer : x \in DOMAIN new => new[x].status # "streaming"
  BY <1>3, <1>5 DEF SoundJob, Evolves
<1> QED BY <1>1, <1>2, <1>4, <1>6 DEF SoundJob

\* A block is sound still if nothing it covers has gone or got another content.
LEMMA BlockEndures ==
  ASSUME NEW ms, Numbered(ms), NEW new, NEW n, Evolves(ms, new, n),
         NEW b, Sound(b, ms),
         \A x \in DOMAIN b.covers : x \in DOMAIN new /\ b.covers[x] \in {new[x].version, 0}
  PROVE  Sound(b, new)
<1> DEFINE P == Path(ms, b.anchor)
<1>1. /\ b.anchor \in DOMAIN ms /\ b.from \in P
      /\ DOMAIN b.covers = {x \in P : b.from <= x}
      /\ \A x \in DOMAIN b.covers : ms[x].status # "streaming"
  BY DEF Sound
<1>2. P \subseteq DOMAIN ms /\ b.anchor \in P
  BY <1>1, PathIsClosure DEF Numbered
<1>3. b.from \in Nat /\ b.from <= b.anchor
  BY <1>1, <1>2, PathGoesUp DEF Numbered
<1>4. b.from \in DOMAIN b.covers /\ b.anchor \in DOMAIN b.covers
  BY <1>1, <1>2, <1>3
<1>5. b.from \in DOMAIN new /\ b.anchor \in DOMAIN new
  BY <1>4
<1>6. Path(new, b.anchor) = P \cap DOMAIN new
  BY <1>1, <1>5 DEF Evolves
<1>7. DOMAIN b.covers = {x \in Path(new, b.anchor) : b.from <= x}
  BY <1>1, <1>6
<1>8. \A x \in DOMAIN b.covers : new[x].status # "streaming"
  BY <1>1, <1>2 DEF Evolves
<1> QED BY <1>1, <1>5, <1>6, <1>7, <1>8 DEF Sound

\* What keeps the invariant of a step that stores no summary.
LEMMA ChangesKeep ==
  ASSUME SummariesSound, RowsInOrder(rows'), Evolves(rows, rows', next),
         next' \in 1..(MaxMessages + 1), next <= next', MaxMessages \in Nat,
         DOMAIN rows' \subseteq 1..(next' - 1),
         activeLeaf' \in 1..MaxMessages \cup {NoMessage},
         job' = job, blocks' \in SUBSET blocks,
         \A b \in blocks' : \A x \in DOMAIN b.covers :
           x \in DOMAIN rows' /\ b.covers[x] \in {rows'[x].version, 0}
  PROVE  SummariesSound'
<1>1. IsFiniteSet(blocks')
  BY FS_Subset DEF SummariesSound
<1>2. Distinct(blocks')
  BY DEF SummariesSound, Distinct
<1>3. \A b \in blocks' : Sound(b, rows')
  <2> SUFFICES ASSUME NEW b \in blocks' PROVE Sound(b, rows')
    OBVIOUS
  <2>1. Numbered(rows) /\ Sound(b, rows)
    BY DEF SummariesSound, RowsInOrder
  <2> QED BY <2>1, BlockEndures
<1>4. \A w \in Workers : job'[w].at = "asked" => SoundJob(job'[w], rows', next')
  <2> SUFFICES ASSUME NEW w \in Workers, job[w].at = "asked" PROVE SoundJob(job[w], rows', next')
    OBVIOUS
  <2>1. SoundJob(job[w], rows, next) /\ next \in Nat /\ next' \in Nat
    BY DEF SummariesSound
  <2> QED BY <2>1, JobsEndure
<1>5. job' = [w \in Workers |-> job'[w]]
  BY DEF SummariesSound
<1> QED BY <1>1, <1>2, <1>3, <1>4, <1>5 DEF SummariesSound

\* A row with another status.
LEMMA StatusOfRow ==
  ASSUME NEW x \in SummaryRow, NEW s \in {"streaming", "stopping", "complete", "orphan"}
  PROVE  /\ [x EXCEPT !.status = s].status = s
         /\ [x EXCEPT !.status = s] \in SummaryRow
         /\ [x EXCEPT !.status = s].parent = x.parent
         /\ [x EXCEPT !.status = s].created = x.created
         /\ [x EXCEPT !.status = s].version = x.version
<1>1. PICK q \in Nat \cup {NoMessage}, role \in {"user", "assistant"}, c \in Nat,
           t \in {"streaming", "stopping", "complete", "orphan"}, k \in 0..MaxVersion :
        x = [parent |-> q, role |-> role, created |-> c, status |-> t, version |-> k]
  BY DEF SummaryRow
<1>2. [x EXCEPT !.status = s] = [parent |-> q, role |-> role, created |-> c, status |-> s, version |-> k]
  BY <1>1
<1> QED BY <1>1, <1>2 DEF SummaryRow

\* A row with another content.
LEMMA VersionOfRow ==
  ASSUME NEW x \in SummaryRow, NEW v \in 0..MaxVersion
  PROVE  /\ [x EXCEPT !.version = v].version = v
         /\ [x EXCEPT !.version = v] \in SummaryRow
         /\ [x EXCEPT !.version = v].parent = x.parent
         /\ [x EXCEPT !.version = v].created = x.created
         /\ [x EXCEPT !.version = v].status = x.status
<1>1. PICK q \in Nat \cup {NoMessage}, role \in {"user", "assistant"}, c \in Nat,
           t \in {"streaming", "stopping", "complete", "orphan"}, k \in 0..MaxVersion :
        x = [parent |-> q, role |-> role, created |-> c, status |-> t, version |-> k]
  BY DEF SummaryRow
<1>2. [x EXCEPT !.version = v] = [parent |-> q, role |-> role, created |-> c, status |-> t, version |-> v]
  BY <1>1
<1> QED BY <1>1, <1>2 DEF SummaryRow

\* A row that is moved.
LEMMA ParentOfRow ==
  ASSUME NEW x \in SummaryRow, NEW p
  PROVE  /\ [x EXCEPT !.parent = p].parent = p
         /\ p \in Nat \cup {NoMessage} => [x EXCEPT !.parent = p] \in SummaryRow
         /\ [x EXCEPT !.parent = p].created = x.created
         /\ [x EXCEPT !.parent = p].status = x.status
         /\ [x EXCEPT !.parent = p].version = x.version
<1>1. PICK q \in Nat \cup {NoMessage}, role \in {"user", "assistant"}, c \in Nat,
           t \in {"streaming", "stopping", "complete", "orphan"}, k \in 0..MaxVersion :
        x = [parent |-> q, role |-> role, created |-> c, status |-> t, version |-> k]
  BY DEF SummaryRow
<1>2. [x EXCEPT !.parent = p] = [parent |-> p, role |-> role, created |-> c, status |-> t, version |-> k]
  BY <1>1
<1> QED BY <1>1, <1>2 DEF SummaryRow

\* One row is written, and stays where it is.
Writes(ms, new, m) ==
  /\ DOMAIN new = DOMAIN ms /\ \A x \in DOMAIN ms \ {m} : new[x] = ms[x]
  /\ new[m] \in SummaryRow /\ (new[m].status \in {"streaming", "stopping"} => new[m].version = 0)
  /\ new[m].parent = ms[m].parent /\ new[m].created = ms[m].created
  /\ new[m].status # "streaming"

LEMMA RowWritten ==
  ASSUME NEW ms, RowsInOrder(ms), NEW m \in DOMAIN ms, NEW new, Writes(ms, new, m), NEW n
  PROVE  RowsInOrder(new) /\ Evolves(ms, new, n)
<1>1. /\ DOMAIN new = DOMAIN ms /\ \A x \in DOMAIN ms \ {m} : new[x] = ms[x]
      /\ new[m] \in SummaryRow /\ (new[m].status \in {"streaming", "stopping"} => new[m].version = 0)
      /\ new[m].parent = ms[m].parent /\ new[m].created = ms[m].created
      /\ new[m].status # "streaming"
  BY DEF Writes
<1>2. \A x \in DOMAIN ms : new[x].parent = ms[x].parent /\ new[x].created = ms[x].created
  BY <1>1
<1>3. RowsInOrder(new)
  <2>1. Numbered(new)
    BY <1>1, <1>2 DEF RowsInOrder, Numbered
  <2> QED BY <1>1, <2>1 DEF RowsInOrder
<1>4. \A x \in DOMAIN new : Path(new, x) = Path(ms, x) \cap DOMAIN new
  <2>1. IsFiniteSet(DOMAIN ms)
    BY DEF RowsInOrder, Numbered
  <2>2. \A x \in DOMAIN ms : Path(new, x) = Path(ms, x)
    BY <1>1, <1>2, <2>1, SamePaths
  <2>3. \A x : Path(ms, x) \subseteq DOMAIN ms
    BY <2>1, PathIsClosure
  <2> QED BY <1>1, <2>2, <2>3
<1>5. Evolves(ms, new, n)
  BY <1>1, <1>4 DEF Evolves
<1> QED BY <1>3, <1>5

\* A new row may be added below another, or as a root.
CanAdd(ms, n, p, role, status, version) ==
  /\ RowsInOrder(ms) /\ n \in Nat /\ n # NoMessage /\ \A x \in DOMAIN ms : x < n
  /\ p \in DOMAIN ms \cup {NoMessage} /\ role \in {"user", "assistant"}
  /\ status \in {"streaming", "complete"} /\ version \in 0..MaxVersion
  /\ status = "streaming" => version = 0

\* One row more, and the others as they were.
Adds(ms, new, n) ==
  /\ RowsInOrder(new) /\ Evolves(ms, new, n)
  /\ DOMAIN new = DOMAIN ms \cup {n} /\ \A x \in DOMAIN ms : new[x] = ms[x]

\* What an insertion does.
LEMMA RowAdded ==
  ASSUME NEW ms, NEW n, NEW p, NEW role, NEW status, NEW version,
         CanAdd(ms, n, p, role, status, version)
  PROVE  Adds(ms, InsertRow(ms, n, p, role, status, version), n)
<1> DEFINE new == InsertRow(ms, n, p, role, status, version)
           r == [parent |-> p, role |-> role, created |-> n, status |-> status, version |-> version]
<1> USE DEF CanAdd
<1>1. /\ DOMAIN new = DOMAIN ms \cup {n} /\ n \notin DOMAIN ms
      /\ new[n] = r /\ \A x \in DOMAIN ms : new[x] = ms[x]
  <2>1. \A x \in DOMAIN ms : x \in Nat /\ x # n
    BY DEF RowsInOrder, Numbered
  <2> QED BY <2>1 DEF InsertRow
<1>2. /\ IsFiniteSet(DOMAIN ms) /\ DOMAIN ms \subseteq Nat /\ NoMessage \notin DOMAIN ms
      /\ \A x \in DOMAIN ms : ms[x].created = x
           /\ (ms[x].parent = NoMessage \/ (ms[x].parent \in DOMAIN ms /\ ms[x].parent < x))
  BY DEF RowsInOrder, Numbered
<1>3. r \in SummaryRow /\ r.parent = p /\ r.created = n /\ r.status = status /\ r.version = version
  BY <1>2 DEF SummaryRow
<1> HIDE DEF r, new
<1>4. Numbered(new)
  <2>1. IsFiniteSet(DOMAIN new)
    BY <1>1, <1>2, FS_AddElement
  <2>2. \A x \in DOMAIN new : new[x].created = x
          /\ (new[x].parent = NoMessage \/ (new[x].parent \in DOMAIN new /\ new[x].parent < x))
    BY <1>1, <1>2, <1>3
  <2> QED BY <1>1, <1>2, <2>1, <2>2 DEF Numbered
<1>5. RowsInOrder(new)
  BY <1>1, <1>3, <1>4 DEF RowsInOrder
<1>6. \A x \in DOMAIN ms : Path(new, x) = Path(ms, x)
  <2>1. Numbered(ms) /\ \A x \in DOMAIN ms : new[x].parent = ms[x].parent
    BY <1>1 DEF RowsInOrder
  <2> QED BY <1>1, <2>1, PathsOfOthers
<1>7. \A x : Path(ms, x) \subseteq DOMAIN ms
  BY <1>2, PathIsClosure
<1>8. Evolves(ms, new, n)
  BY <1>1, <1>6, <1>7 DEF Evolves
<1> QED BY <1>1, <1>5, <1>8 DEF new, Adds

\* What blocks cover is written in rows that stay as they are.
LEMMA CoversStay ==
  ASSUME NEW ms, NEW new, NEW bs, \A b \in bs : Sound(b, ms),
         \A x \in DOMAIN ms : x \in DOMAIN new /\ new[x].version = ms[x].version,
         IsFiniteSet(DOMAIN ms)
  PROVE  \A b \in bs : \A x \in DOMAIN b.covers :
           x \in DOMAIN new /\ b.covers[x] \in {new[x].version, 0}
<1>1. \A b \in bs : \A x \in DOMAIN b.covers :
        x \in Path(ms, b.anchor) /\ b.covers[x] \in {ms[x].version, 0}
  BY DEF Sound
<1>2. \A m : Path(ms, m) \subseteq DOMAIN ms
  BY PathIsClosure
<1> QED BY <1>1, <1>2

\* A question and the placeholder of its answer (llm/orchestrator.go).
LEMMA SendKeeps ==
  ASSUME CompactionAssumption, SummariesSound, NEW p \in DOMAIN rows \cup {NoMessage}, Send(p)
  PROVE  SummariesSound'
<1> DEFINE mid == InsertRow(rows, next, p, "user", "complete", 1)
<1>1. /\ next + 1 <= MaxMessages /\ next \in Nat /\ MaxMessages \in Nat
      /\ rows' = InsertRow(mid, next + 1, next, "assistant", "streaming", 0)
      /\ activeLeaf' = next + 1 /\ next' = next + 2 /\ job' = job /\ blocks' = blocks
  BY DEF Send, SummariesSound, CompactionAssumption
<1>2. RowsInOrder(rows) /\ DOMAIN rows \subseteq 1..(next - 1) /\ next \in 1..(MaxMessages + 1)
  BY DEF SummariesSound
<1>3. \A x \in DOMAIN rows : x < next
  BY <1>1, <1>2
<1>4. next # NoMessage /\ next + 1 # NoMessage /\ 1 \in 0..MaxVersion /\ 0 \in 0..MaxVersion
  <2>1. next \in 1..MaxMessages /\ next + 1 \in 1..MaxMessages
    BY <1>1, <1>2
  <2>2. NoMessage \notin 1..MaxMessages /\ MaxVersion \in Nat \ {0}
    BY DEF CompactionAssumption
  <2> QED BY <2>1, <2>2
<1>5. /\ RowsInOrder(mid) /\ Evolves(rows, mid, next) /\ DOMAIN mid = DOMAIN rows \cup {next}
      /\ \A x \in DOMAIN rows : mid[x] = rows[x]
  <2>1. CanAdd(rows, next, p, "user", "complete", 1)
    BY <1>1, <1>2, <1>3, <1>4 DEF CanAdd
  <2>2. Adds(rows, mid, next)
    BY <2>1, RowAdded
  <2> HIDE DEF mid
  <2> QED BY <2>2 DEF Adds
<1> HIDE DEF mid
<1>6. \A x \in DOMAIN mid : x < next + 1
  BY <1>1, <1>2, <1>5
<1>7. /\ RowsInOrder(rows') /\ Evolves(mid, rows', next + 1)
      /\ DOMAIN rows' = DOMAIN mid \cup {next + 1} /\ \A x \in DOMAIN mid : rows'[x] = mid[x]
  <2>1. CanAdd(mid, next + 1, next, "assistant", "streaming", 0)
    BY <1>1, <1>4, <1>5, <1>6 DEF CanAdd
  <2>2. Adds(mid, rows', next + 1)
    BY <1>1, <2>1, RowAdded
  <2> QED BY <2>2 DEF Adds
<1>8. IsFiniteSet(DOMAIN rows)
  BY <1>2 DEF RowsInOrder, Numbered
<1>9. Evolves(rows, rows', next)
  <2>1. \A x \in DOMAIN rows' \ DOMAIN rows : next <= x
    BY <1>1, <1>5, <1>7
  <2>2. \A x \in DOMAIN rows : Path(rows', x) = Path(rows, x) \cap DOMAIN rows'
    <3>1. \A x : Path(rows, x) \subseteq DOMAIN rows
      BY <1>8, PathIsClosure
    <3> QED BY <1>5, <1>7, <3>1 DEF Evolves
  <2>3. \A x \in DOMAIN rows : rows'[x].status = rows[x].status
    BY <1>5, <1>7
  <2> QED BY <2>1, <2>2, <2>3 DEF Evolves
<1>10. \A b \in blocks' : \A x \in DOMAIN b.covers :
         x \in DOMAIN rows' /\ b.covers[x] \in {rows'[x].version, 0}
  <2>1. \A b \in blocks : Sound(b, rows)
    BY DEF SummariesSound
  <2>2. \A x \in DOMAIN rows : x \in DOMAIN rows' /\ rows'[x].version = rows[x].version
    BY <1>5, <1>7
  <2> QED BY <1>1, <1>8, <2>1, <2>2, CoversStay
<1>11. /\ next' \in 1..(MaxMessages + 1) /\ next <= next'
       /\ activeLeaf' \in 1..MaxMessages \cup {NoMessage}
       /\ DOMAIN rows' \subseteq 1..(next' - 1)
  BY <1>1, <1>2, <1>5, <1>7
<1> QED BY <1>1, <1>7, <1>9, <1>10, <1>11, ChangesKeep

\* Another answer (api/messages_handlers.go, regenerateHandler).
LEMMA RegenerateMessageKeeps ==
  ASSUME CompactionAssumption, SummariesSound, NEW q \in DOMAIN rows, RegenerateMessage(q)
  PROVE  SummariesSound'
<1>1. /\ next <= MaxMessages /\ next \in Nat /\ MaxMessages \in Nat
      /\ rows' = InsertRow(rows, next, q, "assistant", "streaming", 0)
      /\ activeLeaf' = next /\ next' = next + 1 /\ job' = job /\ blocks' = blocks
  BY DEF RegenerateMessage, SummariesSound, CompactionAssumption
<1>2. RowsInOrder(rows) /\ DOMAIN rows \subseteq 1..(next - 1) /\ next \in 1..(MaxMessages + 1)
  BY DEF SummariesSound
<1>3. \A x \in DOMAIN rows : x < next
  BY <1>1, <1>2
<1>4. next # NoMessage /\ 0 \in 0..MaxVersion
  <2>1. next \in 1..MaxMessages
    BY <1>1, <1>2
  <2>2. NoMessage \notin 1..MaxMessages /\ MaxVersion \in Nat \ {0}
    BY DEF CompactionAssumption
  <2> QED BY <2>1, <2>2
<1>5. /\ RowsInOrder(rows') /\ Evolves(rows, rows', next) /\ DOMAIN rows' = DOMAIN rows \cup {next}
      /\ \A x \in DOMAIN rows : rows'[x] = rows[x]
  <2>1. CanAdd(rows, next, q, "assistant", "streaming", 0)
    BY <1>1, <1>2, <1>3, <1>4 DEF CanAdd
  <2>2. Adds(rows, rows', next)
    BY <1>1, <2>1, RowAdded
  <2> QED BY <2>2 DEF Adds
<1>6. \A b \in blocks' : \A x \in DOMAIN b.covers :
         x \in DOMAIN rows' /\ b.covers[x] \in {rows'[x].version, 0}
  <2>1. \A b \in blocks : Sound(b, rows)
    BY DEF SummariesSound
  <2>2. \A x \in DOMAIN rows : x \in DOMAIN rows' /\ rows'[x].version = rows[x].version
    BY <1>5
  <2>3. IsFiniteSet(DOMAIN rows)
    BY <1>2 DEF RowsInOrder, Numbered
  <2> QED BY <1>1, <2>1, <2>2, <2>3, CoversStay
<1>7. /\ next' \in 1..(MaxMessages + 1) /\ next <= next'
      /\ activeLeaf' \in 1..MaxMessages \cup {NoMessage}
      /\ DOMAIN rows' \subseteq 1..(next' - 1)
  BY <1>1, <1>2, <1>5
<1> QED BY <1>1, <1>5, <1>6, <1>7, ChangesKeep

\* The status of one row changes, and its content where it had none.
LEMMA StatusKeeps ==
  ASSUME CompactionAssumption, SummariesSound, NEW m \in DOMAIN rows, Writes(rows, rows', m),
         rows'[m].version = rows[m].version \/ rows[m].version = 0,
         UNCHANGED <<activeLeaf, blocks, job, next>>
  PROVE  SummariesSound'
<1>1. RowsInOrder(rows) /\ next \in Nat /\ next <= next
  BY DEF SummariesSound
<1>2. RowsInOrder(rows') /\ Evolves(rows, rows', next)
  BY <1>1, RowWritten
<1>3. DOMAIN rows' = DOMAIN rows /\ \A x \in DOMAIN rows \ {m} : rows'[x] = rows[x]
  BY DEF Writes
<1>4. \A b \in blocks : \A x \in DOMAIN b.covers :
        x \in DOMAIN rows' /\ b.covers[x] \in {rows'[x].version, 0}
  <2>1. \A b \in blocks : \A x \in DOMAIN b.covers :
          x \in Path(rows, b.anchor) /\ b.covers[x] \in {rows[x].version, 0}
    BY DEF SummariesSound, Sound
  <2>2. \A x : Path(rows, x) \subseteq DOMAIN rows
    BY <1>1, PathIsClosure DEF RowsInOrder, Numbered
  <2> QED BY <1>3, <2>1, <2>2
<1>5. blocks' \in SUBSET blocks /\ MaxMessages \in Nat
  BY DEF CompactionAssumption
<1>6. next' \in 1..(MaxMessages + 1) /\ next <= next' /\ DOMAIN rows' \subseteq 1..(next' - 1)
      /\ activeLeaf' \in 1..MaxMessages \cup {NoMessage}
  BY <1>1, <1>3 DEF SummariesSound
<1> QED BY <1>2, <1>4, <1>5, <1>6, ChangesKeep

\* An answer is written, is asked to stop, or is given up.
LEMMA AnswersKeep ==
  ASSUME CompactionAssumption, SummariesSound, NEW m \in DOMAIN rows,
         FinishMessage(m) \/ MarkMessageStopping(m) \/ Orphan(m)
  PROVE  SummariesSound'
<1>1. /\ rows[m] \in SummaryRow
      /\ rows[m].status \in {"streaming", "stopping"} => rows[m].version = 0
  BY DEF SummariesSound, RowsInOrder
<1>2. MaxVersion \in Nat \ {0} /\ 1 \in 0..MaxVersion
  BY DEF CompactionAssumption
<1>3. ASSUME NEW r \in SummaryRow, r.status \in {"complete", "stopping", "orphan"},
             r.status = "stopping" => r.version = 0,
             r.parent = rows[m].parent, r.created = rows[m].created,
             DOMAIN rows' = DOMAIN rows, rows'[m] = r,
             \A x \in DOMAIN rows \ {m} : rows'[x] = rows[x]
      PROVE  Writes(rows, rows', m)
  BY <1>3 DEF Writes
<1>4. CASE FinishMessage(m)
  <2> DEFINE half == [rows[m] EXCEPT !.status = "complete"]
             r == [half EXCEPT !.version = 1]
  <2>1. /\ half \in SummaryRow /\ half.parent = rows[m].parent /\ half.created = rows[m].created
        /\ half.status = "complete"
    BY <1>1, StatusOfRow
  <2> HIDE DEF half
  <2>2. /\ r \in SummaryRow /\ r.parent = half.parent /\ r.created = half.created
        /\ r.status = half.status
    BY <1>2, <2>1, VersionOfRow
  <2>3. /\ DOMAIN rows' = DOMAIN rows /\ rows'[m] = r
        /\ \A x \in DOMAIN rows \ {m} : rows'[x] = rows[x]
    BY <1>4 DEF FinishMessage, half
  <2> HIDE DEF r
  <2>4. Writes(rows, rows', m)
    BY <1>3, <2>1, <2>2, <2>3
  <2>5. rows[m].version = 0 /\ UNCHANGED <<activeLeaf, blocks, job, next>>
    BY <1>1, <1>4 DEF FinishMessage
  <2> QED BY <2>4, <2>5, StatusKeeps
<1>5. CASE MarkMessageStopping(m) \/ Orphan(m)
  <2>1. PICK s \in {"stopping", "orphan"} : rows' = [rows EXCEPT ![m].status = s]
    BY <1>5 DEF MarkMessageStopping, Orphan
  <2> DEFINE r == [rows[m] EXCEPT !.status = s]
  <2>2. /\ r \in SummaryRow /\ r.parent = rows[m].parent /\ r.created = rows[m].created
        /\ r.status = s /\ r.version = rows[m].version
    <3>1. s \in {"streaming", "stopping", "complete", "orphan"}
      OBVIOUS
    <3> QED BY <1>1, <3>1, StatusOfRow
  <2>3. /\ DOMAIN rows' = DOMAIN rows /\ rows'[m] = r
        /\ \A x \in DOMAIN rows \ {m} : rows'[x] = rows[x]
    BY <2>1
  <2>4. rows[m].status = "streaming" /\ UNCHANGED <<activeLeaf, blocks, job, next>>
    BY <1>5 DEF MarkMessageStopping, Orphan
  <2> HIDE DEF r
  <2>5. Writes(rows, rows', m)
    BY <1>1, <1>3, <2>2, <2>3, <2>4
  <2> QED BY <1>1, <2>2, <2>3, <2>4, <2>5, StatusKeeps
<1> QED BY <1>4, <1>5

\* An edit (store/conversations.go, updateMessageContent): every block that covers
\* the message has it within its range and is pruned.
LEMMA UpdateKeeps ==
  ASSUME CompactionAssumption, SummariesSound, NEW m \in DOMAIN rows, UpdateMessageContent(m)
  PROVE  SummariesSound'
<1>1. /\ rows[m] \in SummaryRow /\ rows[m].created = m /\ RowsInOrder(rows) /\ Numbered(rows)
      /\ next \in Nat /\ next <= next
  BY DEF SummariesSound, RowsInOrder, Numbered
<1>2. /\ rows[m].version < MaxVersion /\ rows[m].status = "complete"
      /\ rows' = [rows EXCEPT ![m].version = @ + 1]
      /\ blocks' = PruneSummaryBlocks(blocks, rows, {m}, rows[m].created)
      /\ UNCHANGED <<activeLeaf, job, next>>
  BY DEF UpdateMessageContent
<1> DEFINE v == rows[m].version + 1
           r == [rows[m] EXCEPT !.version = v]
<1>3. v \in 0..MaxVersion
  BY <1>1, <1>2 DEF SummaryRow, CompactionAssumption
<1>4. /\ DOMAIN rows' = DOMAIN rows /\ rows'[m] = r
      /\ \A x \in DOMAIN rows \ {m} : rows'[x] = rows[x]
  BY <1>2
<1> HIDE DEF v
<1>5. /\ r \in SummaryRow /\ r.parent = rows[m].parent /\ r.created = rows[m].created
      /\ r.status = rows[m].status
  BY <1>1, <1>3, VersionOfRow
<1> HIDE DEF r
<1>6. Writes(rows, rows', m)
  BY <1>2, <1>4, <1>5 DEF Writes
<1>7. RowsInOrder(rows') /\ Evolves(rows, rows', next)
  BY <1>1, <1>6, RowWritten
<1>8. ASSUME NEW b \in blocks', NEW x \in DOMAIN b.covers
      PROVE  x \in DOMAIN rows' /\ b.covers[x] \in {rows'[x].version, 0}
  <2>1. b \in blocks /\ Sound(b, rows)
    BY <1>2 DEF PruneSummaryBlocks, SummariesSound
  <2>2. /\ b.anchor \in DOMAIN rows /\ b.from \in DOMAIN rows
        /\ x \in DOMAIN rows /\ b.from <= x /\ x <= b.anchor
        /\ b.covers[x] \in {rows[x].version, 0}
    BY <1>1, <2>1, PathGoesUp DEF Sound
  <2>3. rows[b.from].created = b.from /\ rows[b.anchor].created = b.anchor
    BY <1>1, <2>2 DEF Numbered
  <2>4. ~(b.from <= m /\ m <= b.anchor)
    BY <1>1, <1>2, <2>2, <2>3 DEF PruneSummaryBlocks
  <2>5. x # m
    BY <2>2, <2>4
  <2> QED BY <1>4, <2>2, <2>5
<1>9. blocks' \in SUBSET blocks /\ MaxMessages \in Nat
  BY <1>2 DEF PruneSummaryBlocks, CompactionAssumption
<1>10. /\ next' \in 1..(MaxMessages + 1) /\ next <= next' /\ DOMAIN rows' \subseteq 1..(next' - 1)
       /\ activeLeaf' \in 1..MaxMessages \cup {NoMessage}
  BY <1>1, <1>2, <1>4 DEF SummariesSound
<1> QED BY <1>2, <1>7, <1>8, <1>9, <1>10, ChangesKeep

\* The deletion of a round (store/conversations.go): a block whose range loses a
\* message has the first of the deleted messages in it and is pruned.
LEMMA DeleteKeeps ==
  ASSUME CompactionAssumption, SummariesSound, NEW m \in DOMAIN rows, DeleteRoundAndPrune(m)
  PROVE  SummariesSound'
<1> DEFINE new == RemainingRows(rows, m)
           gone == DeletedRows(rows, m)
           head == IF DeletesBranch(rows, m) THEN m ELSE RoundHead(rows, m)
<1>1. /\ activeLeaf' \in RepointedLeaves(rows, m, activeLeaf) /\ rows' = new
      /\ blocks' = PruneSummaryBlocks(blocks, new, gone, rows[head].created)
      /\ job' = job /\ next' = next
  BY DEF DeleteRoundAndPrune
<1>2. /\ RowsInOrder(rows) /\ Numbered(rows) /\ next \in Nat /\ DOMAIN rows \subseteq 1..(next - 1)
      /\ \A x \in DOMAIN rows : rows[x] \in SummaryRow
      /\ next \in 1..(MaxMessages + 1) /\ activeLeaf \in 1..MaxMessages \cup {NoMessage}
  BY DEF SummariesSound, RowsInOrder
<1>3. ParentsMove(rows)
  BY <1>2, ParentOfRow, Zenon DEF ParentsMove
<1>4. /\ Shrinks(rows, new, gone, head) /\ head \in DOMAIN rows
      /\ DOMAIN new = DOMAIN rows \ gone
  BY <1>2, <1>3, DeletionShrinks DEF Shrinks
<1>5. ASSUME NEW x \in DOMAIN new
      PROVE  /\ x \in DOMAIN rows /\ new[x] \in SummaryRow
             /\ new[x].created = rows[x].created /\ new[x].status = rows[x].status
             /\ new[x].version = rows[x].version
             /\ new[x].parent = NoMessage \/ (new[x].parent \in DOMAIN new /\ new[x].parent < x)
  <2>1. x \in DOMAIN rows /\ x \notin gone /\ rows[x] \in SummaryRow
    BY <1>2, <1>4
  <2>2. new[x] = rows[x] \/ \E p : new[x] = [rows[x] EXCEPT !.parent = p]
    BY <1>4, Zenon DEF RemainingRows
  <2>3. new[x].parent = NoMessage \/ (new[x].parent \in DOMAIN new /\ new[x].parent < x)
    <3>1. new[x].parent = IF rows[x].parent \in gone THEN rows[head].parent ELSE rows[x].parent
      BY <1>4 DEF Shrinks
    <3>2. /\ rows[x].parent = NoMessage \/ (rows[x].parent \in DOMAIN rows /\ rows[x].parent < x)
          /\ rows[head].parent = NoMessage
               \/ (rows[head].parent \in DOMAIN rows /\ rows[head].parent < head)
          /\ x \in Nat /\ head \in Nat /\ DOMAIN rows \subseteq Nat
      BY <1>2, <1>4, <2>1 DEF Numbered
    <3>3. rows[head].parent \notin gone
      BY <1>4 DEF Shrinks
    <3>4. rows[x].parent \in gone => head <= x
      <4>1. rows[x].parent \in gone => head \in Path(rows, x)
        BY <1>4 DEF Shrinks
      <4> QED BY <1>2, <2>1, <4>1, PathGoesUp
    <3> HIDE DEF new, gone, head
    <3> QED BY <1>4, <3>1, <3>2, <3>3, <3>4
  <2>4. new[x].parent \in Nat \cup {NoMessage}
    BY <1>2, <1>4, <2>3 DEF Numbered
  <2>5. CASE new[x] = rows[x]
    BY <2>1, <2>3, <2>5
  <2>6. ASSUME NEW p, new[x] = [rows[x] EXCEPT !.parent = p]
        PROVE  /\ new[x] \in SummaryRow /\ new[x].created = rows[x].created
               /\ new[x].status = rows[x].status /\ new[x].version = rows[x].version
    <3>1. /\ [rows[x] EXCEPT !.parent = p].parent = p
          /\ p \in Nat \cup {NoMessage} => [rows[x] EXCEPT !.parent = p] \in SummaryRow
          /\ [rows[x] EXCEPT !.parent = p].created = rows[x].created
          /\ [rows[x] EXCEPT !.parent = p].status = rows[x].status
          /\ [rows[x] EXCEPT !.parent = p].version = rows[x].version
      BY <2>1, ParentOfRow
    <3> HIDE DEF new
    <3> QED BY <2>4, <2>6, <3>1
  <2> QED BY <2>1, <2>2, <2>3, <2>5, <2>6
<1>6. RowsInOrder(new)
  <2>1. IsFiniteSet(DOMAIN new)
    <3>1. DOMAIN new \in SUBSET DOMAIN rows
      BY <1>4
    <3> QED BY <1>2, <3>1, FS_Subset DEF Numbered
  <2> HIDE DEF new
  <2>2. Numbered(new)
    BY <1>2, <1>4, <1>5, <2>1 DEF Numbered
  <2> QED BY <1>2, <1>5, <2>2 DEF RowsInOrder
<1>7. Evolves(rows, new, next)
  <2>1. \A x \in DOMAIN new : Path(new, x) = Path(rows, x) \ gone
    BY <1>2, <1>3, DeletionKeepsPaths
  <2>2. \A x : Path(rows, x) \subseteq DOMAIN rows
    BY <1>2, PathIsClosure DEF Numbered
  <2> HIDE DEF new, gone
  <2> QED BY <1>4, <1>5, <2>1, <2>2 DEF Evolves
<1>8. ASSUME NEW b \in blocks', NEW x \in DOMAIN b.covers
      PROVE  x \in DOMAIN new /\ b.covers[x] \in {new[x].version, 0}
  <2>1. /\ b \in blocks /\ b.anchor \notin gone /\ b.from \notin gone
        /\ ~(/\ b.from \in DOMAIN new /\ b.anchor \in DOMAIN new
             /\ new[b.from].created <= rows[head].created
             /\ rows[head].created <= new[b.anchor].created)
    <3> HIDE DEF new, gone, head
    <3> QED BY <1>1 DEF PruneSummaryBlocks
  <2>2. /\ b.anchor \in DOMAIN rows /\ b.from \in Path(rows, b.anchor) /\ b.from \in DOMAIN rows
        /\ x \in Path(rows, b.anchor) /\ x \in DOMAIN rows /\ b.from <= x
        /\ b.covers[x] \in {rows[x].version, 0}
    <3>1. Sound(b, rows)
      BY <2>1 DEF SummariesSound
    <3> QED BY <1>2, <3>1, PathGoesUp DEF Sound
  <2>3. b.from \in DOMAIN new /\ b.anchor \in DOMAIN new
    BY <1>4, <2>1, <2>2
  <2>4. /\ new[b.from].created = b.from /\ new[b.anchor].created = b.anchor
        /\ rows[head].created = head
    <3> HIDE DEF new, head
    <3> QED BY <1>2, <1>4, <1>5, <2>3 DEF Numbered
  <2>5. ~(b.from <= head /\ head <= b.anchor)
    <3> HIDE DEF new, head
    <3> QED BY <2>1, <2>3, <2>4
  <2>6. x \notin gone
    BY <1>2, <1>3, <2>1, <2>2, <2>3, <2>5, DeletionBegins
  <2>7. x \in DOMAIN new
    BY <1>4, <2>2, <2>6
  <2> HIDE DEF new
  <2> QED BY <1>5, <2>2, <2>7
<1>9. activeLeaf' \in 1..MaxMessages \cup {NoMessage}
  <2> DEFINE base == LeafBase(rows, m)
             Known == 1..MaxMessages \cup {NoMessage}
  <2>1. DOMAIN rows \subseteq Known
    BY <1>2 DEF CompactionAssumption
  <2>2. base \in Known
    <3>1. m \in DOMAIN rows /\ RoundHead(rows, m) \in DOMAIN rows
      BY DEF RoundHead, IsUser
    <3>2. base = rows[m].parent \/ base = rows[RoundHead(rows, m)].parent
      BY DEF LeafBase
    <3> QED BY <1>2, <2>1, <3>1, <3>2 DEF Numbered
  <2>3. IsFiniteSet(DOMAIN new) /\ DOMAIN new \subseteq Known
    BY <1>4, <1>6, <2>1 DEF RowsInOrder, Numbered
  <2>4. activeLeaf' \in (IF activeLeaf \in DOMAIN new THEN {activeLeaf}
                         ELSE DeepestLeaves(new, base))
    BY <1>1 DEF RepointedLeaves
  <2> HIDE DEF new, base
  <2>5. DeepestLeaves(new, base) \subseteq Known
    BY <2>2, <2>3, LeavesAreRows
  <2> QED BY <1>2, <2>4, <2>5
<1> HIDE DEF new, gone, head
<1>10. blocks' \in SUBSET blocks /\ MaxMessages \in Nat
  BY <1>1 DEF PruneSummaryBlocks, CompactionAssumption
<1>11. next' \in 1..(MaxMessages + 1) /\ next <= next' /\ DOMAIN rows' \subseteq 1..(next' - 1)
  BY <1>1, <1>2, <1>4
<1> QED BY <1>1, <1>6, <1>7, <1>8, <1>9, <1>10, <1>11, ChangesKeep

-----------------------------------------------------------------------------
(* The steps of a worker.                                                  *)

\* One worker moves, and the blocks and rows stay.
LEMMA WorkerMoves ==
  ASSUME SummariesSound, NEW w \in Workers, NEW j, job' = [job EXCEPT ![w] = j],
         j.at = "asked" => SoundJob(j, rows, next),
         rows' = rows, next' = next, activeLeaf' = activeLeaf, blocks' = blocks
  PROVE  SummariesSound'
<1>1. /\ job' = [v \in Workers |-> job'[v]] /\ job'[w] = j
      /\ \A v \in Workers \ {w} : job'[v] = job[v]
  <2>1. job = [v \in Workers |-> job[v]]
    BY DEF SummariesSound
  <2> QED BY <2>1
<1>2. \A v \in Workers : job'[v].at = "asked" => SoundJob(job'[v], rows, next)
  BY <1>1 DEF SummariesSound
<1> QED BY <1>1, <1>2 DEF SummariesSound

\* What a worker reads is a path (llm/compaction.go, maybeCompact).
LEMMA AskKeepsSummaries ==
  ASSUME SummariesSound, NEW w \in Workers, NEW manual, NEW m \in DOMAIN rows,
         NEW cut, AskForSummary(w, manual, m, cut)
  PROVE  SummariesSound'
<1> DEFINE h == History(rows, m)
           path == FilterBlocksForPath(blocks, h)
           f == SummarizedFrontier(path, h)
           j == [at |-> "asked", manual |-> manual, expected |-> m, history |-> h, path |-> path,
                 newer |-> [x \in {h[i] : i \in f + 1 .. cut} |->
                              [parent |-> rows[x].parent, version |-> rows[x].version]],
                 anchor |-> h[cut]]
<1>1. /\ cut \in Cuts(h, f) /\ job' = [job EXCEPT ![w] = j]
      /\ rows' = rows /\ next' = next /\ activeLeaf' = activeLeaf /\ blocks' = blocks
  BY DEF AskForSummary
<1>2. Numbered(rows) /\ RowsInOrder(rows) /\ DOMAIN rows \subseteq 1..(next - 1) /\ next \in Nat
  BY DEF SummariesSound, RowsInOrder
<1>3. Ascending(h) /\ ToSet(h) = Path(rows, m)
  BY <1>2, HistoryAscends
<1>4. f \in 0..Len(h) /\ Len(h) \in Nat
  <2>1. IsFiniteSet(blocks) /\ Distinct(blocks)
    BY DEF SummariesSound
  <2> HIDE DEF h
  <2> QED BY <1>3, <2>1, FilterCovers DEF Ascending
<1>5. Path(rows, m) \subseteq DOMAIN rows
  BY <1>2, PathIsClosure DEF Numbered
<1>6. cut \in f + 1 .. Len(h) - 2 /\ \A i \in 1..cut : rows[h[i]].status # "streaming"
  <2> HIDE DEF h, f
  <2> QED BY <1>1 DEF Cuts
<1>7. \A x \in ToSet(h) : x < next
  BY <1>2, <1>3, <1>5
<1>8. \A x \in ToSet(h) \cap DOMAIN rows : Path(rows, x) = {y \in ToSet(h) \cap DOMAIN rows : y <= x}
  BY <1>2, <1>3, <1>5, PathBelow
<1>9. \A i \in f + 1 .. cut : h[i] \in DOMAIN rows /\ rows[h[i]].status # "streaming"
  <2>1. \A i \in 1..Len(h) : h[i] \in ToSet(h)
    BY <1>3, Indices
  <2> HIDE DEF h, f
  <2> QED BY <1>3, <1>4, <1>5, <1>6, <2>1
<1>10. \A x \in DOMAIN rows : rows[x].version \in 0..MaxVersion
  <2>1. \A x \in DOMAIN rows : rows[x] \in SummaryRow
    BY <1>2 DEF RowsInOrder
  <2> QED BY <2>1 DEF SummaryRow
<1>11. /\ j.history = h /\ j.path = path /\ j.anchor = h[cut]
       /\ DOMAIN j.newer = {h[i] : i \in f + 1 .. cut}
       /\ \A x \in DOMAIN j.newer : j.newer[x].version = rows[x].version
  <2> HIDE DEF h, f, path
  <2> QED OBVIOUS
<1>12. f = SummarizedFrontier(path, h) /\ cut \in f + 1 .. Len(h)
  BY <1>4, <1>6
<1> HIDE DEF h, path, f, j
<1>13. \A x \in DOMAIN j.newer :
         j.newer[x].version \in 0..MaxVersion /\ (x \in DOMAIN rows => rows[x].status # "streaming")
  BY <1>9, <1>10, <1>11
<1>14. SoundJob(j, rows, next)
  BY <1>3, <1>4, <1>7, <1>8, <1>11, <1>12, <1>13 DEF SoundJob
<1> QED BY <1>1, <1>14, WorkerMoves

\* The plans (MaybeCompactForRequest, CompactConversationNow).
LEMMA PlansKeep ==
  ASSUME SummariesSound, NEW w \in Workers,
         PlanManual(w) \/ \E q \in DOMAIN rows : PlanAutomatic(w, q)
  PROVE  SummariesSound'
<1>1. CASE PlanManual(w)
  <2>1. PICK cut \in 1..MaxMessages : activeLeaf \in DOMAIN rows /\ AskForSummary(w, TRUE, activeLeaf, cut)
    BY <1>1 DEF PlanManual
  <2> QED BY <2>1, AskKeepsSummaries
<1>2. ASSUME NEW q \in DOMAIN rows, PlanAutomatic(w, q) PROVE SummariesSound'
  <2>1. PICK cut \in 1..MaxMessages : AskForSummary(w, FALSE, q, cut)
    BY <1>2 DEF PlanAutomatic
  <2> QED BY <2>1, AskKeepsSummaries
<1> QED BY <1>1, <1>2

\* A worker gives up, or the owner looks at another branch.
LEMMA QuietKeeps ==
  ASSUME CompactionAssumption, SummariesSound,
         (\E w \in Workers : GiveUpSummary(w)) \/ \E m \in 1..(next - 1) : SwitchBranch(m)
  PROVE  SummariesSound'
<1>1. ASSUME NEW w \in Workers, GiveUpSummary(w) PROVE SummariesSound'
  <2>1. /\ job' = [job EXCEPT ![w] = NoJob]
        /\ rows' = rows /\ next' = next /\ activeLeaf' = activeLeaf /\ blocks' = blocks
    BY <1>1 DEF GiveUpSummary
  <2>2. NoJob.at # "asked"
    BY DEF NoJob
  <2> QED BY <2>1, <2>2, WorkerMoves
<1>2. ASSUME NEW m \in 1..(next - 1), SwitchBranch(m) PROVE SummariesSound'
  <2>1. activeLeaf' = m /\ rows' = rows /\ next' = next /\ job' = job /\ blocks' = blocks
    BY <1>2 DEF SwitchBranch
  <2>2. m \in 1..MaxMessages
    BY DEF SummariesSound, CompactionAssumption
  <2> QED BY <2>1, <2>2 DEF SummariesSound
<1> QED BY <1>1, <1>2

\* What a worker may store is sound, begins where the path does, ends beyond what was
\* covered, and has the ends of no other block (llm/compaction.go, maybeCompact).
LEMMA NewBlockIsSound ==
  ASSUME SummariesSound, NEW w \in Workers, job[w].at = "asked",
         NEW j, j = job[w], FilterBlocksForPath(blocks, j.history) = j.path,
         MessagesStillCurrent(j), MaxVersion \in Nat
  PROVE  /\ Sound(NewBlock(j), rows)
         /\ \A b \in blocks : ~(b.from = NewBlock(j).from /\ b.anchor = NewBlock(j).anchor)
         /\ NewBlock(j).anchor \in ToSet(j.history)
         /\ \A x \in ToSet(j.history) : NewBlock(j).from <= x
<1> DEFINE h == j.history
           path == j.path
           f == SummarizedFrontier(path, h)
           toldBy(b) == {<<x, b.covers[x]>> : x \in DOMAIN b.covers}
           toldNew == {<<x, j.newer[x].version>> : x \in DOMAIN j.newer}
           told == (UNION {toldBy(b) : b \in path}) \cup toldNew
           ids == {p[1] : p \in told}
           least(S) == CHOOSE x \in S : \A y \in S : x <= y
           from == IF path = {} THEN least(DOMAIN j.newer) ELSE least({b.from : b \in path})
           cov == [x \in ids |-> CHOOSE v \in 0..MaxVersion : <<x, v>> \in told]
           r == NewBlock(j)
<1>1. r = [from |-> from, anchor |-> j.anchor, covers |-> cov]
  BY DEF NewBlock
<1>2. /\ Ascending(h) /\ Len(h) \in Nat /\ DOMAIN h = 1..Len(h)
      /\ \A x \in ToSet(h) \cap DOMAIN rows : Path(rows, x) = {y \in ToSet(h) \cap DOMAIN rows : y <= x}
      /\ \A x \in DOMAIN j.newer :
           j.newer[x].version \in 0..MaxVersion /\ (x \in DOMAIN rows => rows[x].status # "streaming")
  <2>1. SoundJob(j, rows, next)
    BY DEF SummariesSound
  <2> QED BY <2>1 DEF SoundJob, Ascending
<1>3. PICK cut \in f + 1 .. Len(h) :
        f \in Nat /\ j.anchor = h[cut] /\ DOMAIN j.newer = {h[i] : i \in f + 1 .. cut}
  <2>1. SoundJob(j, rows, next)
    BY DEF SummariesSound
  <2> QED BY <2>1 DEF SoundJob
<1>4. \A x \in DOMAIN j.newer : x \in DOMAIN rows /\ rows[x].version = j.newer[x].version
  BY DEF MessagesStillCurrent
<1>5. /\ IsFiniteSet(blocks) /\ Distinct(blocks) /\ \A b \in blocks : Sound(b, rows)
      /\ Numbered(rows) /\ RowsInOrder(rows)
  BY DEF SummariesSound, RowsInOrder
<1>6. \A x \in DOMAIN rows : rows[x].version \in 0..MaxVersion
  <2>1. \A x \in DOMAIN rows : rows[x] \in SummaryRow
    BY <1>5 DEF RowsInOrder
  <2> QED BY <2>1 DEF SummaryRow
<1>7. /\ f = SummarizedFrontier(blocks, h)
      /\ \A b \in path : b \in blocks /\ OnPath(b, h) /\ IndexOf(h, b.anchor) <= f
      /\ \A i \in 1..f : \E b \in path : IndexOf(h, b.from) <= i /\ i <= IndexOf(h, b.anchor)
  BY <1>2, <1>5, FilterCovers
<1>8. /\ \A i \in 1..Len(h) : h[i] \in ToSet(h) /\ IndexOf(h, h[i]) = i
      /\ \A x \in ToSet(h) : x \in Nat /\ IndexOf(h, x) \in 1..Len(h) /\ h[IndexOf(h, x)] = x
      /\ \A x, y \in ToSet(h) : x <= y <=> IndexOf(h, x) <= IndexOf(h, y)
  BY <1>2, Indices
<1> HIDE DEF h, path, f, r
<1>9. cut \in 1..Len(h) /\ 1 \in 1..Len(h) /\ f < cut /\ f \in Nat /\ cut \in Nat
  BY <1>2, <1>3
<1>10. h[cut] \in DOMAIN rows /\ j.anchor \in DOMAIN rows /\ j.anchor \in ToSet(h)
  <2>1. h[cut] \in DOMAIN j.newer
    BY <1>3, <1>9
  <2> QED BY <1>3, <1>4, <1>8, <1>9, <2>1
<1>11. Path(rows, j.anchor) = {y \in ToSet(h) \cap DOMAIN rows : y <= j.anchor}
  BY <1>2, <1>10
<1>12. \A x \in ToSet(h) : h[1] <= x
  <2>1. \A x \in ToSet(h) : IndexOf(h, h[1]) <= IndexOf(h, x)
    BY <1>8, <1>9
  <2> QED BY <1>8, <1>9, <2>1
\* The blocks of the path.
<1>13. ASSUME NEW b \in path
       PROVE  /\ b.anchor \in DOMAIN rows /\ b.from \in Path(rows, b.anchor)
              /\ b.from \in ToSet(h) /\ b.anchor \in ToSet(h)
              /\ b.anchor <= j.anchor
              /\ DOMAIN b.covers = {y \in ToSet(h) \cap DOMAIN rows : b.from <= y /\ y <= b.anchor}
              /\ \A x \in DOMAIN b.covers :
                   b.covers[x] \in {rows[x].version, 0} /\ rows[x].status # "streaming"
  <2>1. b \in blocks /\ OnPath(b, h) /\ IndexOf(h, b.anchor) <= f /\ Sound(b, rows)
    BY <1>5, <1>7
  <2>2. b.from \in ToSet(h) /\ b.anchor \in ToSet(h) /\ b.anchor \in DOMAIN rows
    BY <2>1 DEF OnPath, Sound
  <2>3. Path(rows, b.anchor) = {y \in ToSet(h) \cap DOMAIN rows : y <= b.anchor}
    BY <1>2, <2>2
  <2>4. IndexOf(h, b.anchor) <= IndexOf(h, j.anchor)
    BY <1>3, <1>8, <1>9, <2>1, <2>2
  <2>5. b.anchor <= j.anchor
    BY <1>8, <1>10, <2>2, <2>4
  <2> QED BY <2>1, <2>2, <2>3, <2>5 DEF Sound
\* Where the block begins.
<1>14. from = h[1]
  <2>1. CASE path = {}
    <3>1. f = 0
      BY <1>7, <1>9, <2>1
    <3>2. h[1] \in DOMAIN j.newer
      BY <1>3, <1>9, <3>1
    <3>3. DOMAIN j.newer \subseteq ToSet(h)
      BY <1>3, <1>8, <1>9, <3>1
    <3>4. \A y \in DOMAIN j.newer : h[1] <= y /\ y \in Nat
      BY <1>8, <1>12, <3>3
    <3>5. \A x \in DOMAIN j.newer : (\A y \in DOMAIN j.newer : x <= y) => x = h[1]
      BY <3>2, <3>4
    <3> QED BY <2>1, <3>2, <3>4, <3>5
  <2>2. CASE path # {}
    <3> DEFINE F == {b.from : b \in path}
    <3>1. F \subseteq ToSet(h)
      BY <1>13
    <3>2. 1 \in 1..f
      <4>1. PICK b \in path : TRUE
        BY <2>2
      <4>2. IndexOf(h, b.anchor) \in 1..Len(h) /\ IndexOf(h, b.anchor) <= f
        BY <1>7, <1>8, <1>13
      <4> QED BY <1>9, <4>2
    <3>3. PICK b \in path : IndexOf(h, b.from) <= 1
      BY <1>7, <3>2
    <3>4. b.from = h[1]
      BY <1>8, <1>13, <3>3
    <3>5. h[1] \in F
      BY <3>4
    <3>6. \A y \in F : h[1] <= y /\ y \in Nat
      BY <1>8, <1>12, <3>1
    <3> HIDE DEF F
    <3>7. \A x \in F : (\A y \in F : x <= y) => x = h[1]
      BY <3>5, <3>6
    <3>8. least(F) = h[1]
      BY <3>5, <3>6, <3>7
    <3> QED BY <2>2, <3>8 DEF F
  <2> QED BY <2>1, <2>2
<1> HIDE DEF from
\* What it covers.
<1>a. \A b, p : p \in toldBy(b) <=> \E x \in DOMAIN b.covers : p = <<x, b.covers[x]>>
  OBVIOUS
<1>b. \A p : p \in toldNew <=> \E x \in DOMAIN j.newer : p = <<x, j.newer[x].version>>
  OBVIOUS
<1> HIDE DEF toldBy, toldNew
<1>c. \A p : p \in told <=> (\E b \in path : p \in toldBy(b)) \/ p \in toldNew
  <2> DEFINE U == UNION {toldBy(b) : b \in path}
  <2>1. \A p : p \in U <=> \E b \in path : p \in toldBy(b)
    BY Zenon
  <2>2. told = U \cup toldNew
    OBVIOUS
  <2> HIDE DEF told, U
  <2> QED BY <2>1, <2>2
<1>d. \A x : x \in ids <=> \E p \in told : x = p[1]
  OBVIOUS
<1> HIDE DEF told, ids
<1>e. \A x, v, b : <<x, v>> \in toldBy(b) <=> x \in DOMAIN b.covers /\ v = b.covers[x]
  <2> SUFFICES ASSUME NEW x, NEW v, NEW b
               PROVE  (\E y \in DOMAIN b.covers : <<x, v>> = <<y, b.covers[y]>>)
                        <=> x \in DOMAIN b.covers /\ v = b.covers[x]
    BY <1>a
  <2> QED OBVIOUS
<1>f. \A x, v : <<x, v>> \in toldNew <=> x \in DOMAIN j.newer /\ v = j.newer[x].version
  <2> SUFFICES ASSUME NEW x, NEW v
               PROVE  (\E y \in DOMAIN j.newer : <<x, v>> = <<y, j.newer[y].version>>)
                        <=> x \in DOMAIN j.newer /\ v = j.newer[x].version
    BY <1>b
  <2> QED OBVIOUS
<1>15. \A x, v : <<x, v>> \in told <=> \/ \E b \in path : x \in DOMAIN b.covers /\ v = b.covers[x]
                                       \/ x \in DOMAIN j.newer /\ v = j.newer[x].version
  <2> SUFFICES ASSUME NEW x, NEW v
               PROVE  ((\E b \in path : <<x, v>> \in toldBy(b)) \/ <<x, v>> \in toldNew)
                        <=> \/ \E b \in path : x \in DOMAIN b.covers /\ v = b.covers[x]
                            \/ x \in DOMAIN j.newer /\ v = j.newer[x].version
    BY <1>c, Zenon
  <2> QED BY <1>e, <1>f, Zenon
<1>16. \A x : x \in ids <=> (\E b \in path : x \in DOMAIN b.covers) \/ x \in DOMAIN j.newer
  <2>1. ASSUME NEW p \in told
        PROVE  (\E b \in path : p[1] \in DOMAIN b.covers) \/ p[1] \in DOMAIN j.newer
    <3>1. CASE p \in toldNew
      BY <1>b, <3>1
    <3>2. ASSUME NEW b \in path, p \in toldBy(b) PROVE p[1] \in DOMAIN b.covers
      BY <1>a, <3>2
    <3> QED BY <1>c, <3>1, <3>2
  <2>2. ASSUME NEW x, (\E b \in path : x \in DOMAIN b.covers) \/ x \in DOMAIN j.newer
        PROVE  \E p \in told : x = p[1]
    <3>1. PICK v : <<x, v>> \in told
      BY <1>15, <2>2
    <3> QED BY <3>1
  <2> QED BY <1>d, <2>1, <2>2
<1>17. ASSUME NEW x \in ids
       PROVE  /\ x \in ToSet(h) /\ x \in DOMAIN rows /\ x <= j.anchor
              /\ cov[x] \in {rows[x].version, 0} /\ rows[x].status # "streaming"
  <2>1. x \in ToSet(h) /\ x \in DOMAIN rows /\ x <= j.anchor /\ rows[x].status # "streaming"
    <3>1. CASE \E b \in path : x \in DOMAIN b.covers
      <4>1. PICK b \in path : x \in DOMAIN b.covers
        BY <3>1
      <4>2. x \in ToSet(h) /\ x \in DOMAIN rows /\ x <= b.anchor /\ rows[x].status # "streaming"
        BY <1>13, <4>1
      <4>3. b.anchor <= j.anchor /\ b.anchor \in Nat /\ j.anchor \in Nat /\ x \in Nat
        BY <1>8, <1>10, <1>13, <4>2
      <4> QED BY <4>2, <4>3
    <3>2. CASE x \in DOMAIN j.newer
      <4>1. PICK i \in f + 1 .. cut : x = h[i]
        BY <1>3, <3>2
      <4>2. i \in 1..Len(h) /\ i <= cut
        BY <1>9, <4>1
      <4>3. IndexOf(h, x) <= IndexOf(h, j.anchor)
        BY <1>3, <1>8, <1>9, <4>1, <4>2
      <4>4. x \in ToSet(h)
        BY <1>8, <4>1, <4>2
      <4> QED BY <1>2, <1>4, <1>8, <1>10, <3>2, <4>3, <4>4
    <3> QED BY <1>16, <3>1, <3>2
  <2>2. \A v : <<x, v>> \in told => v \in {rows[x].version, 0}
    BY <1>4, <1>13, <1>15
  <2>3. \E v : <<x, v>> \in told
    BY <1>15, <1>16
  <2>4. \E v \in 0..MaxVersion : <<x, v>> \in told
    BY <1>6, <2>1, <2>2, <2>3
  <2>5. cov[x] \in 0..MaxVersion /\ <<x, cov[x]>> \in told
    BY <2>4
  <2> QED BY <2>1, <2>2, <2>5
<1>18. ASSUME NEW x \in ToSet(h) \cap DOMAIN rows, x <= j.anchor
       PROVE  x \in ids
  <2>1. IndexOf(h, x) <= cut /\ IndexOf(h, x) \in 1..Len(h) /\ h[IndexOf(h, x)] = x
    BY <1>3, <1>8, <1>9, <1>10, <1>18
  <2>2. CASE IndexOf(h, x) \in f + 1 .. cut
    BY <1>3, <1>16, <2>1, <2>2
  <2>3. CASE IndexOf(h, x) \in 1..f
    <3>1. PICK b \in path : IndexOf(h, b.from) <= IndexOf(h, x) /\ IndexOf(h, x) <= IndexOf(h, b.anchor)
      BY <1>7, <2>3
    <3>2. b.from <= x /\ x <= b.anchor
      BY <1>8, <1>13, <3>1
    <3>3. x \in DOMAIN b.covers
      BY <1>13, <3>2
    <3> QED BY <1>16, <3>3
  <2> QED BY <1>9, <2>1, <2>2, <2>3
<1>19. r.from = h[1] /\ r.anchor = j.anchor /\ r.covers = cov /\ DOMAIN r.covers = ids
  BY <1>1, <1>14
<1> HIDE DEF cov
<1>20. DOMAIN r.covers = {x \in Path(rows, r.anchor) : r.from <= x}
  BY <1>11, <1>12, <1>17, <1>18, <1>19
<1>21. r.from \in Path(rows, r.anchor)
  <2>1. h[1] \in DOMAIN rows
    <3>1. CASE path = {}
      <4>1. f = 0
        BY <1>7, <1>9, <3>1
      <4>2. h[1] \in DOMAIN j.newer
        BY <1>3, <1>9, <4>1
      <4> QED BY <1>4, <4>2
    <3>2. CASE path # {}
      <4>1. PICK b \in path : TRUE
        BY <3>2
      <4>2. IndexOf(h, b.anchor) \in 1..Len(h) /\ IndexOf(h, b.anchor) <= f
        BY <1>7, <1>8, <1>13
      <4>3. 1 \in 1..f
        BY <1>9, <4>2
      <4>4. PICK c \in path : IndexOf(h, c.from) <= 1
        BY <1>7, <4>3
      <4>5. c.from = h[1]
        BY <1>8, <1>13, <4>4
      <4>6. c.from \in DOMAIN rows
        BY <1>5, <1>13, PathGoesUp
      <4> QED BY <4>5, <4>6
    <3> QED BY <3>1, <3>2
  <2> QED BY <1>8, <1>9, <1>10, <1>11, <1>12, <1>19, <2>1
<1>22. Sound(r, rows)
  BY <1>10, <1>17, <1>19, <1>20, <1>21 DEF Sound
<1>23. ASSUME NEW b \in blocks, b.from = r.from, b.anchor = r.anchor PROVE FALSE
  <2>1. b.from = h[1] /\ b.anchor = h[cut]
    BY <1>3, <1>19, <1>23
  <2>2. IndexOf(h, b.from) = 1 /\ IndexOf(h, b.anchor) = cut /\ b.from \in ToSet(h) /\ b.anchor \in ToSet(h)
    BY <1>8, <1>9, <2>1
  <2>3. OnPath(b, h) /\ IndexOf(h, b.from) <= f + 1
    BY <1>9, <1>12, <2>1, <2>2 DEF OnPath
  <2>4. Reached(blocks, h, f)
    BY <1>2, <1>5, <1>7, FrontierIsLeast
  <2>5. cut <= f
    BY <2>2, <2>3, <2>4 DEF Reached
  <2> QED BY <1>9, <2>5
<1>24. r.anchor \in ToSet(h) /\ \A x \in ToSet(h) : r.from <= x
  BY <1>10, <1>12, <1>19
<1> QED BY <1>22, <1>23, <1>24 DEF r, h

\* The transaction that stores a summary.
LEMMA PersistKeeps ==
  ASSUME CompactionAssumption, SummariesSound, NEW w \in Workers, Persist(w)
  PROVE  SummariesSound'
<1> DEFINE j == job[w]
           r == NewBlock(j)
           path == FilterBlocksForPath(blocks, j.history)
<1>1. /\ job[w].at = "asked" /\ job' = [job EXCEPT ![w] = NoJob]
      /\ rows' = rows /\ next' = next /\ activeLeaf' = activeLeaf
      /\ blocks' = IF BranchCurrent(j) /\ path = j.path /\ MessagesStillCurrent(j)
                   THEN InstallReplacement(blocks, path, r, j.history) ELSE blocks
  BY DEF Persist
<1>2. /\ job' = [v \in Workers |-> job'[v]]
      /\ \A v \in Workers : job'[v].at = "asked" => SoundJob(job'[v], rows, next)
  <2>1. /\ job = [v \in Workers |-> job[v]]
        /\ \A v \in Workers : job[v].at = "asked" => SoundJob(job[v], rows, next)
    BY DEF SummariesSound
  <2>2. /\ job' = [v \in Workers |-> job'[v]] /\ job'[w] = NoJob
        /\ \A v \in Workers \ {w} : job'[v] = job[v]
    BY <1>1, <2>1
  <2>3. NoJob.at # "asked"
    BY DEF NoJob
  <2> QED BY <2>1, <2>2, <2>3
<1>3. CASE blocks' = blocks
  BY <1>1, <1>2, <1>3 DEF SummariesSound
<1>4. CASE blocks' # blocks
  <2>1. path = j.path /\ MessagesStillCurrent(j) /\ MaxVersion \in Nat
    BY <1>1, <1>4 DEF CompactionAssumption
  <2>2. /\ Sound(r, rows)
        /\ \A b \in blocks : ~(b.from = r.from /\ b.anchor = r.anchor)
    BY <1>1, <2>1, NewBlockIsSound
  <2>3. blocks' \in SUBSET (blocks \cup {r})
    BY <1>1, <1>4 DEF InstallReplacement
  <2> HIDE DEF r
  <2>4. IsFiniteSet(blocks')
    <3>1. IsFiniteSet(blocks \cup {r})
      BY FS_AddElement DEF SummariesSound
    <3> QED BY <2>3, <3>1, FS_Subset
  <2>5. Distinct(blocks')
    BY <2>2, <2>3 DEF SummariesSound, Distinct
  <2>6. \A b \in blocks' : Sound(b, rows)
    BY <2>2, <2>3 DEF SummariesSound
  <2> QED BY <1>1, <1>2, <2>4, <2>5, <2>6 DEF SummariesSound
<1> QED BY <1>3, <1>4

\* A conversation begins without rows, blocks and jobs.
LEMMA CompactionBegins ==
  ASSUME CompactionAssumption, CompactionInit
  PROVE  SummariesSound
<1>1. /\ rows = <<>> /\ activeLeaf = NoMessage /\ blocks = {} /\ next = 1
      /\ job = [w \in Workers |-> NoJob]
  BY DEF CompactionInit
<1>2. DOMAIN rows = {} /\ NoMessage \notin DOMAIN rows
  BY <1>1, NoRows
<1>3. RowsInOrder(rows)
  BY <1>2, FS_EmptySet DEF RowsInOrder, Numbered
<1>4. NoJob.at # "asked"
  BY DEF NoJob
<1>5. 1 \in 1..(MaxMessages + 1) /\ MaxMessages \in Nat
  BY DEF CompactionAssumption
<1>6. IsFiniteSet(blocks) /\ Distinct(blocks) /\ \A b \in blocks : Sound(b, rows)
  BY <1>1, FS_EmptySet DEF Distinct
<1>7. /\ job = [w \in Workers |-> job[w]]
      /\ \A w \in Workers : job[w].at = "asked" => SoundJob(job[w], rows, next)
  BY <1>1, <1>4
<1> QED BY <1>1, <1>2, <1>3, <1>5, <1>6, <1>7 DEF SummariesSound

\* Every step keeps the summaries sound.
LEMMA CompactionStep ==
  ASSUME CompactionAssumption, SummariesSound, [CompactionNext]_compactionVars
  PROVE  SummariesSound'
<1>1. CASE \E p \in DOMAIN rows \cup {NoMessage} : Send(p)
  BY <1>1, SendKeeps
<1>2. ASSUME NEW m \in DOMAIN rows,
             \/ RegenerateMessage(m) \/ FinishMessage(m) \/ MarkMessageStopping(m) \/ Orphan(m)
             \/ UpdateMessageContent(m) \/ DeleteRoundAndPrune(m)
      PROVE  SummariesSound'
  BY <1>2, RegenerateMessageKeeps, AnswersKeep, UpdateKeeps, DeleteKeeps
<1>3. CASE \E m \in 1..(next - 1) : SwitchBranch(m)
  BY <1>3, QuietKeeps
<1>4. ASSUME NEW w \in Workers,
             \/ PlanManual(w) \/ Persist(w) \/ GiveUpSummary(w)
             \/ \E q \in DOMAIN rows : PlanAutomatic(w, q)
      PROVE  SummariesSound'
  BY <1>4, PlansKeep, PersistKeeps, QuietKeeps
<1>5. CASE UNCHANGED compactionVars
  BY <1>5 DEF compactionVars, SummariesSound
<1> QED BY <1>1, <1>2, <1>3, <1>4, <1>5 DEF CompactionNext

\* The invariant holds in every state.
THEOREM SummariesStaySound == CompactionSpec => []SummariesSound
<1>1. CompactionInit => SummariesSound
  BY CompactionAssumption, CompactionBegins
<1>2. SummariesSound /\ [CompactionNext]_compactionVars => SummariesSound'
  BY CompactionAssumption, CompactionStep
<1> QED BY <1>1, <1>2, PTL DEF CompactionSpec

-----------------------------------------------------------------------------
(* The theorems of the summaries.                                          *)

\* Deleted or edited content is never told again (llm/compaction_store.go, the pruning
\* in store/conversations.go).
THEOREM SummariesStayCurrent == CompactionSpec => []SummariesAreCurrent
<1>1. SummariesSound => SummariesAreCurrent
  <2> SUFFICES ASSUME SummariesSound PROVE SummariesAreCurrent
    OBVIOUS
  <2>1. Numbered(rows) /\ DOMAIN rows \subseteq 1..(next - 1) /\ next \in 1..(MaxMessages + 1)
    BY DEF SummariesSound, RowsInOrder
  <2>2. ASSUME NEW b \in blocks
        PROVE  /\ b.from <= b.anchor
               /\ \A x \in DOMAIN b.covers :
                    /\ x \in DOMAIN rows /\ x \in b.from..b.anchor
                    /\ b.covers[x] \in {rows[x].version, 0} /\ rows[x].status # "streaming"
    <3>1. Sound(b, rows)
      BY DEF SummariesSound
    <3>2. b.anchor \in DOMAIN rows /\ b.from \in DOMAIN rows /\ b.from <= b.anchor
      BY <2>1, <3>1, PathGoesUp DEF Sound
    <3>3. \A x \in Path(rows, b.anchor) : x \in DOMAIN rows /\ x <= b.anchor
      BY <2>1, <3>2, PathGoesUp
    <3>4. DOMAIN rows \subseteq Nat
      BY <2>1
    <3>5. ASSUME NEW x \in DOMAIN b.covers
          PROVE  /\ x \in DOMAIN rows /\ x \in b.from..b.anchor
                 /\ b.covers[x] \in {rows[x].version, 0} /\ rows[x].status # "streaming"
      <4>1. x \in Path(rows, b.anchor) /\ b.from <= x
        BY <3>1 DEF Sound
      <4>2. x \in Nat /\ b.from \in Nat /\ b.anchor \in Nat /\ x <= b.anchor /\ x \in DOMAIN rows
        BY <3>2, <3>3, <3>4, <4>1
      <4> QED BY <3>1, <4>1, <4>2 DEF Sound
    <3> QED BY <3>2, <3>5
  <2>3. CompactionTypeOK
    <3>1. DOMAIN rows \subseteq 1..MaxMessages
      BY <2>1, CompactionAssumption DEF CompactionAssumption
    <3>2. next \in 1..(MaxMessages + 1) /\ activeLeaf \in 1..MaxMessages \cup {NoMessage}
      BY DEF SummariesSound
    <3>3. \A b, c \in blocks : b.from = c.from /\ b.anchor = c.anchor => b = c
      BY DEF SummariesSound, Distinct
    <3>4. \A b \in blocks : b.from <= b.anchor /\ DOMAIN b.covers \subseteq b.from..b.anchor
      BY <2>2
    <3> QED BY <3>1, <3>2, <3>3, <3>4 DEF CompactionTypeOK
  <2> QED BY <2>2, <2>3 DEF SummariesAreCurrent
<1> QED BY <1>1, SummariesStaySound, PTL

\* On every branch each message before the frontier is told (filterBlocksForPath,
\* summarizedFrontier).
THEOREM NothingSkipped == CompactionSpec => []NothingIsSkipped
<1>1. SummariesSound => NothingIsSkipped
  <2> SUFFICES ASSUME SummariesSound, NEW m \in DOMAIN rows,
                      NEW h, h = History(rows, m),
                      NEW i \in 1..SummarizedFrontier(FilterBlocksForPath(blocks, h), h)
               PROVE  \E b \in FilterBlocksForPath(blocks, h) : h[i] \in DOMAIN b.covers
    BY Zenon DEF NothingIsSkipped
  <2> DEFINE path == FilterBlocksForPath(blocks, h)
             n == SummarizedFrontier(blocks, h)
  <2>1. Numbered(rows) /\ IsFiniteSet(blocks) /\ Distinct(blocks) /\ \A b \in blocks : Sound(b, rows)
    BY DEF SummariesSound, RowsInOrder
  <2>2. Ascending(h) /\ ToSet(h) = Path(rows, m)
    BY <2>1, HistoryAscends
  <2>3. /\ SummarizedFrontier(path, h) = n /\ n \in 0..Len(h)
        /\ \A b \in path : b \in blocks /\ OnPath(b, h)
        /\ \A k \in 1..n : \E b \in path : IndexOf(h, b.from) <= k /\ k <= IndexOf(h, b.anchor)
    BY <2>1, <2>2, FilterCovers
  <2> HIDE DEF path, n
  <2>4. i \in 1..n /\ i \in 1..Len(h)
    BY <2>2, <2>3 DEF Ascending, path
  <2>5. PICK b \in path : IndexOf(h, b.from) <= i /\ i <= IndexOf(h, b.anchor)
    BY <2>3, <2>4
  <2>6. h[i] \in ToSet(h) /\ IndexOf(h, h[i]) = i /\ b.from \in ToSet(h) /\ b.anchor \in ToSet(h)
    BY <2>2, <2>3, <2>4, <2>5, Indices DEF OnPath
  <2>7. b.from <= h[i] /\ h[i] <= b.anchor
    BY <2>2, <2>5, <2>6, Indices
  <2>8. h[i] \in Path(rows, b.anchor)
    BY <2>1, <2>2, <2>6, <2>7, PathIsLine
  <2>9. h[i] \in DOMAIN b.covers
    BY <2>1, <2>3, <2>5, <2>7, <2>8 DEF Sound
  <2> QED BY <2>5, <2>9 DEF path
<1> QED BY <1>1, SummariesStaySound, PTL

\* A message of a path that is not its end has something below it.
LEMMA SomethingFollows ==
  ASSUME NEW ms, IsFiniteSet(DOMAIN ms), NEW m \in DOMAIN ms, NEW x \in Path(ms, m), x # m
  PROVE  Children(ms, x) # {}
<1> SUFFICES ASSUME Children(ms, x) = {} PROVE FALSE
  OBVIOUS
<1> DEFINE S == Path(ms, m) \ {x}
<1>1. m \in S /\ Path(ms, m) \subseteq DOMAIN ms /\ Closed(ms, Path(ms, m))
  BY PathIsClosure
<1>2. \A y \in DOMAIN ms : ms[y].parent # x
  BY DEF Children
<1>3. Closed(ms, S)
  BY <1>1, <1>2 DEF Closed
<1>4. Path(ms, m) \subseteq S
  <2> HIDE DEF S
  <2> QED BY <1>1, <1>3, PathIsClosure
<1> QED BY <1>4

\* A branch that loses a block sees the one that replaces it, and that one reaches at
\* least as far (llm/compaction.go, installSummaryReplacement).
LEMMA ReplacementIsSeen ==
  ASSUME SummariesSound, NEW j, NEW r, Sound(r, rows),
         r.anchor \in ToSet(j.history), \A x \in ToSet(j.history) : r.from <= x,
         \A x \in ToSet(j.history) : Path(rows, x) = {y \in ToSet(j.history) : y <= x},
         NEW b, Sound(b, rows), OnPath(b, j.history), ~NeededOutside(b, r, j.history),
         NEW m \in DOMAIN rows, Children(rows, m) = {}, b.anchor \in Path(rows, m)
  PROVE  /\ r.anchor \in Path(rows, m) /\ r.from \in Path(rows, m)
         /\ r.from <= b.from /\ b.anchor <= r.anchor
<1> DEFINE h == j.history
<1>1. Numbered(rows) /\ IsFiniteSet(DOMAIN rows) /\ DOMAIN rows \subseteq Nat
  BY DEF SummariesSound, RowsInOrder, Numbered
<1>2. /\ b.anchor \in Path(rows, r.anchor)
      /\ \A x \in DOMAIN rows \ ToSet(h) : b.anchor \in Path(rows, x) => r.anchor \in Path(rows, x)
  BY DEF NeededOutside
<1>3. r.anchor \in DOMAIN rows /\ r.from \in Path(rows, r.anchor)
  BY DEF Sound
<1>4. r.anchor \in Path(rows, m)
  <2>1. CASE m \notin ToSet(h)
    BY <1>2, <2>1
  <2>2. CASE m \in ToSet(h) /\ r.anchor <= m
    BY <2>2
  <2>3. CASE m \in ToSet(h) /\ ~(r.anchor <= m)
    <3>1. m \in Nat /\ r.anchor \in Nat
      BY <1>1, <1>3
    <3>2. m \in Path(rows, r.anchor) /\ m # r.anchor
      BY <2>3, <3>1
    <3> QED BY <1>1, <1>3, <3>2, SomethingFollows
  <2> QED BY <2>1, <2>2, <2>3
<1>5. r.from \in Path(rows, m)
  BY <1>1, <1>3, <1>4, PathOnPath
<1>6. r.from <= b.from
  BY DEF OnPath
<1>7. b.anchor <= r.anchor
  BY <1>1, <1>2, <1>3, PathGoesUp
<1> QED BY <1>4, <1>5, <1>6, <1>7

\* A position the blocks do not pass on a branch is one they did not pass before.
LEMMA ReachedBefore ==
  ASSUME CompactionAssumption, SummariesSound, NEW w \in Workers, Persist(w),
         NEW m \in DOMAIN rows, Children(rows, m) = {}, NEW H, H = History(rows, m),
         NEW k \in Nat, Reached(blocks', H, k)
  PROVE  Reached(blocks, H, k)
<1> DEFINE j == job[w]
           h == j.history
           r == NewBlock(j)
           path == FilterBlocksForPath(blocks, h)
<1>1. CASE blocks \subseteq blocks'
  BY <1>1 DEF Reached
<1>2. CASE ~(blocks \subseteq blocks')
  <2>1. /\ job[w].at = "asked" /\ path = j.path /\ MessagesStillCurrent(j)
        /\ ToSet(h) \subseteq DOMAIN rows
        /\ blocks' = {b \in blocks : b \in path => NeededOutside(b, r, h)} \cup {r}
    BY <1>2 DEF Persist, InstallReplacement
  <2>2. /\ Sound(r, rows) /\ r.anchor \in ToSet(h) /\ \A x \in ToSet(h) : r.from <= x
    BY <2>1, NewBlockIsSound DEF CompactionAssumption
  <2>3. SoundJob(j, rows, next)
    BY <2>1 DEF SummariesSound
  <2>4. Ascending(h) /\ \A x \in ToSet(h) : Path(rows, x) = {y \in ToSet(h) : y <= x}
    BY <2>1, <2>3 DEF SoundJob
  <2>5. Numbered(rows) /\ IsFiniteSet(blocks) /\ Distinct(blocks) /\ \A b \in blocks : Sound(b, rows)
    BY DEF SummariesSound, RowsInOrder
  <2>6. Ascending(H) /\ ToSet(H) = Path(rows, m)
    BY <2>5, HistoryAscends
  <2>7. \A b \in path : OnPath(b, h)
    BY <2>4, <2>5, FilterCovers
  <2> HIDE DEF r, path
  <2>8. SUFFICES ASSUME NEW b \in blocks, OnPath(b, H), IndexOf(H, b.from) <= k + 1
                 PROVE  IndexOf(H, b.anchor) <= k
    BY DEF Reached
  <2>9. CASE b \in blocks'
    BY <2>8, <2>9 DEF Reached
  <2>10. CASE b \notin blocks'
    <3>1. b \in path /\ ~NeededOutside(b, r, h)
      BY <2>1, <2>10
    <3>2. b.anchor \in ToSet(H) /\ b.from \in ToSet(H)
      BY <2>8 DEF OnPath
    <3>3. /\ r.anchor \in ToSet(H) /\ r.from \in ToSet(H)
          /\ r.from <= b.from /\ b.anchor <= r.anchor
      BY <2>2, <2>4, <2>5, <2>6, <2>7, <3>1, <3>2, ReplacementIsSeen
    <3>4. /\ IndexOf(H, r.from) <= IndexOf(H, b.from) /\ IndexOf(H, b.anchor) <= IndexOf(H, r.anchor)
          /\ IndexOf(H, r.from) \in 1..Len(H) /\ IndexOf(H, b.from) \in 1..Len(H)
          /\ IndexOf(H, b.anchor) \in 1..Len(H) /\ IndexOf(H, r.anchor) \in 1..Len(H)
      BY <2>6, <3>2, <3>3, Indices
    <3>5. OnPath(r, H)
      <4>1. r.from <= r.anchor
        BY <2>2
      <4> QED BY <3>3, <4>1 DEF OnPath
    <3>6. IndexOf(H, r.from) <= k + 1
      BY <2>8, <3>4
    <3>7. IndexOf(H, r.anchor) <= k
      BY <2>1, <3>5, <3>6 DEF Reached
    <3> QED BY <3>4, <3>7
  <2> QED BY <2>9, <2>10
<1> QED BY <1>1, <1>2

\* Storing a summary for one branch never takes away what another one has
\* (llm/compaction.go, installSummaryReplacement and summaryNeededOutsidePath).
THEOREM BranchesKeepSummaries == CompactionSpec => NoBranchLosesItsSummary
<1> DEFINE Grows(m) ==
             LET h == History(rows, m)
             IN  SummarizedFrontier(FilterBlocksForPath(blocks', h), h)
                   >= SummarizedFrontier(FilterBlocksForPath(blocks, h), h)
<1>1. ASSUME SummariesSound, SummariesSound', NEW w \in Workers, Persist(w),
             NEW m \in DOMAIN rows, Children(rows, m) = {}
      PROVE  Grows(m)
  <2> DEFINE h == History(rows, m)
             old == FilterBlocksForPath(blocks, h)
             new == FilterBlocksForPath(blocks', h)
             before == SummarizedFrontier(blocks, h)
             after == SummarizedFrontier(blocks', h)
  <2>1. Numbered(rows) /\ IsFiniteSet(blocks) /\ Distinct(blocks)
    BY <1>1 DEF SummariesSound, RowsInOrder
  <2>2. IsFiniteSet(blocks') /\ Distinct(blocks')
    BY <1>1 DEF SummariesSound, Distinct
  <2>3. Ascending(h)
    BY <2>1, HistoryAscends
  <2>4. \A k \in Nat : Reached(blocks', h, k) => Reached(blocks, h, k)
    BY <1>1, CompactionAssumption, ReachedBefore
  <2> HIDE DEF h
  <2>5. before <= after
    BY <2>1, <2>2, <2>3, <2>4, FrontierGrows
  <2>6. SummarizedFrontier(old, h) = before /\ before \in 0..Len(h)
    BY <2>1, <2>3, FilterCovers
  <2>7. SummarizedFrontier(new, h) = after /\ after \in 0..Len(h)
    BY <2>2, <2>3, FilterCovers
  <2>8. Len(h) \in Nat
    BY <2>3 DEF Ascending
  <2> HIDE DEF old, new, before, after
  <2>9. SummarizedFrontier(new, h) >= SummarizedFrontier(old, h)
    BY <2>5, <2>6, <2>7, <2>8
  <2> QED BY <2>9 DEF h, old, new
<1>2. ASSUME SummariesSound, SummariesSound', NEW w \in Workers, Persist(w)
      PROVE  \A m \in {x \in DOMAIN rows : Children(rows, x) = {}} : Grows(m)
  <2> HIDE DEF Grows
  <2> QED BY <1>1, <1>2
<1>3. SummariesSound /\ SummariesSound' =>
        [(\E w \in Workers : Persist(w)) =>
           \A m \in {x \in DOMAIN rows : Children(rows, x) = {}} :
             LET h == History(rows, m)
             IN  SummarizedFrontier(FilterBlocksForPath(blocks', h), h)
                   >= SummarizedFrontier(FilterBlocksForPath(blocks, h), h)]_compactionVars
  BY <1>2
<1> QED BY <1>3, SummariesStaySound, PTL DEF NoBranchLosesItsSummary
=============================================================================
