------------------------------- MODULE KdTree -------------------------------
(***************************************************************************)
(* The programs of Opgave2 that look up the record nearest to a point:     *)
(* coord_query_naive, a scan, and coord_query_kdtree.  A record is its     *)
(* index in rs, from 1 on; rs[r] has lon and lat, which are integers here. *)
(* A tree is NoNode or a node with a record and two trees.                 *)
(***************************************************************************)
EXTENDS Integers, Sequences, FiniteSets, SequencesExt

NoNode == [rec |-> 0]       \* NULL

\* The trees of records of rs that are no higher than rs is long
Trees(rs) ==
    LET trees[h \in 0..Len(rs)] ==
          IF h = 0 THEN {NoNode}
          ELSE {NoNode} \cup [rec : DOMAIN rs, left : trees[h - 1], right : trees[h - 1]]
    IN trees[Len(rs)]

distanceSquared(p, q) ==
    (p.lon - q.lon) * (p.lon - q.lon) + (p.lat - q.lat) * (p.lat - q.lat)

Axis(p, depth) == IF depth % 2 = 0 THEN p.lon ELSE p.lat

SortedX(rs, S, depth) ==             \* mutant: every level is sorted by lon
    {o \in SetToSeqs(S) : \A a, b \in 1..Len(o) : a < b => rs[o[a]].lon <= rs[o[b]].lon}

\* Every order that qsort with compareX or compareY may leave
Sorted(rs, S, depth) ==
    {o \in SetToSeqs(S) :
       \A a, b \in 1..Len(o) : a < b => Axis(rs[o[a]], depth) <= Axis(rs[o[b]], depth)}

\* The trees of the records in S: what buildKDTree does to the slice depends
\* on the records in it alone, up to the order of equal ones.
buildKDTree(rs) ==
    LET build[S \in SUBSET DOMAIN rs] == [depth \in Nat |->
          IF S = {} THEN {NoNode}
          ELSE UNION {
            LET median == Cardinality(S) \div 2 IN
            {[rec |-> o[median + 1], left |-> l, right |-> r] :
               l \in build[{o[p] : p \in 1..median}][depth + 1],
               r \in build[{o[p] : p \in median + 2..Cardinality(S)}][depth + 1]}
            : o \in Sorted(rs, S, depth)}]
    IN build

mk(rs) == buildKDTree(rs)[DOMAIN rs][0]

lookup_tree(rs, query) ==
    LET look[node \in Trees(rs)] == [depth \in Nat |-> [closest \in DOMAIN rs |->
          IF node = NoNode THEN closest
          ELSE
          LET closest_dist == distanceSquared(rs[closest], query)      \* kept below, though closest moves
              nearer == IF distanceSquared(rs[node.rec], query) < closest_dist THEN node.rec ELSE closest
              di == Axis(rs[node.rec], depth) - Axis(query, depth)
              first == IF di < 0 THEN node.left ELSE node.right
              other == IF di < 0 THEN node.right ELSE node.left
              found == look[first][depth + 1][nearer]
          IN IF di * di < closest_dist THEN look[other][depth + 1][found] ELSE found]]
    IN look

lookup(rs, root, query) ==
    IF root = NoNode THEN NoNode ELSE lookup_tree(rs, query)[root][0][root.rec]

\* coord_query_naive: the first record at the least distance
coord_lookup_naive(rs, query) ==
    IF DOMAIN rs = {} THEN NoNode
    ELSE LET scan[m \in 0..Len(rs)] ==      \* closest after the first m records
               IF m = 0 THEN 1
               ELSE IF distanceSquared(rs[m], query) < distanceSquared(rs[scan[m - 1]], query)
                    THEN m ELSE scan[m - 1]
         IN scan[Len(rs)]

-----------------------------------------------------------------------------
\* The tree t holds the records in S, each in one node: those on the left of
\* a node's record are in its left subtree, the others in its right one.
Splits(rs) ==
    LET splits[t \in Trees(rs)] == [S \in SUBSET DOMAIN rs |-> [depth \in Nat |->
          IF t = NoNode THEN S = {}
          ELSE /\ t.rec \in S
               /\ \E L \in SUBSET (S \ {t.rec}) :
                    LET R == (S \ {t.rec}) \ L IN
                    /\ \A r \in L : Axis(rs[r], depth) <= Axis(rs[t.rec], depth)
                    /\ \A r \in R : Axis(rs[r], depth) >= Axis(rs[t.rec], depth)
                    /\ splits[t.left][L][depth + 1] /\ splits[t.right][R][depth + 1]]]
    IN splits

Nearest(rs, query, r) ==
    \A s \in DOMAIN rs : distanceSquared(rs[r], query) <= distanceSquared(rs[s], query)

\* Every record is in the tree once, and below every node the records on its
\* left and right are on their sides of its coordinate, whatever order qsort
\* gives equal records.
TreeSound(rs) == \A t \in mk(rs) : t \in Trees(rs) /\ Splits(rs)[t][DOMAIN rs][0]

\* The nodes of t, whose root is at depth, with their depths
TreeNodes(rs) ==
    LET nodes[t \in Trees(rs)] == [depth \in Nat |->
          IF t = NoNode THEN {}
          ELSE {<<t, depth>>} \cup nodes[t.left][depth + 1] \cup nodes[t.right][depth + 1]]
    IN nodes

\* Record s is below a node whose line is no nearer to the query than the
\* answer, on the side of that line on which the query is.
PassedOver(rs, query, t, depth, s, dist) ==
    \E v \in TreeNodes(rs)[t][depth] :
      LET di == Axis(rs[v[1].rec], v[2]) - Axis(query, v[2])
          own == IF di < 0 THEN v[1].right ELSE v[1].left
      IN di * di >= dist /\ \E w \in TreeNodes(rs)[own][v[2] + 1] : w[1].rec = s

\* The scan finds a nearest record.  The tree finds one that is no farther away
\* than its root, and every record that is nearer than the answer has been
\* passed over: the bound is applied to the side the query is on, instead of
\* the other one.
AnswersRight(rs, query) ==
    DOMAIN rs # {} =>
      /\ Nearest(rs, query, coord_lookup_naive(rs, query))
      /\ \A t \in mk(rs) :
           LET dist == distanceSquared(rs[lookup(rs, t, query)], query) IN
           /\ dist <= distanceSquared(rs[t.rec], query)
           /\ \A s \in DOMAIN rs :
                distanceSquared(rs[s], query) < dist => PassedOver(rs, query, t, 0, s, dist)

\* The tree finds a nearest record.  Not so: the side of the query is the one
\* that the bound may skip.
TreeFindsNearest(rs, query) ==
    DOMAIN rs # {} => \A t \in mk(rs) : Nearest(rs, query, lookup(rs, t, query))
=============================================================================
