------------------------------ MODULE SessionTree ------------------------------
(* projectSessionTree(): the list of a session's entries that /tree shows, in      *)
(* pre-order, and the path to the entry it is at. The tree comes from Pi's session *)
(* manager, which reads it from a file: the walk must end whatever it holds.       *)
EXTENDS Naturals, Sequences, SequencesExt

CONSTANT MaxNodes \* bound: nodes of a tree

\* The trees have one root or two.
ASSUME TreeAssumption == MaxNodes \in Nat /\ MaxNodes > 1

VARIABLES tree,     \* what the manager gives: [roots, children, id, parent]
          stack,    \* nodes to visit, the next one last
          visited,  \* nodes visited
          rows,     \* nodes listed, in that order
          leaf,     \* the entry the session is at; NoEntry for none, a missing one among them
          climb,    \* the entry buildActivePath() is at
          path,     \* the path it found from there to the leaf
          projection \* "walks", "climbs", "done", "duplicate" or "badLeaf"

treeVars == <<tree, stack, visited, rows, leaf, climb, path, projection>>
walk == <<stack, visited, rows>>

Nodes == 1 .. MaxNodes
NoEntry == 0
Missing == MaxNodes + 1

Lists == UNION {SetToSeqs(s) : s \in SUBSET Nodes}
ListersOf(children, n) == {m \in Nodes : n \in Range(children[m])}
FirstLister(children, n) == CHOOSE m \in ListersOf(children, n) : \A o \in ListersOf(children, n) : m <= o
IdOf(n) == tree.id[n]
Ids(nodes) == {IdOf(n) : n \in nodes}
NodeOf(id) == CHOOSE n \in visited : IdOf(n) = id

TwinId(twin, n) == IF n = twin THEN 1 ELSE n

\* Entries nobody lists and that are no root are in no tree; a second entry may have the id of
\* the first, and a root may name a parent there is not, or one below it.
Trees ==
  {[roots |-> roots, children |-> children,
    id |-> [n \in Nodes |-> IF n = twin THEN 1 ELSE n],
    parent |-> [n \in Nodes |-> IF ListersOf(children, n) # {} THEN FirstLister(children, n)
                                ELSE IF n = 1 THEN NoEntry ELSE Missing]] :
     roots \in {<<1>>, <<1, MaxNodes>>},
     children \in [Nodes -> Lists],
     twin \in {1, MaxNodes}}

------------------------------------------------------------------------------

\* Mutant: children are pushed as they come.
PushedAsTheyCome(n) == tree.children[n]

\* The last child is pushed first.
Pushed(n) == Reverse(tree.children[n])

Visit ==
  LET n == Last(stack) IN
  /\ projection = "walks" /\ stack # <<>>
  /\ CASE n \in visited -> stack' = Front(stack) /\ UNCHANGED <<visited, rows, projection>>
       [] n \notin visited /\ IdOf(n) \in Ids(visited) -> projection' = "duplicate" /\ UNCHANGED walk
       [] OTHER -> /\ visited' = visited \union {n} /\ rows' = Append(rows, n)
                   /\ stack' = Front(stack) \o Pushed(n) /\ UNCHANGED projection
  /\ UNCHANGED <<tree, leaf, climb, path>>

\* Everything is listed: the leaf the manager gives has to be among it.
TakeLeaf(l) ==
  /\ projection = "walks" /\ stack = <<>>
  /\ leaf' = l /\ climb' = l
  /\ projection' = IF l # NoEntry /\ l \notin Ids(visited) THEN "badLeaf" ELSE "climbs"
  /\ UNCHANGED <<tree, walk, path>>

\* Mutant: the path is not looked at for an entry it has.
StopsAtRoot(id) == id = NoEntry \/ id \notin Ids(visited)

\* A root, an entry that is not listed, or one the path has: a cycle of parents.
Stops(id) == id = NoEntry \/ id \in Range(path) \/ id \notin Ids(visited)

Climb ==
  /\ projection = "climbs" /\ Len(path) <= MaxNodes
  /\ IF Stops(climb) THEN projection' = "done" /\ UNCHANGED <<climb, path>>
     ELSE /\ path' = <<climb>> \o path /\ climb' = tree.parent[NodeOf(climb)]
          /\ UNCHANGED projection
  /\ UNCHANGED <<tree, walk, leaf>>

TreeInit ==
  /\ tree \in Trees
  /\ stack = Reverse(tree.roots) /\ visited = {} /\ rows = <<>>
  /\ leaf = NoEntry /\ climb = NoEntry /\ path = <<>> /\ projection = "walks"

TreeNext == Visit \/ Climb \/ \E l \in {NoEntry, 1, MaxNodes, Missing} : TakeLeaf(l)

------------------------------------------------------------------------------

ChildrenOf(s) == UNION {Range(tree.children[n]) : n \in s}
InTree == {n \in Nodes : \A s \in SUBSET Nodes : Range(tree.roots) \union ChildrenOf(s) \subseteq s => n \in s}
Under(n) == {m \in Nodes : \A s \in SUBSET Nodes : {n} \union ChildrenOf(s) \subseteq s => m \in s}
IsTree ==
  /\ \A n \in Nodes : Cardinality(ListersOf(tree.children, n)) <= 1
  /\ \A n \in Range(tree.roots) : ListersOf(tree.children, n) = {}
Row(n) == CHOOSE i \in DOMAIN rows : rows[i] = n
InOrder(nodes) == \A i, j \in DOMAIN nodes : i < j => Row(nodes[i]) < Row(nodes[j])

\* A projection lists every entry of the tree once, each before those under it, which follow it
\* without another between them, and siblings in their order; the path to the leaf goes from parent to
\* child, from a root or from where the parents run in a circle; and a tree is refused only for
\* an id that two of its entries have, or for a leaf it does not hold
\* (sessionTreeProjection.ts projectSessionTree, buildActivePath).
TreeIsWhole ==
  /\ projection \in {"climbs", "done", "badLeaf"} =>
       /\ Range(rows) = InTree /\ IsInjective(rows) /\ IsInjective([n \in InTree |-> IdOf(n)])
       /\ IsTree => /\ InOrder(tree.roots) /\ \A n \in InTree : InOrder(tree.children[n])
                    /\ \A n \in InTree : {Row(m) : m \in Under(n)} = Row(n) .. Row(n) + Cardinality(Under(n)) - 1
  /\ projection = "duplicate" => ~IsInjective([n \in InTree |-> IdOf(n)])
  /\ projection = "badLeaf" => leaf \notin {NoEntry} \union Ids(InTree)
  /\ projection = "done" /\ leaf # NoEntry =>
       /\ IsInjective(path) /\ Last(path) = leaf
       /\ \A i \in 1 .. Len(path) - 1 : tree.parent[NodeOf(path[i + 1])] = path[i]
       /\ tree.parent[NodeOf(Head(path))] \notin Ids(visited) \ Range(path)
  /\ Len(path) <= MaxNodes
==============================================================================
