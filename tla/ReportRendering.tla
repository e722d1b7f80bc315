-------------------------- MODULE ReportRendering --------------------------
(* The tree a report's properties, or a message's tokens, are rendered from.  The
   dots of a name are levels of the tree; a node may have a value and children.
   A name is the sequence of its segments, and a node is the name that leads to
   it.                                                                       *)
EXTENDS Naturals, Sequences

\* A tree: its nodes, their children in the order they came, and their values.
EmptyTree == [nodes |-> {<<>>}, order |-> [n \in {<<>>} |-> <<>>], values |-> <<>>]

With(f, x, v) == [y \in DOMAIN f \cup {x} |-> IF y = x THEN v ELSE f[y]]

\* Mutant: the order of a child is remembered when the child is there.
RememberedLate(t, node, segment) ==
  LET child == Append(node, segment)
  IN [t EXCEPT !.nodes = @ \cup {child},
               !.order = IF child \in t.nodes THEN @ ELSE With(@, child, <<>>)]

\* remember_child_order, and then the child itself.
Remembered(t, node, segment) ==
  LET child == Append(node, segment)
  IN IF child \in t.nodes THEN t
     ELSE [t EXCEPT !.nodes = @ \cup {child},
                    !.order = With([@ EXCEPT ![node] = Append(@, segment)], child, <<>>)]

Inserted(t, name, value) ==
  LET Walk[k \in 0..Len(name)] ==
        IF k = 0 THEN t ELSE Remembered(Walk[k - 1], SubSeq(name, 1, k - 1), name[k])
  IN [Walk[Len(name)] EXCEPT !.values = With(@, name, value)]

\* build_tree takes the properties in the order of their names.
Tree(names, values) ==
  LET Build[k \in 0..Len(names)] ==
        IF k = 0 THEN EmptyTree ELSE Inserted(Build[k - 1], names[k], values[k])
  IN Build[Len(names)]

=============================================================================
