------------------------------ MODULE Ensembles ------------------------------
(***************************************************************************)
(* A trained model as serving has it: trees laid end to end in flat        *)
(* columns (src/aether/ml/export.py), scored by two walks, one for a       *)
(* single session and one for many at once.                                *)
(*                                                                         *)
(* A tree is a sequence of nodes [feature, threshold, left, right, leaf,   *)
(* value, missingLeft]; children are positions counted from 0 within the   *)
(* tree.  A row is a sequence of feature values, Missing for NaN.  The     *)
(* logistic over the sum and the file format are left out.                 *)
(***************************************************************************)
EXTENDS Integers, SequencesExt

CONSTANT Missing

\* Slip: the offset of a tree does not count the trees before its predecessor.
FlattenByLength(trees) ==
  [nodes |-> FlattenSeq(trees),
   offsets |-> [t \in 1 .. Len(trees) + 1 |-> IF t = 1 THEN 0 ELSE Len(trees[t - 1])]]

\* export_estimator(): the nodes of all trees, and where each tree starts.
Flatten(trees) ==
  [nodes |-> FlattenSeq(trees),
   offsets |-> [t \in 1 .. Len(trees) + 1 |->
                  FoldLeft(LAMBDA sum, tree : sum + Len(tree), 0, SubSeq(trees, 1, t - 1))]]

GoesLeft(node, x) == IF x = Missing THEN node.missingLeft ELSE x <= node.threshold

Child(node, row) ==
  IF GoesLeft(node, row[node.feature]) THEN node.left ELSE node.right

\* _raw_one(): node is an absolute position, from the start of the tree on.
RawOne(model, baseline, row) ==
  LET leaf(t) ==
        LET base == model.offsets[t]
            step(node, k) ==
              IF model.nodes[node + 1].leaf THEN node
              ELSE base + Child(model.nodes[node + 1], row)
        IN FoldLeft(step, base, [k \in 1 .. model.offsets[t + 1] - base |-> k])
  IN FoldLeft(LAMBDA total, t : total + model.nodes[leaf(t) + 1].value, baseline,
              [t \in 1 .. Len(model.offsets) - 1 |-> t])

\* _raw(): all rows go down a tree a level at a time, a row that has reached a
\* leaf staying there, until every row has; a single row is walked as above.
Raw(model, baseline, rows) ==
  LET down(t) ==
        LET tree == SubSeq(model.nodes, model.offsets[t] + 1, model.offsets[t + 1])
            level(at, k) ==
              [r \in DOMAIN rows |-> IF tree[at[r] + 1].leaf THEN at[r]
                                     ELSE Child(tree[at[r] + 1], rows[r])]
            at == FoldLeft(level, [r \in DOMAIN rows |-> 0], [k \in 1 .. Len(tree) |-> k])
        IN [r \in DOMAIN rows |-> tree[at[r] + 1].value]
      add(raw, t) == [r \in DOMAIN rows |-> raw[r] + down(t)[r]]
  IN IF Len(rows) = 1 THEN <<RawOne(model, baseline, rows[1])>>
     ELSE FoldLeft(add, [r \in DOMAIN rows |-> baseline],
                   [t \in 1 .. Len(model.offsets) - 1 |-> t])
-----------------------------------------------------------------------------
\* Where a row ends up in a tree: the leaf all of whose ancestors send it there.
LeafOf(tree, row) ==
  LET reached == CHOOSE S \in SUBSET (0 .. Len(tree) - 1) :
        /\ 0 \in S
        /\ \A n \in S : ~tree[n + 1].leaf => Child(tree[n + 1], row) \in S
        /\ Cardinality({n \in S : tree[n + 1].leaf}) = 1
        /\ \A n \in S \ {0} : \E m \in S : ~tree[m + 1].leaf /\ Child(tree[m + 1], row) = n
  IN CHOOSE n \in reached : tree[n + 1].leaf

\* A session scored on its own and the same one scored among others get what
\* the trees say, missing values and trees of different depths included.
WalksAgree(trees, baseline, rows) ==
  LET model == Flatten(trees)
      said(row) == FoldLeft(LAMBDA total, tree : total + tree[LeafOf(tree, row) + 1].value,
                            baseline, trees)
  IN /\ \A r \in DOMAIN rows : RawOne(model, baseline, rows[r]) = said(rows[r])
     /\ Raw(model, baseline, rows) = [r \in DOMAIN rows |-> said(rows[r])]
=============================================================================
