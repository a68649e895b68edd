-------------------------------- MODULE Manifest -------------------------------
(***************************************************************************)
(* Kubernetes objects as the operator handles them: the nested maps, lists *)
(* and scalars of an unstructured.Unstructured, and JSON Pointers into     *)
(* them. A pointer is the sequence of its segments; a list element's       *)
(* segment is its index, written as the pointer writes it.                 *)
(***************************************************************************)
EXTENDS Naturals, Sequences, SequencesExt, TLC

CONSTANT MaxHeight  \* bound on the nesting of documents

ASSUME HeightAssumption == MaxHeight \in Nat

Map(f) == [map |-> f]
List(s) == [list |-> s]
Leaf(v) == [leaf |-> v]

\* What a lookup of an absent key or index gives; JSON's null is the same to
\* the code, which compares what json.Marshal makes of them.
Nil == [null |-> 0]

IsMap(n) == "map" \in DOMAIN n
IsList(n) == "list" \in DOMAIN n
IsLeaf(n) == "leaf" \in DOMAIN n

\* The segment of the i-th element of a list.
Index(i) == ToString(i - 1)

\* The segments below a node.
Segments(n) ==
    IF IsMap(n) THEN DOMAIN n.map
    ELSE IF IsList(n) THEN {Index(i) : i \in DOMAIN n.list}
    ELSE {}

\* The node one segment below n.
Child(n, s) ==
    IF IsMap(n) /\ s \in DOMAIN n.map THEN n.map[s]
    ELSE IF IsList(n) /\ s \in Segments(n)
      THEN n.list[CHOOSE i \in DOMAIN n.list : Index(i) = s]
    ELSE Nil

\* The nodes from n down pointer p.
Descent(n, p) ==
    LET at[i \in 0 .. Len(p)] == IF i = 0 THEN n ELSE Child(at[i - 1], p[i])
    IN  at

\* The node at pointer p of n.
At(n, p) == Descent(n, p)[Len(p)]

\* The pointers of a document, from level to level.
Below(n, ps) == UNION {{Append(p, s) : s \in Segments(At(n, p))} : p \in ps}
Pointers(n) ==
    LET level[h \in 0 .. MaxHeight] ==
          IF h = 0 THEN {<<>>} ELSE Below(n, level[h - 1])
    IN  UNION {level[h] : h \in 0 .. MaxHeight}

\* n with v one segment below it; a map's key is added when it is absent and
\* dropped for Nil.
PutChild(n, s, v) ==
    IF IsList(n) THEN List([i \in DOMAIN n.list |-> IF Index(i) = s THEN v ELSE n.list[i]])
    ELSE LET old == IF IsMap(n) THEN n.map ELSE <<>>
             keys == (DOMAIN old \cup {s}) \ (IF v = Nil THEN {s} ELSE {})
         IN  Map([k \in keys |-> IF k = s THEN v ELSE old[k]])

\* n with v at pointer p, as the API server's JSON Patch or SetNestedField
\* leaves it: new[k] is what replaces the node k segments above p.
Put(n, p, v) ==
    LET old == Descent(n, p)
        new[k \in 0 .. Len(p)] ==
          IF k = 0 THEN v
          ELSE PutChild(old[Len(p) - k], p[Len(p) - k + 1], new[k - 1])
    IN  new[Len(p)]
================================================================================
