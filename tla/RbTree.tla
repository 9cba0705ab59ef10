------------------------------- MODULE RbTree -------------------------------
(***************************************************************************)
(* rbtree.c: the red-black tree that links the tcbs, as operators on a     *)
(* tree                                                                    *)
(*    root    the root's rb_node                                           *)
(*    kid     rb_left and rb_right of every node                           *)
(*    parent  the parent half of rb_parent_color                           *)
(*    black   the nodes whose color bit is RB_BLACK                        *)
(* The code spells every case out for both sides; here a case has the side *)
(* as a parameter.  A node that was never linked, or was freed, has null   *)
(* pointers.  Following a null pointer is an error for TLC, as it is in C. *)
(***************************************************************************)
EXTENDS Naturals, FiniteSets, Sequences

CONSTANTS Node, NULL

Side == {"rb_left", "rb_right"}
Other(s) == IF s = "rb_left" THEN "rb_right" ELSE "rb_left"

Tree == [root : Node \cup {NULL}, kid : [Side -> [Node -> Node \cup {NULL}]],
         parent : [Node -> Node \cup {NULL}], black : SUBSET Node]

RB_ROOT == [root |-> NULL, kid |-> [s \in Side |-> [n \in Node |-> NULL]],
            parent |-> [n \in Node |-> NULL], black |-> {}]

\* A while loop over the tree: Body(x) is x once the condition fails.  Every
\* iteration goes at least a level up or down.
Loop(Body(_), x) ==
    LET after[i \in 0..Cardinality(Node)] == IF i = 0 THEN x ELSE Body(after[i - 1])
    IN  after[Cardinality(Node)]

IsRed(t, n) == n # NULL /\ n \notin t.black

SideIn(t, p, n) == IF t.kid["rb_left"][p] = n THEN "rb_left" ELSE "rb_right"

\* What pointed down to n, in its parent p or the root, points to m.
Relink(t, p, n, m) ==
    IF p = NULL THEN [t EXCEPT !.root = m] ELSE [t EXCEPT !.kid[SideIn(t, p, n)][p] = m]

rb_set_parent(t, n, p) == IF n = NULL THEN t ELSE [t EXCEPT !.parent[n] = p]

\* Mutant: the subtree that changes sides keeps its old parent.
Raise_orphan(t, s, n, up) ==
    [Relink(t, t.parent[n], n, up) EXCEPT
       !.kid[Other(s)][n] = t.kid[s][up], !.kid[s][up] = n,
       !.parent[up] = t.parent[n], !.parent[n] = up]

\* up takes the place of its parent n, which goes down on side s.
Raise(t, s, n, up) ==
    [rb_set_parent(Relink(t, t.parent[n], n, up), t.kid[s][up], n) EXCEPT
       !.kid[Other(s)][n] = t.kid[s][up], !.kid[s][up] = n,
       !.parent[up] = t.parent[n], !.parent[n] = up]

\* __rb_rotate_left and __rb_rotate_right.
rb_rotate(t, s, n) == Raise(t, s, n, t.kid[Other(s)][n])

Recolored(t, blacken, redden) == [t EXCEPT !.black = (@ \cup blacken) \ redden]
-----------------------------------------------------------------------------
(* Insertion. *)

rb_link_node(t, n, p, s) ==
    LET v == [t EXCEPT !.parent[n] = p, !.black = @ \ {n},
                       !.kid = [side \in Side |-> [@[side] EXCEPT ![n] = NULL]]]
    IN  IF p = NULL THEN [v EXCEPT !.root = n] ELSE [v EXCEPT !.kid[s][p] = n]

\* n and its parent p, which is on side s of its parent g, are both red.  c holds
\* the tree and the variable node.
TwoReds(t, n, p, g, s) ==
    IF IsRed(t, t.kid[Other(s)][g])
      THEN [t |-> Recolored(t, {p, t.kid[Other(s)][g]}, {g}), node |-> g]
    ELSE IF t.kid[Other(s)][p] = n
      THEN [t |-> rb_rotate(Recolored(rb_rotate(t, s, p), {n}, {g}), Other(s), g), node |-> p]
    ELSE [t |-> rb_rotate(Recolored(t, {p}, {g}), Other(s), g), node |-> n]

\* The body of rb_insert_color's loop.
RepairInsert(c) ==
    LET p == c.t.parent[c.node]
        g == c.t.parent[p]
    IN  IF IsRed(c.t, p) THEN TwoReds(c.t, c.node, p, g, SideIn(c.t, g, p)) ELSE c

RootBlack(t) == Recolored(t, {t.root}, {})
rb_insert_color(t, n) == RootBlack(Loop(RepairInsert, [t |-> t, node |-> n]).t)
-----------------------------------------------------------------------------
(* Removal. *)

\* A red sibling goes up first, and a black one takes its place.
BlackSibling(t, p, s) ==
    IF IsRed(t, t.kid[Other(s)][p])
      THEN rb_rotate(Recolored(t, {t.kid[Other(s)][p]}, {p}), s, p)
      ELSE t

\* Mutant: a red inner nephew stays where it is.
OuterNephew_missing(t, s, sibling) == t

\* The red nephew is the outer one.
OuterNephew(t, s, sibling) ==
    IF IsRed(t, t.kid[Other(s)][sibling]) THEN t
    ELSE rb_rotate(Recolored(t, {t.kid[s][sibling]}, {sibling}), Other(s), sibling)

\* The sibling takes the place and the color of p, and the loop ends.
Borrow(t, p, s, sibling) ==
    LET colored == IF p \in t.black THEN Recolored(t, {sibling}, {})
                                    ELSE Recolored(t, {}, {sibling})
    IN  rb_rotate(Recolored(colored, {p, t.kid[Other(s)][sibling]}, {}), s, p)

LoopEnds(t, p) == [t |-> t, node |-> t.root, parent |-> p]
BorrowFrom(t, p, s) == LoopEnds(Borrow(t, p, s, t.kid[Other(s)][p]), p)

\* The subtree on side s of p lacks a black node.  c holds the tree and the
\* variables node and parent.
LacksBlack(t, p, s, sibling) ==
    IF \A side \in Side : ~IsRed(t, t.kid[side][sibling])
      THEN [t |-> Recolored(t, {}, {sibling}), node |-> p, parent |-> t.parent[p]]
      ELSE BorrowFrom(OuterNephew(t, s, sibling), p, s)

LacksBlackAt(t, p, s) == LacksBlack(t, p, s, t.kid[Other(s)][p])

\* The body of __rb_erase_color's loop.
RepairErase(c) ==
    LET s == SideIn(c.t, c.parent, c.node)
    IN  IF IsRed(c.t, c.node) \/ c.node = c.t.root THEN c
        ELSE LacksBlackAt(BlackSibling(c.t, c.parent, s), c.parent, s)

NodeBlack(c) == IF c.node = NULL THEN c.t ELSE Recolored(c.t, {c.node}, {})
rb_erase_color(t, n, p) == NodeBlack(Loop(RepairErase, [t |-> t, node |-> n, parent |-> p]))

Leftmost(t, n) ==
    Loop(LAMBDA m : IF t.kid["rb_left"][m] = NULL THEN m ELSE t.kid["rb_left"][m], n)

\* At most one child takes n's place.
EraseOuter(t, n) ==
    LET p     == t.parent[n]
        child == IF t.kid["rb_left"][n] = NULL THEN t.kid["rb_right"][n] ELSE t.kid["rb_left"][n]
        v     == Relink(rb_set_parent(t, child, p), p, n, child)
    IN  IF n \in t.black THEN rb_erase_color(v, child, p) ELSE v

\* next, whose right child gets the parent p, leaves its place.
Unhooked(t, n, next, p) ==
    IF p = next THEN t
    ELSE [rb_set_parent(t, t.kid["rb_right"][next], p) EXCEPT
            !.kid["rb_left"][p] = t.kid["rb_right"][next],
            !.kid["rb_right"][next] = t.kid["rb_right"][n],
            !.parent[t.kid["rb_right"][n]] = next]

\* Two children: n's successor next takes its place and its color.
Replaced(t, n, next) ==
    [t EXCEPT !.parent[next] = t.parent[n],
              !.kid["rb_left"][next] = t.kid["rb_left"][n],
              !.parent[t.kid["rb_left"][n]] = next,
              !.black = IF n \in t.black THEN @ \cup {next} ELSE @ \ {next}]

EraseFor(t, n, next) ==
    LET p == IF t.parent[next] = n THEN next ELSE t.parent[next]
        v == Replaced(Unhooked(Relink(t, t.parent[n], n, next), n, next, p), n, next)
    IN  IF next \in t.black THEN rb_erase_color(v, t.kid["rb_right"][next], p) ELSE v

EraseInner(t, n) == EraseFor(t, n, Leftmost(t, t.kid["rb_right"][n]))

\* n is freed afterwards.
Freed(t, n) == [t EXCEPT !.parent[n] = NULL, !.black = @ \ {n},
                         !.kid = [side \in Side |-> [@[side] EXCEPT ![n] = NULL]]]

rb_erase(t, n) ==
    Freed(IF \E s \in Side : t.kid[s][n] = NULL THEN EraseOuter(t, n) ELSE EraseInner(t, n), n)
-----------------------------------------------------------------------------
(* Iteration in sort order. *)

rb_first(t) == IF t.root = NULL THEN NULL ELSE Leftmost(t, t.root)

\* Mutant: the way up stops at the parent.
rb_next_parent(t, n) ==
    IF t.kid["rb_right"][n] # NULL THEN Leftmost(t, t.kid["rb_right"][n]) ELSE t.parent[n]

rb_next(t, n) ==
    LET Up(m) == IF t.parent[m] # NULL /\ t.kid["rb_right"][t.parent[m]] = m
                   THEN t.parent[m] ELSE m
    IN  IF t.kid["rb_right"][n] # NULL THEN Leftmost(t, t.kid["rb_right"][n])
        ELSE t.parent[Loop(Up, n)]
-----------------------------------------------------------------------------
(* What makes a tree a red-black tree. *)

Linked(t) == {n \in Node : n = t.root \/ t.parent[n] # NULL}
Above(t, n) ==
    LET up[i \in 0..Cardinality(Node)] ==
          IF i = 0 THEN {n} ELSE up[i - 1] \cup ({t.parent[m] : m \in up[i - 1]} \ {NULL})
    IN  up[Cardinality(Node)]

IsRedBlack(t) ==
    LET Blacks(n) == Cardinality(Above(t, n) \cap t.black)
        Ends      == {n \in Linked(t) : \E s \in Side : t.kid[s][n] = NULL}
    IN  /\ \A n \in Linked(t), s \in Side :
             t.kid[s][n] # NULL => t.parent[t.kid[s][n]] = n
        /\ \A n \in Linked(t) : \E s \in Side : n # t.root => t.kid[s][t.parent[n]] = n
        /\ \A n \in Linked(t) : t.root \in Above(t, n)
        /\ ~IsRed(t, t.root)
        /\ \A n \in Linked(t) : IsRed(t, n) => ~IsRed(t, t.parent[n])
        /\ \A m, n \in Ends : Blacks(m) = Blacks(n)
=============================================================================
