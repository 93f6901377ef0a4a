-------------------------------- MODULE RBTree --------------------------------
(***************************************************************************)
(* The red-black trees of libuv's uv/tree.h (its RB macros), which libuv     *)
(* keeps the handles of signals in.  An action is a call, or one turn of   *)
(* the loop that restores the colours after RB_INSERT or RB_REMOVE.  The   *)
(* two halves of those loops are mirror images and are one definition,     *)
(* with the side d as a parameter.  RB_AUGMENT does nothing.               *)
(***************************************************************************)
EXTENDS Integers, FiniteSets

CONSTANTS Elements, Key, NULL

Sides == {"left", "right"}
Other(d) == IF d = "left" THEN "right" ELSE "left"
Nodes == Elements \cup {NULL}

VARIABLES
  tree,    \* the root and the fields of the elements
  pc,      \* "idle", or which colours are being restored
  elm,     \* the element the loop is at,
  parent,  \* and, after RB_REMOVE, its parent
  ret      \* the last call, its argument and its result

vars == <<tree, pc, elm, parent, ret>>

Tree ==
  [root : Nodes, child : [Elements -> [Sides -> Nodes]],
   parent : [Elements -> Nodes], color : [Elements -> {"RB_BLACK", "RB_RED"}]]

TypeOK ==
  /\ tree \in Tree
  /\ pc \in {"idle", "RB_INSERT_COLOR", "RB_REMOVE_COLOR"}
  /\ elm \in Nodes /\ parent \in Nodes
  /\ ret \in [op : {"NONE", "INSERT", "REMOVE", "FIND", "NFIND", "NEXT", "PREV", "MIN", "MAX"},
              elm : Nodes, result : Nodes]

-----------------------------------------------------------------------------
(* Looking at a tree.                                                      *)

\* Where cmp leads from n in search of e.
Toward(e, n) == IF Key[e] < Key[n] THEN "left" ELSE "right"

\* The last node on the way to e from the root of a tree that is not empty.
Bottom(t, e) ==
  LET from[n \in Elements] ==
        LET next == t.child[n][Toward(e, n)]
        IN IF Key[n] = Key[e] \/ next = NULL THEN n ELSE from[next]
  IN from[t.root]

RB_FIND(t, e) ==
  IF t.root # NULL /\ Key[Bottom(t, e)] = Key[e] THEN Bottom(t, e) ELSE NULL

RB_NFIND(t, e) ==
  LET from[n \in Nodes, res \in Nodes] ==
        CASE n = NULL -> res
          [] n # NULL /\ Key[e] < Key[n] -> from[t.child[n]["left"], n]
          [] n # NULL /\ Key[e] > Key[n] -> from[t.child[n]["right"], res]
          [] OTHER -> n
  IN from[t.root, NULL]

\* As far as it goes to one side.
Extreme(t, start, d) ==
  LET from[n \in Elements] == IF t.child[n][d] = NULL THEN n ELSE from[t.child[n][d]]
  IN from[start]

RB_MINMAX(t, d) == IF t.root = NULL THEN NULL ELSE Extreme(t, t.root, d)

\* RB_NEXT for the right side, RB_PREV for the left.
RB_STEP(t, e, d) ==
  LET up[n \in Elements] ==
        LET p == t.parent[n]
        IN IF p # NULL /\ n = t.child[p][d] THEN up[p] ELSE p
  IN IF t.child[e][d] # NULL THEN Extreme(t, t.child[e][d], Other(d)) ELSE up[e]

-----------------------------------------------------------------------------
(* Changing a tree.                                                        *)

IsRed(t, n) == n # NULL /\ t.color[n] = "RB_RED"

Paint(t, n, c) == IF n = NULL THEN t ELSE [t EXCEPT !.color[n] = c]

RB_SET_BLACKRED(t, black, red) == Paint(Paint(t, black, "RB_BLACK"), red, "RB_RED")

SetParent(t, n, p) == IF n = NULL THEN t ELSE [t EXCEPT !.parent[n] = p]

SideOf(t, p, n) == IF t.child[p]["left"] = n THEN "left" ELSE "right"

\* The link to old from its parent p, or from the head, leads to new.
Relink(t, p, old, new) ==
  IF p = NULL THEN [t EXCEPT !.root = new] ELSE [t EXCEPT !.child[p][SideOf(t, p, old)] = new]

\* Mutant: the subtree that changes sides keeps its old parent.
Mutant_rotate_keeps_parent(t, x, d) ==
  LET tmp == t.child[x][Other(d)]
      up == t.parent[x]
      t1 == [t EXCEPT !.child[x][Other(d)] = t.child[tmp][d]]
      t2 == Relink(SetParent(t1, tmp, up), up, x, tmp)
  IN SetParent([t2 EXCEPT !.child[tmp][d] = x], x, tmp)

\* RB_ROTATE_LEFT and RB_ROTATE_RIGHT: x goes down on the side d.
RB_ROTATE(t, x, d) ==
  LET tmp == t.child[x][Other(d)]
      inner == t.child[tmp][d]
      up == t.parent[x]
      t1 == SetParent([t EXCEPT !.child[x][Other(d)] = inner], inner, x)
      t2 == Relink(SetParent(t1, tmp, up), up, x, tmp)
  IN SetParent([t2 EXCEPT !.child[tmp][d] = x], x, tmp)

\* RB_SET, and the link from p.
Link(t, e, p) ==
  LET set == [t EXCEPT !.parent[e] = p, !.color[e] = "RB_RED",
                       !.child[e] = [d \in Sides |-> NULL]]
  IN IF p = NULL THEN [set EXCEPT !.root = e] ELSE [set EXCEPT !.child[p][Toward(e, p)] = e]

\* The fields of an element outside the tree are not read: RB_SET comes first.
Forget(t, e) ==
  [t EXCEPT !.parent[e] = NULL, !.color[e] = "RB_BLACK",
            !.child[e] = [d \in Sides |-> NULL]]

\* RB_REMOVE of an element with at most one child.
Splice(t, e, child) ==
  LET p == t.parent[e]
  IN [tree |-> Forget(Relink(SetParent(t, child, p), p, e, child), e),
      elm |-> child, parent |-> p, color |-> t.color[e]]

\* Mutant: the place left empty is where the successor was, even if that was
\* a child of e.
Mutant_replace_parent(t, e) ==
  LET s == Extreme(t, t.child[e]["right"], "left")
      child == t.child[s]["right"]
      p == t.parent[s]
      t2 == Relink(SetParent(t, child, p), p, s, child)
      t3 == [t2 EXCEPT !.child[s] = t2.child[e], !.parent[s] = t2.parent[e],
                       !.color[s] = t2.color[e]]
      t4 == Relink(t3, t3.parent[e], e, s)
      t5 == SetParent(SetParent(t4, t4.child[e]["left"], s), t4.child[e]["right"], s)
  IN [tree |-> Forget(t5, e), elm |-> child, parent |-> t.parent[p],
      color |-> t.color[s]]

\* RB_REMOVE of an element with two: its successor s leaves its place and
\* takes the fields of e.
Replace(t, e) ==
  LET s == Extreme(t, t.child[e]["right"], "left")
      child == t.child[s]["right"]
      p == t.parent[s]
      t2 == Relink(SetParent(t, child, p), p, s, child)
      t3 == [t2 EXCEPT !.child[s] = t2.child[e], !.parent[s] = t2.parent[e],
                       !.color[s] = t2.color[e]]
      t4 == Relink(t3, t3.parent[e], e, s)
      t5 == SetParent(SetParent(t4, t4.child[e]["left"], s), t4.child[e]["right"], s)
  IN [tree |-> Forget(t5, e), elm |-> child, parent |-> IF p = e THEN s ELSE p,
      color |-> t.color[s]]

-----------------------------------------------------------------------------
(* Calls.                                                                  *)

Reply(op, e, result) == [op |-> op, elm |-> e, result |-> result]

Init ==
  /\ tree = [root |-> NULL, child |-> [e \in Elements |-> [d \in Sides |-> NULL]],
             parent |-> [e \in Elements |-> NULL],
             color |-> [e \in Elements |-> "RB_BLACK"]]
  /\ pc = "idle" /\ elm = NULL /\ parent = NULL
  /\ ret = Reply("NONE", NULL, NULL)

RB_INSERT(e) ==
  /\ pc = "idle"
  /\ LET found == RB_FIND(tree, e)
         p == IF tree.root = NULL THEN NULL ELSE Bottom(tree, e)
     IN /\ ret' = Reply("INSERT", e, found)
        /\ IF found # NULL
             THEN UNCHANGED <<tree, pc, elm>>
             ELSE /\ tree' = Link(tree, e, p)
                  /\ pc' = "RB_INSERT_COLOR" /\ elm' = e
  /\ UNCHANGED parent

\* Mutant: "continue" comes before the assignments of a red uncle.
Mutant_continue_too_early(p, g, d) ==
  LET tmp == tree.child[g][Other(d)]
  IN CASE IsRed(tree, tmp) -> UNCHANGED <<tree, elm>>
       [] ~ IsRed(tree, tmp) /\ tree.child[p][Other(d)] = elm ->
            tree' = RB_ROTATE(tree, p, d) /\ elm' = p
       [] OTHER ->
            /\ tree' = RB_ROTATE(RB_SET_BLACKRED(tree, p, g), g, Other(d))
            /\ UNCHANGED elm

\* The loop of RB_INSERT_COLOR, when the parent p of elm is on the side d of
\* its own parent g.  A turn that first rotates p is two steps: the loop would
\* come back to the same place after the first.
InsertTurn(p, g, d) ==
  LET tmp == tree.child[g][Other(d)]
  IN CASE IsRed(tree, tmp) ->
            /\ tree' = RB_SET_BLACKRED(Paint(tree, tmp, "RB_BLACK"), p, g)
            /\ elm' = g
       [] ~ IsRed(tree, tmp) /\ tree.child[p][Other(d)] = elm ->
            tree' = RB_ROTATE(tree, p, d) /\ elm' = p
       [] OTHER ->
            /\ tree' = RB_ROTATE(RB_SET_BLACKRED(tree, p, g), g, Other(d))
            /\ UNCHANGED elm

RB_INSERT_COLOR ==
  /\ pc = "RB_INSERT_COLOR"
  /\ LET p == tree.parent[elm]
         g == tree.parent[p]
     IN IF IsRed(tree, p)
          THEN InsertTurn(p, g, SideOf(tree, g, p)) /\ UNCHANGED pc
          ELSE /\ tree' = Paint(tree, tree.root, "RB_BLACK")
               /\ pc' = "idle" /\ elm' = NULL
  /\ UNCHANGED <<parent, ret>>

RB_REMOVE(e) ==
  /\ pc = "idle" /\ RB_FIND(tree, e) = e
  /\ LET child == tree.child[e]
         r == CASE child["left"] = NULL -> Splice(tree, e, child["right"])
                [] child["left"] # NULL /\ child["right"] = NULL ->
                     Splice(tree, e, child["left"])
                [] OTHER -> Replace(tree, e)
     IN /\ tree' = r.tree
        /\ IF r.color = "RB_BLACK"
             THEN pc' = "RB_REMOVE_COLOR" /\ elm' = r.elm /\ parent' = r.parent
             ELSE UNCHANGED <<pc, elm, parent>>
  /\ ret' = Reply("REMOVE", e, e)

\* The loop of RB_REMOVE_COLOR, when elm is on the side d of parent and one
\* black node is missing there.  Again each rotation is a step; the one that
\* ends in "break" is the last, with what follows the loop.
RemoveTurn(d) ==
  LET tmp == tree.child[parent][Other(d)]
      near == tree.child[tmp][d]
      far == tree.child[tmp][Other(d)]
      painted == [tree EXCEPT !.color[tmp] = tree.color[parent],
                              !.color[parent] = "RB_BLACK"]
      last == RB_ROTATE(Paint(painted, far, "RB_BLACK"), parent, d)
  IN CASE IsRed(tree, tmp) ->
            /\ tree' = RB_ROTATE(RB_SET_BLACKRED(tree, tmp, parent), parent, d)
            /\ UNCHANGED <<pc, elm, parent>>
       [] ~ IsRed(tree, tmp) /\ ~ IsRed(tree, near) /\ ~ IsRed(tree, far) ->
            /\ tree' = Paint(tree, tmp, "RB_RED")
            /\ elm' = parent /\ parent' = tree.parent[parent] /\ UNCHANGED pc
       [] ~ IsRed(tree, tmp) /\ IsRed(tree, near) /\ ~ IsRed(tree, far) ->
            /\ tree' = RB_ROTATE(RB_SET_BLACKRED(tree, near, tmp), tmp, Other(d))
            /\ UNCHANGED <<pc, elm, parent>>
       [] OTHER ->
            /\ tree' = Paint(last, last.root, "RB_BLACK")
            /\ pc' = "idle" /\ elm' = NULL /\ parent' = NULL

RB_REMOVE_COLOR ==
  /\ pc = "RB_REMOVE_COLOR"
  /\ IF ~ IsRed(tree, elm) /\ elm # tree.root
       THEN RemoveTurn(SideOf(tree, parent, elm))
       ELSE /\ tree' = Paint(tree, elm, "RB_BLACK")
            /\ pc' = "idle" /\ elm' = NULL /\ parent' = NULL
  /\ UNCHANGED ret

\* The calls that only look: RB_FIND and RB_NFIND of any element, RB_NEXT and
\* RB_PREV of one in the tree, RB_MIN and RB_MAX.
Query ==
  /\ pc = "idle"
  /\ \/ \E e \in Elements : ret' = Reply("FIND", e, RB_FIND(tree, e))
     \/ \E e \in Elements : ret' = Reply("NFIND", e, RB_NFIND(tree, e))
     \/ \E e \in Elements :
          /\ RB_FIND(tree, e) = e
          /\ \/ ret' = Reply("NEXT", e, RB_STEP(tree, e, "right"))
             \/ ret' = Reply("PREV", e, RB_STEP(tree, e, "left"))
     \/ ret' = Reply("MIN", NULL, RB_MINMAX(tree, "left"))
     \/ ret' = Reply("MAX", NULL, RB_MINMAX(tree, "right"))
  /\ UNCHANGED <<tree, pc, elm, parent>>

Restore == RB_INSERT_COLOR \/ RB_REMOVE_COLOR

Next == (\E e \in Elements : RB_INSERT(e) \/ RB_REMOVE(e)) \/ Query \/ Restore

Spec == Init /\ [][Next]_vars /\ WF_vars(Restore)

-----------------------------------------------------------------------------

\* The elements below n, n included.
Under(t, n) ==
  LET under[m \in Nodes] ==
        IF m = NULL THEN {} ELSE {m} \cup under[t.child[m]["left"]] \cup under[t.child[m]["right"]]
  IN under[n]

Elems == Under(tree, tree.root)

\* The links of the elements make a search tree at every moment, also within
\* the loops: left and right on the right sides of each key, and the link
\* to the parent the reverse of the one from it.
SearchTree ==
  /\ tree.root # NULL => tree.parent[tree.root] = NULL
  /\ \A n \in Elems :
       /\ \A x \in Under(tree, tree.child[n]["left"]) : Key[x] < Key[n]
       /\ \A x \in Under(tree, tree.child[n]["right"]) : Key[x] > Key[n]
       /\ \A d \in Sides :
            tree.child[n][d] # NULL => tree.parent[tree.child[n][d]] = n

\* Black nodes, and nodes, on the longest path down from n.
BlackHeight(start) ==
  LET black[n \in Nodes] ==
        IF n = NULL THEN 0
        ELSE LET l == black[tree.child[n]["left"]]
                 r == black[tree.child[n]["right"]]
             IN (IF l > r THEN l ELSE r) + (IF IsRed(tree, n) THEN 0 ELSE 1)
  IN black[start]

Height(start) ==
  LET height[n \in Nodes] ==
        IF n = NULL THEN 0
        ELSE LET l == height[tree.child[n]["left"]]
                 r == height[tree.child[n]["right"]]
             IN (IF l > r THEN l ELSE r) + 1
  IN height[start]

BlackBalanced(n) ==
  BlackHeight(tree.child[n]["left"]) = BlackHeight(tree.child[n]["right"])

\* Elements that are red below a red one.
RedBelowRed == {n \in Elems : IsRed(tree, n) /\ IsRed(tree, tree.parent[n])}

\* Between calls the conditions at the head of uv/tree.h hold: the same number
\* of black nodes on every path, a black parent for every red node, and a
\* height of at most 2 lg (n + 1).
RedBlack ==
  pc = "idle" =>
    /\ \A n \in Elems : BlackBalanced(n)
    /\ RedBelowRed = {} /\ ~ IsRed(tree, tree.root)
    /\ LET n == Cardinality(Elems) IN 2 ^ Height(tree.root) <= (n + 1) * (n + 1)

\* Within the loops one thing is wrong at most, at elm: in RB_INSERT_COLOR it is
\* red below a red parent, in RB_REMOVE_COLOR its side of parent lacks one
\* black node, and if it is red next to red it is about to be painted.
OneFlaw ==
  /\ pc = "RB_INSERT_COLOR" =>
       /\ \A n \in Elems : BlackBalanced(n)
       /\ RedBelowRed \subseteq {elm} /\ IsRed(tree, elm)
       /\ RedBelowRed # {} => ~ IsRed(tree, tree.root)
  /\ pc = "RB_REMOVE_COLOR" =>
       /\ \A n \in Elems \ {parent} : BlackBalanced(n)
       /\ \A n \in RedBelowRed : elm \in {n, tree.parent[n]}
       /\ IF parent = NULL THEN elm = tree.root
          ELSE \E d \in Sides :
                 /\ tree.child[parent][d] = elm
                 /\ BlackHeight(tree.child[parent][Other(d)]) = BlackHeight(elm) + 1

\* The tree is a set with the results that the calls promise; restoring the
\* colours is not seen.
Set == INSTANCE OrderedSet WITH elems <- Elems
ImplementsSet == Set!Spec

\* Every call returns: elm climbs, or the loop ends.
Returns == (pc # "idle") ~> (pc = "idle")
=============================================================================
