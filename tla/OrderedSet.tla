------------------------------ MODULE OrderedSet ------------------------------
(***************************************************************************)
(* What the trees of libuv's uv/tree.h promise: a set of elements no two   *)
(* of which have the same key, and the element that a call returned last.  *)
(***************************************************************************)
EXTENDS Integers

CONSTANTS
  Elements,
  Key,   \* [Elements -> Int], what cmp compares
  NULL

VARIABLES
  elems,  \* the elements in the tree
  ret     \* the last call, its argument and its result

vars == <<elems, ret>>

Reply(op, e, result) == [op |-> op, elm |-> e, result |-> result]

\* The first of a set of elements, and the last one.
First(S) == IF S = {} THEN NULL ELSE CHOOSE x \in S : \A y \in S : Key[x] <= Key[y]
Final(S) == IF S = {} THEN NULL ELSE CHOOSE x \in S : \A y \in S : Key[y] <= Key[x]

Same(e) == {x \in elems : Key[x] = Key[e]}

Init == elems = {} /\ ret = Reply("NONE", NULL, NULL)

\* An element with the same key is returned instead.
Insert(e) ==
  /\ elems' = IF Same(e) = {} THEN elems \cup {e} ELSE elems
  /\ ret' = Reply("INSERT", e, First(Same(e)))

Remove(e) ==
  /\ elems' = elems \ Same(e)
  /\ ret' = Reply("REMOVE", e, IF Same(e) = {} THEN NULL ELSE e)

Answer(op, e, result) == ret' = Reply(op, e, result) /\ UNCHANGED elems

Find(e) == Answer("FIND", e, First(Same(e)))

\* The first element that is not before e.
Nfind(e) == Answer("NFIND", e, First({x \in elems : Key[x] >= Key[e]}))

\* The neighbours of an element in the tree.
Successor(e) == e \in elems /\ Answer("NEXT", e, First({x \in elems : Key[x] > Key[e]}))
Predecessor(e) == e \in elems /\ Answer("PREV", e, Final({x \in elems : Key[x] < Key[e]}))

Minimum == Answer("MIN", NULL, First(elems))
Maximum == Answer("MAX", NULL, Final(elems))

Next ==
  \/ \E e \in Elements : Insert(e) \/ Remove(e) \/ Find(e) \/ Nfind(e)
  \/ \E e \in Elements : Successor(e) \/ Predecessor(e)
  \/ Minimum \/ Maximum

Spec == Init /\ [][Next]_vars
=============================================================================
