------------------------------ MODULE SplayTree ------------------------------
(***************************************************************************)
(* The splay trees of libuv's uv/tree.h (its SPLAY macros).  Every call    *)
(* splays: it takes the tree apart on the way to the element asked for and *)
(* reassembles it with that element, or one next to it, at the root.  An   *)
(* action is the start of a call, one turn of the loop of name_SPLAY or    *)
(* name_SPLAY_MINMAX, or what the call does after the loop.                *)
(***************************************************************************)
EXTENDS Integers, FiniteSets

CONSTANTS
  Elements, Key, NULL,
  node  \* __node: its right and left hold the parts taken off the tree

Sides == {"left", "right"}
Other(d) == IF d = "left" THEN "right" ELSE "left"
Places == Elements \cup {node}
Nodes == Places \cup {NULL}

VARIABLES
  root,   \* head->sph_root
  child,  \* spe_left and spe_right
  call,   \* the call being executed and its argument
  ends,   \* __left and __right: where the next part is hung, by the side
          \* of the tree it comes from
  tmp,    \* __tmp of SPLAY_REMOVE: the right part, put aside
  ret     \* the last call, its argument and its result

vars == <<root, child, call, ends, tmp, ret>>

Calls ==
  [op : {"INSERT", "REMOVE", "REMOVE2", "FIND", "NEXT"}, elm : Elements]
    \cup [op : {"MIN", "MAX"}, elm : {NULL}]

Idle == [op |-> "idle", elm |-> NULL]

TypeOK ==
  /\ root \in Elements \cup {NULL} /\ (root = NULL => call = Idle)
  /\ child \in [Places -> [Sides -> Elements \cup {NULL}]]
  /\ call \in Calls \cup {Idle}
  /\ ends \in [Sides -> Places]
  /\ tmp \in Elements \cup {NULL}
  /\ ret \in [op : {"NONE", "INSERT", "REMOVE", "FIND", "NEXT", "MIN", "MAX"},
              elm : Elements \cup {NULL}, result : Elements \cup {NULL}]

Bare == [d \in Sides |-> NULL]

Reply(op, e, result) == [op |-> op, elm |-> e, result |-> result]

Init ==
  /\ root = NULL /\ child = [n \in Places |-> Bare]
  /\ call = Idle /\ ends = [d \in Sides |-> node]
  /\ tmp = NULL /\ ret = Reply("NONE", NULL, NULL)

\* The fields of elements outside the tree are not read.
Forget(links, e) == [links EXCEPT ![e] = Bare]

-----------------------------------------------------------------------------
(* Calls.                                                                  *)

\* name_SPLAY and name_SPLAY_MINMAX begin with an empty __node.
Begin(op, e) ==
  /\ call' = [op |-> op, elm |-> e]
  /\ child' = [child EXCEPT ![node] = Bare]
  /\ ends' = [d \in Sides |-> node]

Return(r) == call' = Idle /\ ret' = Reply(call.op, call.elm, r)

\* On an empty tree no call splays.
CallEmpty(op, e) ==
  /\ call = Idle /\ root = NULL /\ op \notin {"REMOVE2", "NEXT"}
  /\ IF op = "INSERT" THEN root' = e /\ child' = [child EXCEPT ![e] = Bare]
                      ELSE UNCHANGED <<root, child>>
  /\ ret' = Reply(op, e, NULL)
  /\ UNCHANGED <<call, ends, tmp>>

\* The nodes reached from n by these links, and in the tree as it is.
Reached(links, n) ==
  LET under[m \in Nodes] ==
        IF m = NULL THEN {} ELSE {m} \cup under[links[m]["left"]] \cup under[links[m]["right"]]
  IN under[n]

Under(n) == Reached(child, n)

\* SPLAY_NEXT is for an element of the tree.
Call(op, e) ==
  /\ call = Idle /\ root # NULL
  /\ op # "REMOVE2" /\ (op = "NEXT" => e \in Under(root))
  /\ Begin(op, e)
  /\ UNCHANGED <<root, tmp, ret>>

\* (cmp)(elm, n), or the constant of SPLAY_MIN and SPLAY_MAX.
Cmp(n) ==
  CASE call.op = "MIN" -> -1
    [] call.op = "MAX" -> 1
    [] OTHER -> Key[call.elm] - Key[n]

-----------------------------------------------------------------------------
(* The loop.                                                               *)

Toward == IF Cmp(root) < 0 THEN "left" ELSE "right"

\* SPLAY_ROTATE_RIGHT when d is left, SPLAY_ROTATE_LEFT when it is right: the
\* links after it.  The root is then the child on that side.
SPLAY_ROTATE(d) ==
  LET t == child[root][d]
  IN [child EXCEPT ![root][d] = child[t][Other(d)], ![t][Other(d)] = root]

\* Mutant: the part is hung on the end of the other one.
Mutant_link_other_end(links, r, d) ==
  /\ child' = [links EXCEPT ![ends[Other(d)]][Other(d)] = r]
  /\ ends' = [ends EXCEPT ![Other(d)] = r]
  /\ root' = links[r][d]

\* SPLAY_LINKLEFT when d is left, SPLAY_LINKRIGHT when it is right, at the
\* root r of a tree with these links.
SPLAY_LINK(links, r, d) ==
  /\ child' = [links EXCEPT ![ends[d]][d] = r]
  /\ ends' = [ends EXCEPT ![d] = r]
  /\ root' = links[r][d]

\* elm lies beyond n on the side d.
Beyond(n, d) == IF d = "left" THEN Cmp(n) < 0 ELSE Cmp(n) > 0

Over == Cmp(root) = 0 \/ child[root][Toward] = NULL

\* A turn of the loop that only links.
Zig ==
  /\ call # Idle /\ ~ Over /\ ~ Beyond(child[root][Toward], Toward)
  /\ SPLAY_LINK(child, root, Toward)
  /\ UNCHANGED <<call, tmp, ret>>

\* A turn that rotates first, and links unless that leads nowhere: "break".
ZigZig ==
  /\ call # Idle /\ ~ Over /\ Beyond(child[root][Toward], Toward)
  /\ LET links == SPLAY_ROTATE(Toward)
         t == child[root][Toward]
     IN IF links[t][Toward] = NULL
          THEN root' = t /\ child' = links /\ UNCHANGED ends
          ELSE SPLAY_LINK(links, t, Toward)
  /\ UNCHANGED <<call, tmp, ret>>

\* The links after the loop; __node is no more.
SPLAY_ASSEMBLE ==
  LET hung == [child EXCEPT ![ends["right"]]["right"] = child[root]["left"],
                            ![ends["left"]]["left"] = child[root]["right"]]
  IN [hung EXCEPT ![root] = [left |-> hung[node]["right"], right |-> hung[node]["left"]],
                  ![node] = Bare]

-----------------------------------------------------------------------------
(* After the loop.                                                         *)

Found == Cmp(root) = 0

Splayed(op) == call.op = op /\ Over

SPLAY_INSERT ==
  /\ Splayed("INSERT")
  /\ LET e == call.elm
         d == Toward
         links == SPLAY_ASSEMBLE
     IN IF Found
          THEN child' = links /\ UNCHANGED root /\ Return(root)
          ELSE /\ child' = [links EXCEPT ![e][d] = links[root][d], ![e][Other(d)] = root,
                                         ![root][d] = NULL]
               /\ root' = e /\ Return(NULL)
  /\ UNCHANGED <<ends, tmp>>

\* The root goes; if it had a left part that is splayed for a new root, which
\* has nothing on its right.
SPLAY_REMOVE ==
  /\ Splayed("REMOVE")
  /\ LET links == SPLAY_ASSEMBLE
     IN CASE ~ Found ->
               child' = links /\ Return(NULL) /\ UNCHANGED <<root, tmp, ends>>
          [] Found /\ links[root]["left"] = NULL ->
               /\ root' = links[root]["right"] /\ child' = Forget(links, root)
               /\ Return(call.elm) /\ UNCHANGED <<tmp, ends>>
          [] OTHER ->
               /\ tmp' = links[root]["right"] /\ root' = links[root]["left"]
               /\ child' = Forget(links, root)
               /\ call' = [op |-> "REMOVE2", elm |-> call.elm]
               /\ ends' = [d \in Sides |-> node]
               /\ ret' = Reply("REMOVE", call.elm, call.elm)

\* Mutant: the part put aside is forgotten.
Mutant_rejoin_forgets ==
  /\ Splayed("REMOVE2")
  /\ child' = SPLAY_ASSEMBLE /\ tmp' = NULL /\ call' = Idle
  /\ UNCHANGED <<root, ends, ret>>

Rejoin ==
  /\ Splayed("REMOVE2")
  /\ child' = [SPLAY_ASSEMBLE EXCEPT ![root]["right"] = tmp]
  /\ tmp' = NULL /\ call' = Idle
  /\ UNCHANGED <<root, ends, ret>>

SPLAY_FIND ==
  /\ Splayed("FIND")
  /\ child' = SPLAY_ASSEMBLE /\ Return(IF Found THEN root ELSE NULL)
  /\ UNCHANGED <<root, tmp, ends>>

SPLAY_NEXT ==
  /\ Splayed("NEXT")
  /\ LET links == SPLAY_ASSEMBLE
         least[n \in Elements] == IF links[n]["left"] = NULL THEN n ELSE least[links[n]["left"]]
         right == links[call.elm]["right"]
     IN child' = links /\ Return(IF right = NULL THEN NULL ELSE least[right])
  /\ UNCHANGED <<root, tmp, ends>>

SPLAY_MIN_MAX ==
  /\ call.op \in {"MIN", "MAX"} /\ Over
  /\ child' = SPLAY_ASSEMBLE /\ Return(root)
  /\ UNCHANGED <<root, tmp, ends>>

Turn == Zig \/ ZigZig
Finish ==
  SPLAY_INSERT \/ SPLAY_REMOVE \/ Rejoin \/ SPLAY_FIND \/ SPLAY_NEXT \/ SPLAY_MIN_MAX

\* The call goes on.
Continue == call # Idle /\ (Turn \/ Finish)

Next ==
  \/ \E c \in Calls : Call(c.op, c.elm) \/ CallEmpty(c.op, c.elm)
  \/ Continue

Spec == Init /\ [][Next]_vars /\ WF_vars(Continue)

-----------------------------------------------------------------------------

\* Between calls the links make a search tree.
SearchTree ==
  call = Idle =>
    \A n \in Under(root) :
      /\ \A x \in Under(child[n]["left"]) : Key[x] < Key[n]
      /\ \A x \in Under(child[n]["right"]) : Key[x] > Key[n]

\* Within the loop the elements hung on the left part are before the one asked
\* for and before what is left of the tree, those on the right part after.
\* (The open ends of the parts still have their old links.)
PartsApart ==
  call # Idle =>
    LET cut == [child EXCEPT ![ends["left"]]["left"] = NULL,
                             ![ends["right"]]["right"] = NULL]
        Left == Reached(cut, cut[node]["right"])
        Right == Reached(cut, cut[node]["left"])
    IN /\ \A x \in Left : Cmp(x) > 0 /\ \A y \in Under(root) : Key[x] < Key[y]
       /\ \A x \in Right : Cmp(x) < 0 /\ \A y \in Under(root) : Key[x] > Key[y]

\* The tree is a set with the results that the calls promise; while it is in
\* pieces no element is lost.
Elems == (Under(root) \cup Under(node) \cup Under(tmp)) \ {node}
Set == INSTANCE OrderedSet WITH elems <- Elems
ImplementsSet == Set!Spec

\* Every call returns.
Returns == (call # Idle) ~> (call = Idle)
=============================================================================
