-------------------------------- MODULE Trees --------------------------------
(***************************************************************************)
(* The two trees of libuv's uv/tree.h, side by side: RB_GENERATE and        *)
(* SPLAY_GENERATE make functions that share nothing, so that one tree is   *)
(* used and the other stays empty.                                         *)
(***************************************************************************)
EXTENDS Integers

CONSTANTS
  RBElements, SplayElements,
  RBKey, SplayKey,  \* what cmp compares
  NULL,
  node              \* __node of name_SPLAY

ASSUME KeyAssumption ==
  /\ RBKey \in [RBElements -> Int] /\ SplayKey \in [SplayElements -> Int]
  /\ NULL \notin RBElements \cup SplayElements
  /\ node \notin SplayElements \cup {NULL}

VARIABLES
  kind,                          \* the tree that is used
  tree, pc, elm, parent, rbRet,  \* of the red-black tree
  root, child, call, ends, tmp, splayRet

RB == INSTANCE RBTree WITH Elements <- RBElements, Key <- RBKey, ret <- rbRet

Splay ==
  INSTANCE SplayTree WITH Elements <- SplayElements, Key <- SplayKey, ret <- splayRet

rbVars == <<tree, pc, elm, parent, rbRet>>
splayVars == <<root, child, call, ends, tmp, splayRet>>
vars == <<kind, rbVars, splayVars>>

Init == kind \in {"RB", "SPLAY"} /\ RB!Init /\ Splay!Init

Next ==
  \/ kind = "RB" /\ RB!Next /\ UNCHANGED <<kind, splayVars>>
  \/ kind = "SPLAY" /\ Splay!Next /\ UNCHANGED <<kind, rbVars>>

\* A loop goes on until the call returns.
Spec ==
  /\ Init /\ [][Next]_vars
  /\ WF_vars(RB!Restore /\ UNCHANGED <<kind, splayVars>>)
  /\ WF_vars(Splay!Continue /\ UNCHANGED <<kind, rbVars>>)

-----------------------------------------------------------------------------

TypeOK == RB!TypeOK /\ Splay!TypeOK

\* The fields have their types, and the links of the elements make a search
\* tree, of a red-black tree also within the loops, of a splay tree between
\* calls.
SearchTree == TypeOK /\ RB!SearchTree /\ Splay!SearchTree

\* Between calls the conditions at the head of uv/tree.h hold, and within the
\* loops that restore the colours one thing is wrong at most.
Colours == RB!RedBlack /\ RB!OneFlaw

\* Within the loop of name_SPLAY the parts taken off the tree lie on the two
\* sides of what is left of it and of the element asked for.
PartsApart == Splay!PartsApart

\* Both trees are sets with the results that the calls promise, whatever the
\* loops do on the way.
ImplementsSet == RB!ImplementsSet /\ Splay!ImplementsSet

\* Every call returns.
Returns == RB!Returns /\ Splay!Returns
=============================================================================
