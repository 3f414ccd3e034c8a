------------------------------ MODULE MCScopes ------------------------------
(* Scopes driven by any legal sequence of calls, over a few names and      *)
(* nodes and at most MaxBlocks blocks.                                     *)
EXTENDS Scopes

CONSTANT MaxBlocks   \* bound: blocks entered in a behaviour

MCNext == ScopesNext /\ next_block' <= MaxBlocks + 1

MCSpec == ScopesInit /\ [][MCNext]_scopeVars
=============================================================================
