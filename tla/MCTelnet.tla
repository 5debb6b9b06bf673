------------------------------ MODULE MCTelnet ------------------------------
(***************************************************************************)
(* Two connections and two names; buffers of four bytes and packets of one *)
(* or two, so that a line takes several packets, fills the buffer or ends  *)
(* in its last byte.  Two letters tell the order of what is typed.         *)
(***************************************************************************)
EXTENDS Telnet, TLC

Symmetry ==
  Permutations(Conns) \union Permutations(Blocks) \union Permutations(Letters)
=============================================================================
