------------------------------- MODULE SmallCfgs -------------------------------
(****************************************************************************)
(* The graphs the model-checking runs start from.  Blocks are 1..n here and *)
(* block 1 is the entry.                                                    *)
(****************************************************************************)
EXTENDS Cfg, FiniteSetsExt

LOCAL Renamings(bs) ==
  {r \in [bs -> bs] : r[Entry] = Entry /\ \A a, b \in bs : r[a] = r[b] => a = b}

LOCAL Rename(g, r) ==
  LET bs == DOMAIN g IN [b \in bs |-> {r[c] : c \in g[CHOOSE a \in bs : r[a] = b]}]

LOCAL Weight(g) ==
  LET bs == DOMAIN g
  IN  MapThenSumSet(LAMBDA b : MapThenSumSet(LAMBDA c : 2^(c - 1), g[b])
                                * 2^(Cardinality(bs) * (b - 1)), bs)

(* One graph on the blocks bs of every class of branch graphs that differ   *)
(* by the names of their blocks only; no pass depends on those names.       *)
GraphsOn(bs) ==
  LET renamings == Renamings(bs)
  IN  {g \in BranchGraphs(bs) : \A r \in renamings : Weight(g) <= Weight(Rename(g, r))}

GraphsUpToRenaming == GraphsOn(Blocks)

(* Those in which the entry reaches every block. *)
ConnectedGraphs == {g \in GraphsUpToRenaming : Reachable(g) = Blocks}
================================================================================
