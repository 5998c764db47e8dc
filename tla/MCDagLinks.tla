----------------------------- MODULE MCDagLinks -----------------------------
(* Packages that import others and packages that do not, and the plugin.   *)
EXTENDS DagLinks
MCPackages == {"header", "uncles", "rct_trie", "state_trie", "storage_trie",
               "plugin"}
=============================================================================
