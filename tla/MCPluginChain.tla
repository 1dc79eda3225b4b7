--------------------------- MODULE MCPluginChain ---------------------------
EXTENDS PluginChain

(* Plugins are only compared.                                              *)
Symmetry == Permutations(Plugin)
=============================================================================
