--------------------------- MODULE MCDrmMmApi ---------------------------
(* Small instances of DrmMmApi for TLC. *)
EXTENDS DrmMmApi

(* The whole range, as drm_mm_insert_node_generic has it, and a part.      *)
MCRanges == {<<0, U64Max>>, <<1, 4>>}

(* The nodes are interchangeable. *)
Nodes == Permutations(Node)
=============================================================================
