----------------------------- MODULE MCMemStore -----------------------------
(***************************************************************************)
(* An instance of MemStore for TLC: a schema made from two files or from   *)
(* their directory, one of which breaks and the other disappears, and a    *)
(* key without vendor.                                                     *)
(***************************************************************************)
EXTENDS MemStore, TLC

CONSTANTS k, k0, c1, g1, g2, g3, p1, p2

MCRequests ==
    [op : {"create"}, key : Keys, files : {{"a", "b"}}]
        \union [op : {"add"}, key : {k}, files : {Dir}]
        \union [op : {"reload", "delete", "path"}, key : {k}]
        \union [op : {"get"}, key : {k}]

MCDisks ==
    {"a" :> x @@ "b" :> y : x \in {c1, Bad}, y \in {c1, Absent}}

(* The file lists of configurations nothing points to are never read. *)
MCView ==
    <<disk, [c \in Configs |-> IF Fresh(c) THEN {} ELSE files[c]],
      schemas, pc, req, rsp, cfg, sc, lone>>

MCSymmetry == Permutations(Procs) \union Permutations(Configs)

=============================================================================
