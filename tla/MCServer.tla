------------------------------ MODULE MCServer ------------------------------
(***************************************************************************)
(* An instance of Server for TLC: two configured schemas, made of a file   *)
(* each, one of which breaks and is repaired.  A client reloads, deletes   *)
(* and creates its schema again.                                           *)
(***************************************************************************)
EXTENDS Server, TLC

CONSTANTS kA, kB, c1, c2, l1, l2, p1

MCExtends == [k \in Keys |-> {k}]
MCLex == [f \in Files |-> IF f = "acme" THEN 1 ELSE 2]
MCPathsIn == [c \in Contents |-> {}]

FileOf(k) == IF k = kA THEN "acme" ELSE "base"
FromFile(k) == [op |-> "create", key |-> k, files |-> {FileOf(k)}]
MCConfigured == [p \in Loaders |-> FromFile(IF p = l1 THEN kA ELSE kB)]

MCRequests ==
    {FromFile(kA), FromFile(kB)} \union [op : {"reload", "delete"}, key : {kA}]
MCDisks == {d \in [Files -> {c1, c2, Bad}] : d["base"] = c1}

=============================================================================
