--------------------------- MODULE MCPersistStore ---------------------------
(***************************************************************************)
(* Instances of PersistStore for TLC.  "srl" is stored in two versions,    *)
(* 23.3 and 23.3.2, the key of the first a prefix of the second's; k0 has  *)
(* no vendor.                                                              *)
(***************************************************************************)
EXTENDS PersistStore, TLC

CONSTANTS k233, k2332, k0, c1, c2, p1, p2


MCExtends == [k \in Keys |-> IF k = k233 THEN {k233, k2332} \intersect Keys ELSE {k}]

(* "acme" precedes "ietf" in both orders; "zed" precedes "ietf" only       *)
(* because the latter is deprioritized.                                    *)
MCLex == [f \in Files |-> CASE f = "acme" -> 1 [] f = "ietf" -> 2 [] f = "zed" -> 3]

(* A module of content c1 has an element "a", one of content c2 has none. *)
MCPathsIn == [c \in Contents |-> IF c = c1 THEN {<<"a">>} ELSE {}]

Create(K, S) == [op : {"create"}, key : K, files : S]
Reload(K) == [op : {"reload"}, key : K]
Delete(K) == [op : {"delete"}, key : K]
Get(K, M, P, D) == [op : {"get"}, key : K, mod : M, path : P, desc : D]

ProcSymmetry == Permutations(Procs)

(* Writers: every change of a schema, with one file that is edited and     *)
(* breaks.                                                                 *)
WriterRequests == Create(Keys, {{"acme"}}) \union Reload(Keys) \union Delete(Keys)
WriterDisks == [{"acme"} -> {c1, c2, Bad}]

(* Readers: lookups through the cache, with and without module prefix,     *)
(* while the schema is created from a directory, reloaded and deleted.     *)
ReaderRequests ==
    Create({k233}, {Dir}) \union Reload({k233}) \union Delete({k233})
        \union Get({k233}, {NoModule}, {<<>>, <<"a">>}, {FALSE})
        \union Get({k233}, {"zed"}, {<<"zed", "a">>}, {FALSE, TRUE})
ReaderDisks ==
    {[f \in {"ietf", "zed"} |-> c1], "ietf" :> c1 @@ "zed" :> Absent}

(* The instances of the disagreements between code and documentation. *)
PrefixRequests == Create(Keys, {{"acme"}}) \union Delete({k233})
StaleRequests == Create({k233}, {Dir}) \union Reload({k233})
                     \union Get({k233}, {NoModule}, {<<"acme">>}, {TRUE})
GoodDisks == [{"acme"} -> Contents]

=============================================================================
