--------------------------- MODULE MCUploadServer ---------------------------
(***************************************************************************)
(* Two uploads by clients that send any message at any time.  The schemas  *)
(* k1 and k2 have directories of their own, d and e, and k0 has no vendor. *)
(* The name "s" leads to the module in e from everywhere ("../e/a.yang"),  *)
(* "n" to a file there that is not named *.yang.                           *)
(***************************************************************************)
EXTENDS UploadServer, TLC

CONSTANTS k0, k1, k2, d, e, x, u1, u2

MCDirOf == [k \in Keys |-> IF k = k2 THEN e ELSE d]

MCJoin ==
    d :> ("a" :> "d/a.yang" @@ "s" :> "e/a.yang" @@ "n" :> "e/n")
        @@ e :> ("a" :> "e/a.yang" @@ "s" :> "e/a.yang" @@ "n" :> "e/n")
MCIn == [f \in Files |-> IF f = "d/a.yang" THEN d ELSE e]

File(F, T, C, H) == [kind : {"file"}, name : F, ft : T, contents : C, hash : H]

Hash(method, c) == [method |-> method, sum |-> Digest("md5", c)]

MCMessages ==
    [kind : {"create"}, key : Keys]
        \union [kind : {"final"}]
        \union File({"a"}, {"MODULE"}, {x}, {None})
        \union File({"a"}, {"MODULE"}, {None}, {Hash("md5", <<x>>)})
        \union File({"a"}, {"DEPENDENCY"}, {x}, {Hash("md5", <<x, x>>)})
        \union File({"a"}, {"MODULE"}, {None}, {Hash("unspecified", <<x>>), Hash("unknown", <<x>>)})
        \union File({"s"}, {"MODULE"}, {x}, {Hash("md5", <<x>>)})
        \union File({"n"}, {"MODULE"}, {None}, {Hash("md5", <<>>)})
        \union File({NoName}, {"MODULE"}, {x}, {None})

UploadSymmetry == Permutations(Uploads)
=============================================================================
