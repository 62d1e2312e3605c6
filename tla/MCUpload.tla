------------------------------ MODULE MCUpload ------------------------------
(***************************************************************************)
(* Uploads by the client command.  The file "c" cannot be read, and "b" is *)
(* another name for "a" ("./a.yang").                                      *)
(***************************************************************************)
EXTENDS Upload

CONSTANTS k1, d, x, y, u1, u2

MCDirOf == [k \in Keys |-> d]
MCKeyOf == [u \in Uploads |-> k1]

Arg(t, s) == [ft |-> t, files |-> s]

MCJoin == [dd \in Dirs |-> [n \in Names |-> IF n = "c" THEN "d/c.yang" ELSE "d/a.yang"]]
MCIn == [f \in Files |-> d]

MCLocal ==
    [u \in Uploads |-> [n \in Names |->
        CASE n # "c" -> IF u = u1 THEN <<x, y>> ELSE <<>>
          [] n = "c" -> Unreadable]]

(* One client sends a module in two chunks.  The other sends an empty one, *)
(* and fails on both of its arguments.                                     *)
TwoClients ==
    [u \in Uploads |->
        IF u = u1 THEN <<Arg("MODULE", <<"a">>)>>
        ELSE <<Arg("MODULE", <<"a", "c">>), Arg("DEPENDENCY", <<"b", "c">>)>>]

(* Three arguments that cannot be read. *)
ThreeBadArgs ==
    [u \in Uploads |-> <<Arg("MODULE", <<"c">>), Arg("MODULE", <<"c">>), Arg("MODULE", <<"c">>)>>]

Md5 == [u \in Uploads |-> "md5"]
Sha256 == [u \in Uploads |-> "sha256"]

(* The client sends what its arguments say. *)
MCMessages == {}
=============================================================================
