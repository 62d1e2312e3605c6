---------------------------- MODULE MCSchemaTree ----------------------------
(***************************************************************************)
(* An instance of SchemaTree for TLC: two modules, each with one of a      *)
(* family of bodies that between them have every kind of node, keys out of *)
(* order, choices at the top, in lists and in choices, notifications at    *)
(* the top and in a container, leafrefs, in notifications and out of the   *)
(* schema too, and nodes that share their name with their parent or with a *)
(* module.                                                                 *)
(***************************************************************************)
EXTENDS SchemaTree, TLC

Node(kind) == [kind |-> kind, keys |-> <<>>, state |-> FALSE, ref |-> None]
Leaf == Node("leaf")
Container == Node("container")
Notification == Node("notification")
List(keys) == [Node("list") EXCEPT !.keys = keys]
Ref(up, down) == [Leaf EXCEPT !.ref = [up |-> up, down |-> down]]
State == [Leaf EXCEPT !.state = TRUE]

Choice(n, c) == (n \o <<c>> :> Node("choice")) @@ (n \o <<c, "c1">> :> Node("case"))

Bodies ==
    { <<>>,
      (<<"a">> :> Container) @@ (<<"a", "x">> :> Leaf) @@ (<<"a", "w">> :> Node("leaflist")),
      (<<"a">> :> Container) @@ Choice(<<"a">>, "c")
          @@ (<<"a", "c", "c1", "x">> :> Leaf)
          @@ (<<"a", "c", "c1", "y">> :> Container)
          @@ (<<"a", "c", "c1", "y", "z">> :> State)
          @@ (<<"a", "c", "c1", "r">> :> Ref(1, <<"x">>))
          @@ (<<"a", "c", "c2">> :> Node("case"))
          @@ (<<"a", "c", "c2", "w">> :> Node("leaflist")),
      (<<"a">> :> List(<<"j", "k">>)) @@ (<<"a", "j">> :> Leaf) @@ (<<"a", "k">> :> Leaf)
          @@ (<<"a", "l">> :> List(<<"k">>)) @@ (<<"a", "l", "k">> :> Leaf)
          @@ Choice(<<"a", "l">>, "c") @@ (<<"a", "l", "c", "c1", "x">> :> Ref(2, <<"j">>)),
      (<<"m">> :> List(<<"k", "j">>)) @@ (<<"m", "j">> :> Leaf) @@ (<<"m", "k">> :> Leaf)
          @@ Choice(<<"m">>, "c") @@ (<<"m", "c", "c1", "x">> :> State)
          @@ (<<"m", "c", "c1", "y">> :> Container) @@ (<<"m", "c", "c1", "y", "z">> :> Ref(2, <<"k">>)),
      Choice(<<>>, "c") @@ (<<"c", "c1", "b">> :> Container) @@ (<<"c", "c1", "b", "x">> :> Leaf)
          @@ (<<"c", "c1", "b", "r">> :> Ref(1, <<"x">>)),
      (<<"a">> :> Container) @@ (<<"a", "a">> :> Container) @@ (<<"a", "a", "x">> :> Leaf)
          @@ (<<"a", "a", "r">> :> Ref(1, <<"x">>)) @@ (<<"a", "x">> :> Leaf),
      (<<"b">> :> Container) @@ Choice(<<"b">>, "c") @@ Choice(<<"b", "c", "c1">>, "d")
          @@ (<<"b", "c", "c1", "d", "c1", "x">> :> Leaf)
          @@ (<<"b", "c", "c1", "d", "c1", "r">> :> Ref(1, <<"x">>)),
      (<<"b">> :> Container) @@ Choice(<<"b">>, "b") @@ (<<"b", "b", "c1", "x">> :> Leaf),
      (<<"b">> :> Container) @@ Choice(<<"b">>, "x") @@ (<<"b", "x", "c1", "x">> :> Leaf),
      (<<"b">> :> Container) @@ (<<"b", "l">> :> List(<<"k">>)) @@ (<<"b", "l", "k">> :> Leaf)
          @@ Choice(<<"b", "l">>, "c") @@ (<<"b", "l", "c", "c1", "y">> :> Container)
          @@ (<<"b", "l", "c", "c1", "y", "z">> :> Leaf),
      Choice(<<>>, "b") @@ (<<"b", "c1", "b">> :> Leaf) @@ (<<"r">> :> Ref(1, <<"b">>)),
      Choice(<<>>, "c") @@ (<<"c", "c1", "m">> :> Leaf),
      (<<"a">> :> Leaf) @@ (<<"r">> :> Ref(1, <<"a">>)),
      (<<"r">> :> Ref(1, <<"z">>)),
      (<<"r">> :> Ref(2, <<"a">>)),
      (<<"r">> :> Ref(3, <<"a">>)),
      (<<"a">> :> Notification) @@ (<<"a", "x">> :> Leaf) @@ (<<"a", "y">> :> Container)
          @@ (<<"a", "y", "z">> :> Leaf) @@ Choice(<<"a">>, "c") @@ (<<"a", "c", "c1", "w">> :> State),
      (<<"b">> :> Container) @@ (<<"b", "x">> :> Leaf) @@ (<<"b", "y">> :> Notification)
          @@ (<<"b", "y", "z">> :> Leaf) @@ (<<"b", "y", "r">> :> Ref(2, <<"x">>)),
      (<<"a">> :> Notification) @@ (<<"a", "x">> :> Leaf) @@ (<<"a", "r">> :> Ref(1, <<"x">>)) }

Tree(body) ==
    LET below == UNION {{<<m>> \o n : n \in DOMAIN body[m]} : m \in Modules}
    IN  [n \in {<<m>> : m \in Modules} \union below |->
            IF Len(n) = 1 THEN Node("module") ELSE body[n[1]][Tail(n)]]

MCIdents == {"a", "b", "c", "c1", "c2", "d", "j", "k", "l", "m", "r", "w", "x", "y", "z", Bogus}
MCTrees == {Tree(body) : body \in [Modules -> Bodies]}
MCPrefix == [m \in Modules |-> IF m = "a" THEN "a" ELSE "p"]
MCRank == [s \in {"a", "m", "j", "k"} |-> CASE s = "m" -> 1 [] s = "a" -> 2 [] s = "j" -> 3 [] s = "k" -> 4]
MCValue == [k \in {"j", "k"} |-> IF k = "j" THEN "vj" ELSE "vk"]

=============================================================================
