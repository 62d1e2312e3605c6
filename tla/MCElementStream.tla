--------------------------- MODULE MCElementStream ---------------------------
(***************************************************************************)
(* An instance of ElementStream for TLC: paths of up to three elements and *)
(* two modules that go down them to any depth, one of which has an entry   *)
(* that cannot be converted.                                               *)
(***************************************************************************)
EXTENDS ElementStream, TLC

CONSTANTS m1, m2

MCRank == m1 :> 1 @@ m2 :> 2
MCDefects == {<<m2, 2>>}

=============================================================================
