------------------------------ MODULE MCFileIo -------------------------------
(***************************************************************************)
(* Instances of FileIo for TLC: four clusters in every order next to each  *)
(* other, and in order with a gap, as one file; as two, next to each other *)
(* or not, forwards and backwards; and three of them as three.             *)
(***************************************************************************)
EXTENDS FileIo

Layouts == {f \in [1..4 -> 2..5] : IsInjective(f)}
             \cup {<<2, 3, 5, 6>>, <<2, 4, 5, 6>>, <<2, 3, 4, 6>>}

OneFile == {<<f>> : f \in Layouts}
TwoFiles ==
  {<<<<2, 3>>, <<4, 5>>>>, <<<<4, 5>>, <<2, 3>>>>, <<<<3, 2>>, <<5, 4>>>>,
   <<<<2, 4>>, <<5, 3>>>>, <<<<3, 2>>, <<4, 5>>>>, <<<<2, 5>>, <<3, 4>>>>}
ThreeFiles == {<<<<2>>, <<3>>, <<4>>>>, <<<<4>>, <<3>>, <<2>>>>}

\* The last file may end a sector before its cluster does.
Sized(c, short) ==
  [chain |-> c,
   size  |-> [p \in DOMAIN c |->
                Csize * Len(c[p]) - (IF p = Len(c) THEN short ELSE 0)]]

MCImages == {Sized(c, short) : c \in OneFile \cup TwoFiles \cup ThreeFiles,
                               short \in 0..1}
=============================================================================
