------------------------------ MODULE MCMyls --------------------------------
(* Directories, ages and contents for TLC. *)
EXTENDS Myls, SequencesExt

\* A file of 7 months, one of two hours ahead, one of now, one of 600 years.
McAge == 1 :> 5110 @@ 2 :> -2 @@ 3 :> 0 @@ 4 :> 5259600 @@ 5 :> 1

McContents == BoundedSeq({"x", "\n"}, 5)
=============================================================================
