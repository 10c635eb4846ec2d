-------------------------- MODULE MCModelTransition --------------------------
(* Small instances of ModelTransition and of what the admin page shows. *)
EXTENDS AdminViews, TLC

CONSTANTS p0, p1, admin1, admin2, w1, w2

\* Administrators are interchangeable, and so are the tasks of the lane.
MCSymmetry == Permutations({admin1, admin2}) \union Permutations({w1, w2})

=============================================================================
