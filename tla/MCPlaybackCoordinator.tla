----------------------- MODULE MCPlaybackCoordinator -----------------------
(* Bounds and symmetry for model checking PlaybackCoordinator.             *)
EXTENDS PlaybackCoordinator, TLC

\* Callers are interchangeable; files are when all or none may finish.
CallerSymmetry == Permutations(Callers)
=============================================================================
