--------------------------- MODULE MCEngineLifecycle ---------------------------
EXTENDS EngineLifecycle, TLC

Symmetry == Permutations(Actors) \cup Permutations(Files)

\* A second engine is created only while no other torrent plays and in native
\* mode; the selections of a multi-file torrent stop at generation 3.
Reduced ==
    /\ Len(engines) = 2 => native /\ activeFile # "other"
    /\ ~native => activeFile # "other" /\ generation <= 3
================================================================================
