-------------------------- MODULE MCPlaybackLayers --------------------------
(* A small instance of PlaybackLayers: one layer of each kind, capacities  *)
(* small enough that eviction, window pruning and clearing all happen.     *)
EXTENDS PlaybackLayers

CONSTANTS hocket, trace, conflict, midi

MCOverlays == {hocket}
MCRecorded == {trace}
MCConflicts == {conflict}
MCDebugLogs == {midi}
MCCap == [l \in {hocket, trace, conflict, midi} |->
            CASE l = hocket -> 4 [] l = trace -> 1 [] l = conflict -> 3
              [] l = midi -> 1]
MCMaxArrived == [l \in {hocket, trace, conflict, midi} |->
                   CASE l = hocket -> 6 [] l = trace -> 2 [] l = conflict -> 4
                     [] l = midi -> 2]
MCBatches == {0, 2}
=============================================================================
