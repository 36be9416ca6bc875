---------------------------- MODULE MCEventReadout ----------------------------
(* What is checked of EventReadout on small rings, besides its invariants. *)
EXTENDS EventReadout

-----------------------------------------------------------------------------
\* With a client that keeps polling and reading, each event the board stores is
\* handed over (or discarded by a reset), however often triggers come.
HandedOver == \A s \in 1 .. MaxTriggers : (stored >= s) ~> (handed >= s)

-----------------------------------------------------------------------------
\* What the documentation says and the code does not do.

\* beacondaq.h: the read functions clear each buffer "after reading".
ClearsOnlyHanded ==
    [][\A b \in full \ full' : held[b].serial <= handed']_vars

\* beacondaq.h: beacon_check_buffers "checks to see which buffers are ready".
PollDiscardsNothing ==
    [][Poll => \A b \in full \ full' : held[b].serial <= handed]_vars
==============================================================================
