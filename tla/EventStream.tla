------------------------------ MODULE EventStream ------------------------------
(***************************************************************************)
(* What the readout promises its client, with no buffers, pointers, masks  *)
(* or registers: while board and software are in sync the stored events    *)
(* form a queue, are handed over one at a time, whole and in the order in  *)
(* which the board stored them, and none is freed before it was handed     *)
(* over.  Losing sync (a transfer that fails, a client that reads out of   *)
(* order) voids the promise until a reset discards what is stored.         *)
(***************************************************************************)
EXTENDS Integers

CONSTANT Capacity       \* events the board can store

VARIABLES
    stored,     \* serial of the newest event stored
    handed,     \* serial of the newest event handed over or discarded
    freed,      \* serial of the newest event whose storage was freed
    header,     \* serial in the header of the last record handed over
    waveform,   \* serial in its waveforms
    insync

svars == <<stored, handed, freed, header, waveform, insync>>

Init == /\ stored = 0 /\ handed = 0 /\ freed = 0
        /\ header = 0 /\ waveform = 0 /\ insync = TRUE

Store == /\ insync /\ stored - freed < Capacity
         /\ stored' = stored + 1
         /\ UNCHANGED <<handed, freed, header, waveform, insync>>

HandOver == /\ insync /\ handed < stored
            /\ handed' = handed + 1 /\ header' = handed + 1 /\ waveform' = handed + 1
            /\ UNCHANGED <<stored, freed, insync>>

Free == /\ insync /\ freed < handed
        /\ freed' = freed + 1
        /\ UNCHANGED <<stored, handed, header, waveform, insync>>

\* Sync is lost: nothing is promised of this step or of the ones after it but
\* that the history of stored events is not rewritten.
OutOfSync == /\ insync' = FALSE
             /\ stored' \in {stored, stored + 1}
             /\ handed' \in Int /\ freed' \in Int /\ header' \in Int /\ waveform' \in Int

\* Sync comes back with nothing stored: every event is accounted for.
Resync == /\ ~insync /\ insync' = TRUE
          /\ handed' = stored /\ freed' = stored
          /\ UNCHANGED <<stored, header, waveform>>

Next == Store \/ HandOver \/ Free \/ OutOfSync \/ Resync

Spec == Init /\ [][Next]_svars
==============================================================================
