------------------------------ MODULE PoweredBoard ------------------------------
(***************************************************************************)
(* The settings of a board whose power and SPI bus the housekeeping part   *)
(* switches, from the same thread.  Neither part knows of the other: the   *)
(* handle keeps its caches when the FPGA starts again, and the setters do  *)
(* not see that their transfers reach nothing.                             *)
(***************************************************************************)
EXTENDS BoardConfig, Housekeeping

CONSTANT MaxCalls       \* bound: calls of the two parts

ASSUME MaxCallsAssumption == MaxCalls \in Nat

VARIABLE calls

vars == <<config, hkvars, calls>>

Alive == On("fpga", level) /\ On("spi", level)

Init == ConfigInit /\ HkInit /\ calls = 0

\* The FPGA loses its registers together with its power.
Power == IF On("fpga", level) /\ ~On("fpga", level') THEN PowerCycled ELSE UNCHANGED config

Call ==
    /\ ~crashed /\ ~rebooting /\ ~updating /\ ~stuck
    /\ calls < MaxCalls /\ calls' = calls + 1
    /\ \/ (SetAny(Alive) \/ Get(Alive)) /\ UNCHANGED hkvars
       \/ GpioCall /\ Power
       \/ HttpBegin /\ UNCHANGED config

Continue ==
    /\ UNCHANGED calls
    /\ \/ RebootOn /\ UNCHANGED config
       \/ HttpStep /\ UNCHANGED config

Next == Call \/ Continue

Spec == Init /\ [][Next]_vars
=============================================================================
