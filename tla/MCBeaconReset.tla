---------------------------- MODULE MCBeaconReset ----------------------------
(***************************************************************************)
(* beacon_reset on two ADCs.  The pulses come at the same sample, or one   *)
(* lags by a delay the field holds, by the largest one accepted, which the *)
(* field does not hold, or by one sample more than that.                   *)
(***************************************************************************)
EXTENDS BeaconReset

TwoADCs == {0, 1}
FourPhases == {[a \in TwoADCs |-> IF a = first THEN 0 ELSE lag] :
                  <<first, lag>> \in {<<0, 0>>, <<0, 3>>, <<1, 16>>, <<0, 17>>}}
=============================================================================
