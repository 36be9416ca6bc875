------------------------------ MODULE BoardConfig ------------------------------
(***************************************************************************)
(* The settings of the board, through the setters of beacondaq.c, and what *)
(* its getters will find in the registers.  A setter writes one register   *)
(* with do_write, or appends all its registers to d->buf and sends them.   *)
(*                                                                         *)
(* A transfer that fails may have reached the board in part.  The commands *)
(* of one that was queued stay in d->buf and point to an array of a        *)
(* function that has returned: `stale`.  The next transfer writes whatever *)
(* this memory holds by then.                                              *)
(*                                                                         *)
(* `alive` is given: with the FPGA without power or the SPI bus disabled,  *)
(* a transfer reaches no register, and no call can tell.                   *)
(***************************************************************************)
EXTENDS Registers

CONSTANT MaxFaults      \* bound: transfers that fail

ASSUME MaxFaultsAssumption == MaxFaults \in Nat

VARIABLES
    regs,               \* the registers of the settings
    applied,            \* the attenuations in effect
    \* the handle
    enable_locking,
    d_pretrigger,       \* d->pretrigger, which beacon_get_pretrigger returns
    stale,              \* d->buf holds commands of a setter that failed
    stuck,              \* the thread waits for the mutex it holds
    \* history
    want,               \* the value last set of each setting, where it is known
    effective,          \* the attenuations last set are in effect
    faults

config == <<regs, applied, enable_locking, d_pretrigger, stale, stuck, want, effective, faults>>

Queued == {"pretrigger", "thresholds", "attenuation", "trigger_delays", "dynamic_masking",
           "veto_options"}
Direct == Settings \ Queued

SettingRegs == UNION {RegsOf(Writes[s]) : s \in Settings}
Unknown     == <<>>
Forgotten   == [s \in Settings |-> Unknown]
ValueOf(s)  == AllOf(FieldsOf(Writes[s]))      \* the value that is set

AttenuationOf(b) == [r \in RegsOf(Writes["attenuation"]) |-> b[r]]

ConfigInit ==
    /\ regs = [r \in SettingRegs |-> 0]
    /\ applied = AttenuationOf(regs)
    /\ enable_locking \in BOOLEAN
    /\ d_pretrigger = 0 /\ stale = FALSE /\ stuck = FALSE
    /\ want = Forgotten /\ effective = FALSE /\ faults = 0

-----------------------------------------------------------------------------
\* A fault for the checks to find: the last of several registers is not written.
WrittenButLast(b, s, v, some) ==
    LET new  == Packed(Writes[s], v)
        last == Max(RegsOf(Writes[s]))
    IN  [r \in SettingRegs |-> IF r \in some /\ (r # last \/ some = {last}) THEN new[r] ELSE b[r]]

\* The board b with the registers `some` of what setting s to v writes.
Written(b, s, v, some) ==
    LET new == Packed(Writes[s], v)
    IN  [r \in SettingRegs |-> IF r \in some THEN new[r] ELSE b[r]]

\* What the commands of a setter that failed may make of the board b.
Garbled(b) == IF stale THEN {b} \cup {[b EXCEPT ![r] = 2^24 - 1] : r \in SettingRegs} ELSE {b}

Fault == faults < MaxFaults /\ faults' = faults + 1

\* The value of s is v from now on; nothing else is known when other commands went out.
Wanted(s, v) == want' = [(IF stale THEN Forgotten ELSE want) EXCEPT ![s] = v]

-----------------------------------------------------------------------------
\* The setters with one do_write.
SetDirect(s, v, alive) ==
    /\ ~stuck /\ s \in Direct
    /\ \/ /\ regs' = IF alive THEN Written(regs, s, v, RegsOf(Writes[s])) ELSE regs
          /\ want' = [want EXCEPT ![s] = IF alive THEN v ELSE Unknown]
          /\ UNCHANGED faults
       \/ /\ Fault
          /\ \E some \in {{}, RegsOf(Writes[s])} :
                 regs' = IF alive THEN Written(regs, s, v, some) ELSE regs
          /\ want' = [want EXCEPT ![s] = Unknown]
    /\ UNCHANGED <<applied, enable_locking, d_pretrigger, stale, stuck, effective>>

\* The setters that append and send; attenuation has a second part.  beacon_set_pretrigger
\* stores its argument, not the four bits that are written, and only after a success.
SetQueued(s, v, alive) ==
    /\ ~stuck /\ s \in Queued \ {"attenuation"}
    /\ \/ /\ \E b \in Garbled(regs) :
                 regs' = IF alive THEN Written(b, s, v, RegsOf(Writes[s])) ELSE regs
          /\ IF alive THEN Wanted(s, v) ELSE Wanted(s, Unknown)
          /\ d_pretrigger' = IF s = "pretrigger" THEN v[Field("pretrigger", 8)] ELSE d_pretrigger
          /\ stale' = FALSE
          /\ UNCHANGED faults
       \/ /\ Fault
          /\ \E b \in Garbled(regs), some \in SUBSET RegsOf(Writes[s]) :
                 regs' = IF alive THEN Written(b, s, v, some) ELSE regs
          /\ Wanted(s, Unknown)
          /\ stale' = TRUE
          /\ UNCHANGED d_pretrigger
    /\ UNCHANGED <<applied, enable_locking, stuck, effective>>

\* beacon_set_attenuation of the master.  With a mutex, it waits for ever for the one it
\* holds itself, in synchronized_command, before the attenuations are in effect.
SetAttenuation(v, alive) ==
    /\ ~stuck
    /\ \E b \in Garbled(regs) :
           regs' = IF alive THEN Written(b, "attenuation", v, RegsOf(Writes["attenuation"])) ELSE regs
    /\ IF alive THEN Wanted("attenuation", v) ELSE Wanted("attenuation", Unknown)
    /\ stale' = FALSE
    /\ IF enable_locking
       THEN stuck' = TRUE /\ effective' = FALSE /\ UNCHANGED applied
       ELSE /\ applied' = IF alive THEN AttenuationOf(regs') ELSE applied
            /\ effective' = alive
            /\ UNCHANGED stuck
    /\ UNCHANGED <<enable_locking, d_pretrigger, faults>>

\* One of its two transfers fails.  The first goes out again with the second.
SetAttenuationFails(v, alive) ==
    /\ ~stuck /\ Fault
    /\ \E b \in Garbled(regs), some \in SUBSET RegsOf(Writes["attenuation"]) :
           regs' = IF alive THEN Written(b, "attenuation", v, some) ELSE regs
    /\ Wanted("attenuation", Unknown)
    /\ effective' = FALSE
    /\ IF enable_locking
       THEN stuck' = TRUE /\ UNCHANGED applied
       ELSE applied' \in {applied, AttenuationOf(regs')} /\ UNCHANGED stuck
    /\ stale' \in BOOLEAN
    /\ UNCHANGED <<enable_locking, d_pretrigger>>

\* Every getter but beacon_get_pretrigger sends what is left in d->buf.
Get(alive) ==
    /\ ~stuck
    /\ \/ /\ IF alive THEN regs' \in Garbled(regs) ELSE UNCHANGED regs
          /\ want' = IF stale THEN Forgotten ELSE want
          /\ stale' = FALSE
          /\ UNCHANGED faults
       \/ /\ Fault
          /\ IF alive THEN regs' \in Garbled(regs) ELSE UNCHANGED regs
          /\ want' = IF stale THEN Forgotten ELSE want
          /\ UNCHANGED stale
    /\ UNCHANGED <<applied, enable_locking, d_pretrigger, stuck, effective>>

\* The FPGA starts again: all registers have their defaults, the handle knows nothing of it.
PowerCycled ==
    /\ regs' = [r \in SettingRegs |-> 0]
    /\ applied' = AttenuationOf(regs')
    /\ want' = Forgotten
    /\ effective' = FALSE
    /\ UNCHANGED <<enable_locking, d_pretrigger, stale, stuck, faults>>

SetAny(alive) ==
    \/ \E s \in Settings : SetDirect(s, ValueOf(s), alive) \/ SetQueued(s, ValueOf(s), alive)
    \/ SetAttenuation(ValueOf("attenuation"), alive)
    \/ SetAttenuationFails(ValueOf("attenuation"), alive)

-----------------------------------------------------------------------------
\* Properties.

\* What the getter of s must find after v was set: the values that its register holds.
\* Thresholds are cut to 20 bits at their largest value; four bits hold a pretrigger,
\* twelve a holdoff, and of the low byte of a trigger delay one is written.
Held(s, v) ==
    [f \in FieldsOf(Writes[s]) |->
        CASE s = "thresholds"       -> Min({v[f], Threshold})
          [] s = "pretrigger"       -> v[f] % 16
          [] s = "holdoff"          -> v[f] % 4096
          [] f[1] = "trig_delay"    -> (v[f] \div 256) * 256 + 8 * ((v[f] \div 8) % 2)
          [] OTHER                  -> v[f]]

\* The getter of each setting finds the value that its setter was last given, whatever
\* else was set before and after: no setting shares a bit with another, and the two
\* functions agree on where each field is.  It is known which value that is while no
\* setter of it has failed and the board has not lost it.
ReadsBack ==
    /\ \A s \in Settings :
           want[s] # Unknown => Unpacked(Reads[s], regs) = Held(s, want[s])
    /\ want["pretrigger"] # Unknown =>
           d_pretrigger = want["pretrigger"][Field("pretrigger", 8)]
    /\ effective => /\ ~enable_locking
                    /\ want["attenuation"] # Unknown => applied = Packed(Writes["attenuation"],
                                                                         want["attenuation"])
=============================================================================
