------------------------------ MODULE Housekeeping ------------------------------
(***************************************************************************)
(* beaconhk.c: the GPIO pins that switch the power of the FPGA and the SPI *)
(* bus, with their access through sysfs in bbb_gpio.c, and the web request *)
(* for the state of the batteries, whose response libcurl hands over to    *)
(* save_http in pieces.  All of this state is static; nothing is locked.   *)
(*                                                                         *)
(* A response describes devices, one in each piece here: an inverter (FX)  *)
(* or a charge controller (CC), with a battery voltage.                    *)
(***************************************************************************)
EXTENDS Integers, Sequences

CONSTANTS
    Volts, Sizes,       \* of a device: its voltage, the bytes that describe it
    MinBuf,             \* 16 * 1024
    MaxDevices,         \* bound: devices in a response
    MaxHkFaults         \* bound: accesses to a pin that fail

ASSUME HkAssumption == /\ Volts \subseteq Nat \ {0} /\ Sizes \subseteq Nat \ {0}
                       /\ MinBuf \in Nat \ {0} /\ MaxDevices \in Nat /\ MaxHkFaults \in Nat

Pins    == {"fpga", "spi"}      \* master_fpga_ctl, comm_ctl
Kinds   == {"FX", "CC"}
Devices == [kind : Kinds, volt : Volts, size : Sizes]

VARIABLES
    level,              \* the voltage level of each pin: high or low
    gpios_are_setup,
    opened,             \* the pins that setup_gpio has got a handle of
    rebooting,          \* beacon_reboot_fpga_power is between its two writes
    crashed,            \* the process has used a handle it does not have
    \* http_buf
    buf, pos, size,     \* allocated or not, end of the text, bytes allocated
    text,               \* the devices in the text, up to its null byte
    updating,           \* http_update waits for curl_easy_perform
    hk,                 \* what the last http_update has returned, and in hk
    \* history
    requested,          \* the power last requested of each pin, where it is known
    query,              \* the last answer of query_gpio_state, and for which pins it is one
    brought,            \* the devices in the response of the last request
    hkfaults

gpio   == <<level, gpios_are_setup, opened, rebooting, crashed, requested, query>>
http   == <<buf, pos, size, text, updating, hk, brought>>
hkvars == <<gpio, http, hkfaults>>

NoQuery == [state |-> {}, pins |-> {}]

\* The FPGA has power with its pin high; the SPI bus is enabled with its pin low.
On(p, l) == l[p] = (p = "fpga")

HkInit ==
    /\ level \in [Pins -> BOOLEAN]
    /\ gpios_are_setup = FALSE /\ opened = {} /\ rebooting = FALSE /\ crashed = FALSE
    /\ buf = FALSE /\ pos = 0 /\ size = 0 /\ text = <<>>
    /\ updating = FALSE /\ hk = [ret |-> 1, FX |-> 0, CC |-> 0]
    /\ requested = [p \in Pins |-> "unknown"] /\ query = NoQuery
    /\ brought = <<>> /\ hkfaults = 0

-----------------------------------------------------------------------------
\* GPIO pins.

\* Either all goes well or a fault explains why not.
HkFaulty(bad) == IF bad THEN hkfaults < MaxHkFaults /\ hkfaults' = hkfaults + 1
                 ELSE UNCHANGED hkfaults

\* setup_gpio, by the first call that needs it, and never again: a pin that could not be
\* opened then has no handle for the rest of the process.
SetupGpio(missing) ==
    /\ gpios_are_setup' = TRUE
    /\ IF gpios_are_setup THEN missing = {} /\ UNCHANGED opened
                          ELSE opened' = Pins \ missing

\* query_gpio_state.  An FPGA pin without a handle, or whose read fails, counts as on.
QueryGpioState ==
    /\ ~rebooting
    /\ \E missing, bad \in SUBSET Pins :
        /\ SetupGpio(missing) /\ HkFaulty(missing # {} \/ bad # {})
        /\ bad \subseteq opened'
        /\ LET fine == opened' \ bad
           IN  query' = [pins  |-> fine,
                         state |-> {p \in fine : On(p, level)} \cup ({"fpga"} \ fine)]
    /\ UNCHANGED <<level, rebooting, crashed, requested, http>>

\* The new level of a pin that is to be switched.  A fault for the checks to find: the
\* SPI pin is not active low.
LevelNotInverted(p, state) == p \in state

\* "even for things with inverted state ... use the logical state here"
LevelFor(p, state) == (p \in state) = (p = "fpga")

\* beacon_set_gpio_power_state: the pins of the mask, each with a result of its own.
SetGpioPowerState(state, mask) ==
    /\ ~rebooting
    /\ \E missing, bad \in SUBSET Pins :
        /\ SetupGpio(missing) /\ HkFaulty(missing # {} \/ bad # {})
        /\ bad \subseteq mask \cap opened'
        /\ LET fine == (mask \cap opened') \ bad
           IN  /\ level' = [p \in Pins |-> IF p \in fine THEN LevelFor(p, state) ELSE level[p]]
               /\ requested' = [p \in Pins |-> CASE p \notin mask -> requested[p]
                                                 [] p \in fine -> IF p \in state THEN "on" ELSE "off"
                                                 [] OTHER -> "unknown"]
    /\ query' = NoQuery
    /\ UNCHANGED <<rebooting, crashed, http>>

\* beacon_reboot_fpga_power, which does not look whether it has the handle.
RebootOff ==
    /\ ~rebooting
    /\ \E missing \in SUBSET Pins, bad \in BOOLEAN :
        /\ SetupGpio(missing) /\ HkFaulty(missing # {} \/ bad)
        /\ level' = [level EXCEPT !["fpga"] = @ /\ ("fpga" \notin opened' \/ bad)]
        /\ crashed' = ("fpga" \notin opened')
        /\ rebooting' = ("fpga" \in opened')
        /\ requested' = [requested EXCEPT !["fpga"] = "unknown"]
    /\ query' = NoQuery
    /\ UNCHANGED http

RebootOn ==
    /\ rebooting
    /\ rebooting' = FALSE
    /\ \E bad \in BOOLEAN :
        /\ HkFaulty(bad)
        /\ level' = [level EXCEPT !["fpga"] = @ \/ ~bad]
        /\ requested' = [requested EXCEPT !["fpga"] = IF bad THEN "unknown" ELSE "on"]
    /\ UNCHANGED <<gpios_are_setup, opened, crashed, query, http>>

-----------------------------------------------------------------------------
\* The web request.  (The request that fails at once, for want of an address or of a curl
\* handle, is the one that fails before anything comes.)

\* Fault: the text is not started again.
HttpBeginAppending ==
    /\ ~updating /\ updating' = TRUE
    /\ brought' = <<>>
    /\ UNCHANGED <<gpio, buf, pos, size, text, hk, hkfaults>>

\* http_update until curl_easy_perform: the text of before stays until something comes.
HttpBegin ==
    /\ ~updating /\ updating' = TRUE
    /\ pos' = 0
    /\ brought' = <<>>
    /\ UNCHANGED <<gpio, buf, size, text, hk, hkfaults>>

\* The bytes save_http has when it copies n: enough for the first piece, or for what is
\* there and twice the new one.
SizeFor(n) == CASE ~buf -> IF n < MinBuf THEN 1 + MinBuf ELSE n + 1
                [] buf /\ size < pos + n + 1 -> pos + 2 * n + 1
                [] OTHER -> size

\* save_http with room for the device.
SaveHttp(dev) ==
    /\ updating /\ Len(brought) < MaxDevices
    /\ buf' = TRUE /\ size' = SizeFor(dev.size)
    /\ pos' = pos + dev.size
    /\ text' = IF pos = 0 THEN <<dev>> ELSE Append(text, dev)
    /\ brought' = Append(brought, dev)
    /\ UNCHANGED <<gpio, updating, hk, hkfaults>>

\* malloc or realloc fails, and with it the transfer.  The old buffer is lost.
SaveHttpFails(dev) ==
    /\ updating /\ Len(brought) < MaxDevices
    /\ SizeFor(dev.size) # size
    /\ buf' = FALSE /\ size' = SizeFor(dev.size) /\ text' = <<>>
    /\ updating' = FALSE /\ hk' = [ret |-> 1, FX |-> 0, CC |-> 0]
    /\ UNCHANGED <<gpio, pos, brought, hkfaults>>

\* The transfer fails or times out.
HttpFails ==
    /\ updating /\ updating' = FALSE
    /\ hk' = [ret |-> 1, FX |-> 0, CC |-> 0]
    /\ UNCHANGED <<gpio, buf, pos, size, text, brought, hkfaults>>

\* parse_json_number_like_an_idiot(text, "Batt_V", kind): the first voltage after the
\* first device of the kind, or the first of all when there is no such device.
BattV(kind) ==
    LET from == {i \in DOMAIN text : text[i].kind = kind}
        first == IF from = {} THEN 1 ELSE CHOOSE i \in from : \A j \in from : i <= j
    IN  text[first].volt

\* parse_http, of whatever the buffer holds.
HttpDone ==
    /\ updating /\ updating' = FALSE
    /\ hk' = IF buf THEN [ret |-> 0, FX |-> BattV("FX"), CC |-> BattV("CC")]
             ELSE [hk EXCEPT !.ret = 1]
    /\ UNCHANGED <<gpio, buf, pos, size, text, brought, hkfaults>>

-----------------------------------------------------------------------------
GpioCall == \/ QueryGpioState \/ RebootOff
            \/ \E state, mask \in SUBSET Pins : SetGpioPowerState(state, mask)
HttpStep == \/ \E dev \in Devices : SaveHttp(dev) \/ SaveHttpFails(dev)
            \/ HttpFails \/ HttpDone

-----------------------------------------------------------------------------
\* Properties.

\* Each pin is as the last call has left it that switched it and said so, and a query
\* tells it, for the pins it could read: whatever happened to the other pin, to earlier
\* calls and to the reboots in between.  Of an FPGA it cannot ask, it says that it is on.
PowerTrue ==
    /\ \A p \in Pins : requested[p] # "unknown" => On(p, level) = (requested[p] = "on")
    /\ \A p \in query.pins : requested[p] # "unknown" => (p \in query.state) = (requested[p] = "on")
    /\ query # NoQuery /\ "fpga" \notin query.pins => "fpga" \in query.state

\* The text always ends, with its null byte, inside the buffer, and an update that returns
\* 0 after a response that was not empty has the voltages of this response: that of the
\* first device of each kind in it, never one of an earlier request.  (With no device of
\* the kind it has that of another, and after an empty response those of before.)
ChargeTrue ==
    /\ buf => pos < size
    /\ ~updating /\ hk.ret = 0 /\ brought # <<>> =>
           \A kind \in Kinds :
               \E i \in DOMAIN brought :
                   /\ hk[kind] = brought[i].volt
                   /\ \/ /\ brought[i].kind = kind
                         /\ \A j \in 1 .. i - 1 : brought[j].kind # kind
                      \/ i = 1 /\ \A j \in DOMAIN brought : brought[j].kind # kind
=============================================================================
