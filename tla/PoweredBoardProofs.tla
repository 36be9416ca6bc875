-------------------------- MODULE PoweredBoardProofs --------------------------
(* Theorems about PoweredBoard, for any voltages, sizes, number of devices, calls and     *)
(* faults: what the housekeeping part reports of pins and batteries, whatever is set on   *)
(* the board in between, and that settings are read back as they were set, whatever the   *)
(* housekeeping does in between.                                                          *)
EXTENDS RecordProofs

-----------------------------------------------------------------------------
\* The invariant.

GpioType ==
    /\ level \in [Pins -> BOOLEAN] /\ opened \subseteq Pins /\ rebooting \in BOOLEAN
    /\ requested \in [Pins -> {"unknown", "on", "off"}]
    /\ query \in [state : SUBSET Pins, pins : SUBSET Pins]

\* No answer of a query is older than a switch.
AnswerHolds ==
    /\ \A p \in query.pins : (p \in query.state) = On(p, level)
    /\ query # NoQuery /\ "fpga" \notin query.pins => "fpga" \in query.state
    /\ rebooting => query = NoQuery

PinsAsRequested == \A p \in Pins : requested[p] # "unknown" => On(p, level) = (requested[p] = "on")

GpioInv == GpioType /\ AnswerHolds /\ PinsAsRequested

HttpType ==
    /\ buf \in BOOLEAN /\ pos \in Nat /\ size \in Nat /\ updating \in BOOLEAN
    /\ text \in Seq(Devices) /\ brought \in Seq(Devices)
    /\ hk \in [ret : {0, 1}, FX : Nat, CC : Nat]

\* The buffer has room for its text, and the text is that of the response as soon as the
\* first piece of it is there.
TextFollows ==
    /\ buf => pos < size /\ text # <<>>
    /\ updating => /\ ~buf => pos = 0
                   /\ (pos = 0 <=> brought = <<>>)
                   /\ brought # <<>> => buf /\ text = brought

\* The voltage of the first device of a kind in a response.
FirstOfKind(volt, kind, devices) ==
    \E i \in DOMAIN devices :
        /\ volt = devices[i].volt
        /\ \/ /\ devices[i].kind = kind
              /\ \A j \in 1 .. i - 1 : devices[j].kind # kind
           \/ i = 1 /\ \A j \in DOMAIN devices : devices[j].kind # kind

VoltsFollow ==
    ~updating /\ hk.ret = 0 /\ brought # <<>> =>
        \A kind \in Kinds : FirstOfKind(hk[kind], kind, brought)

HttpInv == HttpType /\ TextFollows /\ VoltsFollow

-----------------------------------------------------------------------------
\* The pins.

LEMMA OnOff ==
    ASSUME NEW l \in [Pins -> BOOLEAN], NEW p \in Pins
    PROVE  On(p, l) \in BOOLEAN /\ (On(p, l) <=> l[p] = (p = "fpga"))
BY DEF On

LEMMA QueryKeeps == ASSUME GpioInv, QueryGpioState PROVE GpioInv'
<1>1. PICK missing \in SUBSET Pins, bad \in SUBSET Pins :
          /\ SetupGpio(missing)
          /\ query' = [pins  |-> opened' \ bad,
                       state |-> {p \in opened' \ bad : On(p, level)}
                                     \cup ({"fpga"} \ (opened' \ bad))]
  BY DEF QueryGpioState
<1> DEFINE fine == opened' \ bad
<1>2. opened' \subseteq Pins
  BY <1>1 DEF SetupGpio, GpioInv, GpioType
<1>3. UNCHANGED <<level, rebooting, requested>> /\ ~rebooting
  BY DEF QueryGpioState
<1>4. query'.pins = fine /\ query'.state = {p \in fine : On(p, level)} \cup ({"fpga"} \ fine)
  BY <1>1
<1>5. GpioType'
  BY <1>1, <1>2, <1>3 DEF GpioInv, GpioType, Pins
<1>6. AnswerHolds'
  BY <1>2, <1>3, <1>4, OnOff DEF GpioInv, GpioType, AnswerHolds, On
<1>7. PinsAsRequested'
  BY <1>3 DEF GpioInv, PinsAsRequested, On
<1> QED
  BY <1>5, <1>6, <1>7 DEF GpioInv

LEMMA NothingAsked == NoQuery.pins = {} /\ NoQuery \in [state : SUBSET Pins, pins : SUBSET Pins]
BY DEF NoQuery

LEMMA SwitchKeeps ==
    ASSUME GpioInv, NEW state \in SUBSET Pins, NEW mask \in SUBSET Pins,
           SetGpioPowerState(state, mask)
    PROVE  GpioInv'
<1>1. PICK missing \in SUBSET Pins, bad \in SUBSET Pins :
          /\ SetupGpio(missing) /\ bad \subseteq mask \cap opened'
          /\ LET fine == (mask \cap opened') \ bad
             IN  /\ level' = [p \in Pins |-> IF p \in fine THEN LevelFor(p, state) ELSE level[p]]
                 /\ requested' = [p \in Pins |->
                                     CASE p \notin mask -> requested[p]
                                       [] p \in fine -> IF p \in state THEN "on" ELSE "off"
                                       [] OTHER -> "unknown"]
  BY DEF SetGpioPowerState
<1> DEFINE fine == (mask \cap opened') \ bad
<1>2. opened' \subseteq Pins
  BY <1>1 DEF SetupGpio, GpioInv, GpioType
<1>3. rebooting' = rebooting /\ query' = NoQuery
  BY DEF SetGpioPowerState
<1>4. GpioType'
  <2>1. level' \in [Pins -> BOOLEAN]
    BY <1>1 DEF GpioInv, GpioType, LevelFor
  <2>2. requested' \in [Pins -> {"unknown", "on", "off"}]
    BY <1>1 DEF GpioInv, GpioType
  <2> QED
    BY <2>1, <2>2, <1>2, <1>3, NothingAsked DEF GpioInv, GpioType
<1>5. AnswerHolds'
  BY <1>3, NothingAsked DEF AnswerHolds
<1>6. ASSUME NEW p \in Pins, requested'[p] # "unknown"
      PROVE  On(p, level') = (requested'[p] = "on")
  <2>1. CASE p \notin mask
    <3>1. requested'[p] = requested[p] /\ level'[p] = level[p]
      BY <1>1, <2>1
    <3> QED
      BY <3>1, <1>6 DEF GpioInv, PinsAsRequested, On
  <2>2. CASE p \in mask
    <3>1. p \in fine
      BY <1>1, <1>6, <2>2
    <3>2. level'[p] = LevelFor(p, state) /\ requested'[p] = IF p \in state THEN "on" ELSE "off"
      BY <1>1, <2>2, <3>1
    <3> QED
      BY <3>2 DEF On, LevelFor
  <2> QED
    BY <2>1, <2>2
<1> QED
  BY <1>4, <1>5, <1>6 DEF GpioInv, PinsAsRequested

LEMMA RebootOffKeeps == ASSUME GpioInv, RebootOff PROVE GpioInv'
<1>1. PICK missing \in SUBSET Pins, bad \in BOOLEAN :
          /\ SetupGpio(missing)
          /\ level' = [level EXCEPT !["fpga"] = @ /\ ("fpga" \notin opened' \/ bad)]
          /\ rebooting' = ("fpga" \in opened')
          /\ requested' = [requested EXCEPT !["fpga"] = "unknown"]
  BY DEF RebootOff
<1>2. opened' \subseteq Pins
  BY <1>1 DEF SetupGpio, GpioInv, GpioType
<1>3. query' = NoQuery
  BY DEF RebootOff
<1>4. GpioType'
  <2>1. level' \in [Pins -> BOOLEAN]
    BY <1>1 DEF GpioInv, GpioType
  <2>2. requested' \in [Pins -> {"unknown", "on", "off"}]
    BY <1>1 DEF GpioInv, GpioType
  <2>3. rebooting' \in BOOLEAN
    BY <1>1
  <2> QED
    BY <2>1, <2>2, <2>3, <1>2, <1>3, NothingAsked DEF GpioInv, GpioType
<1>5. AnswerHolds'
  BY <1>3, NothingAsked DEF AnswerHolds
<1>6. PinsAsRequested'
  <2>1. \A p \in Pins : requested'[p] # "unknown" =>
            requested'[p] = requested[p] /\ level'[p] = level[p]
    BY <1>1 DEF GpioInv, GpioType
  <2> QED
    BY <2>1 DEF GpioInv, PinsAsRequested, On
<1> QED
  BY <1>4, <1>5, <1>6 DEF GpioInv

LEMMA RebootOnKeeps == ASSUME GpioInv, RebootOn PROVE GpioInv'
<1>1. PICK bad \in BOOLEAN :
          /\ level' = [level EXCEPT !["fpga"] = @ \/ ~bad]
          /\ requested' = [requested EXCEPT !["fpga"] = IF bad THEN "unknown" ELSE "on"]
  BY DEF RebootOn
<1>2. rebooting /\ rebooting' = FALSE /\ UNCHANGED <<opened, query>>
  BY DEF RebootOn
<1>3. query = NoQuery
  BY <1>2 DEF GpioInv, AnswerHolds
<1>4. GpioType'
  <2>1. level' \in [Pins -> BOOLEAN]
    BY <1>1 DEF GpioInv, GpioType
  <2>2. requested' \in [Pins -> {"unknown", "on", "off"}]
    BY <1>1 DEF GpioInv, GpioType
  <2> QED
    BY <2>1, <2>2, <1>2 DEF GpioInv, GpioType
<1>5. AnswerHolds'
  BY <1>2, <1>3, NothingAsked DEF AnswerHolds
<1>6. ASSUME NEW p \in Pins, requested'[p] # "unknown"
      PROVE  On(p, level') = (requested'[p] = "on")
  <2>1. CASE p = "fpga"
    <3>1. ~bad /\ requested'[p] = "on"
      BY <1>1, <1>6, <2>1 DEF GpioInv, GpioType
    <3>2. level'[p] = TRUE
      BY <1>1, <2>1, <3>1 DEF GpioInv, GpioType
    <3> QED
      BY <2>1, <3>1, <3>2 DEF On
  <2>2. CASE p # "fpga"
    <3>1. requested'[p] = requested[p] /\ level'[p] = level[p]
      BY <1>1, <2>2 DEF GpioInv, GpioType
    <3> QED
      BY <3>1, <1>6 DEF GpioInv, PinsAsRequested, On
  <2> QED
    BY <2>1, <2>2
<1> QED
  BY <1>4, <1>5, <1>6 DEF GpioInv, PinsAsRequested

LEMMA GpioUnchanged == ASSUME GpioInv, UNCHANGED gpio PROVE GpioInv'
BY DEF GpioInv, GpioType, AnswerHolds, PinsAsRequested, gpio, On

-----------------------------------------------------------------------------
\* The web request.

LEMMA NoDevices == <<>> \in Seq(Devices)
OBVIOUS

LEMMA HttpUnchanged == ASSUME HttpInv, UNCHANGED http PROVE HttpInv'
BY DEF HttpInv, HttpType, TextFollows, VoltsFollow, FirstOfKind, http

LEMMA BeginKeeps == ASSUME HttpInv, HttpBegin PROVE HttpInv'
<1>1. updating' = TRUE /\ pos' = 0 /\ brought' = <<>> /\ UNCHANGED <<buf, size, text, hk>>
  BY DEF HttpBegin
<1>2. HttpType'
  BY <1>1 DEF HttpInv, HttpType
<1>3. TextFollows'
  BY <1>1 DEF HttpInv, HttpType, TextFollows
<1>4. VoltsFollow'
  BY <1>1 DEF VoltsFollow
<1> QED
  BY <1>2, <1>3, <1>4 DEF HttpInv

LEMMA SizeOf ==
    ASSUME HttpInv, NEW n \in Nat \ {0}, updating
    PROVE  SizeFor(n) \in Nat /\ pos + n < SizeFor(n)
<1>1. /\ buf \in BOOLEAN /\ pos \in Nat /\ size \in Nat /\ n \in Nat /\ n > 0
      /\ ~buf => pos = 0
  BY DEF HttpInv, HttpType, TextFollows
<1>2. MinBuf \in Nat
  BY HkAssumption
<1>3. CASE ~buf
  <2>1. SizeFor(n) = IF n < MinBuf THEN 1 + MinBuf ELSE n + 1
    BY <1>3 DEF SizeFor
  <2> QED
    BY <1>1, <1>2, <1>3, <2>1
<1>4. CASE buf /\ size < pos + n + 1
  <2>1. SizeFor(n) = pos + 2 * n + 1
    BY <1>4 DEF SizeFor
  <2> QED
    BY <1>1, <2>1
<1>5. CASE buf /\ ~(size < pos + n + 1)
  <2>1. SizeFor(n) = size
    BY <1>5 DEF SizeFor
  <2> QED
    BY <1>1, <1>5, <2>1
<1> QED
  BY <1>1, <1>3, <1>4, <1>5

LEMMA DeviceType ==
    ASSUME NEW dev \in Devices
    PROVE  dev.kind \in Kinds /\ dev.volt \in Nat \ {0} /\ dev.size \in Nat \ {0}
BY HkAssumption DEF Devices

LEMMA SaveKeeps == ASSUME HttpInv, NEW dev \in Devices, SaveHttp(dev) PROVE HttpInv'
<1>1. /\ updating /\ updating' = TRUE /\ buf' = TRUE /\ size' = SizeFor(dev.size)
      /\ pos' = pos + dev.size /\ brought' = Append(brought, dev) /\ hk' = hk
      /\ text' = IF pos = 0 THEN <<dev>> ELSE Append(text, dev)
  BY DEF SaveHttp, HttpInv, HttpType
<1>2. text' \in Seq(Devices) /\ brought' \in Seq(Devices) /\ text' # <<>> /\ brought' # <<>>
  BY <1>1 DEF HttpInv, HttpType
<1>3. pos' \in Nat /\ pos' # 0 /\ size' \in Nat /\ pos' < size'
  <2>1. dev.size \in Nat \ {0} /\ pos \in Nat
    BY DeviceType DEF HttpInv, HttpType
  <2>2. SizeFor(dev.size) \in Nat /\ pos + dev.size < SizeFor(dev.size)
    BY <1>1, <2>1, SizeOf
  <2> QED
    BY <1>1, <2>1, <2>2
<1>4. text' = brought'
  <2>1. CASE pos = 0
    <3>1. brought = <<>>
      BY <1>1, <2>1 DEF HttpInv, TextFollows
    <3> QED
      BY <1>1, <2>1, <3>1
  <2>2. CASE pos # 0
    <3>1. text = brought
      BY <1>1, <2>2 DEF HttpInv, TextFollows
    <3> QED
      BY <1>1, <2>2, <3>1
  <2> QED
    BY <2>1, <2>2
<1>5. HttpType'
  BY <1>1, <1>2, <1>3 DEF HttpInv, HttpType
<1>6. TextFollows'
  BY <1>1, <1>2, <1>3, <1>4 DEF TextFollows
<1>7. VoltsFollow'
  BY <1>1 DEF VoltsFollow
<1> QED
  BY <1>5, <1>6, <1>7 DEF HttpInv

LEMMA SaveFailsKeeps == ASSUME HttpInv, NEW dev \in Devices, SaveHttpFails(dev) PROVE HttpInv'
<1>1. /\ updating /\ updating' = FALSE /\ buf' = FALSE /\ size' = SizeFor(dev.size)
      /\ text' = <<>> /\ hk' = [ret |-> 1, FX |-> 0, CC |-> 0] /\ UNCHANGED <<pos, brought>>
  BY DEF SaveHttpFails
<1>2. size' \in Nat
  BY <1>1, DeviceType, SizeOf
<1>3. HttpType'
  <2>1. hk' \in [ret : {0, 1}, FX : Nat, CC : Nat]
    BY <1>1
  <2>2. text' \in Seq(Devices) /\ brought' \in Seq(Devices)
    BY <1>1, NoDevices DEF HttpInv, HttpType
  <2>3. buf' \in BOOLEAN /\ updating' \in BOOLEAN /\ pos' \in Nat
    BY <1>1 DEF HttpInv, HttpType
  <2> QED
    BY <1>2, <2>1, <2>2, <2>3 DEF HttpType
<1>4. TextFollows'
  BY <1>1 DEF TextFollows
<1>5. VoltsFollow'
  BY <1>1 DEF VoltsFollow
<1> QED
  BY <1>3, <1>4, <1>5 DEF HttpInv

LEMMA FailsKeeps == ASSUME HttpInv, HttpFails PROVE HttpInv'
<1>1. /\ updating' = FALSE /\ hk' = [ret |-> 1, FX |-> 0, CC |-> 0]
      /\ UNCHANGED <<buf, pos, size, text, brought>>
  BY DEF HttpFails
<1>2. HttpType'
  BY <1>1 DEF HttpInv, HttpType
<1>3. TextFollows'
  BY <1>1 DEF HttpInv, TextFollows
<1>4. VoltsFollow'
  BY <1>1 DEF VoltsFollow
<1> QED
  BY <1>2, <1>3, <1>4 DEF HttpInv

-----------------------------------------------------------------------------
\* The parser of the response.

\* What the parser finds in a text that is not empty: the voltage of the first of a kind.
LEMMA BattVFinds ==
    ASSUME text \in Seq(Devices), text # <<>>, NEW kind \in Kinds
    PROVE  FirstOfKind(BattV(kind), kind, text) /\ BattV(kind) \in Nat
<1> DEFINE from == {i \in DOMAIN text : text[i].kind = kind}
           first == IF from = {} THEN 1 ELSE CHOOSE i \in from : \A j \in from : i <= j
<1>1. DOMAIN text = 1 .. Len(text) /\ Len(text) \in Nat /\ 1 \in DOMAIN text
  OBVIOUS
<1>2. BattV(kind) = text[first].volt
  BY DEF BattV
<1>3. CASE from = {}
  <2>1. first = 1 /\ \A j \in DOMAIN text : text[j].kind # kind
    BY <1>3
  <2> HIDE DEF first
  <2> QED
    BY <1>1, <1>2, <2>1, DeviceType DEF FirstOfKind
<1>4. CASE from # {}
  <2>1. \E x \in from : \A y \in from : x <= y
    <3>1. from \in SUBSET Nat
      BY <1>1
    <3> HIDE DEF from
    <3> QED
      BY <1>4, <3>1, Smallest
  <2>2. first \in from /\ \A j \in from : first <= j
    BY <1>4, <2>1
  <2> HIDE DEF first
  <2>3. first \in DOMAIN text /\ text[first].kind = kind
    BY <2>2
  <2>4. \A j \in 1 .. first - 1 : text[j].kind # kind
    BY <1>1, <2>2, <2>3
  <2> QED
    BY <1>1, <1>2, <2>3, <2>4, DeviceType DEF FirstOfKind
<1> QED
  BY <1>3, <1>4

LEMMA DoneKeeps == ASSUME HttpInv, HttpDone PROVE HttpInv'
<1>1. updating /\ updating' = FALSE /\ UNCHANGED <<buf, pos, size, text, brought>>
  BY DEF HttpDone
<1>2. TextFollows'
  BY <1>1 DEF HttpInv, TextFollows
<1>3. CASE buf
  <2>1. hk' = [ret |-> 0, FX |-> BattV("FX"), CC |-> BattV("CC")]
    BY <1>3 DEF HttpDone
  <2>2. text \in Seq(Devices) /\ text # <<>>
    BY <1>3 DEF HttpInv, HttpType, TextFollows
  <2>3. hk'.FX = BattV("FX") /\ hk'.CC = BattV("CC")
    BY <2>1
  <2>4. \A kind \in Kinds : FirstOfKind(BattV(kind), kind, text) /\ BattV(kind) \in Nat
    BY <2>2, BattVFinds
  <2>5. HttpType'
    <3>1. BattV("FX") \in Nat /\ BattV("CC") \in Nat
      BY <2>4 DEF Kinds
    <3> QED
      BY <1>1, <2>1, <3>1 DEF HttpInv, HttpType
  <2>6. VoltsFollow'
    <3>1. \A kind \in Kinds : hk'[kind] = BattV(kind)
      BY <2>1 DEF Kinds
    <3>2. brought # <<>> => text = brought
      BY <1>1 DEF HttpInv, TextFollows
    <3> QED
      BY <1>1, <2>4, <3>1, <3>2 DEF VoltsFollow
  <2> QED
    BY <1>2, <2>5, <2>6 DEF HttpInv
<1>4. CASE ~buf
  <2>1. hk' = [hk EXCEPT !.ret = 1]
    BY <1>4 DEF HttpDone
  <2>2. HttpType' /\ hk'.ret = 1
    BY <1>1, <2>1 DEF HttpInv, HttpType
  <2>3. VoltsFollow'
    BY <2>2 DEF VoltsFollow
  <2> QED
    BY <1>2, <2>2, <2>3 DEF HttpInv
<1> QED
  BY <1>3, <1>4

-----------------------------------------------------------------------------
\* The theorems.

HkInv == GpioInv /\ HttpInv

LEMMA InitOK == Init => HkInv
<1> SUFFICES ASSUME Init PROVE HkInv
  OBVIOUS
<1>1. HkInit
  BY DEF Init
<1>2. GpioInv
  BY <1>1, NothingAsked DEF HkInit, GpioInv, GpioType, AnswerHolds, PinsAsRequested
<1>3. HttpInv
  <2>1. hk \in [ret : {0, 1}, FX : Nat, CC : Nat] /\ hk.ret = 1
    BY <1>1 DEF HkInit
  <2>2. HttpType
    <3>1. buf \in BOOLEAN /\ pos \in Nat /\ size \in Nat /\ updating \in BOOLEAN
      BY <1>1 DEF HkInit
    <3>2. text \in Seq(Devices) /\ brought \in Seq(Devices)
      BY <1>1, NoDevices DEF HkInit
    <3> QED
      BY <2>1, <3>1, <3>2 DEF HttpType
  <2>3. TextFollows /\ VoltsFollow
    BY <1>1, <2>1 DEF HkInit, TextFollows, VoltsFollow
  <2> QED
    BY <2>2, <2>3 DEF HttpInv
<1> QED
  BY <1>2, <1>3 DEF HkInv

LEMMA StepKeeps == HkInv /\ [Next]_vars => HkInv'
<1> SUFFICES ASSUME HkInv, [Next]_vars PROVE HkInv'
  OBVIOUS
<1> USE DEF HkInv
<1>1. CASE UNCHANGED hkvars
  BY <1>1, GpioUnchanged, HttpUnchanged DEF hkvars
<1>2. CASE QueryGpioState
  BY <1>2, QueryKeeps, HttpUnchanged DEF QueryGpioState
<1>3. ASSUME NEW state \in SUBSET Pins, NEW mask \in SUBSET Pins, SetGpioPowerState(state, mask)
      PROVE  HkInv'
  BY <1>3, SwitchKeeps, HttpUnchanged DEF SetGpioPowerState
<1>4. CASE RebootOff
  BY <1>4, RebootOffKeeps, HttpUnchanged DEF RebootOff
<1>5. CASE RebootOn
  BY <1>5, RebootOnKeeps, HttpUnchanged DEF RebootOn
<1>6. CASE HttpBegin
  BY <1>6, BeginKeeps, GpioUnchanged DEF HttpBegin
<1>7. ASSUME NEW dev \in Devices, SaveHttp(dev) PROVE HkInv'
  BY <1>7, SaveKeeps, GpioUnchanged DEF SaveHttp
<1>8. ASSUME NEW dev \in Devices, SaveHttpFails(dev) PROVE HkInv'
  BY <1>8, SaveFailsKeeps, GpioUnchanged DEF SaveHttpFails
<1>9. CASE HttpFails
  BY <1>9, FailsKeeps, GpioUnchanged DEF HttpFails
<1>10. CASE HttpDone
  BY <1>10, DoneKeeps, GpioUnchanged DEF HttpDone
<1>11. CASE Call
  BY <1>11, <1>1, <1>2, <1>3, <1>4, <1>6 DEF Call, GpioCall
<1>12. CASE Continue
  BY <1>12, <1>5, <1>7, <1>8, <1>9, <1>10 DEF Continue, HttpStep
<1>13. CASE UNCHANGED vars
  BY <1>13, <1>1 DEF vars
<1> QED
  BY <1>11, <1>12, <1>13 DEF Next

\* The invariant the theorems about the housekeeping part rest on.
THEOREM InvCorrect == Spec => []HkInv
BY InitOK, StepKeeps, PTL DEF Spec

\* Each pin has the power last requested of it, and a query says so, whatever happens to
\* the other pin and whatever is set on the board.
THEOREM PowerIsTrue == Spec => []PowerTrue
<1>1. HkInv => PowerTrue
  <2> SUFFICES ASSUME HkInv PROVE PowerTrue
    OBVIOUS
  <2>1. query.pins \subseteq Pins
    BY DEF HkInv, GpioInv, GpioType
  <2>2. \A p \in query.pins : requested[p] # "unknown" => (p \in query.state) = (requested[p] = "on")
    BY <2>1 DEF HkInv, GpioInv, AnswerHolds, PinsAsRequested
  <2> QED
    BY <2>2 DEF PowerTrue, HkInv, GpioInv, AnswerHolds, PinsAsRequested
<1> QED
  BY <1>1, InvCorrect, PTL

\* The text of the web request ends inside its buffer, for all sizes of the pieces, and
\* the voltages are those of the response that has just come.
THEOREM ChargeIsTrue == Spec => []ChargeTrue
<1>1. HkInv => ChargeTrue
  BY DEF ChargeTrue, HkInv, HttpInv, TextFollows, VoltsFollow, FirstOfKind
<1> QED
  BY <1>1, InvCorrect, PTL

-----------------------------------------------------------------------------
\* The settings of the board hold what was set.

WantType ==
    /\ DOMAIN want = Settings
    /\ \A s \in Settings : want[s] # Unknown => want[s] \in Values(FieldsOf(Writes[s]))

\* The registers of a setting whose value is known are those that its setter makes of it.
RegistersHold == \A s \in Settings : want[s] # Unknown => Made(Writes[s], want[s], regs)

PretriggerKept ==
    want["pretrigger"] # Unknown => d_pretrigger = want["pretrigger"][Field("pretrigger", 8)]

AttenuationApplied ==
    effective => /\ ~enable_locking
                 /\ want["attenuation"] # Unknown =>
                        applied = Packed(Writes["attenuation"], want["attenuation"])

ConfigInv == WantType /\ RegistersHold /\ PretriggerKept /\ AttenuationApplied

LEMMA SettingsAre ==
    /\ "pretrigger" \in Settings /\ "attenuation" \in Settings
    /\ "pretrigger" \in Queued /\ "attenuation" \in Queued
BY DEF Settings, Layouts, Queued

\* What a setter writes is what it makes of the value, and all others keep theirs.
LEMMA WrittenMade ==
    ASSUME NEW b, NEW s \in Settings, NEW v
    PROVE  Made(Writes[s], v, Written(b, s, v, RegsOf(Writes[s])))
BY DEF Made, Written, SettingRegs

LEMMA WrittenKeeps ==
    ASSUME NEW b, NEW s \in Settings, NEW v, NEW some \in SUBSET RegsOf(Writes[s]),
           NEW t \in Settings, t # s, NEW u, Made(Writes[t], u, b)
    PROVE  Made(Writes[t], u, Written(b, s, v, some))
<1> SUFFICES ASSUME NEW r \in RegsOf(Writes[t])
             PROVE  Written(b, s, v, some)[r] = b[r] /\ b[r] = Packed(Writes[t], u)[r]
  BY DEF Made
<1>1. r \in Region(t) /\ \A x \in some : x \in Region(s)
  BY RegionsApart DEF RegsOf
<1>2. r \notin some
  BY <1>1, RegionsApart
<1>3. r \in SettingRegs
  BY DEF SettingRegs
<1> QED
  BY <1>2, <1>3 DEF Written, Made

\* A step after which the value of s is `known`, and those of the others are as before or,
\* when commands of a setter that failed went out, not known.
LEMMA SetterKeeps ==
    ASSUME ConfigInv, NEW s \in Settings, NEW known, NEW alive \in BOOLEAN,
           want' = [(IF stale THEN Forgotten ELSE want) EXCEPT ![s] = known],
           NEW v, NEW b \in Garbled(regs), NEW some \in SUBSET RegsOf(Writes[s]),
           regs' = IF alive THEN Written(b, s, v, some) ELSE regs,
           known # Unknown => /\ known = v /\ v \in Values(FieldsOf(Writes[s]))
                              /\ alive /\ some = RegsOf(Writes[s])
    PROVE  WantType' /\ RegistersHold'
<1>1. /\ DOMAIN want' = Settings /\ want'[s] = known
      /\ \A t \in Settings : t # s => want'[t] = IF stale THEN Unknown ELSE want[t]
  BY DEF ConfigInv, WantType, Forgotten
<1>2. WantType'
  BY <1>1 DEF ConfigInv, WantType
<1>3. ASSUME NEW t \in Settings, want'[t] # Unknown PROVE Made(Writes[t], want'[t], regs')
  <2>1. CASE t = s
    <3>1. want'[t] = v /\ regs' = Written(b, s, v, RegsOf(Writes[s]))
      BY <1>1, <1>3, <2>1
    <3> QED
      BY <2>1, <3>1, WrittenMade
  <2>2. CASE t # s
    <3>1. ~stale /\ want'[t] = want[t]
      BY <1>1, <1>3, <2>2
    <3>2. b = regs
      BY <3>1 DEF Garbled
    <3>3. Made(Writes[t], want[t], regs)
      BY <1>3, <3>1 DEF ConfigInv, RegistersHold
    <3>4. Made(Writes[t], want[t], Written(regs, s, v, some))
      BY <2>2, <3>3, WrittenKeeps
    <3> QED
      BY <3>1, <3>2, <3>3, <3>4
  <2> QED
    BY <2>1, <2>2
<1> QED
  BY <1>2, <1>3 DEF RegistersHold

\* The rest of the invariant, when a step touches neither pretrigger nor attenuation but
\* to forget them.
LEMMA OthersKeep ==
    ASSUME ConfigInv, UNCHANGED <<d_pretrigger, applied, effective, enable_locking>>,
           \A s \in {"pretrigger", "attenuation"} : want'[s] \in {Unknown, want[s]}
    PROVE  PretriggerKept' /\ AttenuationApplied'
<1>1. PretriggerKept'
  BY DEF ConfigInv, PretriggerKept
<1>2. AttenuationApplied'
  BY DEF ConfigInv, AttenuationApplied
<1> QED
  BY <1>1, <1>2

\* What a call of a setter does, by what is known of its value after it.
SetDirectly(s, v, known, some, alive) ==
    /\ want' = [want EXCEPT ![s] = known]
    /\ regs' = IF alive THEN Written(regs, s, v, some) ELSE regs
    /\ known # Unknown => known = v /\ alive /\ some = RegsOf(Writes[s])

SetInQueue(s, v, known, b, some, alive) ==
    /\ want' = [(IF stale THEN Forgotten ELSE want) EXCEPT ![s] = known]
    /\ regs' = IF alive THEN Written(b, s, v, some) ELSE regs
    /\ known # Unknown => known = v /\ alive /\ some = RegsOf(Writes[s])
    /\ \/ d_pretrigger' = IF s = "pretrigger" THEN v[Field("pretrigger", 8)] ELSE d_pretrigger
       \/ known = Unknown /\ UNCHANGED d_pretrigger

LEMMA SetDirectKeeps ==
    ASSUME ConfigInv, NEW s \in Settings, NEW alive \in BOOLEAN, SetDirect(s, ValueOf(s), alive)
    PROVE  ConfigInv'
<1> DEFINE v == ValueOf(s)
<1>1. s \in Direct /\ s # "pretrigger" /\ s # "attenuation"
  BY SettingsAre DEF SetDirect, Direct
<1>2. PICK known, some : some \in SUBSET RegsOf(Writes[s]) /\ SetDirectly(s, v, known, some, alive)
  <2>1. CASE /\ regs' = IF alive THEN Written(regs, s, v, RegsOf(Writes[s])) ELSE regs
             /\ want' = [want EXCEPT ![s] = IF alive THEN v ELSE Unknown]
    <3>1. SetDirectly(s, v, IF alive THEN v ELSE Unknown, RegsOf(Writes[s]), alive)
      BY <2>1 DEF SetDirectly
    <3> QED
      BY <3>1
  <2>2. CASE /\ \E some \in {{}, RegsOf(Writes[s])} :
                    regs' = IF alive THEN Written(regs, s, v, some) ELSE regs
             /\ want' = [want EXCEPT ![s] = Unknown]
    <3>1. PICK some \in {{}, RegsOf(Writes[s])} :
              regs' = IF alive THEN Written(regs, s, v, some) ELSE regs
      BY <2>2
    <3>2. SetDirectly(s, v, Unknown, some, alive) /\ some \in SUBSET RegsOf(Writes[s])
      BY <2>2, <3>1 DEF SetDirectly
    <3> QED
      BY <3>2
  <2> QED
    BY <2>1, <2>2 DEF SetDirect
<1> USE DEF SetDirectly
<1>3. /\ DOMAIN want' = Settings /\ want'[s] = known
      /\ \A t \in Settings : t # s => want'[t] = want[t]
  BY <1>2 DEF ConfigInv, WantType
<1>4. v \in Values(FieldsOf(Writes[s]))
  BY ValuesFit
<1> HIDE DEF v
<1>5. WantType'
  BY <1>2, <1>3, <1>4 DEF ConfigInv, WantType
<1>6. ASSUME NEW t \in Settings, want'[t] # Unknown PROVE Made(Writes[t], want'[t], regs')
  <2>1. CASE t = s
    <3>1. want'[t] = v /\ regs' = Written(regs, s, v, RegsOf(Writes[s]))
      BY <1>2, <1>3, <1>6, <2>1
    <3> QED
      BY <2>1, <3>1, WrittenMade
  <2>2. CASE t # s
    <3>1. want'[t] = want[t] /\ Made(Writes[t], want[t], regs)
      BY <1>3, <1>6, <2>2 DEF ConfigInv, RegistersHold
    <3>2. some \in SUBSET RegsOf(Writes[s])
      BY <1>2
    <3>3. Made(Writes[t], want[t], Written(regs, s, v, some))
      BY <2>2, <3>1, <3>2, WrittenKeeps
    <3> QED
      BY <1>2, <3>1, <3>3
  <2> QED
    BY <2>1, <2>2
<1>7. PretriggerKept' /\ AttenuationApplied'
  <2>1. UNCHANGED <<d_pretrigger, applied, effective, enable_locking>>
    BY DEF SetDirect
  <2> QED
    BY <1>1, <1>3, <2>1, SettingsAre, OthersKeep
<1> QED
  BY <1>5, <1>6, <1>7 DEF ConfigInv, RegistersHold

LEMMA SetQueuedKeeps ==
    ASSUME ConfigInv, NEW s \in Settings, NEW alive \in BOOLEAN, SetQueued(s, ValueOf(s), alive)
    PROVE  ConfigInv'
<1> DEFINE v == ValueOf(s)
<1>1. s # "attenuation"
  BY DEF SetQueued
<1>2. v \in Values(FieldsOf(Writes[s]))
  BY ValuesFit
<1>3. PICK known, b, some : /\ b \in Garbled(regs) /\ some \in SUBSET RegsOf(Writes[s])
                            /\ SetInQueue(s, v, known, b, some, alive)
  <2>1. CASE /\ \E b \in Garbled(regs) :
                    regs' = IF alive THEN Written(b, s, v, RegsOf(Writes[s])) ELSE regs
             /\ IF alive THEN Wanted(s, v) ELSE Wanted(s, Unknown)
             /\ d_pretrigger' = IF s = "pretrigger" THEN v[Field("pretrigger", 8)] ELSE d_pretrigger
    <3>1. PICK b \in Garbled(regs) :
              regs' = IF alive THEN Written(b, s, v, RegsOf(Writes[s])) ELSE regs
      BY <2>1
    <3>2. SetInQueue(s, v, IF alive THEN v ELSE Unknown, b, RegsOf(Writes[s]), alive)
      BY <2>1, <3>1 DEF SetInQueue, Wanted
    <3> QED
      BY <3>1, <3>2
  <2>2. CASE /\ \E b \in Garbled(regs), some \in SUBSET RegsOf(Writes[s]) :
                    regs' = IF alive THEN Written(b, s, v, some) ELSE regs
             /\ Wanted(s, Unknown)
             /\ UNCHANGED d_pretrigger
    <3>1. PICK b \in Garbled(regs), some \in SUBSET RegsOf(Writes[s]) :
              regs' = IF alive THEN Written(b, s, v, some) ELSE regs
      BY <2>2
    <3>2. SetInQueue(s, v, Unknown, b, some, alive)
      BY <2>2, <3>1 DEF SetInQueue, Wanted
    <3> QED
      BY <3>1, <3>2
  <2> QED
    BY <2>1, <2>2 DEF SetQueued
<1> USE DEF SetInQueue
<1> HIDE DEF v
<1>4. WantType' /\ RegistersHold'
  BY <1>2, <1>3, SetterKeeps
<1>5. want'[s] = known /\ \A t \in Settings : t # s => want'[t] \in {Unknown, want[t]}
  BY <1>3 DEF ConfigInv, WantType, Forgotten
<1>6. UNCHANGED <<applied, effective, enable_locking>>
  BY DEF SetQueued
<1>7. AttenuationApplied'
  BY <1>1, <1>5, <1>6, SettingsAre DEF ConfigInv, AttenuationApplied
<1>8. PretriggerKept'
  <2>1. CASE s = "pretrigger"
    BY <1>3, <1>5, <2>1 DEF PretriggerKept
  <2>2. CASE s # "pretrigger"
    BY <1>3, <1>5, <2>2, SettingsAre DEF ConfigInv, PretriggerKept
  <2> QED
    BY <2>1, <2>2
<1> QED
  BY <1>4, <1>7, <1>8 DEF ConfigInv

LEMMA SetAttenuationKeeps ==
    ASSUME ConfigInv, NEW alive \in BOOLEAN, SetAttenuation(ValueOf("attenuation"), alive)
    PROVE  ConfigInv'
<1> DEFINE s == "attenuation"
           v == ValueOf(s)
<1>1. s \in Settings /\ v \in Values(FieldsOf(Writes[s]))
  BY ValuesFit, SettingsAre
<1>2. PICK b \in Garbled(regs) :
          regs' = IF alive THEN Written(b, s, v, RegsOf(Writes[s])) ELSE regs
  BY DEF SetAttenuation
<1>3. PICK known : /\ known = IF alive THEN v ELSE Unknown
                   /\ want' = [(IF stale THEN Forgotten ELSE want) EXCEPT ![s] = known]
  BY DEF SetAttenuation, Wanted
<1>4. UNCHANGED <<enable_locking, d_pretrigger>>
  BY DEF SetAttenuation
<1>5. effective' => ~enable_locking /\ alive /\ applied' = AttenuationOf(regs')
  BY DEF SetAttenuation
<1> HIDE DEF v
<1>6. WantType' /\ RegistersHold'
  BY <1>1, <1>2, <1>3, SetterKeeps
<1>7. want'[s] = known /\ \A t \in Settings : t # s => want'[t] \in {Unknown, want[t]}
  BY <1>1, <1>3 DEF ConfigInv, WantType, Forgotten
<1>8. PretriggerKept'
  BY <1>4, <1>7, SettingsAre DEF ConfigInv, PretriggerKept
<1>9. ASSUME effective' PROVE applied' = Packed(Writes[s], v)
  <2>1. applied' = [r \in RegsOf(Writes[s]) |-> regs'[r]] /\ regs' = Written(b, s, v, RegsOf(Writes[s]))
    BY <1>2, <1>5, <1>9 DEF AttenuationOf
  <2>2. \A r \in RegsOf(Writes[s]) : regs'[r] = Packed(Writes[s], v)[r]
    BY <1>1, <2>1, WrittenMade DEF Made
  <2>3. Packed(Writes[s], v) = [r \in RegsOf(Writes[s]) |-> Packed(Writes[s], v)[r]]
    BY DEF Packed
  <2> QED
    BY <2>1, <2>2, <2>3
<1>10. AttenuationApplied'
  BY <1>3, <1>4, <1>5, <1>7, <1>9 DEF AttenuationApplied
<1> QED
  BY <1>6, <1>8, <1>10 DEF ConfigInv

LEMMA SetAttenuationFailsKeeps ==
    ASSUME ConfigInv, NEW alive \in BOOLEAN, SetAttenuationFails(ValueOf("attenuation"), alive)
    PROVE  ConfigInv'
<1> DEFINE s == "attenuation"
           v == ValueOf(s)
<1>1. s \in Settings
  BY SettingsAre
<1>2. PICK b \in Garbled(regs), some \in SUBSET RegsOf(Writes[s]) :
          regs' = IF alive THEN Written(b, s, v, some) ELSE regs
  BY DEF SetAttenuationFails
<1>3. want' = [(IF stale THEN Forgotten ELSE want) EXCEPT ![s] = Unknown]
  BY DEF SetAttenuationFails, Wanted
<1>4. UNCHANGED <<enable_locking, d_pretrigger>> /\ effective' = FALSE
  BY DEF SetAttenuationFails
<1> HIDE DEF v
<1>5. WantType' /\ RegistersHold'
  BY <1>1, <1>2, <1>3, SetterKeeps
<1>6. \A t \in Settings : t # s => want'[t] \in {Unknown, want[t]}
  BY <1>1, <1>3 DEF ConfigInv, WantType, Forgotten
<1>7. PretriggerKept'
  BY <1>4, <1>6, SettingsAre DEF ConfigInv, PretriggerKept
<1>8. AttenuationApplied'
  BY <1>4 DEF AttenuationApplied
<1> QED
  BY <1>5, <1>7, <1>8 DEF ConfigInv

LEMMA GetKeeps == ASSUME ConfigInv, NEW alive \in BOOLEAN, Get(alive) PROVE ConfigInv'
<1>1. /\ want' = IF stale THEN Forgotten ELSE want
      /\ ~stale => regs' = regs
      /\ UNCHANGED <<d_pretrigger, applied, effective, enable_locking>>
  BY DEF Get, Garbled
<1>2. WantType' /\ RegistersHold'
  BY <1>1 DEF ConfigInv, WantType, RegistersHold, Forgotten
<1>3. PretriggerKept' /\ AttenuationApplied'
  BY <1>1, SettingsAre, OthersKeep DEF Forgotten
<1> QED
  BY <1>2, <1>3 DEF ConfigInv

LEMMA PowerCycledKeeps == ASSUME ConfigInv, PowerCycled PROVE ConfigInv'
<1>1. WantType' /\ RegistersHold'
  BY DEF PowerCycled, WantType, RegistersHold, Forgotten
<1>2. PretriggerKept' /\ AttenuationApplied'
  BY SettingsAre DEF PowerCycled, PretriggerKept, AttenuationApplied, Forgotten
<1> QED
  BY <1>1, <1>2 DEF ConfigInv

LEMMA ConfigUnchanged == ASSUME ConfigInv, UNCHANGED config PROVE ConfigInv'
BY DEF ConfigInv, WantType, RegistersHold, PretriggerKept, AttenuationApplied, config

LEMMA ConfigStep == ConfigInv /\ [Next]_vars => ConfigInv'
<1> SUFFICES ASSUME ConfigInv, [Next]_vars PROVE ConfigInv'
  OBVIOUS
<1>1. CASE Call
  <2>1. CASE SetAny(Alive) \/ Get(Alive)
    <3>1. PICK alive \in BOOLEAN : SetAny(alive) \/ Get(alive)
      <4>1. Alive \in BOOLEAN
        BY DEF Alive
      <4> QED
        BY <2>1, <4>1
    <3>2. CASE Get(alive)
      BY <3>2, GetKeeps
    <3>3. CASE \E s \in Settings : SetDirect(s, ValueOf(s), alive) \/ SetQueued(s, ValueOf(s), alive)
      BY <3>3, SetDirectKeeps, SetQueuedKeeps
    <3>4. CASE \/ SetAttenuation(ValueOf("attenuation"), alive)
               \/ SetAttenuationFails(ValueOf("attenuation"), alive)
      BY <3>4, SetAttenuationKeeps, SetAttenuationFailsKeeps
    <3> QED
      BY <3>1, <3>2, <3>3, <3>4 DEF SetAny
  <2>2. CASE Power
    BY <2>2, PowerCycledKeeps, ConfigUnchanged DEF Power
  <2>3. CASE UNCHANGED config
    BY <2>3, ConfigUnchanged
  <2> QED
    BY <1>1, <2>1, <2>2, <2>3 DEF Call
<1>2. CASE Continue
  BY <1>2, ConfigUnchanged DEF Continue
<1>3. CASE UNCHANGED vars
  BY <1>3, ConfigUnchanged DEF vars
<1> QED
  BY <1>1, <1>2, <1>3 DEF Next

LEMMA ConfigStart == Init => ConfigInv
<1> SUFFICES ASSUME ConfigInit PROVE ConfigInv
  BY DEF Init
<1>1. want = Forgotten /\ effective = FALSE
  BY DEF ConfigInit
<1> QED
  BY <1>1, SettingsAre DEF ConfigInv, WantType, RegistersHold, PretriggerKept, AttenuationApplied, Forgotten

\* A getter returns what was set, within the bits that are written, whatever was set of other
\* settings, whatever failed and through power cycles; and an attenuation that takes effect
\* is the one that was set, on a handle without locking.
THEOREM SettingsReadBack == Spec => []ReadsBack
<1>1. ConfigInv => ReadsBack
  <2> SUFFICES ASSUME ConfigInv PROVE ReadsBack
    OBVIOUS
  <2>1. ASSUME NEW s \in Settings, want[s] # Unknown
        PROVE  Unpacked(Reads[s], regs) = Held(s, want[s])
    <3>1. want[s] \in Values(FieldsOf(Writes[s])) /\ Made(Writes[s], want[s], regs)
      BY <2>1 DEF ConfigInv, WantType, RegistersHold
    <3> QED
      BY <3>1, GettersInvertSetters DEF Recovers
  <2> QED
    BY <2>1 DEF ReadsBack, ConfigInv, PretriggerKept, AttenuationApplied
<1> QED
  BY <1>1, ConfigStart, ConfigStep, PTL DEF Spec
=============================================================================
