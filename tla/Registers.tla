------------------------------- MODULE Registers -------------------------------
(***************************************************************************)
(* How libbeacon packs values into the registers of the board and takes    *)
(* them out again: a layout is a set of pieces, each of them some bits of  *)
(* a value at some bits of a register.  The setters and the getters of     *)
(* beacondaq.c have a table each, written from their own lines, and so     *)
(* have the records that are read: headers, scalers, firmware information. *)
(*                                                                         *)
(* A register is the 24 bits b[1] b[2] b[3] of the four bytes of a         *)
(* transfer; b[0] is its address.                                          *)
(***************************************************************************)
EXTENDS Integers, FiniteSetsExt, Functions

CONSTANTS
    NumBeams,       \* BN_NUM_BEAMS
    NumScalers      \* BN_NUM_SCALERS

ASSUME NumbersAssumption == /\ NumBeams \in Nat \ {0} /\ NumScalers \in Nat \ {0}
                            /\ (NumScalers * (1 + NumBeams)) % 2 = 1    \* N_SCALER_REGISTERS

NumChan   == 8
Threshold == 2^20 - 1       \* the largest threshold a register holds

\* A field of a value: its name, its index in an array, and its width in C, or as far as
\* the values go that are of interest: 24 of the 32 bits of a trigger mask, whose upper
\* byte beacon_set_trigger_mask drops, one per beam; 21 of those of a threshold.
Field(name, width) == <<name, 0, width>>

\* The n bits from bit lo of a field, at bit `at` of a register.
Piece(f, reg, at, lo, n) == [field |-> f, reg |-> reg, at |-> at, lo |-> lo, n |-> n]

Flag(name, reg, at)  == Piece(Field(name, 1), reg, at, 0, 1)
ByteAt(name, reg, at) == Piece(Field(name, 8), reg, at, 0, 8)

\* A byte of each channel, in the registers for channels 0 to 2, 3 to 5, 6 and 7.
ChannelBytes(name, reg) ==
    {Piece(<<name, c, 8>>, reg + (c \div 3), 8 * (c % 3), 0, 8) : c \in 0 .. NumChan - 1}

\* A 16-bit value in two bytes, and a 24-bit value in three.
TwoBytes(name, reg, at)  == {Piece(Field(name, 16), reg, at, 0, 8),
                             Piece(Field(name, 16), reg, at + 8, 8, 8)}
ThreeBytes(name, reg) == {Piece(Field(name, 24), reg, 8 * b, 8 * b, 8) : b \in 0 .. 2}

-----------------------------------------------------------------------------
\* The settings: what the setter of each writes and what its getter takes out.

Setting(writes, reads) == [writes |-> writes, reads |-> reads]

\* The getter returns d->pretrigger; the register has no reader.
Pretrigger == Setting({Piece(Field("pretrigger", 8), 76, 0, 0, 4)},
                      {Piece(Field("pretrigger", 8), 76, 0, 0, 4)})

ChannelMask == Setting({ByteAt("mask", 48, 0)}, {ByteAt("mask", 48, 0)})

TriggerMask == Setting(ThreeBytes("mask", 80), {Piece(Field("mask", 24), 80, 0, 0, 24)})

ThresholdPieces(at, lo, n) == {Piece(<<"threshold", i, 21>>, 129 + i, at, lo, n) : i \in 0 .. NumBeams - 1}
Thresholds ==
    Setting(ThresholdPieces(0, 0, 20),
            ThresholdPieces(0, 0, 8) \cup ThresholdPieces(8, 8, 8) \cup ThresholdPieces(16, 16, 4))

Attenuation == Setting(ChannelBytes("attenuation", 50), ChannelBytes("attenuation", 50))

TriggerEnables ==
    Setting({Flag("beam8", 82, 8), Flag("beam4a", 82, 9), Flag("beam4b", 82, 10),
             Flag("beamforming", 82, 0)},
            {Flag("beamforming", 82, 0), Flag("beam8", 82, 8), Flag("beam4a", 82, 9),
             Flag("beam4b", 82, 10)})

Polarization == Setting({ByteAt("polarization", 79, 0)}, {ByteAt("polarization", 79, 0)})

\* Twelve bits are written, and sixteen read.
Holdoff == Setting({Piece(Field("holdoff", 16), 81, 8, 8, 4), Piece(Field("holdoff", 16), 81, 0, 0, 8)},
                   TwoBytes("holdoff", 81, 0))

TriggerOutput ==
    Setting({ByteAt("width", 83, 8), Flag("enable", 83, 0), Flag("polarity", 83, 1),
             Flag("send_1Hz", 83, 2)},
            {ByteAt("width", 83, 8), Flag("enable", 83, 0), Flag("polarity", 83, 1),
             Flag("send_1Hz", 83, 2)})

\* Of the low byte of trig_delay, & 8 leaves one bit; it is read whole.
ExtTrigger ==
    Setting({Flag("use_as_trigger", 75, 0), Piece(Field("trig_delay", 16), 75, 16, 8, 8),
             Piece(Field("trig_delay", 16), 75, 11, 3, 1)},
            {Flag("use_as_trigger", 75, 0)} \cup TwoBytes("trig_delay", 75, 8))

Verification == Setting({Flag("mode", 85, 0)}, {Flag("mode", 85, 0)})

TriggerDelays == Setting(ChannelBytes("delay", 61), ChannelBytes("delay", 61))

LowPass == Setting({Flag("on", 90, 0)}, {Flag("on", 90, 0)})

DynamicMasking ==
    Setting({Flag("enable", 93, 8), ByteAt("threshold", 93, 0)} \cup TwoBytes("holdoff", 94, 0),
            {Flag("enable", 93, 8), ByteAt("threshold", 93, 0)} \cup TwoBytes("holdoff", 94, 0))

VetoOptions ==
    Setting({Flag("saturation", 95, 0), Flag("cw", 95, 1), Flag("sideswipe", 95, 2),
             Flag("extended", 95, 3), ByteAt("pulse_width", 95, 8),
             ByteAt("sideswipe_cut", 96, 16), ByteAt("cw_cut", 96, 8),
             ByteAt("saturation_cut", 96, 0), ByteAt("extended_cut", 97, 0)},
            {Flag("saturation", 95, 0), Flag("cw", 95, 1), Flag("sideswipe", 95, 2),
             Flag("extended", 95, 3), ByteAt("pulse_width", 95, 8),
             ByteAt("saturation_cut", 96, 0), ByteAt("cw_cut", 96, 8),
             ByteAt("sideswipe_cut", 96, 16), ByteAt("extended_cut", 97, 0)})

Layouts == [pretrigger |-> Pretrigger, channel_mask |-> ChannelMask, trigger_mask |-> TriggerMask,
            thresholds |-> Thresholds, attenuation |-> Attenuation,
            trigger_enables |-> TriggerEnables, polarization |-> Polarization,
            holdoff |-> Holdoff, trigger_output |-> TriggerOutput, ext_trigger |-> ExtTrigger,
            verification |-> Verification, trigger_delays |-> TriggerDelays,
            low_pass |-> LowPass, dynamic_masking |-> DynamicMasking,
            veto_options |-> VetoOptions]
Settings == DOMAIN Layouts
Writes   == [s \in Settings |-> Layouts[s].writes]
Reads    == [s \in Settings |-> Layouts[s].reads]

-----------------------------------------------------------------------------
\* Packing and unpacking.

Bits(word, lo, n) == (word \div 2^lo) % 2^n

\* beacon_set_thresholds: threshold <= 0xfffff ? threshold : 0xfffff
Clipped(f, x) == IF f[1] = "threshold" /\ x > Threshold /\ f[3] = 21 THEN Threshold ELSE x

FieldsOf(pieces) == {p.field : p \in pieces}
RegsOf(pieces)   == {p.reg : p \in pieces}

\* The registers that a value makes; bits that no piece names are 0.
Packed(pieces, value) ==
    [r \in RegsOf(pieces) |->
        SumFunction([p \in {q \in pieces : q.reg = r} |->
                        Bits(Clipped(p.field, value[p.field]), p.lo, p.n) * 2^p.at])]

\* The value in registers; the assignment to a field keeps the bits it has room for.
Unpacked(pieces, regs) ==
    [f \in FieldsOf(pieces) |->
        SumFunction([p \in {q \in pieces : q.field = f} |-> Bits(regs[p.reg], p.at, p.n) * 2^p.lo])
            % 2^f[3]]

-----------------------------------------------------------------------------
\* Records that are only read.

\* REG_TRIG_INFO (17) and REG_CH_MASKS (18) as their comments in the register map have
\* them, and the gate flag.
HeaderLayout ==
    {Piece(Field("buffer_number", 2), 17, 22, 0, 2), Flag("calpulser", 17, 21),
     Piece(Field("pretrig_window", 3), 17, 17, 0, 3), Piece(Field("trig_type", 2), 17, 15, 0, 2),
     Piece(Field("trig_pol", 4), 17, 0, 0, 4),
     Flag("gate_flag", 18, 23), Piece(Field("channel_mask", 8), 18, 15, 0, 8),
     Piece(Field("trig_beams", 15), 18, 0, 0, 15)}

\* How beacon_read_multiple_ptr takes them apart.
HeaderReads ==
    {Piece(Field("buffer_number", 2), 17, 22, 0, 2), Piece(Field("trig_type", 2), 17, 15, 0, 2),
     Flag("calpulser", 17, 21), Piece(Field("trig_pol", 4), 17, 0, 0, 4),
     Flag("gate_flag", 18, 23), Piece(Field("channel_mask", 8), 18, 15, 0, 8)}

\* N_SCALER_REGISTERS for the NumValues scalers: two to a register.
NumValues           == NumScalers * (1 + NumBeams)
NumScalerRegisters  == 1 + (NumValues \div 2)

\* The i-th scaler is the global one of a kind or that of a beam.
ScalerField(i) ==
    LET which == i \div (1 + NumBeams)
        channel == i % (1 + NumBeams)
    IN  IF channel = 0 THEN <<"global", which, 12>>
        ELSE <<"beam", which * NumBeams + channel - 1, 12>>

\* The board: twelve bits each, one after the other, those of a kind together.
ScalerLayout ==
    UNION {{Piece(IF b = 0 THEN <<"global", k, 12>> ELSE <<"beam", k * NumBeams + b - 1, 12>>,
                  (k * (1 + NumBeams) + b) \div 2, 12 * ((k * (1 + NumBeams) + b) % 2), 0, 12) :
               b \in 0 .. NumBeams} : k \in 0 .. NumScalers - 1}

\* A fault for the checks to find: the upper four bits of the byte.
FirstPiecesUpper(r) ==
    {Piece(ScalerField(2 * r), r, 0, 0, 8), Piece(ScalerField(2 * r), r, 12, 8, 4)}

\* beacon_read_status: `first` and `second` of each register, but not what would be past
\* the end of scaler_values.
FirstPieces(r) == {Piece(ScalerField(2 * r), r, 0, 0, 8), Piece(ScalerField(2 * r), r, 8, 8, 4)}
SecondPieces(r) == {Piece(ScalerField(2 * r + 1), r, 12, 0, 4),
                    Piece(ScalerField(2 * r + 1), r, 16, 4, 8)}
ScalerReads ==
    UNION {FirstPieces(r) \cup (IF 2 * r + 1 < NumValues THEN SecondPieces(r) ELSE {}) :
              r \in 0 .. NumScalerRegisters - 1}

\* The rest of a status: the PPS time latched in two registers, whose halves are fields
\* of 24 bits here, the dynamic mask and the veto status.
StatusReads == ThreeBytes("latched_pps_low", 44) \cup ThreeBytes("latched_pps_high", 45)
    \cup ThreeBytes("dynamic_beam_mask", 34) \cup {Piece(Field("veto_status", 2), 33, 0, 0, 2)}

\* beacon_fwinfo; the 64 bits of the dna are three fields here.  Eight bits are taken for
\* the day, a field of five.
FwinfoReads ==
    {Piece(Field("major", 4), 1, 4, 0, 4), Piece(Field("minor", 4), 1, 0, 0, 4), Flag("master", 1, 16),
     Piece(Field("day", 5), 2, 0, 0, 8), Piece(Field("month", 4), 2, 8, 0, 4),
     Piece(Field("year", 12), 2, 12, 0, 4), Piece(Field("year", 12), 2, 16, 4, 8)}
    \cup ThreeBytes("dna_low", 4) \cup ThreeBytes("dna_mid", 5) \cup TwoBytes("dna_hi", 6, 0)

-----------------------------------------------------------------------------
\* Each field of a record is read whole, and no bit of a register is read twice; what is
\* taken for a field that has no room for it is lost.
BitsIn(p)   == {<<p.reg, b>> : b \in p.at .. p.at + p.n - 1}
BitsOf(p)   == {<<p.field, b>> : b \in p.lo .. p.lo + p.n - 1}
ReadWhole(pieces) ==
    /\ \A p, q \in pieces : p # q => BitsIn(p) \cap BitsIn(q) = {}
    /\ \A p \in pieces : p.at + p.n <= 24
    /\ UNION {{f} \X (0 .. f[3] - 1) : f \in FieldsOf(pieces)}
           \subseteq UNION {BitsOf(p) : p \in pieces}
Lost(pieces) == {b \in UNION {BitsOf(p) : p \in pieces} : b[2] >= b[1][3]}

\* Values of a layout: one with all fields different from 0, and those with a single one.
Pattern(f)      == 715827 % 2^f[3]
AllOf(fields)   == [f \in fields |-> Pattern(f)]
Single(fields)  == UNION {{[g \in fields |-> IF g = f THEN x ELSE 0] :
                              x \in {Pattern(f), 2^f[3] - 1}} : f \in fields}
=============================================================================
