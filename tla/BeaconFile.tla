------------------------------ MODULE BeaconFile ------------------------------
(***************************************************************************)
(* The files of beacon.c: records appended by beacon_X_write and read back *)
(* by beacon_X_read, for X one of header, event, status and hk.  A file    *)
(* holds records of one type.                                              *)
(*                                                                         *)
(* A record is a packet_start (magic, version, checksum) and a body.  Old  *)
(* files hold bodies of older versions, which lack the last fields; the    *)
(* reader fills a struct of the newest version.  A record may be cut short *)
(* (the writing process dies, the disk is full) and others appended after  *)
(* it, and a file may be read while it is still being written.             *)
(*                                                                         *)
(* A file is a sequence of cells; a cell is one field, whatever its width. *)
(* The checksum is taken to tell every two bodies apart; what it does is   *)
(* in Fletcher.                                                            *)
(***************************************************************************)
EXTENDS Integers, Sequences, SequencesExt, Fletcher

CONSTANTS
    Types,          \* what files hold: of "header", "event", "status" and "hk"
    Values,         \* values of a field
    NumChan,        \* BN_NUM_CHAN
    MaxLength,      \* bound: buffer_length of an event
    MaxCells        \* bound: cells of all records that are written

ASSUME TypesAssumption == Types \subseteq {"header", "event", "status", "hk"}
ASSUME ValuesAssumption == {0, 1} \subseteq Values /\ Values \subseteq 0 .. 9
ASSUME SizesAssumption == /\ NumChan \in Nat \ {0} /\ MaxLength \in Nat
                          /\ MaxCells \in Nat

VARIABLES
    type,           \* of the file
    file,           \* the cells on disk
    pending,        \* cells of the record being written that are not on disk
    begun,          \* history: records the writer was asked to write
    done,           \* history: records written completely
    torn,           \* history: a record was cut short
    intact,         \* history: number of records written completely before that
    pos,            \* the reader's file position
    mem,            \* the fields of the struct the reader passes
    returned,       \* history: what the successful reads returned
    lost,           \* history: a read has failed, other than at the end of the file
    early           \* history: a read ran into a record still being written

writer == <<type, file, pending, begun, done, torn, intact>>
reader == <<pos, mem, returned, lost, early>>
vars   == <<writer, reader>>

-----------------------------------------------------------------------------
\* The on-disk format.

\* BEACON_*_MAGIC: a value that also occurs in bodies.
Magic == 1

\* BEACON_*_VERSION
CurrentVersion == [header |-> 2, event |-> 0, status |-> 2, hk |-> 1]

\* Fields of the body by version, of an event those of fixed size:
\*   header: all of v0, pps_counter, dynamic_beam_mask, veto_deadtime_counter
\*   status: all of v0 before board_id, board_id, dynamic_beam_mask, veto_status
\*   hk:     all of v0, the battery and solar fields
\*   event:  event_number, buffer_length, board_id
NumFields ==
    [header |-> <<1, 3, 4>>, status |-> <<2, 3, 4>>, hk |-> <<1, 2>>, event |-> <<3>>]

\* Fields of the struct the reader fills, which is that of the newest version.
Fields == 1 .. Last(NumFields[type])

\* Samples of an event: NumChan waveforms, none for a board that is not there.
NumSamples(fixed) == IF fixed[3] = 0 THEN 0 ELSE NumChan * fixed[2]

EventBodies ==
    UNION {{fixed \o data : data \in [1 .. NumSamples(fixed) -> Values]} :
              fixed \in Values \X (0 .. MaxLength) \X {0, 1}}

\* Records of every version up to the current one: the older ones come from
\* files written by older releases.
Records == [t \in Types |->
    UNION {{[ver |-> v, body |-> b] :
                b \in IF t = "event" THEN EventBodies ELSE [1 .. NumFields[t][v + 1] -> Values]}
              : v \in 0 .. CurrentVersion[t]}]

\* The checksum of a body; read as anything else it is no valid value.
Checksum(body) == <<1000>> \o body

Encode(r) == <<<<Magic>>, <<r.ver>>, Checksum(r.body)>>
             \o [i \in 1 .. Len(r.body) |-> <<r.body[i]>>]

-----------------------------------------------------------------------------
\* beacon_X_generic_read, on the cells c from the file position on: the result,
\* the number of cells consumed, the version and the part of the body that the
\* struct receives (checksum and record length are looked at after that).

\* Values of the cells from .. to, as they are in memory.
Raw(c, from, to) == [i \in 1 .. to - from + 1 |-> c[from + i - 1][1]]

\* A fault for the checks to find: an event always holds the samples of the board.
BodySizeAllBoards(c, ver) ==
    IF Len(c) < 6 THEN 3 ELSE 3 + NumChan * c[5][1]

\* The lengths are those of the writers, at most BN_MAX_WAVEFORM_LENGTH: the code takes any
\* from the file, and what one above it does to memory is outside of this module.
BodySize(c, ver) ==
    CASE type # "event" -> NumFields[type][ver + 1]
      [] type = "event" /\ Len(c) < 6 -> 3
      [] type = "event" /\ Len(c) >= 6 -> 3 + NumSamples(Raw(c, 4, 6))

\* Faults: the checksum is not compared, or a byte too many is skipped.
UncheckedResult(c, size) == IF Len(c) < 3 + size THEN "short" ELSE "none"
NoStartLong(err, used) ==
    [err |-> err, used |-> used + 1, ver |-> CurrentVersion[type], body |-> <<>>]

\* The result for a body of that many cells.
Result(c, size) ==
    IF Len(c) < 3 + size THEN "short"
    ELSE IF Checksum(Raw(c, 4, 3 + size)) # c[3] THEN "checksum" ELSE "none"

ReadBody(c) ==
    LET size == BodySize(c, c[2][1])
        used == IF Len(c) < 3 + size THEN Len(c) ELSE 3 + size
    IN  [err  |-> Result(c, size), used |-> used, ver |-> c[2][1], body |-> Raw(c, 4, used)]

\* packet_start_read fails: nothing but its bytes has been read.
NoStart(err, used) == [err |-> err, used |-> used, ver |-> CurrentVersion[type], body |-> <<>>]

\* packet_start_read, then the body
ReadRecord(c) ==
    IF c[1][1] # Magic THEN NoStart("type", 1)
    ELSE IF Len(c) = 1 THEN NoStart("short", 1)
    ELSE IF c[2][1] > CurrentVersion[type] THEN NoStart("version", 2)
    ELSE IF Len(c) = 2 THEN NoStart("short", 2)
    ELSE ReadBody(c)

\* Faults: too much is set to zero, or nothing is.
ZeroedAll(ver)  == IF ver < CurrentVersion[type] THEN Fields ELSE {}
ZeroedNone(ver) == {}

\* Fields the reader sets to zero after a body of an old version.
Zeroed(ver) ==
    CASE type = "header" /\ ver = 0 -> {2, 3}
      [] type = "header" /\ ver = 1 -> {2, 3, 4}
      [] type = "status" /\ ver = 0 -> {3, 4}
      [] type = "status" /\ ver = 1 -> {4}
      [] type = "hk"     /\ ver = 0 -> {2}
      [] OTHER -> {}

\* The struct after the read: the body over what was there, then the fields
\* above; a v0 status gets board_id 1.
Fill(ver, body) ==
    [f \in Fields |->
        IF f \in Zeroed(ver) THEN 0
        ELSE IF type = "status" /\ ver = 0 /\ f = 2 THEN 1
        ELSE IF f <= Len(body) THEN body[f] ELSE mem[f]]

-----------------------------------------------------------------------------
Init ==
    /\ type \in Types
    /\ file = <<>> /\ pending = <<>> /\ begun = <<>> /\ done = <<>>
    /\ torn = FALSE /\ intact = 0
    /\ pos = 0
    /\ mem = [f \in Fields |-> 1]       \* the caller need not zero the struct
    /\ returned = <<>> /\ lost = FALSE /\ early = FALSE

\* A call of beacon_X_write.
Begin(r) ==
    /\ pending = <<>>
    /\ FoldLeft(LAMBDA n, b : n + Len(Encode(b)), Len(Encode(r)), begun) <= MaxCells
    /\ pending' = Encode(r)
    /\ begun' = Append(begun, r)
    /\ UNCHANGED <<type, file, done, torn, intact, reader>>

\* stdio and zlib hand their buffers to the disk in pieces of any size.
Flush(n) ==
    /\ n \in 1 .. Len(pending)
    /\ file' = file \o SubSeq(pending, 1, n)
    /\ pending' = SubSeq(pending, n + 1, Len(pending))
    /\ done' = IF n = Len(pending) THEN Append(done, begun[Len(begun)]) ELSE done
    /\ UNCHANGED <<type, begun, torn, intact, reader>>

\* A write fails (BN_ERR_NOT_ENOUGH_BYTES) or the process dies: what is on disk
\* stays, and the next record is appended to it.
CutShort ==
    /\ pending # <<>>
    /\ pending' = <<>>
    /\ torn' = TRUE
    /\ intact' = IF torn THEN intact ELSE Len(done)
    /\ UNCHANGED <<type, file, begun, done, reader>>

\* A call of beacon_X_read on what is on disk.
Read ==
    /\ pos < Len(file)
    /\ LET r == ReadRecord(SubSeq(file, pos + 1, Len(file)))
       IN  /\ pos' = pos + r.used
           /\ lost' = (lost \/ r.err # "none")
           /\ early' = (early \/ (r.err = "short" /\ pending # <<>>))
           /\ mem' = Fill(r.ver, r.body)
           /\ returned' = IF r.err = "none"
                          THEN Append(returned, [rec |-> [ver |-> r.ver, body |-> r.body],
                                                 fields |-> mem'])
                          ELSE returned
    /\ UNCHANGED writer

Next == \/ \E r \in Records[type] : Begin(r)
        \/ \E n \in 1 .. Len(pending) : Flush(n)
        \/ CutShort
        \/ Read

Spec == Init /\ [][Next]_vars

-----------------------------------------------------------------------------
\* s is t without some of its elements.
Subsequence(s, t) ==
    \E at \in [DOMAIN s -> DOMAIN t] :
        /\ \A i, j \in DOMAIN s : i < j => at[i] < at[j]
        /\ \A i \in DOMAIN s : s[i] = t[at[i]]

TypeOK ==
    /\ pending # <<>> => begun # <<>> /\ IsSuffix(pending, Encode(Last(begun)))
    /\ \A i \in DOMAIN begun : begun[i] \in Records[type]
    /\ Subsequence(done, begun)
    /\ torn \in BOOLEAN /\ intact \in 0 .. Len(done)
    /\ pos \in 0 .. Len(file)
    /\ DOMAIN mem = Fields
    /\ lost \in BOOLEAN /\ early \in BOOLEAN /\ (early => lost)

Returned == [i \in DOMAIN returned |-> returned[i].rec]
Intact   == IF torn THEN SubSeq(done, 1, intact) ELSE done

\* What was written is read back, version by version, in order and unchanged: all
\* of it when nothing was cut short, and otherwise all that precedes the first
\* record that was.  No read fails before that point, unless it runs into a
\* record that is still being written.
ReadBack ==
    ~early => /\ IsPrefix(Returned, Intact) \/ (torn /\ IsPrefix(Intact, Returned))
              /\ lost => torn /\ IsPrefix(Intact, Returned)
              /\ pos = Len(file) /\ pending = <<>> => IsPrefix(Intact, Returned)

\* Whatever was cut short, and however often the reader goes on after an error,
\* what a successful read returns is a record somebody wrote: no record is made
\* up of parts of others, none is returned twice and none out of order.
NoFalseRecord == Subsequence(Returned, begun)

\* Where the readers of old versions fall short of this: stored fields that are
\* overwritten and missing fields that are not set.
Overwritten(ver) ==
    CASE type = "header" /\ ver = 1 -> {2, 3}
      [] type = "status" /\ ver = 0 -> {2}
      [] OTHER -> {}
Forgotten(ver) == IF type = "header" /\ ver = 0 THEN {4} ELSE {}

\* A successful read of any version leaves in the struct every field the file
\* holds, except for those named above.
StoredKept ==
    \A i \in DOMAIN returned : LET r == returned[i].rec IN
        \A f \in Fields \ Overwritten(r.ver) :
            f <= Len(r.body) => returned[i].fields[f] = r.body[f]

\* A successful read of an old version leaves zero in the fields it lacks, not
\* what the caller's struct held, except for those named above.
MissingZero ==
    \A i \in DOMAIN returned : LET r == returned[i].rec IN
        \A f \in Fields \ Forgotten(r.ver) :
            f > Len(r.body) => returned[i].fields[f] = 0

\* The checksum of the code sees damage to one byte, and two bytes that have changed
\* places, with the exceptions that `Detects` names: looked at once, before any record.
ChecksumDetects == begun = <<>> => Detects

-----------------------------------------------------------------------------
\* What the documentation says and the code does not do.

\* beacon.h: the read functions are to be used as they "handle the versioning
\* properly": the struct has what the record holds, and zero elsewhere.
VersionsHandled ==
    \A i \in DOMAIN returned : LET r == returned[i].rec IN
        \A f \in Fields :
            returned[i].fields[f] = IF f <= Len(r.body) THEN r.body[f] ELSE 0
==============================================================================
