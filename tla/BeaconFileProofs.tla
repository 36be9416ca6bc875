----------------------------- MODULE BeaconFileProofs -----------------------------
(* Theorems about BeaconFile: what a successful read of any version leaves in the struct, *)
(* that it returns only what was written, whatever the file holds, wherever it was cut    *)
(* short and wherever the reader stands; and that what was written is read back: all of   *)
(* it, in order and unchanged, up to the first record that was cut short.                 *)
EXTENDS BeaconFile, SequenceTheorems, TLAPS

-----------------------------------------------------------------------------
\* The invariant.

Cell == {c \in Seq(Nat) : Len(c) > 0}

ReadResult == [rec : [ver : Nat, body : Seq(Nat)], fields : [Fields -> Nat]]

FileType ==
    /\ type \in Types
    /\ file \in Seq(Cell) /\ pending \in Seq(Cell)
    /\ pos \in 0 .. Len(file)
    /\ mem \in [Fields -> Nat]
    /\ returned \in Seq(ReadResult)

FileInv == FileType /\ StoredKept /\ MissingZero

-----------------------------------------------------------------------------
\* The format.

LEMMA Versions ==
    /\ CurrentVersion["header"] = 2 /\ CurrentVersion["event"] = 0
    /\ CurrentVersion["status"] = 2 /\ CurrentVersion["hk"] = 1
BY DEF CurrentVersion

LEMMA Counts ==
    /\ NumFields["header"] = <<1, 3, 4>> /\ NumFields["status"] = <<2, 3, 4>>
    /\ NumFields["hk"] = <<1, 2>> /\ NumFields["event"] = <<3>>
BY DEF NumFields

LEMMA FieldsAre ==
    /\ type = "header" => Fields = 1 .. 4
    /\ type = "status" => Fields = 1 .. 4
    /\ type = "hk" => Fields = 1 .. 2
    /\ type = "event" => Fields = 1 .. 3
<1>1. Last(<<1, 3, 4>>) = 4 /\ Last(<<2, 3, 4>>) = 4 /\ Last(<<1, 2>>) = 2 /\ Last(<<3>>) = 3
  BY DEF Last
<1>2. CASE type = "header"
  BY <1>1, <1>2, Counts DEF Fields
<1>3. CASE type = "status"
  BY <1>1, <1>3, Counts DEF Fields
<1>4. CASE type = "hk"
  BY <1>1, <1>4, Counts DEF Fields
<1>5. CASE type = "event"
  BY <1>1, <1>5, Counts DEF Fields
<1> QED
  BY <1>2, <1>3, <1>4, <1>5

LEMMA FieldsNat == ASSUME type \in Types PROVE Fields \subseteq Nat \ {0}
BY FieldsAre, TypesAssumption

\* What a struct holds after a body of a version: the fields of the body, and zero.
LEMMA FillKeeps ==
    ASSUME type \in Types, NEW ver \in Nat, ver <= CurrentVersion[type], NEW body \in Seq(Nat),
           type # "event" => Len(body) = NumFields[type][ver + 1],
           type = "event" => Len(body) >= 3,
           NEW f \in Fields
    PROVE  /\ f \notin Overwritten(ver) /\ f <= Len(body) => Fill(ver, body)[f] = body[f]
           /\ f \notin Forgotten(ver) /\ f > Len(body) => Fill(ver, body)[f] = 0
<1>1. Fill(ver, body)[f] = IF f \in Zeroed(ver) THEN 0
                           ELSE IF type = "status" /\ ver = 0 /\ f = 2 THEN 1
                           ELSE IF f <= Len(body) THEN body[f] ELSE mem[f]
  BY DEF Fill
<1>2. CASE type = "header"
  <2>1. f \in 1 .. 4 /\ ver \in {0, 1, 2}
    BY <1>2, FieldsAre, Versions
  <2>2. CASE ver = 0
    <3>1. Len(body) = 1 /\ Zeroed(ver) = {2, 3} /\ Forgotten(ver) = {4}
      BY <1>2, <2>2, Counts DEF Zeroed, Forgotten
    <3> QED
      BY <1>1, <1>2, <2>1, <3>1
  <2>3. CASE ver = 1
    <3>1. Len(body) = 3 /\ Zeroed(ver) = {2, 3, 4} /\ Overwritten(ver) = {2, 3}
      BY <1>2, <2>3, Counts DEF Zeroed, Overwritten
    <3> QED
      BY <1>1, <1>2, <2>1, <3>1
  <2>4. CASE ver = 2
    <3>1. Len(body) = 4 /\ Zeroed(ver) = {}
      BY <1>2, <2>4, Counts DEF Zeroed
    <3> QED
      BY <1>1, <1>2, <2>1, <3>1
  <2> QED
    BY <2>1, <2>2, <2>3, <2>4
<1>3. CASE type = "status"
  <2>1. f \in 1 .. 4 /\ ver \in {0, 1, 2}
    BY <1>3, FieldsAre, Versions
  <2>2. CASE ver = 0
    <3>1. Len(body) = 2 /\ Zeroed(ver) = {3, 4} /\ Overwritten(ver) = {2}
      BY <1>3, <2>2, Counts DEF Zeroed, Overwritten
    <3> QED
      BY <1>1, <2>1, <3>1
  <2>3. CASE ver = 1
    <3>1. Len(body) = 3 /\ Zeroed(ver) = {4}
      BY <1>3, <2>3, Counts DEF Zeroed
    <3> QED
      BY <1>1, <2>1, <2>3, <3>1
  <2>4. CASE ver = 2
    <3>1. Len(body) = 4 /\ Zeroed(ver) = {}
      BY <1>3, <2>4, Counts DEF Zeroed
    <3> QED
      BY <1>1, <2>1, <2>4, <3>1
  <2> QED
    BY <2>1, <2>2, <2>3, <2>4
<1>4. CASE type = "hk"
  <2>1. f \in 1 .. 2 /\ ver \in {0, 1}
    BY <1>4, FieldsAre, Versions
  <2>2. CASE ver = 0
    <3>1. Len(body) = 1 /\ Zeroed(ver) = {2}
      BY <1>4, <2>2, Counts DEF Zeroed
    <3> QED
      BY <1>1, <1>4, <2>1, <3>1
  <2>3. CASE ver = 1
    <3>1. Len(body) = 2 /\ Zeroed(ver) = {}
      BY <1>4, <2>3, Counts DEF Zeroed
    <3> QED
      BY <1>1, <1>4, <2>1, <3>1
  <2> QED
    BY <2>1, <2>2, <2>3
<1>5. CASE type = "event"
  <2>1. f \in 1 .. 3 /\ Len(body) >= 3 /\ Zeroed(ver) = {}
    BY <1>5, FieldsAre DEF Zeroed
  <2> QED
    BY <1>1, <1>5, <2>1
<1> QED
  BY <1>2, <1>3, <1>4, <1>5, TypesAssumption

LEMMA FillType ==
    ASSUME FileType, NEW ver, NEW body \in Seq(Nat)
    PROVE  Fill(ver, body) \in [Fields -> Nat]
<1>1. ASSUME NEW f \in Fields, f <= Len(body) PROVE body[f] \in Nat
  BY <1>1, FieldsNat DEF FileType
<1>2. ASSUME NEW f \in Fields PROVE mem[f] \in Nat
  BY <1>2 DEF FileType
<1> QED
  BY <1>1, <1>2 DEF Fill

-----------------------------------------------------------------------------
\* What the writer puts into the file.

LEMMA TupleOver ==
    ASSUME NEW S \in SUBSET Nat, NEW n \in Nat, NEW s \in [1 .. n -> S]
    PROVE  s \in Seq(Nat)
<1>1. s \in [1 .. n -> Nat]
  OBVIOUS
<1> QED
  BY <1>1

LEMMA RecordType ==
    ASSUME type \in Types, NEW r \in Records[type]
    PROVE  r.ver \in Nat /\ r.body \in Seq(Nat)
<1>1. Values \subseteq Nat
  BY ValuesAssumption
<1>2. PICK v \in 0 .. CurrentVersion[type] :
          r \in {[ver |-> v, body |-> b] :
                    b \in IF type = "event" THEN EventBodies
                          ELSE [1 .. NumFields[type][v + 1] -> Values]}
  BY DEF Records
<1>3. v \in Nat /\ r.ver = v
  BY <1>2
<1>4. CASE type = "event"
  <2>1. r.body \in EventBodies
    BY <1>2, <1>4
  <2>2. PICK fixed \in Values \X (0 .. MaxLength) \X {0, 1} :
            r.body \in {fixed \o data : data \in [1 .. NumSamples(fixed) -> Values]}
    BY <2>1 DEF EventBodies
  <2>3. PICK data \in [1 .. NumSamples(fixed) -> Values] : r.body = fixed \o data
    BY <2>2
  <2>4. fixed \in Seq(Nat) /\ fixed[2] \in Nat
    <3>1. PICK a \in Values, b \in 0 .. MaxLength, d \in {0, 1} : fixed = <<a, b, d>>
      BY <2>2
    <3>2. a \in Nat /\ b \in Nat /\ d \in Nat
      BY <1>1, SizesAssumption
    <3> QED
      BY <3>1, <3>2
  <2>5. NumSamples(fixed) \in Nat
    BY <2>4, SizesAssumption DEF NumSamples
  <2>6. data \in Seq(Nat)
    BY <1>1, <2>5, TupleOver
  <2> QED
    BY <1>3, <2>3, <2>4, <2>6
<1>5. CASE type # "event"
  <2>1. r.body \in [1 .. NumFields[type][v + 1] -> Values]
    BY <1>2, <1>5
  <2>2. NumFields[type][v + 1] \in Nat
    <3>1. type = "header" \/ type = "status" \/ type = "hk"
      BY <1>5, TypesAssumption
    <3>2. CASE type = "header" \/ type = "status"
      <4>1. v + 1 \in {1, 2, 3}
        BY <3>2, Versions
      <4> QED
        BY <3>2, <4>1, Counts
    <3>3. CASE type = "hk"
      <4>1. v + 1 \in {1, 2}
        BY <3>3, Versions
      <4> QED
        BY <3>3, <4>1, Counts
    <3> QED
      BY <3>1, <3>2, <3>3
  <2> QED
    BY <1>1, <1>3, <2>1, <2>2, TupleOver
<1> QED
  BY <1>4, <1>5

LEMMA Begins ==
    ASSUME NEW S, NEW s \in Seq(S), NEW t \in Seq(S), Len(s) <= Len(t),
           \A i \in 1 .. Len(s) : s[i] = t[i]
    PROVE  IsPrefix(s, t)
<1>1. /\ SubSeq(s, 1, Len(s)) \in Seq(S) /\ Len(SubSeq(s, 1, Len(s))) = Len(s)
      /\ \A i \in 1 .. Len(s) : SubSeq(s, 1, Len(s))[i] = s[i]
  OBVIOUS
<1>2. /\ SubSeq(t, 1, Len(s)) \in Seq(S) /\ Len(SubSeq(t, 1, Len(s))) = Len(s)
      /\ \A i \in 1 .. Len(s) : SubSeq(t, 1, Len(s))[i] = t[i]
  OBVIOUS
<1>3. SubSeq(s, 1, Len(s)) = SubSeq(t, 1, Len(s))
  BY <1>1, <1>2
<1> QED
  BY <1>3 DEF IsPrefix

LEMMA CellOf == \A n \in Nat : <<n>> \in Cell
BY DEF Cell

LEMMA EncodeType ==
    ASSUME type \in Types, NEW r \in Records[type]
    PROVE  Encode(r) \in Seq(Cell)
<1>1. r.ver \in Nat /\ r.body \in Seq(Nat)
  BY RecordType
<1> DEFINE body == [i \in 1 .. Len(r.body) |-> <<r.body[i]>>]
           start == <<<<Magic>>, <<r.ver>>, Checksum(r.body)>>
<1>2. Checksum(r.body) \in Cell
  <2>1. <<1000>> \in Seq(Nat) /\ Len(<<1000>>) = 1
    OBVIOUS
  <2> QED
    BY <1>1, <2>1 DEF Checksum, Cell
<1>3. <<Magic>> \in Cell /\ <<r.ver>> \in Cell
  BY <1>1, CellOf DEF Magic
<1>4. start \in Seq(Cell)
  BY <1>2, <1>3
<1>5. body \in Seq(Cell)
  <2>1. \A i \in 1 .. Len(r.body) : <<r.body[i]>> \in Cell
    BY <1>1, CellOf
  <2> QED
    BY <1>1, <2>1
<1>6. Encode(r) = start \o body
  BY DEF Encode
<1> HIDE DEF start, body
<1> QED
  BY <1>4, <1>5, <1>6

-----------------------------------------------------------------------------
\* What the reader makes of the cells it finds.

LEMMA RawType ==
    ASSUME NEW c \in Seq(Cell), NEW to \in Nat, 3 <= to, to <= Len(c)
    PROVE  Raw(c, 4, to) \in Seq(Nat) /\ Len(Raw(c, 4, to)) = to - 3
<1>1. \A i \in 1 .. to - 3 : c[i + 3] \in Cell
  OBVIOUS
<1>2. \A i \in 1 .. to - 3 : c[i + 3][1] \in Nat
  BY <1>1 DEF Cell
<1>3. to - 4 + 1 = to - 3 /\ to - 3 \in Nat /\ \A i \in 1 .. to - 3 : i + 3 = 4 + i - 1 /\ i + 4 - 1 = i + 3
  OBVIOUS
<1>4. Raw(c, 4, to) = [i \in 1 .. to - 3 |-> c[i + 3][1]]
  BY <1>3 DEF Raw
<1> QED
  BY <1>2, <1>3, <1>4

LEMMA SizeType ==
    ASSUME type \in Types, NEW c \in Seq(Cell), NEW ver \in Nat, ver <= CurrentVersion[type]
    PROVE  /\ BodySize(c, ver) \in Nat
           /\ type # "event" => BodySize(c, ver) = NumFields[type][ver + 1]
           /\ type = "event" => BodySize(c, ver) >= 3
<1>1. CASE type # "event"
  <2>1. BodySize(c, ver) = NumFields[type][ver + 1]
    BY <1>1 DEF BodySize
  <2>2. CASE type = "header" \/ type = "status"
    <3>1. ver + 1 \in {1, 2, 3}
      BY <2>2, Versions
    <3> QED
      BY <1>1, <2>1, <2>2, <3>1, Counts
  <2>3. CASE type = "hk"
    <3>1. ver + 1 \in {1, 2}
      BY <2>3, Versions
    <3> QED
      BY <1>1, <2>1, <2>3, <3>1, Counts
  <2> QED
    BY <1>1, <2>2, <2>3, TypesAssumption
<1>2. CASE type = "event" /\ Len(c) < 6
  <2>1. BodySize(c, ver) = 3
    BY <1>2 DEF BodySize
  <2> QED
    BY <1>2, <2>1
<1>3. CASE type = "event" /\ ~(Len(c) < 6)
  <2>1. BodySize(c, ver) = 3 + NumSamples(Raw(c, 4, 6))
    <3>1. Len(c) >= 6
      BY <1>3
    <3> QED
      BY <1>3, <3>1 DEF BodySize
  <2>2. Raw(c, 4, 6) \in Seq(Nat) /\ Len(Raw(c, 4, 6)) = 3
    <3>1. 6 <= Len(c) /\ 6 \in Nat /\ 3 <= 6 /\ 6 - 3 = 3
      BY <1>3
    <3> QED
      BY <3>1, RawType
  <2>3. Raw(c, 4, 6)[2] \in Nat
    BY <2>2
  <2>4. NumSamples(Raw(c, 4, 6)) \in Nat
    BY <2>3, SizesAssumption DEF NumSamples
  <2> QED
    BY <1>3, <2>1, <2>4
<1> QED
  BY <1>1, <1>2, <1>3

\* A read uses no more than there is; one that succeeds has a whole body of its version.
LEMMA ReadType ==
    ASSUME type \in Types, NEW c \in Seq(Cell), Len(c) > 0
    PROVE  LET r == ReadRecord(c)
           IN  /\ r.used \in 0 .. Len(c) /\ r.ver \in Nat /\ r.body \in Seq(Nat)
               /\ r.err = "none" => /\ r.ver <= CurrentVersion[type]
                                    /\ type # "event" => Len(r.body) = NumFields[type][r.ver + 1]
                                    /\ type = "event" => Len(r.body) >= 3
<1>1. CurrentVersion[type] \in Nat
  BY Versions, TypesAssumption
<1>0. Len(c) \in Nat /\ Len(c) >= 1
  OBVIOUS
<1>2. ASSUME NEW err, err # "none", NEW used \in 1 .. Len(c), ReadRecord(c) = NoStart(err, used)
      PROVE  /\ ReadRecord(c).used \in 0 .. Len(c) /\ ReadRecord(c).ver \in Nat
             /\ ReadRecord(c).body \in Seq(Nat) /\ ReadRecord(c).err # "none"
  BY <1>1, <1>2 DEF NoStart
<1>3. CASE c[1][1] # Magic
  <2>1. ReadRecord(c) = NoStart("type", 1)
    BY <1>3 DEF ReadRecord
  <2> QED
    BY <1>2, <2>1
<1>4. CASE c[1][1] = Magic /\ Len(c) = 1
  <2>1. ReadRecord(c) = NoStart("short", 1)
    BY <1>4 DEF ReadRecord
  <2> QED
    BY <1>2, <2>1
<1>5. CASE c[1][1] = Magic /\ Len(c) # 1 /\ c[2][1] > CurrentVersion[type]
  <2>1. ReadRecord(c) = NoStart("version", 2)
    BY <1>5 DEF ReadRecord
  <2>2. 2 \in 1 .. Len(c)
    <3>1. Len(c) # 1
      BY <1>5
    <3>2. \A n \in Nat : n >= 1 /\ n # 1 => 2 \in 1 .. n
      OBVIOUS
    <3> QED
      BY <1>0, <3>1, <3>2
  <2> QED
    BY <1>2, <2>1, <2>2
<1>6. CASE c[1][1] = Magic /\ ~(c[2][1] > CurrentVersion[type]) /\ Len(c) = 2
  <2>1. ReadRecord(c) = NoStart("short", 2)
    BY <1>6 DEF ReadRecord
  <2> QED
    BY <1>2, <1>6, <2>1
<1>7. CASE c[1][1] = Magic /\ ~(c[2][1] > CurrentVersion[type]) /\ Len(c) \notin {1, 2}
  <2> DEFINE ver == c[2][1]
             size == BodySize(c, ver)
             used == IF Len(c) < 3 + size THEN Len(c) ELSE 3 + size
  <2>1. Len(c) \in Nat /\ Len(c) >= 3
    <3>1. Len(c) # 1 /\ Len(c) # 2
      BY <1>7
    <3>2. \A n \in Nat : n >= 1 /\ n # 1 /\ n # 2 => n >= 3
      OBVIOUS
    <3> QED
      BY <1>0, <3>1, <3>2
  <2>2. ver \in Nat /\ ver <= CurrentVersion[type]
    <3>1. c[2] \in Cell
      BY <2>1
    <3>2. c[2][1] \in Nat
      BY <3>1 DEF Cell
    <3> QED
      BY <1>1, <1>7, <3>2
  <2>3. ReadRecord(c) = [err |-> Result(c, size), used |-> used, ver |-> ver, body |-> Raw(c, 4, used)]
    BY <1>7 DEF ReadRecord, ReadBody
  <2>4. /\ size \in Nat /\ (type # "event" => size = NumFields[type][ver + 1])
        /\ (type = "event" => size >= 3)
    <3> HIDE DEF ver
    <3> QED
      BY <2>2, SizeType
  <2>5. Result(c, size) = "none" => ~(Len(c) < 3 + size)
    BY DEF Result
  <2> HIDE DEF size, ver
  <2>6. used \in 3 .. Len(c) /\ used \in Nat
    BY <2>1, <2>4
  <2>7. Result(c, size) = "none" => used = 3 + size
    BY <2>5
  <2> HIDE DEF used
  <2>8. Raw(c, 4, used) \in Seq(Nat) /\ Len(Raw(c, 4, used)) = used - 3
    BY <2>6, RawType
  <2>9. /\ ReadRecord(c).err = Result(c, size) /\ ReadRecord(c).used = used
        /\ ReadRecord(c).ver = ver /\ ReadRecord(c).body = Raw(c, 4, used)
    BY <2>3
  <2>10. Result(c, size) = "none" => Len(Raw(c, 4, used)) = size
    BY <2>4, <2>7, <2>8
  <2> QED
    BY <2>1, <2>2, <2>4, <2>6, <2>8, <2>9, <2>10
<1> QED
  BY <1>3, <1>4, <1>5, <1>6, <1>7

-----------------------------------------------------------------------------
\* The steps.

LEMMA WriterKeeps ==
    ASSUME FileInv, UNCHANGED <<type, mem, returned, pos>>, file' \in Seq(Cell),
           pending' \in Seq(Cell), Len(file) <= Len(file')
    PROVE  FileInv'
<1>1. Fields' = Fields
  BY DEF Fields
<1>2. FileType'
  BY <1>1 DEF FileInv, FileType, ReadResult
<1>3. StoredKept' /\ MissingZero'
  BY <1>1 DEF FileInv, StoredKept, MissingZero, Overwritten, Forgotten
<1> QED
  BY <1>2, <1>3 DEF FileInv

LEMMA ReadKeeps == ASSUME FileInv, Read PROVE FileInv'
<1> DEFINE c == SubSeq(file, pos + 1, Len(file))
           r == ReadRecord(c)
           ret == [rec |-> [ver |-> r.ver, body |-> r.body], fields |-> Fill(r.ver, r.body)]
<1>1. /\ pos < Len(file) /\ pos' = pos + r.used /\ mem' = Fill(r.ver, r.body)
      /\ returned' = (IF r.err = "none" THEN Append(returned, [rec |-> [ver |-> r.ver, body |-> r.body], fields |-> mem']) ELSE returned)
      /\ UNCHANGED <<type, file, pending>>
  BY DEF Read, writer
<1>2. FileType
  BY DEF FileInv
<1>3. c \in Seq(Cell) /\ Len(c) = Len(file) - pos /\ Len(c) > 0
  BY <1>1, <1>2 DEF FileType
<1> HIDE DEF c
<1>4. /\ r.used \in 0 .. Len(c) /\ r.ver \in Nat /\ r.body \in Seq(Nat)
      /\ r.err = "none" => /\ r.ver <= CurrentVersion[type]
                           /\ type # "event" => Len(r.body) = NumFields[type][r.ver + 1]
                           /\ type = "event" => Len(r.body) >= 3
  BY <1>2, <1>3, ReadType DEF FileType
<1> HIDE DEF r
<1>5. Fill(r.ver, r.body) \in [Fields -> Nat]
  BY <1>2, <1>4, FillType
<1>6. Fields' = Fields
  BY <1>1 DEF Fields
<1>7. ret \in ReadResult /\ ret.rec.ver = r.ver /\ ret.rec.body = r.body /\ ret.fields = Fill(r.ver, r.body)
  BY <1>4, <1>5 DEF ReadResult
<1>8. returned' = IF r.err = "none" THEN Append(returned, ret) ELSE returned
  BY <1>1
<1> HIDE DEF ret
<1>9. FileType'
  <2>1. pos' \in 0 .. Len(file')
    BY <1>1, <1>2, <1>3, <1>4 DEF FileType
  <2>2. returned' \in Seq(ReadResult)
    BY <1>2, <1>7, <1>8 DEF FileType
  <2>3. ReadResult' = ReadResult
    BY <1>6 DEF ReadResult
  <2> QED
    BY <1>1, <1>2, <1>5, <1>6, <2>1, <2>2, <2>3 DEF FileType
<1>10. ASSUME NEW i \in DOMAIN returned'
       PROVE  \/ i \in DOMAIN returned /\ returned'[i] = returned[i]
              \/ r.err = "none" /\ returned'[i] = ret
  BY <1>2, <1>8 DEF FileType
<1>11. ASSUME NEW i \in DOMAIN returned', NEW f \in Fields
       PROVE  LET v == returned'[i].rec.ver  body == returned'[i].rec.body
              IN  /\ f \notin Overwritten(v) /\ f <= Len(body) => returned'[i].fields[f] = body[f]
                  /\ f \notin Forgotten(v) /\ f > Len(body) => returned'[i].fields[f] = 0
  <2>1. CASE i \in DOMAIN returned /\ returned'[i] = returned[i]
    BY <2>1 DEF FileInv, StoredKept, MissingZero
  <2>2. CASE r.err = "none" /\ returned'[i] = ret
    <3>1. /\ f \notin Overwritten(r.ver) /\ f <= Len(r.body) => Fill(r.ver, r.body)[f] = r.body[f]
          /\ f \notin Forgotten(r.ver) /\ f > Len(r.body) => Fill(r.ver, r.body)[f] = 0
      BY <1>2, <1>4, <2>2, FillKeeps DEF FileType
    <3> QED
      BY <1>7, <2>2, <3>1
  <2> QED
    BY <1>10, <2>1, <2>2
<1>12. \A v : Overwritten(v)' = Overwritten(v) /\ Forgotten(v)' = Forgotten(v)
  BY <1>1 DEF Overwritten, Forgotten
<1>13. StoredKept' /\ MissingZero'
  BY <1>6, <1>11, <1>12 DEF StoredKept, MissingZero
<1> QED
  BY <1>9, <1>13 DEF FileInv

LEMMA InitOK == Init => FileInv
<1> SUFFICES ASSUME Init PROVE FileInv
  OBVIOUS
<1>1. <<>> \in Seq(Cell) /\ <<>> \in Seq(ReadResult)
  OBVIOUS
<1>2. mem \in [Fields -> Nat]
  BY DEF Init
<1>3. FileType
  BY <1>1, <1>2 DEF Init, FileType
<1>4. StoredKept /\ MissingZero
  BY DEF Init, StoredKept, MissingZero
<1> QED
  BY <1>3, <1>4 DEF FileInv

LEMMA StepKeeps == FileInv /\ [Next]_vars => FileInv'
<1> SUFFICES ASSUME FileInv, [Next]_vars PROVE FileInv'
  OBVIOUS
<1>1. FileType
  BY DEF FileInv
<1>2. ASSUME NEW r \in Records[type], Begin(r) PROVE FileInv'
  <2>1. pending' = Encode(r) /\ UNCHANGED <<type, file, mem, returned, pos>>
    BY <1>2 DEF Begin, reader
  <2>2. Encode(r) \in Seq(Cell)
    BY <1>1, <1>2, EncodeType DEF FileType
  <2> QED
    BY <1>1, <2>1, <2>2, WriterKeeps DEF FileType
<1>3. ASSUME NEW n \in 1 .. Len(pending), Flush(n) PROVE FileInv'
  <2>1. /\ file' = file \o SubSeq(pending, 1, n)
        /\ pending' = SubSeq(pending, n + 1, Len(pending))
        /\ UNCHANGED <<type, mem, returned, pos>>
    BY <1>3 DEF Flush, reader
  <2>2. SubSeq(pending, 1, n) \in Seq(Cell) /\ Len(SubSeq(pending, 1, n)) = n
    BY <1>1, <1>3 DEF FileType
  <2>3. pending' \in Seq(Cell)
    BY <1>1, <1>3, <2>1 DEF FileType
  <2>4. file' \in Seq(Cell) /\ Len(file') = Len(file) + n
    BY <1>1, <2>1, <2>2 DEF FileType
  <2>5. Len(file) <= Len(file')
    BY <1>1, <2>4 DEF FileType
  <2> QED
    BY <2>1, <2>3, <2>4, <2>5, WriterKeeps
<1>4. CASE CutShort
  <2>1. pending' = <<>> /\ UNCHANGED <<type, file, mem, returned, pos>>
    BY <1>4 DEF CutShort, reader
  <2> QED
    BY <1>1, <2>1, WriterKeeps DEF FileType
<1>5. CASE Read
  BY <1>5, ReadKeeps
<1>6. CASE UNCHANGED vars
  BY <1>1, <1>6, WriterKeeps DEF vars, writer, reader, FileType
<1> QED
  BY <1>2, <1>3, <1>4, <1>5, <1>6 DEF Next

\* Every field that a successful read finds in the file is in the struct, for bodies of all
\* versions and values and events of any length, but for the fields that are overwritten.
THEOREM StoredIsKept == Spec => []StoredKept
<1>1. FileInv => StoredKept
  BY DEF FileInv
<1> QED
  BY <1>1, InitOK, StepKeeps, PTL DEF Spec

\* Every field that a successful read does not find is zero, but for the forgotten one.
THEOREM MissingIsZero == Spec => []MissingZero
<1>1. FileInv => MissingZero
  BY DEF FileInv
<1> QED
  BY <1>1, InitOK, StepKeeps, PTL DEF Spec

-----------------------------------------------------------------------------
\* Writing.  What is on disk ends with what was written of the record under way.

Current  == Encode(Last(begun))
OnDisk   == Len(Current) - Len(pending)         \* cells of it, while it is pending
Base     == Len(file) - OnDisk                  \* where it begins

WriterType ==
    /\ begun \in Seq(Records[type]) /\ done \in Seq(Records[type])
    /\ torn \in BOOLEAN /\ intact \in 0 .. Len(done)
    /\ lost \in BOOLEAN /\ early \in BOOLEAN /\ (early => lost)

UnderWay ==
    pending # <<>> =>
        /\ begun # <<>> /\ Len(pending) <= Len(Current) /\ Base >= 0
        /\ \A i \in 1 .. Len(pending) : pending[i] = Current[OnDisk + i]
        /\ \A i \in 1 .. OnDisk : file[Base + i] = Current[i]

\* The records that are done are records that were begun, in this order, and not the one
\* that is under way.
DoneFollows ==
    \E at \in [DOMAIN done -> DOMAIN begun] :
        /\ \A i, j \in DOMAIN done : i < j => at[i] < at[j]
        /\ \A i \in DOMAIN done : done[i] = begun[at[i]]
        /\ pending # <<>> => \A i \in DOMAIN done : at[i] < Len(begun)

\* The checksums in the file: each stands behind the version of its record, and those of
\* later records come later.
Sums == {k \in DOMAIN file : Len(file[k]) > 1}

Owned(own) ==
    /\ \A k \in Sums : /\ k > 1 /\ file[k] = Checksum(begun[own[k]].body)
                       /\ file[k - 1] = <<begun[own[k]].ver>>
    /\ \A k, l \in Sums : k < l => own[k] < own[l]
    /\ pending # <<>> /\ OnDisk < 3 => \A k \in Sums : own[k] < Len(begun)

\* What was returned are the records of some checksums the reader has passed.
Found(own, at) ==
    /\ \A i, j \in DOMAIN returned : i < j => at[i] < at[j]
    /\ \A i \in DOMAIN returned : at[i] <= pos /\ returned[i].rec = begun[own[at[i]]]

Framed == \E own \in [Sums -> DOMAIN begun] :
              /\ Owned(own)
              /\ \E at \in [DOMAIN returned -> Sums] : Found(own, at)

FrameInv == FileInv /\ WriterType /\ UnderWay /\ DoneFollows /\ Framed

-----------------------------------------------------------------------------
\* A record and its cells.

LEMMA RecordShape ==
    ASSUME type \in Types, NEW r \in Records[type]
    PROVE  r = [ver |-> r.ver, body |-> r.body] /\ Len(r.body) > 0
<1>1. PICK v \in 0 .. CurrentVersion[type] :
          r \in {[ver |-> v, body |-> b] :
                    b \in IF type = "event" THEN EventBodies
                          ELSE [1 .. NumFields[type][v + 1] -> Values]}
  BY DEF Records
<1>2. r = [ver |-> r.ver, body |-> r.body]
  BY <1>1
<1>3. CASE type = "event"
  <2>1. r.body \in EventBodies
    BY <1>1, <1>3
  <2>2. PICK fixed \in Values \X (0 .. MaxLength) \X {0, 1} :
            r.body \in {fixed \o data : data \in [1 .. NumSamples(fixed) -> Values]}
    BY <2>1 DEF EventBodies
  <2>3. PICK data \in [1 .. NumSamples(fixed) -> Values] : r.body = fixed \o data
    BY <2>2
  <2>4. PICK a \in Values, b \in 0 .. MaxLength, d \in {0, 1} : fixed = <<a, b, d>>
    BY <2>2
  <2>5. a \in Nat /\ b \in Nat /\ d \in Nat
    BY <2>4, ValuesAssumption, SizesAssumption
  <2>6. fixed \in Seq(Nat) /\ Len(fixed) = 3 /\ fixed[2] \in Nat
    BY <2>4, <2>5
  <2>7. NumSamples(fixed) \in Nat
    BY <2>6, SizesAssumption DEF NumSamples
  <2>8. data \in Seq(Nat)
    BY <2>7, ValuesAssumption, TupleOver
  <2> QED
    BY <1>2, <2>3, <2>6, <2>8
<1>4. CASE type # "event"
  <2>1. r.body \in [1 .. NumFields[type][v + 1] -> Values]
    BY <1>1, <1>4
  <2>2. NumFields[type][v + 1] \in Nat \ {0}
    <3>1. CASE type = "header" \/ type = "status"
      <4>1. v + 1 \in {1, 2, 3}
        BY <3>1, Versions
      <4> QED
        BY <3>1, <4>1, Counts
    <3>2. CASE type = "hk"
      <4>1. v + 1 \in {1, 2}
        BY <3>2, Versions
      <4> QED
        BY <3>2, <4>1, Counts
    <3> QED
      BY <1>4, <3>1, <3>2, TypesAssumption
  <2>3. Len(r.body) = NumFields[type][v + 1]
    BY <2>1, <2>2
  <2> QED
    BY <1>2, <2>2, <2>3
<1> QED
  BY <1>3, <1>4

LEMMA Joined ==
    ASSUME NEW s \in Seq(Cell), NEW t \in Seq(Cell)
    PROVE  /\ s \o t \in Seq(Cell) /\ Len(s \o t) = Len(s) + Len(t)
           /\ \A i \in 1 .. Len(s) : (s \o t)[i] = s[i]
           /\ \A i \in 1 .. Len(t) : (s \o t)[i + Len(s)] = t[i]
OBVIOUS

\* Only its checksum is longer than a value.
LEMMA EncodeShape ==
    ASSUME type \in Types, NEW r \in Records[type]
    PROVE  /\ Len(Encode(r)) = 3 + Len(r.body)
           /\ Encode(r)[2] = <<r.ver>> /\ Encode(r)[3] = Checksum(r.body)
           /\ \A i \in 1 .. Len(Encode(r)) : Len(Encode(r)[i]) > 1 <=> i = 3
<1>1. r.ver \in Nat /\ r.body \in Seq(Nat) /\ Len(r.body) > 0
  BY RecordType, RecordShape
<1> DEFINE body == [i \in 1 .. Len(r.body) |-> <<r.body[i]>>]
           start == <<<<Magic>>, <<r.ver>>, Checksum(r.body)>>
<1>2. Checksum(r.body) \in Seq(Nat) /\ Len(Checksum(r.body)) > 1
  <2>1. <<1000>> \in Seq(Nat) /\ Len(<<1000>>) = 1
    OBVIOUS
  <2>2. Len(<<1000>> \o r.body) = 1 + Len(r.body)
    BY <1>1, <2>1
  <2> QED
    BY <1>1, <2>1, <2>2 DEF Checksum
<1>3. start \in Seq(Seq(Nat)) /\ Len(start) = 3
  BY <1>1, <1>2 DEF Magic
<1>4. body \in Seq(Seq(Nat)) /\ Len(body) = Len(r.body) /\ \A i \in 1 .. Len(body) : Len(body[i]) = 1
  BY <1>1
<1>5. Encode(r) = start \o body
  BY DEF Encode
<1>6. Len(start[1]) = 1 /\ Len(start[2]) = 1 /\ Len(start[3]) > 1 /\ start[2] = <<r.ver>>
      /\ start[3] = Checksum(r.body)
  BY <1>2
<1>7. start \in Seq(Cell) /\ body \in Seq(Cell) /\ Len(start) = 3 /\ Len(body) \in Nat
  <2>1. <<Magic>> \in Cell /\ <<r.ver>> \in Cell /\ Checksum(r.body) \in Cell
    BY <1>1, <1>2, CellOf DEF Magic, Cell
  <2>2. start \in Seq(Cell)
    BY <2>1
  <2>3. \A i \in 1 .. Len(r.body) : <<r.body[i]>> \in Cell
    BY <1>1, CellOf
  <2>4. body \in Seq(Cell)
    BY <1>1, <2>3
  <2> QED
    BY <1>3, <1>4, <2>2, <2>4
<1> HIDE DEF start, body
<1> DEFINE all == start \o body
<1>8. /\ Len(all) = Len(start) + Len(body)
      /\ \A i \in 1 .. Len(start) : all[i] = start[i]
      /\ \A i \in 1 .. Len(body) : all[i + Len(start)] = body[i]
  BY <1>7, Joined
<1> HIDE DEF all
<1>9. /\ Len(all) = 3 + Len(body) /\ all[1] = start[1] /\ all[2] = start[2] /\ all[3] = start[3]
      /\ \A i \in 1 .. Len(body) : all[i + 3] = body[i]
  BY <1>7, <1>8
<1>10. ASSUME NEW i \in 1 .. Len(all) PROVE (Len(all[i]) > 1) <=> (i = 3)
  <2>1. i \in {1, 2, 3} \/ (i - 3 \in 1 .. Len(body) /\ i = (i - 3) + 3 /\ i # 3)
    BY <1>7, <1>9
  <2>2. CASE i \in {1, 2, 3}
    <3>1. Len(start[1]) = 1 /\ Len(start[2]) = 1 /\ Len(start[3]) > 1 /\ ~(1 > 1)
      BY <1>6
    <3> QED
      BY <1>9, <2>2, <3>1
  <2>3. CASE i - 3 \in 1 .. Len(body) /\ i = (i - 3) + 3 /\ i # 3
    <3>1. all[i] = body[i - 3]
      BY <1>9, <2>3
    <3>2. Len(body[i - 3]) = 1
      BY <1>4, <2>3
    <3> QED
      BY <2>3, <3>1, <3>2
  <2> QED
    BY <2>1, <2>2, <2>3
<1>11. Encode(r) = all
  BY <1>5 DEF all
<1> QED
  BY <1>4, <1>6, <1>9, <1>10, <1>11

LEMMA ChecksumIsInjective ==
    ASSUME NEW a \in Seq(Nat), NEW b \in Seq(Nat), Checksum(a) = Checksum(b)
    PROVE  a = b
<1>1. <<1000>> \in Seq(Nat) /\ Len(<<1000>>) = 1
  OBVIOUS
<1>2. Len(Checksum(a)) = 1 + Len(a) /\ Len(Checksum(b)) = 1 + Len(b)
  BY <1>1 DEF Checksum
<1>3. Len(a) = Len(b)
  BY <1>2
<1>4. \A i \in 1 .. Len(a) : Checksum(a)[i + 1] = a[i]
  BY <1>1 DEF Checksum
<1>5. \A i \in 1 .. Len(b) : Checksum(b)[i + 1] = b[i]
  BY <1>1 DEF Checksum
<1> QED
  BY <1>3, <1>4, <1>5

\* What a read that succeeds has found.
LEMMA ReadSucceeds ==
    ASSUME type \in Types, NEW c \in Seq(Cell), Len(c) > 0, ReadRecord(c).err = "none"
    PROVE  LET r == ReadRecord(c)
           IN  /\ Len(c) >= 3 /\ r.used >= 3 /\ Len(r.body) > 0
               /\ r.ver = c[2][1] /\ c[3] = Checksum(r.body)
<1> DEFINE ver == c[2][1]
           size == BodySize(c, ver)
           used == IF Len(c) < 3 + size THEN Len(c) ELSE 3 + size
<1>1. ReadRecord(c) = [err |-> Result(c, size), used |-> used, ver |-> ver, body |-> Raw(c, 4, used)]
  BY DEF ReadRecord, ReadBody, NoStart
<1>2. Result(c, size) = "none" /\ ReadRecord(c).used = used /\ ReadRecord(c).ver = ver
      /\ ReadRecord(c).body = Raw(c, 4, used)
  BY <1>1
<1>3. ~(Len(c) < 3 + size) /\ c[3] = Checksum(Raw(c, 4, 3 + size))
  BY <1>2 DEF Result
<1>4. used = 3 + size
  BY <1>3
<1>5. ReadRecord(c).used \in 0 .. Len(c) /\ ReadRecord(c).ver \in Nat /\ ReadRecord(c).ver <= CurrentVersion[type]
  BY ReadType
<1>6. ver \in Nat /\ ver <= CurrentVersion[type]
  BY <1>2, <1>5
<1> HIDE DEF ver
<1>7. size \in Nat /\ size > 0
  <2>1. /\ size \in Nat /\ (type # "event" => size = NumFields[type][ver + 1])
        /\ (type = "event" => size >= 3)
    BY <1>6, SizeType
  <2>2. type # "event" => NumFields[type][ver + 1] > 0
    <3>1. CASE type = "header" \/ type = "status"
      <4>1. ver + 1 \in {1, 2, 3}
        BY <1>6, <3>1, Versions
      <4> QED
        BY <3>1, <4>1, Counts
    <3>2. CASE type = "hk"
      <4>1. ver + 1 \in {1, 2}
        BY <1>6, <3>2, Versions
      <4> QED
        BY <3>2, <4>1, Counts
    <3> QED
      BY <3>1, <3>2, TypesAssumption
  <2> HIDE DEF size
  <2> QED
    BY <2>1, <2>2
<1> HIDE DEF size, used
<1>8. Len(c) \in Nat /\ 3 + size <= Len(c) /\ 3 + size \in Nat
  BY <1>3, <1>7
<1>9. Len(Raw(c, 4, 3 + size)) = size
  BY <1>7, <1>8, RawType
<1> QED
  BY <1>2, <1>3, <1>4, <1>7, <1>8, <1>9 DEF ver

-----------------------------------------------------------------------------
\* The steps of the writer and of the reader.

LEMMA CurrentShape ==
    ASSUME FileType, WriterType, begun # <<>>
    PROVE  /\ Last(begun) = begun[Len(begun)] /\ Len(begun) \in DOMAIN begun
           /\ Last(begun) \in Records[type] /\ Current \in Seq(Cell)
           /\ Len(Current) \in Nat /\ Len(Current) > 3
           /\ Current[2] = <<Last(begun).ver>> /\ Current[3] = Checksum(Last(begun).body)
           /\ \A i \in 1 .. Len(Current) : (Len(Current[i]) > 1) <=> (i = 3)
<1>1. Last(begun) = begun[Len(begun)] /\ Len(begun) \in DOMAIN begun /\ Last(begun) \in Records[type]
  BY DEF WriterType, Last
<1>2. type \in Types
  BY DEF FileType
<1>3. Current \in Seq(Cell)
  BY <1>1, <1>2, EncodeType DEF Current
<1>4. Len(Last(begun).body) \in Nat /\ Len(Last(begun).body) > 0
  BY <1>1, <1>2, RecordType, RecordShape
<1>5. /\ Len(Current) = 3 + Len(Last(begun).body)
      /\ Current[2] = <<Last(begun).ver>> /\ Current[3] = Checksum(Last(begun).body)
      /\ \A i \in 1 .. Len(Current) : (Len(Current[i]) > 1) <=> (i = 3)
  BY <1>1, <1>2, EncodeShape DEF Current
<1> QED
  BY <1>1, <1>3, <1>4, <1>5

LEMMA BeginFrames ==
    ASSUME FrameInv, NEW r \in Records[type], Begin(r)
    PROVE  WriterType' /\ UnderWay' /\ DoneFollows' /\ Framed'
<1>1. /\ pending = <<>> /\ pending' = Encode(r) /\ begun' = Append(begun, r)
      /\ UNCHANGED <<type, file, done, torn, intact, pos, mem, returned, lost, early>>
  BY DEF Begin, reader
<1>2. FileType /\ WriterType /\ begun \in Seq(Records[type])
  BY DEF FrameInv, FileInv, WriterType
<1>3. /\ begun' \in Seq(Records[type]) /\ Len(begun') = Len(begun) + 1 /\ begun' # <<>>
      /\ DOMAIN begun \subseteq DOMAIN begun' /\ Len(begun') \in DOMAIN begun'
      /\ \A i \in DOMAIN begun : begun'[i] = begun[i] /\ i < Len(begun')
      /\ begun'[Len(begun')] = r
  BY <1>1, <1>2
<1>4. WriterType'
  BY <1>1, <1>2, <1>3 DEF WriterType
<1>5. Last(begun') = r
  BY <1>3 DEF Last
<1>6. Current' = pending'
  BY <1>1, <1>5 DEF Current
<1>7. pending' \in Seq(Cell) /\ Len(file) \in Nat
  BY <1>1, <1>2, EncodeType DEF FileType
<1>8. OnDisk' = 0 /\ Base' = Len(file)
  BY <1>1, <1>6, <1>7 DEF OnDisk, Base
<1>9. UnderWay'
  BY <1>3, <1>6, <1>7, <1>8 DEF UnderWay
<1>10. DoneFollows'
  <2>1. PICK at \in [DOMAIN done -> DOMAIN begun] :
            /\ \A i, j \in DOMAIN done : i < j => at[i] < at[j]
            /\ \A i \in DOMAIN done : done[i] = begun[at[i]]
    BY DEF FrameInv, DoneFollows
  <2>2. at \in [DOMAIN done -> DOMAIN begun']
    BY <1>3
  <2> QED
    BY <1>1, <1>3, <2>1, <2>2 DEF DoneFollows
<1>11. Framed'
  <2>1. Sums' = Sums
    BY <1>1 DEF Sums
  <2>2. PICK own \in [Sums -> DOMAIN begun] :
            Owned(own) /\ \E at \in [DOMAIN returned -> Sums] : Found(own, at)
    BY DEF FrameInv, Framed
  <2>3. PICK at \in [DOMAIN returned -> Sums] : Found(own, at)
    BY <2>2
  <2>4. own \in [Sums -> DOMAIN begun'] /\ \A k \in Sums : own[k] \in DOMAIN begun
    BY <1>3
  <2>5. \A k \in Sums : begun'[own[k]] = begun[own[k]] /\ own[k] < Len(begun')
    BY <1>3, <2>4
  <2>6. Owned(own)'
    BY <1>1, <2>1, <2>2, <2>5 DEF Owned
  <2>7. Found(own, at)'
    BY <1>1, <2>3, <2>5 DEF Found
  <2> QED
    BY <1>1, <2>1, <2>4, <2>6, <2>7 DEF Framed
<1> QED
  BY <1>4, <1>9, <1>10, <1>11

LEMMA CutFrames ==
    ASSUME FrameInv, CutShort
    PROVE  WriterType' /\ UnderWay' /\ DoneFollows' /\ Framed'
<1>1. /\ pending' = <<>> /\ torn' = TRUE /\ intact' \in {intact, Len(done)}
      /\ UNCHANGED <<type, file, begun, done, pos, mem, returned, lost, early>>
  BY DEF CutShort, reader
<1>2. WriterType'
  BY <1>1 DEF FrameInv, WriterType
<1>3. UnderWay'
  BY <1>1 DEF UnderWay
<1>4. DoneFollows'
  BY <1>1 DEF FrameInv, DoneFollows
<1>5. Sums' = Sums
  BY <1>1 DEF Sums
<1>6. Framed'
  <2>1. PICK own \in [Sums -> DOMAIN begun] :
            Owned(own) /\ \E at \in [DOMAIN returned -> Sums] : Found(own, at)
    BY DEF FrameInv, Framed
  <2>2. PICK at \in [DOMAIN returned -> Sums] : Found(own, at)
    BY <2>1
  <2>3. Owned(own)' /\ Found(own, at)'
    BY <1>1, <1>5, <2>1, <2>2 DEF Owned, Found, Checksum
  <2> QED
    BY <1>1, <1>5, <2>3 DEF Framed
<1> QED
  BY <1>2, <1>3, <1>4, <1>6

\* What a flush makes of the file and of the rest of the record.
LEMMA FlushParts ==
    ASSUME FrameInv, NEW n \in 1 .. Len(pending), Flush(n)
    PROVE  /\ OnDisk \in Nat /\ Base \in Nat /\ Len(file) = Base + OnDisk
           /\ file' \in Seq(Cell) /\ Len(file') = Base + OnDisk + n /\ OnDisk + n <= Len(Current)
           /\ \A k \in 1 .. Len(file) : file'[k] = file[k]
           /\ \A i \in 1 .. OnDisk + n : file'[Base + i] = Current[i]
           /\ begun # <<>> /\ Current' = Current
           /\ pending' # <<>> => /\ OnDisk' = OnDisk + n /\ Base' = Base
                                 /\ Len(pending') <= Len(Current)
                                 /\ \A i \in 1 .. Len(pending') : pending'[i] = Current[OnDisk + n + i]
           /\ (pending' = <<>>) <=> (n = Len(pending))
<1>1. /\ file' = file \o SubSeq(pending, 1, n) /\ pending' = SubSeq(pending, n + 1, Len(pending))
      /\ UNCHANGED <<type, begun>>
  BY DEF Flush
<1>2. FileType /\ WriterType /\ pending \in Seq(Cell) /\ file \in Seq(Cell)
  BY DEF FrameInv, FileInv, FileType
<1>3. Len(pending) \in Nat /\ n \in Nat /\ 1 <= n /\ n <= Len(pending) /\ pending # <<>>
  BY <1>2
<1>4. /\ begun # <<>> /\ Len(pending) <= Len(Current) /\ Base >= 0
      /\ \A i \in 1 .. Len(pending) : pending[i] = Current[OnDisk + i]
      /\ \A i \in 1 .. OnDisk : file[Base + i] = Current[i]
  BY <1>3 DEF FrameInv, UnderWay
<1>5. Len(Current) \in Nat
  BY <1>2, <1>4, CurrentShape
<1>6. OnDisk \in Nat /\ Base \in Nat /\ Len(file) = Base + OnDisk /\ Len(file) \in Nat
      /\ OnDisk = Len(Current) - Len(pending)
  BY <1>2, <1>3, <1>4, <1>5 DEF OnDisk, Base
<1>7. Current' = Current
  BY <1>1 DEF Current, Encode, Checksum, Last
<1> DEFINE piece == SubSeq(pending, 1, n)
<1>8. piece \in Seq(Cell) /\ Len(piece) = n /\ \A i \in 1 .. n : piece[i] = pending[i]
  BY <1>2, <1>3
<1> HIDE DEF piece
<1>9. /\ file' \in Seq(Cell) /\ Len(file') = Len(file) + n
      /\ \A k \in 1 .. Len(file) : file'[k] = file[k]
      /\ \A i \in 1 .. n : file'[i + Len(file)] = piece[i]
  <2>1. file' = file \o piece
    BY <1>1 DEF piece
  <2> QED
    BY <1>2, <1>8, <2>1, Joined
<1>10. ASSUME NEW i \in 1 .. OnDisk + n PROVE file'[Base + i] = Current[i]
  <2>1. CASE i <= OnDisk
    <3>1. i \in 1 .. OnDisk /\ Base + i \in 1 .. Len(file)
      BY <1>6, <2>1
    <3> QED
      BY <1>4, <1>9, <3>1
  <2>2. CASE ~(i <= OnDisk)
    <3>1. i - OnDisk \in 1 .. n /\ Base + i = (i - OnDisk) + Len(file)
          /\ OnDisk + (i - OnDisk) = i /\ i - OnDisk \in 1 .. Len(pending)
      BY <1>3, <1>6, <2>2
    <3> QED
      BY <1>4, <1>8, <1>9, <3>1
  <2> QED
    BY <2>1, <2>2
<1>11. /\ (pending' = <<>>) <=> (n = Len(pending))
       /\ Len(pending') = Len(pending) - n
       /\ \A i \in 1 .. Len(pending) - n : pending'[i] = pending[n + i]
  <2> DEFINE rest == SubSeq(pending, n + 1, Len(pending))
  <2>1. rest \in Seq(Cell) /\ Len(rest) = Len(pending) - n
    BY <1>2, <1>3
  <2>2. \A i \in 1 .. Len(pending) - n : rest[i] = pending[n + i]
    BY <1>2, <1>3
  <2> HIDE DEF rest
  <2>3. (rest = <<>>) <=> (Len(rest) = 0)
    BY <2>1
  <2>4. (rest = <<>>) <=> (n = Len(pending))
    BY <1>3, <2>1, <2>3
  <2>5. pending' = rest
    BY <1>1 DEF rest
  <2> QED
    BY <2>1, <2>2, <2>4, <2>5
<1>12. OnDisk' = OnDisk + n
  BY <1>3, <1>5, <1>6, <1>7, <1>11 DEF OnDisk
<1>13. Base' = Base
  BY <1>3, <1>6, <1>9, <1>12 DEF Base
<1>14. ASSUME NEW i \in 1 .. Len(pending') PROVE pending'[i] = Current[OnDisk + n + i]
  <2>1. i \in 1 .. Len(pending) - n /\ n + i \in 1 .. Len(pending) /\ OnDisk + (n + i) = OnDisk + n + i
    BY <1>3, <1>6, <1>11
  <2> QED
    BY <1>4, <1>11, <2>1
<1>15. Len(file') = Base + OnDisk + n /\ OnDisk + n <= Len(Current) /\ Len(pending') <= Len(Current)
  <2>1. Len(file') = Base + OnDisk + n
    BY <1>6, <1>9
  <2>2. ASSUME NEW p \in Nat, p = Len(pending), NEW q, q = Len(pending')
        PROVE  OnDisk + n <= Len(Current) /\ q <= Len(Current)
    <3>1. q = p - n
      BY <1>11, <2>2
    <3>2. n \in Nat /\ n <= p /\ p <= Len(Current) /\ OnDisk = Len(Current) - p
      BY <1>3, <1>4, <1>6, <2>2
    <3> QED
      BY <1>5, <2>2, <3>1, <3>2
  <2> QED
    BY <1>3, <2>1, <2>2
<1> QED
  BY <1>4, <1>6, <1>7, <1>9, <1>10, <1>11, <1>12, <1>13, <1>14, <1>15

LEMMA FlushFrames ==
    ASSUME FrameInv, NEW n \in 1 .. Len(pending), Flush(n)
    PROVE  WriterType' /\ UnderWay' /\ DoneFollows' /\ Framed'
<1>1. /\ done' = IF n = Len(pending) THEN Append(done, begun[Len(begun)]) ELSE done
      /\ UNCHANGED <<type, begun, torn, intact, pos, mem, returned, lost, early>>
  BY DEF Flush, reader
<1>2. FileType /\ WriterType /\ pending \in Seq(Cell) /\ pending # <<>> /\ n \in Nat /\ n >= 1
  BY DEF FrameInv, FileInv, FileType
<1>3. /\ OnDisk \in Nat /\ Base \in Nat /\ Len(file) = Base + OnDisk
      /\ file' \in Seq(Cell) /\ Len(file') = Base + OnDisk + n /\ OnDisk + n <= Len(Current)
      /\ \A k \in 1 .. Len(file) : file'[k] = file[k]
      /\ \A i \in 1 .. OnDisk + n : file'[Base + i] = Current[i]
      /\ begun # <<>> /\ Current' = Current
      /\ pending' # <<>> => /\ OnDisk' = OnDisk + n /\ Base' = Base
                            /\ Len(pending') <= Len(Current)
                            /\ \A i \in 1 .. Len(pending') : pending'[i] = Current[OnDisk + n + i]
      /\ (pending' = <<>>) <=> (n = Len(pending))
  BY FlushParts
<1>4. /\ Last(begun) = begun[Len(begun)] /\ Len(begun) \in DOMAIN begun /\ Len(begun) \in Nat
      /\ Last(begun) \in Records[type] /\ Len(Current) \in Nat
      /\ Current[2] = <<Last(begun).ver>> /\ Current[3] = Checksum(Last(begun).body)
      /\ \A i \in 1 .. Len(Current) : (Len(Current[i]) > 1) <=> (i = 3)
  BY <1>2, <1>3, CurrentShape DEF WriterType
<1>5. done \in Seq(Records[type]) /\ begun \in Seq(Records[type])
  BY <1>2 DEF WriterType
<1>6. WriterType'
  <2>1. done' \in Seq(Records[type]) /\ Len(done') \in {Len(done), Len(done) + 1}
    <3>1. Append(done, begun[Len(begun)]) \in Seq(Records[type])
          /\ Len(Append(done, begun[Len(begun)])) = Len(done) + 1
      BY <1>4, <1>5
    <3> QED
      BY <1>1, <1>5, <3>1
  <2>2. intact \in 0 .. Len(done')
    BY <1>2, <1>5, <2>1 DEF WriterType
  <2> QED
    BY <1>1, <1>2, <2>1, <2>2 DEF WriterType
<1>7. UnderWay'
  <2>1. CASE pending' # <<>>
    BY <1>1, <1>3, <2>1 DEF UnderWay
  <2> QED
    BY <2>1 DEF UnderWay
<1>8. DoneFollows'
  <2>1. PICK at \in [DOMAIN done -> DOMAIN begun] :
            /\ \A i, j \in DOMAIN done : i < j => at[i] < at[j]
            /\ \A i \in DOMAIN done : done[i] = begun[at[i]]
            /\ \A i \in DOMAIN done : at[i] < Len(begun)
    BY <1>2 DEF FrameInv, DoneFollows
  <2>2. CASE n = Len(pending)
    <3>1. done' = Append(done, begun[Len(begun)]) /\ pending' = <<>>
      BY <1>1, <1>3, <2>2
    <3>2. /\ DOMAIN done' = DOMAIN done \cup {Len(done) + 1} /\ Len(done) \in Nat
          /\ \A i \in DOMAIN done : i \in Nat /\ i < Len(done) + 1 /\ done'[i] = done[i]
          /\ done'[Len(done) + 1] = begun[Len(begun)]
      BY <1>4, <1>5, <3>1
    <3> DEFINE at2 == [i \in DOMAIN done' |-> IF i \in DOMAIN done THEN at[i] ELSE Len(begun)]
    <3>3. at2 \in [DOMAIN done' -> DOMAIN begun']
      BY <1>1, <1>4
    <3>4. \A i, j \in DOMAIN done' : i < j => at2[i] < at2[j]
      <4> SUFFICES ASSUME NEW i \in DOMAIN done', NEW j \in DOMAIN done', i < j PROVE at2[i] < at2[j]
        OBVIOUS
      <4>1. i \in DOMAIN done
        BY <3>2
      <4>2. j \in DOMAIN done \/ at2[j] = Len(begun)
        OBVIOUS
      <4> QED
        BY <2>1, <4>1, <4>2
    <3>5. \A i \in DOMAIN done' : done'[i] = begun'[at2[i]]
      <4> SUFFICES ASSUME NEW i \in DOMAIN done' PROVE done'[i] = begun[at2[i]]
        BY <1>1
      <4>1. CASE i \in DOMAIN done
        BY <2>1, <3>2, <4>1
      <4>2. CASE i \notin DOMAIN done
        BY <3>2, <4>2
      <4> QED
        BY <4>1, <4>2
    <3> QED
      BY <3>1, <3>3, <3>4, <3>5 DEF DoneFollows
  <2>3. CASE n # Len(pending)
    BY <1>1, <2>1, <2>3 DEF DoneFollows
  <2> QED
    BY <2>2, <2>3
<1>9. PICK own \in [Sums -> DOMAIN begun] :
          Owned(own) /\ \E at \in [DOMAIN returned -> Sums] : Found(own, at)
  BY DEF FrameInv, Framed
<1>10. PICK at \in [DOMAIN returned -> Sums] : Found(own, at)
  BY <1>9
<1>11. DOMAIN file = 1 .. Len(file) /\ DOMAIN file' = 1 .. Len(file') /\ Len(file) \in Nat
  BY <1>2, <1>3 DEF FileType
<1>12. \A k \in Sums : /\ k \in 1 .. Len(file) /\ k - 1 \in 1 .. Len(file)
                       /\ file'[k] = file[k] /\ file'[k - 1] = file[k - 1]
  BY <1>3, <1>9, <1>11 DEF Sums, Owned
<1>13. ASSUME NEW k \in DOMAIN file'
       PROVE  k \in Sums' <=> k \in Sums \/ (k = Base + 3 /\ OnDisk < 3 /\ 3 <= OnDisk + n)
  <2>1. CASE k <= Len(file)
    <3>1. k \in DOMAIN file /\ file'[k] = file[k] /\ ~(k = Base + 3 /\ OnDisk < 3)
      BY <1>3, <1>11, <2>1
    <3> QED
      BY <3>1 DEF Sums
  <2>2. CASE ~(k <= Len(file))
    <3>1. k \notin Sums
      BY <1>11, <2>2 DEF Sums
    <3>2. /\ k - Base \in 1 .. OnDisk + n /\ k = Base + (k - Base) /\ k - Base \in 1 .. Len(Current)
          /\ k - Base > OnDisk
      <4>1. k \in Nat /\ k <= Base + OnDisk + n /\ k > Base + OnDisk
        BY <1>2, <1>3, <1>11, <2>2
      <4>2. Base \in Nat /\ OnDisk \in Nat /\ Len(Current) \in Nat /\ OnDisk + n <= Len(Current)
        BY <1>3, <1>4
      <4> QED
        BY <1>2, <4>1, <4>2
    <3>3. file'[k] = Current[k - Base]
      BY <1>3, <3>2
    <3>4. (Len(file'[k]) > 1) <=> (k - Base = 3)
      BY <1>4, <3>2, <3>3
    <3>5. (k - Base = 3) <=> (k = Base + 3 /\ OnDisk < 3 /\ 3 <= OnDisk + n)
      BY <1>2, <1>3, <1>11, <3>2
    <3> QED
      BY <3>1, <3>4, <3>5 DEF Sums
  <2> QED
    BY <2>1, <2>2
<1>14. Sums \subseteq DOMAIN file' /\ Sums' \subseteq DOMAIN file'
  BY <1>2, <1>3, <1>11 DEF Sums
<1>15. ASSUME OnDisk < 3 /\ 3 <= OnDisk + n PROVE Framed'
  <2> DEFINE new == Base + 3
  <2>1. new \in DOMAIN file' /\ new > Len(file) /\ new > 1 /\ new \in Nat /\ new - 1 = Base + 2
    BY <1>2, <1>3, <1>11, <1>15
  <2>2. Sums' = Sums \cup {new}
    BY <1>13, <1>14, <1>15, <2>1
  <2>3. file'[new] = Checksum(Last(begun).body) /\ file'[new - 1] = <<Last(begun).ver>>
    <3>1. 3 \in 1 .. OnDisk + n /\ 2 \in 1 .. OnDisk + n
      BY <1>2, <1>3, <1>15
    <3> QED
      BY <1>3, <1>4, <2>1, <3>1
  <2>4. new \notin Sums
    BY <1>11, <2>1 DEF Sums
  <2>5. PICK own2 \in [Sums' -> DOMAIN begun'] :
            own2[new] = Len(begun) /\ \A k \in Sums : own2[k] = own[k]
    <3> DEFINE f == [k \in Sums' |-> IF k \in Sums THEN own[k] ELSE Len(begun)]
    <3>1. f \in [Sums' -> DOMAIN begun'] /\ f[new] = Len(begun) /\ \A k \in Sums : f[k] = own[k]
      BY <1>1, <1>4, <2>2, <2>4
    <3> QED
      BY <3>1
  <2>6. \A k \in Sums : own[k] < Len(begun)
    BY <1>2, <1>9, <1>15 DEF Owned
  <2>7. ~(pending' # <<>> /\ OnDisk' < 3)
    BY <1>2, <1>3, <1>15
  <2> HIDE DEF new
  <2>8. ASSUME NEW k \in Sums'
        PROVE  /\ k > 1 /\ file'[k] = Checksum(begun[own2[k]].body)
               /\ file'[k - 1] = <<begun[own2[k]].ver>>
    <3>1. CASE k \in Sums
      BY <1>9, <1>12, <2>5, <3>1 DEF Owned
    <3>2. CASE k = new
      BY <1>4, <2>1, <2>3, <2>5, <3>2
    <3> QED
      BY <2>2, <3>1, <3>2
  <2>9. ASSUME NEW k \in Sums', NEW l \in Sums', k < l PROVE own2[k] < own2[l]
    <3>1. k \in Sums
      <4>1. CASE k = new /\ l \in Sums
        BY <1>11, <1>12, <2>1, <2>9, <4>1
      <4>2. CASE k = new /\ l = new
        BY <2>1, <2>9, <4>2
      <4> QED
        BY <2>2, <4>1, <4>2
    <3>2. CASE l \in Sums
      BY <1>9, <2>5, <2>9, <3>1, <3>2 DEF Owned
    <3>3. CASE l = new
      BY <2>5, <2>6, <3>1, <3>3
    <3> QED
      BY <2>2, <3>2, <3>3
  <2>10. Owned(own2)'
    BY <1>1, <2>7, <2>8, <2>9 DEF Owned
  <2>11. at \in [DOMAIN returned' -> Sums']
    BY <1>1, <2>2
  <2>12. Found(own2, at)'
    BY <1>1, <1>10, <2>5 DEF Found
  <2> QED
    BY <2>5, <2>10, <2>11, <2>12 DEF Framed
<1>16. ASSUME ~(OnDisk < 3 /\ 3 <= OnDisk + n) PROVE Framed'
  <2>1. Sums' = Sums
    BY <1>13, <1>14, <1>16
  <2>2. pending' # <<>> /\ OnDisk' < 3 => OnDisk < 3
    BY <1>2, <1>3
  <2>3. Owned(own)'
    BY <1>1, <1>2, <1>9, <1>12, <2>1, <2>2 DEF Owned
  <2>4. Found(own, at)'
    BY <1>1, <1>10, <2>1 DEF Found
  <2> QED
    BY <1>1, <2>1, <2>3, <2>4 DEF Framed
<1>17. Framed'
  BY <1>15, <1>16
<1> QED
  BY <1>6, <1>7, <1>8, <1>17

LEMMA ReadFrames ==
    ASSUME FrameInv, Read
    PROVE  WriterType' /\ UnderWay' /\ DoneFollows' /\ Framed'
<1> DEFINE c == SubSeq(file, pos + 1, Len(file))
           r == ReadRecord(c)
           rec == [ver |-> r.ver, body |-> r.body]
<1>1. /\ pos < Len(file) /\ pos' = pos + r.used
      /\ lost' = (lost \/ r.err # "none")
      /\ early' = (early \/ (r.err = "short" /\ pending # <<>>))
      /\ returned' = (IF r.err = "none" THEN Append(returned, [rec |-> rec, fields |-> mem']) ELSE returned)
      /\ UNCHANGED <<type, file, pending, begun, done, torn, intact>>
  BY DEF Read, writer
<1>2. FileType /\ WriterType
  BY DEF FrameInv, FileInv
<1>3. /\ c \in Seq(Cell) /\ Len(c) > 0 /\ \A i \in 1 .. Len(c) : c[i] = file[pos + i]
      /\ Len(c) = Len(file) - pos /\ Len(c) \in Nat /\ pos \in Nat /\ Len(file) \in Nat
      /\ DOMAIN file = 1 .. Len(file)
  BY <1>1, <1>2 DEF FileType
<1> HIDE DEF c
<1>4. r.used \in 0 .. Len(c) /\ r.ver \in Nat /\ r.body \in Seq(Nat)
  BY <1>2, <1>3, ReadType DEF FileType
<1>5. r.err = "none" => /\ Len(c) >= 3 /\ r.used >= 3 /\ Len(r.body) > 0
                        /\ r.ver = c[2][1] /\ c[3] = Checksum(r.body)
  BY <1>2, <1>3, ReadSucceeds DEF FileType
<1> HIDE DEF r
<1>6. WriterType'
  BY <1>1, <1>2 DEF WriterType
<1>7. UnderWay'
  <2>1. Current' = Current
    BY <1>1 DEF Current, Encode, Checksum, Last
  <2>2. OnDisk' = OnDisk
    BY <1>1, <2>1 DEF OnDisk
  <2>3. Base' = Base
    BY <1>1, <2>2 DEF Base
  <2> QED
    BY <1>1, <2>1, <2>2, <2>3 DEF FrameInv, UnderWay
<1>8. DoneFollows'
  BY <1>1 DEF FrameInv, DoneFollows
<1>9. PICK own \in [Sums -> DOMAIN begun] :
          Owned(own) /\ \E at \in [DOMAIN returned -> Sums] : Found(own, at)
  BY DEF FrameInv, Framed
<1>10. PICK at \in [DOMAIN returned -> Sums] : Found(own, at)
  BY <1>9
<1>11. Sums' = Sums /\ OnDisk' = OnDisk
  BY <1>1 DEF Sums, OnDisk, Current, Encode, Checksum, Last
<1>12. Owned(own)'
  BY <1>1, <1>9, <1>11 DEF Owned, Checksum
<1>13. pos' \in Nat /\ pos' >= pos
  BY <1>1, <1>3, <1>4
<1>14. \A i \in DOMAIN returned : at[i] \in Nat /\ at[i] <= pos
  BY <1>3, <1>10 DEF Found, Sums
<1>15. CASE r.err # "none"
  <2>1. returned' = returned
    BY <1>1, <1>15
  <2>2. Found(own, at)'
    BY <1>1, <1>3, <1>10, <1>13, <1>14, <2>1 DEF Found
  <2> QED
    BY <1>1, <1>11, <1>12, <2>1, <2>2, <1>6, <1>7, <1>8 DEF Framed
<1>16. CASE r.err = "none"
  <2> DEFINE k == pos + 3
  <2>1. k \in DOMAIN file /\ file[k] = c[3] /\ file[k - 1] = c[2] /\ k \in Nat /\ k > pos /\ k <= pos'
    BY <1>1, <1>3, <1>4, <1>5, <1>16
  <2> HIDE DEF k
  <2>2. k \in Sums
    <3>1. <<1000>> \in Seq(Nat) /\ Len(<<1000>>) = 1
      OBVIOUS
    <3>2. Len(Checksum(r.body)) = 1 + Len(r.body) /\ Len(r.body) \in Nat
      BY <1>4, <3>1 DEF Checksum
    <3>3. Len(file[k]) > 1
      BY <1>5, <1>16, <2>1, <3>2
    <3> QED
      BY <2>1, <3>3 DEF Sums
  <2> DEFINE b == begun[own[k]]
  <2>3. b \in Records[type]
    BY <1>2, <2>2 DEF WriterType
  <2>4. file[k] = Checksum(b.body) /\ file[k - 1] = <<b.ver>>
    BY <1>9, <2>2 DEF Owned
  <2>5. b.ver \in Nat /\ b.body \in Seq(Nat) /\ b = [ver |-> b.ver, body |-> b.body]
    BY <1>2, <2>3, RecordType, RecordShape DEF FileType
  <2> HIDE DEF b
  <2>6. r.body = b.body
    BY <1>4, <1>5, <1>16, <2>1, <2>4, <2>5, ChecksumIsInjective
  <2>7. r.ver = b.ver
    <3>1. c[2] = <<b.ver>>
      BY <2>1, <2>4
    <3> QED
      BY <1>5, <1>16, <3>1
  <2>8. rec = begun[own[k]]
    BY <2>5, <2>6, <2>7 DEF b
  <2> HIDE DEF rec
  <2>9. /\ returned' = Append(returned, [rec |-> rec, fields |-> mem'])
        /\ DOMAIN returned' = DOMAIN returned \cup {Len(returned) + 1}
        /\ Len(returned) \in Nat
        /\ \A i \in DOMAIN returned : i \in Nat /\ i < Len(returned) + 1 /\ returned'[i] = returned[i]
        /\ returned'[Len(returned) + 1].rec = rec
    BY <1>1, <1>2, <1>16 DEF FileType
  <2>10. PICK at2 \in [DOMAIN returned' -> Sums'] :
            at2[Len(returned) + 1] = k /\ \A i \in DOMAIN returned : at2[i] = at[i]
    <3> DEFINE f == [i \in DOMAIN returned' |-> IF i \in DOMAIN returned THEN at[i] ELSE k]
    <3>1. Len(returned) + 1 \notin DOMAIN returned
      BY <2>9
    <3>2. f \in [DOMAIN returned' -> Sums'] /\ f[Len(returned) + 1] = k
          /\ \A i \in DOMAIN returned : f[i] = at[i]
      BY <1>11, <2>2, <2>9, <3>1
    <3> QED
      BY <3>2
  <2>11. ASSUME NEW i \in DOMAIN returned', NEW j \in DOMAIN returned', i < j PROVE at2[i] < at2[j]
    <3>1. i \in DOMAIN returned
      BY <2>9, <2>11
    <3>2. CASE j \in DOMAIN returned
      BY <1>10, <2>10, <2>11, <3>1, <3>2 DEF Found
    <3>3. CASE j = Len(returned) + 1
      BY <1>3, <1>14, <2>1, <2>10, <3>1, <3>3
    <3> QED
      BY <2>9, <3>2, <3>3
  <2>12. ASSUME NEW i \in DOMAIN returned'
         PROVE  at2[i] <= pos' /\ returned'[i].rec = begun[own[at2[i]]]
    <3>1. CASE i \in DOMAIN returned
      BY <1>3, <1>10, <1>13, <1>14, <2>9, <2>10, <3>1 DEF Found
    <3>2. CASE i = Len(returned) + 1
      BY <2>1, <2>8, <2>9, <2>10, <3>2
    <3> QED
      BY <2>9, <3>1, <3>2
  <2>13. Found(own, at2)'
    BY <1>1, <2>11, <2>12 DEF Found
  <2> QED
    BY <1>1, <1>11, <1>12, <2>10, <2>13, <1>6, <1>7, <1>8 DEF Framed
<1> QED
  BY <1>15, <1>16

LEMMA FrameInit == Init => FrameInv
<1> SUFFICES ASSUME Init PROVE FrameInv
  OBVIOUS
<1>1. FileInv
  BY InitOK
<1>2. WriterType
  <2>1. <<>> \in Seq(Records[type]) /\ Len(done) = 0
    BY DEF Init
  <2>2. begun = <<>> /\ done = <<>> /\ torn = FALSE /\ intact = 0 /\ lost = FALSE /\ early = FALSE
    BY DEF Init
  <2>3. intact \in 0 .. Len(done)
    BY <2>1, <2>2
  <2> QED
    BY <2>1, <2>2, <2>3 DEF WriterType
<1>3. UnderWay
  BY DEF Init, UnderWay
<1>4. DOMAIN done = {} /\ DOMAIN returned = {} /\ DOMAIN file = {}
  BY DEF Init
<1>5. DoneFollows
  <2> DEFINE at == [i \in {} |-> 1]
  <2>1. at \in [DOMAIN done -> DOMAIN begun]
    BY <1>4
  <2> QED
    BY <1>4, <2>1 DEF DoneFollows
<1>6. Framed
  <2> DEFINE own == [i \in {} |-> 1]
  <2>1. Sums = {}
    BY <1>4 DEF Sums
  <2>2. own \in [Sums -> DOMAIN begun] /\ own \in [DOMAIN returned -> Sums]
    BY <1>4, <2>1
  <2>3. Owned(own) /\ Found(own, own)
    BY <1>4, <2>1 DEF Owned, Found
  <2> QED
    BY <2>2, <2>3 DEF Framed
<1> QED
  BY <1>1, <1>2, <1>3, <1>5, <1>6 DEF FrameInv

LEMMA FrameStep == FrameInv /\ [Next]_vars => FrameInv'
<1> SUFFICES ASSUME FrameInv, [Next]_vars PROVE FrameInv'
  OBVIOUS
<1>1. FileInv'
  BY StepKeeps DEF FrameInv
<1>2. ASSUME NEW r \in Records[type], Begin(r) PROVE FrameInv'
  BY <1>1, <1>2, BeginFrames DEF FrameInv
<1>3. ASSUME NEW n \in 1 .. Len(pending), Flush(n) PROVE FrameInv'
  BY <1>1, <1>3, FlushFrames DEF FrameInv
<1>4. CASE CutShort
  BY <1>1, <1>4, CutFrames DEF FrameInv
<1>5. CASE Read
  BY <1>1, <1>5, ReadFrames DEF FrameInv
<1>6. CASE UNCHANGED vars
  <2>1. UNCHANGED <<type, file, pending, begun, done, torn, intact, pos, mem, returned, lost, early>>
    BY <1>6 DEF vars, writer, reader
  <2>2. WriterType' /\ DoneFollows'
    BY <2>1 DEF FrameInv, WriterType, DoneFollows
  <2>3. Current' = Current
    BY <2>1 DEF Current, Encode, Checksum, Last
  <2>4. Sums' = Sums /\ OnDisk' = OnDisk
    BY <2>1, <2>3 DEF Sums, OnDisk
  <2>5. UnderWay'
    <3>1. Base' = Base
      BY <2>1, <2>4 DEF Base
    <3> QED
      BY <2>1, <2>3, <2>4, <3>1 DEF FrameInv, UnderWay
  <2>6. Framed'
    <3>1. PICK own \in [Sums -> DOMAIN begun] :
              Owned(own) /\ \E at \in [DOMAIN returned -> Sums] : Found(own, at)
      BY DEF FrameInv, Framed
    <3>2. PICK at \in [DOMAIN returned -> Sums] : Found(own, at)
      BY <3>1
    <3>3. Owned(own)'
      BY <2>1, <2>4, <3>1 DEF Owned, Checksum
    <3>4. Found(own, at)'
      BY <2>1, <3>2 DEF Found
    <3> QED
      BY <2>1, <2>4, <3>3, <3>4 DEF Framed
  <2> QED
    BY <1>1, <2>2, <2>5, <2>6 DEF FrameInv
<1> QED
  BY <1>2, <1>3, <1>4, <1>5, <1>6 DEF Next

-----------------------------------------------------------------------------
\* However often records are cut short and others appended after them, and wherever the
\* reader goes on after an error: the records that successful reads return are records that
\* were begun, in the order in which they were begun, none of them twice.
THEOREM NothingMadeUp == Spec => []NoFalseRecord
<1>1. FrameInv => NoFalseRecord
  <2> SUFFICES ASSUME FrameInv PROVE NoFalseRecord
    OBVIOUS
  <2>1. PICK own \in [Sums -> DOMAIN begun] :
            Owned(own) /\ \E at \in [DOMAIN returned -> Sums] : Found(own, at)
    BY DEF FrameInv, Framed
  <2>2. PICK at \in [DOMAIN returned -> Sums] : Found(own, at)
    BY <2>1
  <2>3. DOMAIN Returned = DOMAIN returned /\ \A i \in DOMAIN returned : Returned[i] = returned[i].rec
    BY DEF Returned
  <2> DEFINE from == [i \in DOMAIN Returned |-> own[at[i]]]
  <2>4. from \in [DOMAIN Returned -> DOMAIN begun]
    BY <2>3
  <2>5. \A i, j \in DOMAIN Returned : i < j => from[i] < from[j]
    BY <2>1, <2>2, <2>3 DEF Found, Owned
  <2>6. \A i \in DOMAIN Returned : Returned[i] = begun[from[i]]
    BY <2>2, <2>3 DEF Found
  <2> QED
    BY <2>4, <2>5, <2>6 DEF NoFalseRecord, Subsequence
<1> QED
  BY <1>1, FrameInit, FrameStep, PTL DEF Spec

\* The state is of its type: what is pending is the rest of the record begun last, what is
\* done are records begun, and the reader is never past the end of the file.
THEOREM TypeCorrect == Spec => []TypeOK
<1>1. FrameInv => TypeOK
  <2> SUFFICES ASSUME FrameInv PROVE TypeOK
    OBVIOUS
  <2>1. FileType /\ WriterType /\ UnderWay /\ DoneFollows
    BY DEF FrameInv, FileInv
  <2>2. ASSUME pending # <<>> PROVE begun # <<>> /\ IsSuffix(pending, Current)
    <3>1. /\ begun # <<>> /\ Len(pending) <= Len(Current)
          /\ \A i \in 1 .. Len(pending) : pending[i] = Current[OnDisk + i]
      BY <2>1, <2>2 DEF UnderWay
    <3>2. Current \in Seq(Cell) /\ pending \in Seq(Cell) /\ Len(Current) \in Nat /\ Len(pending) \in Nat
      BY <2>1, <3>1, CurrentShape DEF FileType
    <3> DEFINE back(s) == [i \in 1 .. Len(s) |-> s[(Len(s) - i) + 1]]
    <3>3. back(pending) = Reverse(pending) /\ back(Current) = Reverse(Current)
      BY DEF Reverse
    <3>4. \A i \in 1 .. Len(pending) : back(pending)[i] = back(Current)[i]
      <4> SUFFICES ASSUME NEW i \in 1 .. Len(pending)
                   PROVE  pending[(Len(pending) - i) + 1] = Current[(Len(Current) - i) + 1]
        BY <3>1, <3>2
      <4>1. /\ (Len(pending) - i) + 1 \in 1 .. Len(pending)
            /\ OnDisk + ((Len(pending) - i) + 1) = (Len(Current) - i) + 1
        BY <3>2 DEF OnDisk
      <4> QED
        BY <3>1, <4>1
    <3>5. /\ back(pending) \in Seq(Cell) /\ back(Current) \in Seq(Cell)
          /\ Len(back(pending)) = Len(pending) /\ Len(back(Current)) = Len(Current)
      BY <3>2
    <3> HIDE DEF back
    <3>6. IsPrefix(back(pending), back(Current))
      BY <3>1, <3>4, <3>5, Begins
    <3> QED
      BY <3>1, <3>3, <3>6 DEF IsSuffix
  <2>3. Subsequence(done, begun)
    BY <2>1 DEF DoneFollows, Subsequence
  <2>4. \A i \in DOMAIN begun : begun[i] \in Records[type]
    BY <2>1 DEF WriterType
  <2>5. DOMAIN mem = Fields /\ pos \in 0 .. Len(file)
    BY <2>1 DEF FileType
  <2> QED
    BY <2>1, <2>2, <2>3, <2>4, <2>5 DEF TypeOK, WriterType, Current
<1> QED
  BY <1>1, FrameInit, FrameStep, PTL DEF Spec

-----------------------------------------------------------------------------
\* A record: its body has the size the reader computes.

LEMMA NumbersJoined ==
    ASSUME NEW s \in Seq(Nat), NEW t \in Seq(Nat)
    PROVE  Len(s \o t) = Len(s) + Len(t)
OBVIOUS

LEMMA SameNumbers ==
    ASSUME NEW s \in Seq(Nat), NEW t \in Seq(Nat), Len(s) = Len(t),
           \A i \in 1 .. Len(t) : s[i] = t[i]
    PROVE  s = t
OBVIOUS

LEMMA RecordSize ==
    ASSUME type \in Types, NEW r \in Records[type]
    PROVE  /\ r.ver \in Nat /\ r.ver <= CurrentVersion[type]
           /\ type # "event" => Len(r.body) = NumFields[type][r.ver + 1]
           /\ type = "event" => Len(r.body) >= 3 /\ Len(r.body) = 3 + NumSamples(r.body)
<1>1. PICK v \in 0 .. CurrentVersion[type] :
          r \in {[ver |-> v, body |-> b] :
                    b \in IF type = "event" THEN EventBodies
                          ELSE [1 .. NumFields[type][v + 1] -> Values]}
  BY DEF Records
<1>2. CurrentVersion[type] \in Nat
  BY Versions, TypesAssumption
<1>3. v \in Nat /\ r.ver = v /\ v <= CurrentVersion[type]
  BY <1>1, <1>2
<1>4. CASE type = "event"
  <2>1. r.body \in EventBodies
    BY <1>1, <1>4
  <2>2. PICK fixed \in Values \X (0 .. MaxLength) \X {0, 1} :
            r.body \in {fixed \o data : data \in [1 .. NumSamples(fixed) -> Values]}
    BY <2>1 DEF EventBodies
  <2>3. PICK data \in [1 .. NumSamples(fixed) -> Values] : r.body = fixed \o data
    BY <2>2
  <2>4. PICK a \in Values, b \in 0 .. MaxLength, d \in {0, 1} : fixed = <<a, b, d>>
    BY <2>2
  <2>5. a \in Nat /\ b \in Nat /\ d \in Nat
    BY <2>4, ValuesAssumption, SizesAssumption
  <2>6. fixed \in Seq(Nat) /\ Len(fixed) = 3 /\ fixed[2] \in Nat
    BY <2>4, <2>5
  <2>7. NumSamples(fixed) \in Nat
    BY <2>6, SizesAssumption DEF NumSamples
  <2>8. data \in Seq(Nat) /\ Len(data) = NumSamples(fixed)
    BY <2>7, ValuesAssumption, TupleOver
  <2>9. Len(r.body) = 3 + NumSamples(fixed)
    <3>1. Len(fixed \o data) = Len(fixed) + Len(data)
      BY <2>6, <2>8, NumbersJoined
    <3> QED
      BY <2>3, <2>6, <2>8, <3>1
  <2>10. r.body[2] = fixed[2] /\ r.body[3] = fixed[3]
    BY <2>3, <2>4, <2>5, <2>8
  <2>11. NumSamples(r.body) = NumSamples(fixed)
    BY <2>10 DEF NumSamples
  <2> QED
    BY <1>3, <1>4, <2>7, <2>9, <2>11
<1>5. CASE type # "event"
  <2>1. r.body \in [1 .. NumFields[type][v + 1] -> Values]
    BY <1>1, <1>5
  <2>2. NumFields[type][v + 1] \in Nat
    <3>1. CASE type = "header" \/ type = "status"
      <4>1. v + 1 \in {1, 2, 3}
        BY <1>3, <3>1, Versions
      <4> QED
        BY <3>1, <4>1, Counts
    <3>2. CASE type = "hk"
      <4>1. v + 1 \in {1, 2}
        BY <1>3, <3>2, Versions
      <4> QED
        BY <3>2, <4>1, Counts
    <3> QED
      BY <1>5, <3>1, <3>2, TypesAssumption
  <2>3. Len(r.body) = NumFields[type][v + 1]
    BY <2>1, <2>2
  <2> QED
    BY <1>3, <1>5, <2>3
<1> QED
  BY <1>4, <1>5

\* Its cells: a start of three, then the body.
LEMMA EncodeCells ==
    ASSUME type \in Types, NEW r \in Records[type]
    PROVE  /\ Encode(r) \in Seq(Cell) /\ Len(Encode(r)) = 3 + Len(r.body)
           /\ Encode(r)[1] = <<Magic>> /\ Encode(r)[2] = <<r.ver>>
           /\ Encode(r)[3] = Checksum(r.body)
           /\ \A i \in 1 .. Len(r.body) : Encode(r)[i + 3] = <<r.body[i]>>
<1> DEFINE body == [i \in 1 .. Len(r.body) |-> <<r.body[i]>>]
           start == <<<<Magic>>, <<r.ver>>, Checksum(r.body)>>
<1>1. r.ver \in Nat /\ r.body \in Seq(Nat)
  BY RecordType
<1>2. Checksum(r.body) \in Cell
  <2>1. <<1000>> \in Seq(Nat) /\ Len(<<1000>>) = 1
    OBVIOUS
  <2> QED
    BY <1>1, <2>1 DEF Checksum, Cell
<1>3. <<Magic>> \in Cell /\ <<r.ver>> \in Cell
  BY <1>1, CellOf DEF Magic
<1>4. /\ start \in Seq(Cell) /\ Len(start) = 3
      /\ start[1] = <<Magic>> /\ start[2] = <<r.ver>> /\ start[3] = Checksum(r.body)
  BY <1>2, <1>3
<1>5. /\ body \in Seq(Cell) /\ Len(body) = Len(r.body)
      /\ \A i \in 1 .. Len(r.body) : body[i] = <<r.body[i]>>
  <2>1. \A i \in 1 .. Len(r.body) : <<r.body[i]>> \in Cell
    BY <1>1, CellOf
  <2> QED
    BY <1>1, <2>1
<1>6. Encode(r) = start \o body
  BY DEF Encode
<1> HIDE DEF start, body
<1> DEFINE all == start \o body
<1>7. /\ all \in Seq(Cell) /\ Len(all) = Len(start) + Len(body)
      /\ \A i \in 1 .. Len(start) : all[i] = start[i]
      /\ \A i \in 1 .. Len(body) : all[i + Len(start)] = body[i]
  BY <1>4, <1>5, Joined
<1> HIDE DEF all
<1>8. Encode(r) = all
  BY <1>6 DEF all
<1> QED
  BY <1>4, <1>5, <1>7, <1>8

\* Cells that begin like a record: what the reader takes the size of the body to be.
LEMMA SizeFound ==
    ASSUME type \in Types, NEW r \in Records[type], NEW c \in Seq(Cell), Len(c) >= 3,
           \A k \in 1 .. Len(c) : k <= Len(Encode(r)) => c[k] = Encode(r)[k]
    PROVE  /\ type # "event" \/ Len(c) >= 6 => BodySize(c, r.ver) = Len(r.body)
           /\ type = "event" /\ Len(c) < 6 => BodySize(c, r.ver) = 3
<1>1. /\ r.ver \in Nat /\ r.ver <= CurrentVersion[type]
      /\ type # "event" => Len(r.body) = NumFields[type][r.ver + 1]
      /\ type = "event" => Len(r.body) >= 3 /\ Len(r.body) = 3 + NumSamples(r.body)
  BY RecordSize
<1>2. CASE type # "event"
  BY <1>1, <1>2 DEF BodySize
<1>3. CASE type = "event" /\ Len(c) < 6
  BY <1>3 DEF BodySize
<1>4. CASE type = "event" /\ ~(Len(c) < 6)
  <2>1. Len(c) \in Nat /\ Len(c) >= 6
    BY <1>4
  <2>2. BodySize(c, r.ver) = 3 + NumSamples(Raw(c, 4, 6))
    BY <1>4, <2>1 DEF BodySize
  <2>3. /\ r.body \in Seq(Nat) /\ Len(r.body) \in Nat /\ Len(Encode(r)) = 3 + Len(r.body)
        /\ \A i \in 1 .. Len(r.body) : Encode(r)[i + 3] = <<r.body[i]>>
    <3>1. r.body \in Seq(Nat)
      BY RecordType
    <3>2. Len(r.body) \in Nat
      BY <3>1
    <3> QED
      BY <3>1, <3>2, EncodeCells
  <2>4. c[5] = <<r.body[2]>> /\ c[6] = <<r.body[3]>>
    <3>1. 5 = 2 + 3 /\ 6 = 3 + 3 /\ 2 \in 1 .. Len(r.body) /\ 3 \in 1 .. Len(r.body)
          /\ 5 \in 1 .. Len(c) /\ 6 \in 1 .. Len(c) /\ 5 <= Len(Encode(r)) /\ 6 <= Len(Encode(r))
      BY <1>1, <1>4, <2>1, <2>3
    <3>2. c[5] = Encode(r)[5] /\ c[6] = Encode(r)[6]
      BY <3>1
    <3> QED
      BY <2>3, <3>1, <3>2
  <2>5. Raw(c, 4, 6)[2] = c[5][1] /\ Raw(c, 4, 6)[3] = c[6][1]
    BY DEF Raw
  <2>6. NumSamples(Raw(c, 4, 6)) = NumSamples(r.body)
    <3>1. Raw(c, 4, 6)[2] = r.body[2] /\ Raw(c, 4, 6)[3] = r.body[3]
      BY <2>4, <2>5
    <3> QED
      BY <3>1 DEF NumSamples
  <2> QED
    BY <1>1, <1>4, <2>1, <2>2, <2>6
<1> QED
  BY <1>2, <1>3, <1>4

LEMMA StartFound ==
    ASSUME type \in Types, NEW r \in Records[type], NEW c \in Seq(Cell), Len(c) >= 3,
           \A k \in 1 .. Len(c) : k <= Len(Encode(r)) => c[k] = Encode(r)[k]
    PROVE  ReadRecord(c) = ReadBody(c) /\ c[2][1] = r.ver /\ c[3] = Checksum(r.body)
<1>1. r.ver \in Nat /\ r.ver <= CurrentVersion[type] /\ CurrentVersion[type] \in Nat
  BY RecordSize, Versions, TypesAssumption
<1>2. Len(r.body) \in Nat /\ Len(Encode(r)) = 3 + Len(r.body) /\ Len(c) \in Nat
  BY RecordType, EncodeCells
<1>3. c[1] = Encode(r)[1] /\ c[2] = Encode(r)[2] /\ c[3] = Encode(r)[3]
  BY <1>2
<1>4. c[1][1] = Magic /\ c[2][1] = r.ver /\ c[3] = Checksum(r.body)
  BY <1>3, EncodeCells
<1>5. ~(c[2][1] > CurrentVersion[type]) /\ Len(c) # 1 /\ Len(c) # 2
  BY <1>1, <1>2, <1>4
<1> QED
  BY <1>4, <1>5 DEF ReadRecord

\* A record that is there as a whole is read.
LEMMA WholeIsRead ==
    ASSUME type \in Types, NEW r \in Records[type], NEW c \in Seq(Cell), Len(Encode(r)) <= Len(c),
           \A k \in 1 .. Len(Encode(r)) : c[k] = Encode(r)[k]
    PROVE  ReadRecord(c) = [err |-> "none", used |-> Len(Encode(r)), ver |-> r.ver, body |-> r.body]
<1>1. /\ r.body \in Seq(Nat) /\ Len(r.body) \in Nat /\ Len(Encode(r)) = 3 + Len(r.body)
      /\ \A i \in 1 .. Len(r.body) : Encode(r)[i + 3] = <<r.body[i]>>
  BY RecordType, EncodeCells
<1>2. Len(c) \in Nat /\ Len(c) >= 3 + Len(r.body) /\ Len(c) >= 3
  BY <1>1
<1>3. \A k \in 1 .. Len(c) : k <= Len(Encode(r)) => c[k] = Encode(r)[k]
  BY <1>1, <1>2
<1>4. type = "event" => Len(r.body) >= 3
  BY RecordSize
<1>5. BodySize(c, r.ver) = Len(r.body)
  <2>1. type # "event" \/ Len(c) >= 6
    BY <1>1, <1>2, <1>4
  <2> QED
    BY <1>2, <1>3, <2>1, SizeFound
<1>6. ReadRecord(c) = ReadBody(c) /\ c[2][1] = r.ver /\ c[3] = Checksum(r.body)
  BY <1>2, <1>3, StartFound
<1>7. ~(Len(c) < 3 + Len(r.body)) /\ 3 + Len(r.body) \in Nat
  BY <1>1, <1>2
<1>8. Raw(c, 4, 3 + Len(r.body)) = r.body
  <2>1. Raw(c, 4, 3 + Len(r.body)) \in Seq(Nat) /\ Len(Raw(c, 4, 3 + Len(r.body))) = Len(r.body)
    <3>1. 3 <= 3 + Len(r.body) /\ 3 + Len(r.body) <= Len(c) /\ (3 + Len(r.body)) - 3 = Len(r.body)
      BY <1>1, <1>2
    <3> QED
      BY <1>7, <3>1, RawType
  <2>2. ASSUME NEW i \in 1 .. Len(r.body) PROVE Raw(c, 4, 3 + Len(r.body))[i] = r.body[i]
    <3>1. /\ i \in 1 .. (3 + Len(r.body)) - 4 + 1 /\ 4 + i - 1 = i + 3
          /\ i + 3 \in 1 .. Len(Encode(r))
      BY <1>1
    <3>2. Raw(c, 4, 3 + Len(r.body))[i] = c[i + 3][1]
      BY <3>1 DEF Raw
    <3>3. c[i + 3] = <<r.body[i]>>
      BY <1>1, <3>1
    <3> QED
      BY <3>2, <3>3
  <2> DEFINE raw == Raw(c, 4, 3 + Len(r.body))
  <2> HIDE DEF raw
  <2>3. raw \in Seq(Nat) /\ Len(raw) = Len(r.body) /\ \A i \in 1 .. Len(r.body) : raw[i] = r.body[i]
    BY <2>1, <2>2 DEF raw
  <2>4. raw = r.body
    BY <1>1, <2>3, SameNumbers
  <2> QED
    BY <2>4 DEF raw
<1>9. Result(c, Len(r.body)) = "none"
  BY <1>6, <1>7, <1>8 DEF Result
<1> QED
  BY <1>1, <1>5, <1>6, <1>7, <1>8, <1>9 DEF ReadBody

\* A record of which only a part is there is too short.
LEMMA PartIsShort ==
    ASSUME type \in Types, NEW r \in Records[type], NEW c \in Seq(Cell),
           Len(c) > 0, Len(c) < Len(Encode(r)),
           \A k \in 1 .. Len(c) : c[k] = Encode(r)[k]
    PROVE  ReadRecord(c).err = "short"
<1>1. Len(r.body) \in Nat /\ Len(Encode(r)) = 3 + Len(r.body) /\ Len(c) \in Nat
  BY RecordType, EncodeCells
<1>2. CASE Len(c) >= 3
  <2>1. ReadRecord(c) = ReadBody(c) /\ c[2][1] = r.ver
    BY <1>2, StartFound
  <2>2. /\ type # "event" \/ Len(c) >= 6 => BodySize(c, r.ver) = Len(r.body)
        /\ type = "event" /\ Len(c) < 6 => BodySize(c, r.ver) = 3
    BY <1>2, SizeFound
  <2>3. Len(c) < 3 + BodySize(c, r.ver)
    BY <1>1, <2>2
  <2>4. Result(c, BodySize(c, r.ver)) = "short"
    BY <2>3 DEF Result
  <2> QED
    BY <2>1, <2>4 DEF ReadBody
<1>3. CASE ~(Len(c) >= 3)
  <2>1. Len(c) \in {1, 2}
    <3>1. \A n \in Nat : n > 0 /\ ~(n >= 3) => n \in {1, 2}
      OBVIOUS
    <3> QED
      BY <1>1, <1>3, <3>1
  <2>2. c[1] = Encode(r)[1] /\ c[1][1] = Magic
    BY <2>1, EncodeCells
  <2>3. Len(c) = 2 => c[2][1] = r.ver
    BY <2>1, EncodeCells
  <2>4. r.ver \in Nat /\ r.ver <= CurrentVersion[type] /\ CurrentVersion[type] \in Nat
    BY RecordSize, Versions, TypesAssumption
  <2>5. Len(c) = 2 => ~(c[2][1] > CurrentVersion[type])
    BY <2>3, <2>4
  <2> QED
    BY <2>1, <2>2, <2>5 DEF ReadRecord, NoStart
<1> QED
  BY <1>2, <1>3

-----------------------------------------------------------------------------
\* The invariant.

\* The number of records that are to be read back: those done before one was cut short.
Count == IF torn THEN intact ELSE Len(done)

\* Record i of these ends at at[i].
Laid(at) ==
    /\ at[0] = 0
    /\ \A i \in 0 .. Count : at[i] <= Len(file)
    /\ \A i \in 1 .. Count :
          /\ at[i] = at[i - 1] + Len(Encode(done[i]))
          /\ \A k \in 1 .. Len(Encode(done[i])) : file[at[i - 1] + k] = Encode(done[i])[k]
    /\ ~torn => at[Count] = IF pending = <<>> THEN Len(file) ELSE Base

\* The reader has read the first of them and stands behind, or it has read them all.
Behind(at) ==
    \/ /\ ~lost /\ Len(returned) <= Count /\ pos = at[Len(returned)]
       /\ \A i \in 1 .. Len(returned) : returned[i].rec = done[i]
    \/ /\ torn /\ Count <= Len(returned)
       /\ \A i \in 1 .. Count : returned[i].rec = done[i]

ReadInv == /\ FrameInv
           /\ \E at \in [0 .. Count -> Nat] : Laid(at) /\ (~early => Behind(at))

LEMMA CountType ==
    ASSUME FrameInv
    PROVE  /\ Count \in Nat /\ Count <= Len(done) /\ Len(done) \in Nat /\ DOMAIN done = 1 .. Len(done)
           /\ \A i \in 1 .. Count : done[i] \in Records[type]
<1>1. /\ done \in Seq(Records[type]) /\ intact \in 0 .. Len(done) /\ torn \in BOOLEAN
  BY DEF FrameInv, WriterType
<1> QED
  BY <1>1 DEF Count

\* What the reader has read is a beginning of what is to be read back, or the reverse.
LEMMA ReadInvOK == ReadInv => ReadBack
<1> SUFFICES ASSUME ReadInv, ~early
             PROVE  /\ IsPrefix(Returned, Intact) \/ (torn /\ IsPrefix(Intact, Returned))
                    /\ lost => torn /\ IsPrefix(Intact, Returned)
                    /\ pos = Len(file) /\ pending = <<>> => IsPrefix(Intact, Returned)
  BY DEF ReadBack
<1>1. FrameInv /\ FileType /\ WriterType
  BY DEF ReadInv, FrameInv, FileInv
<1>2. PICK at \in [0 .. Count -> Nat] : Laid(at) /\ Behind(at)
  BY DEF ReadInv
<1>3. /\ Count \in Nat /\ Count <= Len(done) /\ Len(done) \in Nat /\ DOMAIN done = 1 .. Len(done)
      /\ \A i \in 1 .. Count : done[i] \in Records[type]
  BY <1>1, CountType
<1>4. type \in Types /\ Len(returned) \in Nat /\ DOMAIN returned = 1 .. Len(returned)
      /\ returned \in Seq(ReadResult) /\ done \in Seq(Records[type])
  BY <1>1 DEF FileType, WriterType
<1> DEFINE Both == Records[type] \cup [ver : Nat, body : Seq(Nat)]
<1>5. /\ Returned \in Seq(Both) /\ Len(Returned) = Len(returned)
      /\ \A i \in 1 .. Len(returned) : Returned[i] = returned[i].rec
  <2>1. \A i \in 1 .. Len(returned) : returned[i].rec \in Both
    <3> SUFFICES ASSUME NEW i \in 1 .. Len(returned) PROVE returned[i].rec \in [ver : Nat, body : Seq(Nat)]
      OBVIOUS
    <3>1. returned[i] \in ReadResult
      BY <1>4
    <3> QED
      BY <3>1 DEF ReadResult
  <2>2. Returned = [i \in 1 .. Len(returned) |-> returned[i].rec]
    BY <1>4 DEF Returned
  <2> HIDE DEF Both
  <2> QED
    BY <1>4, <2>1, <2>2
<1>6. Intact \in Seq(Both) /\ Len(Intact) = Count /\ \A i \in 1 .. Count : Intact[i] = done[i]
  <2>1. CASE torn
    <3>1. Intact = SubSeq(done, 1, Count) /\ Count = intact
      BY <2>1 DEF Intact, Count
    <3>2. SubSeq(done, 1, Count) \in Seq(Both)
      BY <1>3, <1>4
    <3>3. Len(SubSeq(done, 1, Count)) = Count /\ \A i \in 1 .. Count : SubSeq(done, 1, Count)[i] = done[i]
      BY <1>3, <1>4
    <3> QED
      BY <3>1, <3>2, <3>3
  <2>2. CASE ~torn
    <3>1. Intact = done /\ Count = Len(done)
      BY <2>2 DEF Intact, Count
    <3>2. done \in Seq(Both)
      BY <1>4
    <3> QED
      BY <3>1, <3>2
  <2> QED
    BY <2>1, <2>2
<1> HIDE DEF Both
<1>7. ASSUME Len(returned) <= Count, \A i \in 1 .. Len(returned) : returned[i].rec = done[i]
      PROVE  IsPrefix(Returned, Intact)
  <2>1. Len(Returned) <= Len(Intact) /\ \A i \in 1 .. Len(Returned) : Returned[i] = Intact[i]
    BY <1>3, <1>4, <1>5, <1>6, <1>7
  <2> QED
    BY <1>5, <1>6, <2>1, Begins
<1>8. ASSUME Count <= Len(returned), \A i \in 1 .. Count : returned[i].rec = done[i]
      PROVE  IsPrefix(Intact, Returned)
  <2>1. Len(Intact) <= Len(Returned) /\ \A i \in 1 .. Len(Intact) : Intact[i] = Returned[i]
    BY <1>3, <1>4, <1>5, <1>6, <1>8
  <2> QED
    BY <1>5, <1>6, <2>1, Begins
<1>9. CASE torn /\ Count <= Len(returned) /\ \A i \in 1 .. Count : returned[i].rec = done[i]
  BY <1>8, <1>9
<1>10. CASE /\ ~lost /\ Len(returned) <= Count /\ pos = at[Len(returned)]
            /\ \A i \in 1 .. Len(returned) : returned[i].rec = done[i]
  <2>1. ASSUME pos = Len(file) PROVE IsPrefix(Intact, Returned)
    <3>1. ~(Len(returned) < Count)
      <4> SUFFICES ASSUME Len(returned) < Count PROVE FALSE
        OBVIOUS
      <4> DEFINE i == Len(returned) + 1
      <4>1. i \in 1 .. Count /\ i - 1 = Len(returned) /\ i \in 0 .. Count /\ i - 1 \in 0 .. Count
        BY <1>3, <1>4
      <4> HIDE DEF i
      <4>2. at[i] = pos + Len(Encode(done[i])) /\ at[i] <= Len(file)
        BY <1>2, <1>10, <4>1 DEF Laid
      <4>3. Len(Encode(done[i])) = 3 + Len(done[i].body) /\ Len(done[i].body) \in Nat
        BY <1>3, <1>4, <4>1, EncodeCells, RecordType
      <4>4. pos \in Nat
        BY <1>1 DEF FileType
      <4> QED
        BY <2>1, <4>2, <4>3, <4>4
    <3>2. Len(returned) = Count
      <4>1. Len(returned) <= Count
        BY <1>10
      <4>2. \A m, n \in Nat : m <= n /\ ~(m < n) => m = n
        OBVIOUS
      <4> QED
        BY <1>3, <1>4, <3>1, <4>1, <4>2
    <3> QED
      BY <1>8, <1>10, <3>2
  <2> QED
    BY <1>7, <1>10, <2>1
<1> QED
  BY <1>2, <1>9, <1>10 DEF Behind

-----------------------------------------------------------------------------
\* The steps.

\* What is laid out stays where it is while the file only grows.
LEMMA StillLaid ==
    ASSUME FrameInv, NEW at \in [0 .. Count -> Nat], Laid(at), Count' = Count,
           \A i \in 1 .. Count : done'[i] = done[i],
           Len(file') \in Nat, Len(file) <= Len(file'),
           \A k \in 1 .. Len(file) : file'[k] = file[k],
           ~torn' => at[Count] = IF pending' = <<>> THEN Len(file') ELSE Base'
    PROVE  Laid(at)'
<1>1. /\ Count \in Nat /\ Len(file) \in Nat
      /\ \A i \in 1 .. Count : done[i] \in Records[type]
  BY CountType DEF FrameInv, FileInv, FileType
<1>2. \A i \in 0 .. Count : at[i] <= Len(file')
  BY <1>1 DEF Laid
<1>3. ASSUME NEW i \in 1 .. Count
      PROVE  /\ at[i] = at[i - 1] + Len(Encode(done'[i]))
             /\ \A k \in 1 .. Len(Encode(done'[i])) : file'[at[i - 1] + k] = Encode(done'[i])[k]
  <2>1. /\ at[i] = at[i - 1] + Len(Encode(done[i])) /\ at[i] <= Len(file)
        /\ \A k \in 1 .. Len(Encode(done[i])) : file[at[i - 1] + k] = Encode(done[i])[k]
    BY <1>1 DEF Laid
  <2>2. i - 1 \in 0 .. Count /\ at[i - 1] \in Nat
    BY <1>1
  <2>3. Len(Encode(done[i])) \in Nat
    BY <1>1, EncodeType DEF FrameInv, FileInv, FileType
  <2>4. ASSUME NEW k \in 1 .. Len(Encode(done[i])) PROVE file'[at[i - 1] + k] = Encode(done[i])[k]
    <3>1. at[i - 1] + k \in 1 .. Len(file)
      BY <1>1, <2>1, <2>2, <2>3
    <3> QED
      BY <2>1, <3>1
  <2>5. done'[i] = done[i]
    OBVIOUS
  <2> QED
    BY <2>1, <2>4, <2>5
<1> QED
  BY <1>2, <1>3 DEF Laid

LEMMA InitReadBack == Init => ReadInv
<1> SUFFICES ASSUME Init PROVE ReadInv
  OBVIOUS
<1>1. FrameInv
  BY FrameInit
<1>2. done = <<>> /\ returned = <<>> /\ file = <<>> /\ pending = <<>> /\ torn = FALSE /\ lost = FALSE /\ pos = 0
  BY DEF Init
<1>3. Len(done) = 0 /\ Len(returned) = 0 /\ Len(file) = 0
  BY <1>2
<1>4. Count = 0
  BY <1>2, <1>3 DEF Count
<1> DEFINE at == [i \in 0 .. 0 |-> 0]
<1>5. at \in [0 .. Count -> Nat] /\ at[0] = 0
  BY <1>4
<1> HIDE DEF at
<1>6. Laid(at)
  BY <1>2, <1>3, <1>4, <1>5 DEF Laid
<1>7. Behind(at)
  BY <1>2, <1>3, <1>4, <1>5 DEF Behind
<1> QED
  BY <1>1, <1>5, <1>6, <1>7 DEF ReadInv

LEMMA BeginReadBack ==
    ASSUME ReadInv, NEW r \in Records[type], Begin(r), FrameInv'
    PROVE  ReadInv'
<1>1. /\ pending = <<>> /\ pending' = Encode(r) /\ begun' = Append(begun, r)
      /\ UNCHANGED <<type, file, done, torn, intact, pos, mem, returned, lost, early>>
  BY DEF Begin, reader
<1>2. FrameInv /\ FileType /\ WriterType
  BY DEF ReadInv, FrameInv, FileInv
<1>3. PICK at \in [0 .. Count -> Nat] : Laid(at) /\ (~early => Behind(at))
  BY DEF ReadInv
<1>4. Count' = Count
  BY <1>1 DEF Count
<1>5. Last(begun') = r
  BY <1>1, <1>2 DEF WriterType, Last
<1>6. Current' = pending' /\ pending' \in Seq(Cell) /\ Len(file) \in Nat
  BY <1>1, <1>2, <1>5, EncodeType DEF Current, FileType
<1>7. Base' = Len(file)
  BY <1>1, <1>6 DEF OnDisk, Base
<1>8. ~torn' => at[Count] = IF pending' = <<>> THEN Len(file') ELSE Base'
  BY <1>1, <1>3, <1>7 DEF Laid
<1>9. Laid(at)'
  <2>1. /\ Len(file') \in Nat /\ Len(file) <= Len(file')
        /\ \A k \in 1 .. Len(file) : file'[k] = file[k]
        /\ \A i \in 1 .. Count : done'[i] = done[i]
    BY <1>1, <1>6
  <2> QED
    BY <1>2, <1>3, <1>4, <1>8, <2>1, StillLaid
<1>10. Behind(at) => Behind(at)'
  BY <1>1, <1>4 DEF Behind
<1> QED
  BY <1>1, <1>3, <1>4, <1>9, <1>10 DEF ReadInv

LEMMA CutReadBack ==
    ASSUME ReadInv, CutShort, FrameInv'
    PROVE  ReadInv'
<1>1. /\ pending' = <<>> /\ torn' = TRUE /\ intact' = IF torn THEN intact ELSE Len(done)
      /\ UNCHANGED <<type, file, begun, done, pos, mem, returned, lost, early>>
  BY DEF CutShort, reader
<1>2. FrameInv /\ FileType
  BY DEF ReadInv, FrameInv, FileInv
<1>3. PICK at \in [0 .. Count -> Nat] : Laid(at) /\ (~early => Behind(at))
  BY DEF ReadInv
<1>4. Count' = Count
  BY <1>1 DEF Count
<1>5. Len(file) \in Nat
  BY <1>2 DEF FileType
<1>6. Laid(at)'
  BY <1>1, <1>2, <1>3, <1>4, <1>5, StillLaid
<1>7. Behind(at) => Behind(at)'
  BY <1>1, <1>4 DEF Behind
<1> QED
  BY <1>1, <1>3, <1>4, <1>6, <1>7 DEF ReadInv

LEMMA FlushReadBack ==
    ASSUME ReadInv, NEW n \in 1 .. Len(pending), Flush(n), FrameInv'
    PROVE  ReadInv'
<1>1. /\ done' = IF n = Len(pending) THEN Append(done, begun[Len(begun)]) ELSE done
      /\ UNCHANGED <<type, begun, torn, intact, pos, mem, returned, lost, early>>
  BY DEF Flush, reader
<1>2. FrameInv /\ FileType /\ WriterType /\ pending # <<>> /\ Len(pending) \in Nat /\ n \in Nat
  BY DEF ReadInv, FrameInv, FileInv, FileType
<1>3. /\ OnDisk \in Nat /\ Base \in Nat /\ Len(file) = Base + OnDisk
      /\ file' \in Seq(Cell) /\ Len(file') = Base + OnDisk + n /\ OnDisk + n <= Len(Current)
      /\ \A k \in 1 .. Len(file) : file'[k] = file[k]
      /\ \A i \in 1 .. OnDisk + n : file'[Base + i] = Current[i]
      /\ begun # <<>>
      /\ pending' # <<>> => Base' = Base
      /\ (pending' = <<>>) <=> (n = Len(pending))
  BY <1>2, FlushParts
<1>4. PICK at \in [0 .. Count -> Nat] : Laid(at) /\ (~early => Behind(at))
  BY DEF ReadInv
<1>5. /\ Count \in Nat /\ Count <= Len(done) /\ Len(done) \in Nat /\ DOMAIN done = 1 .. Len(done)
  BY <1>2, CountType
<1>6. done \in Seq(Records[type]) /\ begun \in Seq(Records[type])
  BY <1>2 DEF WriterType
<1>7. \A i \in 1 .. Count : done'[i] = done[i]
  BY <1>1, <1>5, <1>6
<1>8. Len(file) \in Nat /\ Len(file') \in Nat /\ Len(file) <= Len(file')
  BY <1>2, <1>3
<1>9. ASSUME torn \/ n # Len(pending) PROVE ReadInv'
  <2>1. Count' = Count
    BY <1>1, <1>9 DEF Count
  <2>2. ~torn' => at[Count] = IF pending' = <<>> THEN Len(file') ELSE Base'
    BY <1>1, <1>2, <1>3, <1>4, <1>9 DEF Laid
  <2>3. Laid(at)'
    BY <1>2, <1>3, <1>4, <1>7, <1>8, <2>1, <2>2, StillLaid
  <2>4. Behind(at) => Behind(at)'
    BY <1>1, <1>5, <1>7, <2>1 DEF Behind
  <2> QED
    BY <1>1, <1>4, <2>1, <2>3, <2>4 DEF ReadInv
<1>10. ASSUME ~torn, n = Len(pending) PROVE ReadInv'
  <2> DEFINE r == begun[Len(begun)]
             m == Count + 1
  <2>1. /\ done' = Append(done, r) /\ pending' = <<>> /\ Count = Len(done) /\ torn' = FALSE
    BY <1>1, <1>2, <1>3, <1>10 DEF Count, WriterType
  <2>2. /\ Count' = m /\ done'[m] = r /\ m \in Nat /\ 0 .. m = 0 .. Count \cup {m} /\ m \notin 0 .. Count
        /\ 1 .. m = 1 .. Count \cup {m} /\ m - 1 = Count
    BY <1>5, <1>6, <2>1 DEF Count
  <2> HIDE DEF m, r
  <2>3. Current = Encode(r) /\ Len(Current) \in Nat /\ at[Count] = Base /\ Len(file') = Base + Len(Current)
    <3>1. Current = Encode(r) /\ Len(Current) \in Nat
      BY <1>2, <1>3, CurrentShape DEF Current, r
    <3>2. at[Count] = Base
      BY <1>2, <1>4, <1>10 DEF Laid
    <3>3. OnDisk = Len(Current) - Len(pending)
      BY DEF OnDisk
    <3>4. OnDisk + n = Len(Current)
      BY <1>2, <1>10, <3>1, <3>3
    <3>5. Len(file') = Base + (OnDisk + n)
      BY <1>2, <1>3
    <3> QED
      BY <3>1, <3>2, <3>4, <3>5
  <2>4. PICK at2 \in [0 .. m -> Nat] : at2[m] = Len(file') /\ \A i \in 0 .. Count : at2[i] = at[i]
    <3> DEFINE f == [i \in 0 .. m |-> IF i \in 0 .. Count THEN at[i] ELSE Len(file')]
    <3>1. f \in [0 .. m -> Nat] /\ f[m] = Len(file') /\ \A i \in 0 .. Count : f[i] = at[i]
      BY <1>8, <2>2
    <3> QED
      BY <3>1
  <2>5. ASSUME NEW i \in 1 .. m
        PROVE  /\ at2[i] = at2[i - 1] + Len(Encode(done'[i]))
               /\ \A k \in 1 .. Len(Encode(done'[i])) : file'[at2[i - 1] + k] = Encode(done'[i])[k]
    <3>1. CASE i \in 1 .. Count
      <4>1. i \in 0 .. Count /\ i - 1 \in 0 .. Count /\ done'[i] = done[i] /\ at[i - 1] \in Nat
        BY <1>5, <1>7, <3>1
      <4>2. /\ at[i] = at[i - 1] + Len(Encode(done[i])) /\ at[i] <= Len(file)
            /\ \A k \in 1 .. Len(Encode(done[i])) : file[at[i - 1] + k] = Encode(done[i])[k]
        BY <1>4, <3>1, <4>1 DEF Laid
      <4>3. Len(Encode(done[i])) \in Nat
        BY <1>2, <3>1, CountType, EncodeType DEF FileType
      <4>4. ASSUME NEW k \in 1 .. Len(Encode(done[i])) PROVE file'[at[i - 1] + k] = Encode(done[i])[k]
        <5>1. at[i - 1] + k \in 1 .. Len(file)
          BY <1>8, <4>1, <4>2, <4>3
        <5> QED
          BY <1>3, <4>2, <5>1
      <4> QED
        BY <2>4, <4>1, <4>2, <4>4
    <3>2. CASE i = m
      <4>1. at2[i - 1] = Base /\ done'[i] = r
        <5>1. Count \in 0 .. Count
          BY <1>5
        <5> QED
          BY <2>2, <2>3, <2>4, <3>2, <5>1
      <4>2. \A k \in 1 .. Len(Current) : file'[Base + k] = Current[k]
        <5>1. OnDisk + n = Len(Current)
          BY <1>2, <1>10, <2>3 DEF OnDisk
        <5> QED
          BY <1>3, <5>1
      <4> QED
        BY <2>3, <2>4, <3>2, <4>1, <4>2
    <3> QED
      BY <2>2, <3>1, <3>2
  <2>6. ASSUME NEW i \in 0 .. m PROVE at2[i] <= Len(file')
    <3>1. CASE i \in 0 .. Count
      BY <1>4, <1>8, <2>4, <3>1 DEF Laid
    <3>2. CASE i = m
      BY <1>8, <2>4, <3>2
    <3> QED
      BY <2>2, <3>1, <3>2
  <2>7. at2[0] = 0
    BY <1>4, <1>5, <2>4 DEF Laid
  <2>8. Laid(at2)'
    BY <2>1, <2>2, <2>4, <2>5, <2>6, <2>7 DEF Laid
  <2>9. ASSUME Behind(at) PROVE Behind(at2)'
    <3>1. ~lost /\ Len(returned) <= Count /\ pos = at[Len(returned)]
          /\ \A i \in 1 .. Len(returned) : returned[i].rec = done[i]
      BY <1>10, <2>9 DEF Behind
    <3>2. Len(returned) \in Nat /\ Len(returned) \in 0 .. Count /\ Len(returned) <= m
      BY <1>2, <1>5, <3>1 DEF FileType, m
    <3>3. \A i \in 1 .. Len(returned) : returned[i].rec = done'[i]
      BY <1>5, <1>7, <3>1, <3>2
    <3> QED
      BY <1>1, <2>2, <2>4, <3>1, <3>2, <3>3 DEF Behind
  <2> QED
    BY <1>1, <1>4, <2>2, <2>4, <2>8, <2>9 DEF ReadInv
<1> QED
  BY <1>2, <1>9, <1>10 DEF WriterType

LEMMA ReadReadBack ==
    ASSUME ReadInv, Read, FrameInv'
    PROVE  ReadInv'
<1> DEFINE c == SubSeq(file, pos + 1, Len(file))
           r == ReadRecord(c)
           rec == [ver |-> r.ver, body |-> r.body]
<1>1. /\ pos < Len(file) /\ pos' = pos + r.used
      /\ lost' = (lost \/ r.err # "none")
      /\ early' = (early \/ (r.err = "short" /\ pending # <<>>))
      /\ returned' = (IF r.err = "none" THEN Append(returned, [rec |-> rec, fields |-> mem']) ELSE returned)
      /\ UNCHANGED <<type, file, pending, begun, done, torn, intact>>
  BY DEF Read, writer
<1>2. FrameInv /\ FileType /\ WriterType
  BY DEF ReadInv, FrameInv, FileInv
<1>3. /\ c \in Seq(Cell) /\ Len(c) > 0 /\ \A i \in 1 .. Len(c) : c[i] = file[pos + i]
      /\ Len(c) = Len(file) - pos /\ Len(c) \in Nat /\ pos \in Nat /\ Len(file) \in Nat
  BY <1>1, <1>2 DEF FileType
<1> HIDE DEF c
<1> HIDE DEF r
<1>4. PICK at \in [0 .. Count -> Nat] : Laid(at) /\ (~early => Behind(at))
  BY DEF ReadInv
<1>5. /\ Count \in Nat /\ Count <= Len(done) /\ Len(done) \in Nat
      /\ \A i \in 1 .. Count : done[i] \in Records[type]
  BY <1>2, CountType
<1>6. Count' = Count
  BY <1>1 DEF Count
<1>7. Current' = Current
  BY <1>1 DEF Current, Encode, Checksum, Last
<1>8. Base' = Base
  BY <1>1, <1>7 DEF OnDisk, Base
<1>9. Laid(at)'
  <2>1. /\ Len(file') \in Nat /\ Len(file) <= Len(file')
        /\ \A k \in 1 .. Len(file) : file'[k] = file[k]
        /\ \A i \in 1 .. Count : done'[i] = done[i]
    BY <1>1, <1>3
  <2>2. ~torn' => at[Count] = IF pending' = <<>> THEN Len(file') ELSE Base'
    BY <1>1, <1>4, <1>8 DEF Laid
  <2> QED
    BY <1>2, <1>4, <1>6, <2>1, <2>2, StillLaid
<1>10. /\ Len(returned) \in Nat /\ Len(returned') \in Nat
       /\ \A i \in 1 .. Len(returned) : returned'[i] = returned[i]
       /\ Len(returned) <= Len(returned')
       /\ r.err = "none" => /\ Len(returned') = Len(returned) + 1
                            /\ returned'[Len(returned) + 1].rec = rec
  <2> HIDE DEF rec
  <2>1. returned \in Seq(ReadResult) /\ Len(returned) \in Nat
    BY <1>2 DEF FileType
  <2>2. CASE r.err = "none"
    BY <1>1, <2>1, <2>2
  <2>3. CASE r.err # "none"
    BY <1>1, <2>1, <2>3
  <2> QED
    BY <2>1, <2>2, <2>3
<1>11. ASSUME ~early' PROVE Behind(at)'
  <2>1. ~early /\ Behind(at)
    BY <1>1, <1>4, <1>11
  <2>2. ASSUME torn, Count <= Len(returned), \A i \in 1 .. Count : returned[i].rec = done[i]
        PROVE  Behind(at)'
    <3>1. Count <= Len(returned') /\ \A i \in 1 .. Count : returned'[i].rec = done[i]
      BY <1>5, <1>10, <2>2
    <3> QED
      BY <1>1, <1>6, <2>2, <3>1 DEF Behind
  <2>3. ASSUME ~lost, Len(returned) <= Count, pos = at[Len(returned)],
               \A i \in 1 .. Len(returned) : returned[i].rec = done[i]
        PROVE  Behind(at)'
    <3>1. CASE Len(returned) < Count
      <4> DEFINE m == Len(returned) + 1
                 b == done[m]
      <4>1. m \in 1 .. Count /\ m - 1 = Len(returned) /\ m \in 0 .. Count
        BY <1>5, <1>10, <3>1
      <4> HIDE DEF m
      <4>2. b \in Records[type]
        BY <1>5, <4>1
      <4>3. /\ at[m] = pos + Len(Encode(b)) /\ at[m] <= Len(file)
            /\ \A k \in 1 .. Len(Encode(b)) : file[pos + k] = Encode(b)[k]
        BY <1>4, <2>3, <4>1 DEF Laid
      <4> HIDE DEF b
      <4>4. Len(Encode(b)) \in Nat /\ type \in Types
        BY <1>2, <4>2, EncodeType DEF FileType
      <4>5. Len(Encode(b)) <= Len(c)
        BY <1>3, <4>3, <4>4
      <4>6. \A k \in 1 .. Len(Encode(b)) : c[k] = Encode(b)[k]
        BY <1>3, <4>3, <4>4, <4>5
      <4>7. r = [err |-> "none", used |-> Len(Encode(b)), ver |-> b.ver, body |-> b.body]
        BY <1>3, <4>2, <4>4, <4>5, <4>6, WholeIsRead DEF r
      <4>8. rec = b
        BY <4>2, <4>4, <4>7, RecordShape
      <4>9. ~lost' /\ pos' = at[m]
        <5>1. r.err = "none" /\ r.used = Len(Encode(b))
          BY <4>7
        <5>2. ~lost'
          BY <1>1, <2>3, <5>1
        <5> QED
          BY <1>1, <4>3, <5>1, <5>2
      <4>10. Len(returned') = m /\ returned'[m].rec = done[m]
        BY <1>10, <4>7, <4>8 DEF m, b
      <4>11. ASSUME NEW i \in 1 .. m PROVE returned'[i].rec = done[i]
        <5>1. i \in 1 .. Len(returned) \/ i = m
          BY <1>10 DEF m
        <5> QED
          BY <1>10, <2>3, <4>10, <5>1
      <4>12. m <= Count
        BY <1>5, <4>1
      <4> QED
        BY <1>1, <1>6, <2>3, <4>9, <4>10, <4>11, <4>12 DEF Behind
    <3>2. CASE ~(Len(returned) < Count) /\ torn
      <4>1. Count <= Len(returned) /\ Count = Len(returned)
        BY <1>5, <1>10, <2>3, <3>2
      <4> QED
        BY <2>2, <2>3, <3>2, <4>1
    <3>3. CASE ~(Len(returned) < Count) /\ ~torn
      <4>1. Count = Len(returned)
        <5>1. \A m, n \in Nat : m <= n /\ ~(m < n) => n = m
          OBVIOUS
        <5> QED
          BY <1>5, <1>10, <2>3, <3>3, <5>1
      <4>2. pos = IF pending = <<>> THEN Len(file) ELSE Base
        BY <1>4, <2>3, <3>3, <4>1 DEF Laid
      <4>3. pending # <<>> /\ pos = Base
        BY <1>1, <1>3, <4>2
      <4>4. /\ begun # <<>> /\ Len(pending) <= Len(Current)
            /\ \A i \in 1 .. OnDisk : file[Base + i] = Current[i]
        BY <1>2, <4>3 DEF FrameInv, UnderWay
      <4>5. /\ Last(begun) \in Records[type] /\ Current = Encode(Last(begun))
            /\ Len(Current) \in Nat /\ type \in Types
        BY <1>2, <4>4, CurrentShape DEF Current, FileType
      <4>6. Len(pending) \in Nat /\ Len(pending) > 0
        BY <1>2, <4>3 DEF FileType
      <4>7. OnDisk = Len(Current) - Len(pending) /\ Base = Len(file) - OnDisk
        BY DEF OnDisk, Base
      <4>8. Len(c) = OnDisk /\ Len(c) < Len(Current)
        <5>1. OnDisk \in Nat /\ OnDisk < Len(Current)
          BY <4>4, <4>5, <4>6, <4>7
        <5> QED
          BY <1>3, <4>3, <4>7, <5>1
      <4>9. \A k \in 1 .. Len(c) : c[k] = Current[k]
        BY <1>3, <4>3, <4>4, <4>8
      <4>10. r.err = "short"
        BY <1>3, <4>5, <4>8, <4>9, PartIsShort DEF r
      <4> QED
        BY <1>1, <1>11, <4>3, <4>10
    <3> QED
      BY <3>1, <3>2, <3>3
  <2> QED
    BY <2>1, <2>2, <2>3 DEF Behind
<1> QED
  BY <1>4, <1>6, <1>9, <1>11 DEF ReadInv

LEMMA StepReadBack == ReadInv /\ [Next]_vars => ReadInv'
<1> SUFFICES ASSUME ReadInv, [Next]_vars PROVE ReadInv'
  OBVIOUS
<1>1. FrameInv'
  BY FrameStep DEF ReadInv
<1>2. ASSUME NEW r \in Records[type], Begin(r) PROVE ReadInv'
  BY <1>1, <1>2, BeginReadBack
<1>3. ASSUME NEW n \in 1 .. Len(pending), Flush(n) PROVE ReadInv'
  BY <1>1, <1>3, FlushReadBack
<1>4. CASE CutShort
  BY <1>1, <1>4, CutReadBack
<1>5. CASE Read
  BY <1>1, <1>5, ReadReadBack
<1>6. CASE UNCHANGED vars
  <2>1. UNCHANGED <<type, file, pending, begun, done, torn, intact, pos, mem, returned, lost, early>>
    BY <1>6 DEF vars, writer, reader
  <2>2. Count' = Count
    BY <2>1 DEF Count
  <2>3. Current' = Current
    BY <2>1 DEF Current, Encode, Checksum, Last
  <2>4. Base' = Base
    BY <2>1, <2>3 DEF OnDisk, Base
  <2>5. PICK at \in [0 .. Count -> Nat] : Laid(at) /\ (~early => Behind(at))
    BY DEF ReadInv
  <2>6. Laid(at)'
    <3>1. Len(file) \in Nat /\ FrameInv
      BY DEF ReadInv, FrameInv, FileInv, FileType
    <3>2. ~torn' => at[Count] = IF pending' = <<>> THEN Len(file') ELSE Base'
      BY <2>1, <2>4, <2>5 DEF Laid
    <3>3. /\ Len(file') \in Nat /\ Len(file) <= Len(file')
          /\ \A k \in 1 .. Len(file) : file'[k] = file[k]
          /\ \A i \in 1 .. Count : done'[i] = done[i]
      BY <2>1, <3>1
    <3> QED
      BY <2>2, <2>5, <3>1, <3>2, <3>3, StillLaid
  <2>7. Behind(at) => Behind(at)'
    BY <2>1, <2>2 DEF Behind
  <2> QED
    BY <1>1, <2>1, <2>2, <2>5, <2>6, <2>7 DEF ReadInv
<1> QED
  BY <1>2, <1>3, <1>4, <1>5, <1>6 DEF Next

-----------------------------------------------------------------------------
\* What is written is read back in order and unchanged, all of it or, when a record was cut
\* short, all before that one; no read fails before, unless it runs into a record that is
\* still being written.  For records of all types, versions and lengths, pieces of any size
\* that reach the disk, and any number of records.
THEOREM WrittenIsReadBack == Spec => []ReadBack
BY ReadInvOK, InitReadBack, StepReadBack, PTL DEF Spec

=============================================================================
