-------------------------------- MODULE Fletcher --------------------------------
(***************************************************************************)
(* The checksum of a body in beacon.c, computed piece by piece.  It has    *)
(* two sums, the second of which is no Fletcher sum: the code adds where   *)
(* it should assign, and keeps only eight bits of it from one piece to the *)
(* next.                                                                   *)
(***************************************************************************)
EXTENDS Integers, Sequences, SequencesExt

\* A fault for the checks to find: the second sum does not depend on the order.
AddByteUnordered(sums, byte) == <<(sums[1] + byte) % 255, (sums[2] + byte) % 2^16>>

\* sum1 = (sum1 + buf[i]) % 255; sum2 += (sum1 + sum2) % 255, in 16 bits
AddByte(sums, byte) ==
    LET sum1 == (sums[1] + byte) % 255
    IN  <<sum1, (sums[2] + ((sum1 + sums[2]) % 255)) % 2^16>>

\* stupid_fletcher16_append: sum1 | (sum2 << 8), in 16 bits
FletcherAppend(buf, append) ==
    LET sums == FoldLeft(AddByte, <<append % 256, append \div 256>>, buf)
    IN  sums[1] + 256 * (sums[2] % 256)

\* A body in pieces: stupid_fletcher16 of the first, then stupid_fletcher16_append.
Fletcher16(pieces) == FoldLeft(LAMBDA cksum, buf : FletcherAppend(buf, cksum), 0, pieces)

-----------------------------------------------------------------------------
\* Bodies of two pieces, the first one of a single byte.
SampleBytes  == {0, 1, 3, 128, 254, 255}
SampleBodies == {<<<<b>>, rest>> : b \in SampleBytes, rest \in [1 .. 3 -> SampleBytes]}

\* What the checksum tells apart.  Its first sum is that of all bytes, wherever the body is
\* cut in pieces; so it sees a byte that changes, unless from 0 to 255 or back.  Its second
\* sum sees two bytes at the end that change places, unless they differ by 127 or 128; the
\* second sum of Fletcher sees these as well.
ShowsDamage(body) ==
    LET rest  == body[2]
        bytes == body[1] \o rest
    IN  /\ Fletcher16(body) % 256 = FoldLeft(LAMBDA n, b : n + b, 0, bytes) % 255
        /\ \A i \in DOMAIN rest, b \in 0 .. 255 :
               b # rest[i] /\ {b, rest[i]} # {0, 255} =>
                   Fletcher16(<<body[1], [rest EXCEPT ![i] = b]>>) # Fletcher16(body)
        /\ LET swapped == [rest EXCEPT ![2] = rest[3], ![3] = rest[2]]
           IN  rest[2] - rest[3] \notin {0, 127, -127, 128, -128, 255, -255} =>
                   Fletcher16(<<body[1], swapped>>) # Fletcher16(body)

Detects == \A body \in SampleBodies : ShowsDamage(body)
=============================================================================
