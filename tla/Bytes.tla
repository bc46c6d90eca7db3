------------------------------- MODULE Bytes -------------------------------
(* Byte slices as the wire formats use them: sequences of 0..255, read at      *)
(* offsets from 0.  The build is little-endian, so *_ne_bytes is Le.           *)
EXTENDS Naturals, Sequences, SequencesExt, FiniteSetsExt

Be16(n)     == <<n \div 256, n % 256>>
Le16(n)     == <<n % 256, n \div 256>>
Le32(n)     == Le16(n % 65536) \o Le16(n \div 65536)
At(b, i)    == b[i + 1]
Be16At(b, i) == 256 * At(b, i) + At(b, i + 1)
Le16At(b, i) == At(b, i) + 256 * At(b, i + 1)
Le32At(b, i) == Le16At(b, i) + 65536 * Le16At(b, i + 2)

\* &b[i..] and &b[i..j]
From(b, i)     == SubSeq(b, i + 1, Len(b))
Slice(b, i, j) == SubSeq(b, i + 1, j)

Times(n, x) == [k \in 1..n |-> x]

\* An Option: no value is the empty sequence, a value the sequence of it.
None    == <<>>
Some(v) == <<v>>
=============================================================================
