------------------------------- MODULE Series -------------------------------
(* The metrics' series (metrics.rs): a histogram as it is filled and shown,   *)
(* and the labels that are the key of a series.  Text is a sequence of        *)
(* symbols.                                                                   *)
EXTENDS Bytes

Backslash == "\\"
Quote     == "\""
Newline   == "\n"

NoHist(buckets) == [buckets |-> [i \in DOMAIN buckets |-> 0], sum |-> 0, count |-> 0]

\* Mutant: only the first bucket that fits.
FitsFirst(buckets, i, d) == d <= buckets[i] /\ (i = 1 \/ d > buckets[i - 1])

Fits(buckets, i, d) == d <= buckets[i]

\* Metrics::observe
Observe(buckets, h, d) ==
    [buckets |-> [i \in DOMAIN buckets |-> h.buckets[i] + (IF Fits(buckets, i, d) THEN 1 ELSE 0)],
     sum |-> h.sum + d, count |-> h.count + 1]

\* render: the buckets, and the count as the +Inf bucket.
Shown(h) == Append(h.buckets, h.count)

\* Mutant: a backslash goes as it is.
EscapedPlain(c) ==
    CASE c = Quote -> <<Backslash, c>>
      [] c = Newline -> <<Backslash, "n">>
      [] OTHER -> <<c>>

\* One character of a label's value.
Escaped(c) ==
    CASE c \in {Backslash, Quote} -> <<Backslash, c>>
      [] c = Newline -> <<Backslash, "n">>
      [] OTHER -> <<c>>

\* labels: {k="v",...}, nothing for no labels.
Labels(pairs) ==
    LET shown(p) == <<p[1], "=", Quote>> \o FlattenSeq([i \in DOMAIN p[2] |-> Escaped(p[2][i])])
                    \o <<Quote>>
        comma(k) == IF k = 1 THEN <<>> ELSE <<",">>
    IN  IF pairs = <<>> THEN <<>>
        ELSE <<"{">> \o FlattenSeq([k \in DOMAIN pairs |-> comma(k) \o shown(pairs[k])])
             \o <<"}">>
=============================================================================
