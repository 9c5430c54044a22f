----------------------------- MODULE MCExamples -----------------------------
EXTENDS Examples

TypedTimes == {1, 400, 501, 502, 503, 1004}
TypedChars == {97, 66}  \* 'a' and 'B'

\* Up to three characters, at different times.
MCInputs ==
  UNION {{s \in [1..n -> [time : TypedTimes, char : TypedChars]] :
            \A i \in 1..n - 1 : s[i].time < s[i + 1].time} : n \in 0..3}
=============================================================================
