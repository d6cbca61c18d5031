----------------------------- MODULE MCSizedRun -----------------------------
EXTENDS SizedRun

\* Halves: -8.0, -1.5, 0.5, 1.0, 3.0, 8.0 and 24.0, around the ends of the
\* types and of two significant bits, and four of them of one bit.
MCFloats == {<<"fin", n>> : n \in {-16, -3, 1, 2, 6, 16, 48}} \cup {<<"inf", 1>>, <<"inf", -1>>, <<"nan">>}
=============================================================================
