-------------------------- MODULE MCDuplicateTest --------------------------
(***************************************************************************)
(* Instances of DuplicateTest.  At 100 Hz a sample lasts 10000             *)
(* microseconds and a copy may be up to 15000 microseconds off.            *)
(***************************************************************************)
EXTENDS DuplicateTest

NoLog == -1

P(n, start, rate, nSamples) ==
    [name |-> n, start |-> start * 10000, rate |-> rate,
     nSamples |-> nSamples]

\* One channel, packets of three lengths that abut, overlap, nest, leave gaps
\* and are copies of each other, one without samples and one of another rate.
MixedPackets ==
    {P("a", s, 1000, 1) : s \in {2, 3, 9}} \cup
    {P("a", s, 1000, 2) : s \in {0, 1, 3, 5, 7, 8, 10}} \cup
    {P("a", s, 1000, 6) : s \in {0, 1, 4, 7}} \cup
    {P("a", 2, 1000, 0), P("a", 5, 500, 2)}
===========================================================================
