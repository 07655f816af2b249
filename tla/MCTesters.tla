----------------------------- MODULE MCTesters -----------------------------
(***************************************************************************)
(* An instance of Testers.  The clock reads 100 s or 101 s; packets may    *)
(* end up to one second ahead of it and start up to 65 s before it.        *)
(***************************************************************************)
EXTENDS Testers

P(n, hundredths, rate, nSamples) ==
    [name |-> n, start |-> hundredths * 10000, rate |-> rate,
     nSamples |-> nSamples]

\* Channel a: packets of half a second at a rate that wobbles about 100 Hz and
\* once changes to 40 Hz, one of them from the future until the clock has
\* moved, beside a short packet and one without samples.  Channel b: packets of
\* three seconds, of which one slips and one expires while it waits, and a
\* packet of a minute.
TesterPackets ==
    {P("a", 9900, 1000, 51), P("a", 9900, 400, 51), P("a", 10080, 1004, 51),
     P("a", 9000, 1000, 0), P("a", 9700, 1000, 2)}
    \cup {P("b", 9400, 10, 4), P("b", 9500, 10, 4), P("b", 3550, 10, 4),
          P("b", 3600, 2, 13)}
===========================================================================
