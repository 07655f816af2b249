------------------------------ MODULE MCImport ------------------------------
(***************************************************************************)
(* An instance of Import.                                                  *)
(***************************************************************************)
EXTENDS Import

\* Lines with all five fields: wild, blank and named channels and locations,
\* both types, an unknown type and names with small letters; and lines that
\* are rejected: too few fields, a network of one letter, a blank station.
GoodLines ==
    {<<"UU", "FORK", "HHZ", "01", "D">>, <<"uu", "Fork", "HHZ", "01", "D">>,
     <<"UU", "*", "*", "??", "A">>, <<"UU", "FORK", "HHZ", "01", "A">>,
     <<"UU", "CTU", "", "", "D">>, <<"UU", "CTU", "", "01", "X">>,
     <<"UU", "CTU", "", "", "A">>}
BadLines ==
    {<<"UU">>, <<"UU", "FORK", "HHZ", "01">>, <<"U", "FORK", "HHZ", "01", "D">>,
     <<"UU", "", "HHZ", "01", "D">>, <<"">>}

ImportCapitals ==
    [s \in {"uu", "Fork"} |-> IF s = "uu" THEN "UU" ELSE "FORK"]

ImportFiles ==
    {<<>>} \cup {<<line>> : line \in GoodLines \cup BadLines}
    \cup {<<line, next>> : line \in GoodLines, next \in GoodLines}

R(station, channel, location, type, sampleType, nSamples, rate, damaged) ==
    [network |-> "UU", station |-> station, channel |-> channel,
     location |-> location, type |-> type, sampleType |-> sampleType,
     nSamples |-> nSamples, rate |-> rate, startTime |-> 1500,
     damaged |-> damaged]

\* Records of two stations and of another network, with every kind of samples
\* and without any, a log, a blank name, a rate of zero and a damaged one.
ImportRecords ==
    {R("FORK", "HHZ", "01", "D", "i", 3, 10, FALSE),
     R("FORK", "HHZ", "", "D", "f", 1, 3, FALSE),
     R("FORK", "LOG", "", "L", "a", 5, 10, FALSE),
     R("FORK", "HHZ", "01", "D", "i", 3, 10, TRUE),
     R("CTU", "HHZ", "01", "D", "d", 3, 3, FALSE),
     R("CTU", "EHZ", "", "D", "i", 0, 10, FALSE),
     R("CTU", "EHZ", "01", "D", "i", 2, 0, FALSE),
     R("CTU", "", "01", "D", "i", 2, 10, FALSE),
     [R("FORK", "HHZ", "01", "D", "f", 2, 10, FALSE) EXCEPT !.network = "XX"]}

ImportCodes == {"UU", "XX", "FORK", "CTU", "HHZ", "EHZ", "LOG", "01", "--"}
ImportSpellings == {[code |-> "UU", tidy |-> FALSE], [code |-> "", tidy |-> TRUE]}
===========================================================================
