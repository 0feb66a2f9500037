----------------------------- MODULE MCBlockFile -----------------------------
(* Files that end in each byte of the header, files whose sections are     *)
(* empty or not, and files with every stamp of MCS7Date in either place.   *)
EXTENDS BlockFile, MCS7Date

Early == [millisec |-> 60000, days |-> 59]
Other(f) == [f EXCEPT !.stamps = <<@[2], @[1]>>]
File(len, data, s, sizes) ==
    [len |-> len, data |-> data, stamps |-> <<s, Early>>, sizes |-> sizes]

MCFiles ==
    LET dated == {File(40, FALSE, s, <<1, 0, 0, 0>>) : s \in MCStamps}
    IN  dated \cup {Other(f) : f \in dated}
        \cup {File(n, TRUE, Early, <<1, 1, 1, 1>>) : n \in 2..37}
        \cup {File(36, data, Early, sizes) :
                  data \in BOOLEAN, sizes \in [1..4 -> {0, 2, 65535}]}
=============================================================================
