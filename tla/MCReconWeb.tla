---------------------------- MODULE MCReconWeb ----------------------------
(***************************************************************************)
(* Instances of ReconWeb for TLC: six paths, two of them seeds, one path   *)
(* on both lists; sites that are chains, rings or stars.  A unit of time   *)
(* is about 2.5 seconds: a deadline of 10 units, reserves of 6, 3, 2 and 1 *)
(* (shipped: 15, 8, 5 and 2 s), a request that blocks up to four times     *)
(* (connect, send, headers, body).                                         *)
(***************************************************************************)
EXTENDS ReconWeb

TwoSeeds == [p \in {1, 2} |-> 3 - p]
Overlapping == [p \in {2, 4, 6} |-> p]

Site(links) == [p \in Paths |-> links[p]]

SomeSites == {
    Site(<<{3}, {}, {4}, {5}, {6}, {}>>),
    Site(<<{2, 3}, {1, 3}, {1, 4}, {5}, {6}, {1}>>),
    Site(<<{2, 3, 4, 5}, {}, {}, {6}, {1}, {}>>)}

=============================================================================
