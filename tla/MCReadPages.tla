---------------------------- MODULE MCReadPages ----------------------------
(***************************************************************************)
(* Instances of ReadPages for TLC: every file of up to three lines, short, *)
(* just fitting and too long for a page of four characters and two lines.  *)
(***************************************************************************)
EXTENDS ReadPages

Inner == [len : {1, 4, 5}, ends : {"newline", "other"}]
Ends == [len : {2, 4}, ends : {"newline", "none"}]

SomeFiles ==
    {<<>>} \cup {<<a>> : a \in Ends} \cup {<<a, b>> : a \in Inner, b \in Ends}
    \cup {<<a, b, c>> : a \in Inner, b \in Inner, c \in Ends}

SomeTails == [len : {1, 4}, ends : {"newline"}]
SomeOffsets == {-1, 0, 1, 3}
SomeLimits == {-1, 0, 1, 3}

=============================================================================
