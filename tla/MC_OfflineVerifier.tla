------------------------- MODULE MC_OfflineVerifier -------------------------
EXTENDS OfflineVerifier, TLC

\* A register of one byte (20), written with two hex digits (40).
MC_PcrLen == 1

\* argv[1]: "NULL", two lowercase digits in both orders, too short, an
\* uppercase digit, and extra characters after the digits.
MC_Args1 == {NULL, <<"1", "a">>, <<"a", "1">>, <<"1">>, <<"A", "1">>,
             <<"1", "a", "x">>}

\* Three paths: two files with different contents, one of them readable
\* only by name, and a path that does not exist.
MC_Paths == {"f1", "f2", "f3", "nx"}
MC_Disk ==
  [p \in MC_Paths |->
     CASE p = "f1" -> [exists |-> TRUE, readable |-> TRUE, content |-> <<1>>]
       [] p = "f2" -> [exists |-> TRUE, readable |-> TRUE, content |-> <<2, 1>>]
       [] p = "f3" -> [exists |-> TRUE, readable |-> FALSE, content |-> <<1>>]
       [] p = "nx" -> [exists |-> FALSE, readable |-> FALSE, content |-> << >>]]
MC_MaxFiles == 3
=============================================================================
