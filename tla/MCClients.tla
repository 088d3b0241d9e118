---------------------------- MODULE MCClients ----------------------------
\* Small instances of Clients for TLC.
EXTENDS Clients

CONSTANTS f, g

\* None, too, is a value that f is set to.
Values_f_g == [x \in {f, g} |-> IF x = f THEN {1, 2, Blank} ELSE {1}]

TwoFiles == <<3, 2>>
=============================================================================
