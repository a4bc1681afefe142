-------------------------------- MODULE MCSend --------------------------------
(***************************************************************************)
(* Calls 1 and 2 are the same request of user u1 under key k (a client      *)
(* retry); call 3 reuses the key with another payload; call 4 is another    *)
(* key of the same user; call 5 comes from a user that does not exist.      *)
(***************************************************************************)
EXTENDS Send

CONSTANTS u1, nobody, k, j, h, g

CallUser == [c \in Calls |-> IF c = 5 THEN nobody ELSE u1]
CallKey == [c \in Calls |-> IF c = 4 THEN j ELSE k]
CallHash == [c \in Calls |-> IF c = 3 THEN g ELSE h]
ValidRecipients == [x \in {CallHash[c] : c \in Calls} |-> IF x = g THEN 1 ELSE 2]
Opening == [u \in Users |-> 2]
===============================================================================
