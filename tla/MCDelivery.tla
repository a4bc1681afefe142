------------------------------ MODULE MCDelivery ------------------------------
(***************************************************************************)
(* Values for the constants of Delivery.tla.  The last message, if there is *)
(* one, goes to the express lane; the others go to the normal lane and to   *)
(* one recipient.                                                          *)
(***************************************************************************)
EXTENDS Delivery

CONSTANTS u1, p1, p2, i1, i2, c1, c2

\* One lane, all messages of one user to one recipient.
OneOwner == [m \in Msgs |-> u1]
AllNormal == [m \in Msgs |-> "normal"]
OneRecipient == [m \in Msgs |-> 1]
NormalPartitions == [p \in Partitions |-> "normal"]
InP1 == [m \in Msgs |-> p1]
NormalLane == [c \in Consumers |-> "normal"]

\* Message 2 is express: lane p2/c2.
TwoLaneTopic == [m \in Msgs |-> IF m = 2 THEN "express" ELSE "normal"]
TwoLanePartitions == [p \in Partitions |-> IF p = p2 THEN "express" ELSE "normal"]
TwoLanePartitionOf == [m \in Msgs |-> IF m = 2 THEN p2 ELSE p1]
TwoLaneOf == [c \in Consumers |-> IF c = c2 THEN "express" ELSE "normal"]

\* Consumer c2 runs in instance i2 when there is one.
HomeI1 == [c \in Consumers |-> i1]
HomeSplit == [c \in Consumers |-> IF c = c2 THEN i2 ELSE i1]

Two == [u \in Users |-> 2]
Zero == [u \in Users |-> 0]
One == [u \in Users |-> 1]
===============================================================================
