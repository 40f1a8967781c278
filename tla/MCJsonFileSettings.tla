------------------------- MODULE MCJsonFileSettings -------------------------
(* Two processes: the first saves a key and reads the other, the second    *)
(* saves the other key and removes it; each call on an instance of its own.*)
EXTENDS JsonFileSettings, TLC

CONSTANTS p1, p2, k1, k2

MCProcOf == [c \in Calls |-> IF c <= 2 THEN p1 ELSE p2]

MCInstanceOf == [c \in Calls |-> c]

MCRequest ==
    (1 :> [op |-> "save", key |-> k1, value |-> 1]) @@
    (2 :> [op |-> "get", key |-> k2, value |-> 1]) @@
    (3 :> [op |-> "save", key |-> k2, value |-> 1]) @@
    (4 :> [op |-> "remove", key |-> k2, value |-> 1])

=============================================================================
