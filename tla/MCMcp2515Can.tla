--------------------------- MODULE MCMcp2515Can ---------------------------
(* The frames of the CAN driver's run: identifiers that use both halves of *)
(* the identifier, an empty frame, a length code past the last data byte,  *)
(* an extended, a remote, and an extended remote frame; a command with too *)
(* large an identifier.                                                    *)
EXTENDS Mcp2515Can

Bus(id, dlc, extended, remote) ==
    [id |-> id, dlc |-> dlc, extended |-> extended, remote |-> remote,
     data |-> [i \in 1..MaxData |-> (id % 16) + i]]

SomeBusFrames ==
    { Bus(291, 2, FALSE, FALSE), Bus(1956, 15, FALSE, FALSE),
      Bus(801, 0, FALSE, FALSE), Bus(291, 1, TRUE, FALSE), Bus(802, 1, FALSE, TRUE),
      Bus(1956, 1, TRUE, TRUE) }

Command(id, data) == [identifier |-> id, size |-> Len(data), data |-> data]

SomeCommands == { Command(69, <<>>), Command(1110, <<222, 173>>), Command(2048, <<1>>) }

============================================================================
