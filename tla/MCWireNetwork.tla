---------------------------- MODULE MCWireNetwork ---------------------------
EXTENDS WireNetwork, TLC

At(h, l) == [host |-> h, link |-> l]

(* A bus of three hosts with a second Link between two of them: Wires that *)
(* use it have an alternative, and listeners they did not select.          *)
Bus == {At("a", 1), At("b", 1), At("c", 1), At("b", 2), At("c", 2)}
(* A ring of three point-to-point Links.                                   *)
Ring == {At("a", 1), At("b", 1), At("b", 2), At("c", 2), At("c", 3), At("a", 3)}
(* A line of two Links: every attachment is a bridge.                      *)
Line == {At("a", 1), At("b", 1), At("b", 2), At("c", 2)}
ThreeGraphs == {Bus, Ring, Line}

Pins == At("b", 2) :> 0

PingTable == <<[endpoint |-> "ping", receiver |-> "service"],
               [endpoint |-> "ping", receiver |-> "snapshot"]>>

Publication(source, destination, transport, size) ==
  [source |-> source, wire |-> 1, destination |-> destination,
   transport |-> transport, size |-> size, endpoint |-> "ping"]
Pings == {Publication(h, d, "Simple", 4) : h \in Hosts, d \in Hosts \union {Broadcast}}
(* Another Transport, unsupported controls, more than a receiver holds.    *)
OtherTraffic ==
  {Publication("a", d, c[1], c[2]) :
     d \in {"b", Broadcast},
     c \in {<<"Bits", 4>>, <<"Other", 4>>, <<"Simple", 65>>}}
(* Any first packet, and a ping of c while it is under way.                *)
TwoPublications == <<Pings \union OtherTraffic, {Publication("a", "c", "Simple", 4)}>>

=============================================================================
