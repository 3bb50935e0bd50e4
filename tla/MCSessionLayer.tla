--------------------------- MODULE MCSessionLayer ---------------------------
(* The values of SessionLayer's constants that a configuration file cannot write. *)
EXTENDS SessionLayer

Bounds(loss, restart, land, verdict) ==
  [loss |-> loss, restart |-> restart, land |-> land, verdict |-> verdict]

\* The loss of a datagram and a restart of the server, or a landing, or a wrong verdict.
UdpDisturbances == {Bounds(1, 1, 0, 0), Bounds(0, 0, 1, 0), Bounds(0, 0, 0, 1)}

\* A lost datagram, a new tuple and a wrong verdict, together.
RawDisturbances == {Bounds(1, 0, 1, 1)}
LandingOnly == {Bounds(0, 0, 1, 0)}
=============================================================================
