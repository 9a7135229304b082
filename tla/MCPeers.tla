------------------------------ MODULE MCPeers ------------------------------
(* Small instances of Peers for TLC. *)
EXTENDS Peers

CONSTANTS Alice, Bob, Carol

Meet(part, entities, liars) == [uses |-> {part}, entities |-> entities, liars |-> liars]

Desk == <<Alice, "desk">>
Bobs == <<Bob, "desk">>

(* An honest entity and a liar, two honest ones, two resources of a user.  *)
Meetings ==
  {Meet("disco", {Desk, Bobs}, {Bobs}), Meet("disco", {Desk, Bobs}, {}),
   Meet("disco", {Desk, <<Alice, "phone">>}, {}), Meet("manual", {}, {}), Meet("rate", {}, {})}
=============================================================================
