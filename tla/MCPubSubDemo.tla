---------------------------- MODULE MCPubSubDemo ----------------------------
(* The demonstrations with two of everything the program has more of. *)
EXTENDS PubSubDemoProperties

CONSTANTS userEvents, orders, payments, broadcast, stateChanges

OnlyMain == {Main}
FiveChannels == {userEvents, orders, payments, broadcast, stateChanges}
ShortShop     == <<orders, payments>>
ShortWorkflow == <<payments>>

=============================================================================
