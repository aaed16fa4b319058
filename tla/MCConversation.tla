---------------------------- MODULE MCConversation ----------------------------
(* Two accounts with an item each. *)
EXTENDS Conversation, TLC

CONSTANTS ada, bob, coat, scarf

Wardrobes == ada :> {coat} @@ bob :> {scarf}

Swapped == ada :> bob @@ bob :> ada @@ coat :> scarf @@ scarf :> coat
AccountSymmetry == {Swapped}
===============================================================================
