----------------------------- MODULE MCAppShell -----------------------------
(* Instances of AppShell for TLC. *)
EXTENDS AppShell, TLC

CONSTANTS me, sister, peer

\* The sister uses the same browser and is a contact, too.
MCContacts == {<<me, peer>>, <<sister, peer>>}
MCChats == <<[type |-> "group", creator |-> me, members |-> {me, sister}]>>
=============================================================================
