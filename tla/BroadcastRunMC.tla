--------------------------- MODULE BroadcastRunMC ---------------------------
(* BroadcastRun on small tables, for TLC.                                  *)
EXTENDS BroadcastRun

CONSTANTS strain, campaign, quiz, ann, bob

\* Strain cards for two chats, and a campaign for one of them.
TwoChats == {<<strain, ann>>, <<strain, bob>>, <<campaign, ann>>}

\* For one chat, a strain card, a campaign, and a malformed quiz that is never sent.
OneChat == {<<strain, ann>>, <<campaign, ann>>, <<quiz, ann>>}
Malformed == {<<quiz, ann>>}
=============================================================================
