------------------------- MODULE StrainBroadcastMC --------------------------
(* StrainBroadcast on small tables, for TLC.                               *)
EXTENDS StrainBroadcast, TLC

CONSTANTS s1, s2, promo, ann, bob, kush

TwoChats == {s1, s2} \X {ann, bob}
OneChat == {s1, s2} \X {ann}
OneChatAndPromo == {<<s1, ann>>, <<promo, ann>>}
OneChatTwiceAndPromo == {s1, s2, promo} \X {ann}
\* Bound: one failure (a crash, a scheduler fault or a failing statement of a fan-out) and the
\* passing of time, in any order and at any step; or a campaign without them.
FewEvents ==
  LET promos == {r \in stored : r[1] = promo}
  IN  /\ faults + failures <= 1
      /\ promos # {} => faults + failures = 0 /\ clock = 1
      /\ \A r \in promos : scheduledAt[r] = 1

\* Ids are generated, and no code orders them.
Ids == Permutations({s1, s2})
=============================================================================
