------------------------- MODULE CampaignConverterMC -------------------------
(* CampaignConverter on five files of four campaigns, for TLC.            *)
EXTENDS CampaignConverter, TLC

CONSTANTS ann, bob, april, again, may, draft, hello, news

\* File 1 fails for ever; by its name it would be the first, without an order: it
\* goes behind 2, 3 and 4.  Files 2, 3 and 5 are campaigns of one payload, of which 5 is
\* only a definition; file 4 has a payload of its own.
IdOfFile == 1 :> may @@ 2 :> april @@ 3 :> again @@ 4 :> may @@ 5 :> draft
PayloadOfCampaign == april :> hello @@ again :> hello @@ may :> news @@ draft :> hello
OrderOfFile == 1 :> NoOrder @@ 2 :> 20 @@ 3 :> 10 @@ 4 :> 20 @@ 5 :> NoOrder
Immediately == [f \in Files |-> 0]

\* Files 2 and 3 are for active users, and bob has made no request.
Audiences == {april, again, may} \X {ann} \cup {<<may, bob>>}
=============================================================================
