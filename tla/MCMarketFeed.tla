---------------------------- MODULE MCMarketFeed ----------------------------
(***************************************************************************)
(* The universe is empty, one instrument, or one more than may be          *)
(* subscribed.                                                             *)
(***************************************************************************)
EXTENDS MarketFeed

MCUniverses == {{}, {1}, {1, 2}}

=============================================================================
