---------------------------- MODULE MC_LiveFeed ----------------------------
(* LiveFeed with the price of a page, in another browser, beside a chart    *)
(* that shows one view after another, with room for one socket each.        *)
EXTENDS LiveFeed

CONSTANTS v1, v2, p1, a, b

AfterDef == v1 :> NoView @@ v2 :> v1 @@ p1 :> NoView
ClientDef == v1 :> a @@ v2 :> a @@ p1 :> b
=============================================================================
