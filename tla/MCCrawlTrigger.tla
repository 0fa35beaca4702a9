-------------------------- MODULE MCCrawlTrigger --------------------------
(* CrawlTrigger for TLC; requests and IPs are interchangeable.             *)
EXTENDS CrawlTrigger, TLC

MCSymmetry == Permutations(Requests) \cup Permutations(IPs)
=============================================================================
