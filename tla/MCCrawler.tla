----------------------------- MODULE MCCrawler -----------------------------
(* Crawler for TLC: the values are in the configuration files.             *)
EXTENDS Crawler
=============================================================================
