--------------------------- MODULE MCCrawlStream ---------------------------
(* Model-checking instance of CrawlStream. *)
EXTENDS CrawlStream

=============================================================================
