---------------------------- MODULE MCQuoteForm ----------------------------
(* QuoteForm for TLC: two amounts, two selections. *)
EXTENDS QuoteForm

CONSTANTS t1, t2
=============================================================================
