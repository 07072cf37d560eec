----------------------------- MODULE MCFundSeeding -----------------------------
(* A catalogue of one fund of each category, instead of three and two.         *)
EXTENDS FundSeeding

MCCategoryOf == <<"FPV", "FIC">>

=============================================================================
