--------------------------- MODULE MCValueReport ---------------------------
(***************************************************************************)
(* A fleet of the node that is modelled and another one, which reports no  *)
(* traffic, a loss only, or a share of one half.                           *)
(***************************************************************************)
EXTENDS ValueReport

Figures(dd, ll) == [d |-> dd, l |-> ll, eff |-> Share(dd, ll), torn |-> FALSE]
MCOtherReports == {Figures(0, 0), Figures(0, 2), Figures(1, 1)}
=============================================================================
