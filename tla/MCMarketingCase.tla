-------------------------- MODULE MCMarketingCase --------------------------
(* MarketingCase on small instances.                                       *)
EXTENDS MarketingCase

\* Every command but hold_case and takeover_case, which the server accepts of
\* a case in any status but "running".
AllButHold == Commands \ {"hold"}
=============================================================================
