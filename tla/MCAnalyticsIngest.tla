-------------------------- MODULE MCAnalyticsIngest --------------------------
(* Three requests race for the limiter and for a store of two events.  A batch *)
(* is empty, too long, or mixed; the limiter's window is two ticks of a clock  *)
(* that reaches four, so that all three requests may pass.                     *)
EXTENDS AnalyticsIngest
MCBatches == {<<>>, <<"e", "bad">>, <<"bad", "e", "f">>, <<"e", "f", "e", "f">>}
MCEvents == {"e", "f", "bad"}
MCIncomplete == {"bad"}
=============================================================================
