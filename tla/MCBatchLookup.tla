---------------------------- MODULE MCBatchLookup ----------------------------
(* Lists of up to five items, among them lists with a null item, shorter and   *)
(* longer than the number of runners; options 0, 1, 1.5, 2, 3, 9 and NaN with  *)
(* at most three runners.                                                      *)
EXTENDS BatchLookup
MCInputs ==
  { <<>>, <<"tx">>, <<"tx", "account">>, <<"null", "tx", "tx">>,
    <<"tx", "unknown", "account", "tx">>, <<"tx", "tx", "null", "account">>,
    <<"tx", "account", "tx", "account", "tx">> }
MCOptions == {0, 2, 3, 4, 6, 18, NotFinite}
=============================================================================
