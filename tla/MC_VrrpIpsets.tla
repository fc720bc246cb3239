---------------------------- MODULE MC_VrrpIpsets ----------------------------
(* Constants of VrrpIpsets for TLC.  The name buffers are scaled down to   *)
(* 7 bytes: the refusal test, the "6" and "_if6" suffixes and the          *)
(* truncation at sizeof - 5 all still bite.  Names: short ones with and    *)
(* without a trailing 6, the longest accepted (5) and a refused one (6).   *)
EXTENDS VrrpIpsets

MCNames == {<<"a">>, <<"a", "6">>, <<"a", "a", "a", "a", "a">>,
            <<"a", "a", "a", "a", "a", "a">>}

MCDefaultAddress == <<"a", "a">>
=============================================================================
