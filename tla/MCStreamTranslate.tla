------------------------- MODULE MCStreamTranslate -------------------------
(***************************************************************************)
(* Instances of StreamTranslate for TLC: every translation, and upstreams    *)
(* that send up to six events.                                               *)
(***************************************************************************)
EXTENDS StreamTranslate
=============================================================================
