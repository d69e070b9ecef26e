----------------------------- MODULE MCStartup -----------------------------
(***************************************************************************)
(* Startup with words of five bits and units of 2, 4 and 8.  The           *)
(* environments are one good one, with and without a secret, and all that  *)
(* differ from it in one setting.                                          *)
(***************************************************************************)
EXTENDS Startup

MCFactor ==
    [u \in UnitNames |->
        CASE u \in {"gib", "gb"} -> 8 [] u \in {"mib", "mb"} -> 4
          [] u \in {"kib", "kb"} -> 2 [] OTHER -> 1]

Good ==
    [f \in ByteSettings \union NumberSettings \union {"texts", "secret"} |->
        CASE f = "texts" -> TRUE [] f = "secret" -> "none"
          [] f \in ByteSettings -> [digits |-> 1, unit |-> "gib"]
          [] OTHER -> 1]

MCEnvironments ==
    {[Good EXCEPT !["texts"] = FALSE]}
    \union {[Good EXCEPT !["secret"] = s] : s \in {"none", "short", "given"}}
    \union {[Good EXCEPT ![f] = n] : f \in NumberSettings, n \in {-1, 0}}
    \union {[Good EXCEPT !["ShareManagementRateLimit"] = n] : n \in {4, 8}}
    \union {[Good EXCEPT !["MaxFileSize"] = [digits |-> n, unit |-> u]] :
                n \in {-1, 0, 3, 5, 16}, u \in {"none", "gib", "kb"}}
=============================================================================
