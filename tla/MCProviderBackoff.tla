------------------------- MODULE MCProviderBackoff -------------------------
(***************************************************************************)
(* For TLC: the search thread, and one that sends requests and retries.    *)
(***************************************************************************)
EXTENDS ProviderBackoff

CONSTANTS t1, t2

OneWait == <<1>>
=============================================================================
