------------------------- MODULE MCProxyConfigStore -------------------------
(* A small instance of the proxy configuration store and its readers for   *)
(* TLC.                                                                    *)
EXTENDS ConfigGate, TLC

CONSTANTS w1, w2, r1, present, initial, blanked, gapped, dense, bad

MCWriters == {w1, w2}

(* "blanked" is a list whose first rule is blank: it is stored "gapped",   *)
(* with rules numbered from 2, and when it is saved again "dense", with    *)
(* rules numbered from 1.  "bad" does not pass validation.                 *)
MCRaw == {initial, blanked, bad}
MCValues == {initial, gapped, dense}
MCNormalForm ==
  initial :> initial @@ blanked :> gapped @@ gapped :> dense @@ dense :> dense @@ bad :> Invalid
MCMeaning == [v \in MCRaw \cup MCValues |-> IF v = initial THEN initial ELSE blanked]

(* The rows let the request pass until they are first updated.             *)
MCWhole == {w2}
MCReaders == {r1}
MCRequests == {present}
MCAdmits == initial :> MCRequests @@ blanked :> {}
MCOrder == <<2, 1>>

MCOneEach == [w \in MCWriters |-> 1]

=============================================================================
