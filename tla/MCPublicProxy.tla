--------------------------- MODULE MCPublicProxy ---------------------------
(* Small instances of the public proxy for TLC.                            *)
EXTENDS PublicProxy, TLC

CONSTANTS r1, r2, s1, s2

MCRequests == {r1, r2}
MCOne == {r1}
MCOneEndpoint == {s1}
MCEndpoints == {s1, s2}

Reads(audit, capture, real, endpoints) ==
  [audit |-> audit, capture |-> capture, real |-> real, shadows |-> endpoints]

(* With and without audit log, capture, a real server and shadows.         *)
MCConfigs ==
  {Reads(TRUE, FALSE, TRUE, {s1, s2}), Reads(FALSE, FALSE, TRUE, {s1}),
   Reads(TRUE, TRUE, TRUE, {s1}), Reads(TRUE, FALSE, FALSE, {}),
   Reads(TRUE, FALSE, TRUE, {s1})}

(* One request may read any of them, the other one is recorded.            *)
MCConfigsOf == [r \in MCRequests |-> IF r = r1 THEN MCConfigs ELSE {Reads(TRUE, FALSE, TRUE, {})}]

(* The only request is proxied and recorded.                               *)
MCRecordedOf == [r \in MCOne |-> {Reads(TRUE, FALSE, TRUE, {s1})}]

MCAllModes == AllModes
MCProxied == {"proxy"}

=============================================================================
