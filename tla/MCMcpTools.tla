----------------------------- MODULE MCMcpTools -----------------------------
(* Small instances of the MCP tools on the API specification store.        *)
EXTENDS McpTools, TLC

CONSTANTS w1, w2, i1, i2, r1, r2, n, m, ok, gone, odd, b1, b2

MCWriters == {w1, w2}
MCIds == {i1, i2}
MCRoutes == {r1, r2}
MCFields == {"route", "name", "mock", "proxy", "examples"}

One(s, b) == [first |-> s, body |-> s :> b]
Two == [first |-> ok, body |-> ok :> b1 @@ gone :> b2]

Asks(r, mock, proxy, examples, want) ==
  [route |-> r, name |-> n, mock |-> mock, proxy |-> proxy, examples |-> examples, want |-> want]

MCDefinitions ==
  {Asks(r1, TRUE, TRUE, One(gone, b1), ok), Asks(r2, FALSE, TRUE, Two, gone)}

(* One spec whose second response is selected, alone or with another row   *)
(* on its route, whose first response has a status that is in no registry. *)
Chosen == Manual(Asks(r1, TRUE, FALSE, Two, gone))
Other == Manual(Asks(r1, FALSE, FALSE, [first |-> odd, body |-> odd :> b1 @@ ok :> b2], ok))

MCTables == {i1 :> Chosen @@ i2 :> NoRow, i1 :> Chosen @@ i2 :> Other}

MCEdits ==
  {[named |-> {"name"}, value |-> [Asks(r1, TRUE, TRUE, Two, ok) EXCEPT !.name = m]],
   [named |-> {"examples", "proxy"}, value |-> Asks(r1, TRUE, TRUE, One(ok, b2), ok)]}

MCBulks == {<<Asks(r1, TRUE, TRUE, One(gone, b1), ok), Asks(r2, TRUE, TRUE, One(ok, b2), ok)>>}

MCTwoAndOne == [w \in MCWriters |-> IF w = w1 THEN 2 ELSE 1]
MCOneEach == [w \in MCWriters |-> 1]

=============================================================================
