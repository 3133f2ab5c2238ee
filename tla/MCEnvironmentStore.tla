------------------------- MODULE MCEnvironmentStore -------------------------
(* EnvironmentStore for TLC: an upload with every kind of item between the   *)
(* requests of two clients, over two names, one of them in two spellings.    *)
EXTENDS EnvironmentStore

MCNormalForm == [raw \in {"A", " A", "B", "?"} |->
                   CASE raw = "?" -> Invalid [] raw = " A" -> "A" [] OTHER -> raw]

On(key, value) == [key |-> key, value |-> value, enabled |-> TRUE]
Off(key, value) == [key |-> key, value |-> value, enabled |-> FALSE]

Uploads == {[op |-> "upload", items |-> items] : items \in
  {<<On("A", 1), On("", 1), On("B", 1)>>, <<On("A", 2), Off("B", 2), On(" A", 1)>>,
   <<On("B", 2), On("?", 1), On("A", 1)>>, <<Off("A", 1), On("", 2)>>}}

Creates == [op : {"create"}, key : {"A", "B", "?"}, value : {1}]
Updates == [op : {"update"}, key : {" A", "B"}, next : {"A", "B"}, value : {1, 2}]
Deletes == [op : {"delete"}, key : {" A"}]

MCRequests == Uploads \cup Creates \cup Updates \cup Deletes

MCMaxRequests == [w \in Writers |-> IF w = "w1" THEN 1 ELSE 2]
=============================================================================
