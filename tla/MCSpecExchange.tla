--------------------------- MODULE MCSpecExchange ---------------------------
(* A small instance of the exchange of documents for TLC.                  *)
EXTENDS SpecExchange, TLC

(* The order of ASCII.                                                     *)
MCCollation ==
  <<"", "%7B%7Bv%7D%7D", "1", ":id", ":{v}", "a", "b", "host", "https:", "localhost:3000",
    "{id}", "{{base}}", "{{baseUrl}}", "{{v}}", "{{w}}">>
MCMethods == <<"COPY", "DELETE", "GET", "POST", "PUT">>
MCWildcards == {":id", ":{v}"}
MCParamOf == ":id" :> "id" @@ ":{v}" :> "{v}"
MCBraced == ":id" :> "{id}" @@ ":{v}" :> "{{v}}"
MCTemplates == {"{{base}}", "{{baseUrl}}", "{{v}}", "{{w}}"}
MCEncoded == [t \in MCTemplates |-> "%7B%7Bv%7D%7D"]
MCSchemes == {"https:"}
MCHostPorts == {"localhost:3000"}
MCFolders == <<"F", "G">>
MCSpecMethods == {"GET", "POST", "PUT", "DELETE"}
MCEnvironments ==
  {<<>>, "{{v}}" :> <<"a">>, "{{v}}" :> <<"a", "b">> @@ "{{w}}" :> <<"b">>,
   "{{v}}" :> <<"{{w}}">> @@ "{{w}}" :> <<"b">>}

Json(json, shape, fields) == [json |-> json, shape |-> shape, fields |-> fields]
Raw(language, content, text) ==
  [mode |-> "raw", language |-> language, content |-> content, text |-> text, entries |-> <<>>]
Form(mode, entries) ==
  [mode |-> mode, language |-> "", content |-> "other", text |-> NoText, entries |-> entries]
Entry(key, type) == [key |-> key, type |-> type, disabled |-> FALSE]
None == Form("none", <<>>)
Object(type) == Raw("json", "json", Json("strict", "object", "k" :> type))
Array(segs) == [path |-> segs, query |-> {}, raw |-> Root]
Text(segs, query) == [path |-> <<>>, query |-> {}, raw |-> [segs |-> segs, query |-> query]]
WithQuery(segs) ==
  [path |-> segs, raw |-> Root,
   query |-> {[key |-> "q", disabled |-> FALSE], [key |-> "off", disabled |-> TRUE]}]
Item(method, url, body, codes) ==
  [name |-> "item", item |-> <<>>, response |-> codes,
   request |-> [method |-> method, url |-> url, body |-> body]]
Folder(name, items) == [name |-> name, item |-> items, response |-> <<>>, request |-> NoRequest]

GetA == Item("GET", Array(<<"a">>), None, <<200, 404>>)
GetId == Item("GET", Array(<<":id">>), None, <<>>)
GetSlash == Item("GET", Text(<<"{{base}}", "a", "">>, {}), None, <<999, 200>>)
GetVariable == Item("GET", Array(<<"{{v}}">>), None, <<404, 200, 404>>)
GetQuery == Item("GET", Text(<<"https:", "", "host", "b">>, {"q"}), None, <<200>>)
DeleteQuery == Item("DELETE", WithQuery(<<"a", ":id">>), None, <<204>>)
DeleteNamed ==
  Item("DELETE", Text(<<"", "a", ":id">>, {"id", "q"}), None, <<204>>)
PostObject == Item("POST", Array(<<"a">>), Object("number"), <<201>>)
PostMultipart == Item("POST", Array(<<":id">>), Form("formdata", <<Entry("k", "file")>>), <<201>>)
PutForm ==
  Item("PUT", Array(<<"{{v}}", "b">>),
       Form("urlencoded", <<Entry("k", "string"), [Entry("k", "null") EXCEPT !.disabled = TRUE]>>),
       <<200>>)

(* Bodies, each at a route of its own.                                     *)
Bodies(a, b, c, d) ==
  <<Item("POST", Array(<<"a">>), a, <<201>>), Item("POST", Array(<<"b">>), b, <<201>>),
    Item("PUT", Array(<<"a">>), c, <<200>>), Item("PUT", Array(<<"b">>), d, <<200>>)>>

Forms ==
  Bodies(Form("urlencoded", <<Entry("k", "string"), Entry("k", "string")>>),
         Form("urlencoded", <<Entry("k", "string"), Entry("k", "array")>>),
         Form("urlencoded", <<Entry("k", "null")>>),
         Form("urlencoded", <<Entry("k", "string"), Entry("", "string")>>))
Texts ==
  Bodies(Raw("", "other", Json("strict", "object", "k" :> "string")),
         Raw("raw", "json", Json("strict", "objects", "k" :> "number")),
         Raw("json", "json", Json("commented", "object", "k" :> "boolean")),
         Raw("text", "json", Json("strict", "object", "k" :> "string")))
Others ==
  Bodies(Form("graphql", <<Entry("query", "string"), Entry("variables", "object")>>),
         Raw("", "graphql", Json("strict", "object", "query" :> "string")),
         Object("null"), Raw("json", "json", NoText))

MCCollections ==
  {<<item>> : item \in
     {GetA, GetId, GetSlash, GetVariable, GetQuery, DeleteQuery, DeleteNamed, PostObject, PutForm,
      Item("GET", Text(<<"https:", "", "host">>, {}), None, <<200>>)}} \cup
  {<<Item("GET", Text(<<"localhost:3000", "a">>, {}), None, <<200>>),
     Item("GET", Text(<<"https:", "", "host", "{{v}}", "a">>, {}), None, <<200>>)>>,
   <<Item("GET", Text(<<"host", "a", "{{v}}">>, {}), None, <<200>>),
     Item("COPY", Array(<<"a">>), None, <<200>>)>>} \cup
  {Forms, Texts, Others} \cup
  {<<Folder("G", <<GetA, Folder("F", <<GetId>>)>>), Folder("F", <<DeleteQuery>>), GetQuery>>,
   <<Folder(Blank, <<PostMultipart, Folder("F", <<PutForm, PostObject>>)>>), PostObject>>,
   <<[Folder("G", <<GetVariable>>) EXCEPT !.request = GetA.request], GetSlash,
     [GetA EXCEPT !.request = NoRequest]>>,
   <<GetA, Folder("F", <<GetSlash, [GetA EXCEPT !.response = <<404>>]>>)>>,
   <<Folder("F", <<[GetA EXCEPT !.request = NoRequest]>>)>>}

At(segs, method) == [segs |-> segs, method |-> method, upper |-> FALSE]
Operation(tags, params, schema, example, responses) ==
  [tags |-> tags, params |-> params, schema |-> schema, example |-> example,
   responses |-> responses]
MCSpecs ==
  {At(<<"", "{id}">>, "GET") :>
     Operation(<<Blank, "F">>, {[name |-> "id", in |-> "path"], [name |-> "q", in |-> "query"]},
               <<>>, <<>>, {DefaultKey, 404}),
   [At(<<"", "a">>, "POST") EXCEPT !.upper = TRUE] :> Operation(<<"G">>, {}, "k" :> "", <<>>, {201}) @@
     At(<<"", "{{v}}">>, "GET") :> Operation(<<>>, {[name |-> "k", in |-> "header"]}, <<>>, <<>>, {600}) @@
     At(<<"", "b">>, "POST") :> Operation(<<>>, {}, "k" :> "", "n" :> "null", {201}),
   At(<<"">>, "PUT") :> Operation(<<"G">>, {}, "k" :> "integer", "k" :> "string", {200}),
   At(<<"", "a">>, "COPY") :> Operation(<<>>, {}, <<>>, <<>>, {200})}

MCProbes ==
  {[method |-> m, path |-> [segs |-> s, query |-> q], body |-> b] :
     m \in {"GET", "DELETE"}, b \in {SentBody(None)}, q \in {{}, {"q"}},
     s \in {<<"", "a">>, <<"", "1">>, <<"", "b", "">>, <<"", "a", "1">>, <<"", "">>}} \cup
  {[method |-> m, path |-> [segs |-> s, query |-> {}], body |-> b] :
     m \in {"POST", "PUT"},
     b \in {SentBody(Object("number")), SentBody(Object("string"))},
     s \in {<<"", "a">>, <<"", "b">>, <<"", "a", "b">>, <<"", "">>}}

=============================================================================
