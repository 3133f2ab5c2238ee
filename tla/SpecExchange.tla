---------------------------- MODULE SpecExchange ----------------------------
(***************************************************************************)
(* Exchange of the mock table with other tools: documents are imported,    *)
(* requests are answered from the rows, the table is exported, and the     *)
(* file is imported into the empty table of another instance.  An import   *)
(* is one transaction under the mutex; an export first lists the rows and  *)
(* then reads the examples of each, with no lock, and an import may come   *)
(* in between.  How rows are edited and disabled is in ApiSpecStore; here  *)
(* they stay as the import leaves them, enabled.                           *)
(*                                                                         *)
(* A definition headed "Mutated form" is a plausible bug that a check run  *)
(* puts in the place of the definition that follows it.                    *)
(***************************************************************************)
EXTENDS SpecFormats

CONSTANTS
  Collections,   \* Postman collections that users have
  Specs,         \* OpenAPI documents
  Environments,  \* the variables there may be: from template to value
  Probes,        \* requests a client may send
  Nothing,       \* no document, no export
  MaxImports     \* bound: number of imports

(* Below(items)[n]: the items n levels down in a collection.               *)
Below(items) ==
  LET below[n \in 0..Levels] ==
        IF n = 0 THEN ToSet(items)
        ELSE UNION {ToSet(item.item) : item \in below[n - 1]}
  IN below

IsCollection(items) ==
  /\ items \in Seq(ToSet(items))
  /\ Below(items)[Levels] = {}
  /\ \A n \in 0..Levels : \A item \in Below(items)[n] :
       /\ item.item \in Seq(ToSet(item.item))
       /\ item.request # NoRequest =>
            LET url == item.request.url
                body == item.request.body
            IN /\ url.path \in Seq(Segment) /\ url.raw.segs \in Seq(Segment)
               /\ DOMAIN url.raw = {"segs", "query"}
               /\ body.entries \in Seq(Range(body.entries))
               /\ \A i \in DOMAIN body.entries : body.entries[i].type # ""
               /\ \A k \in DOMAIN body.text.fields : body.text.fields[k] # ""
               /\ body.content \in {"json", "graphql", "other"}

ASSUME CollectionsAssumption ==
  Nothing \notin Collections /\ \A d \in Collections : IsCollection(d)
ASSUME SpecsAssumption == \A d \in Specs : IsFiniteSet(DOMAIN d)
ASSUME EnvironmentsAssumption ==
  \A e \in Environments :
    /\ IsFiniteSet(DOMAIN e) /\ DOMAIN e \subseteq Templates
    /\ \A t \in DOMAIN e : e[t] \in Seq(Segment)

VARIABLES
  rows,     \* the table: from method and path to row
  env,      \* the environment variables
  doc,      \* history: the collection imported last, or Nothing
  listed,   \* the rows an export has listed, or Nothing
  file,     \* what was exported last, with its format, or Nothing
  origin,   \* history: the table it was made from, or Nothing if it changed meanwhile
  copy,     \* the table of the other instance
  made      \* number of imports

vars == <<rows, env, doc, listed, file, origin, copy, made>>

Empty == <<>>

Init ==
  /\ rows = Empty
  /\ env \in Environments
  /\ doc = Nothing /\ listed = Nothing /\ file = Nothing /\ origin = Nothing
  /\ copy = Empty
  /\ made = 0

(* A route that is there is replaced, but for the status it answers with   *)
(* if the definition has an example of it.                                 *)
Upsert(table, d) ==
  LET key == <<d.method, d.path>>
      kept == key \in DOMAIN table /\ Contains(d.examples, table[key].sel)
      row == [sel |-> IF kept THEN table[key].sel ELSE d.examples[1],
              method |-> d.method, path |-> d.path, folders |-> d.folders,
              examples |-> d.examples, types |-> d.types, params |-> d.params]
  IN [k \in DOMAIN table \cup {key} |-> IF k = key THEN row ELSE table[k]]

ImportDefinitions(table, definitions) ==
  LET imported[n \in 0..Len(definitions)] ==
        IF n = 0 THEN table ELSE Upsert(imported[n - 1], definitions[n])
  IN imported[Len(definitions)]

ListAll(table) == InRouteOrder(Range(table))

-----------------------------------------------------------------------------

ImportCollection ==
  /\ made < MaxImports
  /\ \E d \in Collections :
       /\ ParseCollection(d) # <<>>
       /\ rows' = ImportDefinitions(rows, ParseCollection(d))
       /\ doc' = d
  /\ made' = made + 1
  /\ UNCHANGED <<env, listed, file, origin, copy>>

ImportSwagger ==
  /\ made < MaxImports
  /\ \E d \in Specs :
       /\ ParseOpenAPI(d) # <<>>
       /\ rows' = ImportDefinitions(rows, ParseOpenAPI(d))
  /\ doc' = Nothing
  /\ made' = made + 1
  /\ UNCHANGED <<env, listed, file, origin, copy>>

ListForExport ==
  /\ listed = Nothing /\ rows # Empty
  /\ listed' = ListAll(rows)
  /\ UNCHANGED <<rows, env, doc, file, origin, copy, made>>

(* toRecords: the rows as they were listed, the examples as they are now.  *)
ExportSpec(format) ==
  LET record(row) == [row EXCEPT !.examples = rows[<<row.method, row.path>>].examples] IN
  /\ listed # Nothing
  /\ LET records == [i \in DOMAIN listed |-> record(listed[i])] IN
     file' = [format |-> format,
              content |-> IF format = "collection" THEN ExportPostman(records)
                          ELSE ExportOpenAPI(records)]
  /\ origin' = IF listed = ListAll(rows) THEN rows ELSE Nothing
  /\ listed' = Nothing
  /\ copy' = Empty
  /\ UNCHANGED <<rows, env, doc, made>>

ImportElsewhere ==
  /\ file # Nothing
  /\ copy' = ImportDefinitions(Empty,
       IF file.format = "collection" THEN ParseCollection(file.content)
       ELSE ParseOpenAPI(file.content))
  /\ UNCHANGED <<rows, env, doc, listed, file, origin, made>>

Next ==
  \/ ImportCollection \/ ImportSwagger \/ ListForExport
  \/ \E format \in {"collection", "swagger"} : ExportSpec(format)
  \/ ImportElsewhere

Spec == Init /\ [][Next]_vars

-----------------------------------------------------------------------------
(* What a user expects, put apart from how the code does it.               *)

(* The requests of a collection, with their items.                         *)
Leaves(items) ==
  {item \in UNION {Below(items)[n] : n \in 0..Levels} :
     item.item = <<>> /\ item.request # NoRequest}

(* A URL without its host, as Postman sends it.                            *)
Own(url) ==
  IF url.path # <<>> THEN <<"">> \o url.path
  ELSE IF url.raw.segs[1] \in Schemes THEN <<"">> \o SubSeq(url.raw.segs, 4, Len(url.raw.segs))
  ELSE <<"">> \o Tail(url.raw.segs)

(* The URLs that Postman and the parser read alike: a path array; or a     *)
(* text that begins with "/", with one template for the host, or with a    *)
(* scheme and no template.                                                 *)
Plain(url) ==
  \/ url.path # <<>>
  \/ LET s == url.raw.segs
         free(i) == \A j \in i..Len(s) : s[j] \notin Templates
     IN \/ Len(s) > 1 /\ s[1] \in {""} \cup Templates /\ free(2)
        \/ Len(s) > 2 /\ s[1] \in Schemes /\ s[2] = "" /\ free(3)

(* No variable in it has a value with a variable in it, which would be     *)
(* replaced or not as the order falls.                                     *)
Settled(segs) ==
  \A t \in Range(segs) \cap DOMAIN env : Range(env[t]) \cap DOMAIN env = {}

(* The items the properties are about.                                     *)
Sendable(items) ==
  {item \in Leaves(items) : Plain(item.request.url) /\ Settled(Own(item.request.url))}

(* What a client sends for an item: its URL without the host, with the     *)
(* variables and then the wildcards filled in.                             *)
Filled(segs) == [i \in DOMAIN segs |-> IF segs[i] \in Wildcards THEN "1" ELSE segs[i]]

Query(url) ==
  {q.key : q \in {q \in url.query : ~q.disabled}} \cup
  (IF url.query = {} THEN url.raw.query ELSE {})

Addressed(item) ==
  CHOOSE p \in Resolved([segs |-> Own(item.request.url), query |-> Query(item.request.url)], env) : TRUE

(* A form as the keys of its entries, GraphQL as a JSON object (variables   *)
(* are JSON), raw text under the content type that the collection gives it. *)
SentBody(body) ==
  LET enabled == {i \in DOMAIN body.entries : ~body.entries[i].disabled} IN
  [content |-> CASE body.mode = "raw" -> body.content
                 [] body.mode = "urlencoded" -> "form"
                 [] body.mode = "graphql" -> "json"
                 [] OTHER -> "other",
   text |-> IF body.mode = "graphql"
            THEN [json |-> "strict", shape |-> "object", fields |-> RequestBodyTypes(body)]
            ELSE body.text,
   form |-> [k \in {body.entries[i].key : i \in enabled} |->
               Cardinality({i \in enabled : body.entries[i].key = k})]]

Sent(item) ==
  [method |-> item.request.method, body |-> SentBody(item.request.body),
   path |-> [Addressed(item) EXCEPT !.segs = Filled(@)]]

RowOf(item) == rows[<<item.request.method, ExtractPath(item.request.url)>>]

Answers(table, request) == Find(Range(table), env, request.method, request.path)

(* The items of the last collection that no other item has replaced.       *)
Current(item) ==
  \A other \in Leaves(doc) :
    (other.request.method = item.request.method
       /\ ExtractPath(other.request.url) = ExtractPath(item.request.url)) => other = item

(* Another row may answer the request: its wildcard, or its variables.     *)
Shadowed(item) ==
  \E row \in Range(rows) \ {RowOf(item)} :
    /\ row.method = item.request.method
    /\ \E p \in Resolved(row.path, env) : RoutePathsMatch(p, Sent(item).path)

-----------------------------------------------------------------------------
(* Properties.                                                             *)

(* Every request of a collection just imported is answered by a mock, and  *)
(* by the row that the item itself has become unless another route matches *)
(* it too, in whatever order the variables are replaced (service.go:419).  *)
ImportedIsServed ==
  doc # Nothing =>
    \A item \in Sendable(doc) :
      /\ Unanswered \notin Answers(rows, Sent(item))
      /\ ~Shadowed(item) => Answers(rows, Sent(item)) = {RowOf(item)}

(* The bodies that the parser and the validation read alike: without keys; *)
(* GraphQL; a form that names a string once and an array more often, and   *)
(* nothing without a name; raw text that is one JSON object, sent as such. *)
(* The last is sent as GraphQL and says only what GraphQL may.             *)
ReadAlike(body) ==
  LET enabled == {i \in DOMAIN body.entries : ~body.entries[i].disabled}
      same(i) == {j \in enabled : body.entries[j].key = body.entries[i].key}
      fields == body.text.fields
  IN \/ DOMAIN RequestBodyTypes(body) = {}
     \/ body.mode = "graphql"
     \/ /\ body.mode = "urlencoded"
        /\ \A i \in enabled :
             /\ body.entries[i].key # ""
             /\ body.entries[Max(same(i))].type =
                  IF Cardinality(same(i)) = 1 THEN "string" ELSE "array"
     \/ /\ body.mode = "raw" /\ body.content = "json"
        /\ body.text.json = "strict" /\ body.text.shape = "object"
     \/ /\ body.mode = "raw" /\ body.content = "graphql"
        /\ DOMAIN fields = {"query"} /\ fields["query"] = "string"

(* The mock accepts the request it was made from, unless the parser and    *)
(* the validation read its body differently: a multipart form, a form with *)
(* a repeated key or a value that is no string, a JSON array, JSON with    *)
(* comments or under another content type; or some of its query keys, and  *)
(* not all, have the name of a wildcard of the path: those alone are not   *)
(* expected (validation.go:33, 66, 96).                                    *)
ExampleAccepted ==
  doc # Nothing =>
    \A item \in {item \in Sendable(doc) : Current(item)} :
      LET method == item.request.method
          query == Query(item.request.url)
          named == {ParamOf[s] : s \in Range(Segments(Addressed(item))) \cap Wildcards}
      IN ~Shadowed(item) =>
           (Accepts(RowOf(item), env, Sent(item)) <=>
              /\ method \in {"POST", "PUT", "PATCH"} => ReadAlike(item.request.body)
              /\ method \in {"GET", "DELETE"} =>
                   query \cap named = {} \/ query \subseteq named)

(* What a format can hold of a table: routes that differ by more than      *)
(* their query; in OpenAPI, known methods and no template variables.       *)
Holds(format, table) ==
  /\ \A a, b \in Range(table) : (a.method = b.method /\ a.path.segs = b.path.segs) => a = b
  /\ format = "swagger" =>
       \A row \in Range(table) :
         row.method \in SpecMethods /\ Range(row.path.segs) \cap Templates = {}

(* And of a body: keys of these types.                                     *)
HoldsBody(row) == Range(row.types) \subseteq {"array", "object", "number", "boolean", "string"}

(* A file made of one table and put into another instance with the same    *)
(* variables gives a table that answers the same requests in the same way: *)
(* each finds no mock in either, or one that lies in the same folders and  *)
(* has the same statuses, and what the first accepted the second accepts,  *)
(* unless it expects a key the format has no type for, such as null        *)
(* (spec_transform.go:409, 664).                                           *)
RoundTrip ==
  (copy # Empty /\ origin # Nothing /\ Holds(file.format, origin)) =>
    \A request \in Probes :
      LET alike(a, b) ==
            IF a = Unanswered \/ b = Unanswered THEN a = b
            ELSE /\ a.folders = b.folders /\ ToSet(a.examples) = ToSet(b.examples)
                 /\ HoldsBody(a) /\ Accepts(a, env, request) => Accepts(b, env, request)
      IN \A a \in Answers(origin, request) : \E b \in Answers(copy, request) : alike(a, b)

=============================================================================
