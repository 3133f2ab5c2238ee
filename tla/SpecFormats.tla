----------------------------- MODULE SpecFormats -----------------------------
(***************************************************************************)
(* The two document formats of the mock table: a Postman collection        *)
(* (postman/parser.go, and its export in api-specs/spec_transform.go) and  *)
(* an OpenAPI document (spec_transform.go).  Names are kept where they     *)
(* place a route (folders, tags); bodies are kept as their keys with their *)
(* types, examples as their statuses; values and headers are left out.     *)
(* Keys have no spaces around them.                                        *)
(***************************************************************************)
EXTENDS RouteMatch

CONSTANTS
  Schemes,      \* first segments such as "https:"
  HostPorts,    \* such as "localhost:3000", which url.Parse takes for a scheme
  Encoded,      \* Encoded[t]: the template t with its braces escaped
  BaseUrl,      \* the template {{baseUrl}}
  Braced,       \* Braced[s]: the wildcard s as OpenAPI writes it
  Folders,      \* folder names, in the order of sort.Strings
  Levels,       \* bound: levels of items in a collection
  Blank,        \* a folder name of nothing but spaces
  SpecMethods,  \* the methods an OpenAPI import knows
  DefaultKey    \* the response key "default"

ASSUME LevelsAssumption == Levels \in Nat
ASSUME SchemesAssumption == Schemes \cap ({""} \cup Templates \cup HostPorts) = {}

NoRequest == [method |-> "none"]

-----------------------------------------------------------------------------
(* Postman, import.                                                        *)

(* Mutated form: the URL is not parsed, its first slash is looked for.     *)
NormalizePathUnparsed(raw) ==
  [raw EXCEPT !.segs = IF @[1] # "" /\ Len(@) > 1 THEN <<"">> \o Tail(@) ELSE @]

NormalizePath(raw) ==
  LET inner == {i \in DOMAIN raw.segs : raw.segs[i] \in Templates /\ i < Len(raw.segs)}
      rest == IF raw = [segs |-> <<"">>, query |-> {}] THEN Root.segs
              ELSE IF raw.segs[1] = "" /\ Len(raw.segs) > 1 THEN raw.segs
              ELSE IF inner # {} THEN <<"">> \o SubSeq(raw.segs, Min(inner) + 1, Len(raw.segs))
              ELSE IF raw.segs[1] \in HostPorts THEN Root.segs
              ELSE IF raw.segs[1] \in Schemes THEN
                IF Len(raw.segs) = 3 THEN Root.segs
                ELSE <<"">> \o [i \in 1..Len(raw.segs) - 3 |->
                       LET s == raw.segs[i + 3] IN IF s \in Templates THEN Encoded[s] ELSE s]
              ELSE IF Len(raw.segs) > 1 THEN <<"">> \o Tail(raw.segs)
              ELSE <<"">> \o raw.segs
  IN [raw EXCEPT !.segs = rest]

(* The path array has no query; the text keeps it.                         *)
ExtractPath(url) ==
  IF url.path # <<>> THEN [segs |-> <<"">> \o url.path, query |-> {}]
  ELSE NormalizePath(url.raw)

(* Mutated form: disabled keys are expected too.                           *)
RequestParamKeysAll(url) ==
  IF url.query # {} THEN {q.key : q \in url.query} ELSE NormalizePath(url.raw).query

RequestParamKeys(url) ==
  IF url.query # {} THEN {q.key : q \in {q \in url.query : ~q.disabled}}
  ELSE NormalizePath(url.raw).query

(* The body of an item is [mode, language, content, text, entries]: text   *)
(* as in RouteMatch, content the content type that raw text is sent with,  *)
(* entries the [key, type, disabled] of a form, or of the query and the    *)
(* variables of GraphQL.  The last entry of a key gives its type.  Raw     *)
(* text has keys when it says it is JSON, and also when it says nothing    *)
(* and is JSON; of an array the head is looked at.                         *)
RequestBodyTypes(body) ==
  LET named == {i \in DOMAIN body.entries :
                  ~body.entries[i].disabled /\ body.entries[i].key # ""}
      last(k) == Max({i \in named : body.entries[i].key = k})
  IN IF body.mode \in {"urlencoded", "formdata", "graphql"}
     THEN [k \in {body.entries[i].key : i \in named} |-> body.entries[last(k)].type]
     ELSE IF body.language \in {"", "raw", "json"} /\ body.text.json # "no"
     THEN body.text.fields ELSE <<>>

(* The first response of each status; a code out of range is a 200.        *)
ResponseExamples(codes) ==
  LET status(code) == IF code \in 100..599 THEN code ELSE 200
      add(seen, code) == IF Contains(seen, status(code)) THEN seen ELSE Append(seen, status(code))
  IN IF codes = <<>> THEN <<200>> ELSE FoldLeft(add, <<>>, codes)

RequestDefinition(item, folders) ==
  [method |-> item.request.method, path |-> ExtractPath(item.request.url), folders |-> folders,
   examples |-> ResponseExamples(item.response), types |-> RequestBodyTypes(item.request.body),
   params |-> RequestParamKeys(item.request.url)]

(* Mutated form: the innermost folder comes first.                         *)
OpenFoldersReversed(entries) ==
  FlattenSeq([i \in DOMAIN entries |->
    LET folder == entries[i].item
        inside == IF folder.name = Blank THEN entries[i].folders
                  ELSE <<folder.name>> \o entries[i].folders
    IN IF folder.item # <<>>
       THEN [j \in DOMAIN folder.item |-> [item |-> folder.item[j], folders |-> inside]]
       ELSE IF folder.request = NoRequest THEN <<>> ELSE <<entries[i]>>])

(* One level of folders is opened, each in its place.  An item with items  *)
(* is a folder, whatever request it has besides; a folder without a name   *)
(* adds nothing to the path of what is in it.                              *)
OpenFolders(entries) ==
  FlattenSeq([i \in DOMAIN entries |->
    LET folder == entries[i].item
        inside == IF folder.name = Blank THEN entries[i].folders
                  ELSE Append(entries[i].folders, folder.name)
    IN IF folder.item # <<>>
       THEN [j \in DOMAIN folder.item |-> [item |-> folder.item[j], folders |-> inside]]
       ELSE IF folder.request = NoRequest THEN <<>> ELSE <<entries[i]>>])

(* The requests in the order of the document, each with its folders.       *)
Collect(items) ==
  LET opened[n \in 0..Levels] ==
        IF n = 0 THEN [i \in DOMAIN items |-> [item |-> items[i], folders |-> <<>>]]
        ELSE OpenFolders(opened[n - 1])
  IN opened[Levels]

ParseCollection(collection) ==
  LET entries == Collect(collection)
  IN [i \in DOMAIN entries |-> RequestDefinition(entries[i].item, entries[i].folders)]

-----------------------------------------------------------------------------
(* Postman, export.                                                        *)

(* splitRouteSegments of the path itself.                                  *)
Split(path) == IF path.segs = Root.segs THEN <<>>
               ELSE IF path.segs[1] = "" THEN Tail(path.segs) ELSE path.segs

(* openAPIType: any other type (null, file) is called a string.            *)
ExportedType(type) ==
  IF type \in {"array", "object", "number", "boolean", "integer"} THEN type ELSE "string"

NoText == [json |-> "no", shape |-> "other", fields |-> <<>>]

(* An object with a sample of every key; the sample of an integer is 0.    *)
PostmanBody(types) ==
  LET sample(type) == IF ExportedType(type) = "integer" THEN "number" ELSE ExportedType(type)
      text == [json |-> "strict", shape |-> "object",
               fields |-> [k \in DOMAIN types |-> sample(types[k])]]
      body == [mode |-> "raw", language |-> "json", content |-> "json", text |-> text,
               entries |-> <<>>]
  IN IF DOMAIN types = {} THEN [body EXCEPT !.mode = "none", !.text = NoText] ELSE body

PostmanItem(row) ==
  [name |-> "", item |-> <<>>, response |-> row.examples,
   request |-> [method |-> row.method,
     url |-> [path |-> Split(row.path),
              raw |-> [row.path EXCEPT !.segs = <<BaseUrl>> \o Tail(@)],
              query |-> {[key |-> k, disabled |-> FALSE] : k \in row.path.query}],
     body |-> PostmanBody(row.types)]]

(* In every folder the folders in the order of their names, then the items. *)
FolderItems(placed) ==
  LET folders == {<<>>} \cup UNION {Prefixes(p.folders) : p \in ToSet(placed)}
      items[f \in folders] ==
        LET names == SelectSeq(Folders, LAMBDA name : Append(f, name) \in folders)
            here == SelectSeq(placed, LAMBDA p : p.folders = f)
        IN [i \in DOMAIN names |->
              [name |-> names[i], item |-> items[Append(f, names[i])], response |-> <<>>,
               request |-> NoRequest]]
           \o [i \in DOMAIN here |-> here[i].item]
  IN items[<<>>]

ExportPostman(rows) ==
  FolderItems([i \in DOMAIN rows |-> [folders |-> rows[i].folders, item |-> PostmanItem(rows[i])]])

-----------------------------------------------------------------------------
(* OpenAPI: a document is a function from path and method key to operation.*)

(* {id} becomes :id, and so does {{v}} the wildcard :{v}.                  *)
ToRoutePath(segs) ==
  LET wild(s) == IF s \in Range(Braced) THEN CHOOSE w \in Wildcards : Braced[w] = s ELSE s
      converted == [i \in DOMAIN segs |-> wild(segs[i])]
  IN IF converted[1] = "" /\ Len(converted) > 1 THEN converted ELSE <<"">> \o converted

(* Statuses in ascending order, "default" as 200, others left out.         *)
OperationStatuses(keys) ==
  LET statuses == {IF k = DefaultKey THEN 200 ELSE k : k \in keys} \cap 100..599
  IN IF statuses = {} THEN <<200>>
     ELSE [i \in 1..Cardinality(statuses) |->
             CHOOSE s \in statuses : Cardinality({t \in statuses : t < s}) = i - 1]

NoOperation == [tags |-> <<>>, params |-> {}, schema |-> <<>>, example |-> <<>>, responses |-> {}]

(* The properties of the schema, or of the items of an array, and whatever *)
(* keys the example has besides.  A property without a type is a string,   *)
(* and one with properties of its own is written with type object.         *)
OperationTypes(operation) ==
  LET schemaType(type) == IF type = "integer" THEN "number" ELSE IF type = "" THEN "string" ELSE type
  IN [k \in DOMAIN operation.schema \cup DOMAIN operation.example |->
        IF k \in DOMAIN operation.schema THEN schemaType(operation.schema[k])
        ELSE operation.example[k]]

(* sortedOpenAPIMethods lists the lower-case form of the methods, and the  *)
(* operation is then looked up by that form: one written in upper case is  *)
(* imported without anything it says.                                      *)
OperationDefinition(spec, segs, method) ==
  LET lower == [segs |-> segs, method |-> method, upper |-> FALSE]
      operation == IF lower \in DOMAIN spec THEN spec[lower] ELSE NoOperation
  IN [method |-> method, path |-> [segs |-> ToRoutePath(segs), query |-> {}],
      folders |-> SelectSeq(operation.tags, LAMBDA t : t # Blank),
      examples |-> OperationStatuses(operation.responses), types |-> OperationTypes(operation),
      params |-> {p.name : p \in {p \in operation.params : p.in \in {"query", "path"}}}]

(* The documents are sorted by path and lower-case method.                 *)
ParseOpenAPI(spec) ==
  LET known == {[path |-> [segs |-> at.segs, query |-> {}], method |-> at.method]
                  : at \in {at \in DOMAIN spec : at.method \in SpecMethods}}
      sorted == InRouteOrder(known)
  IN [i \in DOMAIN sorted |-> OperationDefinition(spec, sorted[i].path.segs, sorted[i].method)]

ToOpenAPIPath(path) ==
  LET segs == [i \in DOMAIN Split(path) |->
                 IF Split(path)[i] \in Wildcards THEN Braced[Split(path)[i]] ELSE Split(path)[i]]
  IN IF segs = <<>> THEN Root.segs ELSE <<"">> \o segs

RowOperation(row) ==
  LET wild == {ParamOf[s] : s \in Range(Segments(row.path)) \cap Wildcards} IN
  [tags |-> row.folders, responses |-> ToSet(row.examples), example |-> <<>>,
   schema |-> [k \in DOMAIN row.types |-> ExportedType(row.types[k])],
   params |-> {[name |-> k, in |-> "path"] : k \in wild}
              \cup {[name |-> k, in |-> "query"] : k \in row.params \ wild}]

(* Of two rows with one path and method the later one stays.               *)
ExportOpenAPI(rows) ==
  LET at(row) == [segs |-> ToOpenAPIPath(row.path), method |-> row.method, upper |-> FALSE]
      last(key) == SelectLastInSeq(rows, LAMBDA row : at(row) = key)
  IN [key \in {at(row) : row \in ToSet(rows)} |-> RowOperation(rows[last(key)])]

=============================================================================
