----------------------------- MODULE RouteMatch -----------------------------
(***************************************************************************)
(* Which route of the mock table answers a request, and whether the mock   *)
(* takes it (features/api-specs, service.go and validation.go).            *)
(*                                                                         *)
(* A path is what strings.Split(path, "/") makes of its text before "?",   *)
(* and the set of query keys after it: "/" is <<"", "">>, "/a/" is         *)
(* <<"", "a", "">>, "a" is <<"a">>.  A template variable stands alone in   *)
(* its segment; its value is split in the same way.                        *)
(***************************************************************************)
EXTENDS Integers, Sequences, SequencesExt, FiniteSetsExt, Functions, FiniteSets

CONSTANTS
  Collation,  \* all segments, in the order of the database
  Methods,    \* all methods, in the same order
  Wildcards,  \* segments that begin with ":"
  ParamOf,    \* ParamOf[s]: the name after the ":" of the wildcard s
  Templates   \* segments of the form {{name}}

Segment == Range(Collation)

ASSUME CollationAssumption == Collation \in Seq(Segment) /\ "" \in Segment
ASSUME SegmentAssumption == {"", "1"} \cap (Wildcards \cup Templates) = {}

(* No mock: the request goes on to the next handler.                       *)
Unanswered == [method |-> "none"]

Root == [segs |-> <<"", "">>, query |-> {}]

(* One strings.ReplaceAll: what the value brings is not looked at again.   *)
Replace(segs, template, value) ==
  FlattenSeq([i \in DOMAIN segs |-> IF segs[i] = template THEN value ELSE <<segs[i]>>])

ReplaceInOrder(segs, env, order) ==
  LET replaced[n \in 0..Len(order)] ==
        IF n = 0 THEN segs ELSE Replace(replaced[n - 1], order[n], env[order[n]])
  IN replaced[Len(order)]

(* What ResolveTemplateVariables may return: it ranges over a Go map, so   *)
(* the variables are replaced in any order, another one at every call.     *)
Resolved(path, env) ==
  {[path EXCEPT !.segs = ReplaceInOrder(@, env, order)] : order \in SetToSeqs(DOMAIN env)}

(* splitRouteSegments(comparableRoutePath(path)): no query, one leading    *)
(* slash whether there was one or not, no trailing slashes.                *)
Segments(path) ==
  LET rooted == IF path.segs[1] = "" /\ Len(path.segs) > 1
                THEN path.segs ELSE <<"">> \o path.segs
      last == Max({1} \cup {i \in DOMAIN rooted : rooted[i] # ""})
  IN Tail(SubSeq(rooted, 1, last))

RoutePathsMatch(candidate, requested) ==
  LET cs == Segments(candidate)
      rs == Segments(requested)
  IN \/ cs = rs
     \/ /\ Len(cs) = Len(rs)
        /\ \A i \in DOMAIN cs : IF cs[i] \in Wildcards THEN rs[i] # "" ELSE cs[i] = rs[i]

(* ORDER BY route_path, as far as whole segments tell: "/a" comes before   *)
(* "/a/b", and that before "/a?q".  The database compares characters: it   *)
(* puts "/a-b" before "/a/b", where here "a" is before "a-b".  It makes a  *)
(* difference only for a segment that begins with another one.             *)
Before(p, q) ==
  LET key(path) == [i \in DOMAIN path.segs |->
                      CHOOSE n \in DOMAIN Collation : Collation[n] = path.segs[i]]
                   \o (IF path.query = {} THEN <<>> ELSE <<Len(Collation) + 1>>)
      k == key(p)
      l == key(q)
  IN \E i \in DOMAIN l :
       /\ \A j \in 1..i - 1 : j <= Len(k) /\ k[j] = l[j]
       /\ i > Len(k) \/ k[i] < l[i]

(* ORDER BY route_path, method; also how the operations of an OpenAPI      *)
(* document are sorted.                                                    *)
InRouteOrder(S) ==
  LET position(method) == CHOOSE n \in DOMAIN Methods : Methods[n] = method
      less(a, b) == \/ Before(a.path, b.path)
                    \/ a.path = b.path /\ position(a.method) < position(b.method)
  IN [i \in 1..Cardinality(S) |->
        CHOOSE x \in S : Cardinality({y \in S : less(y, x)}) = i - 1]

(* What FindActiveMock may return: the first row in route order that       *)
(* matches; each path is resolved in a map order of its own.               *)
Find(rows, env, method, path) ==
  LET candidates == {row \in rows : row.method = method}
      may(row, p) == \E c \in Resolved(row.path, env) : RoutePathsMatch(c, p)
      must(row, p) == \A c \in Resolved(row.path, env) : RoutePathsMatch(c, p)
      first(p) == {row \in candidates : may(row, p) /\
                     ~\E other \in candidates : must(other, p) /\ Before(other.path, row.path)}
      none(p) == IF \E row \in candidates : must(row, p) THEN {} ELSE {Unanswered}
  IN UNION {first(p) \cup none(p) : p \in Resolved(path, env)}

-----------------------------------------------------------------------------
(* Validation.                                                             *)

(* ParseValidationBody: a body is [content, text, form].  The text is JSON  *)
(* to the letter ("strict"), JSON but for its comments ("commented"), or   *)
(* neither ("no"); it is an object, an array with an object at its head    *)
(* ("objects"), or something else; fields gives the JSON type of every key *)
(* of that object.  form says how often a form names each key.             *)
IsObject(body) ==
  \/ body.content = "json" /\ body.text.json = "strict" /\ body.text.shape = "object"
  \/ body.content = "form" /\ DOMAIN body.form # {}
  \/ body.content = "graphql"

FieldTypes(body) ==
  CASE body.content = "json" -> body.text.fields
    [] body.content = "form" -> [k \in DOMAIN body.form |-> IF body.form[k] = 1 THEN "string" ELSE "array"]
    [] OTHER -> [k \in {"query"} |-> "string"]

(* Mutated form: the keys are compared, their types are not.               *)
BodyMatchesKeys(row, request) ==
  (row.method \in {"POST", "PUT", "PATCH"} /\ DOMAIN row.types # {}) =>
    IsObject(request.body) /\ DOMAIN FieldTypes(request.body) = DOMAIN row.types

(* ValidateRequestKeys: the same keys, each of the type expected of it.    *)
BodyMatches(row, request) ==
  (row.method \in {"POST", "PUT", "PATCH"} /\ DOMAIN row.types # {}) =>
    /\ IsObject(request.body)
    /\ DOMAIN FieldTypes(request.body) = DOMAIN row.types
    /\ \A k \in DOMAIN row.types : row.types[k] \in {"", FieldTypes(request.body)[k]}

(* ValidateRequestParams: a wildcard's name is not a query key.            *)
ParamsMatch(row, env, request) ==
  \A p \in Resolved(row.path, env) :
    LET wild == {ParamOf[s] : s \in Range(Segments(p)) \cap Wildcards}
        expected == row.params \ wild
    IN (row.method \in {"GET", "DELETE"} /\ expected # {}) => request.path.query = expected

Accepts(row, env, request) == BodyMatches(row, request) /\ ParamsMatch(row, env, request)

=============================================================================
