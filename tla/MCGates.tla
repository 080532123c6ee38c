------------------------------ MODULE MCGates ------------------------------
\* Instances of Gates for TLC.
EXTENDS Gates

Par(type, in, required) == [type |-> type, in |-> in, required |-> required]

Shape(method, params, tokens, url, summary) ==
    [method |-> method, params |-> params, tokens |-> tokens, url |-> url,
     summary |-> summary]

QueryQ == [q |-> Par("string", "query", TRUE)]
PathQ  == [q |-> Par("string", "path", TRUE)]
Both   == [q |-> Par("integer", "path", TRUE), n |-> Par("boolean", "query", FALSE)]

\* What passes inferredDescriptorSchema or comes out of an OpenAPI document.
\* PathQ without a token disagrees with its url.
Inferable ==
    { Shape("GET",  QueryQ, {}, "good", "short"),
      Shape("GET",  Both, {"q"}, "good", "short"),
      Shape("GET",  PathQ, {}, "good", "short"),
      Shape("POST", Both, {}, "good", "short"),
      Shape("GET",  QueryQ, {}, "badport", "short"),
      Shape("GET",  QueryQ, {}, "unlisted", "short"),
      Shape("GET",  QueryQ, {"other"}, "good", "short"),
      Shape("GET",  QueryQ, {}, "good", "long"),
      Shape("GET",  QueryQ, {}, "good", "forbidden"),
      Shape("GET",  [badname |-> Par("string", "query", TRUE)], {}, "good", "short") }

\* What a caller may hand over besides: a method in another spelling, a type
\* or a url outside of the schema, an object with other fields.
Given ==
    Inferable \cup
    { Shape("post", QueryQ, {}, "good", "short"),
      Shape("GET",  [q |-> Par("date", "query", TRUE)], {}, "good", "short"),
      Shape("GET",  QueryQ, {}, "plain", "short"),
      Shape("GET",  <<>>, {}, "good", "missing") }

Ask(nl, hint, d) == [nl |-> nl, hint |-> hint, descriptor |-> d]

NoDescriptor == CHOOSE d \in Given : d.summary = "missing"

Requests ==
    { Ask(nl, hint, NoDescriptor) : nl \in {"keyword", "other"},
                                    hint \in {"none", "openapi", "authenticated"} }
    \cup { Ask("other", "descriptor", d) : d \in Given }
    \cup { Ask("branching", "none", NoDescriptor) }

BadNames == {"badname"}
=============================================================================
