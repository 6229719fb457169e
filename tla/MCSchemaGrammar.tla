-------------------------- MODULE MCSchemaGrammar --------------------------
EXTENDS SchemaGrammar

\* "k", "k!" and "k-2" become k, k and k-2: both clashes a name can have.
MCSorted == <<"k", "k!", "k-2">>
MCSanitized == "k" :> <<"k">> @@ "k!" :> <<"k">> @@ "k-2" :> <<"k", "2">>
               @@ [t \in {"object", "array", "string", "null", "integer", "number", "date"} |-> <<t>>]
               @@ "a" :> <<"a">> @@ "a!" :> <<"a">>

Str == Doc("string", "x", <<>>, <<>>)
Null == Doc("null", "", <<>>, <<>>)
One == Doc("integer", "1", <<>>, <<>>)
Scalars == {Str, Null, One}
Arr(items) == Doc("array", "", items, <<>>)
Obj(fields) == Doc("object", "", <<>>, fields)
Keys == {"k", "k!", "k-2"}

Flat == Scalars \cup {Arr(s) : s \in UNION {[1..n -> Scalars] : n \in 0..2}}
          \cup {Obj(f) : f \in UNION {[ks -> {Str, Null}] : ks \in SUBSET Keys}}
Small == {Null, Str, Arr(<<>>), Obj(<<>>), Obj([k |-> Null]), Obj([k |-> Str]), Arr(<<Null>>)}
MCDocs == Flat \cup {Obj([k |-> d]) : d \in Small} \cup {Arr(<<d>>) : d \in Small}
            \cup {Obj([k |-> Obj([k |-> d])]) : d \in Small}

Type(t) == [type |-> t]
Leaves == {Type("string"), Type("number"), True, False, [enum |-> <<Str, Null>>], [const |-> One],
           Type("date"), [ref |-> "a"], [enum |-> <<>>]}
Few == {Type("string"), [enum |-> <<Str>>], [ref |-> "a"], Type("null")}

\* Objects, arrays and combinations of the nodes in S.
PropertySets(S) == UNION {[ks -> S] : ks \in {{}, {"k"}, {"k", "k-2"}}}
Objects(S) ==
    UNION {{[type |-> "object", properties |-> p, required |-> r],
            [properties |-> p, required |-> r],
            [type |-> "object", properties |-> p, required |-> r, additional |-> False],
            [type |-> "object", properties |-> p, required |-> r, additional |-> True],
            [type |-> "object", properties |-> p, required |-> r, additional |-> Type("null")]}
           : p \in PropertySets(S), r \in {{}, {"k"}, {"k", "k-2"}}}
Arrays(S) == UNION {{[type |-> "array", items |-> n, minItems |-> m], [items |-> n]} : n \in S, m \in 0..2}
             \cup {Type("array"), [type |-> "array", minItems |-> 2]}
Combined(S) ==
    UNION {{[anyOf |-> <<m, n>>], [oneOf |-> <<m, n>>], [allOf |-> <<m>>], [allOf |-> <<m, n>>],
            [anyOf |-> <<m, n>>, type |-> "string"], [enum |-> <<Str, Null>>, type |-> "string"],
            [ref |-> "a", items |-> n]} : m, n \in S}
Typed == {[types |-> ts, items |-> Type("null")] :
             ts \in {<<"array", "null">>, <<"object", "date">>, <<"string">>, <<>>}}

WithDefs(n, a) == n @@ [defs |-> a]
\* Lists and trees, definitions that lead nowhere but to themselves, and two
\* definitions with one sanitized name.
Definitions ==
    {[a |-> n] : n \in {Type("string"), True,
        [type |-> "object", properties |-> [k |-> [anyOf |-> <<[ref |-> "a"], Type("null")>>]], required |-> {"k"}],
        [type |-> "array", items |-> [ref |-> "a"]],
        [ref |-> "a"], [anyOf |-> <<[ref |-> "a"], Type("null")>>], Type("date")}}
    \cup {("a" :> [ref |-> "a!"]) @@ ("a!" :> [enum |-> <<Str, Null>>])}

Schemas == Leaves \cup Objects(Few) \cup Arrays(Leaves) \cup Combined(Few) \cup Typed

Clash == [type |-> "object", required |-> {"k!"},
          properties |-> [p \in Keys |-> CASE p = "k" -> [enum |-> <<Str>>]
                            [] p = "k!" -> [enum |-> <<Null>>] [] OTHER -> [enum |-> <<Str, Null>>]]]
AllOptional == [type |-> "object", properties |-> [p \in Keys |-> Type("string")]]
Nested == [type |-> "object",
           properties |-> [k |-> [type |-> "object", properties |-> [k |-> Type("string")], required |-> {"k"}]]]

MCToolSets ==
    {<<IF n = True \/ n = False THEN n ELSE WithDefs(n, [a |-> Type("null")])>> : n \in Schemas}
    \cup {<<WithDefs(n, defs)>> : defs \in Definitions,
            n \in {[ref |-> "a"], [ref |-> "a!"], [anyOf |-> <<[ref |-> "a"], Type("string")>>],
                   [properties |-> [k |-> [ref |-> "a"]] @@ ("k!" :> [ref |-> "a!"])]}}
    \cup {<<m, n>> : m, n \in {Clash, AllOptional, Nested, [ref |-> "a"]}}
=============================================================================
