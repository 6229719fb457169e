--------------------------- MODULE SchemaGrammar ---------------------------
(***************************************************************************)
(* The grammar of a tool-calling conversation (schema_grammar.go and       *)
(* EnvelopeGrammar): each tool's JSON schema is compiled into GBNF rules   *)
(* that constrain what the model can sample as its arguments.              *)
(*                                                                         *)
(* A schema node is a record whose fields are the keywords it has: "ref"   *)
(* names a definition, "type" is a string, "types" a list of them; "bool"  *)
(* marks the nodes true and false.  The root also has "defs".  A rule name *)
(* is the sequence of its dash-separated parts.  Numbers and strings stand *)
(* for those the primitive rules can spell (numbers of up to 16 digits).   *)
(***************************************************************************)
EXTENDS Integers, Sequences, FiniteSets, TLC, SequencesExt

CONSTANTS
    ToolSets,    \* sequences of tool schemas, in the order of the tools' names
    Docs,        \* the JSON documents a schema is tried on
    Sorted,      \* every property name, in sort.Strings order
    Sanitized    \* sanitizeRuleName of each property, type and definition name

VARIABLES
    tools,       \* the schemas EnvelopeGrammar was given
    rules,       \* the rules compiled from each tool so far: name -> body
    argsRule,    \* the "arguments" rule of each tool compiled so far
    sampled      \* [tool, doc] once the model has sampled a call, or NoCall
vars == <<tools, rules, argsRule, sampled>>

Doc(t, lit, items, fields) == [t |-> t, lit |-> lit, items |-> items, fields |-> fields]
Has(n, keyword) == keyword \in DOMAIN n
True == [bool |-> TRUE]
False == [bool |-> FALSE]

---------------------------------------------------------------------------
(* schemaConverter: c has the document, the prefix of all names, the rules *)
(* and the rule of each $ref so far, and whether compiling has failed.  A  *)
(* compiler returns [c, name].                                             *)

Primitive == {<<p>> : p \in {"value", "object", "array", "string", "number", "integer", "boolean", "null"}}
Builtin == Primitive \cup {<<"root">>, <<"final">>, <<"ws">>, <<"tool", "call">>, <<"tool", "call", "item">>}

newSchemaConverter(doc, prefix) ==
    [doc |-> doc, prefix |-> prefix, rules |-> <<>>, refs |-> <<>>, failed |-> FALSE]

Undefined == [op |-> "undefined"]
Result(c, name) == [c |-> c, name |-> name]
Failed(c) == Result([c EXCEPT !.failed = TRUE], <<>>)

\* Mutant: names are not checked.
BaseAsItIs(c, base) == base
\* reserve: the base itself, or the first of base-2, base-3, ... that is free.
FreeName(c, base) ==
    LET Candidate(i) == IF i = 1 THEN base ELSE Append(base, ToString(i))
        Free(i) == Candidate(i) \notin DOMAIN c.rules \cup Builtin
        bound == Cardinality(DOMAIN c.rules) + 2
    IN  Candidate(CHOOSE i \in 1..bound : Free(i) /\ \A j \in 1..(i - 1) : ~Free(j))

SetRule(c, name, body) == [c EXCEPT !.rules = (name :> body) @@ @]

define(c, base, body) ==
    LET name == FreeName(c, base) IN Result(SetRule(c, name, body), name)

Alternatives(names) == [op |-> "alternatives", of |-> ToSet(names)]

compileLiterals(c, values, base) ==
    IF values = <<>> THEN Failed(c)
    ELSE define(c, base, [op |-> "literals", of |-> ToSet(values)])

\* The subsequences of keys: each optional member may be left out.
Subsequences(keys) == {SelectSeq(keys, LAMBDA k : k \in kept) : kept \in SUBSET ToSet(keys)}

\* Mutant: the members after the first one present are all obligatory.
FormsAllOrTail(required, optional) ==
    IF required # <<>> THEN {required \o chosen : chosen \in Subsequences(optional)}
    ELSE {<<>>} \cup {SubSeq(optional, i, Len(optional)) : i \in DOMAIN optional}
\* The member lists an object rule derives.  Without a required member to hang
\* the commas on there is one alternative for each first member.
Forms(required, optional) ==
    IF required # <<>> THEN {required \o chosen : chosen \in Subsequences(optional)}
    ELSE {<<>>} \cup UNION {{<<optional[i]>> \o rest :
              rest \in Subsequences(SubSeq(optional, i + 1, Len(optional)))} : i \in DOMAIN optional}

RequiredOf(n) == IF Has(n, "required") THEN n.required ELSE {}
PropertiesOf(n) == IF Has(n, "properties") THEN n.properties ELSE <<>>

RECURSIVE compileNode(_, _, _)

\* The nodes one after the other, each under its own base, up to a failure.
RECURSIVE compileAll(_, _, _)
compileAll(c, nodes, bases) ==
    IF nodes = <<>> THEN [c |-> c, names |-> <<>>]
    ELSE LET first == compileNode(c, Head(nodes), Head(bases))
             rest == compileAll(first.c, Tail(nodes), Tail(bases))
         IN  IF first.c.failed THEN [c |-> first.c, names |-> <<>>]
             ELSE [c |-> rest.c, names |-> <<first.name>> \o rest.names]

compileAlternatives(c, alts, base) ==
    LET r == compileAll(c, alts, [i \in DOMAIN alts |-> base \o <<"alt", ToString(i - 1)>>])
    IN  IF alts = <<>> \/ r.c.failed THEN Failed(r.c) ELSE define(r.c, base, Alternatives(r.names))

compileArray(c, n, base) ==
    IF ~Has(n, "items") THEN Result(c, <<"array">>)
    ELSE LET item == compileNode(c, n.items, Append(base, "item"))
         IN  IF item.c.failed THEN item
             ELSE define(item.c, base,
                 [op |-> "array", item |-> item.name, nonEmpty |-> Has(n, "minItems") /\ n.minItems >= 1])

\* No properties to list, or extra keys asked for next to them.
GenericObject(n) ==
    IF PropertiesOf(n) = <<>> THEN ~(Has(n, "additional") /\ n.additional = False)
    ELSE Has(n, "additional") /\ n.additional # False

compileObject(c, n, base) ==
    LET props == PropertiesOf(n)
        keys == SelectSeq(Sorted, LAMBDA k : k \in DOMAIN props)
        r == compileAll(c, [i \in DOMAIN keys |-> props[keys[i]]],
                        [i \in DOMAIN keys |-> base \o Sanitized[keys[i]]])
        required == SelectSeq(keys, LAMBDA k : k \in RequiredOf(n))
        optional == SelectSeq(keys, LAMBDA k : k \notin RequiredOf(n))
        RuleOf(k) == r.names[CHOOSE i \in DOMAIN keys : keys[i] = k]
    IN  IF GenericObject(n) THEN Result(c, <<"object">>)
        ELSE IF r.c.failed THEN Failed(r.c)
        ELSE define(r.c, base, [op |-> "object", forms |-> Forms(required, optional),
                                rule |-> [k \in ToSet(keys) |-> RuleOf(k)]])

compileTyped(c, t, n, base) ==
    CASE t = "object" -> compileObject(c, n, base)
      [] t = "array" -> compileArray(c, n, base)
      [] t \in {"string", "number", "integer", "boolean", "null"} -> Result(c, <<t>>)
      [] OTHER -> Failed(c)

\* "type" as a list: a node of each type with the other keywords of this one.
compileTypes(c, n, base) ==
    LET Of(t) == [k \in (DOMAIN n \ {"types"}) \cup {"type"} |-> IF k = "type" THEN t ELSE n[k]]
        r == compileAll(c, [i \in DOMAIN n.types |-> Of(n.types[i])],
                        [i \in DOMAIN n.types |-> base \o Sanitized[n.types[i]]])
    IN  IF n.types = <<>> \/ r.c.failed THEN Failed(r.c) ELSE define(r.c, base, Alternatives(r.names))

\* The rule of a definition has its name before its body is compiled: a
\* recursive definition finds it in refs.
compileRef(c, ref) ==
    IF ref \in DOMAIN c.refs THEN Result(c, c.refs[ref])
    ELSE IF ~Has(c.doc, "defs") THEN Failed(c)
    ELSE IF ref \notin DOMAIN c.doc.defs THEN Failed(c)
    ELSE LET name == FreeName(c, c.prefix \o <<"def">> \o Sanitized[ref])
             known == [SetRule(c, name, Undefined) EXCEPT !.refs = (ref :> name) @@ @]
             inner == compileNode(known, c.doc.defs[ref], Append(name, "body"))
         IN  IF inner.c.failed THEN inner
             ELSE Result(SetRule(inner.c, name, Alternatives(<<inner.name>>)), name)

\* The first of these keywords that a node has decides how it is compiled.
Precedence == <<"bool", "ref", "enum", "const", "anyOf", "oneOf", "allOf",
                "type", "types", "properties", "items">>
Deciding(n) ==
    LET present == SelectSeq(Precedence, LAMBDA k : Has(n, k))
    IN  IF present = <<>> THEN "none" ELSE Head(present)

compileNode(c, n, base) ==
    LET k == Deciding(n)
    IN  CASE k = "bool" -> IF n.bool THEN Result(c, <<"value">>) ELSE Failed(c)
          [] k = "ref" -> compileRef(c, n.ref)
          [] k = "enum" -> compileLiterals(c, n.enum, base)
          [] k = "const" -> compileLiterals(c, <<n.const>>, base)
          [] k \in {"anyOf", "oneOf"} -> compileAlternatives(c, n[k], base)
          [] k = "allOf" -> IF Len(n.allOf) = 1 THEN compileNode(c, n.allOf[1], base) ELSE Failed(c)
          [] k = "type" -> compileTyped(c, n.type, n, base)
          [] k = "types" -> compileTypes(c, n, base)
          [] k = "properties" -> compileObject(c, n, base)
          [] k = "items" -> compileArray(c, n, base)
          [] k = "none" -> Result(c, <<"value">>)

---------------------------------------------------------------------------
(* EnvelopeGrammar: one tool after the other, each with a converter of its *)
(* own; then the model samples the arguments of a call.                    *)

Done == Len(argsRule) = Len(tools)
NextTool == Len(argsRule) + 1
NoCall == <<>>

Init ==
    /\ tools \in ToolSets
    /\ rules = <<>> /\ argsRule = <<>> /\ sampled = NoCall

\* Mutant: all tools share the names of their rules.
SharedPrefix(i) == <<"tool", "args">>
Prefix(i) == <<"tool", "args", ToString(i - 1)>>

Compiled(i) == compileNode(newSchemaConverter(tools[i], Prefix(i)), tools[i], Prefix(i))

Supported(i) == ~Compiled(i).c.failed

CompileTool ==
    /\ ~Done /\ Supported(NextTool)
    /\ rules' = Append(rules, Compiled(NextTool).c.rules)
    /\ argsRule' = Append(argsRule, Compiled(NextTool).name)
    /\ UNCHANGED <<tools, sampled>>

\* A schema the converter cannot express: any object, and none of the rules
\* compiled before the error.
FallBack ==
    /\ ~Done /\ ~Supported(NextTool)
    /\ rules' = Append(rules, <<>>)
    /\ argsRule' = Append(argsRule, <<"object">>)
    /\ UNCHANGED <<tools, sampled>>

\* Whether rule "name" of the grammar g derives a document, as the engine's grammar sampler reads it.
\* A rule met again before anything is consumed derives nothing new.
RECURSIVE Derives(_, _, _, _)
Derives(g, name, d, seen) ==
    IF name \in Primitive
    THEN name[1] \in {"value", d.t} \/ (name[1] = "number" /\ d.t = "integer")
    ELSE IF name \in seen THEN FALSE
    ELSE LET body == g[name]
         IN  CASE body.op = "alternatives" -> \E n \in body.of : Derives(g, n, d, seen \cup {name})
               [] body.op = "literals" -> d \in body.of
               [] body.op = "array" ->
                    /\ d.t = "array" /\ (body.nonEmpty => d.items # <<>>)
                    /\ \A i \in DOMAIN d.items : Derives(g, body.item, d.items[i], {})
               [] body.op = "object" ->
                    /\ d.t = "object"
                    /\ \E form \in body.forms : ToSet(form) = DOMAIN d.fields
                    /\ \A k \in DOMAIN d.fields : Derives(g, body.rule[k], d.fields[k], {})
               [] OTHER -> FALSE

SampleCall ==
    /\ Done /\ sampled = NoCall
    /\ \E i \in DOMAIN tools, d \in Docs :
         Derives(rules[i], argsRule[i], d, {}) /\ sampled' = <<i, d>>
    /\ UNCHANGED <<tools, rules, argsRule>>

Next == CompileTool \/ FallBack \/ SampleCall
Spec == Init /\ [][Next]_vars

---------------------------------------------------------------------------
(* JSON Schema: what the caller who validates arguments will say.          *)

RECURSIVE Valid(_, _, _, _)
Valid(root, n, d, seen) ==
    LET isObject == d.t = "object"
        isArray == d.t = "array"
        Is(t) == d.t = t \/ (t = "number" /\ d.t = "integer")
        extra == DOMAIN d.fields \ DOMAIN PropertiesOf(n)
    IN  /\ Has(n, "bool") => n.bool
        /\ Has(n, "ref") =>
             /\ n.ref \notin seen /\ Has(root, "defs") /\ n.ref \in DOMAIN root.defs
             /\ Valid(root, root.defs[n.ref], d, seen \cup {n.ref})
        /\ Has(n, "enum") => d \in ToSet(n.enum)
        /\ Has(n, "const") => d = n.const
        /\ Has(n, "anyOf") => \E i \in DOMAIN n.anyOf : Valid(root, n.anyOf[i], d, seen)
        /\ Has(n, "oneOf") => Cardinality({i \in DOMAIN n.oneOf : Valid(root, n.oneOf[i], d, seen)}) = 1
        /\ Has(n, "allOf") => \A i \in DOMAIN n.allOf : Valid(root, n.allOf[i], d, seen)
        /\ Has(n, "type") => Is(n.type)
        /\ Has(n, "types") => \E i \in DOMAIN n.types : Is(n.types[i])
        /\ isObject => /\ RequiredOf(n) \subseteq DOMAIN d.fields
                       /\ \A k \in DOMAIN d.fields \cap DOMAIN PropertiesOf(n) :
                            Valid(root, n.properties[k], d.fields[k], {})
                       /\ Has(n, "additional") =>
                            \A k \in extra : Valid(root, n.additional, d.fields[k], {})
        /\ isArray => /\ Has(n, "items") => \A i \in DOMAIN d.items : Valid(root, n.items, d.items[i], {})
                      /\ Has(n, "minItems") => Len(d.items) >= n.minItems

\* What the converter adds to a schema: declared properties leave no room for
\* others, and "properties" or "items" say what type is meant.
RECURSIVE Narrowed(_)
Narrowed(n) ==
    LET k == Deciding(n)
        inner == [f \in DOMAIN n |->
            CASE f = "items" -> Narrowed(n.items)
              [] f \in {"anyOf", "oneOf", "allOf"} -> [i \in DOMAIN n[f] |-> Narrowed(n[f][i])]
              [] f \in {"properties", "defs"} -> [p \in DOMAIN n[f] |-> Narrowed(n[f][p])]
              [] OTHER -> n[f]]
        type == CASE k = "properties" -> [type |-> "object"] [] k = "items" -> [type |-> "array"] [] OTHER -> <<>>
        closed == IF PropertiesOf(n) # <<>> THEN [additional |-> False] ELSE <<>>
    IN  inner @@ type @@ closed

\* What it leaves out: all keywords beside the deciding one, the "one" of oneOf,
\* items after the first of minItems, required keys that are not declared, and
\* everything about an object that may have other keys than it declares.
RECURSIVE Loosened(_)
Loosened(n) ==
    LET k == Deciding(n)
        Each(nodes) == [i \in DOMAIN nodes |-> Loosened(nodes[i])]
        Only(keyword) == IF Has(n, keyword) THEN [f \in {keyword} |-> n[f]] ELSE <<>>
        array == IF ~Has(n, "items") THEN <<>>
                 ELSE [items |-> Loosened(n.items),
                       minItems |-> IF Has(n, "minItems") /\ n.minItems >= 1 THEN 1 ELSE 0]
        object == IF GenericObject(n) THEN <<>>
                  ELSE [properties |-> Each(PropertiesOf(n)),
                        required |-> RequiredOf(n) \cap DOMAIN PropertiesOf(n)] @@ Only("additional")
        kept == CASE k \in {"anyOf", "oneOf"} -> [anyOf |-> Each(n[k])]
                  [] k = "allOf" -> [allOf |-> Each(n.allOf)]
                  [] k \in {"type", "types"} -> Only(k) @@ array @@ object
                  [] k = "properties" -> object
                  [] k = "items" -> array
                  [] k = "none" -> <<>>
                  [] OTHER -> Only(k)
    IN  kept @@ IF Has(n, "defs") THEN [defs |-> Each(n.defs)] ELSE <<>>

\* The definitions a node leads to before any brace, bracket or literal.
RECURSIVE LeftRefs(_, _, _)
LeftRefs(root, n, seen) ==
    LET k == Deciding(n)
    IN  CASE k = "ref" ->
               IF n.ref \in seen \/ ~Has(root, "defs") THEN {n.ref}
               ELSE IF n.ref \notin DOMAIN root.defs THEN {n.ref}
               ELSE {n.ref} \cup LeftRefs(root, root.defs[n.ref], seen \cup {n.ref})
          [] k \in {"anyOf", "oneOf", "allOf"} -> UNION {LeftRefs(root, m, seen) : m \in ToSet(n[k])}
          [] OTHER -> {}

Guarded(root) ==
    Has(root, "defs") => \A def \in DOMAIN root.defs : def \notin LeftRefs(root, root.defs[def], {})

---------------------------------------------------------------------------
References(body) ==
    CASE body.op = "alternatives" -> body.of
      [] body.op = "array" -> {body.item}
      [] body.op = "object" -> {body.rule[k] : k \in DOMAIN body.rule}
      [] OTHER -> {}

RECURSIVE LeftReach(_, _)
LeftReach(g, names) ==
    LET next == names \cup UNION {g[x].of : x \in {y \in names \ Primitive : g[y].op = "alternatives"}}
    IN  IF next = names THEN names ELSE LeftReach(g, next)

\* The engine can read every grammar that comes out: whatever the property and
\* definition names look like once sanitized, each rule is defined once, over
\* all tools, and mentions only defined rules; and a schema whose recursion
\* goes through a property or an item gives no left-recursive rule
\* (llama_sampler_init_grammar refuses those, and with them every prediction).
GrammarReadable ==
    /\ \A i, j \in DOMAIN rules : i # j => DOMAIN rules[i] \cap DOMAIN rules[j] = {}
    /\ \A i \in DOMAIN rules :
         /\ DOMAIN rules[i] \cap Builtin = {}
         /\ argsRule[i] \in DOMAIN rules[i] \cup Primitive
         /\ \A name \in DOMAIN rules[i] :
              /\ rules[i][name].op # "undefined"
              /\ References(rules[i][name]) \subseteq DOMAIN rules[i] \cup Primitive
         /\ Guarded(tools[i]) =>
              \A name \in DOMAIN rules[i] :
                 rules[i][name].op = "alternatives" => name \notin LeftReach(rules[i], rules[i][name].of)

\* Nothing but the narrowing is missing from the grammar: every document that is
\* valid for the schema as the converter narrows it can be sampled, whichever
\* optional members it has and however it recurses; a tool without a grammar takes
\* any object.  (schema_grammar.go:53-56 promises more, a superset of the schema
\* itself; objects with undeclared keys refute that.)
CoversSchema ==
    \A i \in DOMAIN rules : \A d \in Docs :
        Valid(Narrowed(tools[i]), Narrowed(tools[i]), d, {}) /\ (Supported(i) \/ d.t = "object")
            => Derives(rules[i], argsRule[i], d, {})

\* Nothing but the loosening is missing from what the model samples as arguments
\* of a supported schema: every other constraint of the narrowed schema holds, at
\* any depth, through references and for clashing names.
SampledIsValid ==
    sampled # NoCall /\ Supported(sampled[1]) =>
        LET read == Loosened(Narrowed(tools[sampled[1]]))
        IN  Valid(read, read, sampled[2], {})
=============================================================================
