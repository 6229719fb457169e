---------------------------- MODULE MCToolRunner ----------------------------
(***************************************************************************)
(* Small instances of ToolRunner: two tools, outputs of every form that    *)
(* the parser tells apart, and runners with and without the grammar.       *)
(***************************************************************************)
EXTENDS ToolRunner

CONSTANT UserText

AllStrings == {"", "a", "b", "c", "final", "tool_call", "error", "system", "user", "assistant"}

Plain(kind, content, batch) ==
    [Broken EXCEPT !.ok = TRUE, !.type = kind, !.content = content, !.calls = batch]
Item1(name) == Call(<<>>, name, "", NoFunction, "object")
Answer == Plain("final", TRUE, <<>>)
Batch(names) == Plain("tool_call", FALSE, [i \in DOMAIN names |-> Item1(names[i])])

\* Outputs a grammar can generate; "c" is no tool of any runner.
Proper == {Broken, Answer, Batch(<<"a">>), Batch(<<"a", "b">>), Batch(<<"a", "a">>)}
\* Outputs of a model that is only prompted.
Loose ==
    {Batch(<<"a", "c">>),
     Plain("", TRUE, <<>>),
     [Plain("", TRUE, <<>>) EXCEPT !.tool = "a", !.args = "quotedJSON"],
     Plain("tool_call", FALSE, <<>>),
     Plain("", FALSE, <<Call(<<0>>, "", "", [name |-> "b", args |-> "object"], "absent"),
                        Call(<<>>, "", "a", NoFunction, "null")>>),
     Plain("tool_call", FALSE, <<Call(<<>>, "a", "", NoFunction, "quotedText")>>)}
AllOutput == Proper \cup Loose

Tool(name) == [name |-> name, wellFormed |-> TRUE, callable |-> TRUE]
TwoTools == <<Tool("a"), Tool("b")>>
User == [role |-> "user", body |-> <<UserText>>]
System == [role |-> "system", body |-> <<UserText>>]
Blank == [role |-> "system", body |-> <<>>]

Runner(c, tools, turns, free, strict, msgs) ==
    [choice |-> c, tools |-> tools, maxTurns |-> turns, disableGrammar |-> free,
     failOnToolError |-> strict, messages |-> msgs]

\* Runners with the grammar, of the default number of turns or fewer; prompted
\* ones of two turns; and runners that prepare refuses.
AllConfigs ==
    {Runner(c, TwoTools, n, FALSE, strict, <<System, User>>) :
        c \in {"", "required"}, n \in {0, 2}, strict \in BOOLEAN}
    \cup {Runner(c, TwoTools, 2, TRUE, strict, <<User>>) :
        c \in {"auto", "required", "none"}, strict \in BOOLEAN}
    \cup {Runner("none", <<[Tool("a") EXCEPT !.callable = FALSE]>>, 1, FALSE, FALSE, <<>>),
          Runner("auto", <<>>, 1, FALSE, FALSE, <<User>>),
          Runner("auto", TwoTools, 2, FALSE, FALSE, <<Blank, User>>)}
    \cup {Runner(c, tools, 1, FALSE, FALSE, <<User>>) :
        c \in {"required", "sometimes"},
        tools \in {<<>>, <<Tool("a"), Tool("a")>>, <<[Tool("a") EXCEPT !.callable = FALSE]>>,
                   <<[Tool("a") EXCEPT !.wellFormed = FALSE]>>}}
=============================================================================
