---------------------------- MODULE MCLifecycle ----------------------------
EXTENDS Lifecycle

Option(field, value) == [field |-> field, value |-> value]
Bias(id, bias) == [id |-> id, bias |-> bias]

MCModelChoices ==
    {<<>>, <<Option("TensorSplit", "bad")>>, <<Option("MainGPU", "bad")>>, <<Option("TensorSplit", "bad"), Option("TensorSplit", "good")>>}
    \cup {<<Option("LoraAdapter", lora), Option("MMProj", proj)>> : lora, proj \in {"", "file"}}

\* Tokens go up to 3, a long up to 7: ids 4 to 7 are readable and too wide.
Entries == {Bias(1, "up"), Bias(2, "down"), Bias(-1, "up"), Bias(3, "unreadable"), Bias(6, "up")}
MCPredictChoices ==
    {<<>>, <<Option("StopPrompts", <<"a">>), Option("StopPrompts", <<"a", "b">>)>>,
     <<Option("Grammar", "bad")>>, <<Option("MediaPaths", <<"m">>), Option("Grammar", "bad")>>}
    \cup {<<Option("MediaPaths", <<"m">>), Option("MediaPaths", more)>> : more \in {<<>>, <<"n">>}}
    \cup {<<Option("LogitBias", <<a, b>>), Option("LogitBiases", <<c>>)>> : a, b, c \in Entries}
    \cup {<<Option("LogitBiases", <<a>>), Option("LogitBias", <<b>>), Option("LogitBias", <<c>>),
            Option("LogitBiases", <<a, c>>)>> : a, b, c \in Entries}
=============================================================================
