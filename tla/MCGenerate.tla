----------------------------- MODULE MCGenerate -----------------------------
(***************************************************************************)
(* Small instances of Generate for TLC.  Two characters are enough for     *)
(* stop words that overlap themselves, each other and the token pieces;    *)
(* one token has no text (a control token), so that a generation can go on *)
(* through several shifts without completing a stop word.                  *)
(***************************************************************************)
EXTENDS Generate

MCChar == {"a", "b"}
MCPiece == [t1 |-> <<"a">>, t2 |-> <<"a", "b">>, t0 |-> <<>>]
MCStops == << <<"a", "a", "b">>, <<>>, <<"b", "a">> >>

\* The shortest prompt, one in between, and one that leaves no room at all.
MCPrompts == {<<"t1">>, <<"t2", "t0", "t1">>, <<"t1", "t2", "t1", "t0", "t2">>}

\* An image of three patches, one position each.
MCImages == {[mem |-> {[pos |-> p, tok |-> "patch"] : p \in 0..2}, n_past |-> 3]}

MCBudgets == {-1, 0, 2}           \* every branch of Budget
MCKeeps == {-1, 0, 1, 3, 4, 9}    \* none, some, the most that leaves room, too many
=============================================================================
