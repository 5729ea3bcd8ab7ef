---------------------------- MODULE MCTraceFilter ----------------------------
(* Option strings for TLC: all short ones, and longer ones with an include *)
(* item of every shape.                                                    *)
EXTENDS TraceFilter

Chars == {"include", "help", "a", "b", Star, ".", ",", "=", " "}
ItemChars == {"a", "b", Star, "."}

ShortOptions == UNION {[1 .. n -> Chars] : n \in 0 .. 4}

Items == UNION {[1 .. n -> ItemChars] : n \in 1 .. 4}

Tails ==
  {<<>>, <<",">>, <<",", "help">>, <<",", "b">>, <<",", "a", "b", "a", ",", "b">>,
   <<",", "include">>, <<",", "include", "=", "b">>, <<",", " ", "help">>,
   <<",", "include", "=", "b", ",", "include", "=", "a", "a">>}

ItemOptions == {<<"include", "=">> \o i \o t : i \in Items, t \in Tails}

AllOptions == ShortOptions \cup ItemOptions

Names == UNION {[1 .. n -> {"a", "b"}] : n \in 1 .. 2}

=============================================================================
