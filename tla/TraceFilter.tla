----------------------------- MODULE TraceFilter -----------------------------
(***************************************************************************)
(* Which methods are traced: the options of the agent (JVMAgent.cpp,       *)
(* parse_options) and the include item they leave (agent_util.c).  The     *)
(* item is asked twice, with an empty method name when a class is loaded,  *)
(* to decide about instrumenting it, and with the name when one of its     *)
(* methods is called, to decide about the report.  Only a method that      *)
(* passes both is in the trace.                                            *)
(***************************************************************************)
EXTENDS Naturals, Sequences, FiniteSets, SequencesExt

\* Strings are sequences of characters.  The words "include" and "help" are
\* characters of their own.
CONSTANTS
  Options,                \* the option strings
  ClassNames, MethodNames,
  MAX_TOKEN_LENGTH,       \* of an option, with the NUL: 16
  MAX_METHOD_NAME_LENGTH  \* of an item, with the NUL: 1024

Empty   == <<>>
Star    == "*"
Comma   == ","
Blank   == " "
Include == <<"include">>
Help    == <<"help">>

Separators == {Comma, "="}

ASSUME FilterAssumption ==
  /\ Options \cup ClassNames \cup MethodNames \subseteq Seq(STRING)
  /\ Empty \notin ClassNames \cup MethodNames
  /\ {MAX_TOKEN_LENGTH, MAX_METHOD_NAME_LENGTH} \subseteq Nat \ {0}

\* Java has no "*" in a name.
ASSUME NamesAssumption == \A class \in ClassNames : class[1] # Star

VARIABLES
  pc,                   \* how far the agent is
  options, next, token, \* parse_options: its argument, the rest of it, an option
  m_include,            \* the include item, or Empty
  cname, instrumented,  \* a loaded class, and what the hook did with it
  mname, reported       \* a called method of it, and what the native did

filterVars == <<pc, options, next, token, m_include, cname, instrumented, mname, reported>>

-----------------------------------------------------------------------------
Drop(s, n) == SubSeq(s, n + 1, Len(s))
Lesser(m, n) == IF m < n THEN m ELSE n

\* How many characters a string begins with that are in cs; that are not.
strspn(s, cs) ==
  LET i == SelectInSeq(s, LAMBDA c : c \notin cs) IN IF i = 0 THEN Len(s) ELSE i - 1
strcspn(s, cs) ==
  LET i == SelectInSeq(s, LAMBDA c : c \in cs) IN IF i = 0 THEN Len(s) ELSE i - 1

\* strncmp() = 0.  A string that ends earlier has a NUL there.
SameStart(s, t, n) == SubSeq(s, 1, Lesser(n, Len(s))) = SubSeq(t, 1, Lesser(n, Len(t)))

\* Mutants: a token may fill the buffer; the string does not move on.
get_token_Full(str, seps, max) ==
  LET s   == Drop(str, strspn(str, seps))
      len == strcspn(s, seps)
  IN  IF s = Empty \/ len > max
      THEN [found |-> FALSE, token |-> Empty, rest |-> Empty]
      ELSE [found |-> TRUE, token |-> SubSeq(s, 1, len), rest |-> Drop(s, len)]

get_token_Stays(str, seps, max) ==
  LET s   == Drop(str, strspn(str, seps))
      len == strcspn(s, seps)
  IN  IF s = Empty \/ len >= max
      THEN [found |-> FALSE, token |-> Empty, rest |-> Empty]
      ELSE [found |-> TRUE, token |-> SubSeq(s, 1, len), rest |-> s]

\* No token is found at the end of the string, and none that fills the buffer.
get_token(str, seps, max) ==
  LET s   == Drop(str, strspn(str, seps))
      len == strcspn(s, seps)
  IN  IF s = Empty \/ len >= max
      THEN [found |-> FALSE, token |-> Empty, rest |-> Empty]
      ELSE [found |-> TRUE, token |-> SubSeq(s, 1, len), rest |-> Drop(s, len)]

\* Mutant: the character between class and method is compared with the method.
covered_by_list_item_Next(item, class, method) ==
  LET len       == Len(item)
      cname_len == Len(class)
      rest      == Drop(item, cname_len)
  IN  IF item[1] = Star THEN SameStart(method, Tail(item), len - 1)
      ELSE IF item[len] = Star THEN SameStart(class, item, len - 1)
      ELSE /\ SameStart(class, item, Lesser(len, cname_len))
           /\ \/ cname_len >= len
              \/ SameStart(method, rest, Lesser(Len(rest), Len(method)))

\* An item covers, after a "*", the methods whose names begin with it; before a
\* "*", the classes whose names do; otherwise what agrees with it as far as both
\* names go, with one character between class and method that may be any.
covered_by_list_item(item, class, method) ==
  LET len       == Len(item)
      cname_len == Len(class)
      rest      == Drop(item, cname_len + 1)
  IN  IF item[1] = Star THEN SameStart(method, Tail(item), len - 1)
      ELSE IF item[len] = Star THEN SameStart(class, item, len - 1)
      ELSE /\ SameStart(class, item, Lesser(len, cname_len))
           /\ \/ cname_len >= len
              \/ SameStart(method, rest, Lesser(Len(rest), Len(method)))

\* The tokens of a list begin at its begin and after each comma.
covered_by_list(list, class, method) ==
  \E n \in {0} \cup {i \in 1 .. Len(list) : list[i] = Comma} :
    LET t == get_token(Drop(list, n), {Comma}, MAX_METHOD_NAME_LENGTH)
    IN  t.found /\ covered_by_list_item(t.token, class, method)

\* The agent gives no exclude list.
interested(class, method) ==
  m_include # Empty => covered_by_list(m_include, class, method)

-----------------------------------------------------------------------------
FilterInit ==
  /\ pc = "first"
  /\ options \in Options /\ next = options
  /\ token = Empty /\ m_include = Empty
  /\ cname = Empty /\ instrumented = FALSE
  /\ mname = Empty /\ reported = FALSE

events == <<cname, instrumented, mname, reported>>

\* The loop ends when there is no token; only the first may follow a blank.
TakeOption(seps) ==
  LET t == get_token(next, seps, MAX_TOKEN_LENGTH)
  IN  /\ pc' = IF t.found THEN "option" ELSE "running"
      /\ next' = t.rest /\ token' = t.token
      /\ UNCHANGED <<m_include, events>>

FirstOption == pc = "first" /\ TakeOption({Blank} \cup Separators)
NextOption  == pc = "next" /\ TakeOption(Separators)

\* exit(0).
HelpOption ==
  /\ pc = "option" /\ token = Help
  /\ pc' = "exited"
  /\ UNCHANGED <<next, token, m_include, events>>

\* Mutant: the item is read like an option, with the length of its buffer.
IncludeOptionShort ==
  /\ pc = "option" /\ token = Include
  /\ LET t == get_token(next, Separators, MAX_TOKEN_LENGTH)
     IN  /\ pc' = IF t.found THEN "next" ELSE "fatal"
         /\ m_include' = t.token
         /\ next' = t.rest
  /\ UNCHANGED <<token, events>>

\* The item replaces the one of an earlier include; without one the agent calls
\* fatal_error().
IncludeOption ==
  /\ pc = "option" /\ token = Include
  /\ LET t == get_token(next, Separators, MAX_METHOD_NAME_LENGTH)
     IN  /\ pc' = IF t.found THEN "next" ELSE "fatal"
         /\ m_include' = t.token
         /\ next' = t.rest
  /\ UNCHANGED <<token, events>>

\* fatal_error().
UnknownOption ==
  /\ pc = "option" /\ token \notin {Help, Include}
  /\ pc' = "fatal"
  /\ UNCHANGED <<next, token, m_include, events>>

\* ClassFileLoadHook ...
LoadClass(c) ==
  /\ pc = "running" /\ pc' = "loaded"
  /\ cname' = c /\ instrumented' = interested(c, Empty)
  /\ UNCHANGED <<next, token, m_include, mname, reported>>

\* ... and the natives, which only instrumented code calls.
CallMethod(m) ==
  /\ pc = "loaded" /\ pc' = "called"
  /\ mname' = m /\ reported' = (instrumented /\ interested(cname, m))
  /\ UNCHANGED <<next, token, m_include, cname, instrumented>>

ParseOptions ==
  /\ FirstOption \/ NextOption \/ HelpOption \/ IncludeOption \/ UnknownOption
  /\ UNCHANGED options

FilterNext ==
  \/ ParseOptions
  \/ /\ \/ \E c \in ClassNames : LoadClass(c)
        \/ \E m \in MethodNames : CallMethod(m)
     /\ UNCHANGED options

\* The loop runs; nothing is assumed of the Java program.
FilterSpec ==
  FilterInit /\ [][FilterNext]_filterVars /\ WF_filterVars(ParseOptions)

-----------------------------------------------------------------------------
(***************************************************************************)
(* Correctness.                                                            *)
(***************************************************************************)
Parsed == pc \in {"running", "loaded", "called"}

\* The variables have their types, tokens and items fit their buffers and hold
\* no separator, and nothing is asked before the options are read.
FilterTypeOK ==
  /\ pc \in {"first", "option", "next", "running", "loaded", "called", "exited", "fatal"}
  /\ Len(next) <= Len(options)
  /\ Len(token) < MAX_TOKEN_LENGTH /\ Len(m_include) < MAX_METHOD_NAME_LENGTH
  /\ ToSet(token) \cap Separators = {} /\ ToSet(m_include) \cap Separators = {}
  /\ cname \in ClassNames \cup {Empty} /\ mname \in MethodNames \cup {Empty}
  /\ cname # Empty => Parsed
  /\ {instrumented, reported} \subseteq BOOLEAN

\* The words of the options stand between separators, and are counted from the left.
IsSep(i) == i \in {0, Len(options) + 1} \/ options[i] \in Separators
Starts == {i \in 1 .. Len(options) : ~IsSep(i) /\ IsSep(i - 1)}
Word(i) == LET j == CHOOSE n \in i .. Len(options) : IsSep(n + 1) /\ \A k \in i .. n : ~IsSep(k)
           IN  SubSeq(options, i, j)
Number(i) == Cardinality({k \in Starts : k <= i})

\* Every other word is an option, beginning with the first; its item follows.
IsOption(i) == Number(i) % 2 = 1

Fit ==
  \A i \in Starts : Len(Word(i)) < IF IsOption(i) THEN MAX_TOKEN_LENGTH ELSE MAX_METHOD_NAME_LENGTH

\* Includes with an item each.
WellFormed ==
  /\ Cardinality(Starts) % 2 = 0
  /\ \A i \in Starts : IsOption(i) => Word(i) = Include

\* Options without blanks that fit the buffers are read to their end: the agent
\* runs exactly when they are includes with an item each, with no item if there is
\* no include, and with the item of the include if there is one; nothing after a
\* strange option or a missing item is dropped in silence.  (It is after an option
\* that does not fit.  Which of several includes counts is left open.)
OptionsHonoured ==
  Fit /\ Blank \notin ToSet(options) =>
    /\ Parsed => /\ WellFormed
                 /\ Starts = {} => m_include = Empty
                 /\ \A i \in Starts :
                      Cardinality(Starts) = 2 /\ ~IsOption(i) => m_include = Word(i)
    /\ pc = "fatal" => ~WellFormed

Begins(s, t) == \E n \in 0 .. Len(t) : s = SubSeq(t, 1, n)

\* What the item names: everything without one; a class; a method of a class; or
\* with a "*" at its end the classes that begin with it.  (Items with a "*" at
\* their begin: see AnyClassAllowed.)
NamedByItem(class, method) ==
  \/ m_include \in {Empty, class}
  \/ /\ Begins(class, m_include) /\ Last(m_include) # Star
     /\ method = Drop(m_include, Len(class) + 1)
  \/ /\ Last(m_include) = Star /\ Len(m_include) > 1
     /\ Begins(Front(m_include), class)

\* What the item names the trace reports: the two questions of the hook and of the
\* native agree on it, although the hook does not know the method.
NamedIsTraced ==
  pc = "called" /\ NamedByItem(cname, mname) => reported

\* The options are read in finitely many steps, whatever they are.
ParseEnds == <>(pc \notin {"first", "option", "next"})

\* The comment of covered_by_list_item, "If it starts with a '*', then any class
\* is allowed": the method named after the "*" is traced in every class.
AnyClassAllowed ==
  pc = "called" /\ m_include = <<Star>> \o mname => reported

=============================================================================
