-------------------------- MODULE CommandLanguage --------------------------
(***************************************************************************)
(* The constrained command language (command_executor/parser.py), the      *)
(* environment it expands (models.py) and the bounded collection of what   *)
(* commands print (output.py).                                             *)
(*                                                                         *)
(* A text is a sequence of symbols.  A symbol stands for one byte of       *)
(* output, for one segment of a path with its separator, for an option, or *)
(* for a reference to a variable; Lead and Trail are the two bytes of one  *)
(* character.  The input of tokenize is a sequence of lexemes: the parts   *)
(* of a word (an unquoted run, a quoted run or an escaped character), a    *)
(* space, an operator, a line break, or something that is refused.         *)
(***************************************************************************)
EXTENDS WorkspaceTree, TLC

CONSTANTS
    Variable,       \* the name a reference symbol expands: "$V" :> "V"
    BadReference,   \* a reference that is unterminated or has a bad name
    Lead, Trail,    \* the two bytes of a character
    MaxWords,       \* CommandLimits.max_argv_entries
    MaxStages       \* CommandLimits.max_pipeline_stages

ASSUME CharacterAssumption == Lead # Trail

Redirects == {">", ">>"}
Separators == {";", "&&"}
Fail(code) == [ok |-> FALSE, code |-> code]

-----------------------------------------------------------------------------
(* tokenize.                                                               *)
Flush(s) ==
    [s EXCEPT !.tokens = IF s.started THEN Append(@, [k |-> "word", parts |-> s.parts]) ELSE @,
              !.parts = <<>>, !.started = FALSE]

(* Digits that start a word and touch a redirection name a file            *)
(* descriptor.                                                             *)
NamesDescriptor(s, lexemes, i) ==
    /\ lexemes[i].digits /\ ~s.started
    /\ i < Len(lexemes) /\ lexemes[i + 1].k = "op" /\ lexemes[i + 1].v \in Redirects

Lex(s, lexemes, i) ==
    LET x == lexemes[i]
    IN  IF s.code # "ok" THEN s
        ELSE IF x.k = "space" THEN Flush(s)
        ELSE IF x.k = "op" THEN [Flush(s) EXCEPT !.tokens = Append(@, x)]
        ELSE IF x.k = "refused" THEN [s EXCEPT !.code = x.code]
        ELSE IF NamesDescriptor(s, lexemes, i) THEN [s EXCEPT !.code = "unsupported"]
        ELSE [s EXCEPT !.parts = @ \o x.parts, !.started = TRUE]

Lexed(lexemes) ==
    FoldLeft(LAMBDA s, i : Lex(s, lexemes, i),
             [tokens |-> <<>>, parts |-> <<>>, started |-> FALSE, code |-> "ok"],
             [i \in 1..Len(lexemes) |-> i])

Tokenize(lexemes) ==
    LET end == Lexed(lexemes)
    IN  IF \E i \in DOMAIN lexemes : lexemes[i].k = "newline" THEN Fail("unsupported")
        ELSE IF end.code # "ok" THEN Fail(end.code)
        ELSE [ok |-> TRUE, tokens |-> Flush(end).tokens]

-----------------------------------------------------------------------------
(* parse_execution_plan.                                                   *)
ExpandsWell(word) ==
    \A i \in DOMAIN word.parts :
        word.parts[i].expands => BadReference \notin Range(word.parts[i].text)

EndStage(s) == [s EXCEPT !.stages = Append(@, s.words), !.words = <<>>]

(* Faulty variant: the next unit inherits the redirection.                 *)
EndUnitStillRedirected(s) ==
    [EndStage(s) EXCEPT
       !.units = Append(@, [connector |-> s.connector, stages |-> EndStage(s).stages,
                            mode |-> s.mode, destination |-> s.destination]),
       !.stages = <<>>]

EndUnit(s) ==
    [EndStage(s) EXCEPT
       !.units = Append(@, [connector |-> s.connector, stages |-> EndStage(s).stages,
                            mode |-> s.mode, destination |-> s.destination]),
       !.stages = <<>>, !.mode = "none", !.destination = [k |-> "word", parts |-> <<>>]]

(* The states of the parser: a command word must come, more words may      *)
(* come, a destination must come, nothing of this unit may come.           *)
Parse(s, x) ==
    LET invalid == [s EXCEPT !.at = "error"]
    IN  IF s.at = "error" \/ (x.k = "word" /\ ~ExpandsWell(x)) THEN invalid
        ELSE IF x.k = "word" /\ s.at \in {"command", "words"}
             THEN [s EXCEPT !.words = Append(@, x), !.at = "words"]
        ELSE IF x.k = "word" /\ s.at = "destination"
             THEN [s EXCEPT !.destination = x, !.at = "end"]
        ELSE IF x.k = "op" /\ s.at = "words" /\ x.v = "|"
             THEN [EndStage(s) EXCEPT !.at = "command"]
        ELSE IF x.k = "op" /\ s.at = "words" /\ x.v \in Redirects
             THEN [s EXCEPT !.mode = x.v, !.at = "destination"]
        ELSE IF x.k = "op" /\ s.at \in {"words", "end"} /\ x.v \in Separators
             THEN [EndUnit(s) EXCEPT !.connector = x.v, !.at = "command"]
        ELSE invalid

Parsed(tokens) ==
    FoldLeft(Parse, [units |-> <<>>, stages |-> <<>>, words |-> <<>>, connector |-> ";",
                     mode |-> "none", destination |-> [k |-> "word", parts |-> <<>>],
                     at |-> "command"], tokens)

ParseExecutionPlan(tokens) ==
    LET end == Parsed(tokens)
    IN  IF tokens = <<>> THEN Fail("empty")
        ELSE IF end.at \in {"words", "end"} THEN [ok |-> TRUE, units |-> EndUnit(end).units]
        ELSE Fail("invalid")

(* _validate_plan_structure.                                               *)
WithinStructure(units) ==
    \A u \in Range(units) : /\ Len(u.stages) <= MaxStages
                            /\ \A words \in Range(u.stages) : Len(words) <= MaxWords

(* The grammar, said without a parser: a word begins, ends and follows     *)
(* every operator; what follows a destination is a separator.              *)
Accepts(tokens) ==
    LET n == Len(tokens)
        IsWord(i) == tokens[i].k = "word"
    IN  /\ n > 0 /\ IsWord(1) /\ IsWord(n)
        /\ \A i \in 1..n : IsWord(i) => ExpandsWell(tokens[i])
        /\ \A i \in 1..(n - 1) : ~IsWord(i) => IsWord(i + 1)
        /\ \A i \in 1..(n - 2) : ~IsWord(i) /\ tokens[i].v \in Redirects =>
                                    /\ ~IsWord(i + 2) /\ tokens[i + 2].v \in Separators

(* The tokens of a plan: what comes first has no operator before it.       *)
Op(v) == <<[k |-> "op", v |-> v]>>
Between(i, v) == IF i = 1 THEN <<>> ELSE Op(v)

StageTokens(stages) == FlattenSeq([i \in DOMAIN stages |-> Between(i, "|") \o stages[i]])
Redirection(mode, destination) ==
    IF mode = "none" THEN <<>> ELSE Op(mode) \o <<destination>>
UnitTokens(u) == StageTokens(u.stages) \o Redirection(u.mode, u.destination)

Rendered(units) ==
    FlattenSeq([i \in DOMAIN units |-> Between(i, units[i].connector) \o UnitTokens(units[i])])

-----------------------------------------------------------------------------
(* Environment and expansion.  A view is [base, overlay], two functions    *)
(* from names to texts; PWD is derived and never among them.               *)
EnvironmentGet(view, name) ==
    IF name \in DOMAIN view.overlay THEN view.overlay[name]
    ELSE IF name \in DOMAIN view.base THEN view.base[name] ELSE <<>>

PathText(path) == <<"/">> \o path

Expand(text, view, cwd) ==
    FlattenSeq([i \in DOMAIN text |->
        IF text[i] \notin DOMAIN Variable THEN <<text[i]>>
        ELSE IF Variable[text[i]] = "PWD" THEN PathText(cwd)
        ELSE EnvironmentGet(view, Variable[text[i]])])

ExpandWord(word, view, cwd) ==
    FlattenSeq([i \in DOMAIN word.parts |->
        IF word.parts[i].expands THEN Expand(word.parts[i].text, view, cwd)
        ELSE word.parts[i].text])

(* The overlay names a word reaches.                                       *)
Reveals(word, view) ==
    {n \in DOMAIN view.overlay : \E i \in DOMAIN word.parts :
        /\ word.parts[i].expands
        /\ \E x \in Range(word.parts[i].text) : x \in DOMAIN Variable /\ Variable[x] = n}

(* _apply_environment_changes; a removal is a change without a value.      *)
ApplyChange(base, change) ==
    IF change.set THEN [n \in DOMAIN base \cup {change.name} |->
                          IF n = change.name THEN change.value ELSE base[n]]
    ELSE [n \in DOMAIN base \ {change.name} |-> base[n]]

ApplyChanges(base, changes) == FoldLeft(ApplyChange, base, changes)

-----------------------------------------------------------------------------
(* Paths named by operands: absolute below "/", otherwise below cwd.  The  *)
(* segments of a path are Names.                                           *)
Chosen(s, indices) == FlattenSeq([i \in DOMAIN s |-> IF i \in indices THEN <<s[i]>> ELSE <<>>])

Segments(text) == Chosen(text, {i \in DOMAIN text : text[i] \notin {"/", "."}})

PathOf(text, cwd) == IF text[1] = "/" THEN Segments(text) ELSE cwd \o Segments(text)

Resolves(text, cwd) ==
    /\ text # <<>>
    /\ ".." \notin Range(text)
    /\ text[1] # "/etc"
    /\ Range(Segments(text)) \subseteq Names
    /\ Len(PathOf(text, cwd)) <= MaxDepth

-----------------------------------------------------------------------------
(* BoundedOutputCollector.                                                 *)
Collector(max) ==
    [max |-> max, text |-> <<>>, original |-> 0, truncated |-> FALSE, closed |-> FALSE]

(* The longest prefix of at most n bytes that ends with a character.       *)
CompletePrefix(text, n) ==
    IF n > 0 /\ text[n] = Lead THEN SubSeq(text, 1, n - 1) ELSE SubSeq(text, 1, n)

(* Faulty variant: the stream is kept open after a cut, so a later short   *)
(* text still finds room.                                                  *)
CollectOpen(c, text) ==
    LET room == c.max - Len(c.text)
        counted == [c EXCEPT !.original = @ + Len(text)]
    IN  IF Len(text) <= room THEN [counted EXCEPT !.text = @ \o text]
        ELSE [counted EXCEPT !.text = @ \o CompletePrefix(text, room), !.truncated = TRUE]

Collect(c, text) ==
    LET room == c.max - Len(c.text)
        counted == [c EXCEPT !.original = @ + Len(text)]
    IN  IF c.closed \/ room <= 0
        THEN [counted EXCEPT !.truncated = @ \/ text # <<>>, !.closed = @ \/ text # <<>>]
        ELSE IF Len(text) <= room THEN [counted EXCEPT !.text = @ \o text]
        ELSE [counted EXCEPT !.text = @ \o CompletePrefix(text, room),
                             !.truncated = TRUE, !.closed = TRUE]

(* bound_text, as far as redirection asks: does one text fit?              *)
Overflows(text, max) == Collect(Collector(max), text).truncated
=============================================================================
