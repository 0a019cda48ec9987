--------------------------- MODULE CommandProfile ---------------------------
(***************************************************************************)
(* The twenty commands of create_command_profile                           *)
(* (command_executor/commands.py), each a function of its arguments, its   *)
(* input, its context [cwd, view, stdin, connected] and the tree.          *)
(*                                                                         *)
(* A result carries every tree the command publishes on the way: commands  *)
(* with several operands apply them one by one, and stop at the first that *)
(* fails with what was done before it in place.  A diagnostic is the text  *)
(* Note.  The order of symbols stands for the byte order of texts; there   *)
(* is no case, so grep -i is grep; grep -E is the default.                 *)
(***************************************************************************)
EXTENDS CommandLanguage

CONSTANTS
    Order,          \* every symbol, in byte order
    Flags,          \* the letters of an option symbol: "-rf" :> {"r", "f"}
    Number,         \* the value of a number symbol: "2" :> 2
    Many,           \* a number that has no symbol
    Counts,         \* the count in an option symbol: "-n2" :> 2, "-2" :> 2
    Assigned,       \* the name an assignment symbol sets: "V=" :> "V"
    BadPattern,     \* a pattern re.compile refuses
    Secret,         \* the protected value
    Mark            \* what redaction puts in its place

Note == <<"note", "LF">>

(* The bytes of a character are no other symbol, no diagnostic shows the   *)
(* secret, and numbers are natural.                                        *)
Literals == {"LF", " ", "/", ".", "-", ":", "=", "==>", "note", "total", "PWD", Secret, Mark, Many}
ASSUME SymbolAssumption ==
    /\ {Lead, Trail} \cap (Literals \cup Names \cup DOMAIN Variable \cup DOMAIN Number
                           \cup DOMAIN Assigned \cup Range(Assigned)) = {}
    /\ Secret \notin {Mark, "note", "LF"}
    /\ Range(Number) \cup Range(Counts) \subseteq Nat

-----------------------------------------------------------------------------
(* Results.                                                                *)
Result(exit, code, out, err) ==
    [exit |-> exit, code |-> code, out |-> out, err |-> err,
     moves |-> FALSE, cwd |-> <<>>, changes |-> <<>>, trees |-> <<>>]

Success(out) == Result(0, "none", out, <<>>)
Failure(out) == Result(1, "workspace_failure", out, Note)
Invalid == Result(2, "invalid_argument", <<>>, Note)
ProtectedValue == Result(1, "protected_value_rejected", <<>>, Note)

(* ProtectedValueRedactor.                                                 *)
Redact(text) == [i \in DOMAIN text |-> IF text[i] = Secret THEN Mark ELSE text[i]]
Protected(text) == Secret \in Range(text)
AnyProtected(texts) == \E text \in Range(texts) : Protected(text)

(* _reject_stdin.                                                          *)
HasInput(ctx) == ctx.connected \/ ctx.stdin # <<>>

-----------------------------------------------------------------------------
(* What the workspace port answers to one mutation of tree t.              *)
Mutated(t, may, new) == IF may /\ Fits(new) THEN [ok |-> TRUE, tree |-> new]
                        ELSE [ok |-> FALSE, tree |-> t]

MakeDirectory(t, p, parents) ==
    IF parents /\ IsDir(t, p) THEN [ok |-> TRUE, tree |-> t]
    ELSE Mutated(t, p \notin DOMAIN t /\ HasParent(t, p, parents), Put(WithParents(t, p), p, Dir))

WriteNode(t, p, content) ==
    Mutated(t, p # Root /\ ~IsDir(t, p) /\ HasParent(t, p, FALSE), Put(t, p, content))

AppendNode(t, p, content) == WriteNode(t, p, (IF IsFile(t, p) THEN t[p] ELSE <<>>) \o content)

RemoveNode(t, p, recursive, force) ==
    IF force /\ p \notin DOMAIN t THEN [ok |-> TRUE, tree |-> t]
    ELSE Mutated(t, p # Root /\ p \in DOMAIN t /\ (recursive \/ Subtree(t, p) = {p}), Prune(t, p))

TransferNode(t, s, d, move) ==
    Mutated(t, /\ s # Root /\ d # Root /\ ~IsPrefix(s, d) /\ ~IsPrefix(d, s)
               /\ s \in DOMAIN t /\ HasParent(t, d, FALSE),
            Graft(IF move THEN Prune(t, s) ELSE t, d, t, s))

(* The operands of a mutating command, one by one until one fails: r is    *)
(* what the workspace answers for the next one.                            *)
Unchanged(t) == [ok |-> FALSE, tree |-> t]

Taken(s, r) ==
    IF ~s.ok THEN s
    ELSE [ok |-> r.ok, tree |-> r.tree,
          trees |-> IF r.tree = s.tree THEN s.trees ELSE Append(s.trees, r.tree)]

EachOperand(t, operands, Step(_, _)) ==
    LET end == FoldLeft(LAMBDA s, x : Taken(s, Step(s.tree, x)),
                        [ok |-> TRUE, tree |-> t, trees |-> <<>>], operands)
    IN  [(IF end.ok THEN Success(<<>>) ELSE Failure(<<>>)) EXCEPT !.trees = end.trees]

-----------------------------------------------------------------------------
(* Arguments.                                                              *)
Dashed(arg) == arg # <<>> /\ arg[1] \in DOMAIN Flags \cup DOMAIN Counts \cup {"-", "--"}

WithoutDashes(args) == IF args # <<>> /\ args[1] = <<"--">> THEN Tail(args) ELSE args

(* Leading options up to "--" or the first operand; "-" is an operand of   *)
(* commands that read.                                                     *)
Options(args, known, reads) ==
    LET IsOption(i) == Dashed(args[i]) /\ ~(reads /\ args[i] = <<"-">>)
        stops == {i \in DOMAIN args : ~IsOption(i) \/ args[i] = <<"--">>}
        n == IF stops = {} THEN Len(args) ELSE Min(stops) - 1
        given == {args[i][1] : i \in 1..n}
        after == SubSeq(args, n + 1, Len(args))
    IN  [ok |-> \A x \in given : x \in DOMAIN Flags /\ Flags[x] \subseteq known,
         flags |-> UNION {IF x \in DOMAIN Flags THEN Flags[x] ELSE {} : x \in given},
         operands |-> WithoutDashes(after)]

LineEnd(text, i) == Min({j \in i..Len(text) : text[j] = "LF"} \cup {Len(text)})

Records(text) ==
    FlattenSeq([i \in DOMAIN text |->
        IF i = 1 \/ text[i - 1] = "LF" THEN <<SubSeq(text, i, LineEnd(text, i))>> ELSE <<>>])

WithoutLf(record) == IF record # <<>> /\ record[Len(record)] = "LF" THEN Front(record) ELSE record
WithLf(record) == WithoutLf(record) \o <<"LF">>
Lines(records) == FlattenSeq([i \in DOMAIN records |-> WithLf(records[i])])

(* How a number is printed.                                                *)
Numeral(n) ==
    IF n \in Range(Number) THEN CHOOSE x \in DOMAIN Number : Number[x] = n ELSE Many

Rank(x) == IndexFirstSubSeq(<<x>>, Order)
Before(a, b) ==
    \/ Len(a) < Len(b) /\ IsPrefix(a, b)
    \/ \E i \in 1..Min({Len(a), Len(b)}) :
          /\ SubSeq(a, 1, i - 1) = SubSeq(b, 1, i - 1)
          /\ a[i] # b[i] /\ Rank(a[i]) < Rank(b[i])

(* A set of texts, in order.                                               *)
Placed(s, x) == InsertAt(s, Cardinality({i \in DOMAIN s : Before(s[i], x)}) + 1, x)
InOrder(texts) == FoldLeft(Placed, <<>>, SetToSeq(texts))

(* read_text refuses bytes that are not whole characters.                  *)
Decodable(text) ==
    \A i \in DOMAIN text : /\ text[i] = Lead => i < Len(text) /\ text[i + 1] = Trail
                           /\ text[i] = Trail => i > 1 /\ text[i - 1] = Lead

(* A text that the program can hold.                                       *)
IsText(text) == text \in Seq(Range(text)) /\ Decodable(text)

ReadText(t, operand, ctx) ==
    LET p == PathOf(operand, ctx.cwd)
    IN  IF operand = <<"-">> THEN [ok |-> TRUE, text |-> ctx.stdin]
        ELSE IF Protected(operand) THEN Fail("protected")
        ELSE IF Resolves(operand, ctx.cwd) /\ IsFile(t, p) /\ Decodable(t[p])
             THEN [ok |-> TRUE, text |-> t[p]]
        ELSE Fail("workspace")

(* _read_inputs: every operand, or the input when there is none.           *)
ReadInputs(t, operands, ctx) ==
    LET reads == IF operands = <<>> THEN <<[ok |-> TRUE, text |-> ctx.stdin]>>
                 ELSE [i \in DOMAIN operands |-> ReadText(t, operands[i], ctx)]
        bad == {i \in DOMAIN reads : ~reads[i].ok}
    IN  IF bad = {} THEN [ok |-> TRUE, texts |-> [i \in DOMAIN reads |-> reads[i].text],
                        labels |-> operands]
        ELSE IF reads[Min(bad)].code = "protected" THEN [ok |-> FALSE, result |-> ProtectedValue]
        ELSE [ok |-> FALSE, result |-> Failure(<<>>)]

(* _walk below p, a prefix before what it contains, names in order.        *)
Walk(t, p, depth) == InOrder({q \in Subtree(t, p) : Len(q) - Len(p) <= depth})

DisplayPath(operand, root, path) ==
    (IF operand[1] = "/" THEN PathText(root) ELSE operand) \o Rest(root, path)

-----------------------------------------------------------------------------
(* Commands that read.                                                     *)
Pwd(args, ctx, t) ==
    IF HasInput(ctx) \/ args # <<>> THEN Invalid ELSE Success(PathText(ctx.cwd) \o <<"LF">>)

Cd(args, ctx, t) ==
    LET rest == WithoutDashes(args)
        p == PathOf(rest[1], ctx.cwd)
    IN  IF HasInput(ctx) \/ Len(rest) # 1 THEN Invalid
        ELSE IF Dashed(rest[1]) /\ rest = args THEN Invalid
        ELSE IF Protected(rest[1]) THEN ProtectedValue
        ELSE IF ~Resolves(rest[1], ctx.cwd) \/ ~IsDir(t, p) THEN Failure(<<>>)
        ELSE [Success(<<>>) EXCEPT !.moves = TRUE, !.cwd = p]

(* ls: one section per operand, a blank line between sections, what was    *)
(* listed before a failure is printed.                                     *)
LsSection(x, several, ctx, t) ==
    LET p == PathOf(x, ctx.cwd)
        names == Lines([i \in DOMAIN Tail(Walk(t, p, 1)) |-> Rest(p, Walk(t, p, 1)[i + 1])])
    IN  IF ~IsDir(t, p) THEN x \o <<"LF">>
        ELSE IF several THEN x \o <<":", "LF">> \o names ELSE names

LsOperand(s, x, several, ctx, t) ==
    CASE ~s.ok -> s
      [] s.ok /\ Protected(x) -> [s EXCEPT !.ok = FALSE, !.result = ProtectedValue]
      [] s.ok /\ ~Protected(x)
         /\ (~Resolves(x, ctx.cwd) \/ PathOf(x, ctx.cwd) \notin DOMAIN t) ->
            [s EXCEPT !.ok = FALSE, !.result = Failure(s.out)]
      [] OTHER -> [s EXCEPT !.out = @ \o (IF s.first THEN <<>> ELSE <<"LF">>)
                                      \o LsSection(x, several, ctx, t),
                            !.first = FALSE]

Listed(operands, ctx, t) ==
    FoldLeft(LAMBDA s, x : LsOperand(s, x, Len(operands) > 1, ctx, t),
             [ok |-> TRUE, out |-> <<>>, first |-> TRUE, result |-> Invalid], operands)

Ls(args, ctx, t) ==
    LET o == Options(args, {"1", "a"}, TRUE)
        end == Listed(IF o.operands = <<>> THEN <<<<".">>>> ELSE o.operands, ctx, t)
    IN  CASE HasInput(ctx) \/ ~o.ok -> Invalid
          [] ~HasInput(ctx) /\ o.ok /\ end.ok -> Success(end.out)
          [] OTHER -> end.result

(* cat stops at the first operand it cannot read.                          *)
CatOperand(s, x, ctx, t) ==
    LET r == ReadText(t, x, ctx)
    IN  CASE s.exit # 0 -> s
          [] s.exit = 0 /\ r.ok -> [s EXCEPT !.out = @ \o r.text]
          [] s.exit = 0 /\ ~r.ok /\ r.code = "protected" -> ProtectedValue
          [] OTHER -> Failure(s.out)

Concatenated(operands, ctx, t) ==
    FoldLeft(LAMBDA s, x : CatOperand(s, x, ctx, t), Success(<<>>), operands)

Cat(args, ctx, t) ==
    LET o == Options(args, {}, TRUE)
    IN  CASE ~o.ok -> Invalid
          [] o.ok /\ o.operands = <<>> -> Success(ctx.stdin)
          [] OTHER -> Concatenated(o.operands, ctx, t)

Echo(args, ctx, t) ==
    LET bare == args # <<>> /\ args[1] = <<"-n">>
        words == IF bare THEN Tail(args) ELSE args
        joined == FlattenSeq([i \in DOMAIN words |->
                                IF i = 1 THEN words[i] ELSE <<" ">> \o words[i]])
    IN  IF HasInput(ctx) THEN Invalid ELSE Success(joined \o (IF bare THEN <<>> ELSE <<"LF">>))

(* _parse_count: -n COUNT, -nCOUNT or -COUNT, ten without one.             *)
ParseCount(args) ==
    LET spaced == args # <<>> /\ args[1] = <<"-n">>
        glued == args # <<>> /\ args[1] # <<>> /\ args[1][1] \in DOMAIN Counts
        rest == IF spaced THEN SubSeq(args, 3, Len(args)) ELSE IF glued THEN Tail(args) ELSE args
        operands == WithoutDashes(rest)
        counted == spaced /\ Len(args) > 1 /\ args[2] # <<>> /\ args[2][1] \in DOMAIN Number
    IN  [ok |-> /\ spaced => counted
                /\ rest = operands => \A x \in Range(rest) : Dashed(x) => x = <<"-">>,
         count |-> IF counted THEN Number[args[2][1]] ELSE IF glued THEN Counts[args[1][1]] ELSE 10,
         operands |-> operands]

(* _limited_input_output: a heading per input when there are several.      *)
Portion(text, count, fromEnd) ==
    LET all == Records(text)
        n == Min({count, Len(all)})
    IN  FlattenSeq(IF fromEnd THEN SubSeq(all, Len(all) - n + 1, Len(all)) ELSE SubSeq(all, 1, n))

Heading(r, i) ==
    IF Len(r.texts) = 1 THEN <<>>
    ELSE (IF i > 1 THEN <<"LF">> ELSE <<>>) \o <<"==>">> \o r.labels[i] \o <<"LF">>

HeadOrTail(args, ctx, t, fromEnd) ==
    LET o == ParseCount(args)
        r == ReadInputs(t, o.operands, ctx)
    IN  IF ~o.ok THEN Invalid
        ELSE IF ~r.ok THEN r.result
        ELSE Success(FlattenSeq([i \in DOMAIN r.texts |->
                              Heading(r, i) \o Portion(r.texts[i], o.count, fromEnd)]))

HeadCmd(args, ctx, t) == HeadOrTail(args, ctx, t, FALSE)
TailCmd(args, ctx, t) == HeadOrTail(args, ctx, t, TRUE)

(* grep: all sources are read before a line is printed; the first operand  *)
(* that is protected or cannot be read decides.                            *)
IsTreeOperand(x, ctx, t) == x # <<"-">> /\ Resolves(x, ctx.cwd) /\ IsDir(t, PathOf(x, ctx.cwd))

Sources(x, ctx, t) ==
    LET p == PathOf(x, ctx.cwd)
        all == Walk(t, p, MaxDepth)
        files == Chosen(all, {i \in DOMAIN all : IsFile(t, all[i])})
    IN  IF ~IsTreeOperand(x, ctx, t) THEN <<[label |-> x, read |-> ReadText(t, x, ctx)]>>
        ELSE [i \in DOMAIN files |-> [label |-> DisplayPath(x, p, files[i]),
                                     read |-> ReadText(t, PathText(files[i]), ctx)]]

Matches(record, pattern, inverted) ==
    (\E i \in 1..(Len(record) - Len(pattern) + 1) :
        SubSeq(record, i, i + Len(pattern) - 1) = pattern) # inverted

(* What grep prints of the text of a source.                               *)
MatchLines(text, label, named, pattern, flags) ==
    LET all == Records(text)
        hits == {i \in DOMAIN all : Matches(WithoutLf(all[i]), pattern, "v" \in flags)}
        Prefix(i) == (IF named THEN label \o <<":">> ELSE <<>>)
                     \o (IF "n" \in flags THEN <<Numeral(i), ":">> ELSE <<>>)
    IN  CASE "l" \notin flags ->
               FlattenSeq([i \in DOMAIN all |->
                             IF i \in hits THEN Prefix(i) \o WithLf(all[i]) ELSE <<>>])
          [] "l" \in flags /\ hits # {} -> label \o <<"LF">>
          [] OTHER -> <<>>

Grep(args, ctx, t) ==
    LET o == Options(args, {"F", "E", "i", "v", "n", "l", "r", "R"}, TRUE)
        recursive == o.flags \cap {"r", "R"} # {}
        pattern == o.operands[1]
        given == Tail(o.operands)
        operands == IF given # <<>> THEN given ELSE IF recursive THEN <<<<".">>>> ELSE <<<<"-">>>>
        sources == FlattenSeq([i \in DOMAIN operands |-> Sources(operands[i], ctx, t)])
        Unread(x) == \/ IsTreeOperand(x, ctx, t) /\ ~recursive
                     \/ \E s \in Range(Sources(x, ctx, t)) : ~s.read.ok
        broken == \E x \in Range(operands) : Unread(x)
        refused == \E i \in DOMAIN operands :
                     Protected(operands[i]) /\ \A j \in 1..(i - 1) : ~Unread(operands[j])
        named == recursive \/ Len(sources) > 1
        out == FlattenSeq([i \in DOMAIN sources |->
                 MatchLines(sources[i].read.text, sources[i].label, named, pattern, o.flags)])
    IN  IF ~o.ok \/ o.operands = <<>> THEN Invalid
        ELSE IF pattern = BadPattern /\ "F" \notin o.flags THEN Invalid
        ELSE IF refused THEN ProtectedValue
        ELSE IF broken THEN Failure(<<>>)
        ELSE IF out = <<>> THEN Result(1, "no_match", <<>>, <<>>)
        ELSE Success(out)

(* find: an operand, then pairs of a test and its value.                   *)
Find(args, ctx, t) ==
    LET dashes == args # <<>> /\ args[1] = <<"--">>
        free == WithoutDashes(args)
        given == free # <<>> /\ (dashes \/ ~Dashed(free[1]))
        operand == IF given THEN free[1] ELSE <<".">>
        tests == IF given THEN Tail(free) ELSE free
        pairs == [i \in 1..(Len(tests) \div 2) |-> [test |-> tests[2 * i - 1], value |-> tests[2 * i]]]
        Known(pair) ==
          \/ pair.test = <<"-type">> /\ pair.value \in {<<"f">>, <<"d">>}
          \/ pair.test = <<"-name">>
          \/ pair.test = <<"-maxdepth">> /\ pair.value # <<>> /\ pair.value[1] \in DOMAIN Number
        Values(test) == {pairs[i].value : i \in {j \in DOMAIN pairs : pairs[j].test = test}}
        Final(test) == pairs[Max({j \in DOMAIN pairs : pairs[j].test = test})].value
        depth == IF Values(<<"-maxdepth">>) = {} THEN MaxDepth ELSE Number[Final(<<"-maxdepth">>)[1]]
        root == PathOf(operand, ctx.cwd)
        Selected(q) ==
          /\ Values(<<"-type">>) # {} => (Final(<<"-type">>) = <<"d">>) = IsDir(t, q)
          /\ Values(<<"-name">>) # {} => Final(<<"-name">>) = <<"*">>
                                          \/ (q # Root /\ Final(<<"-name">>) = <<q[Len(q)]>>)
        all == Walk(t, root, depth)
    IN  IF HasInput(ctx) \/ 2 * Len(pairs) # Len(tests) THEN Invalid
        ELSE IF \E i \in DOMAIN pairs : ~Known(pairs[i]) THEN Invalid
        ELSE IF Protected(operand) THEN ProtectedValue
        ELSE IF ~Resolves(operand, ctx.cwd) \/ root \notin DOMAIN t THEN Failure(<<>>)
        ELSE Success(FlattenSeq([i \in DOMAIN all |->
                              IF Selected(all[i]) THEN DisplayPath(operand, root, all[i]) \o <<"LF">>
                              ELSE <<>>]))

(* wc: a row per input, and a total when there are several.                *)
Blank(x) == x \in {" ", "LF"}
CountsOf(text) ==
    [l |-> Cardinality({i \in DOMAIN text : text[i] = "LF"}),
     w |-> Cardinality({i \in DOMAIN text : ~Blank(text[i]) /\ (i = 1 \/ Blank(text[i - 1]))}),
     c |-> Len(text)]

Row(values, flags, label) ==
    LET fields == <<"l", "w", "c">>
        shown == Chosen(fields, {i \in 1..3 : flags = {} \/ fields[i] \in flags})
    IN  [i \in DOMAIN shown |-> Numeral(values[shown[i]])] \o label \o <<"LF">>

Wc(args, ctx, t) ==
    LET o == Options(args, {"c", "l", "w"}, TRUE)
        r == ReadInputs(t, o.operands, ctx)
        counts == [i \in DOMAIN r.texts |-> CountsOf(r.texts[i])]
        total == [f \in {"l", "w", "c"} |-> FoldLeft(LAMBDA s, x : s + x[f], 0, counts)]
        rows == FlattenSeq([i \in DOMAIN counts |->
                   Row(counts[i], o.flags, IF r.labels = <<>> THEN <<>> ELSE r.labels[i])])
    IN  IF ~o.ok THEN Invalid
        ELSE IF ~r.ok THEN r.result
        ELSE Success(rows \o (IF Len(counts) > 1 THEN Row(total, o.flags, <<"total">>)
                                     ELSE <<>>))

(* sort is stable, in reverse too; -u keeps the first of equal keys.  Each *)
(* line goes behind those it is not ahead of.                              *)
NumericKey(x) == IF x # <<>> /\ x[1] \in DOMAIN Number THEN Number[x[1]] ELSE 0
Less(x, y, flags) == IF "n" \in flags THEN NumericKey(x) < NumericKey(y) ELSE Before(x, y)
Ahead(x, y, flags) == IF "r" \in flags THEN Less(y, x, flags) ELSE Less(x, y, flags)

Inserted(s, x, flags) ==
    LET earlier == {i \in DOMAIN s : ~Ahead(x, s[i], flags)}
    IN  IF "u" \in flags /\ \E i \in earlier : ~Ahead(s[i], x, flags) THEN s
        ELSE InsertAt(s, Cardinality(earlier) + 1, x)

Sorted(records, flags) ==
    FoldLeft(LAMBDA s, record : Inserted(s, WithoutLf(record), flags), <<>>, records)

Sort(args, ctx, t) ==
    LET o == Options(args, {"n", "r", "u"}, TRUE)
        r == ReadInputs(t, o.operands, ctx)
        all == FlattenSeq([i \in DOMAIN r.texts |-> Records(r.texts[i])])
    IN  IF ~o.ok THEN Invalid
        ELSE IF ~r.ok THEN r.result
        ELSE Success(Lines(Sorted(all, o.flags)))

(* uniq: each run of equal lines once, -c with its length.                 *)
RunEnd(lines, i) ==
    Min({j \in i..Len(lines) : j = Len(lines) \/ lines[j + 1] # lines[i]})

Grouped(lines, counted) ==
    FlattenSeq([i \in DOMAIN lines |->
        IF i > 1 /\ lines[i - 1] = lines[i] THEN <<>>
        ELSE (IF counted THEN <<Numeral(RunEnd(lines, i) - i + 1)>> ELSE <<>>)
             \o lines[i] \o <<"LF">>])

Uniq(args, ctx, t) ==
    LET counted == args # <<>> /\ args[1] = <<"-c">>
        rest == WithoutDashes(IF counted THEN Tail(args) ELSE args)
        r == ReadInputs(t, rest, ctx)
        all == Records(r.texts[1])
    IN  IF Len(rest) > 1 \/ \E x \in Range(rest) : Dashed(x) /\ x # <<"-">> THEN Invalid
        ELSE IF ~r.ok THEN r.result
        ELSE Success(Grouped([i \in DOMAIN all |-> WithoutLf(all[i])], counted))

-----------------------------------------------------------------------------
(* Commands that mutate.                                                   *)
MkdirOperand(s, x, cwd, parents) ==
    IF Resolves(x, cwd) THEN MakeDirectory(s, PathOf(x, cwd), parents) ELSE Unchanged(s)

Mkdir(args, ctx, t) ==
    LET parents == args # <<>> /\ args[1] = <<"-p">>
        rest == IF parents THEN Tail(args) ELSE args
        operands == WithoutDashes(rest)
        Step(s, x) == MkdirOperand(s, x, ctx.cwd, parents)
    IN  IF HasInput(ctx) \/ operands = <<>> THEN Invalid
        ELSE IF operands = rest /\ \E x \in Range(rest) : Dashed(x) THEN Invalid
        ELSE IF AnyProtected(operands) THEN ProtectedValue
        ELSE EachOperand(t, operands, Step)

(* touch writes an empty file where stat finds nothing.                    *)
TouchOperand(s, x, cwd) ==
    LET p == PathOf(x, cwd)
    IN  CASE ~Resolves(x, cwd) \/ IsDir(s, p) -> Unchanged(s)
          [] Resolves(x, cwd) /\ IsFile(s, p) -> [ok |-> TRUE, tree |-> s]
          [] OTHER -> WriteNode(s, p, <<>>)

Touch(args, ctx, t) ==
    LET operands == WithoutDashes(args)
        Step(s, x) == TouchOperand(s, x, ctx.cwd)
    IN  IF HasInput(ctx) \/ operands = <<>> THEN Invalid
        ELSE IF operands = args /\ \E x \in Range(args) : Dashed(x) THEN Invalid
        ELSE IF AnyProtected(operands) THEN ProtectedValue
        ELSE EachOperand(t, operands, Step)

RmOperand(s, x, cwd, flags) ==
    IF Resolves(x, cwd)
    THEN RemoveNode(s, PathOf(x, cwd), flags \cap {"r", "R"} # {}, "f" \in flags)
    ELSE Unchanged(s)

Rm(args, ctx, t) ==
    LET o == Options(args, {"r", "R", "f"}, FALSE)
        Step(s, x) == RmOperand(s, x, ctx.cwd, o.flags)
    IN  IF HasInput(ctx) \/ ~o.ok \/ o.operands = <<>> THEN Invalid
        ELSE IF AnyProtected(o.operands) THEN ProtectedValue
        ELSE EachOperand(t, o.operands, Step)

(* _transfer, one source: into the destination when that is a directory.   *)
TransferOperand(s, x, d, into, cwd, recursive, move) ==
    LET p == PathOf(x, cwd)
        exact == IF into THEN d \o (IF p = Root THEN <<"workspace">> ELSE <<p[Len(p)]>>) ELSE d
        may == /\ Resolves(x, cwd) /\ p \in DOMAIN s
               /\ IsDir(s, p) => recursive /\ exact \notin DOMAIN s
               /\ IsFile(s, p) => ~IsDir(s, exact)
    IN  IF may THEN TransferNode(s, p, exact, move) ELSE Unchanged(s)

(* _transfer.  Whether the destination is a directory is looked up once,   *)
(* before the first source is copied or moved.                             *)
Transfer(operands, ctx, t, recursive, move) ==
    LET sources == Front(operands)
        last == operands[Len(operands)]
        d == PathOf(last, ctx.cwd)
        into == IsDir(t, d)
        Step(s, x) == TransferOperand(s, x, d, into, ctx.cwd, recursive, move)
    IN  IF AnyProtected(operands) THEN ProtectedValue
        ELSE IF ~Resolves(last, ctx.cwd) \/ (Len(sources) > 1 /\ ~into) THEN Failure(<<>>)
        ELSE EachOperand(t, sources, Step)

Cp(args, ctx, t) ==
    LET o == Options(args, {"f", "r", "R"}, FALSE)
    IN  IF HasInput(ctx) \/ ~o.ok \/ Len(o.operands) < 2 THEN Invalid
        ELSE Transfer(o.operands, ctx, t, o.flags \cap {"r", "R"} # {}, FALSE)

Mv(args, ctx, t) ==
    LET o == Options(args, {"f"}, FALSE)
    IN  IF HasInput(ctx) \/ ~o.ok \/ Len(o.operands) < 2 THEN Invalid
        ELSE Transfer(o.operands, ctx, t, TRUE, TRUE)

-----------------------------------------------------------------------------
(* Commands on the environment.                                            *)
Env(args, ctx, t) ==
    LET names == DOMAIN ctx.view.base \cup DOMAIN ctx.view.overlay \cup {"PWD"}
        sorted == InOrder({<<n>> : n \in names})
        Value(n) == IF n = "PWD" THEN PathText(ctx.cwd) ELSE EnvironmentGet(ctx.view, n)
    IN  IF HasInput(ctx) \/ args \notin {<<>>, <<<<"--">>>>} THEN Invalid
        ELSE Success(FlattenSeq([i \in DOMAIN sorted |->
                       sorted[i] \o <<"=">> \o Value(sorted[i][1]) \o <<"LF">>]))

(* The first bad assignment decides; none is published unless all are good.*)
Export(args, ctx, t) ==
    LET rest == WithoutDashes(args)
        Sets(x) == x # <<>> /\ x[1] \in DOMAIN Assigned /\ Assigned[x[1]] # "PWD"
        bad == {i \in DOMAIN rest : \/ Protected(rest[i]) \/ ~Sets(rest[i])
                                    \/ Assigned[rest[i][1]] \in DOMAIN ctx.view.overlay}
    IN  IF HasInput(ctx) \/ rest = <<>> THEN Invalid
        ELSE IF bad # {}
             THEN IF ~Protected(rest[Min(bad)]) /\ ~Sets(rest[Min(bad)])
                  THEN Invalid ELSE ProtectedValue
        ELSE [Success(<<>>) EXCEPT !.changes = [i \in DOMAIN rest |->
                       [name |-> Assigned[rest[i][1]], set |-> TRUE, value |-> Tail(rest[i])]]]

(* A name that no assignment can set is not shell syntax; the first name   *)
(* that is none, or is the overlay's, decides.                             *)
Unset(args, ctx, t) ==
    LET rest == WithoutDashes(args)
        IsName(x) == Len(x) = 1 /\ x[1] \in Range(Assigned)
        bad == {i \in DOMAIN rest : ~IsName(rest[i]) \/ rest[i][1] \in DOMAIN ctx.view.overlay}
    IN  IF HasInput(ctx) \/ rest = <<>> \/ <<"PWD">> \in Range(rest) THEN Invalid
        ELSE IF AnyProtected(rest) THEN ProtectedValue
        ELSE IF bad # {}
             THEN IF IsName(rest[Min(bad)]) THEN ProtectedValue ELSE Invalid
        ELSE [Success(<<>>) EXCEPT !.changes = [i \in DOMAIN rest |->
                       [name |-> rest[i][1], set |-> FALSE, value |-> <<>>]]]

-----------------------------------------------------------------------------
(* CommandRegistry over the descriptors of the profile.                    *)
Printers == {"pwd", "ls", "cat", "echo", "head", "tail", "grep", "find", "wc", "sort",
             "uniq", "env"}
Commands == Printers \cup {"cd", "mkdir", "touch", "rm", "cp", "mv", "export", "unset"}

PermitsRedirection(name) == name \in Printers
PipelineSafe(name) == name \in Printers
AcceptsStdin(name) == name \in {"cat", "head", "tail", "grep", "wc", "sort", "uniq"}

Known(argv) == argv[1] # <<>> /\ Len(argv[1]) = 1 /\ argv[1][1] \in Commands

Handler(argv, ctx, t) ==
    LET name == argv[1][1]
        args == Tail(argv)
    IN  CASE name = "pwd" -> Pwd(args, ctx, t)
          [] name = "cd" -> Cd(args, ctx, t)
          [] name = "ls" -> Ls(args, ctx, t)
          [] name = "cat" -> Cat(args, ctx, t)
          [] name = "echo" -> Echo(args, ctx, t)
          [] name = "mkdir" -> Mkdir(args, ctx, t)
          [] name = "touch" -> Touch(args, ctx, t)
          [] name = "rm" -> Rm(args, ctx, t)
          [] name = "head" -> HeadCmd(args, ctx, t)
          [] name = "tail" -> TailCmd(args, ctx, t)
          [] name = "grep" -> Grep(args, ctx, t)
          [] name = "find" -> Find(args, ctx, t)
          [] name = "wc" -> Wc(args, ctx, t)
          [] name = "sort" -> Sort(args, ctx, t)
          [] name = "uniq" -> Uniq(args, ctx, t)
          [] name = "cp" -> Cp(args, ctx, t)
          [] name = "mv" -> Mv(args, ctx, t)
          [] name = "env" -> Env(args, ctx, t)
          [] name = "export" -> Export(args, ctx, t)
          [] name = "unset" -> Unset(args, ctx, t)
=============================================================================
