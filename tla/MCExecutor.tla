----------------------------- MODULE MCExecutor -----------------------------
(* Instances of CommandExecutor for TLC: command lines that reach every    *)
(* command and its refusals, on a small tree with tight limits, and every  *)
(* short sequence of tokens for the parser.                                *)
EXTENDS CommandExecutor

Symbols ==
    <<"LF", " ", "-", "--", "-1", "-E", "-F", "-c", "-l", "-maxdepth", "-n", "-n2", "-name",
      "-p", "-r", "-rf", "-type", "-u", "-v", "-w", "-z", ".", "..", "/", "/etc", "*", "0", "1", "10", "11", "12",
      "2", "3", "4", "5", "6", "7", "8", "9", ":", "=", "==>", "PWD", "PWD=", "S", "S=", "V",
      "V=", "[", "a", "b", "d", "e", "f", "g", "hi", "lo", "note", "secret", "total", "x", "y",
      "workspace", "***", "pwd", "cat", "nope">>
Alphabet == Range(Symbols)
SegmentNames == {"a", "b", "d", "e", "f", "g", "secret", "workspace"}

References == "$V" :> "V" @@ "$S" :> "S" @@ "$PWD" :> "PWD"
OptionLetters ==
    "-1" :> {"1"} @@ "-E" :> {"E"} @@ "-F" :> {"F"} @@ "-c" :> {"c"} @@ "-l" :> {"l"}
    @@ "-n" :> {"n"} @@ "-p" :> {"p"} @@ "-r" :> {"r"} @@ "-rf" :> {"r", "f"} @@ "-u" :> {"u"}
    @@ "-v" :> {"v"} @@ "-w" :> {"w"} @@ "-z" :> {"z"} @@ "-name" :> {"name"}
    @@ "-type" :> {"type"} @@ "-maxdepth" :> {"maxdepth"}
Numerals == <<"0", "1", "2", "3", "4", "5", "6", "7", "8", "9", "10", "11", "12">>
Digits == [x \in Range(Numerals) |-> IndexFirstSubSeq(<<x>>, Numerals) - 1]
CountLetters == "-1" :> 1 @@ "-n2" :> 2
Assignments == "V=" :> "V" @@ "S=" :> "S" @@ "PWD=" :> "PWD"
Bracket == <<"[">>

Tree == <<>> :> Dir @@ <<"a">> :> <<"y", "LF", "x", "LF", "y", "LF">> @@ <<"d">> :> Dir
        @@ <<"d", "b">> :> <<"x">> @@ <<"d", "e">> :> Dir
Environment == "V" :> <<"x">>

OwnLeases == <<"mine", "also">>
Bindings == "S" :> "mine"

-----------------------------------------------------------------------------
(* Command lines.  W is a word, Q a quoted one, O an operator.             *)
Part(text, expands) ==
    [k |-> "part", parts |-> <<[text |-> text, expands |-> expands]>>, digits |-> FALSE]
W(text) == <<Part(text, TRUE)>>
Q(text) == <<Part(text, FALSE)>>
O(v) == <<[k |-> "op", v |-> v]>>
Space == <<[k |-> "space"]>>
Then(s, x) == s \o (IF s # <<>> THEN Space ELSE <<>>) \o <<x>>
Spaced(lexemes) == FoldLeft(Then, <<>>, lexemes)

(* A command and one-symbol arguments.                                     *)
C(name, args) == W(<<name>>) \o FlattenSeq([i \in DOMAIN args |-> W(<<args[i]>>)])
Seq2(a, op, b) == a \o O(op) \o b

Plain == {
    C("pwd", <<>>), C("pwd", <<"a">>), C("nope", <<>>) \o O(">") \o W(<<"f">>),
    Seq2(C("cd", <<"d">>), "&&", C("pwd", <<>>)), C("cd", <<"a">>), C("cd", <<"-z">>), C("cd", <<>>),
    Seq2(C("cd", <<"d">>), ";", C("rm", <<"-r", "b", "e">>) \o O(";") \o C("ls", <<>>)),
    C("ls", <<>>), C("ls", <<"a", "d">>), C("ls", <<"d", "g", "a">>), C("ls", <<"-z">>),
    C("cat", <<"a">>), C("cat", <<"a", "g">>), C("cat", <<"-z">>), C("cat", <<"..">>),
    C("cat", <<"/etc">>), C("cat", <<"f">>),
    C("echo", <<"-n", "x", "y">>), C("echo", <<"$V", "$PWD">>) \o Q(<<"$V">>),
    C("echo", <<"x">>) \o O(">") \o W(<<"d", "f">>) \o O("&&") \o C("cat", <<"d">>),
    C("echo", <<"x">>) \o O(">>") \o W(<<"a">>) \o O(";") \o C("tail", <<"-1", "a">>),
    C("echo", <<"y">>) \o O(">") \o W(<<"d">>) \o O("&&") \o C("pwd", <<>>),
    C("echo", <<"y">>) \o O(">") \o W(<<"/", "d", "b">>),
    W(<<"echo">>) \o W(<<"x", "y", "x", "y", "x">>), W(<<"echo">>) \o W(<<Lead, Trail>>) \o W(<<"x">>),
    W(<<"echo">>) \o Q(<<"x", "y", Lead, Trail>>) \o W(<<"x">>) \o O(";") \o C("echo", <<"y">>),
    Seq2(C("cat", <<"a">>), ";", W(<<"echo">>) \o W(<<"x", "y", "x", "y">>) \o W(<<Lead, Trail>>))
       \o O(";") \o C("echo", <<"-n", "x">>),
    C("mkdir", <<"g", "a", "f">>), W(<<"mkdir">>) \o W(<<"-p">>) \o W(<<"g", "e">>) \o W(<<"d">>),
    C("mkdir", <<"g">>) \o O(">") \o W(<<"f">>), C("mkdir", <<"-z">>),
    W(<<"touch">>) \o W(<<"a">>) \o W(<<"f">>) \o W(<<"g">>) \o W(<<"g", "a">>),
    C("rm", <<"a", "d">>), C("rm", <<"-rf", "d", "g">>), C("rm", <<"-z", "a">>),
    C("head", <<"-n2", "a">>), C("head", <<"-n", "1", "a">>), C("tail", <<"-n">>),
    C("head", <<"-1", "a">>) \o W(<<"d", "b">>),
    C("grep", <<"y", "a">>), C("grep", <<"-r", "x">>), C("grep", <<"-v", "-n", "y", "a">>),
    C("grep", <<"-l", "x", "a">>), C("grep", <<"z", "a">>), C("grep", <<"[", "a">>),
    C("grep", <<"x", "d">>), C("grep", <<>>),
    C("find", <<>>), C("find", <<"d", "-type", "f">>), C("find", <<"-maxdepth", "1">>),
    C("find", <<"-name", "b">>), C("find", <<"d", "-type">>), C("find", <<"-z", "b">>),
    C("wc", <<"a">>), C("wc", <<"-l", "a">>) \o W(<<"d", "b">>), C("wc", <<"-z">>),
    C("sort", <<"a">>), C("sort", <<"-r", "-u", "a">>), C("sort", <<"-n", "a">>),
    C("uniq", <<"-c", "a">>), C("uniq", <<"a", "d">>),
    C("cp", <<"a", "f">>), C("cp", <<"d", "g">>), C("cp", <<"a">>),
    Seq2(C("cp", <<"-r", "d", "g">>), ";", C("cp", <<"-r", "d", "f">>)),
    C("cp", <<"a", "g", "d">>), C("mv", <<"a", "d">>), C("mv", <<"d", "g">>),
    C("mv", <<"a", "d", "g">>), C("mv", <<"d", "g">>) \o O("&&") \o C("cd", <<"g">>),
    C("export", <<"V">>), W(<<"export">>) \o W(<<"V=", "y">>) \o O(";") \o C("env", <<>>),
    W(<<"export">>) \o W(<<"PWD=", "y">>), C("unset", <<"V">>) \o O(";") \o C("env", <<>>),
    W(<<"export">>) \o W(<<"V=", "y">>) \o O("&&") \o C("cd", <<"g">>) \o O(";") \o C("echo", <<"$V">>),
    C("unset", <<"PWD">>), C("unset", <<"[">>), C("env", <<"a">>),
    Seq2(C("cat", <<"a">>), "|", C("sort", <<>>)),
    Seq2(C("cat", <<"a">>), "|", C("sort", <<>>) \o O("|") \o C("uniq", <<"-c">>)),
    Seq2(C("cat", <<"a">>), "|", C("cat", <<"-">>) \o O("|") \o C("wc", <<>>)),
    Seq2(C("cat", <<"g">>), "|", C("wc", <<"-l">>) \o O(">") \o W(<<"f">>)),
    Seq2(C("find", <<>>), "|", C("head", <<"-1">>)),
    Seq2(C("cat", <<"a">>), "|", C("rm", <<"a">>)),
    Seq2(C("cat", <<"a">>), "|", C("pwd", <<>>)),
    Seq2(C("cat", <<"a">>), "|", C("grep", <<"x">>) \o O(">>") \o W(<<"d", "b">>)),
    Seq2(C("nope", <<>>), "&&", C("pwd", <<>>) \o O(";") \o C("pwd", <<>>))}

(* Lines that never become a plan.                                         *)
Refused == {
    <<>>, Seq2(C("pwd", <<>>), "|", <<>>), C("pwd", <<>>) \o O(">"), W(<<"echo">>) \o W(<<"${">>),
    C("echo", <<"a", "b", "d", "e", "f">>), C("pwd", <<>>) \o <<[k |-> "newline"]>>,
    C("pwd", <<>>) \o <<[k |-> "refused", code |-> "invalid"]>>,
    C("a", <<>>) \o O("|") \o C("a", <<>>) \o O("|") \o C("a", <<>>) \o O("|") \o C("a", <<>>),
    C("echo", <<"a">>) \o O(";") \o C("echo", <<"a">>) \o O(";") \o C("echo", <<"a">>) \o O(";")
       \o C("echo", <<"a">>) \o O(";") \o C("echo", <<"a">>) }

(* Lines with a secret bound to S.                                         *)
Secretive == {
    C("env", <<>>), C("echo", <<"$S">>), Seq2(C("env", <<>>), "|", C("grep", <<"secret">>)),
    C("env", <<>>) \o O(">") \o W(<<"f">>) \o O(";") \o C("cat", <<"f">>),
    C("echo", <<"x">>) \o O(">") \o W(<<"$S">>),
    W(<<"export">>) \o W(<<"V=", "$S">>) \o O(";") \o C("env", <<>>),
    W(<<"export">>) \o W(<<"S=", "y">>), C("unset", <<"S">>), C("touch", <<"f", "$S">>),
    C("touch", <<"f">>) \o O("&&") \o C("env", <<>>) }

(* Digits that touch a redirection, or do not.                             *)
Two == <<[Part(<<"2">>, TRUE) EXCEPT !.digits = TRUE]>>
Descriptors == {Two \o O(">") \o W(<<"f">>), Two \o Space \o O(">") \o W(<<"f">>)}

AllScripts == {[lexemes |-> Spaced(x), secrets |-> FALSE] : x \in Plain \cup Refused}
              \cup {[lexemes |-> x, secrets |-> FALSE] : x \in Descriptors}
              \cup {[lexemes |-> Spaced(x), secrets |-> TRUE] : x \in Secretive}

-----------------------------------------------------------------------------
(* Every sequence of up to five tokens, one of them a bad reference.       *)
Tokens == {[k |-> "op", v |-> v] : v \in {"|", ">", ">>", ";", "&&"}}
          \cup {[k |-> "word", parts |-> <<[text |-> <<x>>, expands |-> TRUE]>>] : x \in {"a", "${"}}
ManyPhrases == UNION {[1..n -> Tokens] : n \in 0..5}
=============================================================================
