------------------------- MODULE CommandOutputProofs -------------------------
(***************************************************************************)
(* Proofs about what the commands of CommandExecutor print and keep, for   *)
(* any command lines, limits and stops: streams are cut between characters *)
(* and accounted for, and protected values stay inside the call.           *)
(***************************************************************************)
EXTENDS CommandExecutorProofs

-----------------------------------------------------------------------------
(* Texts.                                                                  *)

(* A symbol that is no byte of a longer character.                         *)
Solid(x) == x # Lead /\ x # Trail

(* What commands write by themselves are whole characters.                 *)
LEMMA SolidSymbols ==
    /\ \A x \in Literals \cup Names : Solid(x)
    /\ \A x \in DOMAIN Variable \cup DOMAIN Number \cup DOMAIN Assigned \cup Range(Assigned) :
          Solid(x)
    BY SymbolAssumption DEF Solid

(* The two ways of saying it.                                              *)
LEMMA TextIs == \A s : IsText(s) <=> IsSeq(s) /\ Decodable(s)
    BY DEF IsText, IsSeq, Range, ToSet

(* Symbols that are whole characters make a text.                          *)
LEMMA SolidText ==
    ASSUME NEW s, IsSeq(s), \A i \in DOMAIN s : Solid(s[i])
    PROVE  IsText(s)
    BY TextIs DEF Decodable, Solid

(* The empty text, and one symbol.                                         *)
LEMMA NoText == IsText(<<>>) /\ IsSeq(<<>>)
    <1> DEFINE s == <<>>
    <1>1. IsSeq(s) /\ DOMAIN s = {}
        BY NoElements
    <1> HIDE DEF s
    <1>2. IsText(s) /\ IsSeq(s)
        BY <1>1, SolidText
    <1> QED
        BY <1>2 DEF s

(* A text of one symbol.                                                   *)
LEMMA OneText ==
    /\ \A x : IsSeq(<<x>>) /\ Len(<<x>>) = 1 /\ DOMAIN <<x>> = {1} /\ <<x>>[1] = x
    /\ \A x : Solid(x) => IsText(<<x>>)
    <1>1. ASSUME NEW x PROVE IsSeq(<<x>>) /\ Len(<<x>>) = 1 /\ DOMAIN <<x>> = {1} /\ <<x>>[1] = x
        <2>1. <<x>> \in Seq({x})
            OBVIOUS
        <2>2. IsSeq(<<x>>)
            BY <2>1, SeqIs
        <2> QED
            BY <2>2
    <1>2. ASSUME NEW x, Solid(x) PROVE IsText(<<x>>)
        BY <1>1, <1>2, SolidText
    <1> QED
        BY <1>1, <1>2

(* One text behind the other.                                              *)
LEMMA TextAppend ==
    ASSUME NEW a, NEW b, IsText(a), IsText(b)
    PROVE  IsText(a \o b)
    BY TextIs, Concatenation, DecodableAppend

(* The two bytes of a character.                                           *)
LEMMA WholeCharacter == IsText(<<Lead>> \o <<Trail>>)
    <1>1. SUFFICES ASSUME NEW a, NEW b, NEW c, a = <<Lead>>, b = <<Trail>>, c = a \o b
                   PROVE  IsText(c)
        OBVIOUS
    <1>2. /\ IsSeq(a) /\ Len(a) = 1 /\ a[1] = Lead
          /\ IsSeq(b) /\ Len(b) = 1 /\ b[1] = Trail
        BY <1>1, OneText
    <1>3. /\ IsSeq(c) /\ Len(c) = Len(a) + Len(b)
          /\ \A i \in 1..Len(a) : c[i] = a[i]
          /\ \A i \in 1..Len(b) : c[Len(a) + i] = b[i]
        <2>1. IsSeq(a) /\ IsSeq(b)
            BY <1>2
        <2>2. Joins(a, b, c)
            BY <1>1 DEF Joins
        <2>3. IsSeq(c)
            BY <2>1, <2>2, Joined
        <2>4. Len(c) = Len(a) + Len(b)
            BY <2>1, <2>2, Joined
        <2>5. \A i \in 1..Len(a) : c[i] = a[i]
            BY <2>1, <2>2, Joined
        <2>6. \A i \in 1..Len(b) : c[Len(a) + i] = b[i]
            BY <2>1, <2>2, Joined
        <2> QED
            BY <2>3, <2>4, <2>5, <2>6
    <1>4. 1 \in 1..Len(a) /\ 1 \in 1..Len(b) /\ Len(a) + 1 = 2
        BY <1>2
    <1>5. Len(c) = 2 /\ c[1] = Lead /\ c[2] = Trail /\ DOMAIN c = 1..2
        BY <1>2, <1>3, <1>4, SeqFacts
    <1> QED
        BY <1>3, <1>5, TextIs, CharacterAssumption DEF Decodable

(* Texts put together are a text.                                          *)
LEMMA FlattenTexts ==
    ASSUME NEW s, IsSeq(s), \A i \in DOMAIN s : IsText(s[i])
    PROVE  IsText(FlattenSeq(s))
    <1> DEFINE n == Len(s)
    <1>1. n \in Nat /\ DOMAIN s = 1..n /\ (s = <<>> <=> n = 0)
        BY SeqFacts
    <1>2. CASE s = <<>>
        BY <1>1, <1>2, NoText DEF FlattenSeq
    <1>3. CASE s # <<>>
        <2>1. PICK f : /\ f[1] = s[1] /\ f[n] = FlattenSeq(s)
                       /\ \A k \in 2..n : f[k] = f[k - 1] \o s[k]
            BY <1>3, FlattenSteps DEF FlatSteps
        <2> HIDE DEF n
        <2> DEFINE T == {k \in 0..n : k > 0 => IsText(f[k])}
        <2>2. ASSUME NEW k \in 1..n, k - 1 \in T PROVE k \in T
            <3>1. IsText(s[k])
                BY <1>1
            <3>2. CASE k = 1
                BY <1>1, <2>1, <3>1, <3>2
            <3>3. CASE k # 1
                <4>1. k \in 2..n /\ k - 1 > 0 /\ IsText(f[k - 1])
                    BY <1>1, <2>2, <3>3
                <4>2. f[k] = f[k - 1] \o s[k]
                    BY <2>1, <4>1
                <4>3. IsText(f[k])
                    BY <3>1, <4>1, <4>2, TextAppend
                <4> QED
                    BY <1>1, <4>3
            <3> QED
                BY <3>2, <3>3
        <2>3. 0 \in T
            BY <1>1
        <2> HIDE DEF T
        <2>4. n \in T
            BY <1>1, <2>2, <2>3, LeastFailure DEF T
        <2> QED
            BY <1>1, <1>3, <2>1, <2>4 DEF T
    <1> QED
        BY <1>2, <1>3

(* A text does not end within a character.                                 *)
LEMMA LastSolid ==
    ASSUME NEW s, IsText(s), s # <<>>
    PROVE  Len(s) \in DOMAIN s /\ s[Len(s)] # Lead
    <1>1. Len(s) \in Nat /\ DOMAIN s = 1..Len(s) /\ Len(s) # 0 /\ Decodable(s)
        BY TextIs, SeqFacts
    <1>2. Len(s) \in DOMAIN s
        BY <1>1
    <1>3. s[Len(s)] = Lead => Len(s) < Len(s)
        BY <1>1, <1>2 DEF Decodable
    <1> QED
        BY <1>1, <1>2, <1>3

(* A part of a text that is not cut within a character is a text.          *)
LEMMA SubText ==
    ASSUME NEW s, IsText(s), NEW a \in 1..(Len(s) + 1), NEW b \in 0..Len(s),
           a = 1 \/ s[a - 1] # Lead, b = 0 \/ s[b] # Lead
    PROVE  IsText(SubSeq(s, a, b))
    <1> DEFINE r == SubSeq(s, a, b)
    <1>1. Len(s) \in Nat /\ DOMAIN s = 1..Len(s) /\ IsSeq(s) /\ Decodable(s)
        BY TextIs, SeqFacts
    <1>2. /\ IsSeq(r) /\ Len(r) = (IF a <= b THEN b - a + 1 ELSE 0)
          /\ \A i \in 1..Len(r) : r[i] = s[a + i - 1] /\ a + i - 1 \in 1..Len(s)
        BY <1>1, SubSeqFacts
    <1>3. DOMAIN r = 1..Len(r) /\ Len(r) \in Nat
        BY <1>2, SeqFacts
    <1> HIDE DEF r
    <1>7. \A i \in 1..Len(r) : r[i] = s[a + i - 1]
        BY <1>2
    <1>4. ASSUME NEW i \in DOMAIN r, r[i] = Lead PROVE i < Len(r) /\ r[i + 1] = Trail
        <2> DEFINE j == a + i - 1
        <2>1. j \in DOMAIN s /\ s[j] = Lead
            BY <1>1, <1>2, <1>3, <1>4
        <2>2. s[j + 1] = Trail /\ j < Len(s)
            BY <1>1, <2>1 DEF Decodable
        <2>3. j # b
            <3>1. CASE b = 0
                BY <3>1, <1>1, <1>3, <1>2
            <3>2. CASE s[b] # Lead
                BY <3>2, <2>1
            <3> QED
                BY <3>1, <3>2
        <2>4. i < Len(r)
            BY <1>2, <1>3, <2>3
        <2>5. i + 1 \in 1..Len(r) /\ a + (i + 1) - 1 = j + 1
            BY <1>3, <2>4
        <2> HIDE DEF j
        <2>6. r[i + 1] = s[a + (i + 1) - 1]
            BY <1>7, <2>5
        <2>7. r[i + 1] = Trail
            BY <2>2, <2>5, <2>6
        <2> QED
            BY <2>4, <2>7
    <1>5. ASSUME NEW i \in DOMAIN r, r[i] = Trail PROVE i > 1 /\ r[i - 1] = Lead
        <2> DEFINE j == a + i - 1
        <2>1. j \in DOMAIN s /\ s[j] = Trail
            BY <1>1, <1>2, <1>3, <1>5
        <2>2. s[j - 1] = Lead /\ j > 1
            BY <1>1, <2>1 DEF Decodable
        <2>3. i # 1
            <3> SUFFICES ASSUME i = 1 PROVE FALSE
                OBVIOUS
            <3>1. j = a
                OBVIOUS
            <3> QED
                BY <2>2, <3>1
        <2>4. i - 1 \in 1..Len(r) /\ a + (i - 1) - 1 = j - 1 /\ i > 1
            BY <1>3, <2>3
        <2> HIDE DEF j
        <2>5. r[i - 1] = s[a + (i - 1) - 1]
            BY <1>7, <2>4
        <2>6. r[i - 1] = Lead
            BY <2>2, <2>4, <2>5
        <2> QED
            BY <2>4, <2>6
    <1>6. IsText(r)
        BY <1>2, <1>4, <1>5, TextIs DEF Decodable
    <1> QED
        BY <1>6 DEF r

(* What follows a whole character.                                         *)
LEMMA TailText ==
    ASSUME NEW s, IsText(s), s # <<>>, Solid(s[1])
    PROVE  IsText(Tail(s))
    <1>1. Len(s) \in Nat /\ Len(s) # 0 /\ IsSeq(s)
        BY TextIs, SeqFacts
    <1>2. Tail(s) = SubSeq(s, 2, Len(s))
        <2> DEFINE S == ToSet(s)
        <2>1. s \in Seq(S)
            BY <1>1 DEF IsSeq
        <2> HIDE DEF S
        <2> QED
            BY <1>1, <2>1
    <1>3. s[Len(s)] # Lead
        BY LastSolid
    <1>4. 2 \in 1..(Len(s) + 1) /\ Len(s) \in 0..Len(s) /\ s[2 - 1] # Lead
        BY <1>1 DEF Solid
    <1>5. IsText(SubSeq(s, 2, Len(s)))
        <2> DEFINE a == 2
                   b == Len(s)
        <2>1. a \in 1..(Len(s) + 1) /\ b \in 0..Len(s) /\ s[a - 1] # Lead /\ s[b] # Lead
            BY <1>3, <1>4
        <2> HIDE DEF a, b
        <2>2. IsText(SubSeq(s, a, b))
            BY <2>1, SubText
        <2> QED
            BY <2>2 DEF a, b
    <1> QED
        BY <1>2, <1>5

-----------------------------------------------------------------------------
(* Words and what they expand to.                                          *)

(* An environment of texts, and one without the secret.                    *)
TextEnv(env) == \A n \in DOMAIN env : IsText(env[n])
TextView(view) == TextEnv(view.base) /\ TextEnv(view.overlay)

(* A path is written with whole characters.                                *)
LEMMA PathTexts ==
    ASSUME NEW p \in Seq(Names)
    PROVE  IsText(p) /\ IsText(PathText(p)) /\ \A i \in DOMAIN p : p[i] \in Names
    <1>1. IsSeq(p) /\ \A i \in DOMAIN p : p[i] \in Names
        BY SeqIs
    <1>2. IsText(p)
        BY <1>1, SolidText, SolidSymbols
    <1>3. IsText(<<"/">>)
        BY OneText, SolidSymbols DEF Literals
    <1> QED
        BY <1>1, <1>2, <1>3, TextAppend DEF PathText

(* What a name stands for.                                                 *)
LEMMA EnvironmentText ==
    ASSUME NEW view, TextView(view), NEW name
    PROVE  IsText(EnvironmentGet(view, name))
    BY NoText DEF EnvironmentGet, TextView, TextEnv

(* Expansion replaces references, which are whole characters, by texts.    *)
LEMMA ExpandText ==
    ASSUME NEW text, IsText(text), NEW view, TextView(view), NEW cwd \in Seq(Names)
    PROVE  IsText(Expand(text, view, cwd))
    <1> DEFINE n == Len(text)
               s == [i \in DOMAIN text |->
                       IF text[i] \notin DOMAIN Variable THEN <<text[i]>>
                       ELSE IF Variable[text[i]] = "PWD" THEN PathText(cwd)
                       ELSE EnvironmentGet(view, Variable[text[i]])]
    <1>1. n \in Nat /\ DOMAIN text = 1..n /\ Decodable(text) /\ IsSeq(text)
        BY TextIs, SeqFacts
    <1>2. IsSeq(s) /\ Len(s) = n /\ DOMAIN s = DOMAIN text
        BY <1>1, ListingOver
    <1>3. ASSUME NEW i \in 1..n
          PROVE  /\ Solid(text[i]) => IsText(s[i])
                 /\ ~Solid(text[i]) => s[i] = <<text[i]>>
        <2>1. CASE text[i] \notin DOMAIN Variable
            <3>1. s[i] = <<text[i]>>
                BY <1>1, <2>1
            <3> QED
                BY <3>1, OneText
        <2>2. CASE text[i] \in DOMAIN Variable
            <3>1. s[i] = PathText(cwd) \/ s[i] = EnvironmentGet(view, Variable[text[i]])
                BY <1>1, <2>2
            <3>2. IsText(s[i])
                BY <3>1, PathTexts, EnvironmentText
            <3> QED
                BY <2>2, <3>2, SolidSymbols
        <2> QED
            BY <2>1, <2>2
    <1>4. ASSUME NEW i \in 1..n
          PROVE  /\ text[i] = Lead => i < n /\ text[i + 1] = Trail
                 /\ text[i] = Trail => i > 1 /\ text[i - 1] = Lead
        BY <1>1 DEF Decodable
    <1>5. Expand(text, view, cwd) = FlattenSeq(s)
        BY DEF Expand
    <1> HIDE DEF n, s
    <1>6. CASE n = 0
        <2>1. s = <<>>
            BY <1>2, <1>6, SeqFacts
        <2> QED
            BY <1>2, <1>5, <1>6, <2>1, NoText DEF FlattenSeq
    <1>7. CASE n # 0
        <2>1. PICK f : /\ f[1] = s[1] /\ f[n] = FlattenSeq(s)
                       /\ \A k \in 2..n : f[k] = f[k - 1] \o s[k]
            <3>1. s # <<>>
                BY <1>2, <1>7, SeqFacts
            <3> QED
                BY <1>2, <3>1, FlattenSteps DEF FlatSteps
        <2> DEFINE Whole(k) == text[k] # Lead => IsText(f[k])
                   Half(k) == text[k] = Lead => \E a : IsText(a) /\ f[k] = a \o <<Lead>>
                   T == {k \in 0..n : k > 0 => Whole(k) /\ Half(k)}
        <2>2. ASSUME NEW k \in 1..n, k - 1 \in T PROVE k \in T
            <3>1. CASE k = 1
                <4>1. text[k] # Trail /\ f[k] = s[k]
                    BY <1>4, <2>1, <3>1
                <4>2. Whole(k)
                    BY <1>3, <4>1 DEF Solid
                <4>3. text[k] = Lead => f[k] = <<>> \o <<Lead>>
                    <5>1. <<>> \o <<Lead>> = <<Lead>>
                        OBVIOUS
                    <5> QED
                        BY <1>3, <4>1, <5>1 DEF Solid
                <4>4. Half(k)
                    BY <4>3, NoText
                <4> HIDE DEF Whole, Half
                <4> QED
                    BY <1>1, <4>2, <4>4
            <3>2. CASE k # 1
                <4> DEFINE j == k - 1
                <4>1. k \in 2..n /\ j \in 1..n /\ j + 1 = k /\ f[k] = f[j] \o s[k]
                    <5>1. k \in 2..n
                        BY <1>1, <3>2
                    <5>2. f[k] = f[j] \o s[k]
                        BY <2>1, <5>1
                    <5> QED
                        BY <1>1, <5>1, <5>2
                <4>2. Whole(j) /\ Half(j)
                    BY <2>2, <4>1
                <4> HIDE DEF j
                <4>3. text[j] = Lead <=> text[k] = Trail
                    <5>1. text[j] = Lead => text[k] = Trail
                        BY <1>4, <4>1
                    <5>2. k - 1 = j
                        BY DEF j
                    <5>3. text[k] = Trail => text[j] = Lead
                        BY <1>4, <5>2
                    <5> QED
                        BY <5>1, <5>3
                <4>4. CASE text[k] = Trail
                    <5>1. PICK a : IsText(a) /\ f[j] = a \o <<Lead>>
                        BY <4>2, <4>3, <4>4
                    <5>2. s[k] = <<Trail>>
                        BY <1>3, <4>4 DEF Solid
                    <5>3. f[k] = a \o (<<Lead>> \o <<Trail>>)
                        <6>1. (a \o <<Lead>>) \o <<Trail>> = a \o (<<Lead>> \o <<Trail>>)
                            <7>1. IsSeq(a) /\ IsSeq(<<Lead>>) /\ IsSeq(<<Trail>>)
                                BY <5>1, TextIs, OneText
                            <7> QED
                                BY <7>1, Associative
                        <6> QED
                            BY <4>1, <5>1, <5>2, <6>1
                    <5>4. IsText(<<Lead>> \o <<Trail>>)
                        BY WholeCharacter
                    <5>5. IsText(f[k])
                        BY <5>1, <5>3, <5>4, TextAppend
                    <5>6. Whole(k) /\ Half(k)
                        BY <4>4, <5>5, CharacterAssumption
                    <5> HIDE DEF Whole, Half
                    <5> QED
                        BY <1>1, <5>6
                <4>5. CASE text[k] # Trail
                    <5>1. IsText(f[j])
                        BY <4>2, <4>3, <4>5
                    <5>2. CASE text[k] = Lead
                        <6>1. s[k] = <<Lead>>
                            BY <1>3, <5>2 DEF Solid
                        <6>2. Whole(k) /\ Half(k)
                            BY <4>1, <5>1, <5>2, <6>1
                        <6> HIDE DEF Whole, Half
                        <6> QED
                            BY <1>1, <6>2
                    <5>3. CASE text[k] # Lead
                        <6>1. IsText(s[k])
                            BY <1>3, <4>5, <5>3 DEF Solid
                        <6>2. IsText(f[k])
                            BY <4>1, <5>1, <6>1, TextAppend
                        <6>3. Whole(k) /\ Half(k)
                            BY <5>3, <6>2
                        <6> HIDE DEF Whole, Half
                        <6> QED
                            BY <1>1, <6>3
                    <5> QED
                        BY <5>2, <5>3
                <4> QED
                    BY <4>4, <4>5
            <3> QED
                BY <3>1, <3>2
        <2>3. 0 \in T
            BY <1>1
        <2> HIDE DEF T
        <2>4. n \in T
            BY <1>1, <2>2, <2>3, LeastFailure DEF T
        <2>5. n \in 1..n /\ text[n] # Lead
            <3>1. n \in 1..n
                BY <1>1, <1>7
            <3>2. text[n] = Lead => n < n
                BY <1>4, <3>1
            <3> QED
                BY <1>1, <3>1, <3>2
        <2>6. IsText(f[n])
            BY <2>4, <2>5 DEF T
        <2> QED
            BY <1>5, <2>1, <2>6
    <1> QED
        BY <1>6, <1>7

(* Words whose parts are texts.                                            *)
TextWord(w) == IsSeq(w.parts) /\ \A i \in DOMAIN w.parts : IsText(w.parts[i].text)

(* They expand to texts.                                                   *)
LEMMA ExpandWordText ==
    ASSUME NEW word, TextWord(word), NEW view, TextView(view), NEW cwd \in Seq(Names)
    PROVE  IsText(ExpandWord(word, view, cwd))
    <1> DEFINE s == [i \in DOMAIN word.parts |->
                       IF word.parts[i].expands THEN Expand(word.parts[i].text, view, cwd)
                       ELSE word.parts[i].text]
    <1>1. IsSeq(s) /\ DOMAIN s = DOMAIN word.parts
        BY ListingOver DEF TextWord
    <1>2. ASSUME NEW i \in DOMAIN s PROVE IsText(s[i])
        <2>1. IsText(word.parts[i].text)
            BY <1>1 DEF TextWord
        <2>2. s[i] = Expand(word.parts[i].text, view, cwd) \/ s[i] = word.parts[i].text
            BY <1>1
        <2> QED
            BY <2>1, <2>2, ExpandText
    <1>3. ExpandWord(word, view, cwd) = FlattenSeq(s)
        BY DEF ExpandWord
    <1> HIDE DEF s
    <1> QED
        BY <1>1, <1>2, <1>3, FlattenTexts

-----------------------------------------------------------------------------
(* Protected values.                                                       *)

(* Redaction takes the secret out and leaves characters as they are.       *)
LEMMA RedactClean == \A text : ~Protected(Redact(text))
    BY SymbolAssumption DEF Protected, Redact, Range

(* What is left is a text.                                                 *)
LEMMA RedactText ==
    ASSUME NEW text, IsText(text)
    PROVE  IsText(Redact(text))
    <1> DEFINE r == Redact(text)
    <1>1. IsSeq(text) /\ Decodable(text)
        BY TextIs
    <1>2. IsSeq(r) /\ Len(r) = Len(text) /\ DOMAIN r = DOMAIN text
        BY <1>1, ListingOver DEF Redact
    <1>3. \A i \in DOMAIN r : r[i] = IF text[i] = Secret THEN Mark ELSE text[i]
        BY <1>2 DEF Redact
    <1> HIDE DEF r
    <1>4. Solid(Secret) /\ Solid(Mark)
        BY SolidSymbols DEF Literals
    <1>5. \A i \in DOMAIN r : (r[i] = Lead <=> text[i] = Lead) /\ (r[i] = Trail <=> text[i] = Trail)
        BY <1>3, <1>4 DEF Solid
    <1>6. DOMAIN r = 1..Len(r) /\ Len(r) \in Nat
        BY <1>2, SeqFacts
    <1>7. ASSUME NEW i \in DOMAIN r, r[i] = Lead PROVE i < Len(r) /\ r[i + 1] = Trail
        <2>1. i < Len(r) /\ text[i + 1] = Trail
            BY <1>1, <1>2, <1>5, <1>7 DEF Decodable
        <2>2. i + 1 \in DOMAIN r
            BY <1>6, <2>1
        <2> QED
            BY <1>5, <2>1, <2>2
    <1>8. ASSUME NEW i \in DOMAIN r, r[i] = Trail PROVE i > 1 /\ r[i - 1] = Lead
        <2>1. i > 1 /\ text[i - 1] = Lead
            BY <1>1, <1>2, <1>5, <1>8 DEF Decodable
        <2>2. i - 1 \in DOMAIN r
            BY <1>6, <2>1
        <2> QED
            BY <1>5, <2>1, <2>2
    <1>9. IsText(r)
        BY <1>2, <1>7, <1>8, TextIs DEF Decodable
    <1> QED
        BY <1>9 DEF r

(* The elements of a sequence made of two.                                 *)
LEMMA JoinedRange ==
    ASSUME NEW s, NEW u, IsSeq(s), IsSeq(u)
    PROVE  Range(s \o u) = Range(s) \cup Range(u)
    <1> DEFINE r == s \o u
    <1>1. Joins(s, u, r)
        BY DEF Joins
    <1>2. Len(s) \in Nat /\ Len(u) \in Nat /\ DOMAIN s = 1..Len(s) /\ DOMAIN u = 1..Len(u)
        BY SeqFacts
    <1> HIDE DEF r
    <1>3. /\ IsSeq(r) /\ Len(r) = Len(s) + Len(u)
          /\ \A i \in 1..Len(s) : r[i] = s[i]
          /\ \A i \in 1..Len(u) : r[Len(s) + i] = u[i]
        BY <1>1, Joined
    <1>4. DOMAIN r = 1..(Len(s) + Len(u))
        BY <1>3, SeqFacts
    <1>5. ASSUME NEW x \in Range(s) PROVE x \in Range(r)
        <2>1. PICK i \in 1..Len(s) : s[i] = x
            BY <1>2 DEF Range
        <2>2. i \in DOMAIN r /\ r[i] = x
            BY <1>2, <1>3, <1>4, <2>1
        <2> QED
            BY <2>2 DEF Range
    <1>6. ASSUME NEW x \in Range(u) PROVE x \in Range(r)
        <2>1. PICK i \in 1..Len(u) : u[i] = x
            BY <1>2 DEF Range
        <2>2. Len(s) + i \in DOMAIN r /\ r[Len(s) + i] = x
            BY <1>2, <1>3, <1>4, <2>1
        <2> QED
            BY <2>2 DEF Range
    <1>7. ASSUME NEW x \in Range(r) PROVE x \in Range(s) \cup Range(u)
        <2>1. PICK i \in 1..(Len(s) + Len(u)) : r[i] = x
            BY <1>4 DEF Range
        <2>2. CASE i \in 1..Len(s)
            BY <1>2, <1>3, <2>1, <2>2 DEF Range
        <2>3. CASE i \notin 1..Len(s)
            <3> DEFINE j == i - Len(s)
            <3>1. j \in 1..Len(u) /\ i = Len(s) + j
                BY <1>2, <2>3
            <3> HIDE DEF j
            <3>2. x = u[j]
                BY <1>3, <2>1, <3>1
            <3> QED
                BY <1>2, <3>1, <3>2 DEF Range
        <2> QED
            BY <2>2, <2>3
    <1>8. Range(r) = Range(s) \cup Range(u)
        BY <1>5, <1>6, <1>7
    <1> QED
        BY <1>8 DEF r

(* Neither part shows the secret when the whole does not.                  *)
LEMMA CleanAppend ==
    ASSUME NEW s, NEW u, IsSeq(s), IsSeq(u)
    PROVE  Protected(s \o u) <=> Protected(s) \/ Protected(u)
    BY JoinedRange DEF Protected

-----------------------------------------------------------------------------
(* Paths.                                                                  *)

(* What is chosen of a sequence comes from it.                             *)
LEMMA ChosenOver ==
    ASSUME NEW s, IsSeq(s), NEW indices
    PROVE  /\ IsSeq(Chosen(s, indices)) /\ Chosen(s, indices) \in Seq(Range(s))
           /\ \A i \in DOMAIN Chosen(s, indices) : \E j \in DOMAIN s : Chosen(s, indices)[i] = s[j]
    <1> DEFINE r == [i \in DOMAIN s |-> IF i \in indices THEN <<s[i]>> ELSE <<>>]
    <1>1. IsSeq(r) /\ DOMAIN r = DOMAIN s
        BY ListingOver
    <1>2. \A i \in DOMAIN r : r[i] \in Seq(Range(s))
        <2> SUFFICES ASSUME NEW i \in DOMAIN s PROVE r[i] \in Seq(Range(s))
            BY <1>1
        <2> DEFINE S == Range(s)
                   x == s[i]
        <2>1. x \in S
            BY DEF Range
        <2> HIDE DEF S, x
        <2>2. <<x>> \in Seq(S) /\ <<>> \in Seq(S)
            BY <2>1
        <2>3. r[i] = <<x>> \/ r[i] = <<>>
            BY DEF x
        <2> HIDE DEF r
        <2> QED
            BY <2>2, <2>3 DEF S
    <1>3. Chosen(s, indices) = FlattenSeq(r)
        BY DEF Chosen
    <1> HIDE DEF r
    <1>4. Chosen(s, indices) \in Seq(Range(s))
        BY <1>1, <1>2, <1>3, FlattenOver
    <1> DEFINE c == Chosen(s, indices)
               S == Range(s)
    <1>5. c \in Seq(S)
        BY <1>4
    <1> HIDE DEF c, S
    <1>6. IsSeq(c) /\ \A i \in DOMAIN c : c[i] \in S
        BY <1>5, SeqIs
    <1> QED
        BY <1>4, <1>6 DEF c, S, Range

(* The path that an operand names is one of names, and shows what the      *)
(* operand or the directory showed.                                        *)
LEMMA PathFacts ==
    ASSUME NEW text, IsSeq(text), NEW cwd \in Seq(Names), Resolves(text, cwd)
    PROVE  /\ PathOf(text, cwd) \in Seq(Names)
           /\ ~Protected(text) /\ ~Protected(cwd) => ~Protected(PathOf(text, cwd))
    <1> DEFINE s == Segments(text)
    <1>1. IsSeq(s) /\ \A i \in DOMAIN s : \E j \in DOMAIN text : s[i] = text[j]
        <2> DEFINE kept == {i \in DOMAIN text : text[i] \notin {"/", "."}}
        <2>1. s = Chosen(text, kept)
            BY DEF Segments
        <2> HIDE DEF kept, s
        <2>2. /\ IsSeq(Chosen(text, kept))
              /\ \A i \in DOMAIN Chosen(text, kept) : \E j \in DOMAIN text :
                    Chosen(text, kept)[i] = text[j]
            BY ChosenOver
        <2> QED
            BY <2>1, <2>2
    <1>2. \A i \in DOMAIN s : s[i] \in Names
        BY DEF Resolves, Range
    <1>3. Protected(s) => Protected(text)
        BY <1>1 DEF Protected, Range
    <1>4. PathOf(text, cwd) = s \/ PathOf(text, cwd) = cwd \o s
        BY DEF PathOf
    <1> HIDE DEF s
    <1>5. s \in Seq(Names)
        BY <1>1, <1>2, SeqOver
    <1>6. cwd \o s \in Seq(Names) /\ IsSeq(cwd)
        BY <1>5, SeqIs
    <1>7. Protected(cwd \o s) <=> Protected(cwd) \/ Protected(s)
        BY <1>1, <1>6, CleanAppend
    <1> QED
        BY <1>3, <1>4, <1>5, <1>6, <1>7

-----------------------------------------------------------------------------
(* Sequences in order.                                                     *)

(* Some positions of a sequence.                                           *)
LEMMA PositionCount ==
    ASSUME NEW s, IsSeq(s), NEW K \in SUBSET DOMAIN s
    PROVE  Cardinality(K) + 1 \in 1..(Len(s) + 1)
    <1>1. Len(s) \in Nat /\ DOMAIN s = 1..Len(s)
        BY SeqFacts
    <1> DEFINE D == 1..Len(s)
    <1>2. IsFiniteSet(D) /\ Cardinality(D) = Len(s)
        BY <1>1, FS_Interval
    <1>3. K \in SUBSET D
        BY <1>1
    <1> HIDE DEF D
    <1>4. IsFiniteSet(K) /\ Cardinality(K) <= Cardinality(D)
        BY <1>2, <1>3, FS_Subset
    <1>5. Cardinality(K) \in Nat
        BY <1>4, FS_CardinalityType
    <1> QED
        BY <1>1, <1>2, <1>4, <1>5

(* An element more.                                                        *)
LEMMA InsertOver ==
    ASSUME NEW S, NEW s \in Seq(S), NEW x \in S, NEW i \in 1..(Len(s) + 1)
    PROVE  InsertAt(s, i, x) \in Seq(S) /\ InsertAt(s, i, x) # <<>>
    <1>1. Len(s) \in Nat
        OBVIOUS
    <1>2. SubSeq(s, 1, i - 1) \in Seq(S)
        BY <1>1
    <1>3. SubSeq(s, i, Len(s)) \in Seq(S)
        BY <1>1
    <1>4. <<x>> \in Seq(S)
        OBVIOUS
    <1> DEFINE a == SubSeq(s, 1, i - 1)
               b == SubSeq(s, i, Len(s))
               c == <<x>>
    <1>5. a \in Seq(S) /\ b \in Seq(S) /\ c \in Seq(S)
        BY <1>2, <1>3, <1>4
    <1> HIDE DEF a, b, c
    <1>6. a \o c \o b \in Seq(S)
        BY <1>5
    <1>7. Len(c) = 1
        BY DEF c
    <1>8. IsSeq(a) /\ IsSeq(b) /\ IsSeq(c) /\ Len(a) \in Nat /\ Len(b) \in Nat
        BY <1>5, SeqIs
    <1> DEFINE ac == a \o c
               all == ac \o b
    <1>9. IsSeq(ac) /\ Len(ac) = Len(a) + Len(c)
        BY <1>8, Concatenation
    <1> HIDE DEF ac
    <1>10. IsSeq(all) /\ Len(all) = Len(ac) + Len(b)
        BY <1>8, <1>9, Concatenation
    <1>11. all = a \o c \o b
        BY DEF ac
    <1> HIDE DEF all
    <1>12. all # <<>>
        <2>1. Len(all) # 0
            BY <1>7, <1>8, <1>9, <1>10
        <2> QED
            BY <1>10, <2>1, SeqFacts
    <1> QED
        BY <1>6, <1>11, <1>12 DEF InsertAt, a, b, c

(* A text among others.                                                    *)
LEMMA PlacedOver ==
    ASSUME NEW S, NEW s \in Seq(S), NEW x \in S
    PROVE  Placed(s, x) \in Seq(S) /\ Placed(s, x) # <<>>
    <1> DEFINE K == {i \in DOMAIN s : Before(s[i], x)}
    <1>1. IsSeq(s) /\ K \in SUBSET DOMAIN s
        BY SeqIs
    <1>2. Placed(s, x) = InsertAt(s, Cardinality(K) + 1, x)
        BY DEF Placed
    <1> HIDE DEF K
    <1>3. Cardinality(K) + 1 \in 1..(Len(s) + 1)
        BY <1>1, PositionCount
    <1> QED
        BY <1>2, <1>3, InsertOver

(* A line among others.                                                    *)
LEMMA InsertedOver ==
    ASSUME NEW S, NEW s \in Seq(S), NEW x \in S, NEW flags
    PROVE  Inserted(s, x, flags) \in Seq(S)
    <1> DEFINE K == {i \in DOMAIN s : ~Ahead(x, s[i], flags)}
    <1>1. IsSeq(s) /\ K \in SUBSET DOMAIN s
        BY SeqIs
    <1>2. Inserted(s, x, flags) = s \/ Inserted(s, x, flags) = InsertAt(s, Cardinality(K) + 1, x)
        BY Zenon DEF Inserted
    <1> HIDE DEF K
    <1>3. Cardinality(K) + 1 \in 1..(Len(s) + 1)
        BY <1>1, PositionCount
    <1> QED
        BY <1>2, <1>3, InsertOver

(* The folds that put elements in order,                                   *)
LEMMA PlacedFold ==
    ASSUME NEW elements, IsSeq(elements)
    PROVE  \E h : /\ h[0] = <<>>
                  /\ \A k \in 1..Len(elements) : h[k] = Placed(h[k - 1], elements[k])
                  /\ h[Len(elements)] = FoldLeft(Placed, <<>>, elements)
    <1> DEFINE base == <<>>
               n == Len(elements)
               p == 0
               seq == elements
               Iter(g) == g = [s \in SUBSET DOMAIN seq |-> IF s = {} THEN base
                                 ELSE Placed(g[s \ {Max(s)}], seq[Max(s)])]
               it == CHOOSE g : Iter(g)
    <1>1. FoldLeft(Placed, <<>>, elements) = it[DOMAIN seq]
        BY DEF FoldLeft, MapThenFoldSet
    <1>2. n \in Nat /\ DOMAIN seq = 1..n
        BY SeqFacts
    <1> HIDE DEF n, base, seq
    <1>3. \A g : Iter(g) <=> Iterates(g, "placed", p, base, seq, n)
        BY <1>2 DEF Iterates, Folded
    <1> HIDE DEF Iter, p
    <1>4. Iterates(it, "placed", p, base, seq, n)
        BY <1>2, <1>3, FoldExists
    <1> HIDE DEF it
    <1>5. \A s, x : Folded("placed", p, s, x) = Placed(s, x)
        BY DEF Folded, p
    <1>6. PICK h : States(h, "placed", p, base, seq, n, it)
        BY <1>2, <1>4, FoldStates
    <1>7. \A k \in 1..n : h[k] = Placed(h[k - 1], seq[k])
        BY <1>5, <1>6 DEF States
    <1> QED
        BY <1>1, <1>2, <1>6, <1>7 DEF base, n, seq, States

(* and those of sort,                                                      *)
LEMMA SortFold ==
    ASSUME NEW lines, IsSeq(lines), NEW flags
    PROVE  \E h : /\ h[0] = <<>>
                  /\ \A k \in 1..Len(lines) :
                       h[k] = Inserted(h[k - 1], WithoutLf(lines[k]), flags)
                  /\ h[Len(lines)] = Sorted(lines, flags)
    <1> DEFINE base == <<>>
               n == Len(lines)
               p == flags
               seq == lines
               Iter(g) == g = [s \in SUBSET DOMAIN seq |-> IF s = {} THEN base
                                 ELSE Inserted(g[s \ {Max(s)}], WithoutLf(seq[Max(s)]), flags)]
               it == CHOOSE g : Iter(g)
    <1>1. Sorted(lines, flags) = it[DOMAIN seq]
        BY DEF FoldLeft, MapThenFoldSet, Sorted
    <1>2. n \in Nat /\ DOMAIN seq = 1..n
        BY SeqFacts
    <1> HIDE DEF n, base, seq
    <1>3. \A g : Iter(g) <=> Iterates(g, "sorted", p, base, seq, n)
        BY <1>2 DEF Iterates, Folded
    <1> HIDE DEF Iter, p
    <1>4. Iterates(it, "sorted", p, base, seq, n)
        BY <1>2, <1>3, FoldExists
    <1> HIDE DEF it
    <1>5. \A s, x : Folded("sorted", p, s, x) = Inserted(s, WithoutLf(x), flags)
        BY DEF Folded, p
    <1>6. PICK h : States(h, "sorted", p, base, seq, n, it)
        BY <1>2, <1>4, FoldStates
    <1>7. \A k \in 1..n : h[k] = Inserted(h[k - 1], WithoutLf(seq[k]), flags)
        BY <1>5, <1>6 DEF States
    <1> QED
        BY <1>1, <1>2, <1>6, <1>7 DEF base, n, seq, States

(* put only those in order.                                                *)
LEMMA InOrderOver ==
    ASSUME NEW S, IsFiniteSet(S)
    PROVE  InOrder(S) \in Seq(S) /\ (S # {} => InOrder(S) # <<>>)
    <1> DEFINE e == SetToSeq(S)
               n == Cardinality(S)
    <1>1. n \in Nat /\ ExistsBijection(1..n, S)
        BY FS_CardinalityType
    <1>2. e \in [1..n -> S]
        <2>1. \E f \in [1..n -> S] : IsInjective(f)
            BY <1>1 DEF ExistsBijection, Bijection, Injection
        <2>2. e = CHOOSE f \in [1..n -> S] : IsInjective(f)
            BY DEF SetToSeq
        <2> HIDE DEF e, n
        <2> QED
            BY <2>1, <2>2
    <1>3. InOrder(S) = FoldLeft(Placed, <<>>, e)
        BY DEF InOrder
    <1>10. S # {} => n # 0
        BY FS_EmptySet
    <1> HIDE DEF e, n
    <1>4. e \in Seq(S) /\ Len(e) = n
        BY <1>1, <1>2
    <1>5. IsSeq(e) /\ Len(e) \in Nat /\ \A k \in 1..Len(e) : e[k] \in S
        BY <1>4, SeqIs
    <1>6. PICK h : /\ h[0] = <<>>
                   /\ \A k \in 1..Len(e) : h[k] = Placed(h[k - 1], e[k])
                   /\ h[Len(e)] = FoldLeft(Placed, <<>>, e)
        BY <1>5, PlacedFold
    <1> DEFINE m == Len(e)
               T == {k \in 0..m : h[k] \in Seq(S)}
    <1>7. 0 \in T
        <2>1. <<>> \in Seq(S)
            OBVIOUS
        <2>2. h[0] \in Seq(S)
            BY <1>6, <2>1
        <2> QED
            BY <1>5, <2>2
    <1>8. ASSUME NEW k \in 1..m, k - 1 \in T PROVE k \in T
        <2>1. h[k - 1] \in Seq(S) /\ e[k] \in S /\ h[k] = Placed(h[k - 1], e[k]) /\ k \in 0..m
            BY <1>5, <1>6, <1>8
        <2>2. h[k] \in Seq(S)
            BY <2>1, PlacedOver
        <2> QED
            BY <2>1, <2>2
    <1> HIDE DEF T
    <1>9. m \in T
        BY <1>5, <1>7, <1>8, LeastFailure DEF T
    <1>11. m # 0 => h[m] # <<>>
        <2>1. m # 0 => m \in 1..m /\ m - 1 \in 0..m
            BY <1>5
        <2>2. ASSUME m # 0 PROVE m - 1 \in T
            <3> DEFINE U == {k \in 0..(m - 1) : k \in T}
            <3>1. m - 1 \in Nat /\ 0 \in U
                BY <1>5, <1>7, <2>2
            <3>2. \A k \in 1..(m - 1) : k - 1 \in U => k \in U
                BY <1>5, <1>8
            <3> HIDE DEF U
            <3>3. U \in SUBSET (0..(m - 1))
                BY DEF U
            <3>4. m - 1 \in U
                BY <3>1, <3>2, <3>3, LeastFailure
            <3> QED
                BY <3>4 DEF U
        <2>3. m # 0 => h[m] = Placed(h[m - 1], e[m]) /\ e[m] \in S /\ h[m - 1] \in Seq(S)
            BY <1>5, <1>6, <2>1, <2>2 DEF T
        <2> HIDE DEF m
        <2> QED
            BY <2>3, PlacedOver
    <1> QED
        BY <1>3, <1>4, <1>6, <1>9, <1>10, <1>11 DEF T

(* Sorted lines come from the records.                                     *)
LEMMA SortedOver ==
    ASSUME NEW lines, IsSeq(lines), NEW flags, NEW S,
           \A i \in DOMAIN lines : WithoutLf(lines[i]) \in S
    PROVE  Sorted(lines, flags) \in Seq(S)
    <1> DEFINE m == Len(lines)
    <1>1. m \in Nat /\ DOMAIN lines = 1..m
        BY SeqFacts
    <1>2. PICK h : /\ h[0] = <<>>
                   /\ \A k \in 1..m : h[k] = Inserted(h[k - 1], WithoutLf(lines[k]), flags)
                   /\ h[m] = Sorted(lines, flags)
        BY SortFold
    <1> HIDE DEF m
    <1> DEFINE T == {k \in 0..m : h[k] \in Seq(S)}
    <1>3. 0 \in T
        <2>1. <<>> \in Seq(S)
            OBVIOUS
        <2>2. h[0] \in Seq(S)
            BY <1>2, <2>1
        <2> QED
            BY <1>1, <2>2
    <1>4. ASSUME NEW k \in 1..m, k - 1 \in T PROVE k \in T
        <2>1. /\ h[k - 1] \in Seq(S) /\ WithoutLf(lines[k]) \in S /\ k \in 0..m
              /\ h[k] = Inserted(h[k - 1], WithoutLf(lines[k]), flags)
            BY <1>1, <1>2, <1>4
        <2>2. h[k] \in Seq(S)
            BY <2>1, InsertedOver
        <2> QED
            BY <2>1, <2>2
    <1> HIDE DEF T
    <1>5. m \in T
        BY <1>1, <1>3, <1>4, LeastFailure DEF T
    <1> QED
        BY <1>2, <1>5 DEF T

-----------------------------------------------------------------------------
(* Lines of texts.                                                         *)

(* A line ends with a line feed or with the text.                          *)
LEMMA LineEndFacts ==
    ASSUME NEW text, IsSeq(text), NEW i \in DOMAIN text
    PROVE  /\ LineEnd(text, i) \in i..Len(text)
           /\ text[LineEnd(text, i)] = "LF" \/ LineEnd(text, i) = Len(text)
    <1> DEFINE n == Len(text)
               S == {j \in i..n : text[j] = "LF"} \cup {n}
    <1>1. n \in Nat /\ DOMAIN text = 1..n
        BY SeqFacts
    <1>2. LineEnd(text, i) = Min(S)
        BY DEF LineEnd
    <1> HIDE DEF n
    <1>3. S \in SUBSET (1..n) /\ S # {} /\ \A j \in S : j \in i..n /\ (text[j] = "LF" \/ j = n)
        BY <1>1
    <1> HIDE DEF S
    <1>4. Min(S) \in S
        BY <1>1, <1>3, LeastIndex
    <1> QED
        BY <1>2, <1>3, <1>4 DEF n

(* Records are texts.                                                      *)
LEMMA RecordTexts ==
    ASSUME NEW text, IsText(text)
    PROVE  IsSeq(Records(text)) /\ \A i \in DOMAIN Records(text) : IsText(Records(text)[i])
    <1> DEFINE Starts(i) == i = 1 \/ text[i - 1] = "LF"
               S == {SubSeq(text, i, LineEnd(text, i)) : i \in {j \in DOMAIN text : Starts(j)}}
               r == [i \in DOMAIN text |->
                       IF i = 1 \/ text[i - 1] = "LF" THEN <<SubSeq(text, i, LineEnd(text, i))>>
                       ELSE <<>>]
    <1>1. IsSeq(text) /\ Len(text) \in Nat /\ DOMAIN text = 1..Len(text)
        BY TextIs, SeqFacts
    <1>2. "LF" # Lead
        BY SolidSymbols DEF Literals, Solid
    <1>3. ASSUME NEW i \in DOMAIN text, Starts(i) PROVE IsText(SubSeq(text, i, LineEnd(text, i)))
        <2> DEFINE b == LineEnd(text, i)
        <2>1. b \in i..Len(text) /\ (text[b] = "LF" \/ b = Len(text))
            BY <1>1, LineEndFacts
        <2> HIDE DEF b
        <2>2. text[Len(text)] # Lead
            <3>1. text # <<>>
                BY <1>1, SeqFacts
            <3> QED
                BY <3>1, LastSolid
        <2>3. text[b] # Lead
            BY <1>2, <2>1, <2>2
        <2>4. i \in 1..(Len(text) + 1) /\ b \in 0..Len(text)
            <3>1. i \in 1..Len(text) /\ Len(text) \in Nat /\ b \in i..Len(text)
                BY <1>1, <2>1
            <3> QED
                BY <3>1
        <2>5. i = 1 \/ text[i - 1] # Lead
            BY <1>2, <1>3
        <2> QED
            BY <2>3, <2>4, <2>5, SubText DEF b
    <1>4. IsSeq(r) /\ DOMAIN r = DOMAIN text
        BY <1>1, ListingOver
    <1>5. ASSUME NEW i \in DOMAIN r PROVE r[i] \in Seq(S)
        <2> DEFINE x == SubSeq(text, i, LineEnd(text, i))
        <2>1. Starts(i) => x \in S
            BY <1>4
        <2>2. r[i] = IF Starts(i) THEN <<x>> ELSE <<>>
            BY <1>4
        <2> HIDE DEF S, x, r
        <2> QED
            BY <2>1, <2>2
    <1>6. \A x \in S : IsText(x)
        BY <1>3
    <1>7. Records(text) = FlattenSeq(r)
        BY DEF Records
    <1> HIDE DEF r, S
    <1>8. Records(text) \in Seq(S)
        BY <1>4, <1>5, <1>7, FlattenOver
    <1> DEFINE q == Records(text)
    <1>9. q \in Seq(S)
        BY <1>8
    <1> HIDE DEF q
    <1>10. IsSeq(q) /\ \A i \in DOMAIN q : IsText(q[i])
        BY <1>6, <1>9, SeqIs
    <1> QED
        BY <1>10 DEF q

(* With or without its line feed, a record is a text.                      *)
LEMMA LfTexts ==
    ASSUME NEW record, IsText(record)
    PROVE  IsText(WithoutLf(record)) /\ IsText(WithLf(record))
    <1>1. IsSeq(record) /\ Len(record) \in Nat /\ DOMAIN record = 1..Len(record)
          /\ (record = <<>> <=> Len(record) = 0) /\ Decodable(record)
        BY TextIs, SeqFacts
    <1>2. Solid("LF")
        BY SolidSymbols DEF Literals
    <1>3. CASE record # <<>> /\ record[Len(record)] = "LF"
        <2> DEFINE n == Len(record)
                   m == n - 1
        <2>1. m \in 0..n /\ 1 \in 1..(n + 1)
            BY <1>1, <1>3
        <2>2. m = 0 \/ record[m] # Lead
            <3> SUFFICES ASSUME m # 0, record[m] = Lead PROVE FALSE
                OBVIOUS
            <3>1. m \in DOMAIN record /\ m + 1 = n
                BY <1>1, <1>3
            <3> HIDE DEF m, n
            <3>2. record[m + 1] = Trail
                BY <1>1, <3>1 DEF Decodable
            <3> QED
                BY <1>2, <1>3, <3>1, <3>2 DEF Solid, n
        <2> HIDE DEF m
        <2>3. IsText(SubSeq(record, 1, m))
            <3> DEFINE a == 1
            <3>1. a \in 1..(Len(record) + 1) /\ m \in 0..Len(record) /\ a = 1
                BY <2>1
            <3> HIDE DEF a
            <3>2. IsText(SubSeq(record, a, m))
                BY <2>2, <3>1, SubText
            <3> QED
                BY <3>2 DEF a
        <2> QED
            BY <1>2, <1>3, <2>3, OneText, TextAppend DEF WithoutLf, WithLf, Front, m
    <1>4. CASE ~(record # <<>> /\ record[Len(record)] = "LF")
        <2>1. WithoutLf(record) = record
            BY <1>4 DEF WithoutLf
        <2> QED
            BY <1>2, <2>1, OneText, TextAppend DEF WithLf
    <1> QED
        BY <1>3, <1>4

(* Lines are a text.                                                       *)
LEMMA LinesText ==
    ASSUME NEW lines, IsSeq(lines), \A i \in DOMAIN lines : IsText(lines[i])
    PROVE  IsText(Lines(lines))
    <1> DEFINE r == [i \in DOMAIN lines |-> WithLf(lines[i])]
    <1>1. IsSeq(r) /\ DOMAIN r = DOMAIN lines
        BY ListingOver
    <1>2. \A i \in DOMAIN r : IsText(r[i])
        BY <1>1, LfTexts
    <1>3. Lines(lines) = FlattenSeq(r)
        BY DEF Lines
    <1> HIDE DEF r
    <1> QED
        BY <1>1, <1>2, <1>3, FlattenTexts

(* So are the first and the last ones.                                     *)
LEMMA PortionText ==
    ASSUME NEW text, IsText(text), NEW count \in Nat, NEW fromEnd
    PROVE  IsText(Portion(text, count, fromEnd))
    <1> DEFINE all == Records(text)
               n == Min({count, Len(all)})
               s == IF fromEnd THEN SubSeq(all, Len(all) - n + 1, Len(all)) ELSE SubSeq(all, 1, n)
    <1>1. Portion(text, count, fromEnd) = FlattenSeq(s)
        BY DEF Portion
    <1>2. IsSeq(all) /\ \A i \in DOMAIN all : IsText(all[i])
        BY RecordTexts
    <1> HIDE DEF all
    <1>3. Len(all) \in Nat /\ DOMAIN all = 1..Len(all)
        BY <1>2, SeqFacts
    <1>4. n \in 0..Len(all)
        <2> DEFINE m == Len(all)
        <2>1. Min({count, m}) \in 0..m
            <3>1. m \in Nat
                BY <1>3
            <3> HIDE DEF m
            <3> QED
                BY <3>1 DEF Min
        <2> QED
            BY <2>1
    <1> HIDE DEF n
    <1>5. \E a \in 1..(Len(all) + 1), b \in 0..Len(all) : s = SubSeq(all, a, b)
        <2>1. /\ 1 \in 1..(Len(all) + 1) /\ Len(all) \in 0..Len(all)
              /\ Len(all) - n + 1 \in 1..(Len(all) + 1)
            BY <1>3, <1>4
        <2> QED
            BY <1>4, <2>1
    <1>6. PICK a \in 1..(Len(all) + 1), b \in 0..Len(all) : s = SubSeq(all, a, b)
        BY <1>5
    <1> HIDE DEF s
    <1>7. IsSeq(s) /\ \A i \in 1..Len(s) : s[i] = all[a + i - 1] /\ a + i - 1 \in 1..Len(all)
        BY <1>2, <1>6, SubSeqFacts
    <1>8. \A i \in DOMAIN s : IsText(s[i])
        BY <1>2, <1>3, <1>7, SeqFacts
    <1> QED
        BY <1>1, <1>7, <1>8, FlattenTexts

(* A number is written with one symbol.                                    *)
LEMMA NumeralText == \A n : Solid(Numeral(n)) /\ IsText(<<Numeral(n)>>)
    <1> TAKE n
    <1>1. n \in Range(Number) => \E x \in DOMAIN Number : Number[x] = n
        BY DEF Range
    <1>2. Numeral(n) = Many \/ Numeral(n) \in DOMAIN Number
        BY <1>1 DEF Numeral
    <1> QED
        BY <1>2, OneText, SolidSymbols DEF Literals

-----------------------------------------------------------------------------
(* The tree that commands read.                                            *)

(* A finite tree of names that does not show the secret.                   *)
Tidy(t) ==
    /\ IsFiniteSet(DOMAIN t)
    /\ \A p \in DOMAIN t : /\ p \in Seq(Names) /\ ~Protected(p)
                           /\ t[p] # Dir => IsSeq(t[p]) /\ ~Protected(t[p])

(* What a command is given besides its arguments.                          *)
Listable(env) == IsFiniteSet(DOMAIN env) /\ {Lead, Trail} \cap DOMAIN env = {}
GoodContext(ctx) ==
    /\ ctx.cwd \in Seq(Names) /\ ~Protected(ctx.cwd)
    /\ TextView(ctx.view) /\ IsText(ctx.stdin)
    /\ Listable(ctx.view.base) /\ Listable(ctx.view.overlay)

(* What is below a path ends with names.                                   *)
LEMMA RestPath ==
    ASSUME NEW p \in Seq(Names), NEW q \in Seq(Names), IsPrefix(p, q)
    PROVE  Rest(p, q) \in Seq(Names) /\ IsText(Rest(p, q))
    <1>1. Len(p) \in Nat /\ Len(q) \in Nat /\ Len(p) <= Len(q)
        BY DEF IsPrefix
    <1>2. Rest(p, q) \in Seq(Names)
        BY <1>1 DEF Rest
    <1> QED
        BY <1>2, PathTexts

(* A walk visits what is there.                                            *)
LEMMA WalkFacts ==
    ASSUME NEW t, Tidy(t), NEW p, NEW depth
    PROVE  /\ IsSeq(Walk(t, p, depth))
           /\ \A i \in DOMAIN Walk(t, p, depth) :
                 Walk(t, p, depth)[i] \in Subtree(t, p) /\ Walk(t, p, depth)[i] \in Seq(Names)
           /\ p \in DOMAIN t /\ depth \in Nat => Walk(t, p, depth) # <<>>
    <1> DEFINE S == {q \in Subtree(t, p) : Len(q) - Len(p) <= depth}
               w == Walk(t, p, depth)
    <1>1. S \in SUBSET DOMAIN t
        BY DEF Subtree
    <1>2. IsFiniteSet(S)
        BY <1>1, FS_Subset DEF Tidy
    <1>3. \A q \in S : q \in Subtree(t, p) /\ q \in Seq(Names)
        BY <1>1 DEF Tidy
    <1>4. w = InOrder(S)
        BY DEF Walk
    <1>7. p \in DOMAIN t /\ depth \in Nat => S # {}
        <2> SUFFICES ASSUME p \in DOMAIN t, depth \in Nat PROVE S # {}
            OBVIOUS
        <2>1. p \in Seq(Names) /\ Len(p) \in Nat
            BY DEF Tidy
        <2>2. p \in Subtree(t, p)
            BY <2>1 DEF Subtree, IsPrefix
        <2>3. Len(p) - Len(p) <= depth
            BY <2>1
        <2> QED
            BY <2>2, <2>3
    <1> HIDE DEF S, w
    <1>5. w \in Seq(S) /\ (S # {} => w # <<>>)
        BY <1>2, <1>4, InOrderOver
    <1>6. IsSeq(w) /\ \A i \in DOMAIN w : w[i] \in S
        BY <1>5, SeqIs
    <1> QED
        BY <1>3, <1>5, <1>6, <1>7 DEF w

(* What find and grep call it.                                             *)
LEMMA DisplayText ==
    ASSUME NEW operand, IsText(operand), NEW root \in Seq(Names), NEW path \in Seq(Names),
           IsPrefix(root, path)
    PROVE  IsText(DisplayPath(operand, root, path))
    <1>1. IsText(Rest(root, path)) /\ IsText(PathText(root))
        BY RestPath, PathTexts
    <1> QED
        BY <1>1, TextAppend DEF DisplayPath

(* What is read is a text.                                                 *)
LEMMA ReadTextFacts ==
    ASSUME NEW t, Tidy(t), NEW operand, NEW ctx, GoodContext(ctx), ReadText(t, operand, ctx).ok
    PROVE  IsText(ReadText(t, operand, ctx).text)
    <1> DEFINE p == PathOf(operand, ctx.cwd)
               r == ReadText(t, operand, ctx)
    <1>1. r = IF operand = <<"-">> THEN [ok |-> TRUE, text |-> ctx.stdin]
              ELSE IF Protected(operand) THEN Fail("protected")
              ELSE IF Resolves(operand, ctx.cwd) /\ IsFile(t, p) /\ Decodable(t[p]) THEN
                    [ok |-> TRUE, text |-> t[p]]
              ELSE Fail("workspace")
        BY DEF ReadText
    <1>2. IsFile(t, p) /\ Decodable(t[p]) => IsText(t[p])
        BY TextIs DEF Tidy, IsFile
    <1> HIDE DEF r, p
    <1>3. r.ok
        BY DEF r
    <1>4. \/ r = [ok |-> TRUE, text |-> ctx.stdin]
          \/ IsFile(t, p) /\ Decodable(t[p]) /\ r = [ok |-> TRUE, text |-> t[p]]
        BY <1>1, <1>3 DEF Fail
    <1>5. IsText(r.text)
        BY <1>2, <1>4 DEF GoodContext
    <1> QED
        BY <1>5 DEF r

(* So are all the inputs, each with its label.                             *)
LEMMA ReadInputsFacts ==
    ASSUME NEW t, Tidy(t), NEW operands, IsSeq(operands), NEW ctx, GoodContext(ctx),
           ReadInputs(t, operands, ctx).ok
    PROVE  LET r == ReadInputs(t, operands, ctx)
           IN  /\ IsSeq(r.texts) /\ r.labels = operands
               /\ \A i \in DOMAIN r.texts : IsText(r.texts[i])
               /\ IF operands = <<>> THEN Len(r.texts) = 1 ELSE DOMAIN r.texts = DOMAIN operands
    <1> DEFINE one == [ok |-> TRUE, text |-> ctx.stdin]
               reads == IF operands = <<>> THEN <<one>>
                        ELSE [i \in DOMAIN operands |-> ReadText(t, operands[i], ctx)]
               bad == {i \in DOMAIN reads : ~reads[i].ok}
               r == ReadInputs(t, operands, ctx)
               texts == [i \in DOMAIN reads |-> reads[i].text]
    <1>1. r = IF bad = {} THEN [ok |-> TRUE, texts |-> texts, labels |-> operands]
              ELSE IF reads[Min(bad)].code = "protected" THEN [ok |-> FALSE, result |-> ProtectedValue]
              ELSE [ok |-> FALSE, result |-> Failure(<<>>)]
        BY Zenon DEF ReadInputs
    <1>2. IsSeq(reads)
        <2> HIDE DEF one
        <2>1. IsSeq(<<one>>)
            BY OneText
        <2> DEFINE many == [i \in DOMAIN operands |-> ReadText(t, operands[i], ctx)]
        <2>2. IsSeq(many)
            BY ListingOver
        <2> QED
            BY <2>1, <2>2
    <1>3. IsSeq(texts) /\ Len(texts) = Len(reads) /\ DOMAIN texts = DOMAIN reads
        <2> HIDE DEF reads
        <2> QED
            BY <1>2, ListingOver
    <1>4. IF operands = <<>> THEN Len(reads) = 1 ELSE DOMAIN reads = DOMAIN operands
        <2> HIDE DEF one
        <2> QED
            BY OneText
    <1>5. bad = {} => \A i \in DOMAIN reads : IsText(reads[i].text)
        <2> SUFFICES ASSUME bad = {}, NEW i \in DOMAIN reads PROVE IsText(reads[i].text)
            OBVIOUS
        <2>1. reads[i].ok
            OBVIOUS
        <2>2. CASE operands = <<>>
            <3> HIDE DEF one
            <3>1. reads[i] = one
                BY <2>2, OneText
            <3> QED
                BY <3>1 DEF one, GoodContext
        <2>3. CASE operands # <<>>
            <3>1. reads[i] = ReadText(t, operands[i], ctx)
                BY <2>3
            <3> HIDE DEF reads
            <3> QED
                BY <2>1, <3>1, ReadTextFacts
        <2> QED
            BY <2>2, <2>3
    <1> HIDE DEF bad
    <1>6. r.ok
        BY DEF r
    <1>7. bad = {} /\ r = [ok |-> TRUE, texts |-> texts, labels |-> operands]
        <2> HIDE DEF reads, texts, r
        <2> QED
            BY <1>1, <1>6
    <1>8. \A i \in DOMAIN texts : IsText(texts[i])
        <2> HIDE DEF reads
        <2> QED
            BY <1>5, <1>7
    <1> HIDE DEF texts, reads, r
    <1>9. r.texts = texts /\ r.labels = operands
        BY <1>7
    <1>10. /\ IsSeq(r.texts) /\ r.labels = operands
           /\ \A i \in DOMAIN r.texts : IsText(r.texts[i])
           /\ IF operands = <<>> THEN Len(r.texts) = 1 ELSE DOMAIN r.texts = DOMAIN operands
        BY <1>3, <1>4, <1>8, <1>9
    <1> QED
        BY <1>10 DEF r

-----------------------------------------------------------------------------
(* What commands answer.                                                   *)

(* A change that leaves the environment an environment of texts.           *)
GoodChange(c) == c.name \notin {Lead, Trail} /\ IsText(c.value)

(* A result whose streams are texts.                                       *)
Printed(r) ==
    /\ IsText(r.out) /\ IsText(r.err)
    /\ r.moves => r.cwd \in Seq(Names)
    /\ \A i \in DOMAIN r.changes : GoodChange(r.changes[i])

(* What a command may publish on the way.                                  *)
TidyTrees(trees) == IsSeq(trees) /\ \A i \in DOMAIN trees : Tidy(trees[i])

(* What the handler of a command promises.                                 *)
Neat(r) == Printed(r) /\ TidyTrees(r.trees)

(* Arguments.                                                              *)
TextList(args) == IsSeq(args) /\ \A i \in DOMAIN args : IsText(args[i])

(* A command that prints texts and changes nothing.                        *)
LEMMA ResultNeat ==
    ASSUME NEW exit, NEW code, NEW out, NEW err, IsText(out), IsText(err)
    PROVE  Neat(Result(exit, code, out, err))
    <1> DEFINE r == Result(exit, code, out, err)
    <1>1. r.out = out /\ r.err = err /\ r.moves = FALSE /\ r.changes = <<>> /\ r.trees = <<>>
        BY DEF Result
    <1> HIDE DEF r
    <1>2. DOMAIN r.changes = {} /\ IsSeq(r.trees) /\ DOMAIN r.trees = {}
        BY <1>1, NoElements
    <1>3. Printed(r) /\ TidyTrees(r.trees)
        BY <1>1, <1>2 DEF Printed, TidyTrees
    <1> QED
        BY <1>3 DEF r, Neat

(* The diagnostic.                                                         *)
LEMMA NoteText == IsText(Note)
    <1> DEFINE S == {"note", "LF"}
    <1>1. Note \in Seq(S)
        BY DEF Note
    <1>2. \A x \in S : Solid(x)
        BY SolidSymbols DEF Literals
    <1> HIDE DEF S
    <1>3. IsSeq(Note) /\ \A i \in DOMAIN Note : Note[i] \in S
        BY <1>1, SeqIs
    <1> QED
        BY <1>2, <1>3, SolidText

(* The results that every command builds its answer from.                  *)
LEMMA NeatResults ==
    /\ \A out : IsText(out) => Neat(Success(out)) /\ Neat(Failure(out))
    /\ Neat(Invalid) /\ Neat(ProtectedValue) /\ Neat(Failure(<<>>)) /\ Neat(Success(<<>>))
    /\ Neat(Result(1, "no_match", <<>>, <<>>))
    BY NoText, NoteText, ResultNeat DEF Success, Failure, Invalid, ProtectedValue

(* Some of the arguments are arguments.                                    *)
LEMMA SubList ==
    ASSUME NEW args, TextList(args), NEW a \in 1..(Len(args) + 1), NEW b \in 0..Len(args)
    PROVE  TextList(SubSeq(args, a, b))
    <1> DEFINE s == SubSeq(args, a, b)
    <1>1. IsSeq(args) /\ DOMAIN args = 1..Len(args)
        BY SeqFacts DEF TextList
    <1>2. IsSeq(s) /\ \A i \in 1..Len(s) : s[i] = args[a + i - 1] /\ a + i - 1 \in 1..Len(args)
        BY <1>1, SubSeqFacts
    <1> HIDE DEF s
    <1>3. DOMAIN s = 1..Len(s)
        BY <1>2, SeqFacts
    <1>4. TextList(s)
        BY <1>1, <1>2, <1>3 DEF TextList
    <1> QED
        BY <1>4 DEF s

(* All but the first, all but the last, one of them.                       *)
LEMMA PartsOfList ==
    ASSUME NEW args, TextList(args), args # <<>>
    PROVE  TextList(Tail(args)) /\ TextList(Front(args)) /\ IsText(args[1]) /\ IsText(args[Len(args)])
    <1>1. IsSeq(args) /\ DOMAIN args = 1..Len(args) /\ Len(args) \in Nat /\ Len(args) # 0
        BY SeqFacts DEF TextList
    <1>2. 1 \in DOMAIN args /\ Len(args) \in DOMAIN args
        BY <1>1
    <1>3. Tail(args) = SubSeq(args, 2, Len(args))
        <2>1. args \in Seq(ToSet(args))
            BY <1>1 DEF IsSeq
        <2> DEFINE S == ToSet(args)
        <2> HIDE DEF S
        <2>2. args \in Seq(S)
            BY <2>1 DEF S
        <2> QED
            BY <1>1, <2>2
    <1>4. Front(args) = SubSeq(args, 1, Len(args) - 1)
        BY DEF Front
    <1>5. /\ 1 \in 1..(Len(args) + 1) /\ 2 \in 1..(Len(args) + 1)
          /\ Len(args) \in 0..Len(args) /\ Len(args) - 1 \in 0..Len(args)
        BY <1>1
    <1>6. TextList(SubSeq(args, 2, Len(args))) /\ TextList(SubSeq(args, 1, Len(args) - 1))
        BY <1>5, SubList
    <1> QED
        BY <1>2, <1>3, <1>4, <1>6 DEF TextList

(* Operands after "--".                                                    *)
LEMMA OperandList ==
    ASSUME NEW args, TextList(args)
    PROVE  TextList(WithoutDashes(args))
    BY PartsOfList DEF WithoutDashes

(* Operands after the options.                                             *)
LEMMA OptionsList ==
    ASSUME NEW args, TextList(args), NEW known, NEW reads
    PROVE  TextList(Options(args, known, reads).operands)
    <1> DEFINE IsOption(i) == Dashed(args[i]) /\ ~(reads /\ args[i] = <<"-">>)
               ends == {i \in DOMAIN args : ~IsOption(i) \/ args[i] = <<"--">>}
               n == IF ends = {} THEN Len(args) ELSE Min(ends) - 1
               after == SubSeq(args, n + 1, Len(args))
    <1>1. Options(args, known, reads).operands = WithoutDashes(after)
        BY DEF Options
    <1>2. Len(args) \in Nat /\ DOMAIN args = 1..Len(args)
        BY SeqFacts DEF TextList
    <1>3. ends \in SUBSET (1..Len(args))
        BY <1>2
    <1> HIDE DEF ends
    <1>4. n + 1 \in 1..(Len(args) + 1) /\ Len(args) \in 0..Len(args)
        BY <1>2, <1>3, LeastIndex
    <1> HIDE DEF n
    <1>5. TextList(after)
        BY <1>4, SubList
    <1> HIDE DEF after
    <1> QED
        BY <1>1, <1>5, OperandList

(* One word.                                                               *)
LEMMA OneWord ==
    ASSUME NEW x, IsText(x)
    PROVE  TextList(<<x>>)
    BY OneText DEF TextList

(* pwd.                                                                    *)
LEMMA PwdNeat ==
    ASSUME NEW args, NEW ctx, GoodContext(ctx), NEW t
    PROVE  Neat(Pwd(args, ctx, t))
    <1>1. IsText(PathText(ctx.cwd)) /\ IsText(<<"LF">>)
        BY PathTexts, OneText, SolidSymbols DEF GoodContext, Literals
    <1>2. IsText(PathText(ctx.cwd) \o <<"LF">>)
        BY <1>1, TextAppend
    <1> QED
        BY <1>2, NeatResults, Zenon DEF Pwd

(* cd moves to a path of names.                                            *)
LEMMA CdNeat ==
    ASSUME NEW args, TextList(args), NEW ctx, GoodContext(ctx), NEW t
    PROVE  Neat(Cd(args, ctx, t))
    <1> DEFINE rest == WithoutDashes(args)
               p == PathOf(rest[1], ctx.cwd)
               moved == [Success(<<>>) EXCEPT !.moves = TRUE, !.cwd = p]
    <1>1. \/ Cd(args, ctx, t) \in {Invalid, ProtectedValue, Failure(<<>>)}
          \/ Len(rest) = 1 /\ Resolves(rest[1], ctx.cwd) /\ Cd(args, ctx, t) = moved
        BY DEF Cd
    <1>2. TextList(rest)
        BY OperandList
    <1> HIDE DEF rest
    <1>3. Len(rest) = 1 => IsText(rest[1])
        BY <1>2, SeqFacts DEF TextList
    <1>4. Len(rest) = 1 /\ Resolves(rest[1], ctx.cwd) => p \in Seq(Names)
        BY <1>3, TextIs, PathFacts DEF GoodContext
    <1> HIDE DEF p
    <1>5. p \in Seq(Names) => Neat(moved)
        <2>1. /\ moved.out = Success(<<>>).out /\ moved.err = Success(<<>>).err /\ moved.cwd = p
              /\ moved.changes = Success(<<>>).changes /\ moved.trees = Success(<<>>).trees
            BY DEF Success, Result
        <2>2. Neat(Success(<<>>))
            BY NeatResults
        <2> HIDE DEF moved
        <2> QED
            BY <2>1, <2>2 DEF Neat, Printed
    <1> HIDE DEF moved
    <1>6. CASE Cd(args, ctx, t) \in {Invalid, ProtectedValue, Failure(<<>>)}
        BY <1>6, NeatResults
    <1> QED
        BY <1>1, <1>4, <1>5, <1>6

(* echo.                                                                   *)
LEMMA EchoNeat ==
    ASSUME NEW args, TextList(args), NEW ctx, NEW t
    PROVE  Neat(Echo(args, ctx, t))
    <1> DEFINE bare == args # <<>> /\ args[1] = <<"-n">>
               words == IF bare THEN Tail(args) ELSE args
               pieces == [i \in DOMAIN words |-> IF i = 1 THEN words[i] ELSE <<" ">> \o words[i]]
               end == IF bare THEN <<>> ELSE <<"LF">>
    <1>1. Echo(args, ctx, t) \in {Invalid, Success(FlattenSeq(pieces) \o end)}
        BY Zenon DEF Echo
    <1>2. TextList(words)
        BY PartsOfList
    <1>3. IsText(end) /\ IsText(<<" ">>)
        BY NoText, OneText, SolidSymbols DEF Literals
    <1> HIDE DEF words, end
    <1>4. \A i \in DOMAIN words : IsText(words[i]) /\ IsText(<<" ">> \o words[i])
        BY <1>2, <1>3, TextAppend DEF TextList
    <1>5. IsSeq(words) /\ IsSeq(pieces) /\ DOMAIN pieces = DOMAIN words
        BY <1>2, ListingOver DEF TextList
    <1>6. \A i \in DOMAIN pieces : IsText(pieces[i])
        BY <1>4
    <1> HIDE DEF pieces
    <1>7. IsText(FlattenSeq(pieces) \o end)
        BY <1>3, <1>5, <1>6, FlattenTexts, TextAppend
    <1> QED
        BY <1>1, <1>7, NeatResults, Zenon

(* What _read_inputs refuses with.                                         *)
LEMMA RefusedInputs ==
    ASSUME NEW t, NEW operands, NEW ctx, NEW r, r = ReadInputs(t, operands, ctx), ~r.ok
    PROVE  Neat(r.result)
    <1> DEFINE reads == IF operands = <<>> THEN <<[ok |-> TRUE, text |-> ctx.stdin]>>
                        ELSE [i \in DOMAIN operands |-> ReadText(t, operands[i], ctx)]
               bad == {i \in DOMAIN reads : ~reads[i].ok}
    <1>1. r = IF bad = {} THEN [ok |-> TRUE, texts |-> [i \in DOMAIN reads |-> reads[i].text],
                              labels |-> operands]
              ELSE IF reads[Min(bad)].code = "protected" THEN [ok |-> FALSE, result |-> ProtectedValue]
              ELSE [ok |-> FALSE, result |-> Failure(<<>>)]
        BY Zenon DEF ReadInputs
    <1> HIDE DEF reads, bad
    <1>2. \/ r.ok
          \/ r = [ok |-> FALSE, result |-> ProtectedValue]
          \/ r = [ok |-> FALSE, result |-> Failure(<<>>)]
        BY <1>1
    <1> QED
        BY <1>2, NeatResults

(* What it gives a command.                                                *)
LEMMA InputFacts ==
    ASSUME NEW t, Tidy(t), NEW operands, TextList(operands), NEW ctx, GoodContext(ctx),
           NEW r, r = ReadInputs(t, operands, ctx), r.ok
    PROVE  /\ TextList(r.texts) /\ r.labels = operands
           /\ operands = <<>> => Len(r.texts) = 1
           /\ operands # <<>> => DOMAIN r.texts = DOMAIN operands
    <1>1. IsSeq(operands)
        BY DEF TextList
    <1> QED
        BY <1>1, ReadInputsFacts DEF TextList

(* The count and the operands of head and tail.                            *)
LEMMA CountFacts ==
    ASSUME NEW args, TextList(args), ParseCount(args).ok
    PROVE  ParseCount(args).count \in Nat /\ TextList(ParseCount(args).operands)
    <1> DEFINE o == ParseCount(args)
               spaced == args # <<>> /\ args[1] = <<"-n">>
               glued == args # <<>> /\ args[1] # <<>> /\ args[1][1] \in DOMAIN Counts
               rest == IF spaced THEN SubSeq(args, 3, Len(args)) ELSE IF glued THEN Tail(args) ELSE args
               counted == spaced /\ Len(args) > 1 /\ args[2] # <<>> /\ args[2][1] \in DOMAIN Number
    <1>1. /\ o.ok => (spaced => counted)
          /\ o.count = IF counted THEN Number[args[2][1]] ELSE IF glued THEN Counts[args[1][1]] ELSE 10
          /\ o.operands = WithoutDashes(rest)
        BY DEF ParseCount
    <1>2. o.ok
        OBVIOUS
    <1> HIDE DEF o
    <1>3. /\ counted => Number[args[2][1]] \in Range(Number)
          /\ glued => Counts[args[1][1]] \in Range(Counts)
        BY DEF Range
    <1>4. o.count \in Nat
        BY <1>1, <1>3, SymbolAssumption
    <1>5. Len(args) \in Nat
        BY SeqFacts DEF TextList
    <1>6. TextList(rest)
        <2>1. CASE spaced
            <3>1. 3 \in 1..(Len(args) + 1) /\ Len(args) \in 0..Len(args)
                BY <1>1, <1>2, <1>5, <2>1
            <3> QED
                BY <2>1, <3>1, SubList
        <2>2. CASE ~spaced
            BY <2>2, PartsOfList
        <2> QED
            BY <2>1, <2>2
    <1> HIDE DEF rest
    <1>7. o.count \in Nat /\ TextList(o.operands)
        BY <1>1, <1>4, <1>6, OperandList
    <1> QED
        BY <1>7 DEF o

(* The heading of an input.                                                *)
LEMMA HeadingText ==
    ASSUME NEW r, NEW i, Len(r.texts) # 1 => IsText(r.labels[i])
    PROVE  IsText(Heading(r, i))
    <1> DEFINE gap == IF i > 1 THEN <<"LF">> ELSE <<>>
               first == gap \o <<"==>">>
               label == r.labels[i]
    <1>1. IsText(<<>>) /\ IsText(<<"LF">>) /\ IsText(<<"==>">>)
        BY NoText, OneText, SolidSymbols DEF Literals
    <1>2. IsText(gap)
        BY <1>1
    <1> HIDE DEF gap
    <1>3. IsText(first)
        BY <1>1, <1>2, TextAppend
    <1>4. Heading(r, i) = IF Len(r.texts) = 1 THEN <<>> ELSE (first \o label) \o <<"LF">>
        BY DEF Heading, gap
    <1> HIDE DEF first, label
    <1>5. IsText(label) => IsText((first \o label) \o <<"LF">>)
        BY <1>1, <1>3, TextAppend
    <1> QED
        BY <1>1, <1>4, <1>5 DEF label

(* head and tail.                                                          *)
LEMMA HeadOrTailNeat ==
    ASSUME NEW args, TextList(args), NEW ctx, GoodContext(ctx), NEW t, Tidy(t), NEW fromEnd
    PROVE  Neat(HeadOrTail(args, ctx, t, fromEnd))
    <1> DEFINE o == ParseCount(args)
               r == ReadInputs(t, o.operands, ctx)
               Piece(i) == Heading(r, i) \o Portion(r.texts[i], o.count, fromEnd)
               pieces == [i \in DOMAIN r.texts |-> Piece(i)]
    <1>1. HeadOrTail(args, ctx, t, fromEnd)
          = IF ~o.ok THEN Invalid ELSE IF ~r.ok THEN r.result ELSE Success(FlattenSeq(pieces))
        BY DEF HeadOrTail
    <1>2. o.ok => o.count \in Nat /\ TextList(o.operands)
        BY CountFacts
    <1> HIDE DEF o
    <1>3. /\ o.ok /\ r.ok => /\ TextList(r.texts) /\ r.labels = o.operands
                             /\ o.operands = <<>> => Len(r.texts) = 1
                             /\ o.operands # <<>> => DOMAIN r.texts = DOMAIN o.operands
          /\ ~r.ok => Neat(r.result)
        BY <1>2, InputFacts, RefusedInputs
    <1> HIDE DEF r
    <1>4. ASSUME o.ok, r.ok PROVE IsText(FlattenSeq(pieces))
        <2>1. TextList(r.texts) /\ IsSeq(r.texts)
            BY <1>3, <1>4 DEF TextList
        <2>2. ASSUME NEW i \in DOMAIN r.texts PROVE IsText(Piece(i))
            <3>1. Len(r.texts) # 1 => IsText(r.labels[i])
                BY <1>2, <1>3, <1>4 DEF TextList
            <3>2. IsText(Heading(r, i))
                BY <3>1, HeadingText
            <3>3. IsText(Portion(r.texts[i], o.count, fromEnd))
                BY <1>2, <1>4, <2>1, PortionText DEF TextList
            <3> QED
                BY <3>2, <3>3, TextAppend
        <2> HIDE DEF Piece
        <2>3. IsSeq(pieces) /\ DOMAIN pieces = DOMAIN r.texts
            BY <2>1, ListingOver
        <2>4. \A i \in DOMAIN pieces : IsText(pieces[i])
            BY <2>2
        <2> HIDE DEF pieces
        <2> QED
            BY <2>3, <2>4, FlattenTexts
    <1> DEFINE out == FlattenSeq(pieces)
    <1>5. o.ok /\ r.ok => Neat(Success(out))
        BY <1>4, NeatResults
    <1>6. ~r.ok => Neat(r.result)
        BY <1>3
    <1> HIDE DEF out, pieces
    <1>7. HeadOrTail(args, ctx, t, fromEnd)
          = IF ~o.ok THEN Invalid ELSE IF ~r.ok THEN r.result ELSE Success(out)
        BY <1>1 DEF out, pieces
    <1> QED
        BY <1>5, <1>6, <1>7, NeatResults

(* A row of wc.                                                            *)
LEMMA RowText ==
    ASSUME NEW values, NEW flags, NEW label, IsText(label)
    PROVE  IsText(Row(values, flags, label))
    <1> DEFINE fields == <<"l", "w", "c">>
               shown == Chosen(fields, {i \in 1..3 : flags = {} \/ fields[i] \in flags})
               numbers == [i \in DOMAIN shown |-> Numeral(values[shown[i]])]
    <1>1. Row(values, flags, label) = (numbers \o label) \o <<"LF">>
        BY DEF Row
    <1>2. IsSeq(fields)
        <2>1. fields \in Seq({"l", "w", "c"})
            OBVIOUS
        <2> HIDE DEF fields
        <2> QED
            BY <2>1, SeqIs
    <1> HIDE DEF fields
    <1>3. IsSeq(shown)
        BY <1>2, ChosenOver
    <1> HIDE DEF shown
    <1>4. IsSeq(numbers) /\ DOMAIN numbers = DOMAIN shown
        BY <1>3, ListingOver
    <1>5. \A i \in DOMAIN numbers : Solid(numbers[i])
        BY NumeralText
    <1> HIDE DEF numbers
    <1>6. IsText(numbers) /\ IsText(<<"LF">>)
        BY <1>4, <1>5, SolidText, OneText, SolidSymbols DEF Literals
    <1> QED
        BY <1>1, <1>6, TextAppend

(* wc.                                                                     *)
LEMMA WcNeat ==
    ASSUME NEW args, TextList(args), NEW ctx, GoodContext(ctx), NEW t, Tidy(t)
    PROVE  Neat(Wc(args, ctx, t))
    <1> DEFINE o == Options(args, {"c", "l", "w"}, TRUE)
               r == ReadInputs(t, o.operands, ctx)
               counts == [i \in DOMAIN r.texts |-> CountsOf(r.texts[i])]
               Label(i) == IF r.labels = <<>> THEN <<>> ELSE r.labels[i]
               pieces == [i \in DOMAIN counts |-> Row(counts[i], o.flags, Label(i))]
    <1>1. \E total : Wc(args, ctx, t)
             = IF ~o.ok THEN Invalid
               ELSE IF ~r.ok THEN r.result
               ELSE Success(FlattenSeq(pieces)
                             \o (IF Len(counts) > 1 THEN Row(total, o.flags, <<"total">>) ELSE <<>>))
        BY DEF Wc
    <1>2. PICK total : Wc(args, ctx, t)
             = IF ~o.ok THEN Invalid
               ELSE IF ~r.ok THEN r.result
               ELSE Success(FlattenSeq(pieces)
                             \o (IF Len(counts) > 1 THEN Row(total, o.flags, <<"total">>) ELSE <<>>))
        BY <1>1
    <1> DEFINE last == IF Len(counts) > 1 THEN Row(total, o.flags, <<"total">>) ELSE <<>>
    <1>3. TextList(o.operands)
        BY OptionsList
    <1> HIDE DEF o
    <1>4. /\ r.ok => /\ TextList(r.texts) /\ r.labels = o.operands
                     /\ o.operands # <<>> => DOMAIN r.texts = DOMAIN o.operands
          /\ ~r.ok => Neat(r.result)
        BY <1>3, InputFacts, RefusedInputs
    <1> HIDE DEF r
    <1>5. IsText(last)
        <2>1. IsText(<<"total">>)
            BY OneText, SolidSymbols DEF Literals
        <2> QED
            BY <2>1, NoText, RowText
    <1> HIDE DEF last
    <1>6. ASSUME r.ok PROVE IsText(FlattenSeq(pieces))
        <2>1. IsSeq(r.texts)
            BY <1>4, <1>6 DEF TextList
        <2>2. IsSeq(counts) /\ DOMAIN counts = DOMAIN r.texts
            BY <2>1, ListingOver
        <2>3. \A i \in DOMAIN r.texts : IsText(Label(i))
            BY <1>3, <1>4, <1>6, NoText DEF TextList
        <2> HIDE DEF counts, Label
        <2>4. IsSeq(pieces) /\ DOMAIN pieces = DOMAIN counts
            BY <2>2, ListingOver
        <2>5. \A i \in DOMAIN pieces : IsText(pieces[i])
            BY <2>2, <2>3, RowText
        <2> HIDE DEF pieces
        <2> QED
            BY <2>4, <2>5, FlattenTexts
    <1>7. r.ok => IsText(FlattenSeq(pieces) \o last)
        BY <1>5, <1>6, TextAppend
    <1>8. Wc(args, ctx, t) = IF ~o.ok THEN Invalid
                             ELSE IF ~r.ok THEN r.result
                             ELSE Success(FlattenSeq(pieces) \o last)
        BY <1>2 DEF last
    <1> HIDE DEF pieces
    <1> QED
        BY <1>4, <1>7, <1>8, NeatResults

(* sort.                                                                   *)
LEMMA SortNeat ==
    ASSUME NEW args, TextList(args), NEW ctx, GoodContext(ctx), NEW t, Tidy(t)
    PROVE  Neat(Sort(args, ctx, t))
    <1> DEFINE o == Options(args, {"n", "r", "u"}, TRUE)
               r == ReadInputs(t, o.operands, ctx)
               each == [i \in DOMAIN r.texts |-> Records(r.texts[i])]
               S == UNION {ToSet(Records(r.texts[i])) : i \in DOMAIN r.texts}
               all == FlattenSeq(each)
               W == {WithoutLf(x) : x \in S}
               lines == Sorted(all, o.flags)
    <1>1. Sort(args, ctx, t) = IF ~o.ok THEN Invalid ELSE IF ~r.ok THEN r.result ELSE Success(Lines(lines))
        BY DEF Sort
    <1>2. TextList(o.operands)
        BY OptionsList
    <1> HIDE DEF o
    <1>3. (r.ok => TextList(r.texts)) /\ (~r.ok => Neat(r.result))
        BY <1>2, InputFacts, RefusedInputs
    <1> HIDE DEF r
    <1>4. ASSUME r.ok PROVE IsText(Lines(lines))
        <2>1. IsSeq(r.texts)
            BY <1>3, <1>4 DEF TextList
        <2>2. IsSeq(each) /\ DOMAIN each = DOMAIN r.texts
            BY <2>1, ListingOver
        <2>3. ASSUME NEW i \in DOMAIN r.texts
              PROVE  /\ IsSeq(Records(r.texts[i]))
                     /\ \A j \in DOMAIN Records(r.texts[i]) : IsText(Records(r.texts[i])[j])
            BY <1>3, <1>4, RecordTexts DEF TextList
        <2>4. \A i \in DOMAIN each : each[i] \in Seq(S)
            <3> SUFFICES ASSUME NEW i \in DOMAIN each PROVE each[i] \in Seq(S)
                OBVIOUS
            <3> DEFINE recs == Records(r.texts[i])
            <3>1. each[i] = recs /\ IsSeq(recs) /\ i \in DOMAIN r.texts
                BY <2>2, <2>3
            <3>2. \A j \in DOMAIN recs : recs[j] \in S
                BY <3>1 DEF ToSet
            <3> HIDE DEF S, recs, each
            <3> QED
                BY <3>1, <3>2, SeqOver
        <2>5. \A x \in S : IsText(x)
            BY <2>3 DEF ToSet
        <2> HIDE DEF S, each
        <2>6. all \in Seq(S)
            BY <2>2, <2>4, FlattenOver
        <2> HIDE DEF all
        <2>7. IsSeq(all) /\ \A i \in DOMAIN all : WithoutLf(all[i]) \in W
            BY <2>6, SeqIs
        <2>8. \A w \in W : IsText(w)
            BY <2>5, LfTexts
        <2> HIDE DEF W
        <2>9. lines \in Seq(W)
            BY <2>7, SortedOver
        <2> HIDE DEF lines
        <2>10. IsSeq(lines) /\ \A i \in DOMAIN lines : IsText(lines[i])
            BY <2>8, <2>9, SeqIs
        <2> QED
            BY <2>10, LinesText
    <1> DEFINE out == Lines(lines)
    <1> HIDE DEF lines
    <1>5. Sort(args, ctx, t) = IF ~o.ok THEN Invalid ELSE IF ~r.ok THEN r.result ELSE Success(out)
        BY <1>1
    <1>6. r.ok => IsText(out)
        BY <1>4
    <1> HIDE DEF out
    <1> QED
        BY <1>3, <1>5, <1>6, NeatResults

(* Each run of equal lines, with its length or without.                    *)
LEMMA GroupedText ==
    ASSUME NEW lines, TextList(lines), NEW counted
    PROVE  IsText(Grouped(lines, counted))
    <1> DEFINE Count(i) == IF counted THEN <<Numeral(RunEnd(lines, i) - i + 1)>> ELSE <<>>
               Piece(i) == (Count(i) \o lines[i]) \o <<"LF">>
               pieces == [i \in DOMAIN lines |->
                            IF i > 1 /\ lines[i - 1] = lines[i] THEN <<>> ELSE Piece(i)]
    <1>1. Grouped(lines, counted) = FlattenSeq(pieces)
        BY DEF Grouped
    <1>2. IsText(<<"LF">>) /\ IsText(<<>>)
        BY NoText, OneText, SolidSymbols DEF Literals
    <1>3. ASSUME NEW i \in DOMAIN lines PROVE IsText(Piece(i))
        <2>1. IsText(Count(i))
            BY NumeralText, NoText
        <2> HIDE DEF Count
        <2>2. IsText(Count(i) \o lines[i])
            BY <2>1, TextAppend DEF TextList
        <2> QED
            BY <1>2, <2>2, TextAppend
    <1> HIDE DEF Piece
    <1>4. IsSeq(pieces) /\ DOMAIN pieces = DOMAIN lines
        BY ListingOver DEF TextList
    <1>5. \A i \in DOMAIN pieces : IsText(pieces[i])
        BY <1>2, <1>3
    <1> HIDE DEF pieces
    <1> QED
        BY <1>1, <1>4, <1>5, FlattenTexts

(* uniq.                                                                   *)
LEMMA UniqNeat ==
    ASSUME NEW args, TextList(args), NEW ctx, GoodContext(ctx), NEW t, Tidy(t)
    PROVE  Neat(Uniq(args, ctx, t))
    <1> DEFINE counted == args # <<>> /\ args[1] = <<"-c">>
               rest == WithoutDashes(IF counted THEN Tail(args) ELSE args)
               r == ReadInputs(t, rest, ctx)
               all == Records(r.texts[1])
               lines == [i \in DOMAIN all |-> WithoutLf(all[i])]
               out == Grouped(lines, counted)
               c == Len(rest) > 1 \/ \E x \in Range(rest) : Dashed(x) /\ x # <<"-">>
    <1>1. Uniq(args, ctx, t) = IF c THEN Invalid ELSE IF ~r.ok THEN r.result ELSE Success(out)
        BY Zenon DEF Uniq
    <1>2. TextList(rest)
        <2>1. TextList(IF counted THEN Tail(args) ELSE args)
            BY PartsOfList
        <2> QED
            BY <2>1, OperandList
    <1> HIDE DEF rest, c, counted
    <1>3. /\ r.ok => /\ TextList(r.texts)
                     /\ rest = <<>> => Len(r.texts) = 1
                     /\ rest # <<>> => DOMAIN r.texts = DOMAIN rest
          /\ ~r.ok => Neat(r.result)
        BY <1>2, InputFacts, RefusedInputs
    <1> HIDE DEF r
    <1>4. ASSUME r.ok PROVE IsText(out)
        <2>1. IsSeq(rest) /\ IsSeq(r.texts)
            BY <1>2, <1>3, <1>4 DEF TextList
        <2>2. rest # <<>> => 1 \in DOMAIN rest
            BY <2>1, SeqFacts
        <2>3. Len(r.texts) = 1 => 1 \in DOMAIN r.texts
            BY <2>1, SeqFacts
        <2>4. IsText(r.texts[1])
            BY <1>3, <1>4, <2>2, <2>3 DEF TextList
        <2>5. IsSeq(all) /\ \A i \in DOMAIN all : IsText(all[i])
            BY <2>4, RecordTexts
        <2> HIDE DEF all
        <2>6. IsSeq(lines) /\ DOMAIN lines = DOMAIN all
            BY <2>5, ListingOver
        <2>7. \A i \in DOMAIN lines : IsText(lines[i])
            BY <2>5, LfTexts
        <2> HIDE DEF lines
        <2>8. TextList(lines)
            BY <2>6, <2>7 DEF TextList
        <2> QED
            BY <2>8, GroupedText
    <1> HIDE DEF out
    <1> QED
        BY <1>1, <1>3, <1>4, NeatResults

(* cat.                                                                    *)
LEMMA CatNeat ==
    ASSUME NEW args, TextList(args), NEW ctx, GoodContext(ctx), NEW t, Tidy(t)
    PROVE  Neat(Cat(args, ctx, t))
    <1> DEFINE o == Options(args, {}, TRUE)
               n == Len(o.operands)
    <1>1. IsSeq(o.operands)
        BY OptionsList DEF TextList
    <1>2. Cat(args, ctx, t) \in {Invalid, Success(ctx.stdin), Concatenated(o.operands, ctx, t)}
        BY Zenon DEF Cat
    <1> HIDE DEF o
    <1>3. n \in Nat
        BY <1>1, SeqFacts
    <1>4. PICK h : /\ h[0] = Success(<<>>)
                   /\ \A k \in 1..n : h[k] = CatOperand(h[k - 1], o.operands[k], ctx, t)
                   /\ h[n] = Concatenated(o.operands, ctx, t)
        BY <1>1, CatFold
    <1> HIDE DEF n
    <1> DEFINE T == {k \in 0..n : Plain(h[k]) /\ Neat(h[k])}
    <1>5. 0 \in T
        BY <1>3, <1>4, PlainResults, NeatResults
    <1>6. ASSUME NEW k \in 1..n, k - 1 \in T PROVE k \in T
        <2> DEFINE s == h[k - 1]
                   r == ReadText(t, o.operands[k], ctx)
        <2>1. Plain(s) /\ Neat(s) /\ k \in 0..n
            BY <1>3, <1>6
        <2>2. h[k] = CatOperand(s, o.operands[k], ctx, t)
            BY <1>4
        <2> HIDE DEF s
        <2>3. \/ r.ok /\ CatOperand(s, o.operands[k], ctx, t) = [s EXCEPT !.out = @ \o r.text]
              \/ CatOperand(s, o.operands[k], ctx, t) \in {s, ProtectedValue, Failure(s.out)}
            BY DEF CatOperand
        <2>4. r.ok => IsText(r.text)
            BY ReadTextFacts
        <2> HIDE DEF r
        <2>5. IsText(s.out)
            BY <2>1 DEF Neat, Printed
        <2>6. ASSUME r.ok, NEW u, u = [s EXCEPT !.out = @ \o r.text] PROVE Plain(u) /\ Neat(u)
            <3>1. IsText(s.out \o r.text)
                BY <2>4, <2>5, <2>6, TextAppend
            <3>2. /\ DOMAIN u = DOMAIN s /\ u.out = s.out \o r.text /\ u.err = s.err
                  /\ u.moves = s.moves /\ u.cwd = s.cwd /\ u.changes = s.changes
                  /\ u.trees = s.trees
                BY <2>1, <2>6 DEF Plain, Still, ResultFields
            <3> QED
                BY <2>1, <3>1, <3>2 DEF Plain, Still, Neat, Printed
        <2>7. Plain(h[k]) /\ Neat(h[k])
            <3>1. \A u \in {s, ProtectedValue, Failure(s.out)} : Plain(u) /\ Neat(u)
                BY <2>1, <2>5, PlainResults, NeatResults
            <3> QED
                BY <2>2, <2>3, <2>6, <3>1
        <2> QED
            BY <2>1, <2>7
    <1> HIDE DEF T
    <1>7. n \in T
        BY <1>3, <1>5, <1>6, LeastFailure DEF T
    <1>8. Neat(Concatenated(o.operands, ctx, t))
        BY <1>4, <1>7 DEF T
    <1>9. Neat(Success(ctx.stdin))
        BY NeatResults DEF GoodContext
    <1> QED
        BY <1>2, <1>8, <1>9, NeatResults, Zenon

(* A section of ls: a file, or the names in a directory.                   *)
LEMMA SectionText ==
    ASSUME NEW x, IsText(x), NEW several, NEW ctx, GoodContext(ctx), NEW t, Tidy(t),
           Resolves(x, ctx.cwd), PathOf(x, ctx.cwd) \in DOMAIN t
    PROVE  IsText(LsSection(x, several, ctx, t))
    <1> DEFINE p == PathOf(x, ctx.cwd)
               w == Walk(t, p, 1)
               rests == [i \in DOMAIN Tail(w) |-> Rest(p, w[i + 1])]
               names == Lines(rests)
    <1>1. LsSection(x, several, ctx, t) =
             IF ~IsDir(t, p) THEN x \o <<"LF">>
             ELSE IF several THEN x \o <<":", "LF">> \o names ELSE names
        BY DEF LsSection
    <1>2. p \in Seq(Names)
        BY TextIs, PathFacts DEF GoodContext
    <1>3. /\ IsSeq(w) /\ w # <<>>
          /\ \A i \in DOMAIN w : w[i] \in Subtree(t, p) /\ w[i] \in Seq(Names)
        BY WalkFacts
    <1> HIDE DEF p, w
    <1>4. IsSeq(Tail(w)) /\ \A i \in DOMAIN Tail(w) : i + 1 \in DOMAIN w
        <2>1. w \in Seq(ToSet(w)) /\ DOMAIN w = 1..Len(w) /\ Len(w) \in Nat
            BY <1>3, SeqFacts DEF IsSeq
        <2> DEFINE S == ToSet(w)
        <2> HIDE DEF S
        <2>2. w \in Seq(S)
            BY <2>1 DEF S
        <2>3. Tail(w) \in Seq(S) /\ Len(Tail(w)) = Len(w) - 1
            BY <1>3, <2>2
        <2>4. IsSeq(Tail(w))
            BY <2>3, SeqIs
        <2>5. DOMAIN Tail(w) = 1..(Len(w) - 1)
            BY <2>3, <2>4, SeqFacts
        <2> QED
            BY <2>1, <2>4, <2>5
    <1>5. IsSeq(rests) /\ DOMAIN rests = DOMAIN Tail(w)
        BY <1>4, ListingOver
    <1>6. ASSUME NEW i \in DOMAIN rests PROVE IsText(rests[i])
        <2>1. i \in DOMAIN Tail(w) /\ i + 1 \in DOMAIN w
            BY <1>4, <1>5
        <2>2. IsPrefix(p, w[i + 1]) /\ w[i + 1] \in Seq(Names)
            BY <1>3, <2>1 DEF Subtree
        <2>3. rests[i] = Rest(p, w[i + 1])
            BY <2>1
        <2> QED
            BY <1>2, <2>2, <2>3, RestPath
    <1> HIDE DEF rests
    <1>7. IsText(names)
        BY <1>5, <1>6, LinesText
    <1> HIDE DEF names
    <1>8. IsText(<<"LF">>) /\ IsText(<<":", "LF">>)
        <2>1. <<":", "LF">> = <<":">> \o <<"LF">>
            OBVIOUS
        <2>2. IsText(<<"LF">>) /\ IsText(<<":">>)
            BY OneText, SolidSymbols DEF Literals
        <2> QED
            BY <2>1, <2>2, TextAppend
    <1>9. IsText(x \o <<"LF">>) /\ IsText(x \o <<":", "LF">>)
        BY <1>8, TextAppend
    <1>10. IsText((x \o <<":", "LF">>) \o names)
        BY <1>7, <1>9, TextAppend
    <1> QED
        BY <1>1, <1>7, <1>9, <1>10

(* What ls has listed so far.                                              *)
ListState(s) == LsState(s) /\ IsText(s.out) /\ Neat(s.result)

(* One operand of ls.                                                      *)
LEMMA ListOperand ==
    ASSUME NEW s, ListState(s), NEW x, IsText(x), NEW several, NEW ctx, GoodContext(ctx),
           NEW t, Tidy(t)
    PROVE  ListState(LsOperand(s, x, several, ctx, t))
    <1> DEFINE p == PathOf(x, ctx.cwd)
               gap == IF s.first THEN <<>> ELSE <<"LF">>
               section == LsSection(x, several, ctx, t)
               more == s.out \o gap \o section
               u == LsOperand(s, x, several, ctx, t)
    <1>1. \/ u = s
          \/ u = [s EXCEPT !.ok = FALSE, !.result = ProtectedValue]
          \/ u = [s EXCEPT !.ok = FALSE, !.result = Failure(s.out)]
          \/ /\ Resolves(x, ctx.cwd) /\ p \in DOMAIN t
             /\ u = [s EXCEPT !.out = more, !.first = FALSE]
        BY DEF LsOperand
    <1>2. LsState(u)
        BY LsOperandKeeps DEF ListState
    <1> HIDE DEF u
    <1>3. IsText(gap)
        BY NoText, OneText, SolidSymbols DEF Literals
    <1> HIDE DEF gap
    <1>4. Resolves(x, ctx.cwd) /\ p \in DOMAIN t => IsText(section)
        BY SectionText
    <1> HIDE DEF section, p
    <1>5. IsText(s.out \o gap)
        BY <1>3, TextAppend DEF ListState
    <1>6. Resolves(x, ctx.cwd) /\ p \in DOMAIN t => IsText(more)
        BY <1>4, <1>5, TextAppend
    <1> HIDE DEF more
    <1>7. IsText(u.out) /\ Neat(u.result)
        BY <1>1, <1>6, NeatResults DEF ListState, LsState
    <1>8. ListState(u)
        BY <1>2, <1>7 DEF ListState
    <1> QED
        BY <1>8 DEF u

(* ls.                                                                     *)
LEMMA LsNeat ==
    ASSUME NEW args, TextList(args), NEW ctx, GoodContext(ctx), NEW t, Tidy(t)
    PROVE  Neat(Ls(args, ctx, t))
    <1> DEFINE o == Options(args, {"1", "a"}, TRUE)
               operands == IF o.operands = <<>> THEN <<<<".">>>> ELSE o.operands
               n == Len(operands)
               end == Listed(operands, ctx, t)
    <1>1. TextList(operands)
        <2>1. TextList(o.operands)
            BY OptionsList
        <2>2. TextList(<<<<".">>>>)
            BY OneText, OneWord, SolidSymbols DEF Literals
        <2> QED
            BY <2>1, <2>2
    <1>2. Ls(args, ctx, t) \in {Invalid, Success(end.out), end.result}
        BY Zenon DEF Ls
    <1> HIDE DEF operands
    <1>3. n \in Nat /\ DOMAIN operands = 1..n /\ IsSeq(operands)
        BY <1>1, SeqFacts DEF TextList
    <1>4. PICK h : /\ h[0] = [ok |-> TRUE, out |-> <<>>, first |-> TRUE, result |-> Invalid]
                   /\ \A k \in 1..n : h[k] = LsOperand(h[k - 1], operands[k], n > 1, ctx, t)
                   /\ h[n] = end
        BY <1>3, LsFold
    <1> HIDE DEF n, end
    <1> DEFINE T == {k \in 0..n : ListState(h[k])}
    <1>5. 0 \in T
        <2>1. LsState(h[0])
            BY <1>4, PlainResults DEF LsState
        <2>2. h[0].out = <<>> /\ h[0].result = Invalid
            BY <1>4
        <2> QED
            BY <1>3, <2>1, <2>2, NoText, NeatResults DEF ListState
    <1>6. ASSUME NEW k \in 1..n, k - 1 \in T PROVE k \in T
        <2>1. ListState(h[k - 1]) /\ k \in 0..n /\ IsText(operands[k])
            BY <1>1, <1>3, <1>6 DEF TextList
        <2>2. ListState(LsOperand(h[k - 1], operands[k], n > 1, ctx, t))
            BY <2>1, ListOperand
        <2> QED
            BY <1>4, <2>1, <2>2
    <1> HIDE DEF T
    <1>7. n \in T
        BY <1>3, <1>5, <1>6, LeastFailure DEF T
    <1>8. IsText(end.out) /\ Neat(end.result)
        BY <1>4, <1>7 DEF T, ListState
    <1>9. Neat(Success(end.out))
        BY <1>8, NeatResults
    <1> QED
        BY <1>2, <1>8, <1>9, NeatResults, Zenon

(* find.                                                                   *)
LEMMA FindNeat ==
    ASSUME NEW args, TextList(args), NEW ctx, GoodContext(ctx), NEW t, Tidy(t)
    PROVE  Neat(Find(args, ctx, t))
    <1> DEFINE dashes == args # <<>> /\ args[1] = <<"--">>
               free == WithoutDashes(args)
               given == free # <<>> /\ (dashes \/ ~Dashed(free[1]))
               operand == IF given THEN free[1] ELSE <<".">>
               root == PathOf(operand, ctx.cwd)
               Piece(q) == DisplayPath(operand, root, q) \o <<"LF">>
               all(depth) == Walk(t, root, depth)
               pieces(depth, chosen) ==
                 [i \in DOMAIN all(depth) |-> IF all(depth)[i] \in chosen THEN Piece(all(depth)[i]) ELSE <<>>]
    <1>1. \/ Find(args, ctx, t) \in {Invalid, ProtectedValue, Failure(<<>>)}
          \/ /\ Resolves(operand, ctx.cwd)
             /\ \E depth, chosen : Find(args, ctx, t) = Success(FlattenSeq(pieces(depth, chosen)))
        <2> DEFINE tests == IF given THEN Tail(free) ELSE free
                   pairs == [i \in 1..(Len(tests) \div 2) |-> [test |-> tests[2 * i - 1], value |-> tests[2 * i]]]
                   Values(test) == {pairs[i].value : i \in {j \in DOMAIN pairs : pairs[j].test = test}}
                   Final(test) == pairs[Max({j \in DOMAIN pairs : pairs[j].test = test})].value
                   depth == IF Values(<<"-maxdepth">>) = {} THEN MaxDepth
                            ELSE Number[Final(<<"-maxdepth">>)[1]]
                   Selected(q) ==
                     /\ Values(<<"-type">>) # {} => (Final(<<"-type">>) = <<"d">>) = IsDir(t, q)
                     /\ Values(<<"-name">>) # {} => Final(<<"-name">>) = <<"*">>
                                          \/ (q # Root /\ Final(<<"-name">>) = <<q[Len(q)]>>)
                   chosen == {q \in ToSet(all(depth)) : Selected(q)}
                   found == [i \in DOMAIN all(depth) |->
                               IF Selected(all(depth)[i])
                               THEN DisplayPath(operand, root, all(depth)[i]) \o <<"LF">> ELSE <<>>]
        <2>1. \/ Find(args, ctx, t) \in {Invalid, ProtectedValue, Failure(<<>>)}
              \/ Resolves(operand, ctx.cwd) /\ Find(args, ctx, t) = Success(FlattenSeq(found))
            BY ZenonT(60) DEF Find
        <2>2. found = pieces(depth, chosen)
            <3> HIDE DEF Selected, depth, operand, root
            <3>1. \A i \in DOMAIN all(depth) : Selected(all(depth)[i]) <=> all(depth)[i] \in chosen
                BY DEF ToSet
            <3> HIDE DEF chosen, all
            <3> QED
                BY <3>1
        <2> HIDE DEF found, chosen, depth, pieces
        <2> QED
            BY <2>1, <2>2
    <1>2. IsText(operand)
        <2>1. TextList(free)
            BY OperandList
        <2> HIDE DEF free
        <2>2. free # <<>> => IsText(free[1])
            BY <2>1, PartsOfList
        <2>3. IsText(<<".">>)
            BY OneText, SolidSymbols DEF Literals
        <2> QED
            BY <2>2, <2>3
    <1> HIDE DEF operand
    <1>3. Resolves(operand, ctx.cwd) => root \in Seq(Names)
        BY <1>2, TextIs, PathFacts DEF GoodContext
    <1> HIDE DEF root
    <1>4. ASSUME Resolves(operand, ctx.cwd), NEW depth, NEW chosen
          PROVE  IsText(FlattenSeq(pieces(depth, chosen)))
        <2> DEFINE w == all(depth)
                   mine == pieces(depth, chosen)
        <2>1. IsSeq(w) /\ \A i \in DOMAIN w : w[i] \in Subtree(t, root) /\ w[i] \in Seq(Names)
            BY WalkFacts
        <2> HIDE DEF all
        <2>2. \A q \in Seq(Names) : q \in Subtree(t, root) => IsText(Piece(q))
            <3> SUFFICES ASSUME NEW q \in Seq(Names), q \in Subtree(t, root) PROVE IsText(Piece(q))
                OBVIOUS
            <3>1. IsPrefix(root, q)
                BY DEF Subtree
            <3>2. IsText(DisplayPath(operand, root, q))
                BY <1>2, <1>3, <1>4, <3>1, DisplayText
            <3>3. IsText(<<"LF">>)
                BY OneText, SolidSymbols DEF Literals
            <3> QED
                BY <3>2, <3>3, TextAppend
        <2> HIDE DEF Piece
        <2>3. IsSeq(mine) /\ DOMAIN mine = DOMAIN w
            <3>1. mine = [i \in DOMAIN w |-> mine[i]]
                OBVIOUS
            <3> HIDE DEF w, mine
            <3> QED
                BY <2>1, <3>1, ListingOver
        <2>4. \A i \in DOMAIN mine : IsText(mine[i])
            BY <2>1, <2>2, NoText
        <2> HIDE DEF mine
        <2>5. IsText(FlattenSeq(mine))
            BY <2>3, <2>4, FlattenTexts
        <2> QED
            BY <2>5 DEF mine
    <1> HIDE DEF pieces
    <1> QED
        BY <1>1, <1>4, NeatResults

(* What grep reads, and what it calls it.                                  *)
GoodSource(s) == IsText(s.label) /\ (s.read.ok => IsText(s.read.text))

(* A file is one source, a directory one for each file below it.           *)
LEMMA SourceTexts ==
    ASSUME NEW x, IsText(x), NEW ctx, GoodContext(ctx), NEW t, Tidy(t)
    PROVE  IsSeq(Sources(x, ctx, t)) /\ \A i \in DOMAIN Sources(x, ctx, t) : GoodSource(Sources(x, ctx, t)[i])
    <1> DEFINE p == PathOf(x, ctx.cwd)
               all == Walk(t, p, MaxDepth)
               K == {i \in DOMAIN all : IsFile(t, all[i])}
               files == Chosen(all, K)
               one == [label |-> x, read |-> ReadText(t, x, ctx)]
               many == [i \in DOMAIN files |-> [label |-> DisplayPath(x, p, files[i]),
                                                read |-> ReadText(t, PathText(files[i]), ctx)]]
               r == Sources(x, ctx, t)
    <1>1. r = IF ~IsTreeOperand(x, ctx, t) THEN <<one>> ELSE many
        BY DEF Sources
    <1>2. \A y : ReadText(t, y, ctx).ok => IsText(ReadText(t, y, ctx).text)
        BY ReadTextFacts
    <1>3. GoodSource(one)
        BY <1>2 DEF GoodSource
    <1> HIDE DEF one
    <1>4. CASE ~IsTreeOperand(x, ctx, t)
        <2>1. r = <<one>>
            BY <1>1, <1>4
        <2> HIDE DEF r
        <2>2. IsSeq(r) /\ \A i \in DOMAIN r : GoodSource(r[i])
            BY <1>3, <2>1, OneText
        <2> QED
            BY <2>2 DEF r
    <1>5. CASE IsTreeOperand(x, ctx, t)
        <2>1. p \in Seq(Names)
            BY <1>5, TextIs, PathFacts DEF GoodContext, IsTreeOperand
        <2>2. IsSeq(all) /\ \A i \in DOMAIN all : all[i] \in Subtree(t, p) /\ all[i] \in Seq(Names)
            BY WalkFacts
        <2>3. r = many
            BY <1>1, <1>5
        <2> HIDE DEF all, K, p, r
        <2>4. IsSeq(files) /\ \A i \in DOMAIN files : \E j \in DOMAIN all : files[i] = all[j]
            BY <2>2, ChosenOver
        <2> HIDE DEF files
        <2>5. ASSUME NEW i \in DOMAIN files PROVE GoodSource(many[i])
            <3>1. files[i] \in Seq(Names) /\ IsPrefix(p, files[i])
                BY <2>2, <2>4 DEF Subtree
            <3>2. IsText(DisplayPath(x, p, files[i]))
                BY <2>1, <3>1, DisplayText
            <3>3. /\ many[i].label = DisplayPath(x, p, files[i])
                  /\ many[i].read = ReadText(t, PathText(files[i]), ctx)
                OBVIOUS
            <3> HIDE DEF many
            <3> QED
                BY <1>2, <3>2, <3>3 DEF GoodSource
        <2>6. IsSeq(many) /\ DOMAIN many = DOMAIN files
            BY <2>4, ListingOver
        <2> HIDE DEF many
        <2>7. IsSeq(r) /\ \A i \in DOMAIN r : GoodSource(r[i])
            BY <2>3, <2>5, <2>6
        <2> QED
            BY <2>7 DEF r
    <1> QED
        BY <1>4, <1>5

(* What grep prints of a source.                                           *)
LEMMA MatchText ==
    ASSUME NEW text, IsText(text), NEW label, IsText(label), NEW named, NEW pattern, NEW flags
    PROVE  IsText(MatchLines(text, label, named, pattern, flags))
    <1> DEFINE all == Records(text)
               hits == {i \in DOMAIN all : Matches(WithoutLf(all[i]), pattern, "v" \in flags)}
               First == IF named THEN label \o <<":">> ELSE <<>>
               Second(i) == IF "n" \in flags THEN <<Numeral(i), ":">> ELSE <<>>
               Prefix(i) == First \o Second(i)
               pieces == [i \in DOMAIN all |-> IF i \in hits THEN Prefix(i) \o WithLf(all[i]) ELSE <<>>]
    <1>1. MatchLines(text, label, named, pattern, flags) \in
             {FlattenSeq(pieces), label \o <<"LF">>, <<>>}
        BY DEF MatchLines
    <1>2. IsText(<<>>) /\ IsText(<<"LF">>) /\ IsText(<<":">>)
        BY NoText, OneText, SolidSymbols DEF Literals
    <1>3. IsText(First)
        BY <1>2, TextAppend
    <1>4. \A i : IsText(Second(i))
        <2> TAKE i
        <2> DEFINE a == Numeral(i)
                   b == ":"
                   u == <<a, b>>
                   S == {a, b}
        <2>1. Solid(a) /\ Solid(b)
            BY NumeralText, SolidSymbols DEF Literals
        <2>2. \A x \in S : Solid(x)
            BY <2>1
        <2> HIDE DEF a, b
        <2>3. u \in Seq(S)
            OBVIOUS
        <2> HIDE DEF S, u
        <2>4. IsSeq(u) /\ \A j \in DOMAIN u : u[j] \in S
            BY <2>3, SeqIs
        <2>5. IsText(u)
            BY <2>2, <2>4, SolidText
        <2> QED
            BY <1>2, <2>5 DEF u, a, b
    <1> HIDE DEF First, Second
    <1>5. \A i : IsText(Prefix(i))
        BY <1>3, <1>4, TextAppend
    <1> HIDE DEF Prefix, hits
    <1>6. IsSeq(all) /\ \A i \in DOMAIN all : IsText(all[i])
        BY RecordTexts
    <1> HIDE DEF all
    <1>7. IsSeq(pieces) /\ DOMAIN pieces = DOMAIN all
        BY <1>6, ListingOver
    <1>8. \A i \in DOMAIN all : IsText(Prefix(i) \o WithLf(all[i]))
        BY <1>5, <1>6, LfTexts, TextAppend
    <1>9. \A i \in DOMAIN pieces : IsText(pieces[i])
        BY <1>2, <1>8
    <1> HIDE DEF pieces
    <1>10. IsText(FlattenSeq(pieces)) /\ IsText(label \o <<"LF">>)
        BY <1>2, <1>7, <1>9, FlattenTexts, TextAppend
    <1> QED
        BY <1>1, <1>2, <1>10

(* grep.                                                                   *)
LEMMA GrepNeat ==
    ASSUME NEW args, TextList(args), NEW ctx, GoodContext(ctx), NEW t, Tidy(t)
    PROVE  Neat(Grep(args, ctx, t))
    <1> DEFINE o == Options(args, {"F", "E", "i", "v", "n", "l", "r", "R"}, TRUE)
               recursive == o.flags \cap {"r", "R"} # {}
               pattern == o.operands[1]
               given == Tail(o.operands)
               operands == IF given # <<>> THEN given ELSE IF recursive THEN <<<<".">>>> ELSE <<<<"-">>>>
               each == [i \in DOMAIN operands |-> Sources(operands[i], ctx, t)]
               sources == FlattenSeq(each)
               Unread(x) == \/ IsTreeOperand(x, ctx, t) /\ ~recursive
                            \/ \E s \in Range(Sources(x, ctx, t)) : ~s.read.ok
               broken == \E x \in Range(operands) : Unread(x)
               named == recursive \/ Len(sources) > 1
               pieces == [i \in DOMAIN sources |->
                            MatchLines(sources[i].read.text, sources[i].label, named, pattern, o.flags)]
               r == Grep(args, ctx, t)
    <1>1. \/ r \in {Invalid, ProtectedValue, Failure(<<>>), Result(1, "no_match", <<>>, <<>>)}
          \/ o.operands # <<>> /\ ~broken /\ r = Success(FlattenSeq(pieces))
        <2> DEFINE refused == \E i \in DOMAIN operands :
                                Protected(operands[i]) /\ \A j \in 1..(i - 1) : ~Unread(operands[j])
                   out == FlattenSeq(pieces)
        <2>1. r = IF ~o.ok \/ o.operands = <<>> THEN Invalid
                  ELSE IF pattern = BadPattern /\ "F" \notin o.flags THEN Invalid
                  ELSE IF refused THEN ProtectedValue
                  ELSE IF broken THEN Failure(<<>>)
                  ELSE IF out = <<>> THEN Result(1, "no_match", <<>>, <<>>)
                  ELSE Success(out)
            BY Zenon DEF Grep
        <2> HIDE DEF r, refused, broken, out, pattern, o
        <2>2. \/ r \in {Invalid, ProtectedValue, Failure(<<>>), Result(1, "no_match", <<>>, <<>>)}
              \/ o.operands # <<>> /\ ~broken /\ r = Success(out)
            BY <2>1
        <2> QED
            BY <2>2 DEF out
    <1>2. TextList(o.operands)
        BY OptionsList
    <1> HIDE DEF r, o, recursive, named, pattern
    <1>3. ASSUME o.operands # <<>>, ~broken PROVE IsText(FlattenSeq(pieces))
        <2>1. TextList(operands)
            <3>1. TextList(given)
                BY <1>2, <1>3, PartsOfList
            <3>2. TextList(<<<<".">>>>) /\ TextList(<<<<"-">>>>)
                BY OneText, OneWord, SolidSymbols DEF Literals
            <3> QED
                BY <3>1, <3>2
        <2>2. \A i \in DOMAIN operands :
                 \A j \in DOMAIN Sources(operands[i], ctx, t) : Sources(operands[i], ctx, t)[j].read.ok
            BY <1>3 DEF Range
        <2> HIDE DEF operands, broken
        <2>3. IsSeq(each) /\ DOMAIN each = DOMAIN operands
            BY <2>1, ListingOver DEF TextList
        <2> DEFINE S == UNION {ToSet(Sources(operands[i], ctx, t)) : i \in DOMAIN operands}
        <2>4. ASSUME NEW i \in DOMAIN operands
              PROVE  /\ IsSeq(Sources(operands[i], ctx, t))
                     /\ \A j \in DOMAIN Sources(operands[i], ctx, t) :
                           GoodSource(Sources(operands[i], ctx, t)[j])
            BY <2>1, SourceTexts DEF TextList
        <2>5. \A i \in DOMAIN each : each[i] \in Seq(S)
            <3> SUFFICES ASSUME NEW i \in DOMAIN each PROVE each[i] \in Seq(S)
                OBVIOUS
            <3> DEFINE some == Sources(operands[i], ctx, t)
            <3>1. each[i] = some /\ IsSeq(some) /\ i \in DOMAIN operands
                BY <2>3, <2>4
            <3>2. \A j \in DOMAIN some : some[j] \in S
                BY <3>1 DEF ToSet
            <3> HIDE DEF S, some, each
            <3> QED
                BY <3>1, <3>2, SeqOver
        <2>6. \A s \in S : GoodSource(s) /\ s.read.ok
            BY <2>2, <2>4 DEF ToSet
        <2> HIDE DEF S, each
        <2>7. sources \in Seq(S)
            BY <2>3, <2>5, FlattenOver
        <2> HIDE DEF sources
        <2>8. IsSeq(sources) /\ \A i \in DOMAIN sources : sources[i] \in S
            BY <2>7, SeqIs
        <2>9. \A i \in DOMAIN sources : IsText(sources[i].read.text) /\ IsText(sources[i].label)
            BY <2>6, <2>8 DEF GoodSource
        <2>10. IsSeq(pieces) /\ DOMAIN pieces = DOMAIN sources
            BY <2>8, ListingOver
        <2>11. \A i \in DOMAIN pieces : IsText(pieces[i])
            BY <2>9, MatchText
        <2> HIDE DEF pieces
        <2> QED
            BY <2>10, <2>11, FlattenTexts
    <1> HIDE DEF pieces, broken
    <1>4. Neat(r)
        BY <1>1, <1>3, NeatResults
    <1> QED
        BY <1>4 DEF r

(* env.                                                                    *)
LEMMA EnvNeat ==
    ASSUME NEW args, NEW ctx, GoodContext(ctx), NEW t
    PROVE  Neat(Env(args, ctx, t))
    <1> DEFINE names == DOMAIN ctx.view.base \cup DOMAIN ctx.view.overlay \cup {"PWD"}
               S == {<<n>> : n \in names}
               sorted == InOrder(S)
               Value(n) == IF n = "PWD" THEN PathText(ctx.cwd) ELSE EnvironmentGet(ctx.view, n)
               Piece(w) == (w \o <<"=">>) \o Value(w[1]) \o <<"LF">>
               pieces == [i \in DOMAIN sorted |-> Piece(sorted[i])]
    <1>1. Env(args, ctx, t) \in {Invalid, Success(FlattenSeq(pieces))}
        BY Zenon DEF Env
    <1>2. IsFiniteSet(names)
        <2>1. IsFiniteSet({"PWD"}) /\ IsFiniteSet(DOMAIN ctx.view.base) /\ IsFiniteSet(DOMAIN ctx.view.overlay)
            BY FS_Singleton DEF GoodContext, Listable
        <2> QED
            BY <2>1, FS_Union
    <1>3. \A n \in names : Solid(n)
        BY SolidSymbols DEF GoodContext, Listable, Solid, Literals
    <1>4. \A n : IsText(Value(n))
        BY PathTexts, EnvironmentText DEF GoodContext
    <1> HIDE DEF names, Value
    <1>5. IsFiniteSet(S)
        <2> DEFINE f == [n \in names |-> <<n>>]
        <2>1. f \in Surjection(names, S)
            BY DEF Surjection
        <2> QED
            BY <1>2, <2>1, FS_Surjection
    <1>6. \A w \in S : IsText(w)
        BY <1>3, OneText
    <1> HIDE DEF S
    <1>7. sorted \in Seq(S)
        BY <1>5, InOrderOver
    <1> HIDE DEF sorted
    <1>8. IsSeq(sorted) /\ \A i \in DOMAIN sorted : sorted[i] \in S
        BY <1>7, SeqIs
    <1>9. ASSUME NEW w, IsText(w) PROVE IsText(Piece(w))
        <2>1. IsText(<<"=">>) /\ IsText(<<"LF">>)
            BY OneText, SolidSymbols DEF Literals
        <2>2. IsText(w \o <<"=">>)
            BY <1>9, <2>1, TextAppend
        <2> DEFINE a == w \o <<"=">>
        <2> HIDE DEF a
        <2>3. IsText(a \o Value(w[1]))
            BY <1>4, <2>2, TextAppend DEF a
        <2>4. IsText((a \o Value(w[1])) \o <<"LF">>)
            BY <2>1, <2>3, TextAppend
        <2> QED
            BY <2>4 DEF a
    <1> HIDE DEF Piece
    <1>10. IsSeq(pieces) /\ DOMAIN pieces = DOMAIN sorted
        BY <1>8, ListingOver
    <1>11. \A i \in DOMAIN pieces : IsText(pieces[i])
        BY <1>6, <1>8, <1>9
    <1> HIDE DEF pieces
    <1>12. IsText(FlattenSeq(pieces))
        BY <1>10, <1>11, FlattenTexts
    <1> QED
        BY <1>1, <1>12, NeatResults, Zenon

(* A command that changes the environment and prints nothing.              *)
LEMMA ChangesNeat ==
    ASSUME NEW r, NEW changes, r = [Success(<<>>) EXCEPT !.changes = changes],
           \A i \in DOMAIN changes : GoodChange(changes[i])
    PROVE  Neat(r)
    <1>1. /\ r.out = Success(<<>>).out /\ r.err = Success(<<>>).err /\ r.changes = changes
          /\ r.moves = Success(<<>>).moves /\ r.cwd = Success(<<>>).cwd
          /\ r.trees = Success(<<>>).trees
        BY DEF Success, Result
    <1>2. Neat(Success(<<>>))
        BY NeatResults
    <1> QED
        BY <1>1, <1>2 DEF Neat, Printed

(* export.                                                                 *)
LEMMA ExportNeat ==
    ASSUME NEW args, TextList(args), NEW ctx, NEW t
    PROVE  Neat(Export(args, ctx, t))
    <1> DEFINE rest == WithoutDashes(args)
               Sets(x) == x # <<>> /\ x[1] \in DOMAIN Assigned /\ Assigned[x[1]] # "PWD"
               bad == {i \in DOMAIN rest : \/ Protected(rest[i]) \/ ~Sets(rest[i])
                                           \/ Assigned[rest[i][1]] \in DOMAIN ctx.view.overlay}
               changes == [i \in DOMAIN rest |->
                             [name |-> Assigned[rest[i][1]], set |-> TRUE, value |-> Tail(rest[i])]]
               r == Export(args, ctx, t)
               done == [Success(<<>>) EXCEPT !.changes = changes]
    <1>1. \/ r \in {Invalid, ProtectedValue}
          \/ bad = {} /\ r = done
        <2> DEFINE wrong == ~Protected(rest[Min(bad)]) /\ ~Sets(rest[Min(bad)])
        <2>1. r = IF HasInput(ctx) \/ rest = <<>> THEN Invalid
                  ELSE IF bad # {} THEN IF wrong THEN Invalid ELSE ProtectedValue
                  ELSE done
            BY Zenon DEF Export
        <2> HIDE DEF r, bad, wrong, done
        <2> QED
            BY <2>1
    <1>2. TextList(rest)
        BY OperandList
    <1> HIDE DEF rest
    <1>3. ASSUME bad = {}, NEW i \in DOMAIN changes PROVE GoodChange(changes[i])
        <2>1. i \in DOMAIN rest /\ Sets(rest[i]) /\ IsText(rest[i])
            BY <1>2, <1>3 DEF TextList
        <2>2. /\ rest[i] # <<>> /\ rest[i][1] \in DOMAIN Assigned
              /\ Assigned[rest[i][1]] \in Range(Assigned)
            BY <2>1 DEF Range
        <2>3. Solid(rest[i][1]) /\ Solid(Assigned[rest[i][1]])
            BY <2>2, SolidSymbols
        <2>4. IsText(Tail(rest[i]))
            BY <2>1, <2>2, <2>3, TailText
        <2>5. changes[i].name = Assigned[rest[i][1]] /\ changes[i].value = Tail(rest[i])
            BY <2>1
        <2> HIDE DEF changes
        <2> QED
            BY <2>3, <2>4, <2>5 DEF GoodChange, Solid
    <1> HIDE DEF r, changes, bad
    <1>4. bad = {} => Neat(done)
        BY <1>3, ChangesNeat
    <1> HIDE DEF done
    <1>5. Neat(r)
        BY <1>1, <1>4, NeatResults
    <1> QED
        BY <1>5 DEF r

(* unset.                                                                  *)
LEMMA UnsetNeat ==
    ASSUME NEW args, NEW ctx, NEW t
    PROVE  Neat(Unset(args, ctx, t))
    <1> DEFINE rest == WithoutDashes(args)
               IsName(x) == Len(x) = 1 /\ x[1] \in Range(Assigned)
               bad == {i \in DOMAIN rest : ~IsName(rest[i]) \/ rest[i][1] \in DOMAIN ctx.view.overlay}
               changes == [i \in DOMAIN rest |-> [name |-> rest[i][1], set |-> FALSE, value |-> <<>>]]
               r == Unset(args, ctx, t)
               done == [Success(<<>>) EXCEPT !.changes = changes]
    <1>1. \/ r \in {Invalid, ProtectedValue}
          \/ bad = {} /\ r = done
        <2> DEFINE first == HasInput(ctx) \/ rest = <<>> \/ <<"PWD">> \in Range(rest)
                   named == IsName(rest[Min(bad)])
        <2>1. r = IF first THEN Invalid
                  ELSE IF AnyProtected(rest) THEN ProtectedValue
                  ELSE IF bad # {} THEN IF named THEN ProtectedValue ELSE Invalid
                  ELSE done
            BY Zenon DEF Unset
        <2> HIDE DEF r, bad, named, done, first
        <2> QED
            BY <2>1
    <1> HIDE DEF rest
    <1>2. ASSUME bad = {}, NEW i \in DOMAIN changes PROVE GoodChange(changes[i])
        <2>1. i \in DOMAIN rest /\ rest[i][1] \in Range(Assigned)
            BY <1>2
        <2>2. Solid(rest[i][1])
            BY <2>1, SolidSymbols
        <2>3. changes[i].name = rest[i][1] /\ changes[i].value = <<>>
            BY <2>1
        <2> HIDE DEF changes
        <2> QED
            BY <2>2, <2>3, NoText DEF GoodChange, Solid
    <1> HIDE DEF r, changes, bad
    <1>3. bad = {} => Neat(done)
        BY <1>2, ChangesNeat
    <1> HIDE DEF done
    <1>4. Neat(r)
        BY <1>1, <1>3, NeatResults
    <1> QED
        BY <1>4 DEF r

-----------------------------------------------------------------------------
(* What commands do to the tree.                                           *)

(* A path of names that does not show the secret, and a node.              *)
GoodPath(p) == p \in Seq(Names) /\ ~Protected(p)
GoodNode(node) == node # Dir => IsSeq(node) /\ ~Protected(node)

(* A tree is tidy when each of its nodes is.                               *)
LEMMA TidyBy ==
    ASSUME NEW t, IsFiniteSet(DOMAIN t), \A p \in DOMAIN t : GoodPath(p) /\ GoodNode(t[p])
    PROVE  Tidy(t)
    BY DEF Tidy, GoodPath, GoodNode

(* and then only.                                                          *)
LEMMA TidyHas ==
    ASSUME NEW t, Tidy(t)
    PROVE  IsFiniteSet(DOMAIN t) /\ \A p \in DOMAIN t : GoodPath(p) /\ GoodNode(t[p])
    BY DEF Tidy, GoodPath, GoodNode

(* A directory and an empty file are nodes.                                *)
LEMMA PlainNodes == GoodNode(Dir) /\ GoodNode(<<>>)
    <1> DEFINE s == <<>>
    <1>1. IsSeq(s) /\ DOMAIN s = {}
        BY NoElements
    <1> HIDE DEF s
    <1>2. ~Protected(s)
        BY <1>1 DEF Protected, Range
    <1>3. GoodNode(Dir) /\ GoodNode(s)
        BY <1>1, <1>2 DEF GoodNode
    <1> QED
        BY <1>3 DEF s

(* A part of a good path is one.                                           *)
LEMMA SubPath ==
    ASSUME NEW p, GoodPath(p), NEW a \in 1..(Len(p) + 1), NEW b \in 0..Len(p)
    PROVE  GoodPath(SubSeq(p, a, b))
    <1> DEFINE s == SubSeq(p, a, b)
    <1>1. p \in Seq(Names) /\ IsSeq(p) /\ DOMAIN p = 1..Len(p)
        BY SeqIs, SeqFacts DEF GoodPath
    <1>2. IsSeq(s) /\ \A i \in 1..Len(s) : s[i] = p[a + i - 1] /\ a + i - 1 \in 1..Len(p)
        BY <1>1, SubSeqFacts
    <1> HIDE DEF s
    <1>3. DOMAIN s = 1..Len(s)
        BY <1>2, SeqFacts
    <1>4. \A i \in DOMAIN s : s[i] \in Names
        BY <1>1, <1>2, <1>3
    <1>5. s \in Seq(Names)
        BY <1>2, <1>4, SeqOver
    <1>6. Range(s) \subseteq Range(p)
        BY <1>1, <1>2, <1>3 DEF Range
    <1>7. GoodPath(s)
        BY <1>5, <1>6 DEF GoodPath, Protected
    <1> QED
        BY <1>7 DEF s

(* So is one path behind another.                                          *)
LEMMA PathAppend ==
    ASSUME NEW p, GoodPath(p), NEW q, GoodPath(q)
    PROVE  GoodPath(p \o q)
    <1>1. IsSeq(p) /\ IsSeq(q) /\ p \in Seq(Names) /\ q \in Seq(Names)
        BY SeqIs DEF GoodPath
    <1>2. ~Protected(p \o q)
        BY <1>1, CleanAppend DEF GoodPath
    <1>3. p \o q \in Seq(Names)
        BY <1>1
    <1> QED
        BY <1>2, <1>3 DEF GoodPath

(* What is above a path, in finite number.                                 *)
LEMMA AncestorFacts ==
    ASSUME NEW p, GoodPath(p)
    PROVE  IsFiniteSet(Ancestors(p)) /\ \A q \in Ancestors(p) : GoodPath(q)
    <1>1. Len(p) \in Nat
        BY DEF GoodPath
    <1> DEFINE N == 0..(Len(p) - 1)
               f == [n \in N |-> SubSeq(p, 1, n)]
    <1>2. IsFiniteSet(N)
        BY <1>1, FS_Interval
    <1>3. \A n \in N : 1 \in 1..(Len(p) + 1) /\ n \in 0..Len(p)
        BY <1>1
    <1>4. \A n \in N : GoodPath(SubSeq(p, 1, n))
        BY <1>3, SubPath
    <1> HIDE DEF N
    <1>5. Ancestors(p) = {SubSeq(p, 1, n) : n \in N}
        BY DEF Ancestors, N
    <1>6. f \in Surjection(N, {SubSeq(p, 1, n) : n \in N})
        BY DEF Surjection
    <1>7. IsFiniteSet({SubSeq(p, 1, n) : n \in N})
        BY <1>2, <1>6, FS_Surjection
    <1> QED
        BY <1>4, <1>5, <1>7

(* A node more, the directories above one, and what pruning leaves.        *)
LEMMA PutTidy ==
    ASSUME NEW t, Tidy(t), NEW p, GoodPath(p), NEW node, GoodNode(node)
    PROVE  Tidy(Put(t, p, node))
    <1> DEFINE u == Put(t, p, node)
    <1>1. IsFiniteSet(DOMAIN t) /\ \A q \in DOMAIN t : GoodPath(q) /\ GoodNode(t[q])
        BY TidyHas
    <1>2. DOMAIN u = DOMAIN t \cup {p} /\ \A q \in DOMAIN u : u[q] = IF q = p THEN node ELSE t[q]
        BY DEF Put
    <1> HIDE DEF u
    <1>3. IsFiniteSet(DOMAIN u)
        BY <1>1, <1>2, FS_AddElement
    <1>4. \A q \in DOMAIN u : GoodPath(q) /\ GoodNode(u[q])
        BY <1>1, <1>2
    <1>5. Tidy(u)
        BY <1>3, <1>4, TidyBy
    <1> QED
        BY <1>5 DEF u

(* mkdir -p.                                                               *)
LEMMA ParentsTidy ==
    ASSUME NEW t, Tidy(t), NEW p, GoodPath(p)
    PROVE  Tidy(WithParents(t, p))
    <1> DEFINE u == WithParents(t, p)
    <1>1. IsFiniteSet(DOMAIN t) /\ \A q \in DOMAIN t : GoodPath(q) /\ GoodNode(t[q])
        BY TidyHas
    <1>2. IsFiniteSet(Ancestors(p)) /\ \A q \in Ancestors(p) : GoodPath(q)
        BY AncestorFacts
    <1>3. /\ DOMAIN u = DOMAIN t \cup Ancestors(p)
          /\ \A q \in DOMAIN u : u[q] = IF q \in DOMAIN t THEN t[q] ELSE Dir
        BY DEF WithParents
    <1> HIDE DEF u
    <1>4. IsFiniteSet(DOMAIN u)
        BY <1>1, <1>2, <1>3, FS_Union
    <1>5. \A q \in DOMAIN u : GoodPath(q) /\ GoodNode(u[q])
        BY <1>1, <1>2, <1>3, PlainNodes
    <1>6. Tidy(u)
        BY <1>4, <1>5, TidyBy
    <1> QED
        BY <1>6 DEF u

(* rm -r.                                                                  *)
LEMMA PruneTidy ==
    ASSUME NEW t, Tidy(t), NEW p
    PROVE  Tidy(Prune(t, p))
    <1> DEFINE u == Prune(t, p)
    <1>1. IsFiniteSet(DOMAIN t) /\ \A q \in DOMAIN t : GoodPath(q) /\ GoodNode(t[q])
        BY TidyHas
    <1>2. DOMAIN u \in SUBSET DOMAIN t /\ \A q \in DOMAIN u : u[q] = t[q]
        BY DEF Prune
    <1> HIDE DEF u
    <1>3. IsFiniteSet(DOMAIN u)
        BY <1>1, <1>2, FS_Subset
    <1>4. \A q \in DOMAIN u : GoodPath(q) /\ GoodNode(u[q])
        BY <1>1, <1>2
    <1>5. Tidy(u)
        BY <1>3, <1>4, TidyBy
    <1> QED
        BY <1>5 DEF u

(* A path below another is the other and the rest.                         *)
LEMMA PathWhole ==
    ASSUME NEW s \in Seq(Names), NEW q \in Seq(Names), IsPrefix(s, q)
    PROVE  s \o Rest(s, q) = q
    <1> DEFINE n == Len(s)
               r == Rest(s, q)
               v == s \o r
    <1>1. IsSeq(s) /\ IsSeq(q) /\ n \in Nat /\ Len(q) \in Nat /\ n <= Len(q)
        BY SeqIs DEF IsPrefix
    <1>2. \A i \in 1..n : s[i] = q[i]
        <2>1. s = SubSeq(q, 1, n)
            BY DEF IsPrefix
        <2>2. n \in 0..Len(q)
            BY <1>1
        <2> HIDE DEF n
        <2> QED
            BY <1>1, <2>1, <2>2, FirstElements
    <1>3. n + 1 \in 1..(Len(q) + 1) /\ Len(q) \in 0..Len(q)
        BY <1>1
    <1>4. r = SubSeq(q, n + 1, Len(q))
        BY DEF Rest
    <1> HIDE DEF n, r
    <1>5. /\ IsSeq(r) /\ Len(r) = (IF n + 1 <= Len(q) THEN Len(q) - (n + 1) + 1 ELSE 0)
          /\ \A i \in 1..Len(r) : r[i] = q[n + 1 + i - 1]
        BY <1>1, <1>3, <1>4, SubSeqFacts
    <1>6. Len(r) = Len(q) - n
        BY <1>1, <1>5
    <1>7. \A i \in 1..Len(r) : r[i] = q[n + i]
        BY <1>1, <1>5
    <1>8. Joins(s, r, v)
        BY DEF Joins
    <1> HIDE DEF v
    <1>14. IsSeq(s) /\ IsSeq(r)
        BY <1>1, <1>5
    <1>9. /\ IsSeq(v) /\ Len(v) = Len(s) + Len(r)
          /\ \A i \in 1..Len(s) : v[i] = s[i]
          /\ \A i \in 1..Len(r) : v[Len(s) + i] = r[i]
        BY <1>8, <1>14, Joined
    <1>10. n = Len(s)
        BY DEF n
    <1>11. Len(v) = Len(q)
        BY <1>1, <1>6, <1>9, <1>10
    <1>12. ASSUME NEW i \in 1..Len(v) PROVE v[i] = q[i]
        <2>1. CASE i <= n
            <3>1. i \in 1..n
                BY <1>1, <2>1
            <3> QED
                BY <1>2, <1>9, <1>10, <3>1
        <2>2. CASE i > n
            <3> DEFINE j == i - n
            <3>1. j \in 1..Len(r) /\ i = n + j
                BY <1>1, <1>6, <1>11, <2>2
            <3> HIDE DEF j
            <3> QED
                BY <1>7, <1>9, <1>10, <3>1
        <2> QED
            BY <1>1, <2>1, <2>2
    <1>13. v = q
        BY <1>1, <1>9, <1>11, <1>12, SameElements
    <1> QED
        BY <1>13 DEF v, r

(* The rest of a path built from a rest is that rest.                      *)
LEMMA RestOfJoined ==
    ASSUME NEW p \in Seq(Names), NEW r \in Seq(Names)
    PROVE  Rest(p, p \o r) = r
    <1> DEFINE v == p \o r
               n == Len(p)
               u == SubSeq(v, n + 1, Len(v))
    <1>1. IsSeq(p) /\ IsSeq(r) /\ n \in Nat /\ Len(r) \in Nat
        BY SeqIs
    <1>2. Joins(p, r, v)
        BY DEF Joins
    <1>3. Rest(p, v) = u
        BY DEF Rest
    <1> HIDE DEF v
    <1>4. /\ IsSeq(v) /\ Len(v) = n + Len(r)
          /\ \A i \in 1..Len(r) : v[n + i] = r[i]
        BY <1>1, <1>2, Joined
    <1> HIDE DEF n
    <1>5. n + 1 \in 1..(Len(v) + 1) /\ Len(v) \in 0..Len(v)
        BY <1>1, <1>4
    <1>6. /\ IsSeq(u) /\ Len(u) = (IF n + 1 <= Len(v) THEN Len(v) - (n + 1) + 1 ELSE 0)
          /\ \A i \in 1..Len(u) : u[i] = v[n + 1 + i - 1]
        BY <1>4, <1>5, SubSeqFacts
    <1> HIDE DEF u
    <1>7. Len(u) = Len(r)
        BY <1>1, <1>4, <1>6
    <1>8. \A i \in 1..Len(u) : n + 1 + i - 1 = n + i
        BY <1>1
    <1>9. \A i \in 1..Len(u) : u[i] = r[i]
        BY <1>4, <1>6, <1>7, <1>8
    <1>10. u = r
        BY <1>1, <1>6, <1>7, <1>9, SameElements
    <1> QED
        BY <1>3, <1>10 DEF v

(* cp -r and mv.                                                           *)
LEMMA GraftTidy ==
    ASSUME NEW t, Tidy(t), NEW p, GoodPath(p), NEW from, Tidy(from), NEW s, GoodPath(s)
    PROVE  Tidy(Graft(t, p, from, s))
    <1> DEFINE base == Prune(t, p)
               Q == Subtree(from, s)
               Moved(q) == p \o Rest(s, q)
               new == {Moved(q) : q \in Q}
               u == Graft(t, p, from, s)
    <1>1. /\ IsFiniteSet(DOMAIN from) /\ \A q \in DOMAIN from : GoodPath(q) /\ GoodNode(from[q])
          /\ IsFiniteSet(DOMAIN base) /\ \A q \in DOMAIN base : GoodPath(q) /\ GoodNode(base[q])
        BY PruneTidy, TidyHas
    <1>2. /\ DOMAIN u = DOMAIN base \cup new
          /\ \A q \in DOMAIN u : u[q] = IF q \in new THEN from[s \o Rest(p, q)] ELSE base[q]
        BY DEF Graft
    <1>3. \A q \in Q : q \in DOMAIN from /\ IsPrefix(s, q) /\ GoodPath(q)
        BY <1>1 DEF Subtree
    <1>4. Q \in SUBSET DOMAIN from
        BY <1>3
    <1> HIDE DEF u, base, Q
    <1>5. ASSUME NEW q \in Q PROVE GoodPath(Rest(s, q))
        <2>1. q \in Seq(Names) /\ s \in Seq(Names) /\ IsPrefix(s, q)
            BY <1>3 DEF GoodPath
        <2>2. Len(s) + 1 \in 1..(Len(q) + 1) /\ Len(q) \in 0..Len(q)
            BY <2>1 DEF IsPrefix
        <2> QED
            BY <1>3, <2>2, SubPath DEF Rest
    <1>6. ASSUME NEW q \in Q PROVE GoodPath(Moved(q)) /\ s \o Rest(p, Moved(q)) = q
        <2>1. /\ q \in Seq(Names) /\ s \in Seq(Names) /\ p \in Seq(Names) /\ IsPrefix(s, q)
              /\ Rest(s, q) \in Seq(Names)
            BY <1>3, <1>5 DEF GoodPath
        <2>2. Rest(p, Moved(q)) = Rest(s, q)
            BY <2>1, RestOfJoined
        <2>3. s \o Rest(s, q) = q
            BY <2>1, PathWhole
        <2>4. GoodPath(Moved(q))
            BY <1>5, PathAppend
        <2> HIDE DEF Moved
        <2> QED
            BY <2>2, <2>3, <2>4
    <1> HIDE DEF Moved
    <1>7. IsFiniteSet(new)
        <2> DEFINE f == [q \in Q |-> Moved(q)]
        <2>1. f \in Surjection(Q, new)
            BY DEF Surjection
        <2>2. IsFiniteSet(Q)
            BY <1>1, <1>4, FS_Subset
        <2> HIDE DEF f, new
        <2> QED
            BY <2>1, <2>2, FS_Surjection
    <1>8. \A q \in new : GoodPath(q) /\ GoodNode(from[s \o Rest(p, q)])
        BY <1>1, <1>3, <1>6
    <1> HIDE DEF new
    <1>9. IsFiniteSet(DOMAIN u)
        BY <1>1, <1>2, <1>7, FS_Union
    <1>10. \A q \in DOMAIN u : GoodPath(q) /\ GoodNode(u[q])
        BY <1>1, <1>2, <1>8
    <1>11. Tidy(u)
        BY <1>9, <1>10, TidyBy
    <1> QED
        BY <1>11 DEF u

(* A refused mutation leaves the tree as it was.                           *)
LEMMA MutatedTidy ==
    ASSUME NEW t, Tidy(t), NEW may, NEW new, may => Tidy(new)
    PROVE  Tidy(Mutated(t, may, new).tree)
    <1>1. Mutated(t, may, new).tree = t \/ (may /\ Mutated(t, may, new).tree = new)
        BY DEF Mutated
    <1> QED
        BY <1>1

(* Writing.                                                                *)
LEMMA WriteTidy ==
    ASSUME NEW t, Tidy(t), NEW p, GoodPath(p), NEW content, GoodNode(content)
    PROVE  Tidy(WriteNode(t, p, content).tree)
    BY PutTidy, MutatedTidy DEF WriteNode

(* Appending.                                                              *)
LEMMA AppendTidy ==
    ASSUME NEW t, Tidy(t), NEW p, GoodPath(p), NEW content, IsSeq(content), ~Protected(content)
    PROVE  Tidy(AppendNode(t, p, content).tree)
    <1> DEFINE old == IF IsFile(t, p) THEN t[p] ELSE <<>>
    <1>1. IsSeq(old) /\ ~Protected(old)
        <2>1. IsFile(t, p) => IsSeq(t[p]) /\ ~Protected(t[p])
            BY DEF Tidy, IsFile
        <2>2. IsSeq(<<>>) /\ ~Protected(<<>>)
            BY NoElements DEF Protected, Range
        <2> QED
            BY <2>1, <2>2
    <1> HIDE DEF old
    <1>2. IsSeq(old \o content)
        BY <1>1, Concatenation
    <1>3. ~Protected(old \o content)
        BY <1>1, CleanAppend
    <1>4. GoodNode(old \o content)
        BY <1>2, <1>3 DEF GoodNode
    <1>5. AppendNode(t, p, content) = WriteNode(t, p, old \o content)
        BY DEF AppendNode, old
    <1> QED
        BY <1>4, <1>5, WriteTidy

(* A path that an operand names.                                           *)
LEMMA OperandPath ==
    ASSUME NEW x, IsText(x), ~Protected(x), NEW cwd, GoodPath(cwd), Resolves(x, cwd)
    PROVE  GoodPath(PathOf(x, cwd))
    BY TextIs, PathFacts DEF GoodPath

(* One operand of each mutating command.                                   *)
LEMMA MkdirTidy ==
    ASSUME NEW s, Tidy(s), NEW x, IsText(x), ~Protected(x), NEW cwd, GoodPath(cwd), NEW parents
    PROVE  Tidy(MkdirOperand(s, x, cwd, parents).tree)
    <1> DEFINE p == PathOf(x, cwd)
    <1>1. ASSUME Resolves(x, cwd) PROVE Tidy(MakeDirectory(s, p, parents).tree)
        <2>1. GoodPath(p)
            BY <1>1, OperandPath
        <2> HIDE DEF p
        <2>2. Tidy(Put(WithParents(s, p), p, Dir))
            BY <2>1, ParentsTidy, PutTidy, PlainNodes
        <2> DEFINE may == p \notin DOMAIN s /\ HasParent(s, p, parents)
        <2>3. \/ MakeDirectory(s, p, parents).tree = s
              \/ MakeDirectory(s, p, parents) = Mutated(s, may, Put(WithParents(s, p), p, Dir))
            BY DEF MakeDirectory
        <2> QED
            BY <2>2, <2>3, MutatedTidy
    <1>2. Unchanged(s).tree = s
        BY DEF Unchanged
    <1> QED
        BY <1>1, <1>2 DEF MkdirOperand

(* touch.                                                                  *)
LEMMA TouchTidy ==
    ASSUME NEW s, Tidy(s), NEW x, IsText(x), ~Protected(x), NEW cwd, GoodPath(cwd)
    PROVE  Tidy(TouchOperand(s, x, cwd).tree)
    <1> DEFINE p == PathOf(x, cwd)
               r == TouchOperand(s, x, cwd)
    <1>1. \/ r = Unchanged(s)
          \/ r = [ok |-> TRUE, tree |-> s]
          \/ Resolves(x, cwd) /\ r = WriteNode(s, p, <<>>)
        BY DEF TouchOperand
    <1>2. Resolves(x, cwd) => GoodPath(p)
        BY OperandPath
    <1> HIDE DEF p
    <1>3. Resolves(x, cwd) => Tidy(WriteNode(s, p, <<>>).tree)
        BY <1>2, WriteTidy, PlainNodes
    <1> HIDE DEF r
    <1>4. Tidy(r.tree)
        BY <1>1, <1>3 DEF Unchanged
    <1> QED
        BY <1>4 DEF r

(* rm.                                                                     *)
LEMMA RmTidy ==
    ASSUME NEW s, Tidy(s), NEW x, NEW cwd, NEW flags
    PROVE  Tidy(RmOperand(s, x, cwd, flags).tree)
    <1> DEFINE p == PathOf(x, cwd)
    <1>1. \A recursive, force : Tidy(RemoveNode(s, p, recursive, force).tree)
        <2> TAKE recursive, force
        <2> DEFINE may == p # Root /\ p \in DOMAIN s /\ (recursive \/ Subtree(s, p) = {p})
        <2>1. \/ RemoveNode(s, p, recursive, force).tree = s
              \/ RemoveNode(s, p, recursive, force) = Mutated(s, may, Prune(s, p))
            BY DEF RemoveNode
        <2> QED
            BY <2>1, PruneTidy, MutatedTidy
    <1>2. Unchanged(s).tree = s
        BY DEF Unchanged
    <1> QED
        BY <1>1, <1>2 DEF RmOperand

(* One source of cp or mv.                                                 *)
LEMMA TransferTidy ==
    ASSUME NEW s, Tidy(s), NEW x, IsText(x), ~Protected(x), NEW d, GoodPath(d), NEW into,
           NEW cwd, GoodPath(cwd), NEW recursive, NEW move
    PROVE  Tidy(TransferOperand(s, x, d, into, cwd, recursive, move).tree)
    <1> DEFINE p == PathOf(x, cwd)
               exact == IF into THEN d \o (IF p = Root THEN <<"workspace">> ELSE <<p[Len(p)]>>) ELSE d
               r == TransferOperand(s, x, d, into, cwd, recursive, move)
    <1>1. r = Unchanged(s) \/ (Resolves(x, cwd) /\ r = TransferNode(s, p, exact, move))
        BY DEF TransferOperand
    <1>2. ASSUME Resolves(x, cwd) PROVE Tidy(TransferNode(s, p, exact, move).tree)
        <2>1. GoodPath(p)
            BY <1>2, OperandPath
        <2> HIDE DEF p
        <2>2. p # Root => GoodPath(exact)
            <3> SUFFICES ASSUME p # Root PROVE GoodPath(exact)
                OBVIOUS
            <3> DEFINE z == p[Len(p)]
                       last == <<z>>
            <3>1. Len(p) \in DOMAIN p /\ z \in Names /\ z \in Range(p)
                <4>1. p \in Seq(Names) /\ IsSeq(p) /\ p # <<>>
                    BY <2>1, SeqIs DEF GoodPath, Root
                <4>2. Len(p) \in Nat /\ DOMAIN p = 1..Len(p) /\ Len(p) # 0
                    BY <4>1, SeqFacts
                <4>3. Len(p) \in DOMAIN p
                    BY <4>2
                <4> QED
                    BY <4>1, <4>3 DEF Range
            <3>2. z # Secret
                BY <2>1, <3>1 DEF GoodPath, Protected
            <3> HIDE DEF z
            <3>3. last \in Seq(Names)
                BY <3>1
            <3>4. ~Protected(last)
                BY <3>2, OneText DEF Protected, Range
            <3>5. exact = IF into THEN d \o last ELSE d
                BY DEF z
            <3> HIDE DEF last, exact
            <3>6. GoodPath(last)
                BY <3>3, <3>4 DEF GoodPath
            <3>7. GoodPath(d \o last)
                BY <3>6, PathAppend
            <3> QED
                BY <3>5, <3>7
        <2> HIDE DEF exact
        <2> DEFINE may == /\ p # Root /\ exact # Root /\ ~IsPrefix(p, exact) /\ ~IsPrefix(exact, p)
                          /\ p \in DOMAIN s /\ HasParent(s, exact, FALSE)
                   base == IF move THEN Prune(s, p) ELSE s
                   new == Graft(base, exact, s, p)
        <2>3. TransferNode(s, p, exact, move) = Mutated(s, may, new)
            BY DEF TransferNode
        <2>4. Tidy(base)
            BY PruneTidy
        <2> HIDE DEF base
        <2>5. may => Tidy(new)
            BY <2>1, <2>2, <2>4, GraftTidy
        <2> HIDE DEF may, new
        <2> QED
            BY <2>3, <2>5, MutatedTidy
    <1> HIDE DEF r, p, exact
    <1>3. Tidy(r.tree)
        BY <1>1, <1>2 DEF Unchanged
    <1> QED
        BY <1>3 DEF r

(* The operands one by one: what the workspace holds is tidy each time.    *)
Start(t) == [ok |-> TRUE, tree |-> t, trees |-> <<>>]
Applied(h, t, n) ==
    /\ h[0] = Start(t)
    /\ \A k \in 1..n : \E r : /\ h[k] = Taken(h[k - 1], r)
                              /\ Tidy(h[k - 1].tree) => Tidy(r.tree)
Answer(end) == [(IF end.ok THEN Success(<<>>) ELSE Failure(<<>>)) EXCEPT !.trees = end.trees]

(* One operand more.                                                       *)
LEMMA TakenTidy ==
    ASSUME NEW s, Tidy(s.tree), TidyTrees(s.trees), NEW r, Tidy(r.tree)
    PROVE  Tidy(Taken(s, r).tree) /\ TidyTrees(Taken(s, r).trees)
    <1> DEFINE u == Taken(s, r)
    <1>1. \/ u = s
          \/ /\ u.tree = r.tree
             /\ u.trees = s.trees \/ u.trees = Append(s.trees, r.tree)
        BY DEF Taken
    <1>2. TidyTrees(Append(s.trees, r.tree))
        <2> DEFINE a == Append(s.trees, r.tree)
        <2>1. /\ IsSeq(s.trees) /\ Len(s.trees) \in Nat /\ DOMAIN s.trees = 1..Len(s.trees)
              /\ \A i \in DOMAIN s.trees : Tidy(s.trees[i])
            BY SeqFacts DEF TidyTrees
        <2>2. /\ IsSeq(a) /\ Len(a) = Len(s.trees) + 1
              /\ \A i \in 1..Len(s.trees) : a[i] = s.trees[i]
              /\ a[Len(s.trees) + 1] = r.tree
            BY <2>1, SeqFacts
        <2> HIDE DEF a
        <2>3. DOMAIN a = 1..(Len(s.trees) + 1)
            BY <2>2, SeqFacts
        <2>4. \A i \in DOMAIN a : i \in 1..Len(s.trees) \/ i = Len(s.trees) + 1
            BY <2>1, <2>3
        <2>5. \A i \in DOMAIN a : Tidy(a[i])
            BY <2>1, <2>2, <2>4
        <2>6. TidyTrees(a)
            BY <2>2, <2>5 DEF TidyTrees
        <2> QED
            BY <2>6 DEF a
    <1> HIDE DEF u
    <1>3. Tidy(u.tree) /\ TidyTrees(u.trees)
        BY <1>1, <1>2
    <1> QED
        BY <1>3 DEF u

(* All of them.                                                            *)
LEMMA AppliedNeat ==
    ASSUME NEW t, Tidy(t), NEW n \in Nat, NEW h, Applied(h, t, n)
    PROVE  Neat(Answer(h[n]))
    <1> DEFINE T == {k \in 0..n : Tidy(h[k].tree) /\ TidyTrees(h[k].trees)}
    <1>1. 0 \in T
        <2>1. h[0].tree = t /\ h[0].trees = <<>>
            BY DEF Applied, Start
        <2>2. TidyTrees(h[0].trees)
            BY <2>1, NoElements DEF TidyTrees
        <2> QED
            BY <2>1, <2>2
    <1>2. ASSUME NEW k \in 1..n, k - 1 \in T PROVE k \in T
        <2>1. Tidy(h[k - 1].tree) /\ TidyTrees(h[k - 1].trees) /\ k \in 0..n
            BY <1>2
        <2>2. PICK r : h[k] = Taken(h[k - 1], r) /\ (Tidy(h[k - 1].tree) => Tidy(r.tree))
            BY DEF Applied
        <2>3. Tidy(h[k].tree) /\ TidyTrees(h[k].trees)
            BY <2>1, <2>2, TakenTidy
        <2> QED
            BY <2>1, <2>3
    <1> HIDE DEF T
    <1>3. n \in T
        BY <1>1, <1>2, LeastFailure DEF T
    <1>4. TidyTrees(h[n].trees)
        BY <1>3 DEF T
    <1> DEFINE end == h[n]
               plain == IF end.ok THEN Success(<<>>) ELSE Failure(<<>>)
               r == Answer(end)
    <1>5. Plain(plain) /\ Neat(plain)
        BY PlainResults, NeatResults
    <1>6. r = [plain EXCEPT !.trees = end.trees]
        BY DEF Answer
    <1>7. TidyTrees(end.trees)
        BY <1>4
    <1> HIDE DEF end, plain, r
    <1>8. /\ r.out = plain.out /\ r.err = plain.err /\ r.moves = plain.moves /\ r.cwd = plain.cwd
          /\ r.changes = plain.changes /\ r.trees = end.trees
        BY <1>5, <1>6 DEF Plain, Still, ResultFields
    <1>9. Neat(r)
        BY <1>5, <1>7, <1>8 DEF Neat, Printed
    <1> QED
        BY <1>9 DEF r, end

(* mkdir with each of its operands.                                        *)
MkdirEach(t, operands, cwd, parents) ==
    EachOperand(t, operands, LAMBDA s, x : MkdirOperand(s, x, cwd, parents))

(* The fold behind it ends in the last of the states between operands.     *)
LEMMA MkdirFold ==
    ASSUME NEW operands, IsSeq(operands), NEW t, NEW cwd, NEW parents
    PROVE  \E h : /\ h[0] = Start(t)
                  /\ \A k \in 1..Len(operands) :
                       h[k] = Taken(h[k - 1], MkdirOperand(h[k - 1].tree, operands[k], cwd, parents))
                  /\ MkdirEach(t, operands, cwd, parents) = Answer(h[Len(operands)])
    <1> DEFINE base == Start(t)
               n == Len(operands)
               p == [cwd |-> cwd, parents |-> parents]
               seq == operands
               Iter(g) == g = [s \in SUBSET DOMAIN seq |-> IF s = {} THEN base
                                 ELSE Taken(g[s \ {Max(s)}],
                                        MkdirOperand(g[s \ {Max(s)}].tree, seq[Max(s)], cwd, parents))]
               it == CHOOSE g : Iter(g)
    <1>1. MkdirEach(t, operands, cwd, parents) = Answer(it[DOMAIN seq])
        BY Zenon DEF MkdirEach, EachOperand, FoldLeft, MapThenFoldSet, Answer, Start
    <1>2. n \in Nat /\ DOMAIN seq = 1..n
        BY SeqFacts
    <1> HIDE DEF n, base, seq
    <1>3. \A g : Iter(g) <=> Iterates(g, "mkdir", p, base, seq, n)
        BY <1>2 DEF Iterates, Folded
    <1> HIDE DEF Iter, p
    <1>4. Iterates(it, "mkdir", p, base, seq, n)
        BY <1>2, <1>3, FoldExists
    <1> HIDE DEF it
    <1>5. \A s, x : Folded("mkdir", p, s, x) = Taken(s, MkdirOperand(s.tree, x, cwd, parents))
        BY DEF Folded, p
    <1>6. PICK h : States(h, "mkdir", p, base, seq, n, it)
        BY <1>2, <1>4, FoldStates
    <1>7. \A k \in 1..n : h[k] = Taken(h[k - 1], MkdirOperand(h[k - 1].tree, seq[k], cwd, parents))
        BY <1>5, <1>6 DEF States
    <1> QED
        BY <1>1, <1>2, <1>6, <1>7 DEF base, n, seq, States

(* touch with each of its operands.                                        *)
TouchEach(t, operands, cwd) ==
    EachOperand(t, operands, LAMBDA s, x : TouchOperand(s, x, cwd))

(* So does that of touch,                                                  *)
LEMMA TouchFold ==
    ASSUME NEW operands, IsSeq(operands), NEW t, NEW cwd
    PROVE  \E h : /\ h[0] = Start(t)
                  /\ \A k \in 1..Len(operands) :
                       h[k] = Taken(h[k - 1], TouchOperand(h[k - 1].tree, operands[k], cwd))
                  /\ TouchEach(t, operands, cwd) = Answer(h[Len(operands)])
    <1> DEFINE base == Start(t)
               n == Len(operands)
               p == [cwd |-> cwd]
               seq == operands
               Iter(g) == g = [s \in SUBSET DOMAIN seq |-> IF s = {} THEN base
                                 ELSE Taken(g[s \ {Max(s)}],
                                        TouchOperand(g[s \ {Max(s)}].tree, seq[Max(s)], cwd))]
               it == CHOOSE g : Iter(g)
    <1>1. TouchEach(t, operands, cwd) = Answer(it[DOMAIN seq])
        BY Zenon DEF TouchEach, EachOperand, FoldLeft, MapThenFoldSet, Answer, Start
    <1>2. n \in Nat /\ DOMAIN seq = 1..n
        BY SeqFacts
    <1> HIDE DEF n, base, seq
    <1>3. \A g : Iter(g) <=> Iterates(g, "touch", p, base, seq, n)
        BY <1>2 DEF Iterates, Folded
    <1> HIDE DEF Iter, p
    <1>4. Iterates(it, "touch", p, base, seq, n)
        BY <1>2, <1>3, FoldExists
    <1> HIDE DEF it
    <1>5. \A s, x : Folded("touch", p, s, x) = Taken(s, TouchOperand(s.tree, x, cwd))
        BY DEF Folded, p
    <1>6. PICK h : States(h, "touch", p, base, seq, n, it)
        BY <1>2, <1>4, FoldStates
    <1>7. \A k \in 1..n : h[k] = Taken(h[k - 1], TouchOperand(h[k - 1].tree, seq[k], cwd))
        BY <1>5, <1>6 DEF States
    <1> QED
        BY <1>1, <1>2, <1>6, <1>7 DEF base, n, seq, States

(* rm with each of its operands.                                           *)
RmEach(t, operands, cwd, flags) ==
    EachOperand(t, operands, LAMBDA s, x : RmOperand(s, x, cwd, flags))

(* that of rm,                                                             *)
LEMMA RmFold ==
    ASSUME NEW operands, IsSeq(operands), NEW t, NEW cwd, NEW flags
    PROVE  \E h : /\ h[0] = Start(t)
                  /\ \A k \in 1..Len(operands) :
                       h[k] = Taken(h[k - 1], RmOperand(h[k - 1].tree, operands[k], cwd, flags))
                  /\ RmEach(t, operands, cwd, flags) = Answer(h[Len(operands)])
    <1> DEFINE base == Start(t)
               n == Len(operands)
               p == [cwd |-> cwd, flags |-> flags]
               seq == operands
               Iter(g) == g = [s \in SUBSET DOMAIN seq |-> IF s = {} THEN base
                                 ELSE Taken(g[s \ {Max(s)}],
                                        RmOperand(g[s \ {Max(s)}].tree, seq[Max(s)], cwd, flags))]
               it == CHOOSE g : Iter(g)
    <1>1. RmEach(t, operands, cwd, flags) = Answer(it[DOMAIN seq])
        BY Zenon DEF RmEach, EachOperand, FoldLeft, MapThenFoldSet, Answer, Start
    <1>2. n \in Nat /\ DOMAIN seq = 1..n
        BY SeqFacts
    <1> HIDE DEF n, base, seq
    <1>3. \A g : Iter(g) <=> Iterates(g, "rm", p, base, seq, n)
        BY <1>2 DEF Iterates, Folded
    <1> HIDE DEF Iter, p
    <1>4. Iterates(it, "rm", p, base, seq, n)
        BY <1>2, <1>3, FoldExists
    <1> HIDE DEF it
    <1>5. \A s, x : Folded("rm", p, s, x) = Taken(s, RmOperand(s.tree, x, cwd, flags))
        BY DEF Folded, p
    <1>6. PICK h : States(h, "rm", p, base, seq, n, it)
        BY <1>2, <1>4, FoldStates
    <1>7. \A k \in 1..n : h[k] = Taken(h[k - 1], RmOperand(h[k - 1].tree, seq[k], cwd, flags))
        BY <1>5, <1>6 DEF States
    <1> QED
        BY <1>1, <1>2, <1>6, <1>7 DEF base, n, seq, States

(* cp and mv with each of their sources.                                   *)
TransferEach(t, operands, d, into, cwd, recursive, move) ==
    EachOperand(t, operands, LAMBDA s, x : TransferOperand(s, x, d, into, cwd, recursive, move))

(* and that of cp and mv.                                                  *)
LEMMA TransferFold ==
    ASSUME NEW operands, IsSeq(operands), NEW t, NEW d, NEW into, NEW cwd, NEW recursive, NEW move
    PROVE  \E h : /\ h[0] = Start(t)
                  /\ \A k \in 1..Len(operands) :
                       h[k] = Taken(h[k - 1], TransferOperand(h[k - 1].tree, operands[k], d, into, cwd, recursive, move))
                  /\ TransferEach(t, operands, d, into, cwd, recursive, move) = Answer(h[Len(operands)])
    <1> DEFINE base == Start(t)
               n == Len(operands)
               p == [d |-> d, into |-> into, cwd |-> cwd, recursive |-> recursive, move |-> move]
               seq == operands
               Iter(g) == g = [s \in SUBSET DOMAIN seq |-> IF s = {} THEN base
                                 ELSE Taken(g[s \ {Max(s)}],
                                        TransferOperand(g[s \ {Max(s)}].tree, seq[Max(s)], d, into, cwd, recursive, move))]
               it == CHOOSE g : Iter(g)
    <1>1. TransferEach(t, operands, d, into, cwd, recursive, move) = Answer(it[DOMAIN seq])
        BY Zenon DEF TransferEach, EachOperand, FoldLeft, MapThenFoldSet, Answer, Start
    <1>2. n \in Nat /\ DOMAIN seq = 1..n
        BY SeqFacts
    <1> HIDE DEF n, base, seq
    <1>3. \A g : Iter(g) <=> Iterates(g, "transfer", p, base, seq, n)
        BY <1>2 DEF Iterates, Folded
    <1> HIDE DEF Iter, p
    <1>4. Iterates(it, "transfer", p, base, seq, n)
        BY <1>2, <1>3, FoldExists
    <1> HIDE DEF it
    <1>5. \A s, x : Folded("transfer", p, s, x) = Taken(s, TransferOperand(s.tree, x, d, into, cwd, recursive, move))
        BY DEF Folded, p
    <1>6. PICK h : States(h, "transfer", p, base, seq, n, it)
        BY <1>2, <1>4, FoldStates
    <1>7. \A k \in 1..n : h[k] = Taken(h[k - 1], TransferOperand(h[k - 1].tree, seq[k], d, into, cwd, recursive, move))
        BY <1>5, <1>6 DEF States
    <1> QED
        BY <1>1, <1>2, <1>6, <1>7 DEF base, n, seq, States

(* Operands that do not show the secret, each of them.                     *)
LEMMA CleanOperands ==
    ASSUME NEW args, TextList(args), ~AnyProtected(args)
    PROVE  /\ IsSeq(args) /\ Len(args) \in Nat
           /\ \A k \in 1..Len(args) : IsText(args[k]) /\ ~Protected(args[k])
    <1>1. IsSeq(args) /\ Len(args) \in Nat /\ DOMAIN args = 1..Len(args)
        BY SeqFacts DEF TextList
    <1>2. \A k \in DOMAIN args : args[k] \in Range(args)
        BY DEF Range
    <1> QED
        BY <1>1, <1>2 DEF TextList, AnyProtected

(* mkdir.                                                                  *)
LEMMA MkdirNeat ==
    ASSUME NEW args, TextList(args), NEW ctx, GoodContext(ctx), NEW t, Tidy(t)
    PROVE  Neat(Mkdir(args, ctx, t))
    <1> DEFINE parents == args # <<>> /\ args[1] = <<"-p">>
               rest == IF parents THEN Tail(args) ELSE args
               operands == WithoutDashes(rest)
               n == Len(operands)
               r == Mkdir(args, ctx, t)
               each == MkdirEach(t, operands, ctx.cwd, parents)
    <1>1. r \in {Invalid, ProtectedValue} \/ (~AnyProtected(operands) /\ r = each)
        <2>1. r = IF HasInput(ctx) \/ operands = <<>> THEN Invalid
                  ELSE IF operands = rest /\ \E x \in Range(rest) : Dashed(x) THEN Invalid
                  ELSE IF AnyProtected(operands) THEN ProtectedValue
                  ELSE each
            BY Zenon DEF Mkdir, MkdirEach
        <2> HIDE DEF each, r, operands, rest
        <2> QED
            BY <2>1
    <1>2. TextList(operands)
        <2>1. TextList(rest)
            BY PartsOfList
        <2> HIDE DEF rest
        <2> QED
            BY <2>1, OperandList
    <1>3. ASSUME ~AnyProtected(operands) PROVE Neat(each)
        <2> HIDE DEF operands, parents
        <2>1. /\ IsSeq(operands) /\ n \in Nat
              /\ \A k \in 1..n : IsText(operands[k]) /\ ~Protected(operands[k])
            BY <1>2, <1>3, CleanOperands
        <2>2. PICK h : /\ h[0] = Start(t)
                       /\ \A k \in 1..n :
                            h[k] = Taken(h[k - 1], MkdirOperand(h[k - 1].tree, operands[k], ctx.cwd, parents))
                       /\ each = Answer(h[n])
            BY <2>1, MkdirFold
        <2> HIDE DEF each, n
        <2>3. \A k \in 1..n : Tidy(h[k - 1].tree) =>
                 Tidy(MkdirOperand(h[k - 1].tree, operands[k], ctx.cwd, parents).tree)
            BY <2>1, MkdirTidy DEF GoodContext, GoodPath
        <2>4. Applied(h, t, n)
            BY <2>2, <2>3 DEF Applied
        <2> QED
            BY <2>1, <2>2, <2>4, AppliedNeat
    <1> HIDE DEF r, each, operands
    <1>4. Neat(r)
        BY <1>1, <1>3, NeatResults
    <1> QED
        BY <1>4 DEF r

(* touch.                                                                  *)
LEMMA TouchNeat ==
    ASSUME NEW args, TextList(args), NEW ctx, GoodContext(ctx), NEW t, Tidy(t)
    PROVE  Neat(Touch(args, ctx, t))
    <1> DEFINE operands == WithoutDashes(args)
               n == Len(operands)
               r == Touch(args, ctx, t)
               each == TouchEach(t, operands, ctx.cwd)
    <1>1. r \in {Invalid, ProtectedValue} \/ (~AnyProtected(operands) /\ r = each)
        <2>1. r = IF HasInput(ctx) \/ operands = <<>> THEN Invalid
                  ELSE IF operands = args /\ \E x \in Range(args) : Dashed(x) THEN Invalid
                  ELSE IF AnyProtected(operands) THEN ProtectedValue
                  ELSE each
            BY Zenon DEF Touch, TouchEach
        <2> HIDE DEF each, r, operands
        <2> QED
            BY <2>1
    <1>2. TextList(operands)
        BY OperandList
    <1>3. ASSUME ~AnyProtected(operands) PROVE Neat(each)
        <2> HIDE DEF operands
        <2>1. /\ IsSeq(operands) /\ n \in Nat
              /\ \A k \in 1..n : IsText(operands[k]) /\ ~Protected(operands[k])
            BY <1>2, <1>3, CleanOperands
        <2>2. PICK h : /\ h[0] = Start(t)
                       /\ \A k \in 1..n :
                            h[k] = Taken(h[k - 1], TouchOperand(h[k - 1].tree, operands[k], ctx.cwd))
                       /\ each = Answer(h[n])
            BY <2>1, TouchFold
        <2> HIDE DEF each, n
        <2>3. \A k \in 1..n : Tidy(h[k - 1].tree) =>
                 Tidy(TouchOperand(h[k - 1].tree, operands[k], ctx.cwd).tree)
            BY <2>1, TouchTidy DEF GoodContext, GoodPath
        <2>4. Applied(h, t, n)
            BY <2>2, <2>3 DEF Applied
        <2> QED
            BY <2>1, <2>2, <2>4, AppliedNeat
    <1> HIDE DEF r, each, operands
    <1>4. Neat(r)
        BY <1>1, <1>3, NeatResults
    <1> QED
        BY <1>4 DEF r

(* rm.                                                                     *)
LEMMA RmNeat ==
    ASSUME NEW args, TextList(args), NEW ctx, GoodContext(ctx), NEW t, Tidy(t)
    PROVE  Neat(Rm(args, ctx, t))
    <1> DEFINE o == Options(args, {"r", "R", "f"}, FALSE)
               operands == o.operands
               flags == o.flags
               n == Len(operands)
               r == Rm(args, ctx, t)
               each == RmEach(t, operands, ctx.cwd, flags)
    <1>1. r \in {Invalid, ProtectedValue, each}
        <2>1. r = IF HasInput(ctx) \/ ~o.ok \/ o.operands = <<>> THEN Invalid
                  ELSE IF AnyProtected(o.operands) THEN ProtectedValue
                  ELSE each
            BY Zenon DEF Rm, RmEach
        <2> HIDE DEF each, r, o
        <2> QED
            BY <2>1
    <1>2. IsSeq(operands)
        BY OptionsList DEF TextList
    <1> HIDE DEF o, operands, flags
    <1>3. Neat(each)
        <2>1. n \in Nat
            BY <1>2, SeqFacts
        <2>2. PICK h : /\ h[0] = Start(t)
                       /\ \A k \in 1..n :
                            h[k] = Taken(h[k - 1], RmOperand(h[k - 1].tree, operands[k], ctx.cwd, flags))
                       /\ each = Answer(h[n])
            BY <1>2, RmFold
        <2> HIDE DEF each, n
        <2>3. \A k \in 1..n : Tidy(h[k - 1].tree) =>
                 Tidy(RmOperand(h[k - 1].tree, operands[k], ctx.cwd, flags).tree)
            BY RmTidy
        <2>4. Applied(h, t, n)
            BY <2>2, <2>3 DEF Applied
        <2> QED
            BY <2>1, <2>2, <2>4, AppliedNeat
    <1> HIDE DEF r, each
    <1>4. Neat(r)
        BY <1>1, <1>3, NeatResults
    <1> QED
        BY <1>4 DEF r

(* cp and mv.                                                              *)
LEMMA TransferNeat ==
    ASSUME NEW operands, TextList(operands), operands # <<>>, NEW ctx, GoodContext(ctx),
           NEW t, Tidy(t), NEW recursive, NEW move
    PROVE  Neat(Transfer(operands, ctx, t, recursive, move))
    <1> DEFINE sources == Front(operands)
               last == operands[Len(operands)]
               d == PathOf(last, ctx.cwd)
               into == IsDir(t, d)
               n == Len(sources)
               r == Transfer(operands, ctx, t, recursive, move)
               each == TransferEach(t, sources, d, into, ctx.cwd, recursive, move)
    <1>1. \/ r \in {ProtectedValue, Failure(<<>>)}
          \/ ~AnyProtected(operands) /\ Resolves(last, ctx.cwd) /\ r = each
        <2>1. r = IF AnyProtected(operands) THEN ProtectedValue
                  ELSE IF ~Resolves(last, ctx.cwd) \/ (Len(sources) > 1 /\ ~into) THEN Failure(<<>>)
                  ELSE each
            BY Zenon DEF Transfer, TransferEach
        <2> HIDE DEF each, r, sources, last, into
        <2> QED
            BY <2>1
    <1>2. ASSUME ~AnyProtected(operands), Resolves(last, ctx.cwd) PROVE Neat(each)
        <2>1. /\ IsSeq(operands) /\ Len(operands) \in Nat
              /\ \A k \in 1..Len(operands) : IsText(operands[k]) /\ ~Protected(operands[k])
            BY <1>2, CleanOperands
        <2>2. Len(operands) # 0
            BY <2>1, SeqFacts
        <2>3. IsText(last) /\ ~Protected(last)
            BY <2>1, <2>2
        <2>4. GoodPath(d)
            BY <1>2, <2>3, OperandPath DEF GoodContext, GoodPath
        <2>5. Len(operands) - 1 \in 0..Len(operands)
            BY <2>1, <2>2
        <2>6. /\ IsSeq(SubSeq(operands, 1, Len(operands) - 1))
              /\ Len(SubSeq(operands, 1, Len(operands) - 1)) = Len(operands) - 1
              /\ \A i \in 1..(Len(operands) - 1) :
                    SubSeq(operands, 1, Len(operands) - 1)[i] = operands[i]
            BY <2>1, <2>5, FirstElements
        <2>7. sources = SubSeq(operands, 1, Len(operands) - 1)
            BY DEF Front
        <2> HIDE DEF sources, d, into, last
        <2>8. n = Len(operands) - 1
            BY <2>6, <2>7
        <2>9. n \in Nat /\ \A k \in 1..n : k \in 1..Len(operands)
            BY <2>1, <2>2, <2>8
        <2>10. \A k \in 1..n : IsText(sources[k]) /\ ~Protected(sources[k])
            BY <2>1, <2>6, <2>7, <2>8, <2>9
        <2>11. IsSeq(sources)
            BY <2>6, <2>7
        <2>12. PICK h : /\ h[0] = Start(t)
                        /\ \A k \in 1..n :
                             h[k] = Taken(h[k - 1], TransferOperand(h[k - 1].tree, sources[k], d, into,
                                                                    ctx.cwd, recursive, move))
                        /\ each = Answer(h[n])
            BY <2>11, TransferFold
        <2> HIDE DEF each, n
        <2>13. \A k \in 1..n : Tidy(h[k - 1].tree) =>
                  Tidy(TransferOperand(h[k - 1].tree, sources[k], d, into, ctx.cwd, recursive, move).tree)
            BY <2>4, <2>10, TransferTidy DEF GoodContext, GoodPath
        <2>14. Applied(h, t, n)
            BY <2>12, <2>13 DEF Applied
        <2> QED
            BY <2>9, <2>12, <2>14, AppliedNeat
    <1> HIDE DEF r, each, last
    <1>3. Neat(r)
        BY <1>1, <1>2, NeatResults
    <1> QED
        BY <1>3 DEF r

(* Both take two operands or more.                                         *)
LEMMA CpNeat ==
    ASSUME NEW args, TextList(args), NEW ctx, GoodContext(ctx), NEW t, Tidy(t)
    PROVE  Neat(Cp(args, ctx, t)) /\ Neat(Mv(args, ctx, t))
    <1>1. ASSUME NEW known, NEW recursive, NEW move
          PROVE  LET operands == Options(args, known, FALSE).operands
                 IN  ~(Len(operands) < 2) => Neat(Transfer(operands, ctx, t, recursive, move))
        <2> DEFINE operands == Options(args, known, FALSE).operands
        <2>1. TextList(operands)
            BY OptionsList
        <2> HIDE DEF operands
        <2>2. operands = <<>> => Len(operands) = 0
            OBVIOUS
        <2>3. ~(Len(operands) < 2) => Neat(Transfer(operands, ctx, t, recursive, move))
            BY <2>1, <2>2, TransferNeat
        <2> QED
            BY <2>3 DEF operands
    <1>2. Neat(Cp(args, ctx, t))
        <2> DEFINE o == Options(args, {"f", "r", "R"}, FALSE)
                   done == Transfer(o.operands, ctx, t, o.flags \cap {"r", "R"} # {}, FALSE)
        <2>1. ~(Len(o.operands) < 2) => Neat(done)
            BY <1>1, Zenon
        <2>2. Cp(args, ctx, t) = IF HasInput(ctx) \/ ~o.ok \/ Len(o.operands) < 2 THEN Invalid ELSE done
            BY DEF Cp
        <2> HIDE DEF o, done
        <2> QED
            BY <2>1, <2>2, NeatResults
    <1>3. Neat(Mv(args, ctx, t))
        <2> DEFINE o == Options(args, {"f"}, FALSE)
                   done == Transfer(o.operands, ctx, t, TRUE, TRUE)
        <2>1. ~(Len(o.operands) < 2) => Neat(done)
            BY <1>1, Zenon
        <2>2. Mv(args, ctx, t) = IF HasInput(ctx) \/ ~o.ok \/ Len(o.operands) < 2 THEN Invalid ELSE done
            BY DEF Mv
        <2> HIDE DEF o, done
        <2> QED
            BY <2>1, <2>2, NeatResults
    <1> QED
        BY <1>2, <1>3

(* Every command.                                                          *)
LEMMA HandlerNeat ==
    ASSUME NEW argv, TextList(argv), argv # <<>>, argv[1][1] \in Commands,
           NEW ctx, GoodContext(ctx), NEW t, Tidy(t)
    PROVE  Neat(Handler(argv, ctx, t))
    <1> DEFINE name == argv[1][1]
               args == Tail(argv)
    <1>1. TextList(args)
        BY PartsOfList
    <1> HIDE DEF args
    <1>2. /\ Neat(Pwd(args, ctx, t)) /\ Neat(Cd(args, ctx, t)) /\ Neat(Ls(args, ctx, t))
          /\ Neat(Cat(args, ctx, t)) /\ Neat(Echo(args, ctx, t)) /\ Neat(Mkdir(args, ctx, t))
          /\ Neat(Touch(args, ctx, t)) /\ Neat(Rm(args, ctx, t))
        BY <1>1, PwdNeat, CdNeat, LsNeat, CatNeat, EchoNeat, MkdirNeat, TouchNeat, RmNeat
    <1>3. /\ Neat(HeadCmd(args, ctx, t)) /\ Neat(TailCmd(args, ctx, t)) /\ Neat(Grep(args, ctx, t))
          /\ Neat(Find(args, ctx, t)) /\ Neat(Wc(args, ctx, t)) /\ Neat(Sort(args, ctx, t))
          /\ Neat(Uniq(args, ctx, t))
        BY <1>1, HeadOrTailNeat, GrepNeat, FindNeat, WcNeat, SortNeat, UniqNeat DEF HeadCmd, TailCmd
    <1>4. /\ Neat(Cp(args, ctx, t)) /\ Neat(Mv(args, ctx, t)) /\ Neat(Env(args, ctx, t))
          /\ Neat(Export(args, ctx, t)) /\ Neat(Unset(args, ctx, t))
        BY <1>1, CpNeat, EnvNeat, ExportNeat, UnsetNeat
    <1>5. name \in Commands
        OBVIOUS
    <1> HIDE DEF name
    <1> QED
        BY <1>2, <1>3, <1>4, <1>5 DEF Handler, Commands, Printers, name, args

-----------------------------------------------------------------------------
(* From a command line of characters to words of texts.                    *)

TextParts(parts) == IsSeq(parts) /\ \A i \in DOMAIN parts : IsText(parts[i].text)
TextLexemes(lexemes) ==
    \A i \in DOMAIN lexemes : /\ lexemes[i].k \in {"part", "space", "op", "refused"}
                              /\ lexemes[i].k = "part" => TextParts(lexemes[i].parts)
TextTokens(tokens) == \A i \in DOMAIN tokens : tokens[i].k = "word" => TextParts(tokens[i].parts)

(* What is appended comes last, and what was there stays.                  *)
LEMMA Appended ==
    ASSUME NEW s, IsSeq(s), NEW x
    PROVE  /\ IsSeq(Append(s, x))
           /\ \A i \in DOMAIN Append(s, x) :
                 (i \in DOMAIN s /\ Append(s, x)[i] = s[i]) \/ Append(s, x)[i] = x
    <1> DEFINE a == Append(s, x)
    <1>1. /\ Len(s) \in Nat /\ DOMAIN s = 1..Len(s) /\ IsSeq(a) /\ Len(a) = Len(s) + 1
          /\ \A i \in 1..Len(s) : a[i] = s[i]
          /\ a[Len(s) + 1] = x
        BY SeqFacts
    <1> HIDE DEF a
    <1>2. DOMAIN a = 1..(Len(s) + 1)
        BY <1>1, SeqFacts
    <1>3. \A i \in DOMAIN a : (i \in DOMAIN s /\ a[i] = s[i]) \/ a[i] = x
        BY <1>1, <1>2
    <1> QED
        BY <1>1, <1>3 DEF a

(* Parts that follow parts.                                                *)
LEMMA MoreParts ==
    ASSUME NEW p, TextParts(p), NEW q, TextParts(q)
    PROVE  TextParts(p \o q)
    <1> DEFINE r == p \o q
    <1>1. Joins(p, q, r)
        BY DEF Joins
    <1>2. /\ Len(p) \in Nat /\ Len(q) \in Nat /\ DOMAIN p = 1..Len(p) /\ DOMAIN q = 1..Len(q)
          /\ IsSeq(p) /\ IsSeq(q)
        BY SeqFacts DEF TextParts
    <1> HIDE DEF r
    <1>3. /\ IsSeq(r) /\ Len(r) = Len(p) + Len(q)
          /\ \A i \in 1..Len(p) : r[i] = p[i]
          /\ \A i \in 1..Len(q) : r[Len(p) + i] = q[i]
        BY <1>1, <1>2, Joined
    <1>4. DOMAIN r = 1..(Len(p) + Len(q))
        BY <1>3, SeqFacts
    <1>5. ASSUME NEW i \in DOMAIN r PROVE IsText(r[i].text)
        <2>1. CASE i \in 1..Len(p)
            BY <1>2, <1>3, <2>1 DEF TextParts
        <2>2. CASE i \notin 1..Len(p)
            <3> DEFINE j == i - Len(p)
            <3>1. j \in 1..Len(q) /\ i = Len(p) + j
                BY <1>2, <1>4, <2>2
            <3> HIDE DEF j
            <3>2. r[i] = q[j]
                BY <1>3, <3>1
            <3> QED
                BY <1>2, <3>1, <3>2 DEF TextParts
        <2> QED
            BY <2>1, <2>2
    <1>6. TextParts(r)
        BY <1>3, <1>5 DEF TextParts
    <1> QED
        BY <1>6 DEF r

LexText(s) ==
    /\ DOMAIN s = {"tokens", "parts", "started", "code"}
    /\ IsSeq(s.tokens) /\ TextTokens(s.tokens) /\ TextParts(s.parts)

(* A token that is appended.                                               *)
LEMMA MoreTokens ==
    ASSUME NEW tokens, IsSeq(tokens), TextTokens(tokens),
           NEW x, x.k = "word" => TextParts(x.parts)
    PROVE  IsSeq(Append(tokens, x)) /\ TextTokens(Append(tokens, x))
    <1> DEFINE a == Append(tokens, x)
    <1>1. IsSeq(a) /\ \A i \in DOMAIN a : (i \in DOMAIN tokens /\ a[i] = tokens[i]) \/ a[i] = x
        BY Appended
    <1> HIDE DEF a
    <1>2. TextTokens(a)
        BY <1>1 DEF TextTokens
    <1> QED
        BY <1>1, <1>2 DEF a

(* Flush ends the word that was begun.                                     *)
LEMMA FlushText ==
    ASSUME NEW s, LexText(s)
    PROVE  LexText(Flush(s))
    <1> DEFINE r == Flush(s)
               w == [k |-> "word", parts |-> s.parts]
    <1>1. /\ DOMAIN r = DOMAIN s /\ r.parts = <<>>
          /\ r.tokens = IF s.started THEN Append(s.tokens, w) ELSE s.tokens
        BY DEF Flush, LexText
    <1>2. w.k = "word" => TextParts(w.parts)
        BY DEF LexText
    <1> HIDE DEF r, w
    <1>3. IsSeq(r.tokens) /\ TextTokens(r.tokens)
        BY <1>1, <1>2, MoreTokens DEF LexText
    <1>4. TextParts(r.parts)
        BY <1>1, NoElements DEF TextParts
    <1>5. LexText(r)
        BY <1>1, <1>3, <1>4 DEF LexText
    <1> QED
        BY <1>5 DEF r

(* One lexeme.                                                             *)
LEMMA LexTextKeeps ==
    ASSUME NEW lexemes, TextLexemes(lexemes), NEW i \in DOMAIN lexemes, NEW s, LexText(s)
    PROVE  LexText(Lex(s, lexemes, i))
    <1> DEFINE x == lexemes[i]
               f == Flush(s)
    <1>1. LexText(f)
        BY FlushText
    <1>2. x.k = "op" => LexText([f EXCEPT !.tokens = Append(@, x)])
        <2>1. SUFFICES ASSUME x.k = "op" PROVE LexText([f EXCEPT !.tokens = Append(@, x)])
            OBVIOUS
        <2> HIDE DEF f, x
        <2>2. IsSeq(Append(f.tokens, x)) /\ TextTokens(Append(f.tokens, x))
            BY <1>1, <2>1, MoreTokens DEF LexText
        <2> QED
            BY <1>1, <2>2 DEF LexText
    <1>3. \A code : LexText([s EXCEPT !.code = code])
        BY DEF LexText
    <1>4. x.k = "part" => LexText([s EXCEPT !.parts = @ \o x.parts, !.started = TRUE])
        <2>1. SUFFICES ASSUME x.k = "part"
                       PROVE  LexText([s EXCEPT !.parts = @ \o x.parts, !.started = TRUE])
            OBVIOUS
        <2>2. TextParts(x.parts)
            BY <2>1 DEF TextLexemes
        <2> HIDE DEF x
        <2>3. TextParts(s.parts \o x.parts)
            BY <2>2, MoreParts DEF LexText
        <2> DEFINE q == s.parts \o x.parts
        <2> HIDE DEF q
        <2>4. [s EXCEPT !.parts = @ \o x.parts, !.started = TRUE] =
                  [s EXCEPT !.parts = q, !.started = TRUE]
            BY DEF q
        <2>5. TextParts(q)
            BY <2>3 DEF q
        <2>6. LexText([s EXCEPT !.parts = q, !.started = TRUE])
            BY <2>5 DEF LexText
        <2> QED
            BY <2>4, <2>6, Zenon
    <1>5. x.k \in {"part", "space", "op", "refused"}
        BY DEF TextLexemes
    <1> DEFINE r == Lex(s, lexemes, i)
    <1>6. r = IF s.code # "ok" THEN s
              ELSE IF x.k = "space" THEN f
              ELSE IF x.k = "op" THEN [f EXCEPT !.tokens = Append(@, x)]
              ELSE IF x.k = "refused" THEN [s EXCEPT !.code = x.code]
              ELSE IF NamesDescriptor(s, lexemes, i) THEN [s EXCEPT !.code = "unsupported"]
              ELSE [s EXCEPT !.parts = @ \o x.parts, !.started = TRUE]
        BY Zenon DEF Lex
    <1> DEFINE a == [f EXCEPT !.tokens = Append(@, x)]
               b == [s EXCEPT !.code = x.code]
               c == [s EXCEPT !.code = "unsupported"]
               d == [s EXCEPT !.parts = @ \o x.parts, !.started = TRUE]
    <1>7. LexText(b) /\ LexText(c)
        BY <1>3
    <1> HIDE DEF r, f, LexText, a, b, c, d
    <1>8. r = IF s.code # "ok" THEN s
              ELSE IF x.k = "space" THEN f
              ELSE IF x.k = "op" THEN a
              ELSE IF x.k = "refused" THEN b
              ELSE IF NamesDescriptor(s, lexemes, i) THEN c
              ELSE d
        BY <1>6, Zenon DEF a, b, c, d
    <1>9. (x.k = "op" => LexText(a)) /\ (x.k = "part" => LexText(d))
        BY <1>2, <1>4 DEF a, d
    <1> HIDE DEF x
    <1>10. LexText(r)
        BY <1>1, <1>5, <1>7, <1>8, <1>9
    <1> QED
        BY <1>10 DEF r

(* tokenize makes words of texts.                                          *)
LEMMA TokensText ==
    ASSUME NEW lexemes, IsSeq(lexemes), Tokenize(lexemes).ok,
           (\A i \in DOMAIN lexemes : lexemes[i].k # "newline") => TextLexemes(lexemes)
    PROVE  TextTokens(Tokenize(lexemes).tokens)
    <1> DEFINE n == Len(lexemes)
               end == Lexed(lexemes)
               r == Tokenize(lexemes)
               broken == \E i \in DOMAIN lexemes : lexemes[i].k = "newline"
    <1>1. n \in Nat /\ DOMAIN lexemes = 1..n
        BY SeqFacts
    <1>2. ~broken /\ r = [ok |-> TRUE, tokens |-> Flush(end).tokens]
        <2>1. r = IF broken THEN Fail("unsupported")
                  ELSE IF end.code # "ok" THEN Fail(end.code)
                  ELSE [ok |-> TRUE, tokens |-> Flush(end).tokens]
            BY Zenon DEF Tokenize
        <2>2. r.ok
            OBVIOUS
        <2> HIDE DEF r, end, broken
        <2>3. ~Fail("unsupported").ok /\ ~Fail(end.code).ok
            BY DEF Fail
        <2> QED
            BY <2>1, <2>2, <2>3
    <1>3. TextLexemes(lexemes)
        BY <1>2
    <1>4. PICK h : /\ h[0] = [tokens |-> <<>>, parts |-> <<>>, started |-> FALSE, code |-> "ok"]
                   /\ \A k \in 1..n : h[k] = Lex(h[k - 1], lexemes, k)
                   /\ h[n] = end
        BY LexFold
    <1> HIDE DEF n, end, broken
    <1> DEFINE T == {k \in 0..n : LexText(h[k])}
    <1>5. 0 \in T
        <2> DEFINE g == h[0]
        <2>0. g = [tokens |-> <<>>, parts |-> <<>>, started |-> FALSE, code |-> "ok"]
            BY <1>4
        <2> HIDE DEF g
        <2>1. /\ DOMAIN g = {"tokens", "parts", "started", "code"}
              /\ g.tokens = <<>> /\ g.parts = <<>>
            BY <2>0
        <2>2. /\ IsSeq(g.tokens) /\ DOMAIN g.tokens = {}
              /\ IsSeq(g.parts) /\ DOMAIN g.parts = {}
            BY <2>1, NoElements
        <2>3. LexText(g)
            BY <2>1, <2>2 DEF LexText, TextTokens, TextParts
        <2>4. LexText(h[0])
            BY <2>3 DEF g
        <2> HIDE DEF LexText
        <2> QED
            BY <1>1, <2>4
    <1>6. ASSUME NEW k \in 1..n, k - 1 \in T PROVE k \in T
        <2>1. LexText(Lex(h[k - 1], lexemes, k))
            BY <1>1, <1>3, <1>6, LexTextKeeps
        <2> QED
            BY <1>1, <1>4, <2>1
    <1> HIDE DEF T
    <1>7. n \in T
        BY <1>1, <1>5, <1>6, LeastFailure DEF T
    <1>8. LexText(end)
        BY <1>4, <1>7 DEF T
    <1>9. TextTokens(Flush(end).tokens)
        BY <1>8, FlushText DEF LexText
    <1>10. r.tokens = Flush(end).tokens
        BY <1>2
    <1> QED
        BY <1>9, <1>10 DEF r

TextWords(ws) == \A j \in DOMAIN ws : TextWord(ws[j])
TextStages(stages) == \A k \in DOMAIN stages : TextWords(stages[k])
TextUnit(u) == TextStages(u.stages) /\ TextWord(u.destination)
TextUnits(us) == \A i \in DOMAIN us : TextUnit(us[i])

ParseText(s) ==
    /\ TextUnits(s.units) /\ TextStages(s.stages) /\ TextWords(s.words)
    /\ TextWord(s.destination)

(* What a plan is made of, with one more piece.                            *)
LEMMA MoreWords ==
    ASSUME NEW s, IsSeq(s), NEW x
    PROVE  /\ TextWords(s) /\ TextWord(x) => TextWords(Append(s, x))
           /\ TextStages(s) /\ TextWords(x) => TextStages(Append(s, x))
           /\ TextUnits(s) /\ TextUnit(x) => TextUnits(Append(s, x))
    <1> DEFINE a == Append(s, x)
    <1>1. \A i \in DOMAIN a : (i \in DOMAIN s /\ a[i] = s[i]) \/ a[i] = x
        BY Appended
    <1> HIDE DEF a
    <1>2. TextWords(s) /\ TextWord(x) => TextWords(a)
        BY <1>1 DEF TextWords
    <1>3. TextStages(s) /\ TextWords(x) => TextStages(a)
        BY <1>1 DEF TextStages
    <1>4. TextUnits(s) /\ TextUnit(x) => TextUnits(a)
        BY <1>1 DEF TextUnits
    <1> QED
        BY <1>2, <1>3, <1>4 DEF a

(* A plan of nothing.                                                      *)
LEMMA NoWords ==
    /\ TextWords(<<>>) /\ TextStages(<<>>) /\ TextUnits(<<>>)
    /\ TextWord([k |-> "word", parts |-> <<>>])
    <1> DEFINE z == <<>>
    <1>1. IsSeq(z) /\ DOMAIN z = {}
        BY NoElements
    <1> HIDE DEF z
    <1>2. /\ TextWords(z) /\ TextStages(z) /\ TextUnits(z)
          /\ TextWord([k |-> "word", parts |-> z])
        BY <1>1 DEF TextWords, TextStages, TextUnits, TextWord
    <1> QED
        BY <1>2 DEF z

(* The end of a stage and of a unit.                                       *)
LEMMA EndsText ==
    ASSUME NEW s, ParseState(s), ParseText(s)
    PROVE  /\ ParseText([EndStage(s) EXCEPT !.at = "command"])
           /\ TextUnits(EndUnit(s).units)
           /\ \A v : ParseText([EndUnit(s) EXCEPT !.connector = v, !.at = "command"])
    <1> DEFINE e == EndStage(s)
               u == [connector |-> s.connector, stages |-> e.stages,
                     mode |-> s.mode, destination |-> s.destination]
               f == EndUnit(s)
               none == [k |-> "word", parts |-> <<>>]
    <1>1. IsSeq(s.stages) /\ IsSeq(s.units)
        BY DEF ParseState, GoodUnits
    <1>2. /\ DOMAIN e = DOMAIN s /\ e.units = s.units /\ e.words = <<>>
          /\ e.destination = s.destination /\ e.stages = Append(s.stages, s.words)
        BY DEF EndStage, ParseState
    <1>3. f = [e EXCEPT !.units = Append(@, u), !.stages = <<>>, !.mode = "none",
                        !.destination = none]
        BY Zenon DEF EndUnit
    <1> HIDE DEF e, f
    <1>4. TextStages(e.stages)
        BY <1>1, <1>2, MoreWords DEF ParseText
    <1>5. TextUnit(u)
        BY <1>4 DEF TextUnit, ParseText
    <1> HIDE DEF u, none
    <1>6. TextUnits(Append(s.units, u))
        BY <1>1, <1>5, MoreWords DEF ParseText
    <1>7. /\ DOMAIN f = DOMAIN s /\ f.units = Append(s.units, u) /\ f.stages = <<>>
          /\ f.words = <<>> /\ f.destination = none
        BY <1>2, <1>3 DEF ParseState
    <1>8. /\ TextUnits(f.units) /\ TextStages(f.stages) /\ TextWords(f.words)
          /\ TextWord(f.destination)
        BY <1>6, <1>7, NoWords DEF none
    <1>9. ASSUME NEW v PROVE ParseText([f EXCEPT !.connector = v, !.at = "command"])
        <2> DEFINE g == [f EXCEPT !.connector = v, !.at = "command"]
        <2>1. /\ g.units = f.units /\ g.stages = f.stages /\ g.words = f.words
              /\ g.destination = f.destination
            BY <1>7 DEF ParseState
        <2> HIDE DEF g
        <2>2. ParseText(g)
            BY <1>8, <2>1 DEF ParseText
        <2> QED
            BY <2>2 DEF g
    <1>10. ParseText([e EXCEPT !.at = "command"])
        <2> DEFINE g == [e EXCEPT !.at = "command"]
        <2>1. /\ g.units = s.units /\ g.stages = e.stages /\ g.words = <<>>
              /\ g.destination = s.destination
            BY <1>2 DEF ParseState
        <2> HIDE DEF g
        <2>2. TextWords(g.words)
            BY <2>1, NoWords
        <2>3. ParseText(g)
            BY <1>4, <2>1, <2>2 DEF ParseText
        <2> QED
            BY <2>3 DEF g
    <1> QED
        BY <1>8, <1>9, <1>10 DEF e, f

(* One token.                                                              *)
LEMMA ParseTextKeeps ==
    ASSUME NEW s, ParseState(s), ParseText(s), NEW x, x.k = "word" => TextParts(x.parts)
    PROVE  ParseText(Parse(s, x))
    <1> DEFINE r == Parse(s, x)
               error == [s EXCEPT !.at = "error"]
               more == [s EXCEPT !.words = Append(@, x), !.at = "words"]
               target == [s EXCEPT !.destination = x, !.at = "end"]
               stage2 == [EndStage(s) EXCEPT !.at = "command"]
               mode == [s EXCEPT !.mode = x.v, !.at = "destination"]
               unit2 == [EndUnit(s) EXCEPT !.connector = x.v, !.at = "command"]
    <1>1. ParseText(error) /\ ParseText(mode)
        BY DEF ParseText, ParseState
    <1>2. x.k = "word" => TextWord(x)
        BY DEF TextWord, TextParts
    <1>3. x.k = "word" => ParseText(more)
        <2>1. SUFFICES ASSUME x.k = "word" PROVE ParseText(more)
            OBVIOUS
        <2> DEFINE ws == Append(s.words, x)
        <2>2. TextWords(ws)
            BY <1>2, <2>1, MoreWords DEF ParseText, ParseState
        <2>3. more = [s EXCEPT !.words = ws, !.at = "words"]
            OBVIOUS
        <2> HIDE DEF ws, more
        <2>4. more.units = s.units /\ more.stages = s.stages /\ more.words = ws
              /\ more.destination = s.destination
            BY <2>3 DEF ParseState
        <2> QED
            BY <2>2, <2>4 DEF ParseText
    <1>4. x.k = "word" => ParseText(target)
        BY <1>2 DEF ParseText, ParseState
    <1>5. ParseText(stage2) /\ ParseText(unit2)
        BY EndsText
    <1>6. r = IF s.at = "error" \/ (x.k = "word" /\ ~ExpandsWell(x)) THEN error
              ELSE IF x.k = "word" /\ s.at \in {"command", "words"} THEN more
              ELSE IF x.k = "word" /\ s.at = "destination" THEN target
              ELSE IF x.k = "op" /\ s.at = "words" /\ x.v = "|" THEN stage2
              ELSE IF x.k = "op" /\ s.at = "words" /\ x.v \in Redirects THEN mode
              ELSE IF x.k = "op" /\ s.at \in {"words", "end"} /\ x.v \in Separators THEN unit2
              ELSE error
        BY Zenon DEF Parse
    <1> HIDE DEF r, error, more, target, stage2, mode, unit2, ParseText
    <1>7. ParseText(r)
        BY <1>1, <1>3, <1>4, <1>5, <1>6
    <1> QED
        BY <1>7 DEF r

(* parse_execution_plan makes units of texts.                              *)
LEMMA PlanText ==
    ASSUME NEW tokens, IsSeq(tokens), TextTokens(tokens), ParseExecutionPlan(tokens).ok
    PROVE  TextUnits(ParseExecutionPlan(tokens).units)
    <1> DEFINE n == Len(tokens)
               end == Parsed(tokens)
               plan == ParseExecutionPlan(tokens)
               none == [k |-> "word", parts |-> <<>>]
    <1>1. n \in Nat /\ DOMAIN tokens = 1..n
        BY SeqFacts
    <1>2. plan = [ok |-> TRUE, units |-> EndUnit(end).units]
        <2>1. plan = IF tokens = <<>> THEN Fail("empty")
                     ELSE IF end.at \in {"words", "end"} THEN [ok |-> TRUE, units |-> EndUnit(end).units]
                     ELSE Fail("invalid")
            BY Zenon DEF ParseExecutionPlan
        <2>2. plan.ok
            OBVIOUS
        <2> HIDE DEF plan, end
        <2>3. ~Fail("empty").ok /\ ~Fail("invalid").ok
            BY DEF Fail
        <2> QED
            BY <2>1, <2>2, <2>3
    <1>3. PICK h : /\ h[0] = [units |-> <<>>, stages |-> <<>>, words |-> <<>>, connector |-> ";",
                              mode |-> "none", destination |-> none, at |-> "command"]
                   /\ \A k \in 1..n : h[k] = Parse(h[k - 1], tokens[k])
                   /\ h[n] = end
        BY ParseFold
    <1> HIDE DEF n, end, none
    <1> DEFINE T == {k \in 0..n : ParseState(h[k]) /\ ParseText(h[k])}
    <1>4. 0 \in T
        <2> DEFINE g == h[0]
        <2>0. g = [units |-> <<>>, stages |-> <<>>, words |-> <<>>, connector |-> ";",
                   mode |-> "none", destination |-> none, at |-> "command"]
            BY <1>3
        <2> HIDE DEF g
        <2>1. /\ DOMAIN g = {"units", "stages", "words", "connector", "mode", "destination", "at"}
              /\ g.units = <<>> /\ g.stages = <<>> /\ g.words = <<>> /\ g.at = "command"
              /\ g.destination = none
            BY <2>0
        <2>2. /\ IsSeq(g.units) /\ DOMAIN g.units = {} /\ IsSeq(g.stages) /\ DOMAIN g.stages = {}
              /\ IsSeq(g.words)
            BY <2>1, NoElements
        <2>3. ParseState(g)
            BY <2>1, <2>2 DEF ParseState, GoodUnits
        <2>4. ParseText(g)
            BY <2>1, NoWords DEF ParseText, none
        <2>5. ParseState(h[0]) /\ ParseText(h[0])
            BY <2>3, <2>4 DEF g
        <2> QED
            BY <1>1, <2>5
    <1>5. ASSUME NEW k \in 1..n, k - 1 \in T PROVE k \in T
        <2>1. ParseState(h[k - 1]) /\ ParseText(h[k - 1]) /\ k \in 0..n
            BY <1>1, <1>5
        <2>2. tokens[k].k = "word" => TextParts(tokens[k].parts)
            BY <1>1 DEF TextTokens
        <2>3. ParseState(Parse(h[k - 1], tokens[k])) /\ ParseText(Parse(h[k - 1], tokens[k]))
            BY <2>1, <2>2, ParseKeeps, ParseTextKeeps
        <2> QED
            BY <1>3, <2>1, <2>3
    <1> HIDE DEF T
    <1>6. n \in T
        BY <1>1, <1>4, <1>5, LeastFailure DEF T
    <1>7. ParseState(end) /\ ParseText(end)
        BY <1>3, <1>6 DEF T
    <1>8. TextUnits(EndUnit(end).units)
        BY <1>7, EndsText
    <1>9. plan.units = EndUnit(end).units
        BY <1>2
    <1> QED
        BY <1>8, <1>9 DEF plan

(* The units of a request that is admitted.                                *)
LEMMA AdmittedText ==
    ASSUME CallInv, Admit, pc' = "unit"
    PROVE  TextUnits(units')
    <1> DEFINE lexemes == request.lexemes
               words == Tokenize(lexemes)
               plan == ParseExecutionPlan(words.tokens)
    <1>1. pc = "admit" /\ request \in Scripts
        BY DEF Admit, CallInv
    <1>2. IsSeq(lexemes) /\ Refusable(lexemes)
        BY <1>1, RequestLexemes
    <1>3. words.ok /\ plan.ok /\ units' = plan.units
        <2> DEFINE short == Len(lexemes) <= MaxCommand
                   long == Len(lexemes) > MaxCommand
        <2>1. (CASE long -> Raise("too_long") /\ UNCHANGED units
                [] short /\ ~words.ok -> Raise(words.code) /\ UNCHANGED units
                [] short /\ words.ok /\ ~plan.ok -> Raise(plan.code) /\ UNCHANGED units
                [] OTHER -> IF WithinStructure(plan.units)
                            THEN pc' = "unit" /\ units' = plan.units /\ UNCHANGED outcome
                            ELSE Raise("invalid") /\ UNCHANGED units)
            BY Zenon DEF Admit
        <2>2. long \/ short
            <3>1. Len(lexemes) \in Nat /\ MaxCommand \in Nat
                BY <1>2, SeqFacts, CommandLimitsAssumption
            <3> QED
                BY <3>1
        <2> HIDE DEF words, plan, short, long
        <2>3. \A code : ~Raise(code)
            BY DEF Raise
        <2> QED
            BY <2>1, <2>2, <2>3
    <1>4. (\A i \in DOMAIN lexemes : lexemes[i].k # "newline") => TextLexemes(lexemes)
        <2>1. \A x \in Range(lexemes) :
                 /\ x.k \in {"part", "space", "op", "newline", "refused"}
                 /\ x.k = "part" => /\ x.parts \in Seq(Range(x.parts))
                                    /\ \A part \in Range(x.parts) : IsText(part.text)
            BY <1>1, ScriptsAssumption
        <2>2. ASSUME NEW i \in DOMAIN lexemes
              PROVE  /\ lexemes[i].k \in {"part", "space", "op", "newline", "refused"}
                     /\ lexemes[i].k = "part" => TextParts(lexemes[i].parts)
            <3> DEFINE x == lexemes[i]
            <3>1. x \in Range(lexemes)
                BY DEF Range
            <3> HIDE DEF x
            <3>2. ASSUME x.k = "part" PROVE TextParts(x.parts)
                <4>1. x.parts \in Seq(Range(x.parts)) /\ \A part \in Range(x.parts) : IsText(part.text)
                    BY <2>1, <3>1, <3>2
                <4>2. IsSeq(x.parts)
                    BY <4>1, SeqIs
                <4>3. \A j \in DOMAIN x.parts : x.parts[j] \in Range(x.parts)
                    BY DEF Range
                <4> QED
                    BY <4>1, <4>2, <4>3 DEF TextParts
            <3>3. x.k \in {"part", "space", "op", "newline", "refused"}
                BY <2>1, <3>1
            <3> QED
                BY <3>2, <3>3 DEF x
        <2> HIDE DEF lexemes
        <2> QED
            BY <2>2 DEF TextLexemes
    <1> HIDE DEF lexemes
    <1>5. TextTokens(words.tokens) /\ IsSeq(words.tokens)
        BY <1>2, <1>3, <1>4, TokensText, Tokens
    <1> HIDE DEF words
    <1> QED
        BY <1>3, <1>5, PlanText

-----------------------------------------------------------------------------
(* The environment of a call.                                              *)

(* An environment of texts that do not show the secret.                    *)
GoodEnv(env) ==
    /\ Listable(env)
    /\ \A n \in DOMAIN env : IsText(env[n]) /\ ~Protected(env[n])
CleanChange(c) == GoodChange(c) /\ ~Protected(c.value)
CleanChanges(changes) == IsSeq(changes) /\ \A i \in DOMAIN changes : CleanChange(changes[i])

(* One change.                                                             *)
LEMMA ChangeEnv ==
    ASSUME NEW env, GoodEnv(env), NEW c, CleanChange(c)
    PROVE  GoodEnv(ApplyChange(env, c))
    <1> DEFINE r == ApplyChange(env, c)
               D == DOMAIN env
    <1>1. IsFiniteSet(D) /\ Lead \notin D /\ Trail \notin D
        BY DEF GoodEnv, Listable
    <1>2. /\ DOMAIN r = IF c.set THEN D \cup {c.name} ELSE D \ {c.name}
          /\ \A n \in DOMAIN r : r[n] = c.value \/ (n \in D /\ r[n] = env[n])
        <2>1. CASE c.set
            BY <2>1 DEF ApplyChange
        <2>2. CASE ~c.set
            BY <2>2 DEF ApplyChange
        <2> QED
            BY <2>1, <2>2
    <1> HIDE DEF r, D
    <1>3. IsFiniteSet(D \cup {c.name}) /\ IsFiniteSet(D \ {c.name})
        <2>1. D \ {c.name} \subseteq D
            OBVIOUS
        <2>2. IsFiniteSet(D \ {c.name})
            BY <1>1, <2>1, FS_Subset
        <2>3. IsFiniteSet(D \cup {c.name})
            BY <1>1, FS_AddElement
        <2> QED
            BY <2>2, <2>3
    <1>4. IsFiniteSet(DOMAIN r)
        BY <1>2, <1>3
    <1>5. Lead \notin DOMAIN r /\ Trail \notin DOMAIN r
        BY <1>1, <1>2 DEF CleanChange, GoodChange
    <1>6. \A n \in DOMAIN r : IsText(r[n]) /\ ~Protected(r[n])
        BY <1>2 DEF CleanChange, GoodChange, GoodEnv, D
    <1>7. GoodEnv(r)
        BY <1>4, <1>5, <1>6 DEF GoodEnv, Listable
    <1> QED
        BY <1>7 DEF r

(* All of them.                                                            *)
LEMMA ChangesEnv ==
    ASSUME NEW env, GoodEnv(env), NEW changes, CleanChanges(changes)
    PROVE  GoodEnv(ApplyChanges(env, changes))
    <1> DEFINE n == Len(changes)
    <1>1. n \in Nat /\ DOMAIN changes = 1..n /\ IsSeq(changes)
        BY SeqFacts DEF CleanChanges
    <1>2. PICK h : /\ h[0] = env
                   /\ \A k \in 1..n : h[k] = ApplyChange(h[k - 1], changes[k])
                   /\ h[n] = ApplyChanges(env, changes)
        BY <1>1, ChangeFold
    <1> HIDE DEF n
    <1> DEFINE T == {k \in 0..n : GoodEnv(h[k])}
    <1>3. 0 \in T
        BY <1>1, <1>2
    <1>4. ASSUME NEW k \in 1..n, k - 1 \in T PROVE k \in T
        <2>1. GoodEnv(ApplyChange(h[k - 1], changes[k]))
            BY <1>1, <1>4, ChangeEnv DEF CleanChanges
        <2> QED
            BY <1>1, <1>2, <2>1
    <1> HIDE DEF T
    <1>5. n \in T
        BY <1>1, <1>3, <1>4, LeastFailure DEF T
    <1> QED
        BY <1>2, <1>5 DEF T

(* Changes after changes.                                                  *)
LEMMA MoreChanges ==
    ASSUME NEW a, CleanChanges(a), NEW b, CleanChanges(b)
    PROVE  CleanChanges(a \o b)
    <1> DEFINE r == a \o b
    <1>1. Joins(a, b, r)
        BY DEF Joins
    <1>2. /\ Len(a) \in Nat /\ Len(b) \in Nat /\ DOMAIN a = 1..Len(a) /\ DOMAIN b = 1..Len(b)
          /\ IsSeq(a) /\ IsSeq(b)
        BY SeqFacts DEF CleanChanges
    <1> HIDE DEF r
    <1>3. /\ IsSeq(r) /\ Len(r) = Len(a) + Len(b)
          /\ \A i \in 1..Len(a) : r[i] = a[i]
          /\ \A i \in 1..Len(b) : r[Len(a) + i] = b[i]
        BY <1>1, <1>2, Joined
    <1>4. DOMAIN r = 1..(Len(a) + Len(b))
        BY <1>3, SeqFacts
    <1>5. ASSUME NEW i \in DOMAIN r PROVE CleanChange(r[i])
        <2>1. CASE i \in 1..Len(a)
            BY <1>2, <1>3, <2>1 DEF CleanChanges
        <2>2. CASE i \notin 1..Len(a)
            <3> DEFINE j == i - Len(a)
            <3>1. j \in 1..Len(b) /\ i = Len(a) + j
                BY <1>2, <1>4, <2>2
            <3> HIDE DEF j
            <3>2. r[i] = b[j]
                BY <1>3, <3>1
            <3> QED
                BY <1>2, <3>1, <3>2 DEF CleanChanges
        <2> QED
            BY <2>1, <2>2
    <1>6. CleanChanges(r)
        BY <1>3, <1>5 DEF CleanChanges
    <1> QED
        BY <1>6 DEF r

(* What commands and words read of it.                                     *)
LEMMA ViewTexts ==
    ASSUME GoodEnv(run.env)
    PROVE  TextView(View) /\ Listable(View.base) /\ Listable(View.overlay)
    <1>1. View.base = run.env /\ View.overlay = Overlay
        BY DEF View
    <1>2. TextEnv(run.env) /\ Listable(run.env)
        BY DEF GoodEnv, TextEnv
    <1>3. IsText(<<Secret>>)
        BY OneText, SolidSymbols DEF Literals
    <1>4. TextEnv(Overlay) /\ Listable(Overlay)
        <2>1. CASE request.secrets
            <3> DEFINE value == <<Secret>>
            <3>1. Overlay = [n \in DOMAIN Binding |-> value]
                BY <2>1 DEF Overlay
            <3> HIDE DEF value
            <3>2. DOMAIN Overlay = DOMAIN Binding /\ \A n \in DOMAIN Overlay : Overlay[n] = value
                BY <3>1
            <3>3. Listable(Overlay)
                BY <3>2, BindingAssumption DEF Listable
            <3>4. TextEnv(Overlay)
                BY <1>3, <3>2 DEF TextEnv, value
            <3> QED
                BY <3>3, <3>4
        <2>2. CASE ~request.secrets
            <3>1. DOMAIN Overlay = {}
                BY <2>2 DEF Overlay
            <3> QED
                BY <3>1, FS_EmptySet DEF Listable, TextEnv
        <2> QED
            BY <2>1, <2>2
    <1> QED
        BY <1>1, <1>2, <1>4 DEF TextView

-----------------------------------------------------------------------------
(* _sanitize_stage: what leaves a stage does not show the secret.          *)

Sanitized(s) ==
    /\ Printed(s) /\ ~Protected(s.out) /\ ~Protected(s.err)
    /\ s.moves => ~Protected(s.cwd)
    /\ CleanChanges(s.changes)

(* It makes so of every result that was printed.                           *)
LEMMA SanitizeText ==
    ASSUME NEW r, IsResult(r), Printed(r)
    PROVE  Sanitized(Sanitize(r))
    <1> DEFINE s == Sanitize(r)
               bad == \/ r.moves /\ Protected(r.cwd)
                      \/ \E c \in Range(r.changes) : c.name \in DOMAIN Overlay \/ Protected(c.value)
               none == [ProtectedValue EXCEPT !.trees = r.trees]
               redacted == [r EXCEPT !.out = Redact(@), !.err = Redact(@)]
    <1>1. s = IF bad THEN none ELSE redacted
        BY Zenon DEF Sanitize
    <1>2. Sanitized(none)
        <2> DEFINE empty == <<>>
        <2>1. /\ none.out = empty /\ none.err = Note /\ none.moves = FALSE /\ none.changes = empty
            BY DEF ProtectedValue, Result
        <2>2. IsSeq(empty) /\ DOMAIN empty = {} /\ IsText(empty)
            BY NoElements, NoText
        <2>3. ~Protected(Note)
            <3>1. Range(Note) \subseteq {"note", "LF"}
                BY DEF Note, Range
            <3> QED
                BY <3>1, SymbolAssumption DEF Protected
        <2> HIDE DEF none, empty
        <2>4. ~Protected(none.out)
            BY <2>1, <2>2 DEF Protected, Range
        <2>5. CleanChanges(none.changes) /\ \A i \in DOMAIN none.changes : GoodChange(none.changes[i])
            BY <2>1, <2>2 DEF CleanChanges
        <2> QED
            BY <2>1, <2>2, <2>3, <2>4, <2>5, NoteText DEF Sanitized, Printed
    <1>3. ASSUME ~bad PROVE Sanitized(redacted)
        <2>1. /\ redacted.out = Redact(r.out) /\ redacted.err = Redact(r.err)
              /\ redacted.moves = r.moves /\ redacted.cwd = r.cwd /\ redacted.changes = r.changes
            BY DEF IsResult, ResultFields
        <2>2. \A i \in DOMAIN r.changes : ~Protected(r.changes[i].value)
            BY <1>3 DEF Range
        <2>3. CleanChanges(r.changes)
            BY <2>2 DEF CleanChanges, CleanChange, IsResult, Printed
        <2>4. r.moves => ~Protected(r.cwd)
            BY <1>3
        <2>5. /\ IsText(Redact(r.out)) /\ IsText(Redact(r.err))
              /\ ~Protected(Redact(r.out)) /\ ~Protected(Redact(r.err))
            BY RedactText, RedactClean DEF Printed
        <2> HIDE DEF redacted, bad
        <2> QED
            BY <2>1, <2>3, <2>4, <2>5 DEF Sanitized, Printed
    <1> HIDE DEF s, bad, none, redacted
    <1>4. Sanitized(s)
        BY <1>1, <1>2, <1>3
    <1> QED
        BY <1>4 DEF s

-----------------------------------------------------------------------------
(* _prepare_unit: what is to run are texts, and a destination that shows   *)
(* the secret is not admitted.                                             *)

PreparedText(p) ==
    /\ \A k \in DOMAIN p.stages : TextList(p.stages[k])
    /\ IsText(p.destination) /\ (p.admitted => ~Protected(p.destination))
    /\ Printed(p.failure)

(* What a stage is refused with.                                           *)
LEMMA RefusalText ==
    ASSUME NEW argv, NEW k, NEW n, NEW destination
    PROVE  Printed(Refusal(argv, k, n, destination).result)
    <1> DEFINE r == Refusal(argv, k, n, destination).result
               unknown == Result(127, "command_not_found", <<>>, Note)
    <1>1. r \in {ProtectedValue, Invalid, unknown, NoStage}
        BY DEF Refusal
    <1>2. Neat(unknown) /\ Neat(NoStage)
        BY ResultNeat, NoText, NoteText, NeatResults DEF NoStage
    <1> HIDE DEF r, unknown
    <1>3. Printed(r)
        BY <1>1, <1>2, NeatResults DEF Neat
    <1> QED
        BY <1>3 DEF r

(* Every word expands to a text, and the first refusal is one of these.    *)
LEMMA PrepareUnitText ==
    ASSUME NEW u, GoodUnit(u), TextUnit(u), run.cwd \in Seq(Names), GoodEnv(run.env)
    PROVE  PreparedText(PrepareUnit(u))
    <1> DEFINE n == Len(u.stages)
               argvs == [k \in 1..n |-> Argv(u, k)]
               destination == IF u.mode = "none" THEN <<>>
                              ELSE ExpandWord(u.destination, View, run.cwd)
               lead == IF Protected(destination)
                       THEN <<[result |-> ProtectedValue, admitted |-> FALSE]>> ELSE <<>>
               each == [k \in 1..n |-> Refusal(argvs[k], k, n, destination)]
               refusals == lead \o each
               failed == {i \in DOMAIN refusals : refusals[i].result.exit # 0}
               first == IF failed = {} THEN NoStage ELSE refusals[Min(failed)].result
               barred == /\ u.mode # "none" /\ ~AnyProtected(argvs[n])
                         /\ Known(argvs[n]) /\ ~PermitsRedirection(argvs[n][1][1])
               p == PrepareUnit(u)
    <1>1. /\ p.stages = argvs /\ p.destination = destination
          /\ p.failure = IF barred /\ first.code # "protected_value_rejected"
                         THEN Invalid ELSE first
          /\ p.admitted = (~barred /\ \A r \in Range(refusals) : r.admitted)
        BY DEF PrepareUnit
    <1>2. n \in Nat /\ DOMAIN u.stages = 1..n
        BY SeqFacts DEF GoodUnit
    <1>3. ASSUME NEW w, TextWord(w) PROVE IsText(ExpandWord(w, View, run.cwd))
        <2>1. TextView(View)
            BY ViewTexts
        <2> QED
            BY <1>3, <2>1, ExpandWordText
    <1>4. IsText(destination)
        BY <1>3, NoText DEF TextUnit
    <1>5. ASSUME NEW k \in DOMAIN argvs PROVE TextList(argvs[k])
        <2> DEFINE w == u.stages[k]
                   a == [j \in DOMAIN w |-> ExpandWord(w[j], View, run.cwd)]
        <2>1. IsSeq(w)
            BY <1>2 DEF GoodUnit, Stage
        <2>2. TextWords(w)
            BY <1>2 DEF TextUnit, TextStages
        <2>3. argvs[k] = a
            BY <1>2 DEF Argv
        <2> HIDE DEF w
        <2>4. IsSeq(a) /\ DOMAIN a = DOMAIN w
            BY <2>1, ListingOver
        <2>5. \A j \in DOMAIN a : a[j] = ExpandWord(w[j], View, run.cwd)
            BY <2>4
        <2> HIDE DEF a
        <2>6. TextList(a)
            BY <1>3, <2>2, <2>4, <2>5 DEF TextList, TextWords
        <2> QED
            BY <2>3, <2>6
    <1> HIDE DEF argvs, n, destination
    <1>6. IsSeq(each) /\ Len(each) = n
        BY <1>2, Listing
    <1>7. IsSeq(lead) /\ \A i \in DOMAIN lead : Printed(lead[i].result)
        <2> DEFINE z == [result |-> ProtectedValue, admitted |-> FALSE]
        <2>1. lead = <<z>> \/ lead = <<>>
            OBVIOUS
        <2>2. Printed(z.result)
            BY NeatResults DEF Neat
        <2> HIDE DEF lead, z
        <2>3. CASE lead = <<z>>
            BY <2>2, <2>3, OneText
        <2>4. CASE lead = <<>>
            BY <2>4, NoElements
        <2> QED
            BY <2>1, <2>3, <2>4
    <1>8. Protected(destination) => 1 \in DOMAIN lead /\ ~lead[1].admitted
        <2> DEFINE z == [result |-> ProtectedValue, admitted |-> FALSE]
        <2>1. Protected(destination) => lead = <<z>>
            OBVIOUS
        <2>2. ~z.admitted
            OBVIOUS
        <2> HIDE DEF lead, z
        <2> QED
            BY <2>1, <2>2, OneText
    <1>9. \A k \in 1..n : each[k] = Refusal(argvs[k], k, n, destination)
        OBVIOUS
    <1> HIDE DEF lead, each
    <1>10. /\ IsSeq(refusals) /\ Len(refusals) = Len(lead) + n /\ Len(lead) \in Nat
           /\ DOMAIN refusals = 1..(Len(lead) + n) /\ DOMAIN lead = 1..Len(lead)
           /\ \A i \in 1..Len(lead) : refusals[i] = lead[i]
           /\ \A k \in 1..n : refusals[Len(lead) + k] = each[k]
        BY <1>6, <1>7, Concatenation, SeqFacts
    <1> HIDE DEF refusals
    <1>11. \A i \in DOMAIN refusals : Printed(refusals[i].result)
        <2> TAKE i \in DOMAIN refusals
        <2>1. CASE i \in 1..Len(lead)
            BY <1>7, <1>10, <2>1
        <2>2. CASE i \notin 1..Len(lead)
            <3>1. i - Len(lead) \in 1..n /\ Len(lead) + (i - Len(lead)) = i
                BY <1>2, <1>10, <2>2
            <3>2. refusals[i] = each[i - Len(lead)]
                BY <1>10, <3>1
            <3>3. Printed(each[i - Len(lead)].result)
                BY <1>9, <3>1, RefusalText
            <3> QED
                BY <3>2, <3>3
        <2> QED
            BY <2>1, <2>2
    <1>12. failed # {} => Min(failed) \in failed
        <2>1. failed \in SUBSET (1..(Len(lead) + n)) /\ Len(lead) + n \in Nat
            BY <1>2, <1>10
        <2> HIDE DEF failed
        <2> QED
            BY <2>1, LeastIndex
    <1>13. Printed(first)
        <2>1. Printed(NoStage)
            BY NeatResults DEF NoStage, Neat
        <2>2. failed # {} => Min(failed) \in DOMAIN refusals
            BY <1>12
        <2> HIDE DEF failed
        <2> QED
            BY <1>11, <2>1, <2>2
    <1>14. p.admitted => ~Protected(destination)
        <2>1. SUFFICES ASSUME p.admitted, Protected(destination) PROVE FALSE
            OBVIOUS
        <2>2. 1 \in DOMAIN refusals /\ ~refusals[1].admitted
            BY <1>2, <1>8, <1>10, <2>1
        <2>3. refusals[1] \in Range(refusals)
            BY <2>2 DEF Range
        <2> HIDE DEF p, barred, first
        <2> QED
            BY <1>1, <2>1, <2>2, <2>3
    <1> HIDE DEF failed, first, barred, p
    <1>15. Printed(p.failure)
        BY <1>1, <1>13, NeatResults DEF Neat
    <1>16. PreparedText(p)
        BY <1>1, <1>4, <1>5, <1>14, <1>15 DEF PreparedText
    <1> QED
        BY <1>16 DEF p

-----------------------------------------------------------------------------
(* The invariant.                                                          *)

(* What the call works with, and what the session keeps of it.             *)
PlaceInv ==
    /\ Tidy(tree)
    /\ GoodPath(run.cwd) /\ GoodEnv(run.env) /\ CleanChanges(run.changes)
    /\ GoodPath(session.cwd) /\ GoodEnv(session.env)

(* What was printed.                                                       *)
StreamInv ==
    /\ Collected(run.out, emitted.out) /\ ~Protected(emitted.out)
    /\ Collected(run.err, emitted.err) /\ ~Protected(emitted.err)

(* What is to run, and what has run and was not yet collected.             *)
StepInv ==
    /\ TextUnits(units)
    /\ pc \in {"run", "settle", "redirect"} => PreparedText(prep)
    /\ pc = "run" => IsText(pipe.err) /\ IsText(pipe.input)
    /\ pc \in {"settle", "redirect"} => Printed(stage)
    /\ pc = "redirect" => ~Protected(stage.out)

TextInv == PlaceInv /\ StreamInv /\ StepInv

(* Raising keeps the texts.                                                *)
LEMMA RaiseText ==
    ASSUME TextInv, NEW code, Raise(code), Tidy(tree'),
           UNCHANGED <<session, units, run, emitted>>
    PROVE  TextInv'
    <1>1. pc' = "closing"
        BY DEF Raise
    <1>2. PlaceInv'
        BY DEF TextInv, PlaceInv
    <1>3. StreamInv'
        BY DEF TextInv, StreamInv
    <1>4. StepInv'
        BY <1>1 DEF TextInv, StepInv
    <1> QED
        BY <1>2, <1>3, <1>4 DEF TextInv

(* The texts before the call.                                              *)
LEMMA TextInit == Init => TextInv
    <1> SUFFICES ASSUME Init PROVE TextInv
        OBVIOUS
    <1>1. Tidy(InitialTree)
        <2> DEFINE t == InitialTree
        <2>1. /\ IsTree(t) /\ IsFiniteSet(DOMAIN t)
              /\ \A p \in DOMAIN t : ~Protected(p) /\ (IsFile(t, p) => ~Protected(t[p]))
            BY TreeAssumption
        <2> HIDE DEF t
        <2>2. ASSUME NEW p \in DOMAIN t PROVE GoodPath(p) /\ GoodNode(t[p])
            <3>1. PICK n \in 0..MaxDepth : p \in [1..n -> Names]
                BY <2>1 DEF IsTree, Paths
            <3>2. n \in Nat
                BY <3>1, LimitsAssumption
            <3>3. p \in Seq(Names)
                BY <3>1, <3>2
            <3>4. t[p] # Dir => IsSeq(t[p])
                BY <2>1, SeqIs DEF IsTree
            <3> QED
                BY <2>1, <3>3, <3>4 DEF GoodPath, GoodNode, IsFile
        <2>3. Tidy(t)
            BY <2>1, <2>2, TidyBy
        <2> QED
            BY <2>3 DEF t
    <1>2. GoodPath(Root)
        <2> DEFINE p == <<>>
        <2>1. p \in Seq(Names) /\ DOMAIN p = {}
            OBVIOUS
        <2> HIDE DEF p
        <2>2. GoodPath(p)
            BY <2>1 DEF GoodPath, Protected, Range
        <2> QED
            BY <2>2 DEF p, Root
    <1>3. GoodEnv(InitialEnv)
        BY EnvironmentAssumption DEF GoodEnv, Listable
    <1>4. CleanChanges(<<>>)
        <2> DEFINE c == <<>>
        <2>1. IsSeq(c) /\ DOMAIN c = {}
            BY NoElements
        <2> HIDE DEF c
        <2>2. CleanChanges(c)
            BY <2>1 DEF CleanChanges
        <2> QED
            BY <2>2 DEF c
    <1>5. /\ session.cwd = Root /\ session.env = InitialEnv
          /\ run.cwd = Root /\ run.env = InitialEnv /\ run.changes = <<>>
          /\ run.out = Collector(MaxStdout) /\ run.err = Collector(MaxStderr)
          /\ emitted.out = <<>> /\ emitted.err = <<>>
          /\ tree = InitialTree /\ pc = "idle" /\ units = <<>>
        BY DEF Init, StartOf
    <1>6. PlaceInv
        BY <1>1, <1>2, <1>3, <1>4, <1>5 DEF PlaceInv
    <1>7. Collected(Collector(MaxStdout), <<>>) /\ Collected(Collector(MaxStderr), <<>>)
        <2>1. MaxStdout \in Nat /\ MaxStderr \in Nat
            BY CommandLimitsAssumption
        <2> QED
            BY <2>1, CollectorFaithful
    <1>8. ~Protected(<<>>)
        BY <1>2 DEF GoodPath, Root
    <1>9. StreamInv
        BY <1>5, <1>7, <1>8 DEF StreamInv
    <1>10. StepInv
        BY <1>5, NoWords DEF StepInv
    <1> QED
        BY <1>6, <1>9, <1>10 DEF TextInv

(* Leasing leaves all of it alone.                                         *)
LEMMA LeaseText ==
    ASSUME TextInv, AcquireLease \/ OwnResolved \/ OwnUnresolved \/ Protect
    PROVE  TextInv'
    <1>1. /\ pc = "lease" /\ pc' \in {"lease", "admit", "closing"}
          /\ UNCHANGED <<tree, session, units, unit, prep, pipe, stage, run, emitted>>
        BY DEF AcquireLease, OwnResolved, OwnUnresolved, Protect, Raise, execVars
    <1>2. PlaceInv'
        BY <1>1 DEF TextInv, PlaceInv
    <1>3. StreamInv'
        BY <1>1 DEF TextInv, StreamInv
    <1>4. StepInv'
        BY <1>1 DEF TextInv, StepInv
    <1> QED
        BY <1>2, <1>3, <1>4 DEF TextInv

(* The plan is parsed.                                                     *)
LEMMA AdmitText ==
    ASSUME CallInv, TextInv, Admit
    PROVE  TextInv'
    <1>1. /\ UNCHANGED <<tree, session, unit, prep, pipe, stage, run, emitted>>
          /\ \/ pc' = "unit"
             \/ pc' = "closing" /\ UNCHANGED units
        <2>1. UNCHANGED emitted
            BY DEF Admit
        <2> QED
            BY <2>1, AdmitFacts
    <1>2. TextUnits(units')
        BY <1>1, AdmittedText DEF TextInv, StepInv
    <1>3. PlaceInv'
        BY <1>1 DEF TextInv, PlaceInv
    <1>4. StreamInv'
        BY <1>1 DEF TextInv, StreamInv
    <1>5. StepInv'
        BY <1>1, <1>2 DEF StepInv
    <1> QED
        BY <1>3, <1>4, <1>5 DEF TextInv

(* The units that follow the first.                                        *)
LEMMA TailTexts ==
    ASSUME NEW us, GoodUnits(us), us # <<>>, TextUnits(us)
    PROVE  TextUnits(Tail(us)) /\ TextUnit(us[1])
    <1> DEFINE r == Tail(us)
    <1>1. /\ Len(us) \in Nat /\ Len(us) # 0 /\ DOMAIN us = 1..Len(us)
          /\ IsSeq(r) /\ Len(r) = Len(us) - 1
          /\ \A i \in 1..(Len(us) - 1) : r[i] = us[i + 1]
        BY SeqFacts DEF GoodUnits
    <1> HIDE DEF r
    <1>2. DOMAIN r = 1..(Len(us) - 1)
        BY <1>1, SeqFacts
    <1>3. \A i \in DOMAIN r : r[i] = us[i + 1] /\ i + 1 \in DOMAIN us
        BY <1>1, <1>2
    <1>4. TextUnits(r)
        BY <1>1, <1>3 DEF TextUnits
    <1>5. TextUnit(us[1])
        BY <1>1 DEF TextUnits
    <1> QED
        BY <1>4, <1>5 DEF r

(* A unit is skipped.                                                      *)
LEMMA SkipUnitText ==
    ASSUME CallInv, TextInv, SkipUnit
    PROVE  TextInv'
    <1>1. /\ pc = "unit" /\ units # <<>> /\ units' = Tail(units)
          /\ UNCHANGED <<tree, session, pc, unit, prep, pipe, stage, run, emitted>>
        BY DEF SkipUnit
    <1>2. TextUnits(units')
        BY <1>1, TailTexts DEF CallInv, TextInv, StepInv
    <1>3. PlaceInv'
        BY <1>1 DEF TextInv, PlaceInv
    <1>4. StreamInv'
        BY <1>1 DEF TextInv, StreamInv
    <1>5. StepInv'
        BY <1>1, <1>2 DEF StepInv
    <1> QED
        BY <1>3, <1>4, <1>5 DEF TextInv

(* A unit begins.                                                          *)
LEMMA BeginUnitText ==
    ASSUME CallInv, TextInv, BeginUnit
    PROVE  TextInv'
    <1>1. /\ pc = "unit" /\ units # <<>> /\ UNCHANGED <<tree, session, run, emitted>>
          /\ \/ \E code : Raise(code) /\ UNCHANGED units
             \/ /\ units' = Tail(units) /\ prep' = PrepareUnit(units[1])
                /\ pipe' = NoPipe /\ stage' = prep'.failure
                /\ pc' = IF prep'.failure.exit = 0 THEN "run" ELSE "settle"
        BY DEF BeginUnit
    <1>2. CASE \E code : Raise(code) /\ UNCHANGED units
        <2>1. Tidy(tree')
            BY <1>1 DEF TextInv, PlaceInv
        <2> QED
            BY <1>1, <1>2, <2>1, RaiseText
    <1>3. CASE /\ units' = Tail(units) /\ prep' = PrepareUnit(units[1])
               /\ pipe' = NoPipe /\ stage' = prep'.failure
               /\ pc' = IF prep'.failure.exit = 0 THEN "run" ELSE "settle"
        <2>1. GoodUnit(units[1]) /\ TextUnits(units') /\ TextUnit(units[1])
            BY <1>1, <1>3, TailUnits, TailTexts DEF CallInv, TextInv, StepInv
        <2>2. PreparedText(prep')
            BY <1>3, <2>1, PrepareUnitText DEF TextInv, PlaceInv, GoodPath
        <2>3. Printed(stage')
            BY <1>3, <2>2 DEF PreparedText
        <2>4. IsText(pipe'.err) /\ IsText(pipe'.input)
            <3>1. NoPipe.err = <<>> /\ NoPipe.input = <<>>
                BY DEF NoPipe
            <3> QED
                BY <1>3, <3>1, NoText
        <2>5. pc' \in {"run", "settle"}
            BY <1>3
        <2>6. PlaceInv'
            BY <1>1 DEF TextInv, PlaceInv
        <2>7. StreamInv'
            BY <1>1 DEF TextInv, StreamInv
        <2>8. StepInv'
            BY <2>1, <2>2, <2>3, <2>4, <2>5 DEF StepInv
        <2> QED
            BY <2>6, <2>7, <2>8 DEF TextInv
    <1> QED
        BY <1>1, <1>2, <1>3

-----------------------------------------------------------------------------
(* A stage runs.                                                           *)

(* What the command of the stage is given, and so what it answers.         *)
LEMMA StageNeat ==
    ASSUME UnitInv, TextInv, pc = "run"
    PROVE  Neat(StageResult)
    <1> DEFINE ctx == [cwd |-> run.cwd, view |-> View, stdin |-> pipe.input,
                       connected |-> pipe.k > 1]
               argv == StageArgv
    <1>1. StageResult = Handler(argv, ctx, tree)
        BY DEF StageResult
    <1>2. /\ ctx.cwd = run.cwd /\ ctx.view = View /\ ctx.stdin = pipe.input
        OBVIOUS
    <1> HIDE DEF ctx
    <1>3. GoodContext(ctx) /\ Tidy(tree)
        BY <1>2, ViewTexts DEF GoodContext, TextInv, PlaceInv, StepInv, GoodPath
    <1>4. Stage(argv) /\ argv[1][1] \in Commands /\ pipe.k \in DOMAIN prep.stages
        <2>1. /\ pipe.k \in 1..Len(unit.stages) /\ Runnable(argv)
              /\ IsSeq(prep.stages) /\ Len(prep.stages) = Len(unit.stages)
            BY DEF UnitInv, Prepared, StageArgv
        <2>2. DOMAIN prep.stages = 1..Len(prep.stages)
            BY <2>1, SeqFacts
        <2> QED
            BY <2>1, <2>2 DEF Runnable
    <1>5. TextList(argv)
        BY <1>4 DEF StageArgv, TextInv, StepInv, PreparedText
    <1> HIDE DEF argv
    <1>6. argv # <<>>
        BY <1>4 DEF Stage
    <1> QED
        BY <1>1, <1>3, <1>4, <1>5, <1>6, HandlerNeat

(* The trees a command leaves on its way are tidy.                         *)
LEMMA AfterTidy ==
    ASSUME Tidy(tree), NEW trees, TidyTrees(trees), NEW n \in 0..Len(trees)
    PROVE  Tidy(After(trees, n))
    <1>1. Len(trees) \in Nat /\ DOMAIN trees = 1..Len(trees)
        BY SeqFacts DEF TidyTrees
    <1>2. n # 0 => n \in DOMAIN trees
        BY <1>1
    <1> QED
        BY <1>2 DEF After, TidyTrees

(* The end of a stage.                                                     *)
LEMMA FinishStageText ==
    ASSUME UnitInv, TextInv, pc = "run", NEW r, IsResult(r), Printed(r), FinishStage(r)
    PROVE  \/ \E code : Raise(code)
           \/ pc' = "settle" /\ Printed(stage')
           \/ pc' = "run" /\ IsText(pipe'.err) /\ IsText(pipe'.input)
    <1> DEFINE s == Sanitize(r)
               p == [pipe EXCEPT !.err = @ \o s.err, !.bytes = @ + Len(s.out),
                                 !.exit = IF s.exit # 0 THEN s.exit ELSE @,
                                 !.code = IF s.exit # 0 THEN s.code ELSE @]
               next == [p EXCEPT !.k = @ + 1, !.input = s.out]
               whole == Result(p.exit, p.code, s.out, p.err)
               cut == Result(1, "pipeline_limit_exceeded", <<>>, p.err \o Note)
               more == /\ pipe.k < Len(prep.stages)
                       /\ Len(s.out) > MaxIntermediate \/ p.bytes > MaxAggregate
               last == pipe.k = Len(prep.stages)
    <1>1. Printed(s)
        BY SanitizeText DEF Sanitized
    <1>2. \/ stage' = s /\ pc' = "settle"
          \/ Raise(Stopped)
          \/ Raise("internal")
          \/ (CASE last -> /\ stage' = whole /\ pc' = "settle" /\ UNCHANGED pipe
                [] more -> /\ stage' = cut /\ pc' = "settle" /\ UNCHANGED pipe
                [] OTHER -> pipe' = next /\ UNCHANGED <<pc, stage>>)
        BY Zenon DEF FinishStage
    <1>3. IsText(s.out) /\ IsText(s.err) /\ IsText(pipe.err) /\ DOMAIN pipe = PipeFields
        BY <1>1 DEF Printed, TextInv, StepInv, UnitInv
    <1> HIDE DEF s
    <1>4. DOMAIN p = PipeFields /\ p.err = pipe.err \o s.err
        BY <1>3 DEF PipeFields
    <1> HIDE DEF p
    <1>5. IsText(p.err)
        BY <1>3, <1>4, TextAppend
    <1>6. IsText(p.err \o Note)
        BY <1>5, NoteText, TextAppend
    <1>7. Printed(whole) /\ Printed(cut)
        BY <1>3, <1>5, <1>6, ResultNeat, NoText DEF Neat
    <1>8. next.err = p.err /\ next.input = s.out
        BY <1>4 DEF PipeFields
    <1> HIDE DEF next, whole, cut, more, last
    <1>9. \/ stage' = s /\ pc' = "settle"
          \/ Raise(Stopped)
          \/ Raise("internal")
          \/ stage' \in {whole, cut} /\ pc' = "settle"
          \/ pipe' = next /\ UNCHANGED <<pc, stage>>
        BY <1>2
    <1> QED
        BY <1>1, <1>3, <1>5, <1>7, <1>8, <1>9

(* A stage ends.                                                           *)
LEMMA RunStageText == ASSUME UnitInv, TextInv, RunStage PROVE TextInv'
    <1>1. /\ pc = "run" /\ UNCHANGED <<session, units, prep, run, emitted>>
          /\ \/ Raise("secret_expired") /\ UNCHANGED tree
             \/ /\ tree' = After(StageResult.trees, Len(StageResult.trees))
                /\ FinishStage(StageResult)
        BY Zenon DEF RunStage
    <1>2. Neat(StageResult) /\ IsResult(StageResult)
        BY <1>1, StageNeat, StageFacts
    <1>3. Tidy(tree')
        <2>1. Tidy(tree)
            BY DEF TextInv, PlaceInv
        <2> DEFINE trees == StageResult.trees
        <2>2. TidyTrees(trees)
            BY <1>2 DEF Neat
        <2>3. tree' = tree \/ tree' = After(trees, Len(trees))
            BY <1>1
        <2> HIDE DEF trees
        <2>4. Len(trees) \in 0..Len(trees)
            BY <2>2, SeqFacts DEF TidyTrees
        <2> QED
            BY <2>1, <2>2, <2>3, <2>4, AfterTidy
    <1>4. \/ \E code : Raise(code)
          \/ pc' = "settle" /\ Printed(stage')
          \/ pc' = "run" /\ IsText(pipe'.err) /\ IsText(pipe'.input)
        BY <1>1, <1>2, FinishStageText DEF Neat
    <1>5. CASE \E code : Raise(code)
        BY <1>1, <1>3, <1>5, RaiseText
    <1>6. CASE \/ pc' = "settle" /\ Printed(stage')
               \/ pc' = "run" /\ IsText(pipe'.err) /\ IsText(pipe'.input)
        <2>1. PlaceInv'
            BY <1>1, <1>3 DEF TextInv, PlaceInv
        <2>2. StreamInv'
            BY <1>1 DEF TextInv, StreamInv
        <2>3. StepInv'
            BY <1>1, <1>6 DEF TextInv, StepInv
        <2> QED
            BY <2>1, <2>2, <2>3 DEF TextInv
    <1> QED
        BY <1>4, <1>5, <1>6

(* A stage or a redirection is cut off.                                    *)
LEMMA InterruptsText ==
    ASSUME UnitInv, TextInv, Interrupt \/ HandlerFault \/ InterruptRedirect \/ RedirectFault
    PROVE  TextInv'
    <1>1. /\ UNCHANGED <<session, units, run, emitted>> /\ \E code : Raise(code)
          /\ \/ UNCHANGED tree
             \/ /\ pc = "run"
                /\ \E n \in 0..Len(StageResult.trees) : tree' = After(StageResult.trees, n)
        BY DEF Interrupt, HandlerFault, InterruptRedirect, RedirectFault
    <1>2. Tidy(tree')
        <2>1. Tidy(tree)
            BY DEF TextInv, PlaceInv
        <2> DEFINE trees == StageResult.trees
        <2>2. pc = "run" => TidyTrees(trees)
            BY StageNeat DEF Neat
        <2>3. tree' = tree \/ (pc = "run" /\ \E n \in 0..Len(trees) : tree' = After(trees, n))
            BY <1>1
        <2> HIDE DEF trees
        <2> QED
            BY <2>1, <2>2, <2>3, AfterTidy
    <1> QED
        BY <1>1, <1>2, RaiseText

(* The end of a unit: what is collected and kept was sanitized.            *)
LEMMA EndOfUnitText ==
    ASSUME WorkInv, PlaceInv, StreamInv, NEW s, IsResult(s), Sanitized(s),
           NEW out, IsText(out), ~Protected(out), EndOfUnit(s, out), Tidy(tree'),
           UNCHANGED session
    PROVE  PlaceInv' /\ StreamInv'
    <1> DEFINE c == Committed(s)
    <1>1. /\ DOMAIN c = RunFields /\ c.out = run.out /\ c.err = run.err
          /\ IF s.exit # 0
             THEN c.cwd = run.cwd /\ c.env = run.env /\ c.changes = run.changes
             ELSE /\ c.cwd = IF s.moves THEN s.cwd ELSE run.cwd
                  /\ c.env = ApplyChanges(run.env, s.changes)
                  /\ c.changes = run.changes \o s.changes
        BY DEF Committed, WorkInv, RunFields
    <1>2. run' = [c EXCEPT !.exit = s.exit, !.code = s.code,
                           !.out = Collect(@, out), !.err = Collect(@, s.err)]
          /\ emitted' = [out |-> emitted.out \o out, err |-> emitted.err \o s.err]
        BY Zenon DEF EndOfUnit
    <1> HIDE DEF c
    <1>3. /\ run'.cwd = c.cwd /\ run'.env = c.env /\ run'.changes = c.changes
          /\ run'.out = Collect(run.out, out) /\ run'.err = Collect(run.err, s.err)
          /\ emitted'.out = emitted.out \o out /\ emitted'.err = emitted.err \o s.err
        BY <1>1, <1>2 DEF RunFields
    <1>4. GoodPath(c.cwd)
        BY <1>1 DEF PlaceInv, Sanitized, Printed, GoodPath
    <1>5. GoodEnv(c.env)
        BY <1>1, ChangesEnv DEF PlaceInv, Sanitized
    <1>6. CleanChanges(c.changes)
        BY <1>1, MoreChanges DEF PlaceInv, Sanitized
    <1>7. PlaceInv'
        BY <1>3, <1>4, <1>5, <1>6 DEF PlaceInv
    <1>8. IsSeq(out) /\ Decodable(out) /\ IsSeq(s.err) /\ Decodable(s.err) /\ ~Protected(s.err)
        BY TextIs DEF Sanitized, Printed
    <1>9. Collected(run'.out, emitted'.out) /\ Collected(run'.err, emitted'.err)
        <2>1. Collected(Collect(run.out, out), emitted.out \o out)
            BY <1>8, CollectKeeps DEF StreamInv
        <2>2. Collected(Collect(run.err, s.err), emitted.err \o s.err)
            BY <1>8, CollectKeeps DEF StreamInv
        <2> QED
            BY <1>3, <2>1, <2>2
    <1>10. ~Protected(emitted'.out) /\ ~Protected(emitted'.err)
        <2>1. IsSeq(emitted.out) /\ IsSeq(emitted.err)
            BY DEF StreamInv, Collected
        <2>2. ~Protected(emitted.out \o out) /\ ~Protected(emitted.err \o s.err)
            BY <1>8, <2>1, CleanAppend DEF StreamInv
        <2> QED
            BY <1>3, <2>2
    <1>11. StreamInv'
        BY <1>9, <1>10 DEF StreamInv
    <1> QED
        BY <1>7, <1>11

(* A unit ends, or goes on to its redirection.                             *)
LEMMA SettleText == ASSUME PlanInv, TextInv, Settle PROVE TextInv'
    <1> DEFINE s == Sanitize(stage)
    <1>1. pc = "settle" /\ UNCHANGED <<tree, session, units, unit, prep, pipe>>
        BY DEF Settle
    <1>2. \/ Raise(Stopped) /\ UNCHANGED <<run, emitted>>
          \/ pc' = "redirect" /\ stage' = s /\ UNCHANGED <<run, emitted>>
          \/ EndOfUnit(s, s.out) /\ pc' = "unit"
        BY Zenon DEF Settle
    <1>3. IsResult(s) /\ Sanitized(s)
        BY <1>1, SanitizeResult, SanitizeText DEF PlanInv, UnitInv, TextInv, StepInv
    <1> HIDE DEF s
    <1>4. Tidy(tree') /\ PlaceInv /\ StreamInv /\ StepInv /\ WorkInv
        BY <1>1 DEF TextInv, PlaceInv, PlanInv
    <1>5. CASE Raise(Stopped) /\ UNCHANGED <<run, emitted>>
        BY <1>1, <1>4, <1>5, RaiseText
    <1>6. CASE pc' = "redirect" /\ stage' = s /\ UNCHANGED <<run, emitted>>
        <2>1. PlaceInv'
            BY <1>1, <1>4, <1>6 DEF PlaceInv
        <2>2. StreamInv'
            BY <1>4, <1>6 DEF StreamInv
        <2>3. StepInv'
            BY <1>1, <1>3, <1>4, <1>6 DEF StepInv, Sanitized
        <2> QED
            BY <2>1, <2>2, <2>3 DEF TextInv
    <1>7. CASE EndOfUnit(s, s.out) /\ pc' = "unit"
        <2>1. IsText(s.out) /\ ~Protected(s.out)
            BY <1>3 DEF Sanitized, Printed
        <2>2. PlaceInv' /\ StreamInv'
            BY <1>1, <1>3, <1>4, <1>7, <2>1, EndOfUnitText
        <2>3. StepInv'
            BY <1>1, <1>4, <1>7 DEF StepInv
        <2> QED
            BY <2>2, <2>3 DEF TextInv
    <1> QED
        BY <1>2, <1>5, <1>6, <1>7

(* _apply_redirection writes what was redacted where it was admitted.      *)
LEMMA RedirectedText ==
    ASSUME UnitInv, TextInv, pc = "redirect"
    PROVE  Tidy(Redirected.tree) /\ Printed(Redirected.stage)
    <1> DEFINE p == PathOf(prep.destination, run.cwd)
               r == IF unit.mode = ">" THEN WriteNode(tree, p, stage.out)
                    ELSE AppendNode(tree, p, stage.out)
               plain == Result(1, "redirection_failure", <<>>, stage.err \o Note)
               failed == [plain EXCEPT !.trees = <<>>]
               emptied == [stage EXCEPT !.out = <<>>]
               d == Redirected
    <1>1. /\ d.tree = tree \/ (Resolves(prep.destination, run.cwd) /\ d.tree = r.tree)
          /\ d.stage \in {failed, emptied}
        BY DEF Redirected
    <1>2. /\ Tidy(tree) /\ GoodPath(run.cwd) /\ IsResult(stage) /\ Printed(stage)
          /\ IsSeq(stage.out) /\ ~Protected(stage.out)
          /\ IsText(prep.destination) /\ ~Protected(prep.destination)
        BY TextIs DEF TextInv, PlaceInv, StepInv, UnitInv, PreparedText, Printed
    <1>3. ASSUME Resolves(prep.destination, run.cwd) PROVE Tidy(r.tree)
        <2>1. GoodPath(p)
            BY <1>2, <1>3, OperandPath
        <2> HIDE DEF p
        <2>2. GoodNode(stage.out)
            BY <1>2 DEF GoodNode
        <2>3. /\ Tidy(WriteNode(tree, p, stage.out).tree)
              /\ Tidy(AppendNode(tree, p, stage.out).tree)
            BY <1>2, <2>1, <2>2, WriteTidy, AppendTidy
        <2> QED
            BY <2>3
    <1>4. Printed(failed)
        <2>1. IsText(stage.err \o Note)
            BY <1>2, NoteText, TextAppend DEF Printed
        <2>2. Printed(plain) /\ DOMAIN plain = ResultFields
            BY <2>1, ResultNeat, NoText, PlainIsResult DEF Neat, IsResult
        <2> HIDE DEF plain
        <2>3. /\ failed.out = plain.out /\ failed.err = plain.err /\ failed.moves = plain.moves
              /\ failed.cwd = plain.cwd /\ failed.changes = plain.changes
            BY <2>2 DEF ResultFields
        <2> HIDE DEF failed
        <2> QED
            BY <2>2, <2>3 DEF Printed
    <1>5. Printed(emptied)
        <2>1. /\ emptied.out = <<>> /\ emptied.err = stage.err /\ emptied.moves = stage.moves
              /\ emptied.cwd = stage.cwd /\ emptied.changes = stage.changes
            BY <1>2 DEF IsResult, ResultFields
        <2> HIDE DEF emptied
        <2> QED
            BY <1>2, <2>1, NoText DEF Printed
    <1> HIDE DEF d, r, failed, emptied
    <1>6. Tidy(d.tree) /\ Printed(d.stage)
        BY <1>1, <1>2, <1>3, <1>4, <1>5
    <1> QED
        BY <1>6 DEF d

(* A redirection ends.                                                     *)
LEMMA RedirectText == ASSUME PlanInv, TextInv, Redirect PROVE TextInv'
    <1> DEFINE s == Sanitize(Redirected.stage)
    <1>1. /\ pc = "redirect" /\ tree' = Redirected.tree
          /\ UNCHANGED <<session, units, unit, prep, pipe, stage>>
          /\ \/ Raise(Stopped) /\ UNCHANGED <<run, emitted>>
             \/ EndOfUnit(s, <<>>) /\ pc' = "unit"
        BY Zenon DEF Redirect
    <1>2. Tidy(tree') /\ Printed(Redirected.stage)
        BY <1>1, RedirectedText DEF PlanInv
    <1>3. IsResult(s) /\ Sanitized(s)
        BY <1>1, <1>2, RedirectedResult, SanitizeResult, SanitizeText DEF PlanInv, UnitInv
    <1> HIDE DEF s
    <1>4. CASE Raise(Stopped) /\ UNCHANGED <<run, emitted>>
        BY <1>1, <1>2, <1>4, RaiseText
    <1>5. CASE EndOfUnit(s, <<>>) /\ pc' = "unit"
        <2> DEFINE none == <<>>
        <2>1. IsText(none) /\ ~Protected(none)
            <3>1. DOMAIN none = {}
                OBVIOUS
            <3> QED
                BY <3>1, NoText DEF Protected, Range
        <2>2. PlaceInv /\ StreamInv /\ StepInv /\ WorkInv /\ EndOfUnit(s, none)
            BY <1>5 DEF TextInv, PlanInv
        <2> HIDE DEF none
        <2>3. PlaceInv' /\ StreamInv'
            BY <1>1, <1>2, <1>3, <2>1, <2>2, EndOfUnitText
        <2>4. StepInv'
            BY <1>1, <1>5, <2>2 DEF StepInv
        <2> QED
            BY <2>3, <2>4 DEF TextInv
    <1> QED
        BY <1>1, <1>4, <1>5

(* The beginning and the end of the call, and what happens around it.      *)
LEMMA RestText ==
    ASSUME TextInv,
           \/ Return \/ CloseOwn \/ Publish \/ Elsewhere
           \/ (\E s \in Scripts : Submit(s)) \/ (\E c \in Causes : Stop(c))
    PROVE  TextInv'
    <1>1. /\ UNCHANGED <<tree, units, prep, pipe, stage, run, emitted>>
          /\ pc' = pc \/ pc' \in {"lease", "closing", "done"}
          /\ \/ UNCHANGED session
             \/ session' = [cwd |-> run.cwd, env |-> ApplyChanges(session.env, run.changes)]
        BY DEF Return, CloseOwn, Publish, Elsewhere, Submit, Stop, Raise, execVars
    <1>2. GoodPath(session'.cwd) /\ GoodEnv(session'.env)
        <2>1. GoodEnv(ApplyChanges(session.env, run.changes))
            BY ChangesEnv DEF TextInv, PlaceInv
        <2> QED
            BY <1>1, <2>1 DEF TextInv, PlaceInv
    <1>3. PlaceInv'
        BY <1>1, <1>2 DEF TextInv, PlaceInv
    <1>4. StreamInv'
        BY <1>1 DEF TextInv, StreamInv
    <1>5. StepInv'
        BY <1>1 DEF TextInv, StepInv
    <1> QED
        BY <1>3, <1>4, <1>5 DEF TextInv

(* With the invariant of the plan, that of the texts is inductive.         *)
LEMMA TextInvKeeps == PlanInv /\ TextInv /\ [Next]_vars => TextInv'
    <1> SUFFICES ASSUME PlanInv, TextInv, [Next]_vars PROVE TextInv'
        OBVIOUS
    <1>1. CallInv /\ UnitInv
        BY DEF PlanInv
    <1>2. CASE UNCHANGED vars
        <2>1. PlaceInv'
            BY <1>2 DEF TextInv, PlaceInv, vars, execVars
        <2>2. StreamInv'
            BY <1>2 DEF TextInv, StreamInv, vars, execVars
        <2>3. StepInv'
            BY <1>2 DEF TextInv, StepInv, vars, execVars
        <2> QED
            BY <2>1, <2>2, <2>3 DEF TextInv
    <1>3. CASE Next
        BY <1>1, <1>3, LeaseText, AdmitText, SkipUnitText, BeginUnitText, RunStageText,
           InterruptsText, SettleText, RedirectText, RestText DEF Next
    <1> QED
        BY <1>2, <1>3

(* At every moment of a call, what commands are given and what they print  *)
(* are texts of whole characters, a stream has collected what was printed  *)
(* so far, and the workspace, the environment, the directory and whatever  *)
(* is on its way to a file or to the caller are free of the secret.        *)
THEOREM TextInvariant == Spec => []TextInv
    <1>1. Init => PlanInv /\ TextInv
        BY PlanInit, TextInit
    <1>2. PlanInv /\ TextInv /\ [Next]_vars => (PlanInv /\ TextInv)'
        BY PlanInvKeeps, TextInvKeeps
    <1> QED
        BY <1>1, <1>2, PTL DEF Spec

(* A protected value that commands can read reaches neither the workspace, *)
(* nor the output, nor the state that outlives the call, whatever command  *)
(* lines run, wherever the call is cut off, and also after the lease of    *)
(* the value has expired.                                                  *)
THEOREM ValuesContained == Spec => []SecretsContained
    <1>1. TextInv => SecretsContained
        <2> SUFFICES ASSUME TextInv PROVE SecretsContained
            OBVIOUS
        <2>1. \A p \in DOMAIN tree : ~Protected(p) /\ (IsFile(tree, p) => ~Protected(tree[p]))
            BY DEF TextInv, PlaceInv, Tidy, IsFile
        <2>2. ASSUME NEW c, NEW all, Collected(c, all), ~Protected(all)
              PROVE  ~Protected(c.text)
            <3>1. /\ DOMAIN c.text = 1..Len(c.text) /\ DOMAIN all = 1..Len(all)
                  /\ Len(c.text) \in Nat /\ Len(all) \in Nat
                BY <2>2, SeqFacts DEF Collected
            <3>2. \A i \in DOMAIN c.text : i \in DOMAIN all /\ c.text[i] = all[i]
                BY <2>2, <3>1 DEF Collected
            <3> QED
                BY <2>2, <3>2 DEF Protected, Range
        <2>3. ~Protected(run.out.text) /\ ~Protected(run.err.text)
            BY <2>2 DEF TextInv, StreamInv
        <2>4. \A s \in {run, session} : ~Protected(s.cwd) /\ \A n \in DOMAIN s.env : ~Protected(s.env[n])
            BY DEF TextInv, PlaceInv, GoodPath, GoodEnv
        <2>5. \A c \in Range(run.changes) : ~Protected(c.value)
            BY DEF TextInv, PlaceInv, CleanChanges, CleanChange, Range
        <2> QED
            BY <2>1, <2>3, <2>4, <2>5 DEF SecretsContained
    <1> QED
        BY <1>1, TextInvariant, PTL

(* What a caller gets of a stream is at every moment a prefix of what the  *)
(* units printed there, whole characters up to the limit; the reported     *)
(* size is that of everything printed, and truncated says whether          *)
(* something is missing.                                                   *)
THEOREM StreamsFaithful == Spec => []OutputFaithful
    <1>1. TextInv => OutputFaithful
        BY CollectorFaithful DEF TextInv, StreamInv, OutputFaithful
    <1> QED
        BY <1>1, TextInvariant, PTL

=============================================================================
