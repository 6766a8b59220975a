-------------------------------- MODULE Json --------------------------------
(* JSONParser: an object is filled by its setters, written as text, and the
   text, or what arrives of it, is read again by another JSONParser.

   Texts are sequences of characters; the literals true, false and null are one
   character each.  A parser is lazy: a nested object or array stays a text
   until getObject, getArrayOfJSON or getJSONArray make a parser of it, so the
   objects put into one another are kept in objs, the innermost first, and read
   back from the outermost.  What the application said of each key is kept
   beside the text the object made of it.                                     *)
EXTENDS Integers, SequencesExt, Functions

CONSTANTS Keys,      \* keys: texts of letters, which are written as they are
          Strings,   \* what setString is given,
          Ints,      \* the setters of whole numbers,
          Tenths,    \* those of numbers with a fraction, in tenths,
          StringArrays, IntArrays, TenthArrays, BoolArrays, \* and those of arrays: sequences
          MaxItems,  \* bound: objects in an array
          MaxCut,    \* bound: characters missing of a text
          MaxCalls   \* bound: setter calls in a behaviour

Quote == "\""
Backslash == "\\"
White == {" ", "\n", "\t"}
Digits == <<"0", "1", "2", "3", "4", "5", "6", "7", "8", "9">>
Digit == Range(Digits)
Literals == {<<"true">>, <<"false">>, <<"null">>}

ASSUME JsonAssumption ==
  /\ Keys \cup Strings \subseteq Seq(STRING) /\ StringArrays \subseteq Seq(Seq(STRING))
  /\ \A k \in Keys : k # << >> /\ Range(k) \cap {Quote, Backslash} = {}
  /\ Ints \cup Tenths \subseteq Int /\ IntArrays \cup TenthArrays \subseteq Seq(Int) /\ BoolArrays \subseteq Seq(BOOLEAN)
  /\ MaxCalls \in Nat /\ MaxCut \in Nat /\ MaxItems \in Nat

\* A map with one more entry, or another.
Put(f, k, v) == [x \in DOMAIN f \cup {k} |-> IF x = k THEN v ELSE f[x]]

VARIABLES objs,   \* the objects, each put into the next; the last one is sent
          calls,
          cut,    \* the text arrived without its end
          parser, \* [view, jp, keys, data, arrayData, ok] of the reading side, and
                  \* the loop it is in: "none" yet, "object", "array", "done"
          level   \* which of objs the parser is reading
jsonVars == <<objs, calls, cut, parser, level>>

-----------------------------------------------------------------------------
(* Writing.                                                                  *)

\* std::to_string.
to_string(n) ==
  LET decimal[i \in Nat] == IF i < 10 THEN <<Digits[i + 1]>>
                            ELSE Append(decimal[i \div 10], Digits[(i % 10) + 1])
  IN IF n < 0 THEN <<"-">> \o decimal[-n] ELSE decimal[n]
\* The same of n tenths; of the six decimals it writes, the model has one.
to_stringTenths(n) ==
  LET size == IF n < 0 THEN -n ELSE n
  IN (IF n < 0 THEN <<"-">> ELSE << >>) \o to_string(size \div 10) \o <<".">> \o to_string(size % 10)

\* Control characters without a letter of their own are written as \u00xx.
Escape(c) == CASE c \in {Quote, Backslash} -> <<Backslash, c>>
               [] c = "\n" -> <<Backslash, "n">>
               [] c = "\t" -> <<Backslash, "t">>
               [] c = "esc" -> <<Backslash, "u", "0", "0", "1", "b">>
               [] OTHER -> <<c>>
escapeJson(t) == FlattenSeq([i \in DOMAIN t |-> Escape(t[i])])
stringToString(t) == <<Quote>> \o escapeJson(t) \o <<Quote>>

AllDigits(t, a, b) == a <= b /\ \A i \in a..b : t[i] \in Digit
\* The number grammar of RFC 8259.
isJsonNumberLiteral(t) ==
  LET n == Len(t)
      first == IF t # << >> /\ t[1] = "-" THEN 2 ELSE 1
      Exponent(a) == \/ a > n
                     \/ t[a] = "e" /\ \/ AllDigits(t, a + 1, n)
                                      \/ (a < n /\ t[a + 1] \in {"+", "-"} /\ AllDigits(t, a + 2, n))
      Fraction(a) == \/ Exponent(a)
                     \/ t[a] = "." /\ \E f \in (a + 1)..n : AllDigits(t, a + 1, f) /\ Exponent(f + 1)
  IN \E m \in first..n : /\ AllDigits(t, first, m) /\ (t[first] = "0" => m = first)
                         /\ Fraction(m + 1)

\* toString takes a value for what its first characters look like.
Written(v) ==
  IF (v # << >> /\ v[1] \in {"{", "["}) \/ v \in Literals \/ isJsonNumberLiteral(v)
  THEN v ELSE stringToString(v)

Joined(parts) == FlattenSeq([i \in DOMAIN parts |-> IF i = 1 THEN parts[i] ELSE <<",">> \o parts[i]])
Listed(parts) == <<"[">> \o Joined(parts) \o <<"]">>

toString(o) ==
  IF o.keys = << >> /\ o.arrayData # << >> THEN Listed(o.arrayData)
  ELSE <<"{">> \o Joined([i \in DOMAIN o.keys |->
                            <<Quote>> \o o.keys[i] \o <<Quote, ":">> \o Written(o.data[o.keys[i]])])
       \o <<"}">>

-----------------------------------------------------------------------------
(* Reading: each operator returns the place it stopped at and what it got.   *)

End(t) == Len(t) + 1
\* What stands at the places S, in their order.
Picked(t, S) ==
  LET picked[n \in 0..Len(t)] ==
        IF n = 0 THEN << >> ELSE IF n \in S THEN Append(picked[n - 1], t[n]) ELSE picked[n - 1]
  IN picked[Len(t)]
At(t, p, c) == p < End(t) /\ t[p] = c
Skip(t, p) == Min({q \in p..End(t) : q = End(t) \/ t[q] \notin White} \cup {End(t)})

(* A scan of a text: whether it is within a string, or behind a backslash there
   or elsewhere, and how many brackets of each kind are open.                 *)
Fresh == [mode |-> "plain", braces |-> 0, brackets |-> 0]

Unescaped(s) == [s EXCEPT !.mode = IF @ = "escape" THEN "plain" ELSE "string"]
Escaping(s) == [s EXCEPT !.mode = IF @ = "plain" THEN "escape" ELSE "string escape"]
Quoting(s) == [s EXCEPT !.mode = IF @ = "plain" THEN "string" ELSE "plain"]
Counting(s, c) ==
  IF s.mode = "string" THEN s
  ELSE [s EXCEPT !.braces = IF c = "{" THEN @ + 1 ELSE IF c = "}" THEN @ - 1 ELSE @,
                 !.brackets = IF c = "[" THEN @ + 1 ELSE IF c = "]" THEN @ - 1 ELSE @]
\* Mutant: every character after a backslash counts as escaped.
EscapedAnyway(s, c) ==
  IF c = Backslash THEN [s EXCEPT !.mode = IF @ \in {"plain", "escape"} THEN "escape" ELSE "string escape"]
  ELSE IF s.mode \in {"escape", "string escape"} THEN Unescaped(s)
  ELSE IF c = Quote THEN Quoting(s) ELSE Counting(s, c)
After(s, c) ==
  IF s.mode \in {"escape", "string escape"} THEN Unescaped(s)
  ELSE IF c = Backslash THEN Escaping(s)
  ELSE IF c = Quote THEN Quoting(s) ELSE Counting(s, c)
\* The state before each place from p on, and at the end.
Scan(t, p) ==
  LET states[n \in 0..(End(t) - p)] ==
        IF n = 0 THEN <<Fresh>>
        ELSE LET before == states[n - 1] IN Append(before, After(before[n], t[p + n - 1]))
      all == states[End(t) - p]
  IN [i \in p..End(t) |-> all[i - p + 1]]

readString(t, p) ==
  LET scan == Scan(t, p)
      end == Min({i \in (p + 1)..Len(t) : scan[i + 1].mode = "plain"} \cup {End(t)})
      kept == {i \in (p + 1)..(end - 1) : scan[i].mode = "string escape" \/ t[i] # Backslash}
  IN IF ~At(t, p, Quote) THEN [at |-> p, got |-> << >>]
     ELSE [at |-> Min({end + 1, End(t)}), got |-> Picked(t, kept)]

readNumber(t, p) ==
  LET first == IF At(t, p, "-") THEN p + 1 ELSE p
      end == Min({i \in first..Len(t) : t[i] \notin Digit \cup {"."}} \cup {End(t)})
  IN [at |-> end, got |-> SubSeq(t, p, end - 1)]

\* To where as many brackets of the kind were closed as opened.
readNested(t, p, kind) ==
  LET scan == Scan(t, p)
      end == Min({i \in p..Len(t) : scan[i + 1][kind] = 0} \cup {Len(t)})
  IN [at |-> end + 1, got |-> SubSeq(t, p, end)]

\* What starts with none of these is no data: nothing is read, the place stays.
readData(t, from) ==
  LET p == Skip(t, from)
  IN IF p = End(t) THEN [at |-> p, got |-> << >>]
     ELSE CASE t[p] = Quote -> readString(t, p)
            [] t[p] \in Digit \cup {"-"} -> readNumber(t, p)
            [] <<t[p]>> \in Literals -> [at |-> p + 1, got |-> <<t[p]>>]
            [] t[p] = "{" -> readNested(t, p, "braces")
            [] t[p] = "[" -> readNested(t, p, "brackets")
            [] OTHER -> [at |-> p, got |-> << >>]

Trimmed(t) == LET ink == {i \in DOMAIN t : t[i] \notin White}
              IN IF ink = {} THEN << >> ELSE SubSeq(t, Min(ink), Max(ink))
\* The elements between the commas of the outermost brackets; without the
\* closing bracket the last element is lost.
parseArrayString(t) ==
  IF ~At(t, 1, "[") THEN << >>
  ELSE LET scan == Scan(t, 2)
           ends == {i \in 2..Len(t) : scan[i + 1].brackets < 0}
           end == Min(ends \cup {End(t)})
           cuts == {i \in 2..(end - 1) : t[i] = "," /\ scan[i] = Fresh}
           stops == Picked([i \in DOMAIN t |-> i], cuts \cup (ends \cap {end}))
           pieces == [j \in DOMAIN stops |->
                        Trimmed(SubSeq(t, IF j = 1 THEN 2 ELSE stops[j - 1] + 1, stops[j] - 1))]
       IN Picked(pieces, {j \in DOMAIN stops : pieces[j] # << >>})

extractString(t) == IF Len(t) >= 2 /\ Head(t) = Quote /\ Last(t) = Quote THEN Tail(Front(t)) ELSE t

\* std::stoi: the number a text begins with.
IsNumber(t) == \E m \in {1, 2} : m <= Len(t) /\ t[m] \in Digit /\ (m = 2 => t[1] = "-")
stoi(t) ==
  LET first == IF t[1] = "-" THEN 2 ELSE 1
      end == Min({i \in first..Len(t) : t[i] \notin Digit} \cup {End(t)})
      value[i \in first..end] ==
        IF i = first THEN 0
        ELSE 10 * value[i - 1] + (CHOOSE d \in 0..9 : Digits[d + 1] = t[i - 1])
  IN IF first = 2 THEN -value[end] ELSE value[end]
\* std::stod, in tenths, of what to_string writes.
stod(t) == LET dot == SelectInSeq(t, LAMBDA c : c = ".")
           IN IF dot = 0 THEN 10 * stoi(t) ELSE stoi(SubSeq(t, 1, dot - 1) \o SubSeq(t, dot + 1, dot + 1))

-----------------------------------------------------------------------------
(* Getters.                                                                  *)

getString(k) == IF k \in DOMAIN parser.data THEN parser.data[k] ELSE << >>
getInt(k) == IF IsNumber(getString(k)) THEN stoi(getString(k)) ELSE 0
getDouble(k) == IF IsNumber(getString(k)) THEN stod(getString(k)) ELSE 0
getBool(k) == getString(k) \in {<<"true">>, <<"1">>}
Elements(k) == parseArrayString(getString(k))
getStringArray(k) == [i \in DOMAIN Elements(k) |-> extractString(Elements(k)[i])]
\* Elements that are no number are passed over.
getIntArray(k) == LET numbers == SelectSeq(Elements(k), IsNumber)
                  IN [i \in DOMAIN numbers |-> stoi(numbers[i])]
getDoubleArray(k) == LET numbers == SelectSeq(Elements(k), IsNumber)
                     IN [i \in DOMAIN numbers |-> stod(numbers[i])]
getBoolArray(k) == [i \in DOMAIN Elements(k) |-> Elements(k)[i] \in {<<"true">>, <<"1">>}]
getArrayOfJSON(k) == Elements(k)

-----------------------------------------------------------------------------
(* The application fills objects.  said is what it asked of each key.        *)

NewObject == [keys |-> << >>, data |-> << >>, arrayData |-> << >>, said |-> << >>]
NoParser == [in |-> "none", view |-> << >>, jp |-> 1, keys |-> << >>, data |-> << >>, arrayData |-> << >>, ok |-> TRUE]
JsonInit == /\ objs = <<NewObject>> /\ calls = 0 /\ cut = FALSE
            /\ parser = NoParser /\ level = 0
Building == parser.in = "none"

\* Every setter replaces the value and appends the key if it is new.
Set(o, k, v, kind, value) ==
  [o EXCEPT !.keys = IF Contains(@, k) THEN @ ELSE Append(@, k),
            !.data = Put(@, k, v),
            !.said = Put(@, k, [kind |-> kind, value |-> value])]
Call == /\ Building /\ calls < MaxCalls /\ calls' = calls + 1
        /\ UNCHANGED <<cut, parser, level>>
Setter(k, v, kind, value) == Call /\ objs' = Front(objs) \o <<Set(Last(objs), k, v, kind, value)>>

setString(k, s) == Setter(k, s, "string", s)
\* setInt, setShort, setLong, setLongLong; setFloat, setDouble, setLongDouble.
setInt(k, n) == Setter(k, to_string(n), "int", n)
setDouble(k, n) == Setter(k, to_stringTenths(n), "double", n)
setBool(k, b) == Setter(k, IF b THEN <<"true">> ELSE <<"false">>, "bool", b)
setStringArray(k, ss) == Setter(k, Listed([i \in DOMAIN ss |-> stringToString(ss[i])]), "strings", ss)
\* setIntArray and the arrays of the other whole numbers; setDoubleArray likewise.
setIntArray(k, ns) == Setter(k, Listed([i \in DOMAIN ns |-> to_string(ns[i])]), "ints", ns)
setDoubleArray(k, ns) == Setter(k, Listed([i \in DOMAIN ns |-> to_stringTenths(ns[i])]), "doubles", ns)
setBoolArray(k, bs) ==
  Setter(k, Listed([i \in DOMAIN bs |-> IF bs[i] THEN <<"true">> ELSE <<"false">>]), "bools", bs)

\* The object is put into a new one: under a key, in an array under a key, or
\* as the elements of an array that has no keys.
Inside == toString(Last(objs))
setJSON(k) == Call /\ objs' = Append(objs, Set(NewObject, k, Inside, "json", Inside))
setArrayOfJSON(k, n) ==
  LET items == [i \in 1..n |-> Inside]
  IN Call /\ objs' = Append(objs, Set(NewObject, k, Listed(items), "jsons", items))
addJSONToArray(n) == Call /\ objs' = Append(objs, [NewObject EXCEPT !.arrayData = [i \in 1..n |-> Inside]])

removeKey(k) ==
  LET o == Last(objs)
  IN /\ Call /\ k \in DOMAIN o.data
     /\ objs' = Front(objs) \o <<[o EXCEPT !.keys = Picked(@, {i \in DOMAIN @ : @[i] # k}),
                                           !.data = Restrict(@, DOMAIN @ \ {k}),
                                           !.said = Restrict(@, DOMAIN @ \ {k})]>>

Build ==
  \/ \E k \in Keys : \/ \E s \in Strings : setString(k, s)
                     \/ \E n \in Ints : setInt(k, n)
                     \/ \E n \in Tenths : setDouble(k, n)
                     \/ \E b \in BOOLEAN : setBool(k, b)
                     \/ \E ss \in StringArrays : setStringArray(k, ss)
                     \/ \E ns \in IntArrays : setIntArray(k, ns)
                     \/ \E ns \in TenthArrays : setDoubleArray(k, ns)
                     \/ \E bs \in BoolArrays : setBoolArray(k, bs)
                     \/ setJSON(k)
                     \/ \E n \in 0..MaxItems : setArrayOfJSON(k, n)
                     \/ removeKey(k)
  \/ \E n \in 1..MaxItems : addJSONToArray(n)

-----------------------------------------------------------------------------
(* The text is parsed, a member or an element at a time.                     *)

Fails(p) == [p EXCEPT !.in = "done", !.ok = FALSE]
\* finishParse, with the place it starts from.
Finish(p, at) == LET end == Skip(p.view, at)
                 IN [p EXCEPT !.in = "done", !.jp = end, !.ok = end = End(p.view)]

\* The constructor, up to the loop over members or elements.
Parser(text) ==
  LET start == Skip(text, 1)
      p == [NoParser EXCEPT !.view = text, !.jp = start + 1]
  IN IF At(text, start, "[") THEN [p EXCEPT !.in = "array"]
     ELSE IF At(text, start, "{") THEN [p EXCEPT !.in = "object"]
     ELSE Fails(p)

Send == /\ Building /\ parser' = Parser(toString(Last(objs)))
        /\ level' = Len(objs) /\ UNCHANGED <<objs, calls, cut>>
\* A file or a body that ends early.
SendCut == /\ Building /\ cut' = TRUE
           /\ LET text == toString(Last(objs))
              IN \E n \in 1..Min({MaxCut, Len(text)}) : parser' = Parser(SubSeq(text, 1, Len(text) - n))
           /\ level' = Len(objs) /\ UNCHANGED <<objs, calls>>

\* Mutant: the comma is seen but not passed.
ContinueAtComma(p, at, close) ==
  LET next == Skip(p.view, at)
  IN IF At(p.view, next, close) THEN Finish(p, next + 1) ELSE [p EXCEPT !.jp = next]
\* After a value: past a comma, or past the end of the object or array.  The
\* comma may be missing.
Continue(p, at, close) ==
  LET next == Skip(p.view, at)
  IN IF At(p.view, next, close) THEN Finish(p, next + 1)
     ELSE [p EXCEPT !.jp = IF At(p.view, next, ",") THEN next + 1 ELSE next]

\* A member of the object.
Member(p) ==
  LET t == p.view
      start == Skip(t, p.jp)
      key == readString(t, start)
      colon == Skip(t, key.at)
      value == readData(t, colon + 1)
  IN IF At(t, start, "}") THEN Finish(p, start + 1)
     ELSE IF key.got = << >> THEN Fails(p)
     ELSE IF ~At(t, colon, ":") THEN Fails([p EXCEPT !.keys = Append(@, key.got)])
     ELSE Continue([p EXCEPT !.keys = Append(@, key.got), !.data = Put(@, key.got, value.got)],
                   value.at, "}")

\* An element of the array; it stays a text, and an empty one is passed over.
Element(p) ==
  LET t == p.view
      start == Skip(t, p.jp)
      value == readData(t, start)
  IN IF At(t, start, "]") THEN Finish(p, start + 1)
     ELSE Continue([p EXCEPT !.arrayData = IF value.got = << >> THEN @ ELSE Append(@, value.got)],
                   value.at, "]")

\* The loops end with the text: one that ends here is taken for complete.
Loop(p) == IF p.jp = End(p.view) THEN Finish(p, p.jp)
           ELSE IF p.in = "object" THEN Member(p) ELSE Element(p)
Pass == /\ parser.in \in {"object", "array"} /\ parser' = Loop(parser)
        /\ UNCHANGED <<objs, calls, cut, level>>

\* The reader goes into what it read, an object put there by the writer.
Deeper(text) == /\ level > 1 /\ parser' = Parser(text)
                /\ level' = level - 1 /\ UNCHANGED <<objs, calls, cut>>
SaidKind(k) == IF parser.in = "done" /\ k \in DOMAIN objs[level].said THEN objs[level].said[k].kind ELSE "nothing"
getObject(k) == SaidKind(k) = "json" /\ k \in DOMAIN parser.data /\ Deeper(parser.data[k])
getArrayElement(k) ==
  SaidKind(k) = "jsons" /\ \E i \in DOMAIN getArrayOfJSON(k) : Deeper(getArrayOfJSON(k)[i])
getJSONArray == parser.in = "done" /\ \E i \in DOMAIN parser.arrayData : Deeper(parser.arrayData[i])

Get == getJSONArray \/ \E k \in Keys : getObject(k) \/ getArrayElement(k)
JsonNext == Build \/ Send \/ SendCut \/ Pass \/ Get
JsonSpec == JsonInit /\ [][JsonNext]_jsonVars

-----------------------------------------------------------------------------
(* What the writer may give for it to come back: a string that begins with a
   bracket is written as if it were JSON, and a number with an exponent is
   written as a number, of which readNumber leaves the exponent behind.       *)
SetStrings == UNION {{o.said[k].value : k \in {k \in DOMAIN o.said : o.said[k].kind = "string"}} : o \in Range(objs)}
NoneLikeJson == \A s \in SetStrings : s # << >> => s[1] \notin {"{", "["}
AllPlain == NoneLikeJson /\ \A s \in SetStrings : ~(isJsonNumberLiteral(s) /\ "e" \in Range(s))
Arrived == parser.in = "done" /\ ~cut /\ AllPlain

\* A control character comes back as the letter of its escape.
Heard(s) == FlattenSeq([i \in DOMAIN s |-> IF Len(Escape(s[i])) = 1 THEN <<s[i]>> ELSE Tail(Escape(s[i]))])
Got(k, kind) ==
  CASE kind = "string" -> getString(k) [] kind = "int" -> getInt(k) [] kind = "bool" -> getBool(k)
    [] kind = "strings" -> getStringArray(k) [] kind = "ints" -> getIntArray(k) [] kind = "bools" -> getBoolArray(k)
    [] kind = "double" -> getDouble(k) [] kind = "doubles" -> getDoubleArray(k)
    [] kind = "json" -> getString(k) [] kind = "jsons" -> getArrayOfJSON(k)
Promised(s) == CASE s.kind = "string" -> Heard(s.value)
                 [] s.kind = "strings" -> [i \in DOMAIN s.value |-> escapeJson(s.value[i])]
                 [] OTHER -> s.value

\* What was set under a key is what the getter of its type returns to the
\* reader, at every depth of nesting, whatever quotes, commas and brackets the
\* strings hold, and after keys were overwritten and removed.
ValuesComeBack ==
  Arrived => /\ parser.ok
             /\ \A k \in DOMAIN objs[level].said :
                  LET s == objs[level].said[k] IN Got(k, s.kind) = Promised(s)

\* The reader sees the keys the writer left, each once, in the order they were
\* first set, and the elements of an array without keys, each as its object wrote it.
ShapeComesBack ==
  Arrived => LET o == objs[level]
             IN /\ parser.keys = o.keys /\ IsInjective(parser.keys) /\ DOMAIN parser.data = Range(o.keys)
                /\ parser.arrayData = IF o.keys = << >> THEN o.arrayData ELSE << >>

\* A reader of the text an object wrote gets back the object: its values, its
\* keys and its elements.
RoundTrip == ValuesComeBack /\ ShapeComesBack

\* What an element of an array may begin with, the end and a comma included.
Known == {Quote, "-", "{", "[", "true", "false", "null", "]", ","} \cup Digit
Stray(p) == /\ p.in = "array" /\ Skip(p.view, p.jp) < End(p.view)
            /\ p.view[Skip(p.view, p.jp)] \notin Known

\* A pass of the parser's loops that neither leaves the loop nor gets further
\* is before an element that begins no value; the code's loop stays there.
StallsAtStrays ==
  parser.in \in {"object", "array"} =>
    LET p == Loop(parser) IN p.in = "done" \/ p.jp > parser.jp \/ Stray(parser)

\* Before such an element the loop passes for ever: it neither ends nor fails.
StraysStay == [][Stray(parser) => Stray(parser')]_jsonVars

\* The parser returns: each pass of its loops leaves the loop or gets further,
\* on every text an object writes, on every beginning of such a text and on all
\* that is nested in it, if no string it was given looks like JSON.
EveryPassAdvances ==
  NoneLikeJson /\ parser.in \in {"object", "array"} =>
    LET p == Loop(parser) IN p.in = "done" \/ p.jp > parser.jp

-----------------------------------------------------------------------------
JsonTyped ==
  /\ parser.in \in {"none", "object", "array", "done"} /\ level \in 0..Len(objs)
  /\ calls \in 0..MaxCalls /\ cut \in BOOLEAN
  /\ parser.in = "done" \/ parser.jp \in 1..End(parser.view)
  /\ DOMAIN parser.data \subseteq Range(parser.keys)
  /\ \A i \in DOMAIN objs : /\ Range(objs[i].keys) = DOMAIN objs[i].data
                            /\ DOMAIN objs[i].said = DOMAIN objs[i].data
=============================================================================
