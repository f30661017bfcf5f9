---------------------------- MODULE LogTextProofs ----------------------------
(***************************************************************************)
(* LogText for every buffer size, every argument list of the fields'       *)
(* types, and every text of a request.                                     *)
(***************************************************************************)
EXTENDS LogText, SequenceTheorems, TLAPS

\* The fields of log_payloads.def, one by one.
LEMMA FieldsAre ==
    /\ Len(HeaderFields) = 7 /\ DOMAIN HeaderFields = 1..7
    /\ HeaderFields[1] = "severity" /\ HeaderFields[2] = "timestamp"
    /\ HeaderFields[3] = "thread_id" /\ HeaderFields[4] = "request_id"
    /\ HeaderFields[5] = "class_id" /\ HeaderFields[6] = "method_id"
    /\ HeaderFields[7] = "schema_version"
BY DEF HeaderFields

\* No field has two places: Builder's assignment by position is one by name.
LEMMA PlaceIs ==
    \A i \in 1..7 : HeaderFields[i] \in HeaderField /\ Place(HeaderFields[i]) = i
<1> SUFFICES ASSUME NEW i \in 1..7
             PROVE  HeaderFields[i] \in HeaderField /\ Place(HeaderFields[i]) = i
    OBVIOUS
<1>1. HeaderFields[i] \in HeaderField
  BY FieldsAre DEF HeaderField
<1>2. \A j \in 1..7 : HeaderFields[j] = HeaderFields[i] => j = i
  BY FieldsAre
<1>3. \E j \in DOMAIN HeaderFields : HeaderFields[j] = HeaderFields[i]
  BY FieldsAre
<1>4. Place(HeaderFields[i]) \in 1..7 /\ HeaderFields[Place(HeaderFields[i])] = HeaderFields[i]
  BY <1>3, FieldsAre DEF Place
<1> QED BY <1>1, <1>2, <1>4

\* The header of a payload that was built from arguments.
LEMMA HeaderIs ==
    ASSUME NEW a \in [1..7 -> Value]
    PROVE  /\ Header(Build(a)) \in Seq(Token)
           /\ Len(Header(Build(a))) = 8
           /\ Header(Build(a))[1] = TagToken
           /\ \A i \in 2..8 : Header(Build(a))[i] = TokenOf(HeaderFields[i - 1], a[i - 1])
<1> DEFINE tokens == [i \in 1..7 |-> TokenOf(HeaderFields[i], a[i])]
           first  == <<TagToken>>
<1>1. \A i \in 1..7 : Build(a)[HeaderFields[i]] = a[i]
  BY PlaceIs DEF Build
<1>2. Header(Build(a)) = first \o tokens
  BY <1>1, FieldsAre DEF Header
<1>3. \A i \in 1..7 : TokenOf(HeaderFields[i], a[i]) \in Token
  BY PlaceIs DEF TokenOf, Token, Value, Field
<1>4. /\ tokens \in Seq(Token) /\ Len(tokens) = 7
      /\ \A i \in 1..7 : tokens[i] = TokenOf(HeaderFields[i], a[i])
  BY <1>3
<1>5. TagToken \in Token
  BY DEF TagToken, Token, Field
<1>6. first \in Seq(Token) /\ Len(first) = 1 /\ first[1] = TagToken
  BY <1>5
<1> HIDE DEF tokens, first
<1>7. /\ first \o tokens \in Seq(Token)
      /\ Len(first \o tokens) = Len(first) + Len(tokens)
      /\ \A i \in 1..Len(first) + Len(tokens) :
            (first \o tokens)[i] = IF i <= Len(first) THEN first[i] ELSE tokens[i - Len(first)]
  BY <1>4, <1>6, ConcatProperties
<1>8. Len(first \o tokens) = 8 /\ (first \o tokens)[1] = TagToken
  BY <1>4, <1>6, <1>7
<1>9. \A i \in 2..8 : (first \o tokens)[i] = TokenOf(HeaderFields[i - 1], a[i - 1])
  <2> SUFFICES ASSUME NEW i \in 2..8
               PROVE  (first \o tokens)[i] = TokenOf(HeaderFields[i - 1], a[i - 1])
    OBVIOUS
  <2>1. i \in 1..Len(first) + Len(tokens) /\ ~(i <= Len(first)) /\ i - Len(first) = i - 1
    BY <1>4, <1>6
  <2>2. (first \o tokens)[i] = tokens[i - 1]
    BY <1>7, <2>1
  <2> QED BY <1>4, <2>2
<1> QED BY <1>2, <1>7, <1>8, <1>9

\* Whatever is printed begins with the header, and is the header unless the
\* payload is the common module's.
LEMMA PrintIs ==
    ASSUME NEW a \in Args, NEW k \in Kind, NEW body \in Body
    PROVE  /\ PrintLine(k, Build(a), body) \in Seq(Token)
           /\ Len(PrintLine(k, Build(a), body)) >= 8
           /\ k # "common" => Len(PrintLine(k, Build(a), body)) = 8
           /\ PrintLine(k, Build(a), body)[1] = TagToken
           /\ \A i \in 2..8 :
                 PrintLine(k, Build(a), body)[i] = TokenOf(HeaderFields[i - 1], a[i - 1])
<1> DEFINE h == Header(Build(a))
<1>1. a \in [1..7 -> Value] /\ body \in Seq(Token)
  BY LogTextAssumption, FieldsAre
<1>2. /\ h \in Seq(Token) /\ Len(h) = 8 /\ h[1] = TagToken
      /\ \A i \in 2..8 : h[i] = TokenOf(HeaderFields[i - 1], a[i - 1])
  BY <1>1, HeaderIs
<1>3. PrintLine(k, Build(a), body) = h \/ PrintLine(k, Build(a), body) = h \o body
  BY DEF PrintLine
<1>4. k # "common" => PrintLine(k, Build(a), body) = h
  BY DEF PrintLine
<1> HIDE DEF h
<1>5. /\ h \o body \in Seq(Token)
      /\ Len(h \o body) = Len(h) + Len(body)
      /\ \A i \in 1..Len(h) + Len(body) :
            (h \o body)[i] = IF i <= Len(h) THEN h[i] ELSE body[i - Len(h)]
  BY <1>1, <1>2, ConcatProperties
<1>6. Len(body) \in Nat
  BY <1>1
<1>7. /\ Len(h \o body) >= 8
      /\ \A i \in 1..8 : (h \o body)[i] = h[i]
  BY <1>2, <1>5, <1>6
<1>8. \A i \in 2..8 : (h \o body)[i] = TokenOf(HeaderFields[i - 1], a[i - 1])
  <2> TAKE i \in 2..8
  <2>0. i \in 1..8
    OBVIOUS
  <2>1. (h \o body)[i] = h[i]
    BY <1>7, <2>0, Zenon
  <2> QED BY <1>2, <2>1
<1>9. (h \o body)[1] = TagToken
  BY <1>2, <1>7
<1>10. CASE PrintLine(k, Build(a), body) = h
  <2>1. Len(h) >= 8
    BY <1>2
  <2> QED BY <1>2, <1>10, <2>1, Zenon
<1>11. CASE PrintLine(k, Build(a), body) = h \o body
  <2>1. k # "common" => Len(PrintLine(k, Build(a), body)) = 8
    BY <1>2, <1>4, Zenon
  <2>2. PrintLine(k, Build(a), body) \in Seq(Token) /\ Len(PrintLine(k, Build(a), body)) >= 8
    BY <1>5, <1>7, <1>11, Zenon
  <2>3. PrintLine(k, Build(a), body)[1] = TagToken
    BY <1>9, <1>11
  <2>4. \A i \in 2..8 :
          PrintLine(k, Build(a), body)[i] = TokenOf(HeaderFields[i - 1], a[i - 1])
    BY <1>8, <1>11, Zenon
  <2> QED BY <2>1, <2>2, <2>3, <2>4
<1> QED BY <1>3, <1>10, <1>11

\* The place of a token of the header, from the widest its predecessors can be.
LEMMA HeaderWidths ==
    ASSUME NEW a \in Args, NEW k \in Kind \ {"common"}, NEW body \in Body
    PROVE  \A l : l = PrintLine(k, Build(a), body) =>
           /\ Width(l[1]) <= 8   /\ Width(l[2]) <= 22 /\ Width(l[3]) <= 31
           /\ Width(l[4]) <= 21  /\ Width(l[5]) <= 22 /\ Width(l[6]) <= 15
           /\ Width(l[7]) <= 16  /\ Width(l[8]) <= 21
<1> TAKE l
<1> HAVE l = PrintLine(k, Build(a), body)
<1>1. l[1] = TagToken /\ \A i \in 2..8 : l[i] = TokenOf(HeaderFields[i - 1], a[i - 1])
  BY PrintIs
<1>2. Width(l[1]) <= 8
  BY <1>1 DEF Width, TagToken, NameChars, Field
<1>3. \A i \in 1..7 : /\ HeaderFields[i] \in Field
                       /\ a[i].chars \in Nat /\ a[i].chars <= MaxChars[HeaderFields[i]]
  <2>1. a \in [1..7 -> Value] /\ \A i \in 1..7 : a[i].chars <= MaxChars[HeaderFields[i]]
    BY LogTextAssumption, FieldsAre
  <2>2. \A i \in 1..7 : a[i].chars \in Nat
    BY <2>1 DEF Value
  <2>3. \A i \in 1..7 : HeaderFields[i] \in Field
    BY PlaceIs DEF Field
  <2> QED BY <2>1, <2>2, <2>3
<1>4. \A i \in 2..8 :
        Width(l[i]) <= NameChars[HeaderFields[i - 1]] + MaxChars[HeaderFields[i - 1]] + 1
  BY <1>1, <1>3, FieldsAre, PlaceIs DEF Width, TokenOf, NameChars, MaxChars
<1>5. /\ NameChars["severity"] = 9 /\ NameChars["timestamp"] = 10
      /\ NameChars["thread_id"] = 10 /\ NameChars["request_id"] = 11
      /\ NameChars["class_id"] = 9 /\ NameChars["method_id"] = 10
      /\ NameChars["schema_version"] = 15
  BY <1>3, FieldsAre DEF NameChars
<1>6. /\ MaxChars["severity"] = 12 /\ MaxChars["timestamp"] = 20
      /\ MaxChars["thread_id"] = 10 /\ MaxChars["request_id"] = 10
      /\ MaxChars["class_id"] = 5 /\ MaxChars["method_id"] = 5
      /\ MaxChars["schema_version"] = 5
  BY PlaceIs, FieldsAre DEF MaxChars
<1>7. /\ Width(l[2]) <= 22 /\ Width(l[3]) <= 31 /\ Width(l[4]) <= 21
      /\ Width(l[5]) <= 22 /\ Width(l[6]) <= 15 /\ Width(l[7]) <= 16
      /\ Width(l[8]) <= 21
  BY <1>4, <1>5, <1>6, FieldsAre
<1> QED BY <1>2, <1>7

-----------------------------------------------------------------------------
\* What a turn of the loop appends.
LEMMA Appended ==
    ASSUME NEW S, NEW r \in Seq(S), NEW c \in Seq(S), NEW x \in S
    PROVE  /\ r \o c \o <<x>> \in Seq(S)
           /\ Len(r \o c \o <<x>>) = Len(r) + Len(c) + 1
           /\ \A i \in 1..Len(r) : (r \o c \o <<x>>)[i] = r[i]
           /\ \A i \in Len(r) + 1..Len(r) + Len(c) :
                 (r \o c \o <<x>>)[i] = c[i - Len(r)]
           /\ (r \o c \o <<x>>)[Len(r) + Len(c) + 1] = x
<1> DEFINE rc == r \o c
           one == <<x>>
<1>1. /\ rc \in Seq(S) /\ Len(rc) = Len(r) + Len(c)
      /\ \A i \in 1..Len(r) + Len(c) : rc[i] = IF i <= Len(r) THEN r[i] ELSE c[i - Len(r)]
  BY ConcatProperties
<1>2. one \in Seq(S) /\ Len(one) = 1 /\ one[1] = x
  OBVIOUS
<1> HIDE DEF rc, one
<1>3. /\ rc \o one \in Seq(S) /\ Len(rc \o one) = Len(rc) + Len(one)
      /\ \A i \in 1..Len(rc) + Len(one) :
            (rc \o one)[i] = IF i <= Len(rc) THEN rc[i] ELSE one[i - Len(rc)]
  <2>1. rc \in Seq(S) /\ one \in Seq(S)
    BY <1>1, <1>2
  <2> QED BY ONLY <2>1, ConcatProperties
<1>4. Len(r) \in Nat /\ Len(c) \in Nat
  OBVIOUS
<1>5. \A i \in 1..Len(rc) : (rc \o one)[i] = rc[i]
  BY <1>1, <1>2, <1>3, <1>4
<1>6. \A i \in 1..Len(r) : (rc \o one)[i] = r[i]
  BY <1>1, <1>4, <1>5
<1>7. \A i \in Len(r) + 1..Len(r) + Len(c) : (rc \o one)[i] = c[i - Len(r)]
  <2> TAKE i \in Len(r) + 1..Len(r) + Len(c)
  <2>1. i \in 1..Len(rc) /\ i \in 1..Len(r) + Len(c) /\ ~(i <= Len(r))
    BY <1>1, <1>4
  <2>2. rc[i] = c[i - Len(r)]
    BY <1>1, <2>1
  <2> QED BY <1>5, <2>1, <2>2
<1>8. (rc \o one)[Len(r) + Len(c) + 1] = x
  <2>1. Len(r) + Len(c) + 1 \in 1..Len(rc) + Len(one) /\ ~(Len(r) + Len(c) + 1 <= Len(rc))
    BY <1>1, <1>2, <1>4
  <2>2. Len(r) + Len(c) + 1 - Len(rc) = 1
    BY <1>1, <1>4
  <2>3. (rc \o one)[Len(r) + Len(c) + 1] = one[Len(r) + Len(c) + 1 - Len(rc)]
    BY <1>3, <2>1
  <2> QED BY <1>2, <2>2, <2>3
<1> QED BY <1>1, <1>2, <1>3, <1>4, <1>6, <1>7, <1>8 DEF rc, one

Read == [tok : Token, as : Reading]

\* A stretch of the line, copied or swallowed.
LEMMA TokensAre ==
    ASSUME line \in Seq(Token), NEW from \in Nat \ {0}, NEW to \in Nat,
           from <= to + 1, to <= Len(line), NEW how \in {"copied", "swallowed"}
    PROVE  /\ Tokens(from, to, how) \in Seq(Read)
           /\ Len(Tokens(from, to, how)) = to - from + 1
           /\ \A i \in 1..to - from + 1 :
                 Tokens(from, to, how)[i] = [tok |-> line[from + i - 1], as |-> how]
<1>1. to - from + 1 \in Nat
  OBVIOUS
<1>2. \A i \in 1..to - from + 1 :
        [tok |-> line[from + i - 1], as |-> how] \in Read
  BY <1>1 DEF Reading, Read
<1> QED BY <1>1, <1>2 DEF Tokens, Read

\* A number that converts, and whose name is in the table, has one of the names.
LEMMA NamesAreReadings ==
    ASSUME NEW t \in Token, Converts(t), HasName(t)
    PROVE  /\ t.field = "class_id"  => ClassName(t.num) \in Reading
           /\ t.field = "method_id" => MethodName(t.num) \in Reading
<1>1. t.num \in Int
  BY DEF Converts, Token
<1>2. ClassIndex(t.num) \in Nat /\ MethodIndex(t.num) \in Nat
  <2>1. ClassIndex(t.num) \in Nat
    BY <1>1 DEF ClassIndex
  <2>2. MethodIndex(t.num) \in Nat
    BY <1>1 DEF MethodIndex
  <2> QED BY <2>1, <2>2
<1>3. DOMAIN kClassNames = 1..Len(kClassNames) /\ Len(kClassNames) \in Nat
  BY DEF kClassNames
<1>4. DOMAIN kMethodNames = 1..Len(kMethodNames) /\ Len(kMethodNames) \in Nat
  BY DEF kMethodNames
<1>5. t.field = "class_id" => ClassName(t.num) \in Reading
  <2> HAVE t.field = "class_id"
  <2>1. ClassIndex(t.num) + 1 \in DOMAIN kClassNames
    BY <1>2, <1>3 DEF HasName
  <2> QED BY <2>1, Zenon DEF ClassName, Reading
<1>6. t.field = "method_id" => MethodName(t.num) \in Reading
  <2> HAVE t.field = "method_id"
  <2>1. MethodIndex(t.num) + 1 \in DOMAIN kMethodNames
    BY <1>2, <1>4 DEF HasName
  <2> QED BY <2>1, Zenon DEF MethodName, Reading
<1> QED BY <1>5, <1>6

\* A token has a width.
LEMMA WidthIsNat == \A t \in Token : Width(t) \in Nat
<1> TAKE t \in Token
<1>1. t.field \in Field /\ t.chars \in Nat /\ t.blanks \in Nat
  BY DEF Token
<1>2. HeaderField \subseteq {"severity", "timestamp", "thread_id", "request_id",
                             "class_id", "method_id", "schema_version"}
  BY FieldsAre DEF HeaderField
<1>3. NameChars[t.field] \in Nat
  BY <1>1, <1>2 DEF NameChars, Field
<1> QED BY <1>1, <1>3 DEF Width

-----------------------------------------------------------------------------
\* One turn of the loop, at any mark and with any name for it: where it goes on.
LEMMA ReplaceTypes ==
    ASSUME TypeOK, NEW i \in pos..Len(line), NEW name, Replace(i, name),
           Converts(line[i]) /\ HasName(line[i]) => name \in Reading
    PROVE  /\ pos' \in 1..Len(line) + 1
           /\ result' \in Seq(Read)
           /\ pc' \in {pc, "threw", "undefined"}
<1>1. /\ line \in Seq(Token) /\ pos \in Nat \ {0} /\ i \in 1..Len(line) /\ pos <= i
      /\ Len(line) \in Nat /\ result \in Seq(Read) /\ pos \in 1..Len(line) + 1
  BY DEF TypeOK, Read
<1>2. CASE ~(Converts(line[i]) /\ HasName(line[i]))
  BY <1>1, <1>2 DEF Replace
<1>3. CASE Converts(line[i]) /\ HasName(line[i])
  <2>1. PICK e \in i..Len(line) :
          /\ result' = result \o Tokens(pos, i - 1, "copied") \o <<[tok |-> line[i], as |-> name]>>
                              \o Tokens(i + 1, e, "swallowed")
          /\ pos' = e + 1 /\ pc' = pc
    BY <1>3 DEF Replace
  <2> DEFINE c == Tokens(pos, i - 1, "copied")
             d == Tokens(i + 1, e, "swallowed")
             one == <<[tok |-> line[i], as |-> name]>>
  <2>2. c \in Seq(Read)
    <3>1. i - 1 \in Nat /\ pos <= (i - 1) + 1 /\ i - 1 <= Len(line)
      BY <1>1
    <3> QED BY <1>1, <3>1, TokensAre
  <2>3. d \in Seq(Read)
    <3>1. /\ i + 1 \in Nat \ {0} /\ i + 1 <= e + 1 /\ e <= Len(line) /\ e \in Nat
      BY <1>1
    <3> QED BY <1>1, <3>1, TokensAre
  <2>4. one \in Seq(Read)
    BY <1>1, <1>3 DEF Read
  <2>5. result' = result \o c \o one \o d
    BY <2>1
  <2> HIDE DEF c, d, one
  <2>6. result \o c \in Seq(Read)
    BY <1>1, <2>2
  <2>7. result \o c \o one \in Seq(Read)
    BY <2>4, <2>6
  <2>8. result' \in Seq(Read)
    BY <2>3, <2>5, <2>7
  <2>9. pos' \in 1..Len(line) + 1
    BY <1>1, <2>1
  <2> QED BY <2>1, <2>8, <2>9
<1> QED BY <1>2, <1>3

\* The same turn, place by place, when the result has kept up with the line.
LEMMA ReplaceStep ==
    ASSUME TypeOK, NEW i \in pos..Len(line), NEW name \in Reading, Replace(i, name),
           Len(result) = pos - 1, Converts(line[i]), HasName(line[i])
    PROVE  \E e \in i..Len(line) :
             /\ EndsWord(i, e) /\ pc' = pc /\ pos' = e + 1 /\ Len(result') = e
             /\ \A j \in 1..pos - 1 : result'[j] = result[j]
             /\ \A j \in pos..i - 1 : result'[j] = [tok |-> line[j], as |-> "copied"]
             /\ result'[i] = [tok |-> line[i], as |-> name]
             /\ \A j \in i + 1..e : result'[j] = [tok |-> line[j], as |-> "swallowed"]
<1>1. /\ line \in Seq(Token) /\ pos \in Nat \ {0} /\ i \in 1..Len(line) /\ pos <= i
      /\ Len(line) \in Nat /\ result \in Seq(Read) /\ i \in Nat
  BY DEF TypeOK, Read
<1>2. PICK e \in i..Len(line) :
        /\ EndsWord(i, e)
        /\ result' = result \o Tokens(pos, i - 1, "copied") \o <<[tok |-> line[i], as |-> name]>>
                            \o Tokens(i + 1, e, "swallowed")
        /\ pos' = e + 1 /\ pc' = pc
  BY DEF Replace
<1> DEFINE c == Tokens(pos, i - 1, "copied")
           d == Tokens(i + 1, e, "swallowed")
           x == [tok |-> line[i], as |-> name]
           q == result \o c \o <<x>>
<1>3. /\ c \in Seq(Read) /\ Len(c) = i - pos
      /\ \A j \in 1..i - pos : c[j] = [tok |-> line[pos + j - 1], as |-> "copied"]
  <2>1. i - 1 \in Nat /\ pos <= (i - 1) + 1 /\ i - 1 <= Len(line)
        /\ (i - 1) - pos + 1 = i - pos
    BY <1>1
  <2> QED BY <1>1, <2>1, TokensAre
<1>4. /\ d \in Seq(Read) /\ Len(d) = e - i
      /\ \A j \in 1..e - i : d[j] = [tok |-> line[(i + 1) + j - 1], as |-> "swallowed"]
  <2>1. /\ i + 1 \in Nat \ {0} /\ i + 1 <= e + 1 /\ e <= Len(line) /\ e \in Nat
        /\ e - (i + 1) + 1 = e - i
    BY <1>1
  <2>2. /\ d \in Seq(Read) /\ Len(d) = e - (i + 1) + 1
        /\ \A j \in 1..e - (i + 1) + 1 : d[j] = [tok |-> line[(i + 1) + j - 1], as |-> "swallowed"]
    BY <1>1, <2>1, TokensAre
  <2> QED BY <2>1, <2>2
<1>5. x \in Read
  BY <1>1 DEF Read
<1>6. result' = q \o d
  BY <1>2
<1> HIDE DEF c, d, x
<1>7. /\ q \in Seq(Read) /\ Len(q) = Len(result) + Len(c) + 1
      /\ \A j \in 1..Len(result) : q[j] = result[j]
      /\ \A j \in Len(result) + 1..Len(result) + Len(c) : q[j] = c[j - Len(result)]
      /\ q[Len(result) + Len(c) + 1] = x
  <2>1. result \in Seq(Read) /\ c \in Seq(Read) /\ x \in Read
    BY <1>1, <1>3, <1>5
  <2> QED BY ONLY <2>1, Appended
<1> HIDE DEF q
<1>8. /\ Len(q \o d) = Len(q) + Len(d)
      /\ \A j \in 1..Len(q) + Len(d) : (q \o d)[j] = IF j <= Len(q) THEN q[j] ELSE d[j - Len(q)]
  <2>1. q \in Seq(Read) /\ d \in Seq(Read)
    BY <1>4, <1>7
  <2> QED BY ONLY <2>1, ConcatProperties
<1>9. Len(q) = i /\ Len(q) + Len(d) = e /\ Len(result) = pos - 1 /\ Len(result) + Len(c) = i - 1
  BY <1>1, <1>3, <1>4, <1>7
<1>10. \A j \in 1..i : result'[j] = q[j]
  BY <1>1, <1>6, <1>8, <1>9
<1>11. \A j \in 1..pos - 1 : result'[j] = result[j]
  BY <1>1, <1>7, <1>9, <1>10
<1>12. \A j \in pos..i - 1 : result'[j] = [tok |-> line[j], as |-> "copied"]
  <2> TAKE j \in pos..i - 1
  <2>1. /\ j \in Len(result) + 1..Len(result) + Len(c) /\ j - Len(result) \in 1..i - pos
        /\ pos + (j - Len(result)) - 1 = j /\ j \in 1..i
    BY <1>1, <1>9
  <2>2. q[j] = c[j - Len(result)]
    BY <1>7, <2>1
  <2> QED BY <1>3, <1>10, <2>1, <2>2
<1>13. result'[i] = x
  BY <1>1, <1>7, <1>9, <1>10
<1>14. \A j \in i + 1..e : result'[j] = [tok |-> line[j], as |-> "swallowed"]
  <2> TAKE j \in i + 1..e
  <2>1. /\ j \in 1..Len(q) + Len(d) /\ ~(j <= Len(q)) /\ j - Len(q) = j - i
        /\ j - i \in 1..e - i /\ (i + 1) + (j - i) - 1 = j
    BY <1>1, <1>9
  <2>2. result'[j] = d[j - i]
    BY <1>6, <1>8, <2>1
  <2> QED BY <1>4, <2>1, <2>2
<1>15. Len(result') = e
  BY <1>6, <1>8, <1>9
<1> QED BY <1>2, <1>11, <1>12, <1>13, <1>14, <1>15, Zenon DEF x

\* The last piece of the text.
LEMMA RestStep ==
    ASSUME TypeOK, FormatRest
    PROVE  /\ result' \in Seq(Read)
           /\ Len(result') = Len(result) + (Len(line) - pos + 1)
           /\ \A j \in 1..Len(result) : result'[j] = result[j]
           /\ \A j \in Len(result) + 1..Len(result) + (Len(line) - pos + 1) :
                 result'[j] = [tok |-> line[pos + (j - Len(result)) - 1], as |-> "copied"]
<1> DEFINE c == Tokens(pos, Len(line), "copied")
<1>1. /\ line \in Seq(Token) /\ pos \in Nat \ {0} /\ pos <= Len(line) + 1
      /\ Len(line) \in Nat /\ result \in Seq(Read) /\ Len(result) \in Nat
  BY DEF TypeOK, Read
<1>2. /\ c \in Seq(Read) /\ Len(c) = Len(line) - pos + 1
      /\ \A j \in 1..Len(line) - pos + 1 : c[j] = [tok |-> line[pos + j - 1], as |-> "copied"]
  <2>1. Len(line) <= Len(line)
    BY <1>1
  <2> QED BY <1>1, <2>1, TokensAre
<1>3. result' = result \o c
  BY DEF FormatRest
<1> HIDE DEF c
<1>4. /\ result \o c \in Seq(Read) /\ Len(result \o c) = Len(result) + Len(c)
      /\ \A j \in 1..Len(result) + Len(c) :
            (result \o c)[j] = IF j <= Len(result) THEN result[j] ELSE c[j - Len(result)]
  <2>1. result \in Seq(Read) /\ c \in Seq(Read)
    BY <1>1, <1>2
  <2> QED BY ONLY <2>1, ConcatProperties
<1>5. Len(line) - pos + 1 \in Nat
  BY <1>1
<1>6. \A j \in 1..Len(result) : result'[j] = result[j]
  BY <1>1, <1>2, <1>3, <1>4, <1>5
<1>7. \A j \in Len(result) + 1..Len(result) + (Len(line) - pos + 1) :
        result'[j] = [tok |-> line[pos + (j - Len(result)) - 1], as |-> "copied"]
  <2> TAKE j \in Len(result) + 1..Len(result) + (Len(line) - pos + 1)
  <2>1. /\ j \in 1..Len(result) + Len(c) /\ ~(j <= Len(result))
        /\ j - Len(result) \in 1..Len(line) - pos + 1
    BY <1>1, <1>2, <1>5
  <2> QED BY <1>2, <1>3, <1>4, <2>1
<1> QED BY <1>2, <1>3, <1>4, <1>6, <1>7

-----------------------------------------------------------------------------
\* A call gives the formatter the line of a handler, and its first place.
LEMMA CalledIs ==
    ASSUME NEW a \in Args, NEW k \in Kind, NEW body \in Body, Called(a, k, body)
    PROVE  /\ args' \in Args /\ kind' \in Kind
           /\ line' \in Seq(Token) /\ pos' = 1 /\ pos' \in 1..Len(line') + 1
<1>1. PrintLine(k, Build(a), body) \in Seq(Token)
  BY PrintIs
<1>2. line' \in Seq(Token) /\ args' = a /\ kind' = k /\ pos' = 1
  BY <1>1 DEF Called
<1> QED BY <1>2

\* A token that is put is kept as far as there is room.
LEMMA PutStep ==
    ASSUME TypeOK, Put
    PROVE  /\ Width(line[pos]) \in Nat /\ pos \in 1..Len(line)
           /\ \E kept \in Nat :
                 /\ kept = Least(Width(line[pos]), BufSize - used)
                 /\ buf' = Append(buf, [tok |-> line[pos], kept |-> kept])
                 /\ used' = used + kept /\ used' \in 0..BufSize
<1>1. pos \in 1..Len(line) /\ line[pos] \in Token
  BY DEF Put, TypeOK
<1>2. Width(line[pos]) \in Nat
  BY <1>1, WidthIsNat
<1>3. BufSize \in Nat /\ used \in 0..BufSize
  BY LogTextAssumption DEF TypeOK
<1> DEFINE kept == Least(Width(line[pos]), BufSize - used)
<1>4. kept \in Nat /\ used + kept \in 0..BufSize
  BY <1>2, <1>3 DEF Least
<1> QED BY <1>1, <1>2, <1>4 DEF Put

\* The types hold at the beginning.
LEMMA TypeInit == Init => TypeOK
BY LogTextAssumption DEF Init, TypeOK, Kind

\* Every step keeps the types.
LEMMA TypeNext == TypeOK /\ [Next]_vars => TypeOK'
<1> SUFFICES ASSUME TypeOK, [Next]_vars PROVE TypeOK'
    OBVIOUS
<1> USE DEF TypeOK
<1>1. ASSUME NEW a \in Args, NEW k \in Kind, NEW body \in Body, Submit(a, k, body)
      PROVE  TypeOK'
  <2>1. Called(a, k, body)
    BY <1>1 DEF Submit
  <2>2. /\ args' \in Args /\ kind' \in Kind
        /\ line' \in Seq(Token) /\ pos' \in 1..Len(line') + 1
    BY <2>1, CalledIs
  <2> QED BY <1>1, <2>2, LogTextAssumption DEF Submit
<1>2. ASSUME NEW a \in Args, NEW k \in Kind, NEW body \in Body, NEW sink \in {"text", "json"},
             Publish(a, k, body, sink)
      PROVE  TypeOK'
  <2>1. Called(a, k, body)
    BY <1>2 DEF Publish
  <2>2. /\ args' \in Args /\ kind' \in Kind
        /\ line' \in Seq(Token) /\ pos' \in 1..Len(line') + 1
    BY <2>1, CalledIs
  <2> QED BY <1>2, <2>2 DEF Publish, bufVars
<1>3. CASE Put
  <2>1. PICK kept \in Nat : /\ buf' = Append(buf, [tok |-> line[pos], kept |-> kept])
                             /\ used' \in 0..BufSize
    BY <1>3, PutStep
  <2>2. Width(line[pos]) \in Nat /\ pos \in 1..Len(line)
    BY <1>3, PutStep
  <2>3. asked' = asked + Width(line[pos]) /\ pos' = pos + 1 /\ line[pos] \in Token
    BY <1>3, <2>2 DEF Put
  <2>4. buf' \in Seq([tok : Token, kept : Nat])
    BY <2>1, <2>3
  <2>5. asked' \in Nat /\ pos' \in 1..Len(line) + 1
    BY <2>2, <2>3
  <2> QED BY <1>3, <2>1, <2>4, <2>5 DEF Put, callVars
<1>4. CASE PublishView
  BY <1>4 DEF PublishView, callVars, bufVars, Destination
<1>5. ASSUME NEW i \in pos..Len(line), NEW name, Replace(i, name), Formatting,
             Converts(line[i]) /\ HasName(line[i]) => name \in Reading
      PROVE  TypeOK'
  <2>1. pos' \in 1..Len(line) + 1 /\ result' \in Seq(Read) /\ pc' \in {pc, "threw", "undefined"}
    BY <1>5, ReplaceTypes
  <2> QED BY <1>5, <2>1 DEF Formatting, callVars, bufVars, Read
<1>6. CASE FormatTimestamp
  <2>1. PICK i \in 1..Len(line) : First("timestamp", i) /\ Replace(i, "date")
    BY <1>6 DEF FormatTimestamp
  <2> QED BY <1>5, <1>6, <2>1 DEF FormatTimestamp, First, Marked, Reading
<1>7. CASE FormatClass
  <2>1. PICK i \in 1..Len(line) : First("class_id", i) /\ Replace(i, ClassName(line[i].num))
    BY <1>7 DEF FormatClass
  <2>2. i \in pos..Len(line) /\ line[i] \in Token /\ line[i].field = "class_id"
    BY <2>1 DEF First, Marked
  <2> QED BY <1>5, <1>7, <2>1, <2>2, NamesAreReadings DEF FormatClass
<1>8. CASE FormatMethod
  <2>1. PICK i \in 1..Len(line) : First("method_id", i) /\ Replace(i, MethodName(line[i].num))
    BY <1>8 DEF FormatMethod
  <2>2. i \in pos..Len(line) /\ line[i] \in Token /\ line[i].field = "method_id"
    BY <2>1 DEF First, Marked
  <2> QED BY <1>5, <1>8, <2>1, <2>2, NamesAreReadings DEF FormatMethod
<1>9. CASE FormatRest
  <2>1. result' \in Seq(Read)
    BY <1>9, RestStep
  <2> QED BY <1>9, <2>1 DEF FormatRest, callVars, bufVars, Read
<1>10. CASE FormatJson
  <2>1. /\ TagToken \in Token /\ Len(line) \in Nat /\ line \in Seq(Token)
    BY DEF TagToken, Token, Field
  <2>2. Tokens(1, Len(line), "copied") \in Seq(Read)
    <3>1. 1 <= Len(line) + 1 /\ Len(line) <= Len(line) /\ 1 \in Nat \ {0}
      BY <2>1
    <3> QED BY <2>1, <3>1, TokensAre
  <2>3. [tok |-> TagToken, as |-> "json"] \in Read
    BY <2>1 DEF Read, Reading
  <2> DEFINE one == <<[tok |-> TagToken, as |-> "json"]>>
             c == Tokens(1, Len(line), "copied")
  <2>4. one \in Seq(Read) /\ c \in Seq(Read)
    BY <2>2, <2>3
  <2>5. result' = one \o c
    BY <1>10 DEF FormatJson
  <2> HIDE DEF one, c
  <2>6. result' \in Seq(Read)
    BY <2>4, <2>5
  <2>7. pos' \in 1..Len(line) + 1
    BY <1>10, <2>1 DEF FormatJson
  <2> QED BY <1>10, <2>6, <2>7 DEF FormatJson, callVars, bufVars, Read
<1>11. ASSUME NEW to \in {"terminal", "file"}, NEW opens \in BOOLEAN, Write(to, opens)
       PROVE  TypeOK'
  BY <1>11 DEF Write, callVars, bufVars, Destination
<1>12. CASE Catch
  BY <1>12 DEF Catch, callVars, bufVars
<1>13. CASE UNCHANGED vars
  BY <1>13 DEF vars
<1>14. CASE Done
  BY <1>13, <1>14 DEF Done
<1> QED BY <1>1, <1>2, <1>3, <1>4, <1>6, <1>7, <1>8, <1>9, <1>10, <1>11, <1>12, <1>13, <1>14
        DEF Next, Step

\* No token is ever read beyond the line, nothing is put beyond the buffer.
THEOREM TypeCorrect == Spec => []TypeOK
BY TypeInit, TypeNext, PTL DEF Spec

-----------------------------------------------------------------------------
\* The inductive form: no token has more characters than it has.
BufInv ==
    /\ BufferHoldsPrefix
    /\ pc = "print" => \A i \in 1..Len(buf) : buf[i].kept <= Width(line[i])

\* An empty buffer holds the prefix of nothing.
LEMMA BufInit == Init => BufInv
BY LogTextAssumption DEF Init, BufInv, BufferHoldsPrefix, Least

\* A token that is put extends the prefix, or is cut.
LEMMA BufPut == TypeOK /\ BufInv /\ Put => BufInv'
<1> SUFFICES ASSUME TypeOK, BufInv, Put PROVE BufInv'
    OBVIOUS
<1>1. PICK kept \in Nat : /\ kept = Least(Width(line[pos]), BufSize - used)
                           /\ buf' = Append(buf, [tok |-> line[pos], kept |-> kept])
                           /\ used' = used + kept
  BY PutStep
<1>2. /\ Width(line[pos]) \in Nat /\ pos \in 1..Len(line)
      /\ BufSize \in Nat /\ used \in 0..BufSize /\ asked \in Nat
  BY PutStep, LogTextAssumption DEF TypeOK
<1>3. /\ pc = "print" /\ pc' = pc /\ line' = line /\ pos' = pos + 1
      /\ asked' = asked + Width(line[pos])
  BY DEF Put, callVars
<1>4. used' = Least(asked', BufSize)
  BY <1>1, <1>2, <1>3 DEF BufInv, BufferHoldsPrefix, Least
<1>5. /\ Len(buf) = pos - 1 /\ buf \in Seq([tok : Token, kept : Nat]) /\ line[pos] \in Token
  BY <1>2, <1>3 DEF BufInv, BufferHoldsPrefix, TypeOK
<1>6. /\ Len(buf') = pos
      /\ \A i \in 1..pos - 1 : buf'[i] = buf[i]
      /\ buf'[pos].tok = line[pos] /\ buf'[pos].kept = kept
  BY <1>1, <1>2, <1>5
<1>7. \A i \in 1..pos - 1 :
        /\ buf[i].tok = line[i] /\ buf[i].kept \in Nat /\ buf[i].kept <= Width(line[i])
        /\ buf[i].kept < Width(line[i]) => used = BufSize
        /\ \A j \in 1..i - 1 : buf[i].kept > 0 => buf[j].kept = Width(line[j])
  <2> TAKE i \in 1..pos - 1
  <2>1. i \in 1..Len(buf)
    BY <1>2, <1>5
  <2>2. buf[i] \in [tok : Token, kept : Nat]
    <3>1. buf \in Seq([tok : Token, kept : Nat])
      BY <1>5
    <3> QED BY ONLY <2>1, <3>1, ElementOfSeq
  <2>3. buf[i].kept \in Nat
    BY <2>2
  <2> QED BY <1>3, <2>1, <2>3, Zenon DEF BufInv, BufferHoldsPrefix
<1>8. \A i \in 1..pos - 1 : Width(line[i]) \in Nat
  BY <1>2, WidthIsNat DEF TypeOK
<1>9. used = BufSize => used' = BufSize /\ kept = 0
  BY <1>1, <1>2 DEF Least
<1>10. kept <= Width(line[pos]) /\ (kept < Width(line[pos]) => used' = BufSize)
  BY <1>1, <1>2 DEF Least
<1>11. \A i \in 1..Len(buf') :
         /\ buf'[i].tok = line'[i] /\ buf'[i].kept <= Width(line'[i])
         /\ buf'[i].kept < Width(line'[i]) => used' = BufSize
         /\ \A j \in 1..i - 1 : buf'[i].kept > 0 => buf'[j].kept = Width(line'[j])
  <2> TAKE i \in 1..Len(buf')
  <2>1. CASE i = pos
    <3>1. \A j \in 1..i - 1 : buf'[i].kept > 0 => buf'[j].kept = Width(line'[j])
      <4> TAKE j \in 1..i - 1
      <4> HAVE buf'[i].kept > 0
      <4>1. j \in 1..pos - 1 /\ buf'[j] = buf[j] /\ used # BufSize
        BY <1>1, <1>6, <1>9, <2>1
      <4> QED BY <1>3, <1>7, <1>8, <4>1
    <3> QED BY <1>3, <1>6, <1>10, <2>1, <3>1
  <2>2. CASE i # pos
    <3>1. i \in 1..pos - 1 /\ buf'[i] = buf[i]
      BY <1>2, <1>6, <2>2
    <3>2. \A j \in 1..i - 1 : buf'[j] = buf[j]
      BY <1>2, <1>6, <3>1
    <3> QED BY <1>3, <1>7, <1>9, <3>1, <3>2
  <2> QED BY <2>1, <2>2
<1> QED BY <1>2, <1>3, <1>4, <1>6, <1>11 DEF BufInv, BufferHoldsPrefix

\* Every step keeps what the buffer says.
LEMMA BufNext == TypeOK /\ BufInv /\ [Next]_vars => BufInv'
<1> SUFFICES ASSUME TypeOK, BufInv, [Next]_vars PROVE BufInv'
    OBVIOUS
<1>1. ASSUME NEW a \in Args, NEW k \in Kind, NEW body \in Body, Submit(a, k, body)
      PROVE  BufInv'
  <2>1. pos' = 1 /\ buf' = <<>> /\ used' = 0 /\ asked' = 0
    BY <1>1 DEF Submit, Called
  <2> QED BY <2>1, LogTextAssumption DEF BufInv, BufferHoldsPrefix, Least
<1>2. CASE Put
  BY <1>2, BufPut
<1>3. CASE UNCHANGED bufVars /\ pc' # "print"
  BY <1>3 DEF BufInv, BufferHoldsPrefix, bufVars
<1>4. CASE UNCHANGED vars
  BY <1>4 DEF BufInv, BufferHoldsPrefix, vars
<1>5. ASSUME NEW a \in Args, NEW k \in Kind, NEW body \in Body, NEW sink \in {"text", "json"},
             Publish(a, k, body, sink)
      PROVE  BufInv'
  BY <1>3, <1>5 DEF Publish
<1>6. CASE PublishView \/ FormatRest \/ FormatJson \/ Catch
  BY <1>3, <1>6 DEF PublishView, FormatRest, FormatJson, Catch
<1>7. CASE FormatTimestamp \/ FormatClass \/ FormatMethod
  BY <1>3, <1>7 DEF FormatTimestamp, FormatClass, FormatMethod, Formatting, Replace
<1>8. ASSUME NEW to \in {"terminal", "file"}, NEW opens \in BOOLEAN, Write(to, opens)
      PROVE  BufInv'
  BY <1>3, <1>8 DEF Write
<1> QED BY <1>1, <1>2, <1>4, <1>5, <1>6, <1>7, <1>8 DEF Next, Step, Done

\* Whatever a line's tokens are, and however large the buffer is, the view that
\* is published is the beginning of this call's text.
THEOREM BufferCorrect == Spec => []BufferHoldsPrefix
<1>1. Init => TypeOK /\ BufInv
  BY TypeInit, BufInit
<1>2. TypeOK /\ BufInv /\ [Next]_vars => TypeOK' /\ BufInv'
  BY TypeNext, BufNext
<1>3. BufInv => BufferHoldsPrefix
  BY DEF BufInv
<1> QED BY <1>1, <1>2, <1>3, PTL DEF Spec

-----------------------------------------------------------------------------
\* What is printed or formatted comes from the arguments of a call.
CallInv ==
    \/ args = <<>> /\ line = <<>> /\ pc = "idle"
    \/ args \in Args /\ \E body \in Body : line = PrintLine(kind, Build(args), body)

\* Every step keeps that the line is the one of a call.
LEMMA CallNext == CallInv /\ [Next]_vars => CallInv'
<1> SUFFICES ASSUME CallInv, [Next]_vars PROVE CallInv'
    OBVIOUS
<1>1. ASSUME NEW a \in Args, NEW k \in Kind, NEW body \in Body, Called(a, k, body)
      PROVE  CallInv'
  <2>1. args' = a /\ kind' = k /\ line' = PrintLine(k, Build(a), body)
    BY <1>1 DEF Called
  <2> QED BY <2>1, Zenon DEF CallInv
<1>2. CASE UNCHANGED callVars /\ (pc # "idle" \/ pc' = pc)
  <2>1. args' = args /\ kind' = kind /\ line' = line
    BY <1>2 DEF callVars
  <2> QED BY <1>2, <2>1, Zenon DEF CallInv
<1>3. CASE Put \/ PublishView \/ FormatRest \/ FormatJson \/ Catch
  BY <1>2, <1>3 DEF Put, PublishView, FormatRest, FormatJson, Catch
<1>4. CASE FormatTimestamp \/ FormatClass \/ FormatMethod
  BY <1>2, <1>4 DEF FormatTimestamp, FormatClass, FormatMethod, Formatting
<1>5. ASSUME NEW to \in {"terminal", "file"}, NEW opens \in BOOLEAN, Write(to, opens)
      PROVE  CallInv'
  BY <1>2, <1>5 DEF Write
<1>6. CASE UNCHANGED vars
  BY <1>2, <1>6 DEF vars, callVars
<1>7. CASE Done
  BY <1>6, <1>7 DEF Done
<1>8. ASSUME NEW a \in Args, NEW k \in Kind, NEW body \in Body,
             Submit(a, k, body) \/ \E sink \in {"text", "json"} : Publish(a, k, body, sink)
      PROVE  CallInv'
  <2>1. Called(a, k, body)
    BY <1>8 DEF Submit, Publish
  <2> QED BY <1>1, <2>1
<1> QED BY <1>3, <1>4, <1>5, <1>6, <1>7, <1>8 DEF Next, Step

-----------------------------------------------------------------------------
\* Where a token of the header can be at the latest.
Before == <<0, 8, 30, 61, 82, 104, 119, 135, 156>>

HeadInv ==
    pc = "print" /\ kind # "common" =>
        /\ pos \in 1..9 /\ asked <= Before[pos]
        /\ BufSize >= LongestHeader =>
              \A i \in 1..Len(buf) : buf[i].kept = Width(buf[i].tok)

\* A token of the header that is put is kept whole.
LEMMA HeadPut == TypeOK /\ BufInv /\ CallInv /\ HeadInv /\ Put => HeadInv'
<1> SUFFICES ASSUME TypeOK, BufInv, CallInv, HeadInv, Put, kind # "common"
             PROVE  HeadInv'
  BY DEF HeadInv, Put, callVars
<1>1. PICK kept \in Nat : /\ kept = Least(Width(line[pos]), BufSize - used)
                           /\ buf' = Append(buf, [tok |-> line[pos], kept |-> kept])
  BY PutStep
<1>2. /\ Width(line[pos]) \in Nat /\ pos \in 1..Len(line)
      /\ BufSize \in Nat /\ used \in 0..BufSize /\ asked \in Nat
  BY PutStep, LogTextAssumption DEF TypeOK
<1>3. /\ pc = "print" /\ pos' = pos + 1 /\ asked' = asked + Width(line[pos])
      /\ line[pos] \in Token
  BY <1>2 DEF Put, TypeOK
<1>4. PICK body \in Body : args \in Args /\ kind \in Kind \ {"common"}
                           /\ line = PrintLine(kind, Build(args), body)
  BY <1>3 DEF CallInv, TypeOK
<1>5. Len(line) = 8
  <2>1. Len(PrintLine(kind, Build(args), body)) = 8
    BY <1>4, PrintIs
  <2> QED BY <1>4, <2>1
<1>6. /\ Width(line[1]) <= 8   /\ Width(line[2]) <= 22 /\ Width(line[3]) <= 31
      /\ Width(line[4]) <= 21  /\ Width(line[5]) <= 22 /\ Width(line[6]) <= 15
      /\ Width(line[7]) <= 16  /\ Width(line[8]) <= 21
  BY <1>4, HeaderWidths
<1>7. pos \in 1..8 /\ asked <= Before[pos]
  BY <1>2, <1>3, <1>5 DEF HeadInv
<1>8. asked + Width(line[pos]) <= Before[pos + 1] /\ Before[pos + 1] <= 156
  <2> DEFINE w == Width(line[pos])
             at == Before[pos]
  <2>1. /\ Before[1] = 0 /\ Before[2] = 8 /\ Before[3] = 30 /\ Before[4] = 61 /\ Before[5] = 82
        /\ Before[6] = 104 /\ Before[7] = 119 /\ Before[8] = 135 /\ Before[9] = 156
    BY DEF Before
  <2>2. w \in Nat /\ asked \in Nat /\ asked <= at
    BY <1>2, <1>7
  <2>3. at + w <= Before[pos + 1] /\ Before[pos + 1] <= 156 /\ at \in Nat
    <3>1. \/ pos = 1 /\ at = 0 /\ w <= 8
          \/ pos = 2 /\ at = 8 /\ w <= 22
          \/ pos = 3 /\ at = 30 /\ w <= 31
          \/ pos = 4 /\ at = 61 /\ w <= 21
          \/ pos = 5 /\ at = 82 /\ w <= 22
          \/ pos = 6 /\ at = 104 /\ w <= 15
          \/ pos = 7 /\ at = 119 /\ w <= 16
          \/ pos = 8 /\ at = 135 /\ w <= 21
      <4>1. CASE pos = 1
        BY <1>6, <2>1, <4>1
      <4>2. CASE pos = 2
        BY <1>6, <2>1, <4>2
      <4>3. CASE pos = 3
        BY <1>6, <2>1, <4>3
      <4>4. CASE pos = 4
        BY <1>6, <2>1, <4>4
      <4>5. CASE pos = 5
        BY <1>6, <2>1, <4>5
      <4>6. CASE pos = 6
        BY <1>6, <2>1, <4>6
      <4>7. CASE pos = 7
        BY <1>6, <2>1, <4>7
      <4>8. CASE pos = 8
        BY <1>6, <2>1, <4>8
      <4> QED BY <1>7, <4>1, <4>2, <4>3, <4>4, <4>5, <4>6, <4>7, <4>8
    <3> HIDE DEF w, at
    <3> QED BY <2>1, <2>2, <3>1
  <2>4. Before[pos + 1] \in Nat
    BY <1>7, <2>1
  <2> QED BY <2>2, <2>3, <2>4
<1>9. ASSUME BufSize >= LongestHeader
      PROVE  \A i \in 1..Len(buf') : buf'[i].kept = Width(buf'[i].tok)
  <2>1. used = Least(asked, BufSize)
    BY DEF BufInv, BufferHoldsPrefix
  <2>2. Before[pos + 1] \in Nat
    BY <1>7 DEF Before
  <2>3. kept = Width(line[pos])
    BY <1>1, <1>2, <1>8, <1>9, <2>1, <2>2 DEF Least, LongestHeader
  <2>4. buf \in Seq([tok : Token, kept : Nat])
    BY DEF TypeOK
  <2>5. /\ Len(buf') = Len(buf) + 1 /\ Len(buf) \in Nat
        /\ \A i \in 1..Len(buf) : buf'[i] = buf[i]
        /\ buf'[Len(buf) + 1].tok = line[pos] /\ buf'[Len(buf) + 1].kept = kept
    BY <1>1, <1>3, <2>4
  <2>6. \A i \in 1..Len(buf) : buf[i].kept = Width(buf[i].tok)
    BY <1>3, <1>9 DEF HeadInv
  <2> TAKE i \in 1..Len(buf')
  <2>7. CASE i = Len(buf) + 1
    BY <2>3, <2>5, <2>7
  <2>8. CASE i # Len(buf) + 1
    <3>1. i \in 1..Len(buf)
      BY <2>5, <2>8
    <3>2. buf'[i] = buf[i]
      BY <2>5, <3>1
    <3> QED BY <2>6, <3>1, <3>2
  <2> QED BY <2>7, <2>8
<1>10. pos' \in 1..9 /\ asked' <= Before[pos']
  BY <1>3, <1>7, <1>8
<1> QED BY <1>9, <1>10, Zenon DEF HeadInv

\* Every step keeps the header whole.
LEMMA HeadNext == TypeOK /\ BufInv /\ CallInv /\ HeadInv /\ [Next]_vars => HeadInv'
<1> SUFFICES ASSUME TypeOK, BufInv, CallInv, HeadInv, [Next]_vars PROVE HeadInv'
    OBVIOUS
<1>1. CASE Put
  BY <1>1, HeadPut
<1>2. ASSUME NEW a \in Args, NEW k \in Kind, NEW body \in Body, Submit(a, k, body)
      PROVE  HeadInv'
  <2>1. pos' = 1 /\ asked' = 0 /\ buf' = <<>>
    BY <1>2 DEF Submit, Called
  <2> QED BY <2>1 DEF HeadInv, Before
<1>3. CASE pc' # "print"
  BY <1>3 DEF HeadInv
<1>4. CASE UNCHANGED vars
  BY <1>4 DEF HeadInv, vars
<1>5. ASSUME NEW a \in Args, NEW k \in Kind, NEW body \in Body, NEW sink \in {"text", "json"},
             Publish(a, k, body, sink)
      PROVE  HeadInv'
  BY <1>3, <1>5 DEF Publish
<1>6. CASE PublishView \/ FormatRest \/ FormatJson \/ Catch
  BY <1>3, <1>6 DEF PublishView, FormatRest, FormatJson, Catch
<1>7. CASE FormatTimestamp \/ FormatClass \/ FormatMethod
  BY <1>3, <1>7 DEF FormatTimestamp, FormatClass, FormatMethod, Formatting, Replace
<1>8. ASSUME NEW to \in {"terminal", "file"}, NEW opens \in BOOLEAN, Write(to, opens)
      PROVE  HeadInv'
  BY <1>3, <1>8 DEF Write
<1> QED BY <1>1, <1>2, <1>4, <1>5, <1>6, <1>7, <1>8 DEF Next, Step, Done

\* No value of any field's type makes the line of one of the logger's own
\* payloads longer than the 1024 characters that submit_impl gives it.
THEOREM HeaderCorrect == Spec => []HeaderNeverCut
<1>1. Init => TypeOK /\ BufInv /\ CallInv /\ HeadInv
  <2>1. Init => CallInv /\ HeadInv
    BY DEF Init, CallInv, HeadInv
  <2> QED BY <2>1, TypeInit, BufInit
<1>2. TypeOK /\ BufInv /\ CallInv /\ HeadInv /\ [Next]_vars
        => TypeOK' /\ BufInv' /\ CallInv' /\ HeadInv'
  BY TypeNext, BufNext, CallNext, HeadNext
<1>3. HeadInv => HeaderNeverCut
  BY DEF HeadInv, HeaderNeverCut
<1> QED BY <1>1, <1>2, <1>3, PTL DEF Spec

-----------------------------------------------------------------------------
\* The text so far, token by token; and all of it where it is written.  The
\* loop always stands at the beginning of a word.
ResultUpTo(l, r, n) ==
    /\ Len(r) = n /\ \A i \in 1..n : r[i] = Expected(l, i)
    /\ \A i \in 1..n : Translated(l, i) => Converts(l[i]) /\ HasName(l[i])
    /\ n \in 1..Len(l) - 1 => l[n].blanks = 1

TextInv ==
    /\ pc = "text" => ResultUpTo(line, result, pos - 1)
    /\ pc = "write" /\ ~IsJson => ResultUpTo(line, result, pos - 1) /\ pos = Len(line) + 1
    /\ pc = "threw" => \E i \in 1..Len(line) : Translated(line, i) /\ ~Converts(line[i])
    /\ pc = "undefined" => \E i \in 1..Len(line) : Translated(line, i) /\ ~HasName(line[i])

\* A mark has its place in the order of the loop.
LEMMA RankIs == \A t : Rank(t) \in 1..4
BY DEF Rank

\* A word does not reach over the blank that the loop has passed.
LEMMA WordBegins ==
    ASSUME TypeOK, pos \in 2..Len(line) => line[pos - 1].blanks = 1,
           NEW j \in 1..Len(line), NEW k \in 1..Len(line), k >= pos, SameWord(line, j, k), j < k
    PROVE  j >= pos
<1>1. pos \in 1..Len(line) + 1 /\ Len(line) \in Nat
  BY DEF TypeOK
<1>2. ASSUME j < pos PROVE FALSE
  <2>1. pos - 1 \in j..k - 1 /\ pos \in 2..Len(line)
    BY <1>1, <1>2
  <2> QED BY <2>1 DEF SameWord
<1> QED BY <1>1, <1>2

\* The mark that the loop takes is one to be translated.
LEMMA TakenIsTranslated ==
    ASSUME TypeOK, pos \in 2..Len(line) => line[pos - 1].blanks = 1,
           NEW i \in pos..Len(line), Rank(line[i]) < 4,
           \A j \in pos..i - 1 : Rank(line[j]) > Rank(line[i]),
           \A j \in pos..Len(line) : Rank(line[j]) >= Rank(line[i])
    PROVE  Translated(line, i)
<1>1. pos \in 1..Len(line) + 1 /\ Len(line) \in Nat /\ i \in 1..Len(line) /\ i >= pos
  BY DEF TypeOK
<1>2. \A j \in i + 1..Len(line) : Rank(line[j]) >= Rank(line[i])
  BY <1>1
<1>3. \A j \in 1..i - 1 : SameWord(line, j, i) => Rank(line[j]) > Rank(line[i])
  <2> TAKE j \in 1..i - 1
  <2> HAVE SameWord(line, j, i)
  <2>1. j \in 1..Len(line) /\ j < i
    BY <1>1
  <2>2. j >= pos
    BY <1>1, <2>1, WordBegins
  <2>3. j \in pos..i - 1
    BY <1>1, <2>1, <2>2
  <2> QED BY <2>3
<1> QED BY <1>2, <1>3 DEF Translated

\* Before it, back to where the loop stood, is nothing to be translated, and so
\* nothing that could swallow.
LEMMA PassedIsCopied ==
    ASSUME TypeOK, pos \in 2..Len(line) => line[pos - 1].blanks = 1,
           NEW n \in Nat, n <= Len(line), NEW k \in pos..n,
           \A j \in pos..n : ~Translated(line, j)
    PROVE  Expected(line, k) = [tok |-> line[k], as |-> "copied"]
<1>1. pos \in 1..Len(line) + 1 /\ Len(line) \in Nat /\ k \in 1..Len(line) /\ k >= pos
  BY DEF TypeOK
<1>2. ~Translated(line, k)
  OBVIOUS
<1>3. ~\E j \in 1..k - 1 : SameWord(line, j, k) /\ Translated(line, j)
  <2> SUFFICES ASSUME NEW j \in 1..k - 1, SameWord(line, j, k), Translated(line, j)
               PROVE  FALSE
    OBVIOUS
  <2>1. j \in 1..Len(line) /\ j < k
    BY <1>1
  <2>2. j >= pos
    BY <1>1, <2>1, WordBegins
  <2>3. j \in pos..n
    BY <1>1, <2>1, <2>2
  <2> QED BY <2>3
<1> QED BY <1>2, <1>3, Zenon DEF Expected

\* Nothing before the chosen mark has a rank as low as the mark's, nothing
\* behind it a lower one: so what is copied had to be, and so had the name, and
\* what is left of the word had to be swallowed.
LEMMA LoopStep ==
    ASSUME TypeOK, TextInv, pc = "text", NEW i \in pos..Len(line), NEW name, Replace(i, name),
           line' = line, Rank(line[i]) < 4, name = NameOf(line[i]),
           Converts(line[i]) /\ HasName(line[i]) => name \in Reading,
           \A j \in pos..i - 1 : Rank(line[j]) > Rank(line[i]),
           \A j \in pos..Len(line) : Rank(line[j]) >= Rank(line[i])
    PROVE  TextInv'
<1>1. /\ Len(result) = pos - 1 /\ \A j \in 1..pos - 1 : result[j] = Expected(line, j)
      /\ \A j \in 1..pos - 1 : Translated(line, j) => Converts(line[j]) /\ HasName(line[j])
      /\ pos \in 1..Len(line) /\ Len(line) \in Nat /\ i \in 1..Len(line) /\ pos <= i
  BY DEF TextInv, ResultUpTo, TypeOK
<1>2. pos \in 2..Len(line) => line[pos - 1].blanks = 1
  BY <1>1 DEF TextInv, ResultUpTo
<1>3. Translated(line, i)
  BY <1>2, TakenIsTranslated
<1>4. CASE ~Converts(line[i])
  <2>1. pc' = "threw"
    BY <1>4 DEF Replace
  <2> QED BY <1>1, <1>3, <1>4, <2>1 DEF TextInv
<1>5. CASE Converts(line[i]) /\ ~HasName(line[i])
  <2>1. pc' = "undefined"
    BY <1>5 DEF Replace
  <2> QED BY <1>1, <1>3, <1>5, <2>1 DEF TextInv
<1>6. CASE Converts(line[i]) /\ HasName(line[i])
  <2>1. PICK e \in i..Len(line) :
          /\ EndsWord(i, e) /\ pc' = pc /\ pos' = e + 1 /\ Len(result') = e
          /\ \A j \in 1..pos - 1 : result'[j] = result[j]
          /\ \A j \in pos..i - 1 : result'[j] = [tok |-> line[j], as |-> "copied"]
          /\ result'[i] = [tok |-> line[i], as |-> name]
          /\ \A j \in i + 1..e : result'[j] = [tok |-> line[j], as |-> "swallowed"]
    BY <1>1, <1>6, ReplaceStep
  <2>2. \A j \in pos..i - 1 : ~Translated(line, j)
    <3> TAKE j \in pos..i - 1
    <3>1. i \in j + 1..Len(line) /\ ~(Rank(line[i]) >= Rank(line[j]))
      BY <1>1, RankIs
    <3> QED BY <3>1 DEF Translated
  <2>3. \A j \in i + 1..e : SameWord(line, i, j) /\ ~Translated(line, j)
    <3> TAKE j \in i + 1..e
    <3>1. SameWord(line, i, j)
      BY <1>1, <2>1 DEF SameWord, EndsWord
    <3>2. i \in 1..j - 1 /\ ~(Rank(line[i]) > Rank(line[j]))
      <4>1. j \in pos..Len(line) /\ i \in 1..j - 1
        BY <1>1
      <4> QED BY <4>1, RankIs
    <3> QED BY <3>1, <3>2 DEF Translated
  <2>4. \A j \in 1..pos - 1 : result'[j] = Expected(line, j)
    BY <1>1, <2>1
  <2>5. \A j \in pos..i - 1 : result'[j] = Expected(line, j)
    <3> TAKE j \in pos..i - 1
    <3>1. i - 1 \in Nat /\ i - 1 <= Len(line)
      BY <1>1
    <3>2. Expected(line, j) = [tok |-> line[j], as |-> "copied"]
      BY <1>2, <2>2, <3>1, PassedIsCopied
    <3> QED BY <2>1, <3>2
  <2>6. result'[i] = Expected(line, i)
    BY <1>3, <2>1, Zenon DEF Expected
  <2>7. \A j \in i + 1..e : result'[j] = Expected(line, j)
    <3> TAKE j \in i + 1..e
    <3>1. i \in 1..j - 1
      BY <1>1
    <3>2. \E k \in 1..j - 1 : SameWord(line, k, j) /\ Translated(line, k)
      BY <1>3, <2>3, <3>1
    <3>3. Expected(line, j) = [tok |-> line[j], as |-> "swallowed"]
      BY <2>3, <3>2, Zenon DEF Expected
    <3> QED BY <2>1, <3>3
  <2>8. \A j \in 1..e : j \in 1..pos - 1 \/ j \in pos..i - 1 \/ j = i \/ j \in i + 1..e
    BY <1>1
  <2>9. \A j \in 1..e : result'[j] = Expected(line, j)
    BY <2>4, <2>5, <2>6, <2>7, <2>8
  <2>10. \A j \in 1..e : Translated(line, j) => Converts(line[j]) /\ HasName(line[j])
    BY <1>1, <1>6, <2>2, <2>3, <2>8
  <2>11. e \in 1..Len(line) - 1 => line[e].blanks = 1
    BY <1>1, <2>1 DEF EndsWord
  <2>12. pos' - 1 = e
    BY <1>1, <2>1
  <2>13. pc' = "text"
    BY <2>1
  <2>14. ResultUpTo(line, result', e)
    BY <2>1, <2>9, <2>10, <2>11 DEF ResultUpTo
  <2> QED BY <2>12, <2>13, <2>14 DEF TextInv
<1> QED BY <1>4, <1>5, <1>6

\* The rest behind the last mark completes the result.
LEMMA TextRest == TypeOK /\ TextInv /\ FormatRest => TextInv'
<1> SUFFICES ASSUME TypeOK, TextInv, FormatRest PROVE TextInv'
    OBVIOUS
<1>1. /\ Len(result') = Len(result) + (Len(line) - pos + 1)
      /\ \A j \in 1..Len(result) : result'[j] = result[j]
      /\ \A j \in Len(result) + 1..Len(result) + (Len(line) - pos + 1) :
            result'[j] = [tok |-> line[pos + (j - Len(result)) - 1], as |-> "copied"]
  BY RestStep
<1>2. /\ Len(result) = pos - 1 /\ \A j \in 1..pos - 1 : result[j] = Expected(line, j)
      /\ \A j \in 1..pos - 1 : Translated(line, j) => Converts(line[j]) /\ HasName(line[j])
      /\ pos \in 1..Len(line) + 1 /\ Len(line) \in Nat
      /\ pos' = Len(line) + 1 /\ pc' = "write" /\ line' = line
  BY DEF TextInv, ResultUpTo, TypeOK, FormatRest, callVars
<1>3. pos \in 2..Len(line) => line[pos - 1].blanks = 1
  BY <1>2 DEF TextInv, ResultUpTo, FormatRest
<1>4. \A j \in pos..Len(line) : ~Translated(line, j)
  <2> TAKE j \in pos..Len(line)
  <2>1. \A f \in {"timestamp", "class_id", "method_id"} : line[j].field # f
    BY Zenon DEF FormatRest, Marked
  <2>2. Rank(line[j]) = 4
    BY <2>1 DEF Rank
  <2> QED BY <2>2 DEF Translated
<1>5. \A j \in pos..Len(line) : Expected(line, j) = [tok |-> line[j], as |-> "copied"]
  <2>1. Len(line) <= Len(line)
    BY <1>2
  <2> QED BY <1>2, <1>3, <1>4, <2>1, PassedIsCopied
<1>6. \A j \in 1..Len(line) :
        /\ result'[j] = Expected(line, j)
        /\ Translated(line, j) => Converts(line[j]) /\ HasName(line[j])
  <2> TAKE j \in 1..Len(line)
  <2>1. CASE j < pos
    <3>1. j \in 1..pos - 1 /\ j \in 1..Len(result)
      BY <1>2, <2>1
    <3> QED BY <1>1, <1>2, <3>1, Zenon
  <2>2. CASE ~(j < pos)
    <3>1. /\ j \in Len(result) + 1..Len(result) + (Len(line) - pos + 1)
          /\ pos + (j - Len(result)) - 1 = j /\ j \in pos..Len(line)
      BY <1>2, <2>2
    <3> QED BY <1>1, <1>4, <1>5, <3>1
  <2> QED BY <2>1, <2>2
<1>7. Len(result') = Len(line) /\ pos' - 1 = Len(line) /\ Len(line) \notin 1..Len(line) - 1
  BY <1>1, <1>2
<1>8. ResultUpTo(line, result', Len(line))
  BY <1>1, <1>2, <1>6, <1>7 DEF ResultUpTo
<1> QED BY <1>2, <1>7, <1>8 DEF TextInv

\* JsonSink puts its mark in front of the line as it is.
LEMMA TextJson == TypeOK /\ FormatJson => TextInv'
<1> SUFFICES ASSUME TypeOK, FormatJson PROVE TextInv'
    OBVIOUS
<1> DEFINE one == <<[tok |-> TagToken, as |-> "json"]>>
           c == Tokens(1, Len(line), "copied")
<1>1. c \in Seq(Read)
  <2>1. /\ 1 <= Len(line) + 1 /\ Len(line) <= Len(line) /\ 1 \in Nat \ {0}
        /\ line \in Seq(Token) /\ Len(line) \in Nat
    BY DEF TypeOK
  <2> QED BY <2>1, TokensAre
<1>2. [tok |-> TagToken, as |-> "json"] \in Read
  BY DEF TagToken, Token, Field, Read, Reading
<1>3. one \in Seq(Read) /\ Len(one) = 1 /\ one[1].as = "json"
  BY <1>2
<1>4. result' = one \o c /\ pc' = "write"
  BY DEF FormatJson
<1> HIDE DEF one, c
<1>5. /\ Len(one \o c) = Len(one) + Len(c)
      /\ \A j \in 1..Len(one) + Len(c) :
            (one \o c)[j] = IF j <= Len(one) THEN one[j] ELSE c[j - Len(one)]
  <2>1. one \in Seq(Read) /\ c \in Seq(Read)
    BY <1>1, <1>3
  <2> QED BY ONLY <2>1, ConcatProperties
<1>6. Len(c) \in Nat
  BY <1>1
<1>7. Len(result') # 0 /\ result'[1].as = "json"
  BY <1>3, <1>4, <1>5, <1>6
<1>8. result' # <<>>
  BY <1>7
<1> QED BY <1>4, <1>7, <1>8 DEF TextInv, IsJson

\* Every step keeps that the result is the expected one so far.
LEMMA TextNext == TypeOK /\ TextInv /\ [Next]_vars => TextInv'
<1> SUFFICES ASSUME TypeOK, TextInv, [Next]_vars PROVE TextInv'
    OBVIOUS
<1>1. CASE pc' \in {"print", "idle", "json"}
  BY <1>1 DEF TextInv
<1>2. ASSUME NEW a \in Args, NEW k \in Kind, NEW body \in Body, Submit(a, k, body)
      PROVE  TextInv'
  BY <1>1, <1>2 DEF Submit
<1>3. ASSUME NEW a \in Args, NEW k \in Kind, NEW body \in Body, NEW sink \in {"text", "json"},
             Publish(a, k, body, sink)
      PROVE  TextInv'
  <2>1. pc' = sink /\ result' = <<>> /\ pos' = 1
    BY <1>3 DEF Publish, Called
  <2> QED BY <2>1 DEF TextInv, ResultUpTo
<1>4. CASE Put \/ PublishView \/ Catch
  BY <1>1, <1>4 DEF Put, PublishView, Catch
<1>5. CASE FormatTimestamp
  <2>1. PICK i \in 1..Len(line) : First("timestamp", i) /\ Replace(i, "date")
    BY <1>5 DEF FormatTimestamp
  <2>2. pc = "text" /\ line' = line /\ "date" \in Reading
    BY <1>5 DEF FormatTimestamp, Formatting, callVars, Reading
  <2>3. i \in pos..Len(line) /\ Rank(line[i]) = 1 /\ NameOf(line[i]) = "date"
    BY <2>1 DEF First, Marked, Rank, NameOf
  <2>4. \A j \in pos..i - 1 : line[j].field # "timestamp"
    <3> TAKE j \in pos..i - 1
    <3>1. j \in pos..Len(line) /\ ~(i <= j)
      BY <2>3 DEF TypeOK
    <3> QED BY <2>1, <3>1, Zenon DEF First, Marked
  <2>5. \A j \in pos..i - 1 : Rank(line[j]) > Rank(line[i])
    BY <2>3, <2>4 DEF Rank
  <2>6. \A j \in pos..Len(line) : Rank(line[j]) >= Rank(line[i])
    BY <2>3, RankIs
  <2>7. Rank(line[i]) < 4
    BY <2>3
  <2> QED BY <2>1, <2>2, <2>3, <2>5, <2>6, <2>7, LoopStep
<1>6. CASE FormatClass
  <2>1. PICK i \in 1..Len(line) : First("class_id", i) /\ Replace(i, ClassName(line[i].num))
    BY <1>6 DEF FormatClass
  <2>2. /\ pc = "text" /\ line' = line
        /\ \A j \in pos..Len(line) : line[j].field # "timestamp"
    BY <1>6, Zenon DEF FormatClass, Formatting, callVars, Marked
  <2>3. /\ i \in pos..Len(line) /\ line[i].field = "class_id" /\ line[i] \in Token
        /\ Rank(line[i]) = 2 /\ NameOf(line[i]) = ClassName(line[i].num)
    BY <2>1 DEF First, Marked, Rank, NameOf, TypeOK
  <2>4. \A j \in pos..i - 1 : j \in pos..Len(line) /\ line[j].field # "class_id"
    <3> TAKE j \in pos..i - 1
    <3>1. j \in pos..Len(line) /\ ~(i <= j)
      BY <2>3 DEF TypeOK
    <3> QED BY <2>1, <3>1, Zenon DEF First, Marked
  <2>5. \A j \in pos..i - 1 : Rank(line[j]) > Rank(line[i])
    BY <2>2, <2>3, <2>4 DEF Rank
  <2>6. \A j \in pos..Len(line) : Rank(line[j]) >= Rank(line[i])
    BY <2>2, <2>3 DEF Rank
  <2>7. Rank(line[i]) < 4
    BY <2>3
  <2>8. Converts(line[i]) /\ HasName(line[i]) => ClassName(line[i].num) \in Reading
    BY <2>3, NamesAreReadings
  <2> QED BY <2>1, <2>2, <2>3, <2>5, <2>6, <2>7, <2>8, LoopStep
<1>7. CASE FormatMethod
  <2>1. PICK i \in 1..Len(line) : First("method_id", i) /\ Replace(i, MethodName(line[i].num))
    BY <1>7 DEF FormatMethod
  <2>2. /\ pc = "text" /\ line' = line
        /\ \A j \in pos..Len(line) : line[j].field # "timestamp" /\ line[j].field # "class_id"
    BY <1>7, Zenon DEF FormatMethod, Formatting, callVars, Marked
  <2>3. /\ i \in pos..Len(line) /\ line[i].field = "method_id" /\ line[i] \in Token
        /\ Rank(line[i]) = 3 /\ NameOf(line[i]) = MethodName(line[i].num)
    BY <2>1 DEF First, Marked, Rank, NameOf, TypeOK
  <2>4. \A j \in pos..i - 1 : j \in pos..Len(line) /\ line[j].field # "method_id"
    <3> TAKE j \in pos..i - 1
    <3>1. j \in pos..Len(line) /\ ~(i <= j)
      BY <2>3 DEF TypeOK
    <3> QED BY <2>1, <3>1, Zenon DEF First, Marked
  <2>5. \A j \in pos..i - 1 : Rank(line[j]) > Rank(line[i])
    BY <2>2, <2>3, <2>4 DEF Rank
  <2>6. \A j \in pos..Len(line) : Rank(line[j]) >= Rank(line[i])
    BY <2>2, <2>3 DEF Rank
  <2>7. Rank(line[i]) < 4
    BY <2>3
  <2>8. Converts(line[i]) /\ HasName(line[i]) => MethodName(line[i].num) \in Reading
    BY <2>3, NamesAreReadings
  <2> QED BY <2>1, <2>2, <2>3, <2>5, <2>6, <2>7, <2>8, LoopStep
<1>8. CASE FormatRest
  BY <1>8, TextRest
<1>9. CASE FormatJson
  BY <1>9, TextJson
<1>10. ASSUME NEW to \in {"terminal", "file"}, NEW opens \in BOOLEAN, Write(to, opens)
       PROVE  TextInv'
  BY <1>1, <1>10 DEF Write
<1>11. CASE UNCHANGED vars
  <2>1. /\ pc' = pc /\ line' = line /\ pos' = pos /\ result' = result
    BY <1>11 DEF vars
  <2> QED BY <2>1 DEF TextInv, IsJson
<1> QED BY <1>2, <1>3, <1>4, <1>5, <1>6, <1>7, <1>8, <1>9, <1>10, <1>11 DEF Next, Step, Done

\* The loop of TextSink computes, for every line of tokens, what the definition
\* says that has no loop: which marks get names, which are swallowed with the
\* word of another, and at which marks it throws or leaves a table of names.
THEOREM TextCorrect == Spec => []TextIsReference
<1>1. Init => TypeOK /\ TextInv
  BY TypeInit DEF Init, TextInv
<1>2. TypeOK /\ TextInv /\ [Next]_vars => TypeOK' /\ TextInv'
  BY TypeNext, TextNext
<1>3. TypeOK /\ TextInv => TextIsReference
  <2>1. ASSUME TypeOK, TextInv, pc = "text" \/ (pc = "write" /\ ~IsJson)
        PROVE  /\ result = [i \in 1..pos - 1 |-> Expected(line, i)]
               /\ \A i \in 1..pos - 1 :
                     Translated(line, i) => Converts(line[i]) /\ HasName(line[i])
    <3>1. ResultUpTo(line, result, pos - 1)
      BY <2>1 DEF TextInv
    <3>2. result = [i \in 1..Len(result) |-> result[i]]
      BY <2>1 DEF TypeOK
    <3>3. Len(result) = pos - 1 /\ \A i \in 1..pos - 1 : result[i] = Expected(line, i)
      BY <3>1 DEF ResultUpTo
    <3>4. result = [i \in 1..pos - 1 |-> result[i]]
      BY <3>2, <3>3
    <3>5. result = [i \in 1..pos - 1 |-> Expected(line, i)]
      BY <3>3, <3>4, Zenon
    <3> QED BY <3>1, <3>5 DEF ResultUpTo
  <2> QED BY <2>1, Zenon DEF TextIsReference, TextInv
<1> QED BY <1>1, <1>2, <1>3, PTL DEF Spec

-----------------------------------------------------------------------------
\* The header's tokens are numbers, and the time comes before the class, the
\* class before the method: the order of log_payloads.def.
LEMMA HeaderTokens ==
    ASSUME TypeOK, CallInv, pc # "idle", kind # "common"
    PROVE  /\ Len(line) = 8
           /\ \A i \in 1..8 : line[i].num \in Nat /\ line[i].num # NaN
           /\ line[3].num = args[2].num /\ args[2].num \in 0..kULongMax
           /\ line[1].field = "tag" /\ \A i \in 2..8 : line[i].field = HeaderFields[i - 1]
           /\ line[6].num = args[5].num /\ line[7].num = args[6].num
           /\ args[5].num \in Nat /\ args[5].num <= 65535
           /\ args[6].num \in Nat /\ args[6].num <= 65535
           /\ \A i \in 1..7 : line[i].blanks = 1
<1>1. PICK body \in Body : args \in Args /\ kind \in Kind
                           /\ line = PrintLine(kind, Build(args), body)
  BY DEF CallInv, TypeOK
<1>2. /\ Len(line) = 8 /\ line[1] = TagToken
      /\ \A i \in 2..8 : line[i] = TokenOf(HeaderFields[i - 1], args[i - 1])
  BY <1>1, PrintIs
<1>3. \A i \in 2..8 : /\ line[i].field = HeaderFields[i - 1]
                       /\ line[i].num = args[i - 1].num
                       /\ line[i].blanks = 1
  BY <1>2 DEF TokenOf
<1>4. /\ \A i \in 1..7 : args[i].num \in Nat
      /\ args[2].num <= kULongMax /\ args[5].num <= 65535 /\ args[6].num <= 65535
  <2>1. Place("timestamp") = 2 /\ Place("class_id") = 5 /\ Place("method_id") = 6
    BY PlaceIs, FieldsAre
  <2>2. /\ args[2].num <= kULongMax /\ args[5].num <= 65535 /\ args[6].num <= 65535
    BY <1>1, <2>1, LogTextAssumption
  <2>3. args \in [1..7 -> Value]
    BY <1>1, LogTextAssumption, FieldsAre
  <2> QED BY <2>2, <2>3 DEF Value
<1>5. \A i \in 2..8 : line[i].num \in Nat
  <2> TAKE i \in 2..8
  <2>1. i - 1 \in 1..7
    OBVIOUS
  <2> QED BY <1>3, <1>4, <2>1
<1>6. line[1].num \in Nat /\ line[1].field = "tag" /\ line[1].blanks = 1
  BY <1>2 DEF TagToken
<1>7. line[6].num = args[5].num /\ line[7].num = args[6].num
  BY <1>3
<1>8. \A i \in 1..8 : line[i].num \in Nat
  <2> TAKE i \in 1..8
  <2>1. i = 1 \/ i \in 2..8
    OBVIOUS
  <2> QED BY <1>5, <1>6, <2>1
<1>9. line[3].num = args[2].num
  BY <1>3
<1>10. \A i \in 1..8 : line[i].num # NaN
  BY <1>8, LogLineAssumption
<1>11. \A i \in 1..7 : line[i].blanks = 1
  <2> TAKE i \in 1..7
  <2>1. i = 1 \/ i \in 2..8
    OBVIOUS
  <2> QED BY <1>3, <1>6, <2>1
<1>12. /\ args[2].num \in 0..kULongMax /\ args[5].num \in Nat /\ args[5].num <= 65535
       /\ args[6].num \in Nat /\ args[6].num <= 65535
  BY <1>4, LogLineAssumption
<1> QED BY <1>2, <1>3, <1>6, <1>7, <1>8, <1>9, <1>10, <1>11, <1>12

\* In a header three tokens are marks, of which none follows another's: all are
\* translated, and nothing else is.
LEMMA HeaderTranslated ==
    ASSUME TypeOK, CallInv, pc # "idle", kind # "common"
    PROVE  /\ \A i \in {3, 6, 7} : Translated(line, i)
           /\ \A i \in 1..8 : Translated(line, i) => i \in {3, 6, 7}
           /\ line[3].field = "timestamp" /\ line[6].field = "class_id"
           /\ line[7].field = "method_id"
<1>1. /\ Len(line) = 8 /\ line[1].field = "tag"
      /\ \A i \in 2..8 : line[i].field = HeaderFields[i - 1]
      /\ \A i \in 1..7 : line[i].blanks = 1
  BY HeaderTokens
<1>2. /\ line[2].field = "severity" /\ line[3].field = "timestamp"
      /\ line[4].field = "thread_id" /\ line[5].field = "request_id"
      /\ line[6].field = "class_id" /\ line[7].field = "method_id"
      /\ line[8].field = "schema_version"
  BY <1>1, FieldsAre
<1>3. /\ Rank(line[1]) = 4 /\ Rank(line[2]) = 4 /\ Rank(line[3]) = 1 /\ Rank(line[4]) = 4
      /\ Rank(line[5]) = 4 /\ Rank(line[6]) = 2 /\ Rank(line[7]) = 3 /\ Rank(line[8]) = 4
  BY <1>1, <1>2 DEF Rank
<1>4. \A i \in 1..8, j \in 1..7 : j < i => ~SameWord(line, j, i)
  <2> SUFFICES ASSUME NEW i \in 1..8, NEW j \in 1..7, j < i, SameWord(line, j, i) PROVE FALSE
    OBVIOUS
  <2>1. j \in j..i - 1
    OBVIOUS
  <2> QED BY <1>1, <2>1 DEF SameWord
<1>5. \A i \in {3, 6, 7} : \A j \in 1..i - 1 : SameWord(line, j, i) => Rank(line[j]) > Rank(line[i])
  <2> TAKE i \in {3, 6, 7}
  <2> TAKE j \in 1..i - 1
  <2>1. i \in 1..8 /\ j \in 1..7 /\ j < i
    OBVIOUS
  <2> QED BY <1>4, <2>1
<1>6. \A i \in {3, 6, 7} : \A j \in i + 1..8 : Rank(line[j]) >= Rank(line[i])
  <2>1. \A j \in 3 + 1..8 : Rank(line[j]) >= Rank(line[3])
    BY <1>3, RankIs
  <2>2. \A j \in 6 + 1..8 : j = 7 \/ j = 8
    OBVIOUS
  <2>3. \A j \in 7 + 1..8 : j = 8
    OBVIOUS
  <2>4. \A j \in 6 + 1..8 : Rank(line[j]) >= Rank(line[6])
    BY <1>3, <2>2
  <2>5. \A j \in 7 + 1..8 : Rank(line[j]) >= Rank(line[7])
    BY <1>3, <2>3
  <2> QED BY <2>1, <2>4, <2>5
<1>7. \A i \in {3, 6, 7} : Rank(line[i]) < 4
  BY <1>3
<1>8. \A i \in {3, 6, 7} : Translated(line, i)
  BY <1>1, <1>5, <1>6, <1>7, Zenon DEF Translated
<1>9. \A i \in 1..8 : Translated(line, i) => i \in {3, 6, 7}
  <2> SUFFICES ASSUME NEW i \in 1..8, Rank(line[i]) < 4 PROVE i \in {3, 6, 7}
    BY DEF Translated
  <2>1. i \in {1, 2, 3, 4, 5, 6, 7, 8}
    OBVIOUS
  <2> QED BY <1>3, <2>1
<1> QED BY <1>2, <1>8, <1>9

\* The numbers of a header convert; and they have names if the ids are known.
LEMMA HeaderConverts ==
    ASSUME TypeOK, CallInv, pc # "idle", kind # "common"
    PROVE  /\ \A i \in {3, 6, 7} : Converts(line[i])
           /\ ClassKnown => HasName(line[6]) /\ ClassIndex(line[6].num) = args[5].num
           /\ MethodKnown => HasName(line[7]) /\ MethodIndex(line[7].num) = args[6].num
           /\ HasName(line[3])
           /\ Place("class_id") = 5 /\ Place("method_id") = 6
<1>1. /\ \A i \in 1..8 : line[i].num \in Nat /\ line[i].num # NaN
      /\ line[3].num = args[2].num /\ args[2].num \in 0..kULongMax
      /\ line[6].num = args[5].num /\ line[7].num = args[6].num
      /\ args[5].num \in Nat /\ args[5].num <= 65535
      /\ args[6].num \in Nat /\ args[6].num <= 65535
  BY HeaderTokens
<1>2. /\ line[3].field = "timestamp" /\ line[6].field = "class_id" /\ line[7].field = "method_id"
  BY HeaderTranslated
<1>3. kIntMax \in Nat /\ 65535 <= kIntMax /\ kULongMax \in Nat
  BY LogLineAssumption
<1>4. Converts(line[3]) /\ Converts(line[6]) /\ Converts(line[7])
  BY <1>1, <1>2, <1>3 DEF Converts
<1>5. Place("class_id") = 5 /\ Place("method_id") = 6
  BY PlaceIs, FieldsAre
<1>6. Len(kClassNames) = 2 /\ Len(kMethodNames) = 5
  BY DEF kClassNames, kMethodNames
<1>7. ClassKnown => HasName(line[6]) /\ ClassIndex(line[6].num) = args[5].num
  <2> HAVE ClassKnown
  <2>1. args[5].num \in Nat /\ args[5].num < 2
    BY <1>1, <1>5, <1>6 DEF ClassKnown
  <2>2. args[5].num % 256 = args[5].num
    BY <2>1
  <2> QED BY <1>1, <1>2, <1>6, <2>1, <2>2 DEF HasName, ClassIndex
<1>8. MethodKnown => HasName(line[7]) /\ MethodIndex(line[7].num) = args[6].num
  <2> HAVE MethodKnown
  <2>1. args[6].num \in Nat /\ args[6].num < 5
    BY <1>1, <1>5, <1>6 DEF MethodKnown
  <2>2. args[6].num % 65536 = args[6].num
    BY <2>1
  <2> QED BY <1>1, <1>2, <1>6, <2>1, <2>2 DEF HasName, MethodIndex
<1>9. HasName(line[3])
  BY <1>2 DEF HasName
<1> QED BY <1>4, <1>5, <1>7, <1>8, <1>9

\* What the formatter makes of a header: the names of the tables at the ids of
\* the call, and an end only if both are there.
LEMMA HeaderText ==
    ASSUME TypeOK, CallInv, TextInv PROVE HeaderIsTranslated
<1> SUFFICES ASSUME kind # "common", pc \in {"threw", "undefined", "write"}
             PROVE  /\ pc # "threw"
                    /\ pc = "undefined" => ~(ClassKnown /\ MethodKnown)
                    /\ pc = "write" /\ ~IsJson =>
                          /\ result[3].as = "date"
                          /\ ClassKnown => result[6].as = kClassNames[args[Place("class_id")].num + 1]
                          /\ MethodKnown => result[7].as = kMethodNames[args[Place("method_id")].num + 1]
  BY DEF HeaderIsTranslated
<1>1. /\ \A i \in {3, 6, 7} : Translated(line, i)
      /\ \A i \in 1..8 : Translated(line, i) => i \in {3, 6, 7}
      /\ line[3].field = "timestamp" /\ line[6].field = "class_id" /\ line[7].field = "method_id"
      /\ Len(line) = 8
  BY HeaderTranslated, HeaderTokens
<1>2. /\ \A i \in {3, 6, 7} : Converts(line[i])
      /\ ClassKnown => HasName(line[6]) /\ ClassIndex(line[6].num) = args[5].num
      /\ MethodKnown => HasName(line[7]) /\ MethodIndex(line[7].num) = args[6].num
      /\ HasName(line[3])
      /\ Place("class_id") = 5 /\ Place("method_id") = 6
  BY HeaderConverts
<1>3. pc # "threw"
  BY <1>1, <1>2, Zenon DEF TextInv
<1>4. pc = "undefined" => ~(ClassKnown /\ MethodKnown)
  BY <1>1, <1>2 DEF TextInv
<1>5. ASSUME pc = "write", ~IsJson
      PROVE  /\ result[3].as = "date"
             /\ ClassKnown => result[6].as = kClassNames[args[5].num + 1]
             /\ MethodKnown => result[7].as = kMethodNames[args[6].num + 1]
  <2>1. \A i \in 1..8 : result[i] = Expected(line, i)
    BY <1>1, <1>5 DEF TextInv, ResultUpTo
  <2>2. \A i \in {3, 6, 7} : result[i].as = NameOf(line[i])
    BY <1>1, <2>1 DEF Expected
  <2>3. /\ NameOf(line[3]) = "date" /\ NameOf(line[6]) = ClassName(line[6].num)
        /\ NameOf(line[7]) = MethodName(line[7].num)
    BY <1>1 DEF NameOf
  <2> QED BY <1>2, <2>2, <2>3 DEF ClassName, MethodName
<1> QED BY <1>2, <1>3, <1>4, <1>5

\* What the reader of the log sees of a call is what the call said: the names
\* that log_classes.def and log_ids.def give its ids, for every call whose ids
\* are in them.
THEOREM TranslationCorrect == Spec => []HeaderIsTranslated
<1> DEFINE Inv == TypeOK /\ CallInv /\ TextInv
<1>1. Init => Inv
  BY TypeInit DEF Init, TextInv, CallInv
<1>2. Inv /\ [Next]_vars => Inv'
  BY TypeNext, CallNext, TextNext
<1>3. Inv => HeaderIsTranslated
  BY HeaderText
<1> QED BY <1>1, <1>2, <1>3, PTL DEF Spec
=============================================================================
