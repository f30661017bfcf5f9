-------------------------------- MODULE LogText --------------------------------
(***************************************************************************)
(* The two ways of a log line to its output, on the thread that writes:    *)
(*                                                                         *)
(*  - "engine": submit_impl of the engine (and main) prints into a         *)
(*    FixedStringBuf, which is kept by the thread from call to call, and   *)
(*    writes its view to the stream of the terminal;                       *)
(*  - "sink": LogCore::submit hands the whole text to a policy, whose sink *)
(*    formats it (TextSink gives dates and names for numbers, one mark per *)
(*    turn of its loop; JsonSink is a stub) and which then writes it to    *)
(*    the terminal or to a file that it opens for this one line.           *)
(***************************************************************************)
EXTENDS LogLine

CONSTANTS
    BufSize,        \* characters of FixedStringBuf
    Args,           \* the argument lists of the calls
    Body,           \* the request's own fields, as tokens
    MaxLines        \* bound on the lines written

ASSUME LogTextAssumption ==
    /\ BufSize \in Nat /\ MaxLines \in Nat
    /\ Args \subseteq [1..Len(HeaderFields) -> Value]
    /\ \A a \in Args :
          /\ a[Place("timestamp")].num <= kULongMax
          /\ a[Place("class_id")].num <= 65535 /\ a[Place("method_id")].num <= 65535
          /\ \A i \in 1..Len(HeaderFields) : a[i].chars <= MaxChars[HeaderFields[i]]
    /\ Body \subseteq Seq(Token)

Kind        == {"generic", "request", "common"}
Destination == {"stream", "terminal", "file"}

VARIABLES
    pc,
    args, kind,     \* history: the call
    line,           \* the tokens to print or to format
    pos,            \* the next of them
    buf,            \* FixedStringBuf: what it has of each token,
    used,           \* pptr - pbase,
    asked,          \* history: and what it was asked to take since reset
    result,         \* of the sink: each token, and how it reads
    written         \* the lines written, and where to

vars == <<pc, args, kind, line, pos, buf, used, asked, result, written>>
callVars == <<args, kind, line>>
bufVars  == <<buf, used, asked>>

Reading == {"copied", "swallowed", "date", "json"}
              \cup {kClassNames[i] : i \in DOMAIN kClassNames}
              \cup {kMethodNames[i] : i \in DOMAIN kMethodNames}

Init ==
    /\ pc = "idle" /\ args = <<>> /\ kind = "generic"
    /\ line = <<>> /\ pos = 1
    /\ buf = <<>> /\ used = 0 /\ asked = 0
    /\ result = <<>> /\ written = <<>>

-----------------------------------------------------------------------------
Called(a, k, body) ==
    /\ pc = "idle" /\ Len(written) < MaxLines
    /\ args' = a /\ kind' = k
    /\ line' = PrintLine(k, Build(a), body)
    /\ pos' = 1

\* Mutation of Submit: the thread's buffer is not reset.
SubmitNoReset(a, k, body) ==
    /\ Called(a, k, body)
    /\ pc' = "print"
    /\ UNCHANGED <<bufVars, result, written>>

\* submit_impl: buf.reset(), os.clear().
Submit(a, k, body) ==
    /\ Called(a, k, body)
    /\ pc' = "print"
    /\ buf' = <<>> /\ used' = 0 /\ asked' = 0
    /\ UNCHANGED <<result, written>>

Least(a, b) == IF a <= b THEN a ELSE b

\* Mutation of Put: a token that does not fit is dropped as a whole.
PutWhole ==
    /\ pc = "print" /\ pos <= Len(line)
    /\ LET kept == IF Width(line[pos]) <= BufSize - used THEN Width(line[pos]) ELSE 0 IN
          /\ buf' = Append(buf, [tok |-> line[pos], kept |-> kept])
          /\ used' = used + kept
    /\ asked' = asked + Width(line[pos])
    /\ pos' = pos + 1
    /\ UNCHANGED <<pc, callVars, result, written>>

\* operator<<: what fits into the put area is kept, overflow() takes the rest
\* and drops it.
Put ==
    /\ pc = "print" /\ pos <= Len(line)
    /\ LET kept == Least(Width(line[pos]), BufSize - used) IN
          /\ buf' = Append(buf, [tok |-> line[pos], kept |-> kept])
          /\ used' = used + kept
    /\ asked' = asked + Width(line[pos])
    /\ pos' = pos + 1
    /\ UNCHANGED <<pc, callVars, result, written>>

\* view() and publish_view.
PublishView ==
    /\ pc = "print" /\ pos > Len(line)
    /\ written' = Append(written, "stream")
    /\ pc' = "idle"
    /\ UNCHANGED <<callVars, pos, bufVars, result>>

-----------------------------------------------------------------------------
\* LogCore::submit, Publisher::publish: to_view gives the whole text.
Publish(a, k, body, sink) ==
    /\ Called(a, k, body)
    /\ pc' = sink
    /\ result' = <<>>
    /\ UNCHANGED <<bufVars, written>>

\* The first token from pos on that has this mark, as line.find finds it.
Marked(f) == {i \in pos..Len(line) : line[i].field = f}
First(f, i) == i \in Marked(f) /\ \A j \in Marked(f) : i <= j

Tokens(from, to, how) ==
    [i \in 1..to - from + 1 |-> [tok |-> line[from + i - 1], as |-> how]]

\* The last token of the word that token i stands in: line.find(' ', num_start).
EndsWord(i, e) ==
    /\ e \in i..Len(line)
    /\ line[e].blanks = 1 \/ e = Len(line)
    /\ \A k \in i..e - 1 : line[k].blanks = 0

\* Mutation of Replace: the loop goes on behind the number, not behind the word.
ReplaceNumber(i, name) ==
    \/ ~Converts(line[i]) /\ pc' = "threw" /\ UNCHANGED <<pos, result>>
    \/ Converts(line[i]) /\ ~HasName(line[i]) /\ pc' = "undefined" /\ UNCHANGED <<pos, result>>
    \/ /\ Converts(line[i]) /\ HasName(line[i])
       /\ result' = result \o Tokens(pos, i - 1, "copied") \o <<[tok |-> line[i], as |-> name]>>
       /\ pos' = i + 1
       /\ UNCHANGED pc

\* stoull and stoi throw, the name lies beyond its table, or what stands before
\* the mark is copied and the name takes the place of the whole rest of the
\* word, further marks in it included.
Replace(i, name) ==
    \/ ~Converts(line[i]) /\ pc' = "threw" /\ UNCHANGED <<pos, result>>
    \/ Converts(line[i]) /\ ~HasName(line[i]) /\ pc' = "undefined" /\ UNCHANGED <<pos, result>>
    \/ /\ Converts(line[i]) /\ HasName(line[i])
       /\ \E e \in i..Len(line) :
             /\ EndsWord(i, e)
             /\ result' = result \o Tokens(pos, i - 1, "copied")
                                 \o <<[tok |-> line[i], as |-> name]>>
                                 \o Tokens(i + 1, e, "swallowed")
             /\ pos' = e + 1
       /\ UNCHANGED pc

Formatting == pc = "text" /\ pos <= Len(line) /\ UNCHANGED <<callVars, bufVars, written>>

FormatTimestamp ==
    /\ Formatting
    /\ \E i \in 1..Len(line) : First("timestamp", i) /\ Replace(i, "date")

FormatClass ==
    /\ Formatting
    /\ Marked("timestamp") = {}
    /\ \E i \in 1..Len(line) :
          First("class_id", i) /\ Replace(i, ClassName(line[i].num))

\* Reached only when there is neither of the others: its further comparisons of
\* positions are always true.
FormatMethod ==
    /\ Formatting
    /\ Marked("timestamp") = {} /\ Marked("class_id") = {}
    /\ \E i \in 1..Len(line) :
          First("method_id", i) /\ Replace(i, MethodName(line[i].num))

\* No mark is left, or no text.
FormatRest ==
    /\ pc = "text"
    /\ \A f \in {"timestamp", "class_id", "method_id"} : Marked(f) = {}
    /\ result' = result \o Tokens(pos, Len(line), "copied")
    /\ pos' = Len(line) + 1
    /\ pc' = "write"
    /\ UNCHANGED <<callVars, bufVars, written>>

\* JsonSink::format_impl: "JsonTest" and the text.
FormatJson ==
    /\ pc = "json"
    /\ result' = <<[tok |-> TagToken, as |-> "json"]>> \o Tokens(1, Len(line), "copied")
    /\ pos' = Len(line) + 1
    /\ pc' = "write"
    /\ UNCHANGED <<callVars, bufVars, written>>

\* TerminalPolicy; FilePolicy opens the file, and writes nothing if it cannot.
Write(to, opens) ==
    /\ pc = "write"
    /\ written' = IF to = "file" /\ ~opens THEN written ELSE Append(written, to)
    /\ pc' = "idle"
    /\ UNCHANGED <<callVars, pos, bufVars, result>>

\* The exception has left publish().
Catch ==
    /\ pc = "threw"
    /\ pc' = "idle"
    /\ UNCHANGED <<callVars, pos, bufVars, result, written>>

Step == \/ Put \/ PublishView
        \/ FormatTimestamp \/ FormatClass \/ FormatMethod \/ FormatRest \/ FormatJson
        \/ \E to \in {"terminal", "file"}, opens \in BOOLEAN : Write(to, opens)
        \/ Catch

\* The bound is reached; or the name was read beyond its table, and nothing is
\* known of what the program does from there on.
Done ==
    /\ (pc = "idle" /\ Len(written) = MaxLines) \/ pc = "undefined"
    /\ UNCHANGED vars

Next ==
    \/ \E a \in Args, k \in Kind, body \in Body :
          Submit(a, k, body) \/ \E sink \in {"text", "json"} : Publish(a, k, body, sink)
    \/ Step \/ Done

Spec == Init /\ [][Next]_vars

-----------------------------------------------------------------------------
TypeOK ==
    /\ pc \in {"idle", "print", "text", "json", "write", "threw", "undefined"}
    /\ args \in Args \cup {<<>>} /\ kind \in Kind
    /\ line \in Seq(Token) /\ pos \in 1..Len(line) + 1
    /\ buf \in Seq([tok : Token, kept : Nat])
    /\ used \in 0..BufSize /\ asked \in Nat
    /\ result \in Seq([tok : Token, as : Reading])
    /\ written \in Seq(Destination)

\* The buffer holds the beginning of this call's text, as much of it as fits:
\* nothing of an earlier call, nothing after a place where something is missing.
BufferHoldsPrefix ==
    /\ used = Least(asked, BufSize)
    /\ pc = "print" =>
          /\ Len(buf) = pos - 1
          /\ \A i \in 1..Len(buf) :
                /\ buf[i].tok = line[i]
                /\ buf[i].kept < Width(line[i]) => used = BufSize
                /\ \A j \in 1..i - 1 : buf[i].kept > 0 => buf[j].kept = Width(line[j])

\* The longest header: every value of its type's greatest length.
LongestHeader == 156

\* What Handler::log builds prints its header only, and a header fits whatever
\* its values are: no line of the logger's own payloads is ever cut.
HeaderNeverCut ==
    pc = "print" /\ kind # "common" /\ BufSize >= LongestHeader =>
        \A i \in 1..Len(buf) : buf[i].kept = Width(buf[i].tok)

Rank(t) == CASE t.field = "timestamp" -> 1 [] t.field = "class_id" -> 2
             [] t.field = "method_id" -> 3 [] OTHER -> 4

NameOf(t) == CASE t.field = "timestamp" -> "date"
               [] t.field = "class_id" -> ClassName(t.num)
               [] t.field = "method_id" -> MethodName(t.num)

SameWord(l, j, i) == \A k \in j..i - 1 : l[k].blanks = 0

\* Which marks TextSink gives a name, said without its loop: those with none
\* behind them that it looks for earlier, and none before them in their word
\* that it looks for no later.
Translated(l, i) ==
    /\ Rank(l[i]) < 4
    /\ \A j \in i + 1..Len(l) : Rank(l[j]) >= Rank(l[i])
    /\ \A j \in 1..i - 1 : SameWord(l, j, i) => Rank(l[j]) > Rank(l[i])

Expected(l, i) ==
    [tok |-> l[i],
     as  |-> IF Translated(l, i) THEN NameOf(l[i])
             ELSE IF \E j \in 1..i - 1 : SameWord(l, j, i) /\ Translated(l, j)
             THEN "swallowed" ELSE "copied"]

IsJson == result # <<>> /\ result[1].as = "json"

\* The loop of TextSink computes it, for every line of tokens: it completes the
\* line exactly if every mark to be translated converts and has a name, and
\* otherwise throws, or reads beyond a table of names, at such a mark.
TextIsReference ==
    /\ pc = "text" \/ (pc = "write" /\ ~IsJson) =>
          /\ result = [i \in 1..pos - 1 |-> Expected(line, i)]
          /\ \A i \in 1..pos - 1 :
                Translated(line, i) => Converts(line[i]) /\ HasName(line[i])
    /\ pc = "write" /\ ~IsJson => pos = Len(line) + 1
    /\ pc = "threw" => \E i \in 1..Len(line) : Translated(line, i) /\ ~Converts(line[i])
    /\ pc = "undefined" => \E i \in 1..Len(line) : Translated(line, i) /\ ~HasName(line[i])

\* The ids of the call are in log_classes.def and log_ids.def.
ClassKnown  == args[Place("class_id")].num < Len(kClassNames)
MethodKnown == args[Place("method_id")].num < Len(kMethodNames)

\* From the arguments of the log call to the text: the line of one of the
\* logger's own payloads is formatted without an exception, and it gives the
\* time, and the class and the method of the call by the names that the tables
\* have for these ids; no name is read beyond them.  Of an id that is in no
\* table nothing is said: 256 reads as "Server", 2 is undefined.
HeaderIsTranslated ==
    kind # "common" =>
        /\ pc # "threw"
        /\ pc = "undefined" => ~(ClassKnown /\ MethodKnown)
        /\ pc = "write" /\ ~IsJson =>
              /\ result[3].as = "date"
              /\ ClassKnown => result[6].as = kClassNames[args[Place("class_id")].num + 1]
              /\ MethodKnown => result[7].as = kMethodNames[args[Place("method_id")].num + 1]
=============================================================================
