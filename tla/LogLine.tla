-------------------------------- MODULE LogLine --------------------------------
(***************************************************************************)
(* What a log call says, as text: the arguments of Handler::log become the *)
(* fields of a payload (registry/builder.hpp), the fields are printed as   *)
(* "name=value " one after the other (payloads.hpp), and ids have names    *)
(* (log_names.cpp).                                                        *)
(*                                                                         *)
(* A line is a sequence of tokens: each "name=value" printed is one, and    *)
(* the text of a path is one, or several if it holds marks that TextSink   *)
(* looks for.  A token has its field, the number a conversion finds at the *)
(* start of its value (NaN if there is none), its characters, and the      *)
(* blanks behind it; without one it is a word with the token that follows. *)
(***************************************************************************)
EXTENDS Integers, Sequences

CONSTANTS
    NaN,            \* no number
    kIntMax,        \* the greatest int; the least is -kIntMax - 1
    kULongMax       \* the greatest unsigned long long

ASSUME LogLineAssumption ==
    /\ NaN \notin Int
    /\ kIntMax \in Nat /\ 65535 <= kIntMax      \* an int holds every id
    /\ kULongMax \in Nat

\* log_payloads.def and log_requestpayload.def, log_classes.def, log_ids.def
HeaderFields == <<"severity", "timestamp", "thread_id", "request_id",
                  "class_id", "method_id", "schema_version">>
HeaderField  == {HeaderFields[i] : i \in DOMAIN HeaderFields}
Field        == HeaderField \cup {"tag", "req_unique_id", "path", "text"}

kClassNames  == <<"Server", "Handler">>
kMethodNames == <<"AddEvent", "Run", "terminateThreads", "addEvent", "handlingEvent">>

Value == [num : Nat, chars : Nat]
Token == [field : Field, num : Int \cup {NaN}, chars : Nat, blanks : 0..1]

\* Characters of "name=", of "[tag=" and "]", and the longest value of a type:
\* "Unknown(255)" for Severity, 20, 10 and 5 digits for the integers.
NameChars ==
    [f \in Field |->
        CASE f = "text" -> 0 [] f = "tag" -> 6 [] f = "path" -> 5 [] f \in {"severity", "class_id"} -> 9
          [] f \in {"timestamp", "thread_id", "method_id"} -> 10
          [] f = "request_id" -> 11 [] f = "req_unique_id" -> 14
          [] f = "schema_version" -> 15]

MaxChars ==
    [f \in HeaderField |->
        CASE f = "severity" -> 12 [] f = "timestamp" -> 20
          [] f \in {"thread_id", "request_id"} -> 10
          [] f \in {"class_id", "method_id", "schema_version"} -> 5]

\* The name, the value and the blank after it.
Width(t) == NameChars[t.field] + t.chars + t.blanks

\* Builder::build: the argument at each place goes to the field at this place.
Place(f)    == CHOOSE i \in DOMAIN HeaderFields : HeaderFields[i] = f
\* Mutation of Build: two fields of the same type are exchanged.
BuildSwapped(args) ==
    [f \in HeaderField |-> CASE f = "class_id"  -> args[Place("method_id")]
                             [] f = "method_id" -> args[Place("class_id")]
                             [] OTHER           -> args[Place(f)]]

Build(args) == [f \in HeaderField |-> args[Place(f)]]

\* print_header
TokenOf(f, v) == [field |-> f, num |-> v.num, chars |-> v.chars, blanks |-> 1]
TagToken      == [field |-> "tag", num |-> 0, chars |-> 1, blanks |-> 1]
Header(p) ==
    <<TagToken>> \o [i \in DOMAIN HeaderFields |-> TokenOf(HeaderFields[i], p[HeaderFields[i]])]

\* Mutation of PrintLine: the registry's RequestPayload prints like the other one.
PrintLineAll(kind, p, body) == IF kind = "generic" THEN Header(p) ELSE Header(p) \o body

\* debug_impl: the payloads of the logger's registry print their header only;
\* the RequestPayload of the common module prints its own fields as well.
PrintLine(kind, p, body) == IF kind = "common" THEN Header(p) \o body ELSE Header(p)

\* stoull takes a sign and gives up beyond 64 bits; stoi beyond an int.
Converts(t) ==
    /\ t.num # NaN
    /\ IF t.field = "timestamp" THEN t.num \in -kULongMax..kULongMax
                                ELSE t.num \in -kIntMax - 1..kIntMax

\* The casts to LogClassId, of eight bits, and MethodId, of sixteen; the names
\* are read without a look at the size of the table.
ClassIndex(n)  == n % 256
MethodIndex(n) == n % 65536
ClassName(n)   == kClassNames[ClassIndex(n) + 1]
MethodName(n)  == kMethodNames[MethodIndex(n) + 1]

\* Is there a name?  Beyond the table the access is undefined.
HasName(t) ==
    /\ t.field = "class_id"  => ClassIndex(t.num) < Len(kClassNames)
    /\ t.field = "method_id" => MethodIndex(t.num) < Len(kMethodNames)
=============================================================================
