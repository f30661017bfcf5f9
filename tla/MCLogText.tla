------------------------------ MODULE MCLogText ------------------------------
(* LogText on a few calls: short and longest values; ids with a name, beyond *)
(* the names, and beyond eight bits; paths with and without marks, in words  *)
(* of their own and glued together, with numbers that do not convert.        *)
EXTENDS LogText

Arg(class, method, wide) ==
    [i \in 1..Len(HeaderFields) |->
        [num   |-> CASE i = Place("class_id") -> class [] i = Place("method_id") -> method
                     [] OTHER -> 0,
         chars |-> IF wide THEN MaxChars[HeaderFields[i]] ELSE 1]]

MCArgs == {Arg(1, 4, FALSE), Arg(0, 1, TRUE), Arg(256, 3, TRUE), Arg(2, 0, FALSE), Arg(0, 5, FALSE)}

Id == [field |-> "req_unique_id", num |-> 0, chars |-> 20, blanks |-> 1]
Path(n) == [field |-> "path", num |-> NaN, chars |-> n, blanks |-> 1]
Start(n) == [Path(n) EXCEPT !.blanks = 0]
Mark(f, n) == [field |-> f, num |-> n, chars |-> 1, blanks |-> 1]
Glued(f, n) == [Mark(f, n) EXCEPT !.blanks = 0]

MCBody == {<<Id, Path(10)>>,
           <<Id, Start(900), Mark("timestamp", 7)>>,
           <<Id, Start(4), Glued("class_id", 1), Mark("method_id", NaN)>>,
           <<Id, Start(4), Glued("method_id", 2), Mark("class_id", -255)>>,
           <<Id, Start(4), Glued("class_id", 0), Glued("timestamp", kULongMax + 1), Mark("text", NaN)>>,
           <<Id, Path(4), Glued("class_id", 1), Glued("class_id", 7), Mark("timestamp", NaN)>>,
           <<Id, Path(4), Mark("method_id", NaN), Mark("class_id", -kIntMax - 1)>>,
           <<Id, Path(4), Mark("method_id", kIntMax + 1), Mark("class_id", kIntMax)>>}
=============================================================================
