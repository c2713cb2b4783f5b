----------------------------- MODULE MCGetData -----------------------------
(* A text with a character of three bytes (a surrogate pair in UTF-16), a     *)
(* second short text, a varbinary, a number, a NULL and a type the driver     *)
(* does not know; buffers from none to one that holds everything.             *)
EXTENDS GetData

MCColumns == 1..6

MCKind == <<"text", "text", "bytes", "number", "null", "unsupported">>

MCWidths ==
  [char   |-> <<<<1, 3>>, <<2>>, <<>>, <<1, 1>>, <<>>, <<>>>>,
   wchar  |-> <<<<2, 4>>, <<2>>, <<>>, <<2, 2>>, <<>>, <<>>>>,
   binary |-> <<<<1, 1, 1, 1>>, <<1, 1>>, <<1, 1, 1>>, <<1, 1>>, <<>>, <<>>>>]

MCLengths == {0, 1, 2, 3, 4, 8}

\* Buffers that hold the whole column.
WideBound ==
  <<[col |-> 1, target |-> "char", len |-> 8],
    [col |-> 2, target |-> "wchar", len |-> 8],
    [col |-> 4, target |-> "long", len |-> 8]>>
=============================================================================
