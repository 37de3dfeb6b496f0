------------------------------ MODULE MCParser ------------------------------
(* StdoutParser on small templates and lines, for TLC.                      *)
EXTENDS StdoutParser

Table == [key |-> "table"]
End == [key |-> "end"]
Header(h) == [key |-> "header", header |-> h]
ValName(n) == [key |-> "val_name", name |-> n]
Cols(c) == [key |-> "cols", cols |-> c]
Other == [key |-> "other"]
Blank == [key |-> "blank"]

(* The shape of the vpic templates: a table of two columns ...              *)
First == <<Other, Table, Header("h1"), Header("h2"), Cols(2), Other,
           ValName("op_skip"), ValName("pct"), ValName("time"), End>>
(* ... a second table of one column and one header ...                      *)
Second == <<Table, Header("g1"), Cols(1), ValName("rate"), End>>
(* ... and templates at and beyond the limits.                              *)
NoHeader == <<Table, Cols(1), ValName("pct"), End>>
Large == <<Table, Header("h1"), Header("h2"), Header("h3"), Table, Cols(3), ValName("a"),
           ValName("b"), ValName("c"), ValName("d"), ValName("e"), End, Header("h1")>>

(* ... with a blank line after its end, as in vpic_harris-8-20 ...          *)
Padded == First \o <<Blank>>

(* ... and a table line inside of a table, which begins none.               *)
Nested == <<Table, Table, Header("h1"), Cols(1), ValName("pct"), End, Table, End>>

MCTableTemplates ==
    {NoFile, <<>>, First, First \o Second, Padded, NoHeader, Large, Nested,
     Second \o Second \o Second}
MCKeyTemplates == {NoFile, <<"r1", "bad", "r2">>, <<"r1", BlankLine>>, <<"r1", "r2", "r1">>}

Column(lead, vals, tail) == [lead |-> lead, vals |-> vals, tail |-> tail]
NoMatch == [r \in Regexes |-> <<>>]
Line(headers, row) == [headers |-> headers, row |-> row, keys |-> NoMatch]

MCResultLines ==
    { Line({"h1"}, <<>>),
      \* a header that contains the column separator
      Line({"h2"}, <<Column(TRUE, <<"x">>, "blank"), Column(FALSE, <<"y">>, "value")>>),
      Line({"g1"}, <<>>),
      \* rows: regular with a percentage, one value short of a blank, one column, too many
      Line({}, <<Column(TRUE, <<"a1">>, "blank"), Column(TRUE, <<"50%", "b2">>, "blank")>>),
      Line({}, <<Column(FALSE, <<"c1">>, "blank"), Column(TRUE, <<"d1", "d2">>, "value")>>),
      Line({}, <<Column(TRUE, <<"e1">>, "blank")>>),
      Line({}, <<Column(TRUE, <<"f1">>, "blank"), Column(TRUE, <<>>, "blank"),
                 Column(TRUE, <<"f2">>, "blank")>>),
      Line({}, <<Column(TRUE, <<"i1", "i2", "i3">>, "blank"),
                 Column(TRUE, <<"j1", "j2">>, "blank")>>),
      \* keys and values
      [headers |-> {}, row |-> <<>>,
       keys |-> [NoMatch EXCEPT !["r1"] = <<"k1", "v1", "k2", "9%", "k3">>]],
      [headers |-> {}, row |-> <<>>,
       keys |-> [r \in Regexes |-> IF r = "r1" THEN <<"k4", "v4">>
                                   ELSE <<"1", "2", "3", "4", "5", "6">>]] }
=============================================================================
