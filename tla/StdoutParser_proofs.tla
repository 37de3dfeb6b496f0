------------------------ MODULE StdoutParser_proofs ------------------------
(***************************************************************************)
(* Proofs about stdout_parser, for any templates, any results file and any *)
(* sizes of its arrays.                                                    *)
(***************************************************************************)
EXTENDS StdoutParser, FlattenTheorems, FiniteSetTheorems, SequenceTheorems, TLAPS

(* The types of what the templates fill in.                                *)
OfKey(k) == {e \in Entries : e.key = k}
HeaderNames == {e.header : e \in OfKey("header")}
ColCounts == {0} \cup {e.cols : e \in OfKey("cols")}
ValNames == {NoName} \cup {e.name : e \in OfKey("val_name")}
TableRecs ==
    [header_names : Seq(HeaderNames), cols : ColCounts, headers_found : Nat,
     val_names : [1 .. MaxVals -> ValNames]]
KeyLines == UNION {ToSet(t) : t \in KeyTemplates \ {NoFile}}

Early == {"main", "tables", "keys"}

(* The template being read, and the tables made of it.                     *)
IDefs ==
    /\ phase \in Early \cup {"results", "finalize", "done", "undefined", "faulted"}
    /\ given \in [results : BOOLEAN, tables : TableTemplates, keys : KeyTemplates]
    /\ phase = "tables" => todo \in Seq(Entries)
    /\ phase = "keys" => todo \in Seq(KeyLines)
    /\ tables \in Seq(TableRecs) /\ Len(tables) <= MaxTables
    /\ \A i \in 1 .. N : Len(tables[i].header_names) <= MaxHeaders
    /\ in_def \in BOOLEAN /\ (in_def => N > 0)
    /\ vals_found \in 0 .. MaxVals
    /\ key_regexes \in Seq(Regexes) /\ Len(key_regexes) <= MaxKeys

(* The results file and what was made of it.                               *)
IRows ==
    /\ in_table \in BOOLEAN /\ table \in 0 .. N
    /\ DOMAIN columns = 1 .. MaxCols
    /\ input \in Seq(ResultLines) /\ Len(input) <= MaxLines
    /\ did \in {"nothing", "header", "between", "plain", "end", "row"}
    /\ did = "row" => in_table

(* Nothing has been found before the results file is read.                 *)
IEarly ==
    phase \in Early =>
        /\ \A i \in 1 .. N : tables[i].headers_found = 0
        /\ ~in_table /\ table = 0 /\ input = <<>> /\ did = "nothing"

(* headers_found, in every phase.                                          *)
ICount ==
    /\ \A i \in 1 .. N :
         LET h == Len(tables[i].header_names)
         IN  /\ tables[i].headers_found <= MaxHeaders
             /\ h > 0 => /\ tables[i].headers_found <= h
                         /\ tables[i].headers_found = h <=> (in_table /\ table = i)
    /\ in_table => table # 0 /\ Len(tables[table].header_names) > 0

(* Each header that was found is in a line of its own, in the order of the *)
(* template; in a table, every line since the last header is a row.        *)
Seen == IF did = "row" THEN Len(input) - 1 ELSE Len(input)
Printed(i, at) ==
    LET h == tables[i].header_names
        f == tables[i].headers_found
    IN  /\ at \in [1 .. f -> 1 .. Seen]
        /\ \A k \in 1 .. f : k <= Len(h) => h[k] \in input[at[k]].headers
        /\ \A k, m \in 1 .. f : k < m => at[k] < at[m]
        /\ in_table /\ table = i =>
             \A p \in 1 .. Len(input) : at[Len(h)] < p => input[p].row # <<>>
IPrinted ==
    \A i \in 1 .. N : \E at \in [1 .. tables[i].headers_found -> 1 .. Seen] : Printed(i, at)

(* What was sent for the last line, or why nothing was.                    *)
ISent ==
    /\ phase = "results" /\ input # <<>> => did # "nothing"
    /\ phase = "results" /\ did \in {"plain", "end"} =>
         input # <<>> /\ sent = KeyPairs(Last(input))
    /\ did \in {"header", "between"} => \E i \in 1 .. N : tables[i].headers_found > 0

ParserInv == IDefs /\ IRows /\ IEarly /\ ICount /\ IPrinted /\ ISent

-----------------------------------------------------------------------------
(* The sizes of the arrays.                                                *)
LEMMA Limits ==
    /\ MaxTables \in Nat /\ MaxHeaders \in Nat /\ MaxCols \in Nat /\ MaxVals \in Nat
    /\ MaxKeys \in Nat /\ MaxGroups \in Nat /\ MaxLines \in Nat
    /\ MaxTables > 0 /\ MaxHeaders > 0 /\ MaxVals > 0 /\ MaxKeys > 0
BY ParserAssumption

(* A table of the template, field by field.                                *)
LEMMA TableFields ==
    ASSUME tables \in Seq(TableRecs), NEW i \in 1 .. N
    PROVE  /\ tables[i] \in TableRecs
           /\ tables[i].header_names \in Seq(HeaderNames) /\ Len(tables[i].header_names) \in Nat
           /\ tables[i].headers_found \in Nat /\ tables[i].cols \in ColCounts
           /\ tables[i].val_names \in [1 .. MaxVals -> ValNames]
<1>1. tables[i] \in TableRecs
  BY DEF N
<1>2. QED
  BY <1>1 DEF TableRecs

(* Replacing one table leaves the others.                                  *)
LEMMA TableReplaced ==
    ASSUME tables \in Seq(TableRecs), NEW i \in 1 .. N, NEW t \in TableRecs,
           tables' = [tables EXCEPT ![i] = t]
    PROVE  /\ tables' \in Seq(TableRecs) /\ N' = N /\ Len(tables') = Len(tables)
           /\ tables'[i] = t /\ \A j \in 1 .. N : j # i => tables'[j] = tables[j]
BY DEF N

(* The four ways a field of a table is assigned (stdout_parser.c:246-267,  *)
(* 377-398).                                                               *)
LEMMA FieldsType ==
    ASSUME NEW t \in TableRecs
    PROVE  /\ \A f \in Nat : [t EXCEPT !.headers_found = f] \in TableRecs
           /\ \A h \in HeaderNames :
                [t EXCEPT !.header_names = Append(t.header_names, h)] \in TableRecs
           /\ \A c \in ColCounts : [t EXCEPT !.cols = c] \in TableRecs
           /\ \A v \in ValNames, k \in 1 .. MaxVals :
                [t EXCEPT !.val_names = [t.val_names EXCEPT ![k] = v]] \in TableRecs
<1>1. \A f \in Nat : [t EXCEPT !.headers_found = f] \in TableRecs
  BY DEF TableRecs
<1>2. \A h \in HeaderNames :
        [t EXCEPT !.header_names = Append(t.header_names, h)] \in TableRecs
  <2>1. \A h \in HeaderNames : Append(t.header_names, h) \in Seq(HeaderNames)
    BY DEF TableRecs
  <2>2. \A s \in Seq(HeaderNames) : [t EXCEPT !.header_names = s] \in TableRecs
    BY DEF TableRecs
  <2>3. QED
    BY <2>1, <2>2
<1>3. \A c \in ColCounts : [t EXCEPT !.cols = c] \in TableRecs
  BY DEF TableRecs
<1>4. \A v \in ValNames, k \in 1 .. MaxVals :
        [t EXCEPT !.val_names = [t.val_names EXCEPT ![k] = v]] \in TableRecs
  BY DEF TableRecs
<1>5. QED
  BY <1>1, <1>2, <1>3, <1>4

(* headers_found of one table is assigned, and nothing else.               *)
LEMMA FoundAssigned ==
    ASSUME tables \in Seq(TableRecs), NEW i \in 1 .. N, NEW f \in Nat,
           tables' = [tables EXCEPT ![i].headers_found = f]
    PROVE  /\ tables' \in Seq(TableRecs) /\ N' = N
           /\ tables'[i].headers_found = f
           /\ \A j \in 1 .. N : tables'[j].header_names = tables[j].header_names
           /\ \A j \in 1 .. N : tables'[j].val_names = tables[j].val_names
           /\ \A j \in 1 .. N : j # i => tables'[j] = tables[j]
<1> DEFINE t == [tables[i] EXCEPT !.headers_found = f]
<1>1. tables[i] \in TableRecs
  BY TableFields
<1>2. /\ t \in TableRecs /\ t.headers_found = f
      /\ t.header_names = tables[i].header_names /\ t.val_names = tables[i].val_names
  <2>1. t \in TableRecs
    BY <1>1, FieldsType
  <2>2. QED
    BY <1>1, <2>1 DEF TableRecs
<1>3. tables' = [tables EXCEPT ![i] = t]
  OBVIOUS
<1> HIDE DEF t
<1>4. /\ tables' \in Seq(TableRecs) /\ N' = N /\ tables'[i] = t
      /\ \A j \in 1 .. N : j # i => tables'[j] = tables[j]
  BY <1>2, <1>3, TableReplaced
<1>5. QED
  BY <1>2, <1>4

(* A line more of the results file.                                        *)
LEMMA LineRead ==
    ASSUME input \in Seq(ResultLines), NEW l \in ResultLines, input' = Append(input, l)
    PROVE  /\ input' \in Seq(ResultLines) /\ Len(input) \in Nat /\ Len(input') = Len(input) + 1
           /\ input' # <<>> /\ Last(input') = l
           /\ input'[Len(input) + 1] = l /\ \A p \in 1 .. Len(input) : input'[p] = input[p]
BY DEF Last

(* A trail of printed headers stays one when a line is read that leaves    *)
(* its table as it was.                                                    *)
LEMMA PrintedStays ==
    ASSUME NEW i, NEW at, Printed(i, at), NEW l \in ResultLines, input \in Seq(ResultLines),
           input' = Append(input, l), tables'[i] = tables[i], tables[i].headers_found \in Nat,
           Len(tables[i].header_names) \in Nat,
           Seen \in Int, Seen' \in Int, Seen <= Seen', Seen <= Len(input),
           in_table' /\ table' = i => in_table /\ table = i /\ l.row # <<>>
    PROVE  at \in [1 .. tables'[i].headers_found -> 1 .. Seen'] /\ Printed(i, at)'
<1> DEFINE h == tables[i].header_names
           f == tables[i].headers_found
<1>1. /\ Len(input) \in Nat /\ Len(input') = Len(input) + 1 /\ input'[Len(input) + 1] = l
      /\ \A p \in 1 .. Len(input) : input'[p] = input[p]
  BY LineRead
<1>2. /\ at \in [1 .. f -> 1 .. Seen]
      /\ \A k \in 1 .. f : k <= Len(h) => h[k] \in input[at[k]].headers
      /\ \A k, m \in 1 .. f : k < m => at[k] < at[m]
      /\ in_table /\ table = i =>
           \A p \in 1 .. Len(input) : at[Len(h)] < p => input[p].row # <<>>
  BY DEF Printed
<1>3. at \in [1 .. f -> 1 .. Seen']
  <2>1. \A k \in 1 .. f : at[k] \in 1 .. Seen'
    BY <1>2
  <2>2. QED
    BY <1>2, <2>1
<1>4. \A k \in 1 .. f : k <= Len(h) => h[k] \in input'[at[k]].headers
  <2>1. \A k \in 1 .. f : input'[at[k]] = input[at[k]]
    BY <1>1, <1>2
  <2>2. QED
    BY <1>2, <2>1
<1>5. in_table' /\ table' = i =>
        \A p \in 1 .. Len(input') : at[Len(h)] < p => input'[p].row # <<>>
  <2> SUFFICES ASSUME in_table', table' = i, NEW p \in 1 .. Len(input'), at[Len(h)] < p
               PROVE  input'[p].row # <<>>
    OBVIOUS
  <2>1. p \in 1 .. Len(input) \/ p = Len(input) + 1
    BY <1>1
  <2>2. QED
    BY <1>1, <1>2, <2>1
<1>6. Printed(i, at)'
  BY <1>2, <1>3, <1>4, <1>5 DEF Printed
<1>7. QED
  BY <1>3, <1>6

-----------------------------------------------------------------------------
(* parseTableTemplate(): what one entry does to the tables.  They stay     *)
(* within the arrays, and no header has been looked for yet.               *)
LEMMA EntryStep ==
    ASSUME IDefs, IEarly,
           TableEntry \/ HeaderEntry \/ ValNameEntry \/ ColsEntry \/ EndEntry \/ BlankEntry
           \/ OtherEntry
    PROVE  /\ IDefs' /\ UNCHANGED rowVars
           /\ phase' = "undefined" => UNCHANGED tables
           /\ phase' # "undefined" =>
                phase' = "tables" /\ \A i \in 1 .. N' : tables'[i].headers_found = 0
<1> DEFINE e == Head(todo)
<1>1. /\ phase = "tables" /\ todo # <<>> /\ todo \in Seq(Entries) /\ UNCHANGED rowVars
      /\ e \in Entries /\ Tail(todo) \in Seq(Entries)
      /\ tables \in Seq(TableRecs) /\ N \in Nat /\ \A i \in 1 .. N : tables[i].headers_found = 0
  BY DEF IDefs, IEarly, Early, N, TableEntry, HeaderEntry, ValNameEntry, ColsEntry, EndEntry,
         BlankEntry, OtherEntry, Entry, ReadEntry, rowVars
<1>2. \/ N < MaxTables \/ N >= MaxTables
  BY <1>1, Limits DEF IDefs
<1>3. ASSUME NEW t \in TableRecs, in_def, tables' = [tables EXCEPT ![N] = t],
             Len(t.header_names) <= MaxHeaders, t.headers_found = 0,
             phase' = phase, todo' = Tail(todo), UNCHANGED <<given, key_regexes, in_def>>,
             vals_found' \in 0 .. MaxVals
      PROVE  IDefs' /\ phase' = "tables" /\ \A i \in 1 .. N' : tables'[i].headers_found = 0
  <2>1. N \in 1 .. N
    BY <1>1, <1>3 DEF IDefs
  <2>2. /\ tables' \in Seq(TableRecs) /\ N' = N /\ Len(tables') = Len(tables)
        /\ tables'[N] = t /\ \A j \in 1 .. N : j # N => tables'[j] = tables[j]
    BY <1>1, <1>3, <2>1, TableReplaced
  <2>3. \A i \in 1 .. N' : /\ Len(tables'[i].header_names) <= MaxHeaders
                           /\ tables'[i].headers_found = 0
    BY <1>1, <1>3, <2>2 DEF IDefs
  <2>4. QED
    BY <1>1, <1>3, <2>1, <2>2, <2>3 DEF IDefs
<1>4. CASE TableEntry
  <2>1. CASE N < MaxTables /\ phase' = phase
    <3>1. /\ tables' = Append(tables, EmptyTable) /\ in_def' = TRUE /\ todo' = Tail(todo)
          /\ UNCHANGED <<given, key_regexes, vals_found>>
      BY <1>1, <1>4, <2>1 DEF TableEntry, ReadEntry, Undefined
    <3>2. EmptyTable \in TableRecs /\ EmptyTable.headers_found = 0 /\ EmptyTable.header_names = <<>>
      BY DEF EmptyTable, TableRecs, ColCounts, ValNames
    <3>3. /\ tables' \in Seq(TableRecs) /\ N' = N + 1 /\ tables'[N + 1] = EmptyTable
          /\ \A i \in 1 .. N : tables'[i] = tables[i]
      BY <1>1, <3>1, <3>2 DEF N
    <3>4. \A i \in 1 .. N' : i \in 1 .. N \/ i = N + 1
      BY <1>1, <3>3
    <3>5. /\ \A i \in 1 .. N' : Len(tables'[i].header_names) <= MaxHeaders
          /\ \A i \in 1 .. N' : tables'[i].headers_found = 0
      <4>1. Len(EmptyTable.header_names) <= MaxHeaders
        BY <3>2, Limits
      <4>2. QED
        BY <1>1, <3>2, <3>3, <3>4, <4>1 DEF IDefs
    <3>6. QED
      <4>1. N' <= MaxTables /\ N' > 0 /\ N' = Len(tables')
        BY <1>1, <2>1, <3>3, Limits DEF N
      <4>2. QED
        BY <1>1, <2>1, <3>1, <3>3, <3>5, <4>1 DEF IDefs
  <2>2. CASE phase' = "undefined" /\ UNCHANGED <<fileVars, in_def, tables, key_regexes, vals_found>>
    BY <1>1, <2>2 DEF IDefs, N, fileVars
  <2>3. QED
    BY <1>1, <1>2, <1>4, <2>1, <2>2 DEF TableEntry, ReadEntry, Undefined
<1>5. CASE HeaderEntry
  <2> DEFINE t == [tables[N] EXCEPT !.header_names = Append(tables[N].header_names, e.header)]
  <2>1. /\ in_def /\ Len(tables[N].header_names) < MaxHeaders
        /\ tables' = [tables EXCEPT ![N] = t] /\ e.key = "header"
        /\ phase' = phase /\ todo' = Tail(todo)
        /\ UNCHANGED <<given, key_regexes, in_def, vals_found>>
    BY <1>5 DEF HeaderEntry, Entry, ReadEntry
  <2>2. N \in 1 .. N /\ e.header \in HeaderNames
    BY <1>1, <2>1 DEF IDefs, HeaderNames, OfKey
  <2>3. tables[N] \in TableRecs /\ tables[N].header_names \in Seq(HeaderNames)
    BY <1>1, <2>2, TableFields
  <2>4. t \in TableRecs
    BY <2>2, <2>3, FieldsType
  <2>5. Len(t.header_names) <= MaxHeaders /\ t.headers_found = 0
    <3>1. /\ t.header_names = Append(tables[N].header_names, e.header)
          /\ t.headers_found = tables[N].headers_found
      BY <2>3 DEF TableRecs
    <3>2. QED
      BY <1>1, <2>1, <2>2, <2>3, <3>1, Limits
  <2> HIDE DEF t
  <2>6. QED
    BY <1>1, <1>3, <2>1, <2>4, <2>5 DEF IDefs
<1>6. CASE ValNameEntry
  <2> DEFINE names == [tables[N].val_names EXCEPT ![vals_found + 1] = e.name]
             t == [tables[N] EXCEPT !.val_names = names]
  <2>1. /\ in_def /\ vals_found < MaxVals /\ vals_found' = vals_found + 1
        /\ tables' = [tables EXCEPT ![N] = t] /\ e.key = "val_name"
        /\ phase' = phase /\ todo' = Tail(todo)
        /\ UNCHANGED <<given, key_regexes, in_def>>
    BY <1>6 DEF ValNameEntry, Entry, ReadEntry
  <2>2. /\ N \in 1 .. N /\ e.name \in ValNames /\ vals_found + 1 \in 1 .. MaxVals
        /\ vals_found' \in 0 .. MaxVals
    <3>1. vals_found \in 0 .. MaxVals /\ in_def
      BY <2>1 DEF IDefs
    <3>2. e.name \in ValNames
      BY <1>1, <2>1 DEF ValNames, OfKey
    <3>3. QED
      BY <1>1, <2>1, <3>1, <3>2, Limits DEF IDefs
  <2>3. tables[N] \in TableRecs
    BY <1>1, <2>2, TableFields
  <2>4. t \in TableRecs
    BY <2>2, <2>3, FieldsType
  <2>5. Len(t.header_names) <= MaxHeaders /\ t.headers_found = 0
    <3>1. t.header_names = tables[N].header_names /\ t.headers_found = tables[N].headers_found
      BY <2>3 DEF TableRecs
    <3>2. QED
      BY <1>1, <2>2, <3>1 DEF IDefs
  <2> HIDE DEF t
  <2>6. QED
    BY <1>1, <1>3, <2>1, <2>2, <2>4, <2>5
<1>7. CASE ColsEntry
  <2> DEFINE t == [tables[N] EXCEPT !.cols = e.cols]
  <2>1. /\ in_def /\ tables' = [tables EXCEPT ![N] = t] /\ e.key = "cols"
        /\ phase' = phase /\ todo' = Tail(todo)
        /\ UNCHANGED <<given, key_regexes, in_def, vals_found>>
    BY <1>7 DEF ColsEntry, Entry, ReadEntry
  <2>2. N \in 1 .. N /\ e.cols \in ColCounts
    BY <1>1, <2>1 DEF IDefs, ColCounts, OfKey
  <2>3. tables[N] \in TableRecs
    BY <1>1, <2>2, TableFields
  <2>4. t \in TableRecs
    BY <2>2, <2>3, FieldsType
  <2>5. Len(t.header_names) <= MaxHeaders /\ t.headers_found = 0
    <3>1. t.header_names = tables[N].header_names /\ t.headers_found = tables[N].headers_found
      BY <2>3 DEF TableRecs
    <3>2. QED
      BY <1>1, <2>2, <3>1 DEF IDefs
  <2> HIDE DEF t
  <2>6. QED
    BY <1>1, <1>3, <2>1, <2>4, <2>5 DEF IDefs
<1>8. CASE EndEntry \/ OtherEntry
  <2>1. /\ phase' = phase /\ todo' = Tail(todo) /\ (in_def' => in_def) /\ in_def' \in BOOLEAN
        /\ UNCHANGED <<given, key_regexes, vals_found, tables>>
    <3>1. CASE EndEntry
      <4>1. in_def' = FALSE /\ in_def
        BY <3>1 DEF EndEntry
      <4>2. QED
        BY <3>1, <4>1 DEF EndEntry, ReadEntry
    <3>2. CASE OtherEntry
      BY <3>2 DEF OtherEntry, ReadEntry, IDefs
    <3>3. QED
      BY <1>8, <3>1, <3>2
  <2>2. QED
    BY <1>1, <2>1 DEF IDefs, N
<1>9. CASE BlankEntry
  <2>1. /\ UNCHANGED <<given, key_regexes, vals_found, tables, in_def>>
        /\ phase' = "undefined" \/ (phase' = phase /\ todo' = Tail(todo))
    BY <1>9 DEF BlankEntry, ReadEntry, Undefined, fileVars
  <2>2. QED
    BY <1>1, <2>1 DEF IDefs, N, Early
<1>10. QED
  BY <1>4, <1>5, <1>6, <1>7, <1>8, <1>9

-----------------------------------------------------------------------------
(* A line of the results file changes no definition of a table.            *)
LEMMA LineDefs ==
    ASSUME IDefs, NEW l \in ResultLines, ReadLine(l),
           phase' \in {"results", "undefined", "faulted"},
           tables' \in Seq(TableRecs), N' = N,
           \A j \in 1 .. N : tables'[j].header_names = tables[j].header_names
    PROVE  IDefs' /\ IEarly'
<1>1. UNCHANGED <<given, todo, in_def, vals_found, key_regexes>>
  BY DEF ReadLine, fileVars, defVars
<1>2. IDefs'
  BY <1>1 DEF IDefs, Early, N
<1>3. QED
  BY <1>2 DEF IEarly, Early

(* What is sent may make the program fail only by a percent sign.          *)
Spoilt(pairs) == \E s \in ToSet(pairs) : s.val = Garbled

LEMMA OutcomesAre ==
    ASSUME NEW pairs, NEW p \in Outcomes(pairs)
    PROVE  p = phase \/ (p = "undefined" /\ Spoilt(pairs))
BY DEF Outcomes, Spoilt

(* What a table being read has behind it: at least one line.               *)
LEMMA InTableFacts ==
    ASSUME IDefs, IRows, ICount, IPrinted, in_table
    PROVE  table \in 1 .. N /\ tables[table].headers_found > 0 /\ Seen > 0
<1>1. table \in 1 .. N /\ Len(tables[table].header_names) > 0
  BY DEF IRows, ICount, IDefs, N
<1>2. tables[table].headers_found = Len(tables[table].header_names)
  BY <1>1 DEF ICount
<1>3. Len(tables[table].header_names) \in Nat
  BY <1>1, TableFields DEF IDefs
<1>4. PICK at \in [1 .. tables[table].headers_found -> 1 .. Seen] : TRUE
  BY <1>1 DEF IPrinted
<1>5. at[1] \in 1 .. Seen
  BY <1>1, <1>2, <1>3, <1>4
<1>6. Seen \in Int
  BY DEF Seen, IRows
<1>7. QED
  BY <1>1, <1>2, <1>3, <1>5, <1>6

(* BetweenHeaders, PlainLine, HeaderOverrun and LineLenFault: outside of   *)
(* tables, and no header is counted.                                       *)
LEMMA QuietLine ==
    ASSUME IDefs, IRows, ICount, IPrinted, NEW l \in ResultLines, ReadLine(l), ~in_table,
           UNCHANGED <<tables, in_table, columns>>, table' \in 0 .. N,
           phase' \in {"results", "undefined", "faulted"},
           did' \in {"nothing", "header", "between", "plain", "end", "row"},
           did' # "row"
    PROVE  IDefs' /\ IRows' /\ IEarly' /\ ICount' /\ IPrinted'
<1>1. /\ input \in Seq(ResultLines) /\ input' = Append(input, l) /\ Len(input) < MaxLines
      /\ did # "row" /\ tables \in Seq(TableRecs) /\ N' = N
  BY DEF IRows, ReadLine, IDefs, N
<1>2. input' \in Seq(ResultLines) /\ Len(input) \in Nat /\ Len(input') = Len(input) + 1
  BY <1>1, LineRead
<1>3. IDefs' /\ IEarly'
  BY <1>1, LineDefs
<1>4. IRows'
  BY <1>1, <1>2, Limits DEF IRows
<1>5. ICount'
  BY <1>1 DEF ICount
<1>6. Seen = Len(input) /\ Seen' = Len(input) + 1
  BY <1>1, <1>2 DEF Seen
<1>7. IPrinted'
  <2> SUFFICES ASSUME NEW i \in 1 .. N
               PROVE  \E at \in [1 .. tables'[i].headers_found -> 1 .. Seen'] : Printed(i, at)'
    BY <1>1 DEF IPrinted
  <2>1. PICK at : Printed(i, at)
    BY DEF IPrinted
  <2>2. /\ tables[i].headers_found \in Nat /\ Len(tables[i].header_names) \in Nat
        /\ Seen \in Int /\ Seen' \in Int /\ Seen <= Seen' /\ Seen <= Len(input)
        /\ tables'[i] = tables[i] /\ ~in_table'
    BY <1>1, <1>2, <1>6, TableFields
  <2>3. at \in [1 .. tables'[i].headers_found -> 1 .. Seen'] /\ Printed(i, at)'
    BY <1>1, <2>1, <2>2, PrintedStays
  <2>4. QED
    BY <2>3
<1>8. QED
  BY <1>3, <1>4, <1>5, <1>7

(* TableRow, within the arrays or beyond them: the trail of the table      *)
(* grows by one row.                                                       *)
LEMMA RowLine ==
    ASSUME IDefs, IRows, ICount, IPrinted, NEW l \in ResultLines, TableRow(l)
    PROVE  /\ IDefs' /\ IRows' /\ IEarly' /\ ICount' /\ IPrinted'
           /\ in_table /\ did' = "row"
<1>1. /\ ReadLine(l) /\ in_table /\ l.row # <<>> /\ did' = "row"
      /\ UNCHANGED <<tables, in_table, table>>
      /\ phase' \in {"results", "undefined"} /\ DOMAIN columns' = 1 .. MaxCols
  BY OutcomesAre DEF TableRow, ReadLine, Undefined, IRows
<1>2. /\ input \in Seq(ResultLines) /\ input' = Append(input, l) /\ Len(input) < MaxLines
      /\ tables \in Seq(TableRecs) /\ N' = N
  BY <1>1 DEF IRows, ReadLine, IDefs, N
<1>3. input' \in Seq(ResultLines) /\ Len(input) \in Nat /\ Len(input') = Len(input) + 1
  BY <1>2, LineRead
<1>4. IDefs' /\ IEarly'
  BY <1>1, <1>2, LineDefs
<1>5. IRows'
  BY <1>1, <1>2, <1>3, Limits DEF IRows
<1>6. ICount'
  BY <1>1, <1>2 DEF ICount
<1>7. Seen \in Int /\ Seen <= Len(input) /\ Seen' = Len(input)
  BY <1>1, <1>2, <1>3 DEF Seen
<1>8. IPrinted'
  <2> SUFFICES ASSUME NEW i \in 1 .. N
               PROVE  \E at \in [1 .. tables'[i].headers_found -> 1 .. Seen'] : Printed(i, at)'
    BY <1>2 DEF IPrinted
  <2>1. PICK at : Printed(i, at)
    BY DEF IPrinted
  <2>2. /\ tables[i].headers_found \in Nat /\ Len(tables[i].header_names) \in Nat
        /\ tables'[i] = tables[i] /\ Seen' \in Int /\ Seen <= Seen'
        /\ in_table' /\ table' = i => in_table /\ table = i /\ l.row # <<>>
    BY <1>1, <1>2, <1>3, <1>7, TableFields
  <2>3. at \in [1 .. tables'[i].headers_found -> 1 .. Seen'] /\ Printed(i, at)'
    BY <1>2, <1>7, <2>1, <2>2, PrintedStays
  <2>4. QED
    BY <2>3
<1>9. QED
  BY <1>1, <1>4, <1>5, <1>6, <1>8

(* EndOfTable: the headers of the table must be found again.               *)
LEMMA EndLine ==
    ASSUME IDefs, IRows, ICount, IPrinted, NEW l \in ResultLines, EndOfTable(l)
    PROVE  IDefs' /\ IRows' /\ IEarly' /\ ICount' /\ IPrinted'
<1>1. /\ ReadLine(l) /\ in_table /\ ~in_table' /\ table' = 0 /\ did' = "end"
      /\ tables' = [tables EXCEPT ![table].headers_found = 0]
      /\ phase' \in {"results", "undefined"} /\ columns' = columns
  BY OutcomesAre DEF EndOfTable, ReadLine
<1>2. /\ input \in Seq(ResultLines) /\ input' = Append(input, l) /\ Len(input) < MaxLines
      /\ tables \in Seq(TableRecs) /\ table \in 1 .. N
  BY <1>1, InTableFacts DEF IRows, ReadLine, IDefs
<1>3. input' \in Seq(ResultLines) /\ Len(input) \in Nat /\ Len(input') = Len(input) + 1
  BY <1>2, LineRead
<1>4. /\ tables' \in Seq(TableRecs) /\ N' = N /\ tables'[table].headers_found = 0
      /\ \A j \in 1 .. N : tables'[j].header_names = tables[j].header_names
      /\ \A j \in 1 .. N : j # table => tables'[j] = tables[j]
  BY <1>1, <1>2, FoundAssigned
<1>5. IDefs' /\ IEarly'
  BY <1>1, <1>4, LineDefs
<1>6. IRows'
  <2>1. in_table' \in BOOLEAN
    BY Zenon DEF EndOfTable
  <2>2. 0 \in 0 .. N'
    BY <1>4 DEF N
  <2>3. QED
    BY <1>1, <1>2, <1>3, <2>1, <2>2, Limits DEF IRows
<1>7. ICount'
  <2> SUFFICES ASSUME NEW i \in 1 .. N
               PROVE  LET h == Len(tables'[i].header_names)
                      IN  /\ tables'[i].headers_found <= MaxHeaders
                          /\ h > 0 => /\ tables'[i].headers_found <= h
                                      /\ tables'[i].headers_found # h
    BY <1>1, <1>4 DEF ICount
  <2>1. CASE i = table
    BY <1>4, <2>1, TableFields, Limits DEF IDefs
  <2>2. CASE i # table
    BY <1>4, <2>2 DEF ICount
  <2>3. QED
    BY <2>1, <2>2
<1>8. Seen \in Int /\ Seen <= Len(input) /\ Seen' = Len(input) + 1
  BY <1>1, <1>2, <1>3 DEF Seen
<1>9. IPrinted'
  <2> SUFFICES ASSUME NEW i \in 1 .. N
               PROVE  \E at \in [1 .. tables'[i].headers_found -> 1 .. Seen'] : Printed(i, at)'
    BY <1>4 DEF IPrinted
  <2>1. CASE i = table
    <3>0. PICK at : at = [k \in 1 .. 0 |-> 1]
      OBVIOUS
    <3>1. at \in [1 .. tables'[i].headers_found -> 1 .. Seen']
      BY <1>4, <2>1, <3>0
    <3>2. Printed(i, at)'
      BY <1>1, <1>4, <2>1, <3>1 DEF Printed
    <3>3. QED
      BY <3>1, <3>2
  <2>2. CASE i # table
    <3>1. PICK at : Printed(i, at)
      BY DEF IPrinted
    <3>2. /\ tables[i].headers_found \in Nat /\ Len(tables[i].header_names) \in Nat
          /\ tables'[i] = tables[i] /\ Seen' \in Int /\ Seen <= Seen' /\ ~in_table'
      BY <1>1, <1>2, <1>3, <1>4, <1>8, <2>2, TableFields
    <3>3. at \in [1 .. tables'[i].headers_found -> 1 .. Seen'] /\ Printed(i, at)'
      BY <1>2, <1>8, <3>1, <3>2, PrintedStays
    <3>4. QED
      BY <3>3
  <2>3. QED
    BY <2>1, <2>2
<1>10. QED
  BY <1>5, <1>6, <1>7, <1>9

(* HeaderLine: the trail of the table grows by the line with its header,   *)
(* and the last header begins the table.                                   *)
LEMMA HeaderFound ==
    ASSUME IDefs, IRows, ICount, IPrinted, NEW l \in ResultLines, HeaderLine(l)
    PROVE  /\ IDefs' /\ IRows' /\ IEarly' /\ ICount' /\ IPrinted'
           /\ \E i \in 1 .. N' : tables'[i].headers_found > 0
<1>1. /\ ReadLine(l) /\ ~in_table /\ ~Overrun(l) /\ did' = "header" /\ did # "row"
      /\ phase' = "results" /\ columns' = columns
  BY DEF HeaderLine, ReadLine, IRows
<1>2. PICK i \in Found(l) :
        /\ tables' = [tables EXCEPT ![i].headers_found = tables[i].headers_found + 1]
        /\ table' = i
        /\ in_table' = (tables[i].headers_found + 1 = Len(tables[i].header_names))
  BY DEF HeaderLine
<1> DEFINE h == tables[i].header_names
           f == tables[i].headers_found
           n == Len(input)
<1>3. i \in 1 .. N /\ NextHeader(l, i) /\ ~(f >= MaxHeaders)
  BY <1>1, <1>2 DEF Found, Compared, Overrun
<1>4. /\ input \in Seq(ResultLines) /\ input' = Append(input, l) /\ n < MaxLines
      /\ tables \in Seq(TableRecs) /\ f \in Nat /\ Len(h) \in Nat
  BY <1>1, <1>3, TableFields DEF IRows, ReadLine, IDefs
<1>5. /\ input' \in Seq(ResultLines) /\ n \in Nat /\ Len(input') = n + 1
      /\ input'[n + 1] = l /\ \A p \in 1 .. n : input'[p] = input[p]
  BY <1>4, LineRead
<1>6. /\ tables' \in Seq(TableRecs) /\ N' = N /\ tables'[i].headers_found = f + 1
      /\ \A j \in 1 .. N : tables'[j].header_names = tables[j].header_names
      /\ \A j \in 1 .. N : j # i => tables'[j] = tables[j]
  <2>1. f + 1 \in Nat
    BY <1>4
  <2>2. QED
    BY <1>2, <1>3, <1>4, <2>1, FoundAssigned
<1>7. IDefs' /\ IEarly'
  BY <1>1, <1>6, LineDefs
<1>8. f + 1 <= MaxHeaders /\ (Len(h) > 0 => f + 1 <= Len(h) /\ h[f + 1] \in l.headers)
  <2>1. Len(h) > 0 => f <= Len(h) /\ f # Len(h)
    BY <1>1, <1>3 DEF ICount
  <2>2. Len(h) > 0 => f + 1 <= Len(h)
    BY <1>4, <2>1
  <2>3. f + 1 <= Len(h) => h[f + 1] \in l.headers
    BY <1>3 DEF NextHeader
  <2>4. QED
    BY <1>3, <1>4, <2>2, <2>3, Limits
<1>9. IRows'
  <2>1. in_table' \in BOOLEAN
    BY <1>2, Zenon
  <2>2. table' \in 0 .. N'
    BY <1>2, <1>3, <1>6
  <2>3. QED
    BY <1>1, <1>4, <1>5, <2>1, <2>2, Limits DEF IRows
<1>10. ICount'
  <2>1. ASSUME NEW j \in 1 .. N
        PROVE  LET g == Len(tables'[j].header_names)
               IN  /\ tables'[j].headers_found <= MaxHeaders
                   /\ g > 0 => /\ tables'[j].headers_found <= g
                               /\ tables'[j].headers_found = g <=> (in_table' /\ table' = j)
    <3>1. CASE j = i
      BY <1>2, <1>6, <1>8, <3>1
    <3>2. CASE j # i
      <4>1. tables'[j] = tables[j] /\ table' # j /\ ~(in_table /\ table = j)
        BY <1>1, <1>2, <1>6, <3>2
      <4>2. QED
        BY <4>1 DEF ICount
    <3>3. QED
      BY <3>1, <3>2
  <2>2. in_table' => table' # 0 /\ Len(tables'[table'].header_names) > 0
    <3>1. in_table' => Len(h) = f + 1
      BY <1>2, Zenon
    <3>2. QED
      BY <1>2, <1>3, <1>4, <1>6, <3>1
  <2>3. QED
    BY <1>6, <2>1, <2>2 DEF ICount
<1>11. Seen = n /\ Seen' = n + 1
  BY <1>1, <1>5 DEF Seen
<1>12. ASSUME NEW j \in 1 .. N
       PROVE  \E at \in [1 .. tables'[j].headers_found -> 1 .. Seen'] : Printed(j, at)'
  <2>1. PICK at : Printed(j, at)
    BY DEF IPrinted
  <2>2. CASE j # i
    <3>1. /\ tables[j].headers_found \in Nat /\ Len(tables[j].header_names) \in Nat
          /\ tables'[j] = tables[j] /\ Seen \in Int /\ Seen' \in Int /\ Seen <= Seen'
          /\ Seen <= Len(input) /\ table' # j
      BY <1>2, <1>4, <1>5, <1>6, <1>11, <2>2, TableFields
    <3>2. at \in [1 .. tables'[j].headers_found -> 1 .. Seen'] /\ Printed(j, at)'
      BY <1>4, <2>1, <3>1, PrintedStays
    <3>3. QED
      BY <3>2
  <2>3. CASE j = i
    <3>0. PICK to : to = [k \in 1 .. f + 1 |-> IF k = f + 1 THEN n + 1 ELSE at[k]]
      OBVIOUS
    <3>1. /\ at \in [1 .. f -> 1 .. n]
          /\ \A k \in 1 .. f : k <= Len(h) => h[k] \in input[at[k]].headers
          /\ \A k, m \in 1 .. f : k < m => at[k] < at[m]
      BY <1>11, <2>1, <2>3 DEF Printed
    <3>2. \A k \in 1 .. f + 1 : k \in 1 .. f \/ k = f + 1
      BY <1>4
    <3>3. \A k \in 1 .. f : k # f + 1 /\ k \in 1 .. f + 1 /\ at[k] \in 1 .. n /\ at[k] \in 1 .. n + 1
      BY <1>4, <1>5, <3>1
    <3>4. to \in [1 .. f + 1 -> 1 .. n + 1]
      BY <1>5, <3>0, <3>2, <3>3
    <3>5. /\ \A k \in 1 .. f : to[k] = at[k]
          /\ to[f + 1] = n + 1
      BY <1>4, <3>0, <3>3
    <3>6. \A k \in 1 .. f + 1 : k <= Len(h) => h[k] \in input'[to[k]].headers
      <4> SUFFICES ASSUME NEW k \in 1 .. f + 1, k <= Len(h) PROVE h[k] \in input'[to[k]].headers
        OBVIOUS
      <4>1. CASE k \in 1 .. f
        BY <1>5, <3>1, <3>3, <3>5, <4>1
      <4>2. CASE k = f + 1
        BY <1>4, <1>5, <1>8, <3>5, <4>2
      <4>3. QED
        BY <3>2, <4>1, <4>2
    <3>7. \A k, m \in 1 .. f + 1 : k < m => to[k] < to[m]
      <4> SUFFICES ASSUME NEW k \in 1 .. f + 1, NEW m \in 1 .. f + 1, k < m PROVE to[k] < to[m]
        OBVIOUS
      <4>1. k \in 1 .. f
        BY <1>4
      <4>2. CASE m \in 1 .. f
        BY <3>1, <3>5, <4>1, <4>2
      <4>3. CASE m = f + 1
        BY <1>5, <3>3, <3>5, <4>1, <4>3
      <4>4. QED
        BY <3>2, <4>2, <4>3
    <3>8. in_table' => \A p \in 1 .. Len(input') : to[Len(h)] < p => input'[p].row # <<>>
      <4>1. in_table' => Len(h) = f + 1
        BY <1>2, Zenon
      <4>2. in_table' => to[Len(h)] = n + 1
        BY <3>5, <4>1
      <4>3. \A p \in 1 .. Len(input') : ~(n + 1 < p)
        BY <1>5
      <4>4. QED
        BY <4>2, <4>3
    <3>9. tables'[i].header_names = h /\ tables'[i].headers_found = f + 1 /\ Seen' = n + 1
      BY <1>3, <1>6, <1>11
    <3> HIDE DEF f, h, n
    <3>10. Printed(i, to)'
      BY <3>4, <3>6, <3>7, <3>8, <3>9 DEF Printed
    <3>11. QED
      BY <2>3, <3>4, <3>9, <3>10
  <2>4. QED
    BY <2>2, <2>3
<1>13. IPrinted'
  BY <1>6, <1>12 DEF IPrinted
<1>14. tables'[i].headers_found > 0 /\ i \in 1 .. N'
  BY <1>3, <1>4, <1>6
<1>15. QED
  BY <1>7, <1>9, <1>10, <1>13, <1>14

-----------------------------------------------------------------------------
(* A step before or after the results file is read finds nothing.          *)
LEMMA NoLine ==
    ASSUME ParserInv, IDefs', UNCHANGED <<tables, rowVars>>,
           phase' = "results" => phase \in Early \cup {"results"},
           phase' = "results" => UNCHANGED key_regexes,
           phase' \in Early => phase \in Early
    PROVE  ParserInv'
<1>1. UNCHANGED <<tables, in_table, table, columns, input, did, sent>> /\ N' = N /\ Seen' = Seen
  BY DEF rowVars, N, Seen
<1>2. IRows' /\ IEarly' /\ ICount'
  BY <1>1 DEF ParserInv, IRows, IEarly, ICount
<1>3. IPrinted'
  <2>1. \A i, at : Printed(i, at)' <=> Printed(i, at)
    BY <1>1 DEF Printed
  <2>2. QED
    BY <1>1, <2>1 DEF ParserInv, IPrinted
<1>4. ISent'
  <2>1. phase' = "results" /\ phase \in Early => input' = <<>> /\ did' = "nothing"
    BY <1>1 DEF ParserInv, IEarly
  <2>2. phase' = "results" => KeyPairs(Last(input))' = KeyPairs(Last(input))
    BY <1>1 DEF KeyPairs
  <2>3. QED
    BY <1>1, <2>1, <2>2 DEF ParserInv, ISent
<1>5. QED
  BY <1>2, <1>3, <1>4 DEF ParserInv

(* main() and the reading of the key template.                             *)
LEMMA FilesStep ==
    ASSUME ParserInv, Main \/ Finalize \/ OpenKeys \/ KeyEntry \/ EndOfKeys \/ EndOfResults
    PROVE  ParserInv'
<1>1. UNCHANGED <<tables, rowVars, given, in_def, vals_found>> /\ N' = N
  BY DEF Main, Finalize, OpenKeys, KeyEntry, EndOfKeys, EndOfResults, fileVars, defVars, N
<1>2. CASE Main
  <2>1. /\ phase = "main" /\ phase' \in {"done", "tables", "finalize"} /\ UNCHANGED key_regexes
        /\ phase' = "tables" => todo' = given.tables /\ given.tables # NoFile
    BY <1>2 DEF Main, defVars
  <2>2. phase' = "tables" => todo' \in Seq(Entries)
    BY <2>1, ParserAssumption DEF ParserInv, IDefs
  <2>3. IDefs'
    BY <1>1, <2>1, <2>2 DEF ParserInv, IDefs, Early
  <2>4. QED
    BY <1>1, <2>1, <2>3, NoLine DEF Early
<1>3. CASE Finalize \/ EndOfResults
  <2>1. phase' \in {"done", "finalize"} /\ UNCHANGED key_regexes
    BY <1>3 DEF Finalize, EndOfResults, defVars
  <2>2. IDefs'
    BY <1>1, <2>1 DEF ParserInv, IDefs, Early
  <2>3. QED
    BY <1>1, <2>1, <2>2, NoLine DEF Early
<1>4. CASE OpenKeys
  <2>1. /\ phase = "tables" /\ phase' \in {"keys", "finalize"} /\ UNCHANGED key_regexes
        /\ phase' = "keys" => todo' = given.keys /\ given.keys # NoFile
    BY <1>4 DEF OpenKeys, defVars
  <2>2. phase' = "keys" => todo' \in Seq(KeyLines)
    <3> SUFFICES ASSUME phase' = "keys" PROVE given.keys \in Seq(KeyLines)
      BY <2>1
    <3> DEFINE t == given.keys
    <3>1. t \in KeyTemplates \ {NoFile}
      BY <2>1 DEF ParserInv, IDefs
    <3> HIDE DEF t
    <3>2. t \in Seq(ToSet(t)) /\ ToSet(t) \subseteq KeyLines
      BY <3>1, ParserAssumption DEF KeyLines
    <3>3. t \in Seq(KeyLines)
      BY <3>2
    <3>4. QED
      BY <3>3 DEF t
  <2>3. IDefs'
    BY <1>1, <2>1, <2>2 DEF ParserInv, IDefs, Early
  <2>4. QED
    BY <1>1, <2>1, <2>3, NoLine DEF Early
<1>5. CASE KeyEntry
  <2>1. /\ phase = "keys" /\ todo # <<>> /\ todo \in Seq(KeyLines) /\ todo' = Tail(todo)
        /\ phase' \in {"keys", "undefined"}
        /\ \/ UNCHANGED key_regexes
           \/ /\ Head(todo) \in Regexes /\ Len(key_regexes) < MaxKeys
              /\ key_regexes' = Append(key_regexes, Head(todo))
    BY <1>5 DEF KeyEntry, ParserInv, IDefs, Undefined
  <2>2. todo' \in Seq(KeyLines)
    BY <2>1
  <2>3. key_regexes' \in Seq(Regexes) /\ Len(key_regexes') <= MaxKeys
    <3>1. key_regexes \in Seq(Regexes) /\ Len(key_regexes) <= MaxKeys
      BY DEF ParserInv, IDefs
    <3>2. CASE UNCHANGED key_regexes
      BY <3>1, <3>2
    <3>3. CASE /\ Head(todo) \in Regexes /\ Len(key_regexes) < MaxKeys
               /\ key_regexes' = Append(key_regexes, Head(todo))
      <4> DEFINE r == Head(todo)
      <4> HIDE DEF r
      <4>1. r \in Regexes /\ key_regexes' = Append(key_regexes, r)
        BY <3>3 DEF r
      <4>2. QED
        BY <3>1, <3>3, <4>1, Limits
    <3>4. QED
      BY <2>1, <3>2, <3>3
  <2>4. IDefs'
    BY <1>1, <2>1, <2>2, <2>3 DEF ParserInv, IDefs, Early
  <2>5. QED
    BY <1>1, <2>1, <2>4, NoLine DEF Early
<1>6. CASE EndOfKeys
  <2>1. phase = "keys" /\ phase' = "results" /\ UNCHANGED key_regexes
    BY <1>6 DEF EndOfKeys, defVars
  <2>2. IDefs'
    BY <1>1, <2>1 DEF ParserInv, IDefs, Early
  <2>3. QED
    BY <1>1, <2>1, <2>2, NoLine DEF Early
<1>7. QED
  BY <1>2, <1>3, <1>4, <1>5, <1>6

(* The reading of the table template.                                      *)
LEMMA TemplateStep ==
    ASSUME ParserInv,
           TableEntry \/ HeaderEntry \/ ValNameEntry \/ ColsEntry \/ EndEntry \/ BlankEntry
           \/ OtherEntry
    PROVE  ParserInv'
<1>1. /\ IDefs' /\ UNCHANGED rowVars
      /\ phase' = "undefined" => UNCHANGED tables
      /\ phase' # "undefined" =>
           phase' = "tables" /\ \A i \in 1 .. N' : tables'[i].headers_found = 0
  BY EntryStep DEF ParserInv
<1>2. CASE phase' = "undefined"
  BY <1>1, <1>2, NoLine DEF Early
<1>3. CASE phase' # "undefined"
  <2>1. phase = "tables"
    BY DEF TableEntry, HeaderEntry, ValNameEntry, ColsEntry, EndEntry, BlankEntry, OtherEntry, Entry
  <2>2. /\ ~in_table' /\ table' = 0 /\ input' = <<>> /\ did' = "nothing"
        /\ UNCHANGED <<in_table, table, columns, input, did>>
    BY <1>1, <2>1 DEF ParserInv, IEarly, Early, rowVars
  <2>3. IEarly'
    BY <1>1, <1>3, <2>2 DEF IEarly
  <2>4. N' \in Nat /\ tables' \in Seq(TableRecs)
    BY <1>1 DEF IDefs, N
  <2>5. IRows'
    <3>1. table' \in 0 .. N'
      BY <2>2, <2>4
    <3>2. QED
      BY <2>2, <3>1 DEF ParserInv, IRows
  <2>6. ICount'
    BY <1>1, <1>3, <2>2, Limits DEF ICount
  <2>7. IPrinted'
    <3> SUFFICES ASSUME NEW i \in 1 .. N'
                 PROVE  \E at \in [1 .. tables'[i].headers_found -> 1 .. Seen'] : Printed(i, at)'
      BY DEF IPrinted
    <3>1. PICK at : at = [k \in 1 .. 0 |-> 1]
      OBVIOUS
    <3>2. tables'[i].headers_found = 0
      BY <1>1, <1>3
    <3>3. at \in [1 .. tables'[i].headers_found -> 1 .. Seen']
      BY <3>1, <3>2
    <3>4. Printed(i, at)'
      BY <2>2, <3>2, <3>3 DEF Printed
    <3>5. QED
      BY <3>3, <3>4
  <2>8. ISent'
    BY <1>1, <1>3, <2>2 DEF ISent
  <2>9. QED
    BY <1>1, <2>3, <2>5, <2>6, <2>7, <2>8 DEF ParserInv
<1>4. QED
  BY <1>2, <1>3

(* The reading of the results file.                                        *)
LEMMA ResultsStep ==
    ASSUME ParserInv, NEW l \in ResultLines,
           \/ HeaderLine(l) \/ BetweenHeaders(l) \/ PlainLine(l) \/ EndOfTable(l)
           \/ TableRow(l) \/ HeaderOverrun(l) \/ LineLenFault(l)
    PROVE  ParserInv'
<1>1. ReadLine(l) /\ IDefs /\ IRows /\ ICount /\ IPrinted /\ UNCHANGED key_regexes
  BY DEF ParserInv, HeaderLine, BetweenHeaders, PlainLine, EndOfTable, TableRow, HeaderOverrun,
         LineLenFault, ReadLine, defVars
<1>2. input' # <<>> /\ Last(input') = l /\ phase = "results"
  BY <1>1, LineRead DEF ReadLine, IRows
<1>3. KeyPairs(l)' = KeyPairs(l) /\ KeyPairs(Last(input))' = KeyPairs(l)
  BY <1>1, <1>2 DEF KeyPairs
<1>4. CASE HeaderLine(l)
  <2>1. did' = "header"
    BY <1>4 DEF HeaderLine
  <2>2. QED
    BY <1>1, <1>4, <2>1, HeaderFound DEF ParserInv, ISent
<1>5. CASE BetweenHeaders(l)
  <2>1. /\ ~in_table /\ UNCHANGED <<tables, in_table, columns, phase>> /\ did' = "between"
        /\ table' = N /\ N > 0 /\ tables[N].headers_found > 0
    BY <1>5 DEF BetweenHeaders
  <2>2. N \in Nat /\ N' = N
    BY <1>1, <2>1 DEF IDefs, N
  <2>3. IDefs' /\ IRows' /\ IEarly' /\ ICount' /\ IPrinted'
    BY <1>1, <1>2, <2>1, <2>2, QuietLine
  <2>4. N \in 1 .. N' /\ tables'[N].headers_found > 0
    BY <2>1, <2>2
  <2>5. QED
    BY <2>1, <2>3, <2>4 DEF ParserInv, ISent
<1>6. CASE PlainLine(l)
  <2>1. /\ ~in_table /\ UNCHANGED <<tables, in_table, columns>> /\ did' = "plain"
        /\ table' = 0 /\ sent' = KeyPairs(l) /\ phase' \in {phase, "undefined"}
    BY <1>6, OutcomesAre DEF PlainLine
  <2>2. table' \in 0 .. N
    BY <1>1, <2>1 DEF IDefs, N
  <2>3. IDefs' /\ IRows' /\ IEarly' /\ ICount' /\ IPrinted'
    BY <1>1, <1>2, <2>1, <2>2, QuietLine
  <2>4. QED
    BY <1>2, <1>3, <2>1, <2>3 DEF ParserInv, ISent
<1>7. CASE EndOfTable(l)
  <2>1. did' = "end" /\ sent' = KeyPairs(l)
    BY <1>7 DEF EndOfTable
  <2>2. QED
    BY <1>1, <1>2, <1>3, <1>7, <2>1, EndLine DEF ParserInv, ISent
<1>8. CASE TableRow(l)
  <2>1. did' = "row"
    BY <1>8 DEF TableRow
  <2>2. QED
    BY <1>1, <1>8, <2>1, RowLine DEF ParserInv, ISent
<1>9. CASE HeaderOverrun(l) \/ LineLenFault(l)
  <2>1. UNCHANGED <<tables, in_table, table, columns, did, sent>> /\ phase' \in {"undefined", "faulted"}
    BY <1>9 DEF HeaderOverrun, LineLenFault, Undefined
  <2>2. ~in_table
    <3>1. CASE HeaderOverrun(l)
      BY <3>1 DEF HeaderOverrun
    <3>2. CASE LineLenFault(l) /\ in_table
      <4>1. Seen > 0 /\ input = <<>>
        BY <1>1, <3>2, InTableFacts DEF LineLenFault
      <4>2. QED
        BY <4>1 DEF Seen
    <3>3. QED
      BY <1>9, <3>1, <3>2
  <2>3. IDefs' /\ IRows' /\ IEarly' /\ ICount' /\ IPrinted'
    <3>1. /\ did' # "row" /\ table' \in 0 .. N
          /\ did' \in {"nothing", "header", "between", "plain", "end", "row"}
      BY <1>1, <2>1, <2>2 DEF IRows
    <3>2. QED
      BY <1>1, <2>1, <2>2, <3>1, QuietLine
  <2>4. N' = N
    BY <2>1 DEF N
  <2>5. QED
    BY <2>1, <2>3, <2>4 DEF ParserInv, ISent
<1>10. QED
  BY <1>4, <1>5, <1>6, <1>7, <1>8, <1>9

(* The inductive invariant of the parser.                                  *)
THEOREM ParserInvariance == Spec => []ParserInv
<1>1. Init => ParserInv
  <2> SUFFICES ASSUME Init PROVE ParserInv
    OBVIOUS
  <2>1. IDefs
    <3>1. /\ tables = <<>> /\ key_regexes = <<>> /\ vals_found = 0 /\ in_def = FALSE
          /\ phase = "main" /\ N = 0 /\ 0 \in 0 .. MaxVals
          /\ given \in [results : BOOLEAN, tables : TableTemplates, keys : KeyTemplates]
      BY Limits DEF Init, N
    <3>2. tables \in Seq(TableRecs) /\ key_regexes \in Seq(Regexes)
      BY <3>1
    <3>3. Len(tables) <= MaxTables /\ Len(key_regexes) <= MaxKeys
      BY <3>1, Limits
    <3>4. in_def \in BOOLEAN
      BY <3>1, Zenon
    <3>5. QED
      BY <3>1, <3>2, <3>3, <3>4 DEF IDefs, Early
  <2>2. IRows
    <3>1. in_table \in BOOLEAN
      BY Zenon DEF Init
    <3>2. QED
      BY <3>1, Limits DEF Init, IRows, N
  <2>3. IEarly /\ ICount /\ IPrinted /\ ISent
    BY DEF Init, IEarly, ICount, IPrinted, ISent, N
  <2>4. QED
    BY <2>1, <2>2, <2>3 DEF ParserInv
<1>2. ParserInv /\ [Next]_vars => ParserInv'
  <2> SUFFICES ASSUME ParserInv, [Next]_vars PROVE ParserInv'
    OBVIOUS
  <2>1. CASE UNCHANGED vars
    <3>1. UNCHANGED <<given, todo, phase, in_def, vals_found, key_regexes, tables, rowVars>> /\ N' = N
      BY <2>1 DEF vars, fileVars, defVars, N
    <3>2. IDefs'
      BY <3>1 DEF ParserInv, IDefs
    <3>3. QED
      BY <3>1, <3>2, NoLine
  <2>2. CASE Next
    BY <2>2, FilesStep, TemplateStep, ResultsStep DEF Next
  <2>3. QED
    BY <2>1, <2>2
<1>3. QED
  BY <1>1, <1>2, PTL DEF Spec

-----------------------------------------------------------------------------
(* The arrays of the parser hold what it counts in them.                   *)
THEOREM ParserTypeCorrect == Spec => []TypeOK
<1>1. ParserInv => TypeOK
  <2> SUFFICES ASSUME ParserInv PROVE TypeOK
    OBVIOUS
  <2>1. \A i \in 1 .. N :
          /\ Len(tables[i].header_names) <= MaxHeaders
          /\ tables[i].headers_found \in 0 .. MaxHeaders
          /\ DOMAIN tables[i].val_names = 1 .. MaxVals
    BY TableFields, Limits DEF ParserInv, IDefs, ICount
  <2>2. QED
    BY <2>1 DEF ParserInv, IDefs, IRows, ICount, TypeOK, Early
<1>2. QED
  BY <1>1, ParserInvariance, PTL

(* headers_found never runs past the headers of a table that has any, and  *)
(* all are found exactly while the table is read (stdout_parser.c:371).    *)
THEOREM HeadersAreCounted == Spec => []HeadersBounded
<1>1. ParserInv => HeadersBounded
  BY DEF ParserInv, ICount, HeadersBounded
<1>2. QED
  BY <1>1, ParserInvariance, PTL

(* Values are sent as a table's only after all of its headers, in their    *)
(* order, and only rows since (stdout_parser.c:383-449).                   *)
THEOREM RowsComeAfterHeaders == Spec => []RowsFollowHeaders
<1>1. ParserInv => RowsFollowHeaders
  <2> SUFFICES ASSUME ParserInv, did = "row" PROVE RowsFollowHeaders
    BY DEF RowsFollowHeaders
  <2> DEFINE h == tables[table].header_names
             n == Len(input)
  <2>1. /\ in_table /\ table \in 1 .. N /\ Len(h) > 0 /\ tables[table].headers_found = Len(h)
        /\ h \in Seq(HeaderNames) /\ Seen = n - 1 /\ n \in Nat /\ Seen > 0
    <3>1. in_table
      BY DEF ParserInv, IRows
    <3>2. table \in 1 .. N /\ Seen > 0
      BY <3>1, InTableFacts DEF ParserInv
    <3>3. h \in Seq(HeaderNames)
      BY <3>2, TableFields DEF ParserInv, IDefs
    <3>4. QED
      BY <3>1, <3>2, <3>3 DEF ParserInv, ICount, IRows, Seen
  <2>2. PICK at : Printed(table, at)
    BY <2>1 DEF ParserInv, IPrinted
  <2>3. DOMAIN h = 1 .. Len(h) /\ Len(h) \in Nat /\ h # <<>>
    BY <2>1
  <2>4. /\ at \in [1 .. Len(h) -> 1 .. n - 1]
        /\ \A k \in 1 .. Len(h) : k <= Len(h) => h[k] \in input[at[k]].headers
        /\ \A k, m \in 1 .. Len(h) : k < m => at[k] < at[m]
        /\ \A p \in 1 .. n : at[Len(h)] < p => input[p].row # <<>>
    BY <2>1, <2>2 DEF Printed
  <2>5. \A p \in at[Len(h)] + 1 .. n : p \in 1 .. n /\ at[Len(h)] < p
    <3>1. at[Len(h)] \in 1 .. n - 1
      BY <2>1, <2>3, <2>4
    <3>2. QED
      BY <2>1, <3>1
  <2> HIDE DEF h, n
  <2>6. /\ at \in [DOMAIN h -> 1 .. n - 1]
        /\ \A k \in DOMAIN h : h[k] \in input[at[k]].headers
        /\ \A k, m \in DOMAIN h : k < m => at[k] < at[m]
        /\ \A p \in at[Len(h)] + 1 .. n : input[p].row # <<>>
    BY <2>3, <2>4, <2>5
  <2>7. QED
    BY <2>3, <2>6 DEF RowsFollowHeaders, h, n
<1>2. QED
  BY <1>1, ParserInvariance, PTL

(* A line with a key and a value is passed over only once a table's first  *)
(* header has been printed (stdout_parser.c:298-299, 365-420).             *)
THEOREM KeysAreSent == Spec => []KeysNotSwallowed
<1>1. ParserInv => KeysNotSwallowed
  <2> SUFFICES ASSUME ParserInv, phase = "results", input # <<>>,
                      KeyPairs(Last(input)) # <<>>, sent = <<>>
               PROVE  \E i \in 1 .. N : tables[i].header_names = <<>> \/
                        \E p \in DOMAIN input : tables[i].header_names[1] \in input[p].headers
    BY DEF KeysNotSwallowed
  <2>1. did \in {"header", "between", "row"}
    BY DEF ParserInv, ISent, IRows
  <2>2. PICK i \in 1 .. N : tables[i].headers_found > 0
    <3>1. CASE did = "row"
      BY <3>1, InTableFacts DEF ParserInv, IRows
    <3>2. CASE did # "row"
      BY <2>1, <3>2 DEF ParserInv, ISent
    <3>3. QED
      BY <3>1, <3>2
  <2>3. PICK at : Printed(i, at)
    BY DEF ParserInv, IPrinted
  <2>4. /\ tables[i].headers_found \in Nat /\ tables[i].header_names \in Seq(HeaderNames)
        /\ input \in Seq(ResultLines) /\ Seen <= Len(input) /\ Seen \in Int
    BY TableFields DEF ParserInv, IDefs, IRows, Seen
  <2>5. /\ at[1] \in 1 .. Seen
        /\ 1 <= Len(tables[i].header_names) =>
             tables[i].header_names[1] \in input[at[1]].headers
    BY <2>2, <2>3, <2>4 DEF Printed
  <2>6. at[1] \in DOMAIN input
    BY <2>4, <2>5
  <2>7. tables[i].header_names = <<>> \/ 1 <= Len(tables[i].header_names)
    BY <2>4
  <2>8. QED
    BY <2>5, <2>6, <2>7
<1>2. QED
  BY <1>1, ParserInvariance, PTL

-----------------------------------------------------------------------------
(* The phases in which there are tables, and how far their template is read*)
Built == {"tables", "keys", "results"}
Pos == IF phase = "tables" THEN Len(given.tables) - Len(todo) ELSE Len(given.tables)

(* What is left to read of the table template; a table is open where the   *)
(* lines read say so, and the tables are those that the lines read begin.  *)
ITemplate ==
    /\ phase = "main" => tables = <<>> /\ ~in_def /\ vals_found = 0
    /\ phase \in Built =>
         /\ given.tables \in Seq(Entries)
         /\ phase = "tables" =>
              /\ Len(todo) <= Len(given.tables)
              /\ \A j \in 1 .. Len(todo) : todo[j] = given.tables[Pos + j]
         /\ in_def <=> Open(Pos)
         /\ N = Rank(Starts, Pos)
         /\ \A i \in 1 .. N :
              /\ Nth(Starts, i) \in Starts /\ Nth(Starts, i) <= Pos
              /\ Rank(Starts, Nth(Starts, i)) = i
         /\ in_def => N > 0 /\ \A r \in Nth(Starts, N) + 1 .. Pos : KeyAt(r) # "end"

(* A table without a header has none among its lines read.                 *)
IHeads ==
    phase \in Built => \A i \in 1 .. N :
        tables[i].header_names = <<>> => \A p \in Declared(i, "header") : p > Pos

(* The names of the first table are in the array, in their order, as far   *)
(* as it has room.                                                         *)
INames ==
    phase \in Built =>
        LET D == Declared(1, "val_name")
            m == Rank(D, Pos)
        IN  /\ N = 0 => vals_found = 0
            /\ N = 1 => vals_found = IF m < MaxVals THEN m ELSE MaxVals
            /\ N >= 1 => \A k \in 1 .. m :
                 /\ Nth(D, k) \in D /\ Nth(D, k) <= Pos /\ Rank(D, Nth(D, k)) = k
                 /\ k <= MaxVals => tables[1].val_names[k] = NameDeclared(1, k)

(* The expressions compiled are those among the lines read.                *)
Compiling == {p \in DOMAIN given.keys : given.keys[p] \in Regexes}
KeyPos == Len(given.keys) - Len(todo)
IKeys ==
    /\ phase \in {"main", "tables"} => key_regexes = <<>>
    /\ phase = "keys" =>
         /\ given.keys \in Seq(KeyLines)
         /\ Len(todo) <= Len(given.keys)
         /\ \A j \in 1 .. Len(todo) : todo[j] = given.keys[KeyPos + j]
         /\ Len(key_regexes) = Rank(Compiling, KeyPos)

TemplateInv == ITemplate /\ IHeads /\ INames /\ IKeys

-----------------------------------------------------------------------------
(* The lines of a template up to some point are finitely many.             *)
LEMMA RankType ==
    ASSUME NEW n \in Nat, NEW S, S \subseteq 1 .. n, NEW p \in Int
    PROVE  /\ IsFiniteSet(S) /\ Cardinality(S) \in Nat
           /\ IsFiniteSet({q \in S : q <= p}) /\ Rank(S, p) \in Nat /\ Rank(S, p) <= Cardinality(S)
<1>1. IsFiniteSet(1 .. n)
  BY FS_Interval
<1>2. IsFiniteSet(S)
  BY <1>1, FS_Subset
<1>3. {q \in S : q <= p} \in SUBSET S
  OBVIOUS
<1>4. QED
  BY <1>2, <1>3, FS_Subset, FS_CardinalityType DEF Rank

(* One line more counts if it is of the set.                               *)
LEMMA RankNext ==
    ASSUME NEW n \in Nat, NEW S, S \subseteq 1 .. n, NEW p \in Nat
    PROVE  /\ p + 1 \in S => Rank(S, p + 1) = Rank(S, p) + 1
           /\ p + 1 \notin S => Rank(S, p + 1) = Rank(S, p)
<1> DEFINE A == {q \in S : q <= p}
           B == {q \in S : q <= p + 1}
<1>1. \A q \in S : q \in Nat
  OBVIOUS
<1>2. \A q \in S : q <= p + 1 <=> (q <= p \/ q = p + 1)
  BY <1>1
<1>3. B = A \cup ({p + 1} \cap S) /\ p + 1 \notin A
  <2>1. ~(p + 1 <= p) /\ p + 1 <= p + 1
    OBVIOUS
  <2>2. QED
    BY <1>2, <2>1, Zenon
<1>4. IsFiniteSet(A)
  <2>1. p \in Int
    OBVIOUS
  <2>2. QED
    BY <2>1, RankType
<1> HIDE DEF A, B
<1>5. p + 1 \in S => Cardinality(B) = Cardinality(A) + 1
  <2>1. p + 1 \in S => B = A \cup {p + 1}
    BY <1>3
  <2>2. QED
    BY <1>3, <1>4, <2>1, FS_AddElement
<1>6. Rank(S, p) = Cardinality(A) /\ Rank(S, p + 1) = Cardinality(B)
  BY DEF Rank, A, B
<1>7. QED
  BY <1>3, <1>5, <1>6

(* The count grows with the lines, and strictly up to one of the set.      *)
LEMMA RankGrows ==
    ASSUME NEW n \in Nat, NEW S, S \subseteq 1 .. n, NEW p \in Int, NEW q \in Int, p <= q
    PROVE  /\ Rank(S, p) <= Rank(S, q)
           /\ p < q /\ q \in S => Rank(S, p) < Rank(S, q)
<1> DEFINE A == {r \in S : r <= p}
           B == {r \in S : r <= q}
<1>1. \A r \in S : r \in Int /\ (r <= p => r <= q)
  OBVIOUS
<1>2. A \in SUBSET B
  BY <1>1
<1>3. IsFiniteSet(B) /\ Rank(S, p) \in Nat /\ Rank(S, q) \in Nat
  BY RankType
<1>4. p < q /\ q \in S => q \in B /\ q \notin A
  OBVIOUS
<1>5. Rank(S, p) = Cardinality(A) /\ Rank(S, q) = Cardinality(B)
  BY DEF Rank
<1> HIDE DEF A, B
<1>6. Cardinality(A) <= Cardinality(B) /\ (Cardinality(A) = Cardinality(B) => A = B)
  BY <1>2, <1>3, FS_Subset
<1>7. QED
  BY <1>3, <1>4, <1>5, <1>6

(* The line with a number is the one counted with it.                      *)
LEMMA NthIs ==
    ASSUME NEW n \in Nat, NEW S, S \subseteq 1 .. n, NEW p \in S
    PROVE  Nth(S, Rank(S, p)) = p
<1>1. \A q, r \in S : q \in Int /\ (q < r => Rank(S, q) < Rank(S, r)) /\ Rank(S, q) \in Nat
  <2>1. \A q \in S : q \in Int
    OBVIOUS
  <2>2. \A q, r \in S : q < r => q <= r
    BY <2>1
  <2>3. QED
    BY <2>1, <2>2, RankGrows, RankType
<1>2. \A q \in S : Rank(S, q) = Rank(S, p) => q = p
  <2> SUFFICES ASSUME NEW q \in S, Rank(S, q) = Rank(S, p), q # p PROVE FALSE
    OBVIOUS
  <2>1. q < p \/ p < q
    BY <1>1
  <2>2. Rank(S, q) < Rank(S, p) \/ Rank(S, p) < Rank(S, q)
    BY <1>1, <2>1
  <2>3. Rank(S, q) \in Nat
    BY <1>1
  <2>4. QED
    BY <2>2, <2>3
<1>3. QED
  BY <1>2 DEF Nth

(* All lines, or none, are counted.                                        *)
LEMMA RankEnds ==
    ASSUME NEW n \in Nat, NEW S, S \subseteq 1 .. n
    PROVE  /\ Rank(S, n) = Cardinality(S)
           /\ \A p \in Int : (\A q \in S : q > p) => Rank(S, p) = 0
<1>1. \A q \in S : q \in Int /\ q <= n
  OBVIOUS
<1>2. {q \in S : q <= n} = S
  BY <1>1, Zenon
<1>3. ASSUME NEW p \in Int, \A q \in S : q > p PROVE {q \in S : q <= p} = {}
  <2>1. \A q \in S : ~(q <= p)
    BY <1>1, <1>3
  <2>2. QED
    BY <2>1, Zenon
<1>4. QED
  BY <1>2, <1>3, FS_EmptySet DEF Rank

(* The sets of lines are lines of the template.                            *)
LEMMA LineSets ==
    ASSUME given.tables \in Seq(Entries)
    PROVE  /\ Len(given.tables) \in Nat /\ DOMAIN given.tables = 1 .. Len(given.tables)
           /\ Starts \subseteq 1 .. Len(given.tables)
           /\ \A i, key : Declared(i, key) \subseteq 1 .. Len(given.tables)
<1>1. Len(given.tables) \in Nat /\ DOMAIN given.tables = 1 .. Len(given.tables)
  OBVIOUS
<1>2. QED
  BY <1>1, Zenon DEF Starts, Declared, Section

(* What the template says does not change while it is read.                *)
LEMMA TemplateFixed ==
    ASSUME given' = given
    PROVE  /\ Starts' = Starts /\ \A n : Open(n)' <=> Open(n)
           /\ \A p : KeyAt(p)' = KeyAt(p)
           /\ \A i, key : Declared(i, key)' = Declared(i, key)
           /\ \A i, k : NameDeclared(i, k)' = NameDeclared(i, k)
<1>1. \A p : KeyAt(p)' = KeyAt(p)
  BY DEF KeyAt
<1>2. \A n : Open(n)' <=> Open(n)
  BY <1>1 DEF Open
<1>3. Starts' = Starts
  BY <1>1, <1>2 DEF Starts
<1>4. \A i : Section(i)' = Section(i)
  BY <1>1, <1>3 DEF Section, Nth, Rank
<1>5. \A i, key : Declared(i, key)' = Declared(i, key)
  BY <1>1, <1>4 DEF Declared
<1>6. \A i, k : NameDeclared(i, k)' = NameDeclared(i, k)
  BY <1>5 DEF NameDeclared, Nth, Rank
<1>7. QED
  BY <1>1, <1>2, <1>3, <1>5, <1>6

(* One line more opens a table, ends it, or leaves it as it was.           *)
LEMMA OpenNext ==
    ASSUME NEW n \in Nat
    PROVE  /\ KeyAt(n + 1) = "table" => Open(n + 1)
           /\ KeyAt(n + 1) = "end" => ~Open(n + 1)
           /\ KeyAt(n + 1) \notin {"table", "end"} => (Open(n + 1) <=> Open(n))
<1>1. ASSUME KeyAt(n + 1) = "table" PROVE Open(n + 1)
  <2>1. n + 1 \in 1 .. n + 1 /\ (n + 1) + 1 .. n + 1 = {}
    OBVIOUS
  <2>2. QED
    BY <1>1, <2>1 DEF Open
<1>2. ASSUME KeyAt(n + 1) = "end", Open(n + 1) PROVE FALSE
  <2>1. PICK q \in 1 .. n + 1 : KeyAt(q) = "table" /\ \A r \in q + 1 .. n + 1 : KeyAt(r) # "end"
    BY <1>2 DEF Open
  <2>2. q # n + 1
    BY <1>2, <2>1
  <2>3. n + 1 \in q + 1 .. n + 1
    BY <2>2
  <2>4. QED
    BY <1>2, <2>1, <2>3
<1>3. ASSUME KeyAt(n + 1) \notin {"table", "end"} PROVE Open(n + 1) <=> Open(n)
  <2>1. \A q \in 1 .. n + 1 : q \in 1 .. n \/ q = n + 1
    OBVIOUS
  <2>2. \A q \in 1 .. n : q \in 1 .. n + 1 /\ q + 1 .. n + 1 = (q + 1 .. n) \cup {n + 1}
    OBVIOUS
  <2>3. ASSUME Open(n + 1) PROVE Open(n)
    <3>1. PICK q \in 1 .. n + 1 : KeyAt(q) = "table" /\ \A r \in q + 1 .. n + 1 : KeyAt(r) # "end"
      BY <2>3 DEF Open
    <3>2. q \in 1 .. n
      BY <1>3, <2>1, <3>1
    <3>3. QED
      BY <2>2, <3>1, <3>2 DEF Open
  <2>4. ASSUME Open(n) PROVE Open(n + 1)
    <3>1. PICK q \in 1 .. n : KeyAt(q) = "table" /\ \A r \in q + 1 .. n : KeyAt(r) # "end"
      BY <2>4 DEF Open
    <3>2. QED
      BY <1>3, <2>2, <3>1 DEF Open
  <2>5. QED
    BY <2>3, <2>4
<1>4. QED
  BY <1>1, <1>2, <1>3

(* Where the template is read: the next line is the head of what is left.  *)
LEMMA NextLine ==
    ASSUME ITemplate, phase = "tables", todo \in Seq(Entries), todo # <<>>
    PROVE  /\ given.tables \in Seq(Entries) /\ Pos \in Nat /\ Pos + 1 \in DOMAIN given.tables
           /\ Pos + 1 <= Len(given.tables)
           /\ given.tables[Pos + 1] = Head(todo) /\ KeyAt(Pos + 1) = Head(todo).key
           /\ Len(Tail(todo)) <= Len(given.tables)
           /\ Len(given.tables) - Len(Tail(todo)) = Pos + 1
           /\ \A j \in 1 .. Len(Tail(todo)) : Tail(todo)[j] = given.tables[(Pos + 1) + j]
<1>1. /\ given.tables \in Seq(Entries) /\ Len(todo) <= Len(given.tables)
      /\ \A j \in 1 .. Len(todo) : todo[j] = given.tables[Pos + j]
      /\ Pos = Len(given.tables) - Len(todo)
  BY DEF ITemplate, Built, Pos
<1>2. /\ Len(todo) \in Nat /\ Len(todo) > 0 /\ Len(given.tables) \in Nat
      /\ Head(todo) = todo[1] /\ Len(Tail(todo)) = Len(todo) - 1
      /\ \A j \in 1 .. Len(todo) - 1 : Tail(todo)[j] = todo[j + 1]
      /\ DOMAIN given.tables = 1 .. Len(given.tables)
  BY <1>1
<1> DEFINE t == given.tables
           u == Tail(todo)
<1> HIDE DEF t, u
<1>3. /\ Pos \in Nat /\ Pos + 1 \in 1 .. Len(t) /\ t[Pos + 1] = Head(todo)
  BY <1>1, <1>2 DEF t
<1>4. \A j \in 1 .. Len(u) : u[j] = t[(Pos + 1) + j]
  <2> SUFFICES ASSUME NEW j \in 1 .. Len(u) PROVE u[j] = t[(Pos + 1) + j]
    OBVIOUS
  <2>1. j \in 1 .. Len(todo) - 1 /\ j + 1 \in 1 .. Len(todo) /\ Pos + (j + 1) = (Pos + 1) + j
    BY <1>2, <1>3 DEF u
  <2>2. u[j] = todo[j + 1] /\ todo[j + 1] = t[Pos + (j + 1)]
    BY <1>1, <1>2, <2>1 DEF t, u
  <2>3. QED
    BY <2>1, <2>2
<1>5. Len(u) <= Len(t) /\ Len(t) - Len(u) = Pos + 1
  BY <1>1, <1>2 DEF t, u
<1>6. QED
  BY <1>1, <1>2, <1>3, <1>4, <1>5 DEF t, u, KeyAt

(* The next line is of the table being defined, if there is one, and of no *)
(* other.                                                                  *)
LEMMA NextSection ==
    ASSUME ITemplate, phase = "tables", todo \in Seq(Entries), todo # <<>>, N \in Nat
    PROVE  /\ \A i \in 1 .. N : Pos + 1 \in Section(i) => in_def /\ i = N
           /\ in_def => Pos + 1 \in Section(N)
<1>1. /\ given.tables \in Seq(Entries) /\ Pos \in Nat /\ Pos + 1 \in DOMAIN given.tables
      /\ Len(given.tables) \in Nat /\ Starts \subseteq 1 .. Len(given.tables)
  BY NextLine, LineSets
<1>2. /\ in_def <=> Open(Pos)
      /\ \A i \in 1 .. N :
           /\ Nth(Starts, i) \in Starts /\ Nth(Starts, i) <= Pos
           /\ Rank(Starts, Nth(Starts, i)) = i
      /\ in_def => N > 0 /\ \A r \in Nth(Starts, N) + 1 .. Pos : KeyAt(r) # "end"
  BY DEF ITemplate, Built
<1>3. \A p \in Starts : p \in Nat /\ p > 0 /\ KeyAt(p) = "table" /\ ~Open(p - 1)
  <2>1. \A p \in 1 .. Len(given.tables) : p \in Nat /\ p > 0
    BY <1>1
  <2>2. \A p \in Starts : p \in 1 .. Len(given.tables)
    BY <1>1
  <2>3. QED
    BY <2>1, <2>2 DEF Starts
<1>4. ASSUME NEW i \in 1 .. N, Pos + 1 \in Section(i) PROVE in_def /\ i = N
  <2> DEFINE a == Nth(Starts, i)
             b == Nth(Starts, N)
  <2>1. a \in Nat /\ a > 0 /\ a <= Pos /\ KeyAt(a) = "table"
    BY <1>2, <1>3
  <2>2. \A r \in a + 1 .. Pos : KeyAt(r) # "end"
    <3>1. (Pos + 1) - 1 = Pos
      BY <1>1
    <3>2. QED
      BY <1>4, <3>1 DEF Section
  <2>3. a \in 1 .. Pos
    BY <1>1, <2>1
  <2>4. in_def
    BY <1>2, <2>1, <2>2, <2>3 DEF Open
  <2>5. ASSUME i # N PROVE FALSE
    <3>1. N \in 1 .. N /\ i < N
      BY <2>5
    <3>2. b \in Starts /\ b \in Nat /\ b <= Pos /\ Rank(Starts, b) = N /\ Rank(Starts, a) = i
      BY <1>2, <1>3, <3>1
    <3>3. a < b
      <4> SUFFICES ASSUME b <= a PROVE FALSE
        BY <2>1, <3>2
      <4>1. b \in Int /\ a \in Int
        BY <2>1, <3>2
      <4> HIDE DEF a, b
      <4>2. Rank(Starts, b) <= Rank(Starts, a)
        BY <1>1, <4>1, RankGrows
      <4>3. QED
        BY <3>1, <3>2, <4>2
    <3>4. a \in 1 .. b - 1
      BY <2>1, <3>2, <3>3
    <3>5. \A r \in a + 1 .. b - 1 : r \in a + 1 .. Pos
      BY <1>1, <2>1, <3>2
    <3>6. Open(b - 1)
      BY <2>1, <2>2, <3>4, <3>5 DEF Open
    <3>7. QED
      BY <1>3, <3>2, <3>6
  <2>6. QED
    BY <2>4, <2>5
<1>5. ASSUME in_def PROVE Pos + 1 \in Section(N)
  <2>1. N \in 1 .. N /\ (Pos + 1) - 1 = Pos
    BY <1>1, <1>2, <1>5
  <2>2. Nth(Starts, N) < Pos + 1
    BY <1>1, <1>2, <1>3, <2>1
  <2>3. QED
    BY <1>1, <1>2, <1>5, <2>1, <2>2 DEF Section
<1>6. QED
  BY <1>4, <1>5

-----------------------------------------------------------------------------
(* One assignment to the last table replaces it by a record with one field *)
(* changed.                                                                *)
LEMMA LastReplaced ==
    ASSUME tables \in Seq(TableRecs), N > 0, NEW t \in TableRecs, tables' = [tables EXCEPT ![N] = t]
    PROVE  /\ N \in 1 .. N /\ N' = N /\ tables'[N] = t
           /\ \A i \in 1 .. N : i # N => tables'[i] = tables[i]
<1>1. N \in 1 .. N
  BY DEF N
<1>2. QED
  BY <1>1, TableReplaced

(* A value name that is stored.                                            *)
Took == Head(todo).key = "val_name" /\ in_def /\ vals_found < MaxVals

(* parseTableTemplate(): which fields a line assigns (stdout_parser.c:     *)
(* 223-289).                                                               *)
LEMMA EntryEffect ==
    ASSUME IDefs, phase' # "undefined",
           TableEntry \/ HeaderEntry \/ ValNameEntry \/ ColsEntry \/ EndEntry \/ BlankEntry
           \/ OtherEntry
    PROVE  LET key == Head(todo).key IN
           /\ phase = "tables" /\ phase' = "tables" /\ todo \in Seq(Entries) /\ todo # <<>>
           /\ todo' = Tail(todo) /\ UNCHANGED <<given, key_regexes>>
           /\ key = "table" => in_def'
           /\ key = "end" => ~in_def'
           /\ key \notin {"table", "end"} => (in_def' <=> in_def)
           /\ key = "table" /\ ~in_def =>
                tables' = Append(tables, EmptyTable) /\ UNCHANGED vals_found
           /\ key # "table" \/ in_def =>
                /\ N' = N /\ \A i \in 1 .. N : i # N => tables'[i] = tables[i]
                /\ \A i \in 1 .. N : tables'[i].header_names = <<>> =>
                     tables[i].header_names = <<>> /\ ~(in_def /\ i = N /\ key = "header")
                /\ Took => /\ vals_found' = vals_found + 1
                           /\ tables'[N].val_names =
                                [tables[N].val_names EXCEPT ![vals_found + 1] = Head(todo).name]
                /\ ~Took => /\ UNCHANGED vals_found
                            /\ \A i \in 1 .. N : tables'[i].val_names = tables[i].val_names
<1> DEFINE e == Head(todo)
<1>1. /\ phase = "tables" /\ todo # <<>> /\ todo \in Seq(Entries) /\ e \in Entries
      /\ tables \in Seq(TableRecs) /\ in_def \in BOOLEAN /\ vals_found \in 0 .. MaxVals
      /\ in_def => N > 0
  BY DEF IDefs, TableEntry, HeaderEntry, ValNameEntry, ColsEntry, EndEntry, BlankEntry, OtherEntry,
         Entry
<1>2. phase' = "tables" /\ todo' = Tail(todo) /\ UNCHANGED <<given, key_regexes>>
  BY <1>1 DEF TableEntry, HeaderEntry, ValNameEntry, ColsEntry, EndEntry, BlankEntry, OtherEntry,
              ReadEntry, Undefined
<1>3. CASE TableEntry
  <2>1. /\ e.key = "table" /\ ~in_def /\ in_def' /\ UNCHANGED vals_found
        /\ tables' = Append(tables, EmptyTable)
    BY <1>3 DEF TableEntry, Entry, Undefined
  <2>2. QED
    BY <1>1, <1>2, <2>1
<1>4. CASE HeaderEntry
  <2> DEFINE hs == Append(tables[N].header_names, e.header)
             t == [tables[N] EXCEPT !.header_names = hs]
  <2>1. /\ e.key = "header" /\ in_def /\ in_def' = in_def /\ UNCHANGED vals_found
        /\ tables' = [tables EXCEPT ![N] = t] /\ ~Took /\ N \in 1 .. N
    BY <1>1, <1>4 DEF HeaderEntry, Entry, Took, N
  <2>2. /\ tables[N] \in TableRecs /\ tables[N].header_names \in Seq(HeaderNames)
        /\ e.header \in HeaderNames
    BY <1>1, <2>1, TableFields DEF HeaderNames, OfKey
  <2>3. t \in TableRecs
    BY <2>2, FieldsType
  <2>4. t.header_names = hs /\ t.val_names = tables[N].val_names
    BY <2>2, <2>3 DEF TableRecs
  <2>5. hs # <<>>
    <3> DEFINE h == e.header
    <3> HIDE DEF h
    <3>1. Append(tables[N].header_names, h) # <<>>
      BY <2>2 DEF h
    <3>2. QED
      BY <3>1 DEF h
  <2> HIDE DEF t, hs
  <2>6. N' = N /\ tables'[N] = t /\ \A i \in 1 .. N : i # N => tables'[i] = tables[i]
    BY <1>1, <2>1, <2>3, LastReplaced
  <2>7. \A i \in 1 .. N : tables'[i].header_names = <<>> =>
            tables[i].header_names = <<>> /\ i # N
    BY <2>4, <2>5, <2>6
  <2>8. \A i \in 1 .. N : tables'[i].val_names = tables[i].val_names
    BY <2>4, <2>6
  <2>9. QED
    BY <1>1, <1>2, <2>1, <2>6, <2>7, <2>8
<1>5. CASE ValNameEntry
  <2> DEFINE ns == [tables[N].val_names EXCEPT ![vals_found + 1] = e.name]
             t == [tables[N] EXCEPT !.val_names = ns]
  <2>1. /\ e.key = "val_name" /\ in_def /\ in_def' = in_def /\ vals_found' = vals_found + 1
        /\ tables' = [tables EXCEPT ![N] = t] /\ Took /\ N \in 1 .. N
    BY <1>1, <1>5 DEF ValNameEntry, Entry, Took, N
  <2>2. tables[N] \in TableRecs /\ e.name \in ValNames /\ vals_found + 1 \in 1 .. MaxVals
    <3>1. vals_found < MaxVals
      BY <2>1 DEF Took
    <3>2. vals_found + 1 \in 1 .. MaxVals
      BY <1>1, <3>1, Limits
    <3>3. QED
      BY <1>1, <2>1, <3>2, TableFields DEF ValNames, OfKey
  <2>3. t \in TableRecs
    BY <2>2, FieldsType
  <2>4. t.val_names = ns /\ t.header_names = tables[N].header_names
    BY <2>2, <2>3 DEF TableRecs
  <2> HIDE DEF t, ns
  <2>5. N' = N /\ tables'[N] = t /\ \A i \in 1 .. N : i # N => tables'[i] = tables[i]
    BY <1>1, <2>1, <2>3, LastReplaced
  <2>6. \A i \in 1 .. N : tables'[i].header_names = tables[i].header_names
    BY <2>4, <2>5
  <2>7. tables'[N].val_names = ns
    BY <2>4, <2>5
  <2>8. QED
    BY <1>1, <1>2, <2>1, <2>5, <2>6, <2>7 DEF ns
<1>6. CASE ColsEntry
  <2> DEFINE t == [tables[N] EXCEPT !.cols = e.cols]
  <2>1. /\ e.key = "cols" /\ in_def /\ in_def' = in_def /\ UNCHANGED vals_found
        /\ tables' = [tables EXCEPT ![N] = t] /\ ~Took /\ N \in 1 .. N
    BY <1>1, <1>6 DEF ColsEntry, Entry, Took, N
  <2>2. tables[N] \in TableRecs /\ e.cols \in ColCounts
    BY <1>1, <2>1, TableFields DEF ColCounts, OfKey
  <2>3. t \in TableRecs
    BY <2>2, FieldsType
  <2>4. t.val_names = tables[N].val_names /\ t.header_names = tables[N].header_names
    BY <2>2, <2>3 DEF TableRecs
  <2> HIDE DEF t
  <2>5. N' = N /\ tables'[N] = t /\ \A i \in 1 .. N : i # N => tables'[i] = tables[i]
    BY <1>1, <2>1, <2>3, LastReplaced
  <2>6. \A i \in 1 .. N : /\ tables'[i].header_names = tables[i].header_names
                          /\ tables'[i].val_names = tables[i].val_names
    BY <2>4, <2>5
  <2>7. QED
    BY <1>1, <1>2, <2>1, <2>5, <2>6
<1>7. CASE EndEntry
  <2>1. e.key = "end" /\ in_def /\ ~in_def' /\ UNCHANGED <<tables, vals_found>> /\ ~Took /\ N' = N
    BY <1>7 DEF EndEntry, Entry, Took, N
  <2>2. QED
    BY <1>1, <1>2, <2>1
<1>8. CASE OtherEntry
  <2>1. /\ UNCHANGED <<tables, vals_found, in_def>> /\ N' = N
        /\ e.key = "table" => in_def
        /\ e.key = "end" => ~in_def
        /\ e.key = "header" /\ in_def => Len(tables[N].header_names) >= MaxHeaders
        /\ ~Took
    BY <1>1, <1>8, Limits DEF OtherEntry, Took, N
  <2>2. e.key = "header" /\ in_def => tables[N].header_names # <<>>
    BY <2>1, Limits
  <2>3. QED
    BY <1>1, <1>2, <2>1, <2>2
<1>9. CASE BlankEntry
  <2>1. e.key = "blank" /\ UNCHANGED <<tables, vals_found, in_def>> /\ ~Took /\ N' = N
    BY <1>9 DEF BlankEntry, Entry, Took, N
  <2>2. QED
    BY <1>1, <1>2, <2>1
<1>10. QED
  BY <1>3, <1>4, <1>5, <1>6, <1>7, <1>8, <1>9

(* A line more of the template, in the terms of what is read of it.        *)
LEMMA PosNext ==
    ASSUME ITemplate, phase = "tables", phase' = "tables", todo \in Seq(Entries), todo # <<>>,
           todo' = Tail(todo), given' = given
    PROVE  /\ Pos' = Pos + 1 /\ Pos \in Nat /\ (Open(Pos)' <=> Open(Pos + 1))
           /\ \A S : Rank(S, Pos)' = Rank(S, Pos + 1)
<1>1. Pos' = Pos + 1 /\ Pos \in Nat
  BY NextLine DEF Pos
<1>2. Open(Pos)' <=> Open(Pos + 1)
  BY <1>1 DEF Open, KeyAt
<1>3. \A S : Rank(S, Pos)' = Rank(S, Pos + 1)
  BY <1>1
<1>4. QED
  BY <1>1, <1>2, <1>3

(* The tables are those the lines read begin, line by line.                *)
LEMMA TemplateKept ==
    ASSUME IDefs, ITemplate, phase' # "undefined",
           TableEntry \/ HeaderEntry \/ ValNameEntry \/ ColsEntry \/ EndEntry \/ BlankEntry
           \/ OtherEntry
    PROVE  ITemplate'
<1> DEFINE key == Head(todo).key
<1>1. /\ phase = "tables" /\ phase' = "tables" /\ todo \in Seq(Entries) /\ todo # <<>>
      /\ todo' = Tail(todo) /\ given' = given /\ tables \in Seq(TableRecs) /\ N \in Nat
  BY EntryEffect DEF IDefs, N
<1>2. /\ key = "table" => in_def'
      /\ key = "end" => ~in_def'
      /\ key \notin {"table", "end"} => (in_def' <=> in_def)
      /\ key = "table" /\ ~in_def => tables' = Append(tables, EmptyTable)
      /\ key # "table" \/ in_def => N' = N
  BY EntryEffect
<1>3. PICK x : x = Pos + 1
  OBVIOUS
<1>4. /\ given.tables \in Seq(Entries) /\ Pos \in Nat /\ x \in DOMAIN given.tables
      /\ KeyAt(x) = key /\ Len(todo') <= Len(given.tables) /\ Len(given.tables) - Len(todo') = x
      /\ \A j \in 1 .. Len(todo') : todo'[j] = given.tables[x + j]
  BY <1>1, <1>3, NextLine
<1>5. /\ Pos' = x /\ (Open(Pos)' <=> Open(x)) /\ Starts' = Starts /\ \A p : KeyAt(p)' = KeyAt(p)
  BY <1>1, <1>3, PosNext, TemplateFixed
<1>6. /\ in_def <=> Open(Pos)
      /\ N = Rank(Starts, Pos)
      /\ \A i \in 1 .. N :
           /\ Nth(Starts, i) \in Starts /\ Nth(Starts, i) <= Pos
           /\ Rank(Starts, Nth(Starts, i)) = i
      /\ in_def => N > 0 /\ \A r \in Nth(Starts, N) + 1 .. Pos : KeyAt(r) # "end"
  BY <1>1 DEF ITemplate, Built
<1>7. in_def' <=> Open(x)
  <2>1. /\ key = "table" => Open(x)
        /\ key = "end" => ~Open(x)
        /\ key \notin {"table", "end"} => (Open(x) <=> Open(Pos))
    <3>1. /\ KeyAt(Pos + 1) = "table" => Open(Pos + 1)
          /\ KeyAt(Pos + 1) = "end" => ~Open(Pos + 1)
          /\ KeyAt(Pos + 1) \notin {"table", "end"} => (Open(Pos + 1) <=> Open(Pos))
      BY <1>4, OpenNext
    <3>2. QED
      BY <1>3, <1>4, <3>1, Zenon
  <2>2. QED
    BY <1>2, <1>6, <2>1
<1>8. x \in Starts <=> key = "table" /\ ~in_def
  <2>1. x - 1 = Pos
    BY <1>3, <1>4
  <2>2. QED
    BY <1>4, <1>6, <2>1 DEF Starts
<1>9. Len(given.tables) \in Nat /\ Starts \subseteq 1 .. Len(given.tables)
  BY <1>4, LineSets
<1>10. \A p \in Starts : p \in Int
  BY <1>9
<1>11. /\ x \in Starts => Rank(Starts, x) = N + 1 /\ Nth(Starts, N + 1) = x
       /\ x \notin Starts => Rank(Starts, x) = N
  <2>1. /\ x \in Starts => Rank(Starts, x) = N + 1
        /\ x \notin Starts => Rank(Starts, x) = N
    <3>1. /\ Pos + 1 \in Starts => Rank(Starts, Pos + 1) = Rank(Starts, Pos) + 1
          /\ Pos + 1 \notin Starts => Rank(Starts, Pos + 1) = Rank(Starts, Pos)
      BY <1>4, <1>9, RankNext
    <3>2. QED
      BY <1>3, <1>6, <3>1
  <2>2. x \in Starts => Nth(Starts, Rank(Starts, x)) = x
    BY <1>9, NthIs
  <2>3. QED
    BY <2>1, <2>2
<1>12. N' = Rank(Starts, x)
  <2>1. CASE x \in Starts
    <3>1. tables' = Append(tables, EmptyTable)
      BY <1>2, <1>8, <2>1
    <3>2. N' = N + 1
      <4>1. EmptyTable \in TableRecs
        BY DEF EmptyTable, TableRecs, ColCounts, ValNames
      <4> HIDE DEF EmptyTable
      <4>2. QED
        BY <1>1, <3>1, <4>1 DEF N
    <3>3. QED
      BY <1>11, <2>1, <3>2
  <2>2. CASE x \notin Starts
    BY <1>2, <1>8, <1>11, <2>2
  <2>3. QED
    BY <2>1, <2>2
<1>13. \A i \in 1 .. N' :
         /\ Nth(Starts, i) \in Starts /\ Nth(Starts, i) <= x /\ Rank(Starts, Nth(Starts, i)) = i
  <2> SUFFICES ASSUME NEW i \in 1 .. N'
               PROVE  /\ Nth(Starts, i) \in Starts /\ Nth(Starts, i) <= x
                      /\ Rank(Starts, Nth(Starts, i)) = i
    OBVIOUS
  <2>1. CASE i \in 1 .. N
    <3>1. Nth(Starts, i) \in Int
      BY <1>6, <1>10, <2>1
    <3>2. QED
      BY <1>3, <1>4, <1>6, <2>1, <3>1
  <2>2. CASE i \notin 1 .. N
    <3>1. x \in Starts /\ i = N + 1
      BY <1>1, <1>11, <1>12, <2>2
    <3>2. x <= x
      BY <1>3, <1>4
    <3>3. QED
      BY <1>11, <3>1, <3>2
  <2>3. QED
    BY <2>1, <2>2
<1>14. in_def' => N' > 0 /\ \A r \in Nth(Starts, N') + 1 .. x : KeyAt(r) # "end"
  <2> SUFFICES ASSUME in_def' PROVE N' > 0 /\ \A r \in Nth(Starts, N') + 1 .. x : KeyAt(r) # "end"
    OBVIOUS
  <2>1. CASE x \in Starts
    <3>1. N' = N + 1 /\ Nth(Starts, N') = x /\ x + 1 .. x = {}
      BY <1>3, <1>4, <1>11, <1>12, <2>1
    <3>2. QED
      BY <1>1, <3>1
  <2>2. CASE x \notin Starts
    <3>1. in_def /\ N' = N /\ KeyAt(x) # "end"
      BY <1>2, <1>4, <1>8, <1>11, <1>12, <2>2
    <3>2. N \in 1 .. N
      BY <1>1, <1>6, <3>1
    <3>3. \A r \in Nth(Starts, N) + 1 .. x : r \in Nth(Starts, N) + 1 .. Pos \/ r = x
      <4>1. Nth(Starts, N) \in Int
        BY <1>6, <1>10, <3>2
      <4>2. QED
        BY <1>3, <1>4, <4>1
    <3>4. QED
      BY <1>6, <3>1, <3>3
  <2>3. QED
    BY <2>1, <2>2
<1> HIDE DEF key
<1>15. N' = Rank(Starts, Pos)' /\ (in_def' <=> Open(Pos)')
  BY <1>5, <1>7, <1>12
<1>16. phase' # "main" /\ given'.tables = given.tables
  BY <1>1
<1>17. QED
  BY <1>1, <1>4, <1>5, <1>13, <1>14, <1>15, <1>16 DEF ITemplate, Built

(* A table that gets no header has none among the lines read.              *)
LEMMA HeadsKept ==
    ASSUME IDefs, ITemplate, IHeads, phase' # "undefined",
           TableEntry \/ HeaderEntry \/ ValNameEntry \/ ColsEntry \/ EndEntry \/ BlankEntry
           \/ OtherEntry
    PROVE  IHeads'
<1> DEFINE key == Head(todo).key
<1>1. /\ phase = "tables" /\ phase' = "tables" /\ todo \in Seq(Entries) /\ todo # <<>>
      /\ todo' = Tail(todo) /\ given' = given /\ tables \in Seq(TableRecs) /\ N \in Nat
  BY EntryEffect DEF IDefs, N
<1>2. /\ key = "table" /\ ~in_def => tables' = Append(tables, EmptyTable)
      /\ key # "table" \/ in_def =>
           /\ N' = N
           /\ \A i \in 1 .. N : tables'[i].header_names = <<>> =>
                tables[i].header_names = <<>> /\ ~(in_def /\ i = N /\ key = "header")
  BY EntryEffect
<1>3. PICK x : x = Pos + 1
  OBVIOUS
<1>4. /\ given.tables \in Seq(Entries) /\ Pos \in Nat /\ x \in DOMAIN given.tables /\ KeyAt(x) = key
      /\ \A i \in 1 .. N : x \in Section(i) => in_def /\ i = N
  BY <1>1, <1>3, NextLine, NextSection
<1>5. Pos' = x /\ \A i : Declared(i, "header")' = Declared(i, "header")
  BY <1>1, <1>3, PosNext, TemplateFixed
<1>6. \A i \in 1 .. N : tables[i].header_names = <<>> => \A p \in Declared(i, "header") : p > Pos
  BY <1>1 DEF IHeads, Built
<1>7. \A i : \A p \in Declared(i, "header") : p \in Nat
  <2>1. \A i : Declared(i, "header") \subseteq 1 .. Len(given.tables)
    BY <1>4, LineSets
  <2>2. QED
    BY <1>4, <2>1
<1>8. ASSUME NEW i \in 1 .. N', tables'[i].header_names = <<>>, NEW p \in Declared(i, "header")
      PROVE  p > x
  <2>1. CASE key = "table" /\ ~in_def
    <3>1. /\ N' = N + 1 /\ \A j \in 1 .. N : tables'[j] = tables[j]
      <4>1. EmptyTable \in TableRecs
        BY DEF EmptyTable, TableRecs, ColCounts, ValNames
      <4> HIDE DEF EmptyTable
      <4>2. QED
        BY <1>1, <1>2, <2>1, <4>1 DEF N
    <3>2. CASE i \in 1 .. N
      <4>1. p > Pos /\ p # x
        BY <1>4, <1>6, <1>8, <2>1, <3>1, <3>2 DEF Declared
      <4>2. QED
        BY <1>3, <1>4, <1>7, <1>8, <4>1
    <3>3. CASE i = N + 1
      <4>1. Len(given.tables) \in Nat /\ Starts \subseteq 1 .. Len(given.tables)
        BY <1>4, LineSets
      <4>2. x \in Starts
        <5>1. x - 1 = Pos /\ ~Open(Pos)
          BY <1>1, <1>3, <1>4, <2>1 DEF ITemplate, Built
        <5>2. QED
          BY <1>4, <2>1, <5>1 DEF Starts
      <4>3. Rank(Starts, x) = N + 1
        <5>1. N = Rank(Starts, Pos)
          BY <1>1 DEF ITemplate, Built
        <5>2. QED
          BY <1>3, <1>4, <4>1, <4>2, <5>1, RankNext
      <4>4. Nth(Starts, i) = x
        BY <3>3, <4>1, <4>2, <4>3, NthIs
      <4>5. QED
        BY <1>3, <1>4, <1>7, <1>8, <4>4 DEF Declared, Section
    <3>4. QED
      BY <1>1, <3>1, <3>2, <3>3
  <2>2. CASE key # "table" \/ in_def
    <3>1. i \in 1 .. N /\ tables[i].header_names = <<>> /\ ~(in_def /\ i = N /\ key = "header")
      BY <1>2, <1>8, <2>2
    <3>2. p > Pos /\ p # x
      BY <1>4, <1>6, <1>8, <3>1 DEF Declared
    <3>3. QED
      BY <1>3, <1>4, <1>7, <1>8, <3>2
  <2>3. QED
    BY <2>1, <2>2
<1> HIDE DEF key
<1>9. QED
  BY <1>5, <1>8 DEF IHeads

(* The table a line begins has its number, and its lines come after it.    *)
LEMMA NewSection ==
    ASSUME ITemplate, phase = "tables", todo \in Seq(Entries), todo # <<>>, N \in Nat,
           Head(todo).key = "table", ~in_def
    PROVE  \A key : \A p \in Declared(N + 1, key) : p > Pos + 1
<1>1. /\ given.tables \in Seq(Entries) /\ Pos \in Nat /\ Pos + 1 \in DOMAIN given.tables
      /\ KeyAt(Pos + 1) = "table" /\ Len(given.tables) \in Nat
      /\ Starts \subseteq 1 .. Len(given.tables)
  BY NextLine, LineSets
<1>2. Pos + 1 \in Starts
  <2>1. (Pos + 1) - 1 = Pos /\ ~Open(Pos)
    BY <1>1 DEF ITemplate, Built
  <2>2. QED
    BY <1>1, <2>1 DEF Starts
<1>3. Rank(Starts, Pos + 1) = N + 1
  <2>1. N = Rank(Starts, Pos)
    BY DEF ITemplate, Built
  <2>2. QED
    BY <1>1, <1>2, <2>1, RankNext
<1>4. Nth(Starts, N + 1) = Pos + 1
  BY <1>1, <1>2, <1>3, NthIs
<1>5. \A key : \A p \in Declared(N + 1, key) : p \in 1 .. Len(given.tables) /\ Pos + 1 < p
  BY <1>1, <1>4 DEF Declared, Section
<1>6. QED
  BY <1>1, <1>5

(* The names of the first table, line by line.                             *)
LEMMA NamesKept ==
    ASSUME IDefs, ITemplate, INames, phase' # "undefined",
           TableEntry \/ HeaderEntry \/ ValNameEntry \/ ColsEntry \/ EndEntry \/ BlankEntry
           \/ OtherEntry
    PROVE  INames'
<1> DEFINE key == Head(todo).key
           e == Head(todo)
           D == Declared(1, "val_name")
           Least(a) == IF a < MaxVals THEN a ELSE MaxVals
           Good(k, b) == Nth(D, k) \in D /\ Nth(D, k) <= b /\ Rank(D, Nth(D, k)) = k
<1>1. /\ phase = "tables" /\ phase' = "tables" /\ todo \in Seq(Entries) /\ todo # <<>>
      /\ todo' = Tail(todo) /\ given' = given /\ tables \in Seq(TableRecs) /\ N \in Nat
      /\ vals_found \in 0 .. MaxVals
      /\ in_def => N > 0
  BY EntryEffect DEF IDefs, N
<1>2. /\ key = "table" /\ ~in_def => tables' = Append(tables, EmptyTable) /\ UNCHANGED vals_found
      /\ key # "table" \/ in_def =>
           /\ N' = N /\ \A i \in 1 .. N : i # N => tables'[i] = tables[i]
           /\ Took => /\ vals_found' = vals_found + 1
                      /\ tables'[N].val_names =
                           [tables[N].val_names EXCEPT ![vals_found + 1] = Head(todo).name]
           /\ ~Took => /\ UNCHANGED vals_found
                       /\ \A i \in 1 .. N : tables'[i].val_names = tables[i].val_names
  BY EntryEffect
<1>3. PICK x : x = Pos + 1
  OBVIOUS
<1>4. /\ given.tables \in Seq(Entries) /\ Pos \in Nat /\ x \in DOMAIN given.tables
      /\ KeyAt(x) = key /\ given.tables[x] = e
      /\ \A i \in 1 .. N : x \in Section(i) => in_def /\ i = N
      /\ in_def => x \in Section(N)
  BY <1>1, <1>3, NextLine, NextSection
<1>5. /\ Pos' = x /\ Declared(1, "val_name")' = D
      /\ \A k : NameDeclared(1, k)' = NameDeclared(1, k)
  BY <1>1, <1>3, PosNext, TemplateFixed
<1>6. Len(given.tables) \in Nat /\ D \subseteq 1 .. Len(given.tables)
  BY <1>4, LineSets
<1> HIDE DEF key, e, D
<1>7. PICK m : m = Rank(D, Pos)
  OBVIOUS
<1>8. /\ N = 0 => vals_found = 0
      /\ N = 1 => vals_found = Least(m)
      /\ N >= 1 => \A k \in 1 .. m :
           Good(k, Pos) /\ (k <= MaxVals => tables[1].val_names[k] = NameDeclared(1, k))
  BY <1>1, <1>7 DEF INames, Built, D
<1>9. m \in Nat /\ MaxVals \in Nat /\ x \in Nat
  <2>1. Pos \in Int
    BY <1>4
  <2>2. m \in Nat
    BY <1>6, <1>7, <2>1, RankType
  <2>3. QED
    BY <1>3, <1>4, <2>2, Limits
<1>10. /\ x \in D => Rank(D, x) = m + 1 /\ Good(m + 1, x)
       /\ x \notin D => Rank(D, x) = m
  <2>1. /\ Pos + 1 \in D => Rank(D, Pos + 1) = Rank(D, Pos) + 1
        /\ Pos + 1 \notin D => Rank(D, Pos + 1) = Rank(D, Pos)
    BY <1>4, <1>6, RankNext
  <2>2. /\ x \in D => Rank(D, x) = m + 1
        /\ x \notin D => Rank(D, x) = m
    BY <1>3, <1>7, <2>1
  <2>3. x \in D => Nth(D, Rank(D, x)) = x
    BY <1>6, NthIs
  <2>4. x <= x
    BY <1>9
  <2>5. QED
    BY <2>2, <2>3, <2>4
<1>11. N >= 1 => \A k \in 1 .. m : Good(k, x)
  <2>1. \A p \in D : p \in Int
    BY <1>6
  <2>2. \A p \in D : p <= Pos => p <= x
    BY <1>3, <1>4, <2>1
  <2>3. QED
    BY <1>8, <2>2
<1>12. CASE key = "table" /\ ~in_def
  <2>1. N' = N + 1 /\ (\A j \in 1 .. N : tables'[j] = tables[j]) /\ vals_found' = vals_found
    <3>1. EmptyTable \in TableRecs
      BY DEF EmptyTable, TableRecs, ColCounts, ValNames
    <3> HIDE DEF EmptyTable
    <3>2. tables' = Append(tables, EmptyTable) /\ vals_found' = vals_found
      BY <1>2, <1>12
    <3>3. Len(tables') = Len(tables) + 1 /\ \A j \in 1 .. Len(tables) : tables'[j] = tables[j]
      BY <1>1, <3>1, <3>2
    <3>4. QED
      BY <3>2, <3>3 DEF N
  <2>2. CASE N = 0
    <3>1. \A p \in D : p > x
      <4>1. N + 1 = 1
        BY <2>2
      <4>2. \A p \in Declared(N + 1, "val_name") : p > Pos + 1
        BY <1>1, <1>12, NewSection DEF key
      <4>3. QED
        BY <1>3, <4>1, <4>2 DEF D
    <3>2. Rank(D, x) = 0
      <4>1. x \in Int
        BY <1>9
      <4>2. QED
        BY <1>6, <3>1, <4>1, RankEnds
    <3>3. Least(0) = 0 /\ 1 .. 0 = {} /\ N' = 1 /\ vals_found' = 0
      BY <1>8, <1>9, <2>1, <2>2, Limits
    <3>4. QED
      BY <1>5, <3>2, <3>3 DEF INames
  <2>3. CASE N # 0
    <3>1. x \notin D
      BY <1>4, <1>12 DEF D, Declared
    <3>2. N' # 0 /\ N' # 1 /\ N >= 1 /\ 1 \in 1 .. N
      BY <1>1, <2>1, <2>3
    <3>3. tables'[1] = tables[1]
      BY <2>1, <3>2
    <3>4. QED
      BY <1>5, <1>8, <1>10, <1>11, <3>1, <3>2, <3>3 DEF INames
  <2>4. QED
    BY <2>2, <2>3
<1>13. CASE ~(key = "table" /\ ~in_def)
  <2>1. N' = N
    BY <1>2, <1>13
  <2>2. x \in D <=> key = "val_name" /\ x \in Section(1)
    BY <1>4 DEF D, Declared
  <2>3. CASE N = 0
    <3>1. ~Took
      BY <1>1, <2>3 DEF Took
    <3>2. vals_found' = 0
      BY <1>2, <1>8, <1>13, <2>3, <3>1
    <3>3. QED
      BY <2>1, <2>3, <3>2 DEF INames
  <2>4. CASE N # 0 /\ N # 1
    <3>1. 1 \in 1 .. N /\ N >= 1 /\ 1 # N
      BY <1>1, <2>4
    <3>2. x \notin D /\ tables'[1] = tables[1]
      BY <1>2, <1>4, <1>13, <2>2, <3>1
    <3>3. QED
      BY <1>5, <1>8, <1>10, <1>11, <2>1, <2>4, <3>1, <3>2 DEF INames
  <2>5. CASE N = 1 /\ x \in D
    <3>1. key = "val_name" /\ in_def /\ 1 \in 1 .. N /\ N >= 1
      BY <1>4, <2>2, <2>5
    <3>2. Rank(D, x) = m + 1 /\ Good(m + 1, x) /\ vals_found = Least(m) /\ Nth(D, m + 1) = x
      <4>1. Nth(D, Rank(D, x)) = x
        BY <1>6, <2>5, NthIs
      <4>2. QED
        BY <1>8, <1>10, <2>5, <4>1
    <3>3. \A k \in 1 .. m + 1 : k \in 1 .. m \/ k = m + 1
      BY <1>9
    <3>4. \A k \in 1 .. m + 1 : Good(k, x)
      BY <1>11, <3>1, <3>2, <3>3
    <3>5. CASE Took
      <4>1. vals_found = m /\ m < MaxVals
        BY <1>9, <3>2, <3>5 DEF Took
      <4>2. /\ vals_found' = m + 1
            /\ tables'[1].val_names = [tables[1].val_names EXCEPT ![m + 1] = e.name]
        BY <1>2, <1>13, <2>5, <3>5, <4>1 DEF e
      <4>3. Least(m + 1) = m + 1
        BY <1>9, <4>1
      <4>4. DOMAIN tables[1].val_names = 1 .. MaxVals
        BY <1>1, <3>1, TableFields
      <4>5. e.name = NameDeclared(1, m + 1)
        BY <1>4, <3>2 DEF NameDeclared, D
      <4>6. /\ m + 1 \in 1 .. MaxVals
            /\ \A k \in 1 .. m : k # m + 1 /\ k \in 1 .. MaxVals /\ k <= MaxVals
        BY <1>9, <4>1
      <4>7. \A k \in 1 .. m + 1 : tables'[1].val_names[k] = NameDeclared(1, k)
        <5>1. tables'[1].val_names[m + 1] = e.name
          BY <4>2, <4>4, <4>6
        <5>2. \A k \in 1 .. m : tables'[1].val_names[k] = tables[1].val_names[k]
          BY <4>2, <4>4, <4>6
        <5>3. QED
          BY <1>8, <3>1, <3>3, <4>5, <4>6, <5>1, <5>2
      <4>8. QED
        BY <1>5, <2>1, <2>5, <3>2, <3>4, <4>2, <4>3, <4>7 DEF INames
    <3>6. CASE ~Took
      <4>1. vals_found >= MaxVals /\ e.key = "val_name"
        BY <1>1, <1>9, <3>1, <3>6 DEF Took, key, e
      <4>2. vals_found = MaxVals /\ ~(m < MaxVals)
        BY <1>1, <1>9, <3>2, <4>1
      <4>3. Least(m + 1) = MaxVals /\ ~(m + 1 <= MaxVals)
        BY <1>9, <4>2
      <4>4. vals_found' = MaxVals /\ tables'[1].val_names = tables[1].val_names
        BY <1>2, <1>13, <3>1, <3>6, <4>2
      <4>5. \A k \in 1 .. m + 1 : k <= MaxVals => tables'[1].val_names[k] = NameDeclared(1, k)
        BY <1>8, <3>1, <3>3, <4>3, <4>4
      <4>6. QED
        BY <1>5, <2>1, <2>5, <3>2, <3>4, <4>3, <4>4, <4>5 DEF INames
    <3>7. QED
      BY <3>5, <3>6
  <2>6. CASE N = 1 /\ x \notin D
    <3>1. ~Took /\ 1 \in 1 .. N /\ N >= 1
      BY <1>4, <2>2, <2>6 DEF Took, key
    <3>2. vals_found' = vals_found /\ tables'[1].val_names = tables[1].val_names
      BY <1>2, <1>13, <3>1
    <3>3. Rank(D, x) = m
      BY <1>10, <2>6
    <3>4. QED
      BY <1>5, <1>8, <1>11, <2>1, <2>6, <3>1, <3>2, <3>3 DEF INames
  <2>7. QED
    BY <2>3, <2>4, <2>5, <2>6
<1>14. QED
  BY <1>12, <1>13

-----------------------------------------------------------------------------
(* Once the table template is read, what was made of it stays.             *)
LEMMA TemplateStays ==
    ASSUME ITemplate, IHeads, INames, phase \in Built, phase' \in Built,
           UNCHANGED <<given, in_def, vals_found>>, Pos' = Pos, N' = N,
           phase' = "tables" => phase = "tables" /\ todo' = todo,
           \A i \in 1 .. N : /\ tables'[i].header_names = tables[i].header_names
                             /\ tables'[i].val_names = tables[i].val_names
    PROVE  ITemplate' /\ IHeads' /\ INames'
<1>1. /\ Starts' = Starts /\ (\A n : Open(n)' <=> Open(n)) /\ (\A p : KeyAt(p)' = KeyAt(p))
      /\ \A i, key : Declared(i, key)' = Declared(i, key)
      /\ \A i, k : NameDeclared(i, k)' = NameDeclared(i, k)
  BY TemplateFixed
<1>2. Open(Pos)' <=> Open(Pos)
  BY <1>1 DEF Open
<1>3. ITemplate'
  <2>1. phase' = "tables" =>
          /\ Len(todo') <= Len(given'.tables)
          /\ \A j \in 1 .. Len(todo') : todo'[j] = given'.tables[Pos' + j]
    BY DEF ITemplate
  <2>2. phase' # "main"
    BY DEF Built
  <2>3. QED
    BY <1>1, <1>2, <2>1, <2>2 DEF ITemplate
<1>4. IHeads'
  BY <1>1 DEF IHeads
<1>5. INames'
  <2>1. 1 <= N => 1 \in 1 .. N
    BY DEF N
  <2>2. N >= 1 => tables'[1].val_names = tables[1].val_names
    BY DEF N
  <2>3. QED
    BY <1>1, <2>2 DEF INames
<1>6. QED
  BY <1>3, <1>4, <1>5

(* main() opens the table template: nothing of it is read.                 *)
LEMMA TemplateBegins ==
    ASSUME IDefs, TemplateInv, Main
    PROVE  TemplateInv'
<1>1. /\ phase = "main" /\ phase' \in {"done", "tables", "finalize"}
      /\ UNCHANGED <<given, in_def, vals_found, key_regexes, tables>>
      /\ phase' = "tables" => todo' = given.tables /\ given.tables # NoFile
  BY DEF Main, defVars
<1>2. tables = <<>> /\ ~in_def /\ vals_found = 0 /\ key_regexes = <<>> /\ N = 0 /\ N' = 0
  BY <1>1 DEF TemplateInv, ITemplate, IKeys, N
<1>3. CASE phase' # "tables"
  BY <1>1, <1>3 DEF TemplateInv, ITemplate, IHeads, INames, IKeys, Built
<1>4. CASE phase' = "tables"
  <2>1. given.tables \in Seq(Entries) /\ todo' = given.tables
    BY <1>1, <1>4, ParserAssumption DEF IDefs
  <2>2. Pos' = 0 /\ Len(given.tables) \in Nat
    BY <1>1, <1>4, <2>1 DEF Pos
  <2>3. \A j \in 1 .. Len(todo') : todo'[j] = given.tables[0 + j]
    BY <2>1, <2>2
  <2>4. Starts' = Starts /\ \A p : KeyAt(p)' = KeyAt(p)
    BY <1>1, TemplateFixed
  <2>5. Rank(Starts, 0) = 0
    <3>1. Starts \subseteq 1 .. Len(given.tables)
      BY <2>1, LineSets
    <3>2. 0 \in Int /\ \A q \in Starts : q > 0
      BY <2>2, <3>1
    <3>3. QED
      BY <2>2, <3>1, <3>2, RankEnds
  <2>6. ~Open(Pos)'
    BY <2>2 DEF Open
  <2>7. ITemplate'
    <3>1. 1 .. N' = {} /\ phase' # "main" /\ ~in_def'
      BY <1>1, <1>2, <1>4
    <3>2. N' = Rank(Starts, Pos)'
      BY <1>2, <2>2, <2>4, <2>5
    <3>3. Len(todo') <= Len(given'.tables) /\ given'.tables = given.tables
      BY <1>1, <2>1, <2>2
    <3>4. QED
      BY <2>1, <2>2, <2>3, <2>6, <3>1, <3>2, <3>3 DEF ITemplate
  <2>8. IHeads' /\ INames'
    <3>1. 1 .. N' = {} /\ N' # 1 /\ ~(N' >= 1) /\ vals_found' = 0
      BY <1>1, <1>2
    <3>2. QED
      BY <3>1 DEF IHeads, INames
  <2>9. IKeys'
    BY <1>1, <1>2, <1>4 DEF IKeys
  <2>10. QED
    BY <2>7, <2>8, <2>9 DEF TemplateInv
<1>5. QED
  BY <1>3, <1>4

(* A line of the table template.                                           *)
LEMMA TemplateLine ==
    ASSUME IDefs, TemplateInv,
           TableEntry \/ HeaderEntry \/ ValNameEntry \/ ColsEntry \/ EndEntry \/ BlankEntry
           \/ OtherEntry
    PROVE  TemplateInv'
<1>1. CASE phase' = "undefined"
  BY <1>1 DEF TemplateInv, ITemplate, IHeads, INames, IKeys, Built
<1>2. CASE phase' # "undefined"
  <2>1. ITemplate' /\ IHeads' /\ INames'
    BY <1>2, TemplateKept, HeadsKept, NamesKept DEF TemplateInv
  <2>2. phase = "tables" /\ phase' = "tables" /\ UNCHANGED key_regexes
    BY <1>2, EntryEffect
  <2>3. IKeys'
    BY <2>2 DEF TemplateInv, IKeys
  <2>4. QED
    BY <2>1, <2>3 DEF TemplateInv
<1>3. QED
  BY <1>1, <1>2

(* The lines of the key template that compile are lines of it.             *)
LEMMA KeySets ==
    ASSUME given.keys \in Seq(KeyLines)
    PROVE  Len(given.keys) \in Nat /\ DOMAIN given.keys = 1 .. Len(given.keys)
           /\ Compiling \subseteq 1 .. Len(given.keys)
<1>1. Len(given.keys) \in Nat /\ DOMAIN given.keys = 1 .. Len(given.keys)
  OBVIOUS
<1>2. QED
  BY <1>1, Zenon DEF Compiling

(* parseTableTemplate() returns and the key template is opened.            *)
LEMMA KeysBegin ==
    ASSUME IDefs, IDefs', TemplateInv, OpenKeys
    PROVE  TemplateInv'
<1>1. /\ phase = "tables" /\ todo = <<>> /\ phase' \in {"keys", "finalize"}
      /\ UNCHANGED <<given, in_def, vals_found, key_regexes, tables>>
      /\ phase' = "keys" => todo' = given.keys
  BY DEF OpenKeys, defVars
<1>2. CASE phase' = "finalize"
  BY <1>2 DEF TemplateInv, ITemplate, IHeads, INames, IKeys, Built
<1>3. CASE phase' = "keys"
  <2>1. Pos' = Pos
    <3>1. Len(given.tables) \in Nat
      BY <1>1 DEF TemplateInv, ITemplate, Built
    <3>2. QED
      BY <1>1, <1>3, <3>1 DEF Pos
  <2>2. ITemplate' /\ IHeads' /\ INames'
    BY <1>1, <1>3, <2>1, TemplateStays DEF TemplateInv, Built, N
  <2>3. todo' = given.keys /\ given.keys \in Seq(KeyLines) /\ key_regexes' = <<>>
    BY <1>1, <1>3 DEF IDefs, TemplateInv, IKeys
  <2>4. KeyPos' = 0 /\ Len(given.keys) \in Nat /\ Compiling' = Compiling
    BY <1>1, <2>3 DEF KeyPos, Compiling
  <2>5. Rank(Compiling, 0) = 0
    <3>1. Compiling \subseteq 1 .. Len(given.keys)
      BY <2>3, KeySets
    <3>2. 0 \in Int /\ \A q \in Compiling : q > 0
      BY <2>4, <3>1
    <3>3. QED
      BY <2>4, <3>1, <3>2, RankEnds
  <2>6. \A j \in 1 .. Len(todo') : todo'[j] = given.keys[0 + j]
    BY <2>3, <2>4
  <2>7. IKeys'
    <3>1. Len(key_regexes') = 0 /\ Len(todo') <= Len(given'.keys) /\ given'.keys = given.keys
      BY <1>1, <2>3, <2>4
    <3>2. Rank(Compiling, KeyPos)' = 0
      BY <2>4, <2>5
    <3>3. QED
      BY <1>3, <2>3, <2>4, <2>6, <3>1, <3>2 DEF IKeys
  <2>8. QED
    BY <2>2, <2>7 DEF TemplateInv
<1>4. QED
  BY <1>1, <1>2, <1>3

(* Where the key template is read.                                         *)
LEMMA NextKey ==
    ASSUME IKeys, phase = "keys", todo \in Seq(KeyLines), todo # <<>>
    PROVE  /\ given.keys \in Seq(KeyLines) /\ KeyPos \in Nat /\ KeyPos + 1 \in DOMAIN given.keys
           /\ given.keys[KeyPos + 1] = Head(todo)
           /\ Len(Tail(todo)) <= Len(given.keys)
           /\ Len(given.keys) - Len(Tail(todo)) = KeyPos + 1
           /\ \A j \in 1 .. Len(Tail(todo)) : Tail(todo)[j] = given.keys[(KeyPos + 1) + j]
           /\ Compiling \subseteq 1 .. Len(given.keys) /\ Len(given.keys) \in Nat
           /\ KeyPos + 1 \in Compiling <=> Head(todo) \in Regexes
<1>1. /\ given.keys \in Seq(KeyLines) /\ Len(todo) <= Len(given.keys)
      /\ \A j \in 1 .. Len(todo) : todo[j] = given.keys[KeyPos + j]
      /\ KeyPos = Len(given.keys) - Len(todo)
  BY DEF IKeys, KeyPos
<1>2. /\ Len(todo) \in Nat /\ Len(todo) > 0 /\ Len(given.keys) \in Nat
      /\ Head(todo) = todo[1] /\ Len(Tail(todo)) = Len(todo) - 1
      /\ \A j \in 1 .. Len(todo) - 1 : Tail(todo)[j] = todo[j + 1]
      /\ DOMAIN given.keys = 1 .. Len(given.keys) /\ Compiling \subseteq 1 .. Len(given.keys)
  BY <1>1, KeySets
<1> DEFINE t == given.keys
           u == Tail(todo)
<1> HIDE DEF t, u
<1>3. /\ KeyPos \in Nat /\ KeyPos + 1 \in 1 .. Len(t) /\ t[KeyPos + 1] = Head(todo)
  BY <1>1, <1>2 DEF t
<1>4. \A j \in 1 .. Len(u) : u[j] = t[(KeyPos + 1) + j]
  <2> SUFFICES ASSUME NEW j \in 1 .. Len(u) PROVE u[j] = t[(KeyPos + 1) + j]
    OBVIOUS
  <2>1. j \in 1 .. Len(todo) - 1 /\ j + 1 \in 1 .. Len(todo) /\ KeyPos + (j + 1) = (KeyPos + 1) + j
    BY <1>2, <1>3 DEF u
  <2>2. u[j] = todo[j + 1] /\ todo[j + 1] = t[KeyPos + (j + 1)]
    BY <1>1, <1>2, <2>1 DEF t, u
  <2>3. QED
    BY <2>1, <2>2
<1>5. Len(u) <= Len(t) /\ Len(t) - Len(u) = KeyPos + 1
  BY <1>1, <1>2 DEF t, u
<1>6. KeyPos + 1 \in Compiling <=> Head(todo) \in Regexes
  BY <1>2, <1>3 DEF t, Compiling
<1>7. QED
  BY <1>1, <1>2, <1>3, <1>4, <1>5, <1>6 DEF t, u

(* A line of the key template.                                             *)
LEMMA KeyLine ==
    ASSUME IDefs, TemplateInv, KeyEntry
    PROVE  TemplateInv'
<1>1. /\ phase = "keys" /\ todo # <<>> /\ todo \in Seq(KeyLines) /\ todo' = Tail(todo)
      /\ UNCHANGED <<given, in_def, vals_found, tables>> /\ phase' \in {"keys", "undefined"}
      /\ key_regexes \in Seq(Regexes) /\ given' = given
  BY DEF KeyEntry, IDefs, Undefined
<1>2. CASE phase' = "undefined"
  BY <1>2 DEF TemplateInv, ITemplate, IHeads, INames, IKeys, Built
<1>3. CASE phase' = "keys"
  <2>1. ITemplate' /\ IHeads' /\ INames'
    <3>1. Pos' = Pos
      BY <1>1, <1>3 DEF Pos
    <3>2. QED
      BY <1>1, <1>3, <3>1, TemplateStays DEF TemplateInv, Built, N
  <2>2. PICK x : x = KeyPos + 1
    OBVIOUS
  <2>3. /\ given.keys \in Seq(KeyLines) /\ KeyPos \in Nat
        /\ Len(todo') <= Len(given.keys) /\ Len(given.keys) - Len(todo') = x
        /\ \A j \in 1 .. Len(todo') : todo'[j] = given.keys[x + j]
        /\ Compiling \subseteq 1 .. Len(given.keys) /\ Len(given.keys) \in Nat
        /\ x \in Compiling <=> Head(todo) \in Regexes
    BY <1>1, <2>2, NextKey DEF TemplateInv
  <2>4. /\ x \in Compiling => Rank(Compiling, x) = Rank(Compiling, KeyPos) + 1
        /\ x \notin Compiling => Rank(Compiling, x) = Rank(Compiling, KeyPos)
    BY <2>2, <2>3, RankNext
  <2>5. Len(key_regexes) = Rank(Compiling, KeyPos)
    BY <1>1 DEF TemplateInv, IKeys
  <2>6. Len(key_regexes') = Rank(Compiling, x)
    <3>1. CASE Head(todo) \in Regexes
      <4> DEFINE r == Head(todo)
      <4>1. r \in Regexes /\ key_regexes' = Append(key_regexes, r)
        BY <1>1, <1>3, <3>1 DEF KeyEntry, Undefined
      <4> HIDE DEF r
      <4>2. Len(key_regexes') = Len(key_regexes) + 1
        BY <1>1, <4>1
      <4>3. QED
        BY <2>3, <2>4, <2>5, <3>1, <4>2
    <3>2. CASE Head(todo) \notin Regexes
      <4>1. key_regexes' = key_regexes
        BY <3>2 DEF KeyEntry
      <4>2. QED
        BY <2>3, <2>4, <2>5, <3>2, <4>1
    <3>3. QED
      BY <3>1, <3>2
  <2>7. KeyPos' = x /\ Compiling' = Compiling
    BY <1>1, <2>3 DEF KeyPos, Compiling
  <2>8. IKeys'
    <3>1. Rank(Compiling, KeyPos)' = Rank(Compiling, x) /\ given'.keys = given.keys
      BY <1>1, <2>7
    <3>2. QED
      BY <1>3, <2>3, <2>6, <2>7, <3>1 DEF IKeys
  <2>9. QED
    BY <2>1, <2>8 DEF TemplateInv
<1>4. QED
  BY <1>1, <1>2, <1>3

(* A line of the results file leaves the definitions of the tables alone.  *)
LEMMA ResultsTemplate ==
    ASSUME ParserInv, TemplateInv, NEW l \in ResultLines,
           \/ HeaderLine(l) \/ BetweenHeaders(l) \/ PlainLine(l) \/ EndOfTable(l)
           \/ TableRow(l) \/ HeaderOverrun(l) \/ LineLenFault(l)
    PROVE  TemplateInv'
<1>1. /\ phase = "results" /\ UNCHANGED <<given, todo, in_def, vals_found>>
      /\ phase' \in {"results", "undefined", "faulted"} /\ tables \in Seq(TableRecs)
  BY DEF HeaderLine, BetweenHeaders, PlainLine, EndOfTable, TableRow, HeaderOverrun,
         LineLenFault, ReadLine, fileVars, defVars, Undefined, ParserInv, IDefs, Outcomes
<1>2. CASE phase' # "results"
  BY <1>1, <1>2 DEF TemplateInv, ITemplate, IHeads, INames, IKeys, Built
<1>3. CASE phase' = "results"
  <2>1. /\ N' = N
        /\ \A i \in 1 .. N : /\ tables'[i].header_names = tables[i].header_names
                             /\ tables'[i].val_names = tables[i].val_names
    <3>1. CASE UNCHANGED tables
      BY <3>1 DEF N
    <3>2. CASE EndOfTable(l)
      <4>1. table \in 1 .. N /\ 0 \in Nat
        BY <3>2, InTableFacts DEF EndOfTable, ParserInv
      <4>2. tables' = [tables EXCEPT ![table].headers_found = 0]
        BY <3>2 DEF EndOfTable
      <4>3. QED
        BY <1>1, <4>1, <4>2, FoundAssigned
    <3>3. CASE HeaderLine(l)
      <4>1. PICK i \in Found(l) :
              tables' = [tables EXCEPT ![i].headers_found = tables[i].headers_found + 1]
        BY <3>3 DEF HeaderLine
      <4>2. i \in 1 .. N
        BY DEF Found, Compared
      <4>3. tables[i].headers_found + 1 \in Nat
        BY <1>1, <4>2, TableFields
      <4>4. QED
        BY <1>1, <4>1, <4>2, <4>3, FoundAssigned
    <3>4. QED
      BY <3>1, <3>2, <3>3 DEF BetweenHeaders, PlainLine, TableRow, HeaderOverrun, LineLenFault
  <2>2. Pos' = Pos
    BY <1>1, <1>3 DEF Pos
  <2>3. ITemplate' /\ IHeads' /\ INames'
    BY <1>1, <1>3, <2>1, <2>2, TemplateStays DEF TemplateInv, Built
  <2>4. IKeys'
    BY <1>3 DEF IKeys
  <2>5. QED
    BY <2>3, <2>4 DEF TemplateInv
<1>4. QED
  BY <1>2, <1>3

(* At every moment the tables, their names and the expressions are what    *)
(* the lines of the templates read so far say (stdout_parser.c:148-291).   *)
THEOREM TemplateInvariance == Spec => []TemplateInv
<1>1. Init => TemplateInv
  BY DEF Init, TemplateInv, ITemplate, IHeads, INames, IKeys, Built
<1>2. ParserInv /\ ParserInv' /\ TemplateInv /\ [Next]_vars => TemplateInv'
  <2> SUFFICES ASSUME ParserInv, ParserInv', TemplateInv, [Next]_vars PROVE TemplateInv'
    OBVIOUS
  <2>1. IDefs /\ IDefs'
    BY DEF ParserInv
  <2>2. CASE UNCHANGED vars
    <3>1. /\ UNCHANGED <<given, todo, phase, in_def, vals_found, key_regexes, tables>>
          /\ N' = N /\ Pos' = Pos
      BY <2>2 DEF vars, fileVars, defVars, N, Pos
    <3>2. IKeys'
      BY <3>1 DEF TemplateInv, IKeys, Compiling, KeyPos
    <3>3. CASE phase \in Built
      <4>1. ITemplate' /\ IHeads' /\ INames'
        BY <3>1, <3>3, TemplateStays DEF TemplateInv
      <4>2. QED
        BY <3>2, <4>1 DEF TemplateInv
    <3>4. CASE phase \notin Built
      <4>1. ITemplate' /\ IHeads' /\ INames'
        BY <3>1, <3>4 DEF TemplateInv, ITemplate, IHeads, INames
      <4>2. QED
        BY <3>2, <4>1 DEF TemplateInv
    <3>5. QED
      BY <3>3, <3>4
  <2>3. CASE Finalize \/ EndOfResults
    <3>1. phase' \in {"done", "finalize"}
      BY <2>3 DEF Finalize, EndOfResults
    <3>2. QED
      BY <3>1 DEF TemplateInv, ITemplate, IHeads, INames, IKeys, Built
  <2>4. CASE EndOfKeys
    <3>1. /\ phase = "keys" /\ phase' = "results" /\ UNCHANGED <<given, in_def, vals_found, tables>>
          /\ N' = N /\ Pos' = Pos
      BY <2>4 DEF EndOfKeys, fileVars, defVars, N, Pos
    <3>2. ITemplate' /\ IHeads' /\ INames'
      BY <3>1, TemplateStays DEF TemplateInv, Built
    <3>3. IKeys'
      BY <3>1 DEF IKeys
    <3>4. QED
      BY <3>2, <3>3 DEF TemplateInv
  <2>5. CASE Next
    BY <2>1, <2>3, <2>4, <2>5, TemplateBegins, TemplateLine, KeysBegin, KeyLine, ResultsTemplate
       DEF Next
  <2>6. QED
    BY <2>2, <2>5
<1>3. QED
  BY <1>1, <1>2, ParserInvariance, PTL DEF Spec

-----------------------------------------------------------------------------
(* TableRow's columns after the copy, and the values found in the first c. *)
RowCopies(l, newline) ==
    [i \in 1 .. MaxCols |->
        IF i <= Len(l.row)
          THEN Copied(l.row[i], Len(input) + 1, newline /\ i = Len(l.row))
          ELSE columns[i]]
FoundIn(copied, c) == [i \in 1 .. c |-> IF Split(copied[i]) THEN copied[i].vals ELSE <<>>]
RowInside(l, copied, c) ==
    Len(l.row) <= MaxCols /\ c <= MaxCols /\ \A i \in 1 .. c : copied[i] # NoColumn

(* The two ways through a row, within the arrays and beyond them.          *)
LEMMA RowCases ==
    ASSUME NEW l, TableRow(l)
    PROVE  \E newline \in BOOLEAN :
             LET t == tables[table]
                 copied == RowCopies(l, newline)
                 vals == FlattenSeq(FoundIn(copied, t.cols))
             IN  \/ /\ RowInside(l, copied, t.cols) /\ Len(vals) <= MaxVals
                    /\ sent' = RowSends(vals, t.val_names)
                    /\ phase' = phase \/ (phase' = "undefined" /\ Spoilt(sent'))
                 \/ /\ phase' = "undefined"
                    /\ RowInside(l, copied, t.cols) => Len(vals) > MaxVals
BY OutcomesAre DEF TableRow, RowCopies, FoundIn, RowInside, Undefined

(* A copied column has the values of the column, in their order; a blank   *)
(* at the end keeps the last one whole.                                    *)
LEMMA CopiedIs ==
    ASSUME NEW c \in Columns(Texts), NEW n \in Nat, NEW newline \in BOOLEAN
    PROVE  LET d == Copied(c, n, newline) IN
           /\ d \in Columns(Copies) /\ d.lead = c.lead /\ d.vals \in Seq(Copies)
           /\ c.vals \in Seq(Texts) /\ Len(d.vals) = Len(c.vals)
           /\ c.tail = "blank" => \A k \in 1 .. Len(c.vals) :
                d.vals[k] = [from |-> n, text |-> c.vals[k], whole |-> TRUE]
<1> DEFINE v == [k \in DOMAIN c.vals |->
                   [from |-> n, text |-> c.vals[k],
                    whole |-> newline \/ c.tail = "blank" \/ k < Len(c.vals)]]
           d == [lead |-> c.lead, vals |-> v, tail |-> IF newline THEN c.tail ELSE "value"]
<1>1. c.lead \in BOOLEAN /\ c.vals \in Seq(Texts) /\ c.tail \in {"blank", "value"}
  BY DEF Columns
<1>2. /\ Len(c.vals) \in Nat /\ DOMAIN c.vals = 1 .. Len(c.vals)
      /\ \A k \in 1 .. Len(c.vals) : c.vals[k] \in Texts
  BY <1>1
<1>3. \A k \in 1 .. Len(c.vals) : v[k] \in Copies
  <2> SUFFICES ASSUME NEW k \in 1 .. Len(c.vals) PROVE v[k] \in Copies
    OBVIOUS
  <2> DEFINE w == newline \/ c.tail = "blank" \/ k < Len(c.vals)
  <2>1. w \in BOOLEAN
    BY Zenon
  <2>2. v[k] = [from |-> n, text |-> c.vals[k], whole |-> w]
    BY <1>2
  <2> HIDE DEF w
  <2>3. QED
    BY <1>2, <2>1, <2>2 DEF Copies
<1>4. v \in Seq(Copies) /\ Len(v) = Len(c.vals)
  <2>1. v = [k \in 1 .. Len(c.vals) |-> v[k]]
    BY <1>2
  <2> HIDE DEF v
  <2>2. QED
    BY <1>2, <1>3, <2>1
<1>5. c.tail = "blank" => \A k \in 1 .. Len(c.vals) :
        v[k] = [from |-> n, text |-> c.vals[k], whole |-> TRUE]
  <2> SUFFICES ASSUME c.tail = "blank", NEW k \in 1 .. Len(c.vals)
               PROVE  v[k] = [from |-> n, text |-> c.vals[k], whole |-> TRUE]
    OBVIOUS
  <2> DEFINE w == newline \/ c.tail = "blank" \/ k < Len(c.vals)
  <2>1. w = TRUE
    BY Zenon
  <2>2. v[k] = [from |-> n, text |-> c.vals[k], whole |-> w]
    BY <1>2
  <2> HIDE DEF w
  <2>3. QED
    BY <2>1, <2>2
<1>6. Copied(c, n, newline) = d
  BY DEF Copied
<1> HIDE DEF v
<1>7. d \in Columns(Copies) /\ d.lead = c.lead /\ d.vals = v
  BY <1>1, <1>4 DEF Columns
<1> HIDE DEF d
<1>8. QED
  BY <1>1, <1>4, <1>5, <1>6, <1>7

(* A count of columns below zero is none.                                  *)
LEMMA ColumnCount ==
    ASSUME IDefs, NEW i \in 1 .. N
    PROVE  /\ tables[i].cols \in Int
           /\ \E c \in Nat : 1 .. tables[i].cols = 1 .. c /\ (c > 0 => c = tables[i].cols)
<1>1. tables[i].cols \in Int
  <2>1. tables[i].cols \in ColCounts
    BY TableFields DEF IDefs
  <2>2. ColCounts \subseteq Int
    BY ParserAssumption DEF ColCounts, OfKey
  <2>3. QED
    BY <2>1, <2>2
<1> DEFINE k == tables[i].cols
<1> HIDE DEF k
<1>2. k \in Int
  BY <1>1 DEF k
<1>3. \E c \in Nat : 1 .. k = 1 .. c /\ (c > 0 => c = k)
  <2>1. CASE k >= 0
    BY <1>2, <2>1
  <2>2. CASE k < 0
    <3>1. 1 .. k = {} /\ 1 .. 0 = {}
      BY <1>2, <2>2
    <3>2. 0 \in Nat /\ ~(0 > 0)
      OBVIOUS
    <3>3. QED
      BY <3>1, <3>2, Zenon
  <2>3. QED
    BY <1>2, <2>1, <2>2
<1>4. QED
  BY <1>1, <1>3 DEF k

(* The columns of a row that has those of its table are all written, and   *)
(* what is found in them is a sequence of copies.                          *)
LEMMA RowColumns ==
    ASSUME input \in Seq(ResultLines), NEW l \in ResultLines, NEW newline \in BOOLEAN,
           NEW k \in Int, NEW c \in Nat, 1 .. k = 1 .. c, c > 0 => c = k,
           k <= Len(l.row), Len(l.row) <= MaxCols
    PROVE  LET copied == RowCopies(l, newline) IN
           /\ l.row \in Seq(Columns(Texts)) /\ RowInside(l, copied, k)
           /\ \A i \in 1 .. c :
                /\ i \in 1 .. Len(l.row) /\ i \in 1 .. MaxCols /\ l.row[i] \in Columns(Texts)
                /\ copied[i] = Copied(l.row[i], Len(input) + 1, newline /\ i = Len(l.row))
                /\ copied[i] \in Columns(Copies)
           /\ FoundIn(copied, k) \in Seq(Seq(Copies)) /\ Len(FoundIn(copied, k)) = c
           /\ \A i \in 1 .. c :
                FoundIn(copied, k)[i] = IF Split(copied[i]) THEN copied[i].vals ELSE <<>>
<1> DEFINE copied == RowCopies(l, newline)
<1>1. l.row \in Seq(Columns(Texts)) /\ NoColumn \notin Columns(Copies)
  BY ParserAssumption
<1>2. Len(l.row) \in Nat /\ Len(input) + 1 \in Nat /\ MaxCols \in Nat
  BY <1>1, Limits
<1>3. \A i \in 1 .. c : i \in 1 .. Len(l.row) /\ i \in 1 .. MaxCols /\ i <= Len(l.row)
  <2>1. \A i \in 1 .. c : c > 0
    OBVIOUS
  <2>2. QED
    BY <1>2, <2>1
<1>4. \A i \in 1 .. c :
        /\ l.row[i] \in Columns(Texts)
        /\ copied[i] = Copied(l.row[i], Len(input) + 1, newline /\ i = Len(l.row))
  BY <1>1, <1>3 DEF RowCopies
<1> HIDE DEF copied
<1>5. \A i \in 1 .. c : copied[i] \in Columns(Copies)
  <2> SUFFICES ASSUME NEW i \in 1 .. c PROVE copied[i] \in Columns(Copies)
    OBVIOUS
  <2> DEFINE b == newline /\ i = Len(l.row)
             n == Len(input) + 1
  <2>1. /\ b \in BOOLEAN /\ n \in Nat
        /\ copied[i] = Copied(l.row[i], n, b) /\ l.row[i] \in Columns(Texts)
    BY <1>2, <1>4, Zenon
  <2> HIDE DEF b, n
  <2>2. Copied(l.row[i], n, b) \in Columns(Copies)
    BY <2>1, CopiedIs
  <2>3. QED
    BY <2>1, <2>2
<1>6. RowInside(l, copied, k)
  <2>1. k <= MaxCols
    BY <1>2
  <2>2. \A i \in 1 .. k : copied[i] # NoColumn
    BY <1>1, <1>5
  <2>3. QED
    BY <2>1, <2>2 DEF RowInside
<1>7. FoundIn(copied, k) = [i \in 1 .. c |-> IF Split(copied[i]) THEN copied[i].vals ELSE <<>>]
  BY DEF FoundIn
<1>8. \A i \in 1 .. c : (IF Split(copied[i]) THEN copied[i].vals ELSE <<>>) \in Seq(Copies)
  BY <1>5 DEF Columns
<1>9. /\ FoundIn(copied, k) \in Seq(Seq(Copies)) /\ Len(FoundIn(copied, k)) = c
      /\ \A i \in 1 .. c :
           FoundIn(copied, k)[i] = IF Split(copied[i]) THEN copied[i].vals ELSE <<>>
  BY <1>7, <1>8
<1>10. QED
  BY <1>1, <1>3, <1>4, <1>5, <1>6, <1>9 DEF copied

(* A row that leaves the arrays is too long, too short for its table, or   *)
(* has too many values.                                                    *)
LEMMA RowBeyondLimits ==
    ASSUME ParserInv, NEW l \in ResultLines, TableRow(l), phase' = "undefined", ~Spoilt(sent')
    PROVE  \/ tables[table].cols > MaxCols
           \/ Len(l.row) > MaxCols
           \/ Len(l.row) < tables[table].cols
           \/ Len(FlattenSeq([j \in DOMAIN l.row |-> l.row[j].vals])) > MaxVals
<1> DEFINE t == [j \in DOMAIN l.row |-> l.row[j].vals]
           k == tables[table].cols
<1>1. phase = "results" /\ in_table /\ input \in Seq(ResultLines) /\ IDefs
  BY DEF TableRow, ReadLine, ParserInv, IRows
<1>2. table \in 1 .. N
  BY <1>1, InTableFacts DEF ParserInv
<1>3. k \in Int
  BY <1>1, <1>2, ColumnCount
<1>4. PICK c \in Nat : 1 .. k = 1 .. c /\ (c > 0 => c = k)
  BY <1>1, <1>2, ColumnCount
<1>5. l.row \in Seq(Columns(Texts)) /\ Len(l.row) \in Nat /\ DOMAIN l.row = 1 .. Len(l.row)
  BY ParserAssumption
<1>6. /\ t \in Seq(Seq(Texts)) /\ Len(t) = Len(l.row)
      /\ \A j \in 1 .. Len(l.row) : t[j] = l.row[j].vals
  <2>1. \A j \in 1 .. Len(l.row) : l.row[j] \in Columns(Texts)
    BY <1>5
  <2>2. \A j \in 1 .. Len(l.row) : l.row[j].vals \in Seq(Texts)
    BY <2>1 DEF Columns
  <2>3. t = [j \in 1 .. Len(l.row) |-> l.row[j].vals]
    BY <1>5
  <2>4. QED
    BY <1>5, <2>2, <2>3
<1> HIDE DEF t, k
<1>7. FlattenSeq(t) \in Seq(Texts) /\ Len(FlattenSeq(t)) \in Nat
  BY <1>6, FlattenType
<1> SUFFICES ASSUME k <= MaxCols, Len(l.row) <= MaxCols, k <= Len(l.row),
                    Len(FlattenSeq(t)) <= MaxVals
             PROVE  FALSE
  <2>1. MaxCols \in Nat /\ MaxVals \in Nat
    BY Limits
  <2>2. QED
    BY <1>3, <1>5, <1>7, <2>1 DEF t, k
<1>8. PICK newline \in BOOLEAN :
        RowInside(l, RowCopies(l, newline), k) =>
            Len(FlattenSeq(FoundIn(RowCopies(l, newline), k))) > MaxVals
  <2>1. phase' # phase
    BY <1>1
  <2>2. QED
    BY <2>1, RowCases DEF k
<1> DEFINE copied == RowCopies(l, newline)
           s == FoundIn(copied, k)
<1>9. /\ RowInside(l, copied, k) /\ s \in Seq(Seq(Copies)) /\ Len(s) = c
      /\ \A i \in 1 .. c :
           /\ i \in 1 .. Len(l.row) /\ l.row[i] \in Columns(Texts)
           /\ copied[i] = Copied(l.row[i], Len(input) + 1, newline /\ i = Len(l.row))
           /\ s[i] = IF Split(copied[i]) THEN copied[i].vals ELSE <<>>
  BY <1>1, <1>3, <1>4, RowColumns
<1>10. Len(FlattenSeq(s)) > MaxVals
  BY <1>8, <1>9
<1> HIDE DEF copied, s
<1>11. c <= Len(l.row)
  BY <1>3, <1>4, <1>5
<1>12. ASSUME NEW i \in 1 .. c PROVE Len(s[i]) <= Len(t[i])
  <2> DEFINE b == newline /\ i = Len(l.row)
             n == Len(input) + 1
  <2>1. b \in BOOLEAN /\ copied[i] = Copied(l.row[i], n, b) /\ l.row[i] \in Columns(Texts)
    BY <1>9, Zenon
  <2>2. n \in Nat
    BY <1>1
  <2> HIDE DEF b, n
  <2>3. l.row[i].vals \in Seq(Texts) /\ Len(copied[i].vals) = Len(l.row[i].vals)
    BY <2>1, <2>2, CopiedIs
  <2>4. t[i] = l.row[i].vals /\ Len(t[i]) \in Nat
    BY <1>6, <1>9, <2>3
  <2>5. CASE Split(copied[i])
    BY <1>9, <2>3, <2>4, <2>5
  <2>6. CASE ~Split(copied[i])
    <3>1. s[i] = <<>>
      BY <1>9, <2>6
    <3>2. QED
      BY <2>4, <3>1
  <2>7. QED
    BY <2>5, <2>6
<1>13. Len(FlattenSeq(s)) <= Len(FlattenSeq(t))
  BY <1>6, <1>9, <1>11, <1>12, FlattenShorter
<1>14. Len(FlattenSeq(s)) \in Nat
  BY <1>9, FlattenType
<1>15. QED
  BY <1>7, <1>10, <1>13, <1>14, Limits

(* A table for which there is no room is one too many.                     *)
LEMMA TemplateBeyondLimits ==
    ASSUME IDefs, TemplateInv, TableEntry, phase' = "undefined"
    PROVE  Cardinality(Starts) > MaxTables
<1>1. /\ phase = "tables" /\ todo # <<>> /\ todo \in Seq(Entries) /\ Head(todo).key = "table"
      /\ ~in_def /\ N >= MaxTables /\ N \in Nat
  BY DEF TableEntry, Entry, ReadEntry, IDefs, N
<1>2. /\ given.tables \in Seq(Entries) /\ Pos \in Nat /\ Pos + 1 \in DOMAIN given.tables
      /\ KeyAt(Pos + 1) = "table" /\ Len(given.tables) \in Nat
      /\ Starts \subseteq 1 .. Len(given.tables)
  BY <1>1, NextLine, LineSets DEF TemplateInv
<1>3. Pos + 1 \in Starts
  <2>1. (Pos + 1) - 1 = Pos /\ ~Open(Pos)
    BY <1>1, <1>2 DEF TemplateInv, ITemplate, Built
  <2>2. QED
    BY <1>2, <2>1 DEF Starts
<1>4. Rank(Starts, Pos + 1) = N + 1
  <2>1. N = Rank(Starts, Pos)
    BY <1>1 DEF TemplateInv, ITemplate, Built
  <2>2. QED
    BY <1>2, <1>3, <2>1, RankNext
<1>5. Rank(Starts, Pos + 1) <= Cardinality(Starts) /\ Cardinality(Starts) \in Nat
  <2>1. Pos + 1 \in Int
    BY <1>2
  <2>2. QED
    BY <1>2, <2>1, RankType
<1>6. QED
  BY <1>1, <1>4, <1>5, Limits

(* The same of an expression.                                              *)
LEMMA KeysBeyondLimits ==
    ASSUME IDefs, TemplateInv, KeyEntry, phase' = "undefined", Head(todo) # BlankLine
    PROVE  Cardinality(Compiling) > MaxKeys
<1>1. /\ phase = "keys" /\ todo # <<>> /\ todo \in Seq(KeyLines) /\ Head(todo) \in Regexes
      /\ Len(key_regexes) >= MaxKeys
  BY DEF KeyEntry, IDefs, Undefined
<1>2. /\ KeyPos \in Nat /\ Compiling \subseteq 1 .. Len(given.keys) /\ Len(given.keys) \in Nat
      /\ KeyPos + 1 \in Compiling
  BY <1>1, NextKey DEF TemplateInv
<1>3. Len(key_regexes) = Rank(Compiling, KeyPos)
  BY <1>1 DEF TemplateInv, IKeys
<1>4. Rank(Compiling, KeyPos + 1) = Rank(Compiling, KeyPos) + 1
  BY <1>2, RankNext
<1>5. /\ Rank(Compiling, KeyPos + 1) <= Cardinality(Compiling) /\ Cardinality(Compiling) \in Nat
      /\ Rank(Compiling, KeyPos) \in Nat
  <2>1. KeyPos + 1 \in Int /\ KeyPos \in Int
    BY <1>2
  <2>2. QED
    BY <1>2, <2>1, RankType
<1>6. QED
  BY <1>1, <1>3, <1>4, <1>5, Limits

(* Outside of tables, all headers of a table are looked for only if there  *)
(* are none.                                                               *)
LEMMA HeadersBeyondLimits ==
    ASSUME ParserInv, TemplateInv, NEW l \in ResultLines, HeaderOverrun(l)
    PROVE  \E i \in 1 .. N : Declared(i, "header") = {}
<1>1. phase = "results" /\ ~in_table /\ Overrun(l)
  BY DEF HeaderOverrun, ReadLine
<1>2. PICK i \in 1 .. N : tables[i].headers_found >= MaxHeaders
  BY <1>1 DEF Overrun, Compared
<1>3. /\ tables[i].headers_found \in Nat /\ tables[i].header_names \in Seq(HeaderNames)
      /\ Len(tables[i].header_names) \in Nat /\ Len(tables[i].header_names) <= MaxHeaders
  BY TableFields DEF ParserInv, IDefs
<1>4. Len(tables[i].header_names) > 0 =>
        /\ tables[i].headers_found <= Len(tables[i].header_names)
        /\ tables[i].headers_found # Len(tables[i].header_names)
  BY <1>1 DEF ParserInv, ICount
<1>5. Len(tables[i].header_names) = 0
  BY <1>2, <1>3, <1>4, Limits
<1>6. tables[i].header_names = <<>>
  BY <1>3, <1>5
<1>7. \A p \in Declared(i, "header") : p > Len(given.tables)
  BY <1>1, <1>6 DEF TemplateInv, IHeads, Built, Pos
<1>8. Len(given.tables) \in Nat /\ Declared(i, "header") \subseteq 1 .. Len(given.tables)
  BY <1>1, LineSets DEF TemplateInv, ITemplate, Built
<1>9. \A p \in Declared(i, "header") : FALSE
  BY <1>7, <1>8
<1>10. QED
  BY <1>9

(* The program leaves its arrays, or fails in printf(), only for a reason  *)
(* that stands in a template, in the row at hand or in what it sends       *)
(* (stdout_parser.c:113-117, 157-184, 220-231, 371, 415-433).              *)
THEOREM LimitsExplainUndefined == Spec => []UndefinedOnlyBeyondLimits
<1>1. Init => UndefinedOnlyBeyondLimits
  BY DEF Init, UndefinedOnlyBeyondLimits
<1>2. ParserInv /\ TemplateInv /\ UndefinedOnlyBeyondLimits /\ [Next]_vars
        => UndefinedOnlyBeyondLimits'
  <2> SUFFICES ASSUME ParserInv, TemplateInv, UndefinedOnlyBeyondLimits, [Next]_vars,
                      phase' = "undefined"
               PROVE  UndefinedOnlyBeyondLimits'
    BY DEF UndefinedOnlyBeyondLimits
  <2>1. IDefs
    BY DEF ParserInv
  <2>2. CASE UNCHANGED vars
    <3>1. UNCHANGED <<given, phase, tables, table, input, did, sent>> /\ N' = N
      BY <2>2 DEF vars, fileVars, rowVars, N
    <3>2. /\ Starts' = Starts /\ \A i, key : Declared(i, key)' = Declared(i, key)
          /\ \A p : KeyAt(p)' = KeyAt(p)
      BY <3>1, TemplateFixed
    <3>3. QED
      BY <3>1, <3>2 DEF UndefinedOnlyBeyondLimits
  <2>3. CASE TableEntry
    <3>1. UNCHANGED given
      BY <2>3 DEF TableEntry, ReadEntry, fileVars
    <3>2. Starts' = Starts
      BY <3>1, TemplateFixed
    <3>3. QED
      BY <2>1, <2>3, <3>2, TemplateBeyondLimits DEF UndefinedOnlyBeyondLimits
  <2>4. CASE KeyEntry
    <3>1. UNCHANGED given
      BY <2>4 DEF KeyEntry
    <3>2. CASE Head(todo) = BlankLine
      <4>1. todo \in Seq(KeyLines) /\ phase = "keys" /\ todo # <<>>
        BY <2>1, <2>4 DEF KeyEntry, IDefs
      <4>2. KeyPos + 1 \in DOMAIN given.keys /\ given.keys[KeyPos + 1] = BlankLine
        BY <3>2, <4>1, NextKey DEF TemplateInv
      <4>3. \E p \in DOMAIN given'.keys : given'.keys[p] = BlankLine
        BY <3>1, <4>2
      <4>4. QED
        BY <4>3 DEF UndefinedOnlyBeyondLimits
    <3>3. CASE Head(todo) # BlankLine
      BY <2>1, <2>4, <3>1, <3>3, KeysBeyondLimits DEF UndefinedOnlyBeyondLimits, Compiling
    <3>4. QED
      BY <3>2, <3>3
  <2>5. ASSUME NEW l \in ResultLines, HeaderOverrun(l) PROVE UndefinedOnlyBeyondLimits'
    <3>1. UNCHANGED given /\ N' = N
      BY <2>5 DEF HeaderOverrun, ReadLine, fileVars, N
    <3>2. \A i, key : Declared(i, key)' = Declared(i, key)
      BY <3>1, TemplateFixed
    <3>3. \E i \in 1 .. N : Declared(i, "header") = {}
      BY <2>5, HeadersBeyondLimits
    <3>4. QED
      BY <3>1, <3>2, <3>3 DEF UndefinedOnlyBeyondLimits
  <2>6. ASSUME NEW l \in ResultLines, TableRow(l) PROVE UndefinedOnlyBeyondLimits'
    <3>1. /\ did' = "row" /\ UNCHANGED <<tables, table>> /\ N' = N
          /\ input \in Seq(ResultLines) /\ input' = Append(input, l) /\ in_table
      BY <2>6 DEF TableRow, ReadLine, N, ParserInv, IRows
    <3>2. Last(input') = l /\ table \in 1 .. N
      BY <3>1, LineRead, InTableFacts DEF ParserInv
    <3>3. \/ tables[table].cols > MaxCols
          \/ Len(l.row) > MaxCols
          \/ Len(l.row) < tables[table].cols
          \/ Len(FlattenSeq([j \in DOMAIN l.row |-> l.row[j].vals])) > MaxVals
          \/ Spoilt(sent')
      BY <2>6, RowBeyondLimits
    <3>4. QED
      BY <3>1, <3>2, <3>3 DEF UndefinedOnlyBeyondLimits, Spoilt
  <2>7. CASE BlankEntry
    <3>1. /\ UNCHANGED given /\ phase = "tables" /\ todo # <<>> /\ Head(todo).key = "blank"
          /\ todo \in Seq(Entries)
      BY <2>1, <2>7 DEF BlankEntry, Entry, ReadEntry, fileVars, IDefs
    <3>2. Pos + 1 \in DOMAIN given.tables /\ KeyAt(Pos + 1) = "blank"
      BY <3>1, NextLine DEF TemplateInv
    <3>3. \E p \in DOMAIN given'.tables : KeyAt(p)' = "blank"
      BY <3>1, <3>2, TemplateFixed
    <3>4. QED
      BY <3>3 DEF UndefinedOnlyBeyondLimits
  <2>8. ASSUME NEW l \in ResultLines, PlainLine(l) \/ EndOfTable(l)
        PROVE  UndefinedOnlyBeyondLimits'
    <3>1. phase = "results" /\ phase' \in Outcomes(sent')
      BY <2>8 DEF PlainLine, EndOfTable, ReadLine
    <3>2. Spoilt(sent')
      BY <3>1, OutcomesAre
    <3>3. QED
      BY <3>2 DEF UndefinedOnlyBeyondLimits, Spoilt
  <2>9. CASE Next
    <3>1. \/ TableEntry \/ KeyEntry \/ BlankEntry
          \/ \E l \in ResultLines :
                TableRow(l) \/ HeaderOverrun(l) \/ PlainLine(l) \/ EndOfTable(l)
      BY <2>9 DEF Next, Main, Finalize, HeaderEntry, ValNameEntry, ColsEntry, EndEntry, OtherEntry,
                  Entry, ReadEntry, OpenKeys, EndOfKeys, EndOfResults, HeaderLine, BetweenHeaders,
                  LineLenFault, ReadLine
    <3>2. QED
      BY <2>3, <2>4, <2>5, <2>6, <2>7, <2>8, <3>1
  <2>10. QED
    BY <2>2, <2>9
<1>3. QED
  BY <1>1, <1>2, ParserInvariance, TemplateInvariance, PTL DEF Spec

-----------------------------------------------------------------------------
(* A regular row of the first table: what is found in its columns are its  *)
(* values, whole and in their order.                                       *)
LEMMA RegularValues ==
    ASSUME ParserInv, NEW l \in ResultLines, NEW newline \in BOOLEAN, table = 1, in_table,
           RegularRow(l, 1), Len(l.row) <= MaxCols
    PROVE  LET k == tables[1].cols
               vals == FlattenSeq(FoundIn(RowCopies(l, newline), k))
               texts == FlattenSeq([j \in 1 .. k |-> l.row[j].vals])
           IN  /\ texts \in Seq(Texts) /\ vals \in Seq(Copies) /\ Len(vals) = Len(texts)
               /\ \A p \in 1 .. Len(vals) :
                    vals[p] = [from |-> Len(input) + 1, text |-> texts[p], whole |-> TRUE]
<1> DEFINE n == Len(input) + 1
           R == {<<a, [from |-> n, text |-> a, whole |-> TRUE]>> : a \in Texts}
           k == tables[1].cols
           copied == RowCopies(l, newline)
           s == FoundIn(copied, k)
           t == [j \in 1 .. k |-> l.row[j].vals]
<1>1. input \in Seq(ResultLines) /\ n \in Nat /\ IDefs
  BY DEF ParserInv, IRows
<1>2. 1 \in 1 .. N
  BY InTableFacts DEF ParserInv
<1>3. k \in Int /\ k <= Len(l.row)
  BY <1>1, <1>2, ColumnCount DEF RegularRow
<1>4. PICK c \in Nat : 1 .. k = 1 .. c /\ (c > 0 => c = k)
  BY <1>1, <1>2, ColumnCount
<1>5. \A i \in 1 .. c : l.row[i].tail = "blank" /\ (l.row[i].lead \/ Len(l.row[i].vals) > 1)
  BY <1>4 DEF RegularRow
<1> HIDE DEF k, n, R
<1>6. /\ s \in Seq(Seq(Copies)) /\ Len(s) = c
      /\ \A i \in 1 .. c :
           /\ l.row[i] \in Columns(Texts)
           /\ copied[i] = Copied(l.row[i], Len(input) + 1, newline /\ i = Len(l.row))
           /\ s[i] = IF Split(copied[i]) THEN copied[i].vals ELSE <<>>
  BY <1>1, <1>3, <1>4, RowColumns
<1>7. /\ t \in Seq(Seq(Texts)) /\ Len(t) = c /\ \A j \in 1 .. c : t[j] = l.row[j].vals
  <2>1. \A j \in 1 .. c : l.row[j].vals \in Seq(Texts)
    BY <1>6 DEF Columns
  <2>2. t = [j \in 1 .. c |-> l.row[j].vals]
    BY <1>4
  <2> HIDE DEF t
  <2>3. QED
    BY <2>1, <2>2
<1> HIDE DEF copied, s, t
<1>8. ASSUME NEW i \in 1 .. c PROVE Pairwise(t[i], s[i], R)
  <2> DEFINE b == newline /\ i = Len(l.row)
  <2>1. b \in BOOLEAN /\ copied[i] = Copied(l.row[i], n, b) /\ l.row[i] \in Columns(Texts)
    BY <1>6, Zenon DEF n
  <2> HIDE DEF b
  <2>2. /\ copied[i].lead = l.row[i].lead /\ l.row[i].vals \in Seq(Texts)
        /\ Len(copied[i].vals) = Len(l.row[i].vals)
        /\ \A p \in 1 .. Len(l.row[i].vals) :
             copied[i].vals[p] = [from |-> n, text |-> l.row[i].vals[p], whole |-> TRUE]
    <3>1. PICK x \in Columns(Texts) : x = l.row[i]
      BY <2>1
    <3>2. LET d == Copied(x, n, b) IN
          /\ d.lead = x.lead /\ x.vals \in Seq(Texts) /\ Len(d.vals) = Len(x.vals)
          /\ x.tail = "blank" => \A p \in 1 .. Len(x.vals) :
               d.vals[p] = [from |-> n, text |-> x.vals[p], whole |-> TRUE]
      BY <1>1, <2>1, CopiedIs
    <3>3. x.tail = "blank" /\ copied[i] = Copied(x, n, b)
      BY <1>5, <2>1, <3>1
    <3>4. QED
      BY <3>1, <3>2, <3>3
  <2>3. Split(copied[i])
    BY <1>5, <2>2 DEF Split
  <2>4. s[i] = copied[i].vals /\ t[i] = l.row[i].vals
    BY <1>6, <1>7, <2>3
  <2>5. \A p \in 1 .. Len(t[i]) : t[i][p] \in Texts
    BY <2>2, <2>4
  <2>6. \A p \in 1 .. Len(t[i]) : <<t[i][p], s[i][p]>> \in R
    BY <2>2, <2>4, <2>5 DEF R
  <2>7. QED
    BY <2>2, <2>4, <2>6 DEF Pairwise
<1>9. Pairwise(FlattenSeq(t), FlattenSeq(s), R)
  BY <1>6, <1>7, <1>8, FlattenPairwise
<1>10. FlattenSeq(t) \in Seq(Texts) /\ FlattenSeq(s) \in Seq(Copies)
  BY <1>6, <1>7, FlattenType
<1>11. \A a, b : <<a, b>> \in R => b = [from |-> n, text |-> a, whole |-> TRUE]
  BY DEF R
<1>12. /\ Len(FlattenSeq(s)) = Len(FlattenSeq(t))
       /\ \A p \in 1 .. Len(FlattenSeq(s)) :
            FlattenSeq(s)[p] = [from |-> n, text |-> FlattenSeq(t)[p], whole |-> TRUE]
  BY <1>9, <1>11 DEF Pairwise
<1>13. QED
  BY <1>10, <1>12 DEF n, s, t, k, copied

(* The first table's names, once the template is read: as many as it       *)
(* declares, and each where the array has room for it.                     *)
LEMMA FirstNames ==
    ASSUME TemplateInv, phase = "results", N >= 1, N \in Nat
    PROVE  \A k \in 1 .. Cardinality(Declared(1, "val_name")) :
             k <= MaxVals => tables[1].val_names[k] = NameDeclared(1, k)
<1> DEFINE D == Declared(1, "val_name")
<1>1. Pos = Len(given.tables)
  BY DEF Pos
<1>2. Len(given.tables) \in Nat /\ D \subseteq 1 .. Len(given.tables)
  BY LineSets DEF TemplateInv, ITemplate, Built
<1>3. \A k \in 1 .. Rank(D, Pos) : k <= MaxVals => tables[1].val_names[k] = NameDeclared(1, k)
  BY DEF TemplateInv, INames, Built
<1> HIDE DEF D
<1>4. Rank(D, Pos) = Cardinality(D)
  BY <1>1, <1>2, RankEnds
<1>5. QED
  BY <1>3, <1>4 DEF D

(* A row of the first table within the arrays.                             *)
LEMMA FirstTableRow ==
    ASSUME ParserInv, TemplateInv, NEW l \in ResultLines, TableRow(l), phase' = "results",
           table = 1, RegularRow(l, 1)
    PROVE  sent' = Reading(l, 1)'
<1> DEFINE k == tables[1].cols
           texts == FlattenSeq([j \in 1 .. k |-> l.row[j].vals])
           D == Declared(1, "val_name")
           n == Len(input) + 1
<1>1. /\ phase = "results" /\ in_table /\ UNCHANGED <<given, tables, table>>
      /\ input \in Seq(ResultLines) /\ input' = Append(input, l)
  BY DEF TableRow, ReadLine, fileVars, ParserInv, IRows
<1>2. 1 \in 1 .. N /\ N >= 1 /\ N \in Nat
  BY <1>1, InTableFacts DEF ParserInv, IDefs, N
<1>3. PICK newline \in BOOLEAN :
        LET vals == FlattenSeq(FoundIn(RowCopies(l, newline), k)) IN
        /\ Len(l.row) <= MaxCols /\ Len(vals) <= MaxVals
        /\ sent' = RowSends(vals, tables[1].val_names)
  BY RowCases DEF RowInside
<1> DEFINE vals == FlattenSeq(FoundIn(RowCopies(l, newline), k))
<1>4. /\ texts \in Seq(Texts) /\ vals \in Seq(Copies) /\ Len(vals) = Len(texts)
      /\ \A p \in 1 .. Len(vals) : vals[p] = [from |-> n, text |-> texts[p], whole |-> TRUE]
  BY <1>1, <1>3, RegularValues
<1>5. Len(texts) = Cardinality(D)
  BY DEF RegularRow
<1>6. Len(input') = n
  BY <1>1, LineRead
<1> DEFINE m(p) == NameDeclared(1, p)
           w(p) == [from |-> n, text |-> texts[p], whole |-> TRUE]
<1>7. Reading(l, 1)' = NotSkipped([p \in DOMAIN texts |->
          [name |-> m(p),
           val |-> IF m(p) \in Percents \/ texts[p] \in Percents THEN Garbled ELSE w(p)]])
  <2>1. \A p : NameDeclared(1, p)' = NameDeclared(1, p)
    BY <1>1, TemplateFixed
  <2>2. tables'[1].cols = k
    BY <1>1
  <2> DEFINE said(p) == NameDeclared(1, p)'
             there == FlattenSeq([j \in 1 .. tables'[1].cols |-> l.row[j].vals])
             pair(x, t) == [name |-> x, val |-> IF x \in Percents \/ t \in Percents
                                               THEN Garbled
                                               ELSE [from |-> n, text |-> t, whole |-> TRUE]]
  <2>3. there = texts
    BY <2>2
  <2>4. Reading(l, 1)' = NotSkipped([p \in DOMAIN there |-> pair(said(p), there[p])])
    <3> HIDE DEF n
    <3>1. QED
      BY <1>6 DEF Reading
  <2>5. [p \in DOMAIN there |-> pair(said(p), there[p])] =
        [p \in DOMAIN texts |-> pair(m(p), texts[p])]
    <3>1. \A p : said(p) = m(p)
      BY <2>1
    <3> HIDE DEF said, there, pair, m, texts
    <3>2. QED
      BY <3>1, <2>3
  <2>6. QED
    BY <2>4, <2>5
<1>8. sent' = NotSkipped([p \in DOMAIN vals |->
          sendResult(tables[1].val_names[p], vals[p], vals[p].text)])
  BY <1>3 DEF RowSends
<1> HIDE DEF vals, texts, n, k
<1>9. DOMAIN vals = 1 .. Len(vals) /\ DOMAIN texts = 1 .. Len(vals) /\ Len(vals) \in Nat
  BY <1>4
<1>10. \A p \in 1 .. Len(vals) : tables[1].val_names[p] = NameDeclared(1, p)
  <2>1. \A p \in 1 .. Len(vals) : p \in 1 .. Cardinality(D) /\ p <= MaxVals
    BY <1>3, <1>4, <1>5, <1>9, Limits DEF vals
  <2>2. QED
    BY <1>1, <1>2, <2>1, FirstNames
<1>11. ASSUME NEW p \in 1 .. Len(vals)
       PROVE  sendResult(tables[1].val_names[p], vals[p], vals[p].text) =
              [name |-> m(p),
               val |-> IF m(p) \in Percents \/ texts[p] \in Percents THEN Garbled ELSE w(p)]
  <2>1. tables[1].val_names[p] = m(p) /\ vals[p] = w(p)
    BY <1>4, <1>10
  <2>2. w(p).text = texts[p]
    OBVIOUS
  <2> HIDE DEF m, w
  <2>3. {m(p), texts[p]} \cap Percents = {} <=> ~(m(p) \in Percents \/ texts[p] \in Percents)
    OBVIOUS
  <2>4. QED
    BY <2>1, <2>2, <2>3 DEF sendResult
<1>12. [p \in DOMAIN vals |-> sendResult(tables[1].val_names[p], vals[p], vals[p].text)] =
       [p \in DOMAIN texts |->
          [name |-> m(p),
           val |-> IF m(p) \in Percents \/ texts[p] \in Percents THEN Garbled ELSE w(p)]]
  <2> HIDE DEF m, w
  <2>1. QED
    BY <1>9, <1>11
<1>13. QED
  BY <1>7, <1>8, <1>12

(* A regular row of the first table sends exactly its own values, in their *)
(* order and under the template's names, whatever rows came before it, and *)
(* whole but for percent signs (stdout_parser.c:113-117, 421-447).         *)
THEOREM FirstTableIsPaired == Spec => []RowsArePaired
<1>1. Init => RowsArePaired
  BY DEF Init, RowsArePaired, ReadsTable
<1>2. ParserInv /\ TemplateInv /\ RowsArePaired /\ [Next]_vars => RowsArePaired'
  <2> SUFFICES ASSUME ParserInv, TemplateInv, RowsArePaired, [Next]_vars,
                      did' = "row", phase' = "results", table' = 1, RegularRow(Last(input), 1)'
               PROVE  sent' = Reading(Last(input), 1)'
    BY DEF RowsArePaired, ReadsTable
  <2>1. CASE UNCHANGED vars
    <3>1. UNCHANGED <<given, phase, tables, table, input, did, sent>>
      BY <2>1 DEF vars, fileVars, rowVars
    <3>2. /\ \A i, key : Declared(i, key)' = Declared(i, key)
          /\ \A i, k : NameDeclared(i, k)' = NameDeclared(i, k)
      BY <3>1, TemplateFixed
    <3>3. RegularRow(Last(input), 1) /\ Reading(Last(input), 1)' = Reading(Last(input), 1)
      BY <3>1, <3>2 DEF RegularRow, Reading
    <3>4. QED
      BY <3>1, <3>3 DEF RowsArePaired, ReadsTable
  <2>2. ASSUME NEW l \in ResultLines, TableRow(l) PROVE sent' = Reading(Last(input), 1)'
    <3>1. /\ UNCHANGED <<given, tables, table>> /\ input \in Seq(ResultLines)
          /\ input' = Append(input, l)
      BY <2>2 DEF TableRow, ReadLine, fileVars, ParserInv, IRows
    <3>2. Last(input') = l
      BY <3>1, LineRead
    <3>3. \A i, key : Declared(i, key)' = Declared(i, key)
      BY <3>1, TemplateFixed
    <3>4. RegularRow(l, 1)
      BY <3>1, <3>2, <3>3 DEF RegularRow
    <3>5. sent' = Reading(l, 1)'
      BY <2>2, <3>1, <3>4, FirstTableRow
    <3>6. QED
      BY <3>2, <3>5 DEF Reading
  <2>3. CASE EndOfKeys
    <3>1. did = "nothing" /\ did' = did
      BY <2>3 DEF EndOfKeys, rowVars, ParserInv, IEarly, Early
    <3>2. QED
      BY <3>1
  <2>4. CASE Next
    <3>1. EndOfKeys \/ \E l \in ResultLines : TableRow(l)
      BY <2>4 DEF Next, Main, Finalize, TableEntry, HeaderEntry, ValNameEntry, ColsEntry, EndEntry,
                  BlankEntry, OtherEntry, Entry, ReadEntry, OpenKeys, KeyEntry, EndOfResults,
                  HeaderLine,
                  BetweenHeaders, PlainLine, EndOfTable, HeaderOverrun, LineLenFault, Undefined
    <3>2. QED
      BY <2>2, <2>3, <3>1
  <2>5. QED
    BY <2>1, <2>4
<1>3. QED
  BY <1>1, <1>2, ParserInvariance, TemplateInvariance, PTL DEF Spec
=============================================================================
