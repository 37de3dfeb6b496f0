---------------------------- MODULE StdoutParser ----------------------------
(***************************************************************************)
(* stdout_parser (src/stdout_parser.c): reads a table template and a key   *)
(* template, then goes through the lines an application printed and logs   *)
(* the values of the tables and the key/value pairs it finds.              *)
(*                                                                         *)
(* A line of text is what the parser can find in it: the headers it        *)
(* contains, its columns when it contains the column separator, and what   *)
(* each regular expression captures.  The value separator is one blank, as *)
(* in templates/vpic_runout_gr0023-1_table_template.tmpl.                  *)
(***************************************************************************)
EXTENDS Integers, SequencesExt, FiniteSetsExt

CONSTANTS
    TableTemplates,  \* table templates: sequences of entries, or NoFile
    KeyTemplates,    \* key templates: sequences of lines, or NoFile
    NoFile,          \* a file that cannot be opened
    BlankLine,       \* a blank line of a key template
    ResultLines,     \* what a line of the results file can be
    Regexes,         \* regular expressions that compile
    SkipNames,       \* value names that contain "_skip"
    NoName,          \* the empty value name
    Percents,        \* names and texts with a percent sign
    Garbled,         \* what printf() makes of a percent sign
    NoColumn,        \* an element of columns[] that was never written
    MaxTables,       \* MAX_TABLES
    MaxHeaders,      \* MAX_HEADERS
    MaxCols,         \* MAX_COLS
    MaxVals,         \* MAX_VALS
    MaxKeys,         \* MAX_KEY_REGEXES
    MaxGroups,       \* OVECCOUNT / 3 - 1
    MaxLines         \* bound: lines of the results file

(* The entries of the table templates, and the texts of the values.        *)
Entries == UNION {ToSet(t) : t \in TableTemplates \ {NoFile}}
Texts == UNION {ToSet(c.vals) : c \in UNION {ToSet(l.row) : l \in ResultLines}}

(* A column of a row, and a value as it is copied from line number "from". *)
Columns(V) == [lead : BOOLEAN, vals : Seq(V), tail : {"blank", "value"}]
Copies == [from : Nat, text : Texts, whole : BOOLEAN]

ASSUME ParserAssumption ==
    /\ \A t \in TableTemplates \ {NoFile} : t \in Seq(Entries)
    /\ \A e \in Entries : e.key = "cols" => e.cols \in Int
    /\ \A t \in KeyTemplates \ {NoFile} : t \in Seq(ToSet(t))
    /\ \A l \in ResultLines : l.row \in Seq(Columns(Texts))
    /\ NoColumn \notin Columns(Copies)
    /\ {MaxTables, MaxHeaders, MaxCols, MaxVals, MaxKeys, MaxGroups} \subseteq Nat \ {0}
    /\ MaxLines \in Nat
    /\ NoName \notin SkipNames
    /\ BlankLine \notin Regexes

VARIABLES
    given,        \* the files named on the command line
    phase,        \* where main() and parseResults() are
    todo,         \* lines of the current template that are not read yet
    in_def,       \* in_table of parseTableTemplate()
    vals_found,   \* vals_found of parseTableTemplate()
    tables,       \* the tables; num_headers is the length of header_names
    key_regexes,  \* the regular expressions that were compiled
    in_table,     \* in_table of parseResults()
    table,        \* index of the current table, 0: NULL
    columns,      \* columns[], which keeps its contents from row to row
    input,        \* history: the lines of the results file read so far
    did,          \* history: what was done with the last of them
    sent          \* what sendResult() sent for it

fileVars == <<given, todo>>
defVars == <<in_def, vals_found, key_regexes>>
rowVars == <<in_table, table, columns, input, did, sent>>
vars == <<fileVars, phase, defVars, tables, rowVars>>

Init ==
    /\ given \in [results : BOOLEAN, tables : TableTemplates, keys : KeyTemplates]
    /\ phase = "main"
    /\ todo = <<>>
    /\ in_def = FALSE
    /\ vals_found = 0
    /\ tables = <<>>
    /\ key_regexes = <<>>
    /\ in_table = FALSE
    /\ table = 0
    /\ columns = [i \in 1 .. MaxCols |-> NoColumn]
    /\ input = <<>>
    /\ did = "nothing"
    /\ sent = <<>>

N == Len(tables)

-----------------------------------------------------------------------------
(* main(): daapInit() succeeds or the program ends.  parseResults() opens  *)
(* the results file first, then the table template; when either cannot be  *)
(* opened it returns, and main() finalizes and returns 0.                  *)
Main ==
    /\ phase = "main"
    /\ \/ phase' = "done" /\ todo' = todo
       \/ /\ given.results /\ given.tables # NoFile
          /\ phase' = "tables"
          /\ todo' = given.tables
       \/ /\ ~given.results \/ given.tables = NoFile
          /\ phase' = "finalize"
          /\ todo' = todo
    /\ UNCHANGED <<given, defVars, tables, rowVars>>

(* daapFinalize() and return 0.                                            *)
Finalize ==
    /\ phase = "finalize"
    /\ phase' = "done"
    /\ UNCHANGED <<fileVars, defVars, tables, rowVars>>

Undefined == phase' = "undefined"

-----------------------------------------------------------------------------
(* parseTableTemplate(), one action per kind of line.                      *)
Entry(k) == phase = "tables" /\ todo # <<>> /\ Head(todo).key = k

ReadEntry == todo' = Tail(todo) /\ UNCHANGED <<given, phase, key_regexes, rowVars>>

EmptyTable ==
    [header_names |-> <<>>, cols |-> 0, headers_found |-> 0,
     val_names |-> [i \in 1 .. MaxVals |-> NoName]]

(* Faulty variants: more headers are stored than the array holds ...       *)
HeaderEntryUnbounded ==
    /\ Entry("header")
    /\ in_def
    /\ tables' = [tables EXCEPT ![N].header_names = Append(@, Head(todo).header)]
    /\ ReadEntry
    /\ UNCHANGED <<in_def, vals_found>>

TableEntry ==
    /\ Entry("table")
    /\ ~in_def
    /\ \/ /\ N < MaxTables
          /\ tables' = Append(tables, EmptyTable)
          /\ in_def' = TRUE
          /\ ReadEntry
       \/ /\ N >= MaxTables
          /\ Undefined
          /\ UNCHANGED <<fileVars, in_def, tables, key_regexes, rowVars>>
    /\ UNCHANGED vals_found

HeaderEntry ==
    /\ Entry("header")
    /\ in_def
    /\ Len(tables[N].header_names) < MaxHeaders
    /\ tables' = [tables EXCEPT ![N].header_names = Append(@, Head(todo).header)]
    /\ ReadEntry
    /\ UNCHANGED <<in_def, vals_found>>

(* vals_found counts the value names of all tables.                        *)
ValNameEntry ==
    /\ Entry("val_name")
    /\ in_def
    /\ vals_found < MaxVals
    /\ tables' = [tables EXCEPT ![N].val_names[vals_found + 1] = Head(todo).name]
    /\ vals_found' = vals_found + 1
    /\ ReadEntry
    /\ UNCHANGED in_def

ColsEntry ==
    /\ Entry("cols")
    /\ in_def
    /\ tables' = [tables EXCEPT ![N].cols = Head(todo).cols]
    /\ ReadEntry
    /\ UNCHANGED <<in_def, vals_found>>

EndEntry ==
    /\ Entry("end")
    /\ in_def
    /\ in_def' = FALSE
    /\ ReadEntry
    /\ UNCHANGED <<tables, vals_found>>

(* When the newline of a blank line is off, the line is empty, and the     *)
(* loop looks at line[-1], before the array.  If it finds a newline there  *)
(* it overwrites it, too; else the line has no effect.                     *)
BlankEntry ==
    /\ Entry("blank")
    /\ ReadEntry \/ (Undefined /\ UNCHANGED <<fileVars, key_regexes, rowVars>>)
    /\ UNCHANGED <<in_def, vals_found, tables>>

(* Lines outside a table, beyond a bound, or of no effect on the parser:   *)
(* num_vals= is stored and never read.                                     *)
OtherEntry ==
    /\ phase = "tables"
    /\ todo # <<>>
    /\ \/ Head(todo).key = "other"
       \/ ~in_def /\ Head(todo).key \notin {"table", "blank"}
       \/ in_def /\ Head(todo).key = "table"
       \/ in_def /\ Head(todo).key = "header" /\ Len(tables[N].header_names) >= MaxHeaders
       \/ in_def /\ Head(todo).key = "val_name" /\ vals_found >= MaxVals
    /\ ReadEntry
    /\ UNCHANGED <<in_def, vals_found, tables>>

(* The end of the table template; parseKeyTemplate() opens the next file.  *)
OpenKeys ==
    /\ phase = "tables"
    /\ todo = <<>>
    /\ \/ given.keys # NoFile /\ phase' = "keys" /\ todo' = given.keys
       \/ given.keys = NoFile /\ phase' = "finalize" /\ todo' = todo
    /\ UNCHANGED <<given, defVars, tables, rowVars>>

(* parseKeyTemplate(): compile a line; one that does not compile, or is    *)
(* blank, is left out.  The number of expressions is not compared with the *)
(* array's size, and line[-1] is looked at here, too.                      *)
KeyEntry ==
    /\ phase = "keys"
    /\ todo # <<>>
    /\ \/ /\ Head(todo) \in Regexes
          /\ Len(key_regexes) < MaxKeys
          /\ key_regexes' = Append(key_regexes, Head(todo))
          /\ phase' = phase
       \/ Head(todo) \notin Regexes /\ UNCHANGED <<key_regexes, phase>>
       \/ /\ Head(todo) \in Regexes => Len(key_regexes) >= MaxKeys
          /\ Head(todo) \in Regexes \cup {BlankLine}
          /\ Undefined
          /\ UNCHANGED key_regexes
    /\ todo' = Tail(todo)
    /\ UNCHANGED <<given, in_def, vals_found, tables, rowVars>>

EndOfKeys ==
    /\ phase = "keys"
    /\ todo = <<>>
    /\ phase' = "results"
    /\ UNCHANGED <<fileVars, defVars, tables, rowVars>>

-----------------------------------------------------------------------------
(* parseResults(), one action per way through the loop body.               *)
ReadLine(l) ==
    /\ phase = "results"
    /\ Len(input) < MaxLines
    /\ input' = Append(input, l)
    /\ UNCHANGED <<fileVars, defVars>>

(* The next header of table i is in the line.  Beyond the last header the  *)
(* name is empty, and an empty string is found in every line.              *)
NextHeader(l, i) ==
    LET k == tables[i].headers_found + 1 IN
        k <= Len(tables[i].header_names) => tables[i].header_names[k] \in l.headers

(* The loop over the tables stops at the first one whose header is found.  *)
Compared(l) == {i \in 1 .. N : \A j \in 1 .. i - 1 : ~NextHeader(l, j)}
Found(l) == {i \in Compared(l) : NextHeader(l, i)}
Overrun(l) == \E i \in Compared(l) : tables[i].headers_found >= MaxHeaders

(* sendResult() logs "key=val" by handing it to daapLogWrite() as the      *)
(* format.  A percent sign in it makes printf() look for arguments nobody  *)
(* gave: it sends another text, or none, or the program fails.             *)
sendResult(key, val, text) ==
    [name |-> key, val |-> IF {key, text} \cap Percents = {} THEN val ELSE Garbled]

Outcomes(pairs) ==
    {phase} \cup {"undefined" : s \in {p \in ToSet(pairs) : p.val = Garbled}}

(* What the regular expressions find: the captured strings, two by two.    *)
PairsOf(g) ==
    IF Len(g) > MaxGroups
      THEN <<>>
      ELSE [k \in 1 .. Len(g) \div 2 |-> sendResult(g[2 * k - 1], g[2 * k], g[2 * k])]
KeyPairs(l) == FlattenSeq([i \in DOMAIN key_regexes |-> PairsOf(l.keys[key_regexes[i]])])

(* ... one header is enough to be in a table ...                           *)
HeaderLineEager(l) ==
    /\ ReadLine(l)
    /\ ~in_table /\ ~Overrun(l)
    /\ \E i \in Found(l) :
          /\ tables' = [tables EXCEPT ![i].headers_found = @ + 1]
          /\ table' = i
          /\ in_table' = TRUE
    /\ did' = "header"
    /\ sent' = <<>>
    /\ UNCHANGED <<phase, columns>>

(* ... the table is current although none of its headers was found ...     *)
BetweenHeadersAlways(l) ==
    /\ ReadLine(l)
    /\ ~in_table /\ ~Overrun(l)
    /\ N > 0 /\ Found(l) = {}
    /\ table' = N
    /\ did' = "between"
    /\ sent' = <<>>
    /\ UNCHANGED <<phase, tables, in_table, columns>>

(* ... headers_found keeps its value at the end of a table.                *)
EndOfTableNoReset(l) ==
    /\ ReadLine(l)
    /\ in_table /\ l.row = <<>>
    /\ in_table' = FALSE
    /\ table' = 0
    /\ did' = "end"
    /\ sent' = KeyPairs(l)
    /\ UNCHANGED <<phase, tables, columns>>

(* A header: the last one begins the table.                                *)
HeaderLine(l) ==
    /\ ReadLine(l)
    /\ ~in_table /\ ~Overrun(l)
    /\ \E i \in Found(l) :
          /\ tables' = [tables EXCEPT ![i].headers_found = @ + 1]
          /\ table' = i
          /\ in_table' = (tables[i].headers_found + 1 = Len(tables[i].header_names))
    /\ did' = "header"
    /\ sent' = <<>>
    /\ UNCHANGED <<phase, columns>>

(* No header, and the last table compared still waits for one: the line is *)
(* not compared with the regular expressions.                              *)
BetweenHeaders(l) ==
    /\ ReadLine(l)
    /\ ~in_table /\ ~Overrun(l)
    /\ N > 0 /\ Found(l) = {}
    /\ tables[N].headers_found > 0
    /\ table' = N
    /\ did' = "between"
    /\ sent' = <<>>
    /\ UNCHANGED <<phase, tables, in_table, columns>>

PlainLine(l) ==
    /\ ReadLine(l)
    /\ ~in_table /\ ~Overrun(l)
    /\ Found(l) = {}
    /\ N > 0 => tables[N].headers_found = 0
    /\ table' = 0
    /\ did' = "plain"
    /\ sent' = KeyPairs(l)
    /\ phase' \in Outcomes(sent')
    /\ UNCHANGED <<tables, in_table, columns>>

(* A line without column separator ends the table.  It is compared with    *)
(* the regular expressions, but not with any table's first header.         *)
EndOfTable(l) ==
    /\ ReadLine(l)
    /\ in_table /\ l.row = <<>>
    /\ in_table' = FALSE
    /\ tables' = [tables EXCEPT ![table].headers_found = 0]
    /\ table' = 0
    /\ did' = "end"
    /\ sent' = KeyPairs(l)
    /\ phase' \in Outcomes(sent')
    /\ UNCHANGED columns

-----------------------------------------------------------------------------
(* A column is copied without its last character: the newline, if it is    *)
(* the last column and the newline was not removed, else a blank, else the *)
(* end of its last value.  n is the number of the line.                    *)
Copied(c, n, newline) ==
    LET vals == [k \in DOMAIN c.vals |->
            [from |-> n, text |-> c.vals[k],
             whole |-> newline \/ c.tail = "blank" \/ k < Len(c.vals)]]
    IN  [lead |-> c.lead, vals |-> vals, tail |-> IF newline THEN c.tail ELSE "value"]

Split(c) == c.lead \/ Len(c.vals) > 1 \/ c.tail = "blank"

(* strtok() ends a column after its first value.                           *)
Consumed(c) ==
    IF c.vals = <<>> THEN c ELSE [c EXCEPT !.vals = <<Head(@)>>, !.tail = "value"]

(* Faulty variant: a name with _skip is passed over, not used up.          *)
RowSendsNoSkip(vals, names) ==
    LET kept == SelectSeq(names, LAMBDA n : n \notin SkipNames) IN
        [k \in 1 .. Min({Len(vals), Len(kept)}) |-> [name |-> kept[k], val |-> vals[k]]]

(* The values take the names in turn; those whose name says so are skipped.*)
NotSkipped(pairs) == SelectSeq(pairs, LAMBDA s : s.name \notin SkipNames)
RowSends(vals, names) ==
    NotSkipped([k \in DOMAIN vals |-> sendResult(names[k], vals[k], vals[k].text)])

(* A row of the table.  newline: line_len, with which the newline would be *)
(* found, is never assigned.  The write past columns[], a read of a column *)
(* no row has written or a name past val_names[] is undefined.             *)
TableRow(l) ==
    /\ ReadLine(l)
    /\ in_table /\ l.row # <<>>
    /\ \E newline \in BOOLEAN :
        LET t == tables[table]
            n == Len(input) + 1
            copied == [i \in 1 .. MaxCols |->
                IF i <= Len(l.row)
                  THEN Copied(l.row[i], n, newline /\ i = Len(l.row))
                  ELSE columns[i]]
            inside == Len(l.row) <= MaxCols /\ t.cols <= MaxCols
                        /\ \A i \in 1 .. t.cols : copied[i] # NoColumn
            vals == FlattenSeq([i \in 1 .. t.cols |->
                IF Split(copied[i]) THEN copied[i].vals ELSE <<>>])
        IN  \/ /\ inside
               /\ Len(vals) <= MaxVals
               /\ sent' = RowSends(vals, t.val_names)
               /\ phase' \in Outcomes(sent')
               /\ columns' = [i \in 1 .. MaxCols |->
                     IF i <= t.cols /\ Split(copied[i]) THEN Consumed(copied[i]) ELSE copied[i]]
            \/ /\ inside => Len(vals) > MaxVals
               /\ Undefined
               /\ UNCHANGED <<sent, columns>>
    /\ did' = "row"
    /\ UNCHANGED <<tables, in_table, table>>

(* A header is read past header_names[]; or, at the first line, the stray  *)
(* line_len makes the program fault.                                       *)
HeaderOverrun(l) ==
    /\ ReadLine(l)
    /\ ~in_table /\ Overrun(l)
    /\ Undefined
    /\ UNCHANGED <<tables, in_table, table, columns, did, sent>>

LineLenFault(l) ==
    /\ ReadLine(l)
    /\ input = <<>>
    /\ phase' = "faulted"
    /\ UNCHANGED <<tables, in_table, table, columns, did, sent>>

EndOfResults ==
    /\ phase = "results"
    /\ phase' = "finalize"
    /\ UNCHANGED <<fileVars, defVars, tables, rowVars>>

Next ==
    \/ Main \/ Finalize
    \/ TableEntry \/ HeaderEntry \/ ValNameEntry \/ ColsEntry \/ EndEntry
    \/ BlankEntry \/ OtherEntry
    \/ OpenKeys \/ KeyEntry \/ EndOfKeys \/ EndOfResults
    \/ \E l \in ResultLines :
          \/ HeaderLine(l) \/ BetweenHeaders(l) \/ PlainLine(l) \/ EndOfTable(l)
          \/ TableRow(l) \/ HeaderOverrun(l) \/ LineLenFault(l)

Spec == Init /\ [][Next]_vars

-----------------------------------------------------------------------------
(* What the table template says, read off the file: a table line begins a  *)
(* table unless it stands in one; the lines up to its end are the table's. *)
KeyAt(p) == given.tables[p].key
Open(n) == \E q \in 1 .. n : KeyAt(q) = "table" /\ \A r \in q + 1 .. n : KeyAt(r) # "end"
Starts == {p \in DOMAIN given.tables : KeyAt(p) = "table" /\ ~Open(p - 1)}

(* The lines of a set are numbered from the top.                           *)
Rank(S, p) == Cardinality({q \in S : q <= p})
Nth(S, k) == CHOOSE p \in S : Rank(S, p) = k

(* The lines of the i-th table, and those of one kind among them.          *)
Section(i) ==
    {p \in DOMAIN given.tables :
        Nth(Starts, i) < p /\ \A r \in Nth(Starts, i) + 1 .. p - 1 : KeyAt(r) # "end"}
Declared(i, key) == {p \in Section(i) : KeyAt(p) = key}
NameDeclared(i, k) == given.tables[Nth(Declared(i, "val_name"), k)].name

TypeOK ==
    /\ phase \in {"main", "tables", "keys", "results", "finalize", "done",
                   "undefined", "faulted"}
    /\ in_def \in BOOLEAN
    /\ vals_found \in 0 .. MaxVals
    /\ Len(tables) <= MaxTables
    /\ \A i \in 1 .. N :
          /\ Len(tables[i].header_names) <= MaxHeaders
          /\ tables[i].headers_found \in 0 .. MaxHeaders
          /\ DOMAIN tables[i].val_names = 1 .. MaxVals
    /\ Len(key_regexes) <= MaxKeys
    /\ in_table \in BOOLEAN
    /\ table \in 0 .. N
    /\ in_table => table # 0
    /\ DOMAIN columns = 1 .. MaxCols
    /\ Len(input) <= MaxLines

(* stdout_parser.c:383-449: values are sent as a table's only after all    *)
(* headers of that table were printed, in their order, and every line      *)
(* since the last one had the column separator.                            *)
RowsFollowHeaders ==
    did = "row" =>
        LET h == tables[table].header_names
            n == Len(input)
        IN  h # <<>> /\ \E at \in [DOMAIN h -> 1 .. n - 1] :
                /\ \A k \in DOMAIN h : h[k] \in input[at[k]].headers
                /\ \A k, m \in DOMAIN h : k < m => at[k] < at[m]
                /\ \A p \in at[Len(h)] + 1 .. n : input[p].row # <<>>

(* A row that has the table's columns, each with a blank at its end and    *)
(* another one, and as many values as the table has names.                 *)
RegularRow(l, i) ==
    LET cols == tables[i].cols
    IN  /\ cols <= Len(l.row)
        /\ \A j \in 1 .. cols :
              l.row[j].tail = "blank" /\ (l.row[j].lead \/ Len(l.row[j].vals) > 1)
        /\ Len(FlattenSeq([j \in 1 .. cols |-> l.row[j].vals])) = Cardinality(Declared(i, "val_name"))

(* What a regular row of table i says: its values under the table's names, *)
(* those with a percent sign garbled.                                      *)
Reading(l, i) ==
    LET vals == FlattenSeq([j \in 1 .. tables[i].cols |-> l.row[j].vals])
        all == [k \in DOMAIN vals |->
            [name |-> NameDeclared(i, k),
             val |-> IF NameDeclared(i, k) \in Percents \/ vals[k] \in Percents THEN Garbled
                     ELSE [from |-> Len(input), text |-> vals[k], whole |-> TRUE]]]
    IN  NotSkipped(all)

ReadsTable(i) ==
    did = "row" /\ phase = "results" /\ table = i /\ RegularRow(Last(input), i) =>
        sent = Reading(Last(input), i)

(* stdout_parser.c:421-447: a regular row of the first table sends exactly *)
(* its own values, in their order and under the names the template gives   *)
(* them, whatever rows came before it; and whole, but for those that the   *)
(* format of daapLogWrite() garbles (113-117), if the program lives.       *)
RowsArePaired == ReadsTable(1)

(* stdout_parser.c:256: "find the val_name= line for the name of each      *)
(* column value": the same of every table.                                 *)
EveryTableIsPaired == \A i \in 1 .. N : ReadsTable(i)

(* stdout_parser.c:298-299: "Compare each line in the results with the     *)
(* table templates and the key regexes saved": a line with a key and a     *)
(* value is passed over only when some table's first header has been       *)
(* printed, in this line or before.                                        *)
KeysNotSwallowed ==
    phase = "results" /\ input # <<>> /\ KeyPairs(Last(input)) # <<>> /\ sent = <<>> =>
        \E i \in 1 .. N : tables[i].header_names = <<>> \/
            \E p \in DOMAIN input : tables[i].header_names[1] \in input[p].headers

(* headers_found, which indexes header_names[] (stdout_parser.c:371), says *)
(* how many headers were found, and all of them exactly for the table that *)
(* is being read.                                                          *)
HeadersBounded ==
    phase = "results" => \A i \in 1 .. N :
        LET h == Len(tables[i].header_names) IN h > 0 =>
            /\ tables[i].headers_found <= h
            /\ tables[i].headers_found = h <=> (in_table /\ table = i)

(* The program leaves its arrays, or fails in printf(), only if a template *)
(* has a blank line, more tables or expressions than fit, or a table       *)
(* without header or with too many columns, if a row has too many columns  *)
(* or values, or fewer columns than its table, or if it sends a percent    *)
(* sign (stdout_parser.c:113-117, 157-184, 220-268, 371, 413-433).         *)
UndefinedOnlyBeyondLimits ==
    phase = "undefined" =>
        \/ \E p \in DOMAIN given.tables : KeyAt(p) = "blank"
        \/ Cardinality(Starts) > MaxTables
        \/ \E p \in DOMAIN given.keys : given.keys[p] = BlankLine
        \/ Cardinality({p \in DOMAIN given.keys : given.keys[p] \in Regexes}) > MaxKeys
        \/ \E i \in 1 .. N : Declared(i, "header") = {} \/ tables[i].cols > MaxCols
        \/ /\ did = "row"
           /\ \/ Len(Last(input).row) > MaxCols
              \/ Len(Last(input).row) < tables[table].cols
              \/ Len(FlattenSeq([j \in DOMAIN Last(input).row |-> Last(input).row[j].vals])) > MaxVals
        \/ \E s \in ToSet(sent) : s.val = Garbled
=============================================================================
