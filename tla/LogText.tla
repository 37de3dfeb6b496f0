------------------------------ MODULE LogText ------------------------------
(***************************************************************************)
(* The text of a log call: how daapLogWrite() and daapLogRawWrite()        *)
(* (src/daap_log.c) measure and format a message, the influx line built    *)
(* from it and from the identity daapInit() collects, the host name of     *)
(* module Hostname among it, and the diagnostics the calls print           *)
(* (src/daap_log_internal.h; every source file has a print_mutex and a     *)
(* buffer of its own, and these are those of daap_log.c).                  *)
(*                                                                         *)
(* A text is its length, and a message also the place of its first quote,  *)
(* because the line quotes the message and escapes nothing in it; a line   *)
(* is how much of each of its parts is left after snprintf() has cut it.   *)
(* What DaapLib models is left out: the check of daapInit_called, the      *)
(* transport and the life cycle.                                           *)
(***************************************************************************)
EXTENDS Hostname

CONSTANTS
    Writers,      \* threads that log
    NoWriter,     \* print_mutex is free, or output_str holds nobody's text
    Messages,     \* the messages of each writer: length, first quote (0: none)
    Clusters,     \* lengths of SLURM_CLUSTER_NAME, 0 where it is not set
    AppLen,       \* length of the application's name
    RankLen,      \* digits of the rank
    StampLen,     \* digits of a time in nanoseconds
    MaxMsg,       \* DAAP_MAX_MSG_LEN
    MaxLine,      \* max_size of daapBuildInflux()
    Debug         \* the library is built with DEBUG

(* quote is the place of the first quote no backslash is in front of.      *)
Message == [len : Nat, quote : Nat]

ASSUME TextAssumption ==
    /\ NoWriter \notin Writers
    /\ \A w \in Writers : \A m \in Messages[w] : m \in Message /\ m.quote <= m.len
    /\ Clusters \subseteq Nat
    /\ {AppLen, RankLen, StampLen, MaxMsg, MaxLine} \subseteq Nat \ {0}
    /\ Debug \in BOOLEAN

VARIABLES
    ident,         \* lengths of init_data.hostname (0: not set yet) and .cluster_name
    wpc,           \* where a writer is
    next,          \* where it goes on after a diagnostic
    raw,           \* it called daapLogRawWrite()
    msg_len,       \* what vfprintf() returned, -1 on error; at most MaxMsg
    full_message,  \* the message, of length -1 while nothing was written to it
    line,          \* influx_str: the bytes left of each part, a quote in the body
    print_mutex,
    output_str,    \* whose text the static buffer of deformat() holds
    asked,         \* history: length of the message when it was measured
    passed         \* history: length of the message when it was formatted

textVars == <<vars, ident, wpc, next, raw, msg_len, full_message, line,
              print_mutex, output_str, asked, passed>>
printVars == <<print_mutex, output_str>>

NoMessage == [len |-> -1, quote |-> 0]
NoText == [head |-> 0, body |-> 0, quote |-> 0, close |-> 0, stamp |-> 0]

TextInit ==
    /\ Init
    /\ ident = [host |-> 0, cluster |-> 0]
    /\ wpc = [w \in Writers |-> "idle"]
    /\ next = [w \in Writers |-> "idle"]
    /\ raw = [w \in Writers |-> FALSE]
    /\ msg_len = [w \in Writers |-> 0]
    /\ full_message = [w \in Writers |-> NoMessage]
    /\ line = [w \in Writers |-> NoText]
    /\ print_mutex = NoWriter
    /\ output_str = NoWriter
    /\ asked = [w \in Writers |-> 0]
    /\ passed = [w \in Writers |-> 0]

Least(a, b) == IF a <= b THEN a ELSE b

(* The first n bytes of a message.                                         *)
Cut(m, n) == [len |-> Least(m.len, n), quote |-> IF m.quote <= n THEN m.quote ELSE 0]

-----------------------------------------------------------------------------
(* The identity: the host name of daap_gethostname(), or of                *)
(* SLURMD_NODENAME, which is a lookup that succeeds at once; and the       *)
(* cluster name, which is empty without SLURM_CLUSTER_NAME.                *)
SetIdentity ==
    /\ ident.host = 0
    /\ result = "success"
    /\ \E c \in Clusters : ident' = [host |-> count, cluster |-> c]
    /\ UNCHANGED <<vars, wpc, next, raw, msg_len, full_message, line, printVars, asked, passed>>

(* daap,appname=..,hostname=..,cluster=..,mpirank=.. message= and a quote  *)
HeadLen(i) == 5 + (8 + AppLen) + (10 + i.host) + (9 + i.cluster) + (9 + RankLen) + 10

(* Bytes snprintf() leaves of a part of n bytes that others precede.       *)
Kept(n, before) ==
    IF before >= MaxLine - 1 THEN 0 ELSE Least(n, MaxLine - 1 - before)

-----------------------------------------------------------------------------
(* Faulty variants: the message is cut to fit, so that the line always     *)
(* looks complete ...                                                      *)
daapBuildInfluxFits(i, m) ==
    LET body == Cut(m, MaxLine - 1 - HeadLen(i) - 2 - StampLen) IN
    [head |-> HeadLen(i), body |-> body.len, quote |-> body.quote,
     close |-> 2, stamp |-> StampLen]

(* ... snprintf() is given the size without the time stamp ...             *)
daapBuildInfluxShort(i, m) ==
    LET cut(n, before) == IF before >= MaxLine - StampLen THEN 0
                          ELSE Least(n, MaxLine - StampLen - before) IN
    [head  |-> cut(HeadLen(i), 0),
     body  |-> cut(m.len, HeadLen(i)),
     quote |-> Cut(m, cut(m.len, HeadLen(i))).quote,
     close |-> cut(2, HeadLen(i) + m.len),
     stamp |-> cut(StampLen, HeadLen(i) + m.len + 2)]

(* ... the formatting relies on the length measured before ...             *)
FormatUnbounded(w) ==
    /\ wpc[w] = "format"
    /\ \E m \in Messages[w] :
         /\ passed' = [passed EXCEPT ![w] = m.len]
         /\ full_message' = [full_message EXCEPT ![w] = m]
    /\ wpc' = [wpc EXCEPT ![w] = "build"]
    /\ UNCHANGED <<vars, ident, next, raw, msg_len, line, printVars, asked>>

(* ... and diagnostics are printed without print_mutex.                    *)
PrintLockUnguarded(w) ==
    /\ wpc[w] = "p_lock"
    /\ print_mutex' = w
    /\ wpc' = [wpc EXCEPT ![w] = "p_text"]
    /\ UNCHANGED <<vars, ident, next, raw, msg_len, full_message, line, output_str, asked, passed>>

-----------------------------------------------------------------------------
(* daapBuildInflux(), daapBuildRawInflux(): the line, cut by snprintf().   *)
daapBuildInflux(i, m) ==
    [head  |-> Kept(HeadLen(i), 0),
     body  |-> Kept(m.len, HeadLen(i)),
     quote |-> Cut(m, Kept(m.len, HeadLen(i))).quote,
     close |-> Kept(2, HeadLen(i) + m.len),
     stamp |-> Kept(StampLen, HeadLen(i) + m.len + 2)]

daapBuildRawInflux(m) == [NoText EXCEPT !.head = Kept(5, 0), !.body = Kept(m.len, 5)]

(* Go on at l, or print a diagnostic first.                                *)
PrintThen(w, print, l) ==
    /\ next' = [next EXCEPT ![w] = l]
    /\ wpc' = [wpc EXCEPT ![w] = IF print THEN "p_lock" ELSE l]

(* A call of daapLogWrite() or daapLogRawWrite() after daapInit().         *)
BeginWrite(w) ==
    /\ wpc[w] = "idle"
    /\ ident.host > 0
    /\ \E r \in BOOLEAN : raw' = [raw EXCEPT ![w] = r]
    /\ wpc' = [wpc EXCEPT ![w] = "measure"]
    /\ UNCHANGED <<vars, ident, next, msg_len, full_message, line, printVars, asked, passed>>

(* The message is printed to /dev/null to learn its length; a longer one   *)
(* than DAAP_MAX_MSG_LEN is reported and will be cut.                      *)
Measure(w) ==
    /\ wpc[w] = "measure"
    /\ \E m \in Messages[w] :
         /\ asked' = [asked EXCEPT ![w] = m.len]
         /\ msg_len' = [msg_len EXCEPT ![w] = Least(m.len, MaxMsg)]
         /\ PrintThen(w, m.len > MaxMsg, "format")
    /\ UNCHANGED <<vars, ident, raw, full_message, line, printVars, passed>>

(* vfprintf() fails, on a wide character it cannot convert: the size given *)
(* to vsnprintf() is then 0 and full_message is read as it was on the      *)
(* stack.                                                                  *)
MeasureFails(w) ==
    /\ wpc[w] = "measure"
    /\ msg_len' = [msg_len EXCEPT ![w] = -1]
    /\ wpc' = [wpc EXCEPT ![w] = "undefined"]
    /\ UNCHANGED <<vars, ident, next, raw, full_message, line, printVars, asked, passed>>

(* The message is formatted again.  Strings it is made of may have been    *)
(* changed meanwhile by other threads of the application.                  *)
Format(w) ==
    /\ wpc[w] = "format"
    /\ \E m \in Messages[w] :
         /\ passed' = [passed EXCEPT ![w] = m.len]
         /\ full_message' = [full_message EXCEPT ![w] = Cut(m, msg_len[w])]
    /\ PrintThen(w, Debug, "build")
    /\ UNCHANGED <<vars, ident, raw, msg_len, line, printVars, asked>>

Build(w) ==
    /\ wpc[w] = "build"
    /\ line' = [line EXCEPT ![w] =
         IF raw[w] THEN daapBuildRawInflux(full_message[w])
                   ELSE daapBuildInflux(ident, full_message[w])]
    /\ PrintThen(w, Debug, "send")
    /\ UNCHANGED <<vars, ident, raw, msg_len, full_message, printVars, asked, passed>>

(* syslog(), or daapTCPLogWrite() of strlen(influx_str) bytes and a        *)
(* diagnostic; free the line and return.                                   *)
Send(w) ==
    /\ wpc[w] = "send"
    /\ \E tcp \in BOOLEAN : PrintThen(w, Debug /\ tcp, "idle")
    /\ raw' = [raw EXCEPT ![w] = FALSE]
    /\ msg_len' = [msg_len EXCEPT ![w] = 0]
    /\ full_message' = [full_message EXCEPT ![w] = NoMessage]
    /\ line' = [line EXCEPT ![w] = NoText]
    /\ asked' = [asked EXCEPT ![w] = 0]
    /\ passed' = [passed EXCEPT ![w] = 0]
    /\ UNCHANGED <<vars, ident, printVars>>

-----------------------------------------------------------------------------
(* ERROR_OUTPUT and DEBUG_OUTPUT: lock; deformat() fills the static buffer *)
(* and returns it; fprintf() prints it; unlock.                            *)
PrintLock(w) ==
    /\ wpc[w] = "p_lock"
    /\ print_mutex = NoWriter
    /\ print_mutex' = w
    /\ wpc' = [wpc EXCEPT ![w] = "p_text"]
    /\ UNCHANGED <<vars, ident, next, raw, msg_len, full_message, line, output_str, asked, passed>>

deformat(w) ==
    /\ wpc[w] = "p_text"
    /\ output_str' = w
    /\ wpc' = [wpc EXCEPT ![w] = "p_out"]
    /\ UNCHANGED <<vars, ident, next, raw, msg_len, full_message, line, print_mutex, asked, passed>>

PrintOut(w) ==
    /\ wpc[w] = "p_out"
    /\ print_mutex' = NoWriter
    /\ wpc' = [wpc EXCEPT ![w] = next[w]]
    /\ UNCHANGED <<vars, ident, next, raw, msg_len, full_message, line, output_str, asked, passed>>

WriterStep(w) ==
    \/ BeginWrite(w) \/ Measure(w) \/ MeasureFails(w) \/ Format(w) \/ Build(w) \/ Send(w)
    \/ PrintLock(w) \/ deformat(w) \/ PrintOut(w)

HostStep ==
    /\ Next
    /\ UNCHANGED <<ident, wpc, next, raw, msg_len, full_message, line, printVars, asked, passed>>

TextNext == HostStep \/ SetIdentity \/ \E w \in Writers : WriterStep(w)

TextSpec == TextInit /\ [][TextNext]_textVars

-----------------------------------------------------------------------------
(* How a collector reads a line of daapLogWrite(): every tag has a value,  *)
(* the field's string is closed, by the quote after the message or by one  *)
(* in it, and a time may follow.  What follows a quote of the message may  *)
(* not read as fields or a time; this accepts all such lines.              *)
Accepted(w) ==
    /\ ~raw[w]
    /\ ident.cluster > 0
    /\ line[w].head = HeadLen(ident)
    /\ line[w].quote > 0 \/ line[w].close > 0

(* Length of what a collector takes for the message.                       *)
ReadLen(w) == IF line[w].quote > 0 THEN line[w].quote - 1 ELSE line[w].body

(* Length of the line before snprintf() cuts it.                           *)
LineLen(w) == HeadLen(ident) + full_message[w].len + 2 + StampLen

TextTypeOK ==
    /\ TypeOK
    /\ ident \in [host : Nat, cluster : Nat]
    /\ wpc \in [Writers -> {"idle", "measure", "format", "build", "send",
                           "p_lock", "p_text", "p_out", "undefined"}]
    /\ next \in [Writers -> {"idle", "format", "build", "send"}]
    /\ raw \in [Writers -> BOOLEAN]
    /\ msg_len \in [Writers -> Nat \cup {-1}]
    /\ full_message \in [Writers -> [len : Nat \cup {-1}, quote : Nat]]
    /\ line \in [Writers -> [head : Nat, body : Nat, quote : Nat, close : Nat, stamp : Nat]]
    /\ print_mutex \in Writers \cup {NoWriter}
    /\ output_str \in Writers \cup {NoWriter}
    /\ asked \in [Writers -> Nat]
    /\ passed \in [Writers -> Nat]

(* daap_log_internal.h:63-102: deformat() returns a static buffer, which   *)
(* fprintf() reads after it has returned: what a thread prints is its own  *)
(* text, not that of another thread that logs at the same time.            *)
DiagnosticsAreOwn == \A w \in Writers : wpc[w] = "p_out" => output_str = w

(* daap_log.c:86-96: the message is measured and formatted in two passes   *)
(* over arguments that may change in between.  Even so full_message[] is   *)
(* not overrun, and an unchanged message loses no more than what was       *)
(* reported as too long.                                                   *)
FormattedInBounds ==
    \A w \in Writers :
        /\ full_message[w].len <= MaxMsg
        /\ wpc[w] = "build" /\ passed[w] = asked[w] =>
               \/ full_message[w].len = asked[w]
               \/ asked[w] > MaxMsg /\ full_message[w].len = MaxMsg

(* daap_log.c:276-290: the line is cut without a check.  Whatever the host *)
(* name and the message, a line that still reads as complete gives the     *)
(* message as it was formatted, or all of it up to its first quote, which  *)
(* the code does not escape: where snprintf() cuts a line never makes a    *)
(* shorter message of it.                                                  *)
AcceptedIsWhole ==
    \A w \in Writers :
        wpc[w] = "send" /\ Accepted(w) =>
            /\ ReadLen(w) <= asked[w]
            /\ LET m == full_message[w] IN
               ReadLen(w) = IF m.quote > 0 THEN m.quote - 1 ELSE m.len

(* A line that reads as complete has the time of its call, except that the *)
(* lines which are too long by at most StampLen + 1 bytes lose digits of   *)
(* their time, or all of it, and nothing else, and that a longer line may  *)
(* lose it if a quote of its message is left (daap_log.c:280-287).         *)
FalseTimeOnlyAtTheEdge ==
    \A w \in Writers :
        wpc[w] = "send" /\ Accepted(w) =>
            LET excess == LineLen(w) - (MaxLine - 1) IN
            \/ line[w].stamp = StampLen
            \/ excess \in 1 .. StampLen + 1
            \/ excess > StampLen + 1 /\ full_message[w].quote > 0
=============================================================================
