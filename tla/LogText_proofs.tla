--------------------------- MODULE LogText_proofs ---------------------------
(***************************************************************************)
(* Proofs about the host name lookup and the text of a log call, for any   *)
(* number of writers, any lengths of messages and names and any sizes of   *)
(* the buffers.                                                            *)
(***************************************************************************)
EXTENDS LogText, TLAPS

(* At least one byte is offered to gethostname() in every round.            *)
IInv == TypeOK /\ CutOnlyWhereUnseen /\ length > 1

(* A buffer that grows stays a number of bytes.                             *)
LEMMA GrowType ==
    ASSUME TypeOK, length > 1, Grow
    PROVE  /\ length' \in Nat
           /\ length' > 1
           /\ buf' \in {"owned", "given", "freed", "lost"}
           /\ result' \in {"none", "out_of_memory"} \/ UNCHANGED result
BY DEF TypeOK, Grow, Return

(* One round, or giving up, keeps the invariant: a CountOf that is positive *)
(* and less than the bytes offered is the length of the name, or one less   *)
(* than the bytes offered where the library terminates what it cuts.        *)
LEMMA StepInv == IInv /\ [Next]_vars => IInv'
<1> SUFFICES ASSUME IInv, [Next]_vars PROVE IInv'
  OBVIOUS
<1> USE HostnameAssumption DEF IInv
<1>1. CASE TrySucceeds
  <2>1. /\ count' \in Nat
        /\ count' > 0 /\ count' < length - 1 =>
             count' = host \/ (libc = "terminated" /\ count' = length - 2 /\ host > count')
    BY <1>1 DEF TrySucceeds, CountOf, TypeOK
  <2>2. CASE count' > 0 /\ count' < length - 1
    BY <1>1, <2>1, <2>2 DEF TrySucceeds, Return, TypeOK, CutOnlyWhereUnseen
  <2>3. CASE ~(count' > 0 /\ count' < length - 1)
    BY <1>1, <2>1, <2>3, GrowType DEF TrySucceeds, TypeOK, CutOnlyWhereUnseen
  <2>4. QED
    BY <2>2, <2>3
<1>2. CASE TryTooSmall
  BY <1>2, GrowType DEF TryTooSmall, TypeOK, CutOnlyWhereUnseen
<1>3. CASE TryFails
  BY <1>3 DEF TryFails, Return, TypeOK, CutOnlyWhereUnseen
<1>4. CASE GiveUp
  BY <1>4 DEF GiveUp, Return, TypeOK, CutOnlyWhereUnseen
<1>5. CASE UNCHANGED vars
  BY <1>5 DEF vars, TypeOK, CutOnlyWhereUnseen
<1>6. QED
  BY <1>1, <1>2, <1>3, <1>4, <1>5 DEF Next

(* A host name that daap_gethostname() returns is terminated inside its     *)
(* buffer, and complete unless the library cut it and terminated it itself. *)
THEOREM ReturnedNameIsWhole == Spec => []CutOnlyWhereUnseen
<1>1. Init => IInv
  BY HostnameAssumption DEF Init, IInv, TypeOK, CutOnlyWhereUnseen
<1>2. QED
  BY <1>1, StepInv, PTL DEF Spec, IInv

-----------------------------------------------------------------------------
(* How often the first buffer fits into the buffer of the n-th round.       *)
Factor(n) ==
    IF n = 0 THEN 1 ELSE IF n = 1 THEN 2 ELSE IF n = 2 THEN 4 ELSE IF n = 3 THEN 8
    ELSE IF n = 4 THEN 16 ELSE IF n = 5 THEN 32 ELSE IF n = 6 THEN 64
    ELSE IF n = 7 THEN 128 ELSE 256

(* After every round the buffer has doubled, because the name did not fit   *)
(* into the half of it; so it is after the last round.                      *)
IRounds ==
    /\ result = "none" =>
           /\ length = FirstLen * Factor(num_tries)
           /\ num_tries > 0 => length <= 2 * (host + 1)
    /\ result = "error" => host + 1 >= FirstLen * 128

(* With eight tries, which is NUM_TRIES_FOR_NULL_HOSTNAME, a name is given  *)
(* up only if it is longer than the largest buffer can hold, whatever the   *)
(* first buffer and whatever gethostname() does with long names.            *)
THEOREM NoShortNameGivenUp ==
    ASSUME NumTries = 8 PROVE Spec => []GivesUpOnlyOnLongNames
<1> USE HostnameAssumption
<1>1. Init => IInv /\ IRounds
  BY DEF Init, IInv, TypeOK, CutOnlyWhereUnseen, IRounds, Factor
<1>2. IInv /\ IRounds /\ [Next]_vars => IRounds'
  <2> SUFFICES ASSUME IInv, IRounds, [Next]_vars PROVE IRounds'
    OBVIOUS
  <2>1. host \in Nat \ {0} /\ length \in Nat /\ num_tries \in 0 .. 8 /\ length > 1
    BY DEF IInv, TypeOK
  <2>2. ASSUME num_tries < 8, num_tries' = num_tries + 1 PROVE Factor(num_tries') = 2 * Factor(num_tries)
    BY <2>1, <2>2 DEF Factor
  <2>3. Factor(num_tries) \in Nat
    BY DEF Factor
  <2>4. ASSUME result = "none", num_tries < 8, num_tries' = num_tries + 1, Grow,
               length <= host + 1, UNCHANGED host
        PROVE  IRounds'
    <3>1. CASE length' = 2 * length /\ UNCHANGED <<result, buf>>
      <4>1. length' = FirstLen * Factor(num_tries')
        <5>1. \A k \in Nat : 2 * (FirstLen * k) = FirstLen * (2 * k)
          OBVIOUS
        <5>2. length = FirstLen * Factor(num_tries) /\ Factor(num_tries') = 2 * Factor(num_tries)
          BY <2>2, <2>4 DEF IRounds
        <5>3. 2 * (FirstLen * Factor(num_tries)) = FirstLen * (2 * Factor(num_tries))
          BY <2>3, <5>1, Zenon
        <5>4. QED
          BY <3>1, <5>2, <5>3, Zenon
      <4>2. length' <= 2 * (host' + 1)
        BY <2>1, <2>4, <3>1
      <4>3. QED
        BY <2>4, <3>1, <4>1, <4>2 DEF IRounds
    <3>2. CASE Return("out_of_memory", "lost")
      BY <3>2 DEF Return, IRounds
    <3>3. QED
      BY <2>4, <3>1, <3>2 DEF Grow
  <2>5. CASE TrySucceeds
    <3>1. CASE count' > 0 /\ count' < length - 1
      BY <2>5, <3>1 DEF TrySucceeds, Return, IRounds
    <3>2. CASE ~(count' > 0 /\ count' < length - 1)
      <4>1. length <= host + 1
        BY <2>1, <2>5, <3>2 DEF TrySucceeds, CountOf
      <4>2. QED
        BY <2>4, <2>5, <3>2, <4>1 DEF TrySucceeds
    <3>3. QED
      BY <3>1, <3>2
  <2>6. CASE TryTooSmall
    <3>1. length <= host + 1
      BY <2>1, <2>6 DEF TryTooSmall
    <3>2. QED
      BY <2>4, <2>6, <3>1 DEF TryTooSmall
  <2>7. CASE TryFails
    BY <2>7 DEF TryFails, Return, IRounds
  <2>8. CASE GiveUp
    <3>1. length = FirstLen * 256 /\ length <= 2 * (host + 1)
      <4>1. result = "none" /\ num_tries = 8 /\ Factor(8) = 256
        BY <2>8 DEF GiveUp, Factor
      <4>2. QED
        BY <4>1 DEF IRounds
    <3>2. host + 1 >= FirstLen * 128
      BY <2>1, <3>1
    <3>3. result' = "error" /\ host' = host
      BY <2>8 DEF GiveUp, Return
    <3>4. QED
      BY <3>2, <3>3 DEF IRounds
  <2>9. CASE UNCHANGED vars
    BY <2>9 DEF vars, IRounds
  <2>10. QED
    BY <2>5, <2>6, <2>7, <2>8, <2>9 DEF Next
<1>3. IInv /\ IRounds => GivesUpOnlyOnLongNames
  <2>1. 2^(NumTries - 1) = 128
    OBVIOUS
  <2>2. QED
    BY <2>1 DEF IInv, TypeOK, IRounds, GivesUpOnlyOnLongNames
<1>4. QED
  BY <1>1, <1>2, <1>3, StepInv, PTL DEF Spec

-----------------------------------------------------------------------------
(* Where a writer is, or will go on when its diagnostic is printed.        *)
Printing == {"p_lock", "p_text", "p_out"}
Place(w) == IF wpc[w] \in Printing THEN next[w] ELSE wpc[w]

(* The holder of print_mutex is the one writer that uses output_str.       *)
IPrint ==
    \A w \in Writers :
        /\ wpc[w] \in {"p_text", "p_out"} => print_mutex = w
        /\ wpc[w] = "p_out" => output_str = w

(* The identity is set before the first log call, and then stays.          *)
IIdent == \A w \in Writers : Place(w) # "idle" => ident.host > 0

(* What the passes over a message have left behind, place by place.        *)
IPasses ==
    \A w \in Writers :
        /\ full_message[w].len <= MaxMsg
        /\ Place(w) \in {"format", "build", "send"} => msg_len[w] = Least(asked[w], MaxMsg)
        /\ Place(w) \in {"build", "send"} =>
               /\ full_message[w].len = Least(passed[w], msg_len[w])
               /\ full_message[w].quote <= full_message[w].len

(* The line is what was built from the message and the identity.           *)
ILine ==
    \A w \in Writers :
        Place(w) = "send" /\ ~raw[w] => line[w] = daapBuildInflux(ident, full_message[w])

TextInv == IInv /\ TextTypeOK /\ IPrint /\ IIdent /\ IPasses /\ ILine

-----------------------------------------------------------------------------
(* A message is cut to the smaller of what it needs and what there is.     *)
LEMMA LeastType ==
    ASSUME NEW a \in Nat, NEW b \in Nat
    PROVE  Least(a, b) \in Nat /\ Least(a, b) <= a /\ Least(a, b) <= b
BY DEF Least

(* snprintf() leaves a number of bytes, and no more than there were.       *)
LEMMA KeptType ==
    ASSUME NEW n \in Nat, NEW before \in Nat
    PROVE  Kept(n, before) \in Nat /\ Kept(n, before) <= n
BY TextAssumption DEF Kept, Least

(* The part of a line before the message has a length.                     *)
LEMMA HeadLenType ==
    ASSUME NEW i \in [host : Nat, cluster : Nat]
    PROVE  HeadLen(i) \in Nat
BY TextAssumption DEF HeadLen

(* A line is four numbers of bytes, whatever was cut.                      *)
LEMMA LineType ==
    ASSUME NEW i \in [host : Nat, cluster : Nat], NEW m \in Message
    PROVE  /\ daapBuildInflux(i, m) \in [head : Nat, body : Nat, quote : Nat, close : Nat, stamp : Nat]
           /\ daapBuildRawInflux(m) \in [head : Nat, body : Nat, quote : Nat, close : Nat, stamp : Nat]
<1>1. /\ HeadLen(i) \in Nat /\ HeadLen(i) + m.len \in Nat /\ HeadLen(i) + m.len + 2 \in Nat
      /\ m.len \in Nat /\ m.quote \in Nat
  BY HeadLenType DEF Message
<1>2. /\ Kept(HeadLen(i), 0) \in Nat /\ Kept(m.len, HeadLen(i)) \in Nat
      /\ Kept(2, HeadLen(i) + m.len) \in Nat /\ Kept(StampLen, HeadLen(i) + m.len + 2) \in Nat
  BY <1>1, KeptType, TextAssumption
<1>3. Kept(5, 0) \in Nat /\ Kept(m.len, 5) \in Nat
  BY <1>1, KeptType
<1>4. Cut(m, Kept(m.len, HeadLen(i))).quote \in Nat
  BY <1>1, <1>2 DEF Cut
<1>5. QED
  BY <1>2, <1>3, <1>4 DEF daapBuildInflux, daapBuildRawInflux, NoText

(* A piece of a message is a message.                                      *)
LEMMA CutType ==
    ASSUME NEW m \in Message, m.quote <= m.len, NEW n \in Nat
    PROVE  /\ Cut(m, n) \in Message
           /\ Cut(m, n).len = Least(m.len, n)
           /\ Cut(m, n).quote <= Cut(m, n).len
<1>1. m.len \in Nat /\ m.quote \in Nat /\ Least(m.len, n) \in Nat
  BY LeastType DEF Message
<1>2. QED
  BY <1>1 DEF Cut, Message, Least

(* snprintf() cuts at the end: where the closing quote is left, the whole  *)
(* message is, and the time is short by no more than the line is too long. *)
LEMMA CutAtTheEnd ==
    ASSUME NEW i \in [host : Nat, cluster : Nat], NEW m \in Message, m.quote <= m.len,
           daapBuildInflux(i, m).close > 0
    PROVE  /\ daapBuildInflux(i, m).body = m.len
           /\ daapBuildInflux(i, m).quote = m.quote
           /\ \/ daapBuildInflux(i, m).stamp = StampLen
              \/ HeadLen(i) + m.len + 2 + StampLen - (MaxLine - 1) \in 1 .. StampLen + 1
<1>1. HeadLen(i) \in Nat /\ m.len \in Nat /\ m.quote \in Nat
  BY HeadLenType DEF Message
<1>2. HeadLen(i) + m.len < MaxLine - 1
  BY <1>1, TextAssumption DEF daapBuildInflux, Kept
<1>3. Kept(m.len, HeadLen(i)) = m.len
  BY <1>1, <1>2, TextAssumption DEF Kept, Least
<1>4. daapBuildInflux(i, m).body = m.len /\ daapBuildInflux(i, m).quote = m.quote
  BY <1>1, <1>3 DEF daapBuildInflux, Cut
<1>5. CASE HeadLen(i) + m.len + 2 + StampLen <= MaxLine - 1
  BY <1>1, <1>4, <1>5, TextAssumption DEF daapBuildInflux, Kept, Least
<1>6. CASE HeadLen(i) + m.len + 2 + StampLen > MaxLine - 1
  BY <1>1, <1>2, <1>4, <1>6, TextAssumption
<1>7. QED
  BY <1>1, <1>5, <1>6, TextAssumption

(* A quote that is left of the message is where it was; with it the time   *)
(* is complete or the line was too long.                                   *)
LEMMA QuoteStays ==
    ASSUME NEW i \in [host : Nat, cluster : Nat], NEW m \in Message,
           daapBuildInflux(i, m).quote > 0
    PROVE  /\ daapBuildInflux(i, m).quote = m.quote
           /\ \/ daapBuildInflux(i, m).stamp = StampLen
              \/ HeadLen(i) + m.len + 2 + StampLen > MaxLine - 1
<1>1. HeadLen(i) \in Nat /\ m.len \in Nat /\ m.quote \in Nat
  BY HeadLenType DEF Message
<1>2. daapBuildInflux(i, m).quote = m.quote
  BY <1>1 DEF daapBuildInflux, Cut
<1>3. HeadLen(i) + m.len + 2 + StampLen <= MaxLine - 1 => daapBuildInflux(i, m).stamp = StampLen
  BY <1>1, TextAssumption DEF daapBuildInflux, Kept, Least
<1>4. QED
  BY <1>1, <1>2, <1>3, TextAssumption

-----------------------------------------------------------------------------
(* A step of a log call is no step of the lookup.                          *)
LEMMA LookupStep == [TextNext]_textVars => [Next]_vars
BY DEF TextNext, HostStep, SetIdentity, WriterStep, BeginWrite, Measure, MeasureFails,
    Format, Build, Send, PrintLock, deformat, PrintOut, textVars, vars

(* What a log call does leaves the host name lookup alone, and the lookup  *)
(* is a behaviour of module Hostname: what is proved there holds here.     *)
THEOREM LookupIsHostname == TextSpec => Spec
<1>1. TextInit => Init
  BY DEF TextInit
<1>2. QED
  BY <1>1, LookupStep, PTL DEF TextSpec, Spec

-----------------------------------------------------------------------------
(* Until a message is measured and formatted its lengths may be -1.        *)
LEMMA PlacedNumbers ==
    ASSUME TextInv, NEW w \in Writers
    PROVE  /\ Place(w) \in {"format", "build", "send"} => msg_len[w] \in Nat
           /\ Place(w) \in {"build", "send"} => full_message[w] \in Message
<1>1. asked[w] \in Nat /\ passed[w] \in Nat /\ MaxMsg \in Nat
  BY TextAssumption DEF TextInv, TextTypeOK
<1>2. Least(asked[w], MaxMsg) \in Nat
  BY <1>1, LeastType
<1>3. Least(passed[w], Least(asked[w], MaxMsg)) \in Nat
  BY <1>1, <1>2, LeastType
<1>4. full_message[w] \in [len : Nat \cup {-1}, quote : Nat]
  BY DEF TextInv, TextTypeOK
<1>5. ASSUME full_message[w].len \in Nat PROVE full_message[w] \in Message
  BY <1>4, <1>5 DEF Message
<1>6. QED
  BY <1>2, <1>3, <1>5 DEF TextInv, IPasses

(* Every step keeps the types.                                             *)
LEMMA TextTypeStep == TextInv /\ [TextNext]_textVars => TextTypeOK'
<1> SUFFICES ASSUME TextInv, [TextNext]_textVars PROVE TextTypeOK'
  OBVIOUS
<1> USE TextAssumption DEF TextInv
<1>0. TypeOK'
  BY LookupStep, StepInv DEF IInv
<1>1. CASE HostStep
  <2>1. UNCHANGED <<ident, wpc, next, raw, msg_len, full_message, line, print_mutex,
                    output_str, asked, passed>>
    BY <1>1 DEF HostStep, printVars
  <2>2. QED
    BY <1>0, <2>1 DEF TextTypeOK
<1>2. CASE SetIdentity
  BY <1>0, <1>2 DEF SetIdentity, printVars, TextTypeOK, TypeOK
<1>3. ASSUME NEW w \in Writers, BeginWrite(w) PROVE TextTypeOK'
  BY <1>0, <1>3 DEF BeginWrite, vars, printVars, TextTypeOK
<1>4. ASSUME NEW w \in Writers, Measure(w) PROVE TextTypeOK'
  <2>1. PICK m \in Messages[w] :
          /\ asked' = [asked EXCEPT ![w] = m.len]
          /\ msg_len' = [msg_len EXCEPT ![w] = Least(m.len, MaxMsg)]
          /\ PrintThen(w, m.len > MaxMsg, "format")
    BY <1>4 DEF Measure
  <2>2. m.len \in Nat /\ Least(m.len, MaxMsg) \in Nat
    BY LeastType DEF Message
  <2>3. wpc' \in [Writers -> {"idle", "measure", "format", "build", "send",
                             "p_lock", "p_text", "p_out", "undefined"}]
        /\ next' \in [Writers -> {"idle", "format", "build", "send"}]
    BY <2>1 DEF PrintThen, TextTypeOK
  <2>4. QED
    BY <1>0, <1>4, <2>1, <2>2, <2>3 DEF Measure, printVars, TextTypeOK
<1>5. ASSUME NEW w \in Writers, MeasureFails(w) PROVE TextTypeOK'
  BY <1>0, <1>5 DEF MeasureFails, vars, printVars, TextTypeOK
<1>6. ASSUME NEW w \in Writers, Format(w) PROVE TextTypeOK'
  <2>1. PICK m \in Messages[w] :
          /\ passed' = [passed EXCEPT ![w] = m.len]
          /\ full_message' = [full_message EXCEPT ![w] = Cut(m, msg_len[w])]
    BY <1>6 DEF Format
  <2>2. msg_len[w] \in Nat
    BY <1>6, PlacedNumbers DEF Format, Place, Printing
  <2>3. m.len \in Nat /\ Cut(m, msg_len[w]) \in [len : Nat \cup {-1}, quote : Nat]
    BY <2>2, CutType DEF Message
  <2>4. QED
    BY <1>0, <1>6, <2>1, <2>3 DEF Format, PrintThen, printVars, TextTypeOK
<1>7. ASSUME NEW w \in Writers, Build(w) PROVE TextTypeOK'
  <2>1. msg_len[w] \in Nat /\ full_message[w] \in Message
    BY <1>7, PlacedNumbers DEF Build, Place, Printing
  <2>2. line'[w] \in [head : Nat, body : Nat, quote : Nat, close : Nat, stamp : Nat]
    BY <1>7, <2>1, LineType DEF Build, TextTypeOK
  <2>3. line' \in [Writers -> [head : Nat, body : Nat, quote : Nat, close : Nat, stamp : Nat]]
    BY <1>7, <2>2 DEF Build, TextTypeOK
  <2>4. QED
    BY <1>0, <1>7, <2>3 DEF Build, PrintThen, printVars, TextTypeOK
<1>8. ASSUME NEW w \in Writers, Send(w) PROVE TextTypeOK'
  <2>1. NoText \in [head : Nat, body : Nat, quote : Nat, close : Nat, stamp : Nat]
    BY DEF NoText
  <2>2. NoMessage \in [len : Nat \cup {-1}, quote : Nat]
    BY DEF NoMessage
  <2>3. QED
    BY <1>0, <1>8, <2>1, <2>2 DEF Send, PrintThen, printVars, TextTypeOK
<1>9. ASSUME NEW w \in Writers, PrintLock(w) PROVE TextTypeOK'
  BY <1>0, <1>9 DEF PrintLock, vars, printVars, TextTypeOK
<1>10. ASSUME NEW w \in Writers, deformat(w) PROVE TextTypeOK'
  BY <1>0, <1>10 DEF deformat, vars, printVars, TextTypeOK
<1>11. ASSUME NEW w \in Writers, PrintOut(w) PROVE TextTypeOK'
  BY <1>0, <1>11 DEF PrintOut, vars, printVars, TextTypeOK
<1>12. CASE UNCHANGED textVars
  BY <1>0, <1>12 DEF textVars, printVars, vars, TextTypeOK
<1>13. QED
  BY <1>1, <1>2, <1>3, <1>4, <1>5, <1>6, <1>7, <1>8, <1>9, <1>10, <1>11, <1>12 DEF TextNext, WriterStep

(* Only the holder of print_mutex writes to output_str or reads it.        *)
LEMMA PrintStep == TextInv /\ [TextNext]_textVars => IPrint'
<1> SUFFICES ASSUME TextInv, [TextNext]_textVars PROVE IPrint'
  OBVIOUS
<1> USE TextAssumption DEF TextInv
<1>1. CASE HostStep
  BY <1>1 DEF HostStep, printVars, TextTypeOK, IPrint
<1>2. CASE SetIdentity
  BY <1>2 DEF SetIdentity, vars, printVars, TextTypeOK, IPrint
<1>3. ASSUME NEW w \in Writers, BeginWrite(w) PROVE IPrint'
  BY <1>3 DEF BeginWrite, vars, printVars, TextTypeOK, IPrint
<1>4. ASSUME NEW w \in Writers, Measure(w) PROVE IPrint'
  BY <1>4 DEF Measure, PrintThen, vars, printVars, TextTypeOK, IPrint
<1>5. ASSUME NEW w \in Writers, MeasureFails(w) PROVE IPrint'
  BY <1>5 DEF MeasureFails, vars, printVars, TextTypeOK, IPrint
<1>6. ASSUME NEW w \in Writers, Format(w) PROVE IPrint'
  BY <1>6 DEF Format, PrintThen, vars, printVars, TextTypeOK, IPrint
<1>7. ASSUME NEW w \in Writers, Build(w) PROVE IPrint'
  BY <1>7 DEF Build, PrintThen, vars, printVars, TextTypeOK, IPrint
<1>8. ASSUME NEW w \in Writers, Send(w) PROVE IPrint'
  BY <1>8 DEF Send, PrintThen, vars, printVars, TextTypeOK, IPrint
<1>9. ASSUME NEW w \in Writers, PrintLock(w) PROVE IPrint'
  BY <1>9 DEF PrintLock, vars, printVars, TextTypeOK, IPrint
<1>10. ASSUME NEW w \in Writers, deformat(w) PROVE IPrint'
  BY <1>10 DEF deformat, vars, printVars, TextTypeOK, IPrint
<1>11. ASSUME NEW w \in Writers, PrintOut(w) PROVE IPrint'
  BY <1>11 DEF PrintOut, vars, printVars, TextTypeOK, IPrint
<1>12. CASE UNCHANGED textVars
  BY <1>12 DEF textVars, printVars, vars, TextTypeOK, IPrint
<1>13. QED
  BY <1>1, <1>2, <1>3, <1>4, <1>5, <1>6, <1>7, <1>8, <1>9, <1>10, <1>11, <1>12 DEF TextNext, WriterStep

(* A log call begins with an identity, and the identity is set once.       *)
LEMMA IdentStep == TextInv /\ [TextNext]_textVars => IIdent'
<1> SUFFICES ASSUME TextInv, [TextNext]_textVars PROVE IIdent'
  OBVIOUS
<1> USE TextAssumption DEF TextInv
<1>1. CASE HostStep
  BY <1>1 DEF HostStep, printVars, TextTypeOK, IIdent, Place, Printing
<1>2. CASE SetIdentity
  BY <1>2 DEF SetIdentity, vars, printVars, TextTypeOK, IIdent, Place, Printing
<1>3. ASSUME NEW w \in Writers, BeginWrite(w) PROVE IIdent'
  BY <1>3 DEF BeginWrite, vars, printVars, TextTypeOK, IIdent, Place, Printing
<1>4. ASSUME NEW w \in Writers, Measure(w) PROVE IIdent'
  BY <1>4 DEF Measure, PrintThen, vars, printVars, TextTypeOK, IIdent, Place, Printing
<1>5. ASSUME NEW w \in Writers, MeasureFails(w) PROVE IIdent'
  BY <1>5 DEF MeasureFails, vars, printVars, TextTypeOK, IIdent, Place, Printing
<1>6. ASSUME NEW w \in Writers, Format(w) PROVE IIdent'
  BY <1>6 DEF Format, PrintThen, vars, printVars, TextTypeOK, IIdent, Place, Printing
<1>7. ASSUME NEW w \in Writers, Build(w) PROVE IIdent'
  BY <1>7 DEF Build, PrintThen, vars, printVars, TextTypeOK, IIdent, Place, Printing
<1>8. ASSUME NEW w \in Writers, Send(w) PROVE IIdent'
  BY <1>8 DEF Send, PrintThen, vars, printVars, TextTypeOK, IIdent, Place, Printing
<1>9. ASSUME NEW w \in Writers, PrintLock(w) PROVE IIdent'
  BY <1>9 DEF PrintLock, vars, printVars, TextTypeOK, IIdent, Place, Printing
<1>10. ASSUME NEW w \in Writers, deformat(w) PROVE IIdent'
  BY <1>10 DEF deformat, vars, printVars, TextTypeOK, IIdent, Place, Printing
<1>11. ASSUME NEW w \in Writers, PrintOut(w) PROVE IIdent'
  BY <1>11 DEF PrintOut, vars, printVars, TextTypeOK, IIdent, Place, Printing
<1>12. CASE UNCHANGED textVars
  BY <1>12 DEF textVars, printVars, vars, TextTypeOK, IIdent, Place, Printing
<1>13. QED
  BY <1>1, <1>2, <1>3, <1>4, <1>5, <1>6, <1>7, <1>8, <1>9, <1>10, <1>11, <1>12 DEF TextNext, WriterStep

(* The second pass over a message is limited by what the first one found.  *)
LEMMA PassesStep == TextInv /\ [TextNext]_textVars => IPasses'
<1> SUFFICES ASSUME TextInv, [TextNext]_textVars PROVE IPasses'
  OBVIOUS
<1> USE TextAssumption DEF TextInv
<1>1. CASE HostStep
  BY <1>1 DEF HostStep, printVars, TextTypeOK, IPasses, Place, Printing, Least
<1>2. CASE SetIdentity
  BY <1>2 DEF SetIdentity, vars, printVars, TextTypeOK, IPasses, Place, Printing, Least
<1>3. ASSUME NEW w \in Writers, BeginWrite(w) PROVE IPasses'
  BY <1>3 DEF BeginWrite, vars, printVars, TextTypeOK, IPasses, Place, Printing, Least
<1>4. ASSUME NEW w \in Writers, Measure(w) PROVE IPasses'
  BY <1>4 DEF Measure, PrintThen, vars, printVars, TextTypeOK, IPasses, Place, Printing, Least
<1>5. ASSUME NEW w \in Writers, MeasureFails(w) PROVE IPasses'
  BY <1>5 DEF MeasureFails, vars, printVars, TextTypeOK, IPasses, Place, Printing, Least
<1>6. ASSUME NEW w \in Writers, Format(w) PROVE IPasses'
  <2>1. PICK m \in Messages[w] :
          /\ passed' = [passed EXCEPT ![w] = m.len]
          /\ full_message' = [full_message EXCEPT ![w] = Cut(m, msg_len[w])]
    BY <1>6 DEF Format
  <2>2. msg_len[w] \in Nat /\ msg_len[w] = Least(asked[w], MaxMsg)
    BY <1>6, PlacedNumbers DEF Format, IPasses, Place, Printing
  <2>3. m.len \in Nat /\ Cut(m, msg_len[w]).len = Least(m.len, msg_len[w])
        /\ Cut(m, msg_len[w]).quote <= Cut(m, msg_len[w]).len
    BY <2>2, CutType DEF Message
  <2>4. Least(m.len, msg_len[w]) <= MaxMsg
    BY <2>2, <2>3 DEF Least, TextTypeOK
  <2>5. QED
    BY <1>6, <2>1, <2>2, <2>3, <2>4 DEF Format, PrintThen, vars, printVars, TextTypeOK, IPasses,
        Place, Printing
<1>7. ASSUME NEW w \in Writers, Build(w) PROVE IPasses'
  BY <1>7 DEF Build, PrintThen, vars, printVars, TextTypeOK, IPasses, Place, Printing, Least
<1>8. ASSUME NEW w \in Writers, Send(w) PROVE IPasses'
  BY <1>8 DEF Send, NoMessage, PrintThen, vars, printVars, TextTypeOK, IPasses, Place, Printing, Least
<1>9. ASSUME NEW w \in Writers, PrintLock(w) PROVE IPasses'
  BY <1>9 DEF PrintLock, vars, printVars, TextTypeOK, IPasses, Place, Printing, Least
<1>10. ASSUME NEW w \in Writers, deformat(w) PROVE IPasses'
  BY <1>10 DEF deformat, vars, printVars, TextTypeOK, IPasses, Place, Printing, Least
<1>11. ASSUME NEW w \in Writers, PrintOut(w) PROVE IPasses'
  BY <1>11 DEF PrintOut, vars, printVars, TextTypeOK, IPasses, Place, Printing, Least
<1>12. CASE UNCHANGED textVars
  BY <1>12 DEF textVars, printVars, vars, TextTypeOK, IPasses, Place, Printing, Least
<1>13. QED
  BY <1>1, <1>2, <1>3, <1>4, <1>5, <1>6, <1>7, <1>8, <1>9, <1>10, <1>11, <1>12 DEF TextNext, WriterStep

(* The line is built from the message and the identity as they stay.       *)
LEMMA LineStep == TextInv /\ [TextNext]_textVars => ILine'
<1> SUFFICES ASSUME TextInv, [TextNext]_textVars PROVE ILine'
  OBVIOUS
<1> USE TextAssumption DEF TextInv
<1>1. CASE HostStep
  BY <1>1 DEF HostStep, printVars, TextTypeOK, IIdent, ILine, Place, Printing
<1>2. CASE SetIdentity
  BY <1>2 DEF SetIdentity, vars, printVars, TextTypeOK, IIdent, ILine, Place, Printing
<1>3. ASSUME NEW w \in Writers, BeginWrite(w) PROVE ILine'
  BY <1>3 DEF BeginWrite, vars, printVars, TextTypeOK, IIdent, ILine, Place, Printing
<1>4. ASSUME NEW w \in Writers, Measure(w) PROVE ILine'
  BY <1>4 DEF Measure, PrintThen, vars, printVars, TextTypeOK, IIdent, ILine, Place, Printing
<1>5. ASSUME NEW w \in Writers, MeasureFails(w) PROVE ILine'
  BY <1>5 DEF MeasureFails, vars, printVars, TextTypeOK, IIdent, ILine, Place, Printing
<1>6. ASSUME NEW w \in Writers, Format(w) PROVE ILine'
  BY <1>6 DEF Format, PrintThen, vars, printVars, TextTypeOK, IIdent, ILine, Place, Printing
<1>7. ASSUME NEW w \in Writers, Build(w) PROVE ILine'
  BY <1>7 DEF Build, PrintThen, vars, printVars, TextTypeOK, IIdent, ILine, Place, Printing
<1>8. ASSUME NEW w \in Writers, Send(w) PROVE ILine'
  BY <1>8 DEF Send, PrintThen, vars, printVars, TextTypeOK, IIdent, ILine, Place, Printing
<1>9. ASSUME NEW w \in Writers, PrintLock(w) PROVE ILine'
  BY <1>9 DEF PrintLock, vars, printVars, TextTypeOK, IIdent, ILine, Place, Printing
<1>10. ASSUME NEW w \in Writers, deformat(w) PROVE ILine'
  BY <1>10 DEF deformat, vars, printVars, TextTypeOK, IIdent, ILine, Place, Printing
<1>11. ASSUME NEW w \in Writers, PrintOut(w) PROVE ILine'
  BY <1>11 DEF PrintOut, vars, printVars, TextTypeOK, IIdent, ILine, Place, Printing
<1>12. CASE UNCHANGED textVars
  BY <1>12 DEF textVars, printVars, vars, TextTypeOK, IIdent, ILine, Place, Printing
<1>13. QED
  BY <1>1, <1>2, <1>3, <1>4, <1>5, <1>6, <1>7, <1>8, <1>9, <1>10, <1>11, <1>12 DEF TextNext, WriterStep

-----------------------------------------------------------------------------
(* The invariant is inductive.                                             *)
LEMMA TextInvariance == TextSpec => []TextInv
<1>1. TextInit => TextInv
  <2> SUFFICES ASSUME TextInit PROVE TextInv
    OBVIOUS
  <2> USE TextAssumption DEF TextInit
  <2>1. IInv
    BY HostnameAssumption DEF Init, IInv, TypeOK, CutOnlyWhereUnseen
  <2>2. TextTypeOK
    BY <2>1 DEF IInv, TextTypeOK, NoText, NoMessage
  <2>3. IPrint /\ IIdent /\ IPasses /\ ILine
    BY DEF IPrint, IIdent, IPasses, ILine, Place, Printing, NoMessage
  <2>4. QED
    BY <2>1, <2>2, <2>3 DEF TextInv
<1>2. TextInv /\ [TextNext]_textVars => TextInv'
  <2>1. IInv /\ [TextNext]_textVars => IInv'
    BY LookupStep, StepInv
  <2>2. QED
    BY <2>1, TextTypeStep, PrintStep, IdentStep, PassesStep, LineStep DEF TextInv
<1>3. QED
  BY <1>1, <1>2, PTL DEF TextSpec

(* The types of the text model hold for any number of writers.             *)
THEOREM TextTypeCorrect == TextSpec => []TextTypeOK
<1>1. TextInv => TextTypeOK
  BY DEF TextInv
<1>2. QED
  BY TextInvariance, <1>1, PTL

(* Whatever the number of threads that log at a time, print_mutex keeps    *)
(* the static buffer of deformat() for the thread that prints it.          *)
THEOREM DiagnosticsNotMixed == TextSpec => []DiagnosticsAreOwn
<1>1. TextInv => DiagnosticsAreOwn
  BY DEF TextInv, IPrint, DiagnosticsAreOwn
<1>2. QED
  BY TextInvariance, <1>1, PTL

(* full_message[] is not overrun when the arguments of a message change    *)
(* between its two passes, and an unchanged message is cut only at         *)
(* DAAP_MAX_MSG_LEN.                                                       *)
THEOREM MessagesStayInBounds == TextSpec => []FormattedInBounds
<1>1. TextInv => FormattedInBounds
  <2> SUFFICES ASSUME TextInv, NEW w \in Writers
               PROVE  /\ full_message[w].len <= MaxMsg
                      /\ wpc[w] = "build" /\ passed[w] = asked[w] =>
                           \/ full_message[w].len = asked[w]
                           \/ asked[w] > MaxMsg /\ full_message[w].len = MaxMsg
    BY DEF FormattedInBounds
  <2>1. full_message[w].len <= MaxMsg
    BY DEF TextInv, IPasses
  <2>2. ASSUME wpc[w] = "build", passed[w] = asked[w]
        PROVE  \/ full_message[w].len = asked[w]
               \/ asked[w] > MaxMsg /\ full_message[w].len = MaxMsg
    <3>1. /\ asked[w] \in Nat
          /\ full_message[w].len = Least(asked[w], Least(asked[w], MaxMsg))
      BY <2>2 DEF TextInv, TextTypeOK, IPasses, Place, Printing
    <3>2. QED
      BY <3>1, TextAssumption DEF Least
  <2>3. QED
    BY <2>1, <2>2
<1>2. QED
  BY TextInvariance, <1>1, PTL

(* What a writer about to send an accepted line holds.                     *)
LEMMA AcceptedLine ==
    ASSUME TextInv, NEW w \in Writers, wpc[w] = "send", Accepted(w)
    PROVE  /\ full_message[w] \in Message /\ full_message[w].len <= asked[w]
           /\ asked[w] \in Nat
           /\ full_message[w].quote <= full_message[w].len
           /\ ident \in [host : Nat, cluster : Nat]
           /\ line[w] = daapBuildInflux(ident, full_message[w])
           /\ line[w].quote > 0 \/ line[w].close > 0
<1>1. /\ asked[w] \in Nat /\ passed[w] \in Nat
      /\ full_message[w].len = Least(passed[w], Least(asked[w], MaxMsg))
      /\ full_message[w].quote <= full_message[w].len
  BY DEF TextInv, TextTypeOK, IPasses, Place, Printing
<1>2. full_message[w].len <= asked[w]
  BY <1>1, TextAssumption DEF Least
<1>3. full_message[w] \in Message
  BY PlacedNumbers DEF Place, Printing
<1>4. line[w] = daapBuildInflux(ident, full_message[w])
  BY DEF TextInv, ILine, Place, Printing, Accepted
<1>5. QED
  BY <1>1, <1>2, <1>3, <1>4 DEF Accepted, TextInv, TextTypeOK

(* Whatever the sizes, a line that was cut and still reads as complete     *)
(* gives the message whole, or up to its first quote.                      *)
THEOREM AcceptedLinesAreWhole == TextSpec => []AcceptedIsWhole
<1>1. TextInv => AcceptedIsWhole
  <2> SUFFICES ASSUME TextInv, NEW w \in Writers, wpc[w] = "send", Accepted(w)
               PROVE  /\ ReadLen(w) <= asked[w]
                      /\ ReadLen(w) = IF full_message[w].quote > 0
                                        THEN full_message[w].quote - 1
                                        ELSE full_message[w].len
    BY DEF AcceptedIsWhole
  <2> DEFINE m == full_message[w]
             l == daapBuildInflux(ident, m)
  <2>1. /\ m \in Message /\ m.len <= asked[w] /\ asked[w] \in Nat /\ m.quote <= m.len
        /\ ident \in [host : Nat, cluster : Nat] /\ line[w] = l
        /\ l.quote > 0 \/ l.close > 0
    BY AcceptedLine
  <2>2. m.len \in Nat /\ m.quote \in Nat
    BY <2>1 DEF Message
  <2>3. CASE l.quote > 0
    <3>1. l.quote = m.quote
      BY <2>1, <2>3, QuoteStays
    <3>2. QED
      BY <2>1, <2>2, <2>3, <3>1 DEF ReadLen
  <2>4. CASE ~(l.quote > 0) /\ l.close > 0
    <3>1. l.body = m.len /\ l.quote = m.quote
      BY <2>1, <2>4, CutAtTheEnd
    <3>2. QED
      BY <2>1, <2>2, <2>4, <3>1 DEF ReadLen
  <2>5. QED
    BY <2>1, <2>3, <2>4
<1>2. QED
  BY TextInvariance, <1>1, PTL

(* Whatever the sizes, only a line that is too long by at most the time    *)
(* and two bytes, or one with a quote in its message, can read as complete *)
(* with a false time.                                                      *)
THEOREM FalseTimesAreAtTheEdge == TextSpec => []FalseTimeOnlyAtTheEdge
<1>1. TextInv => FalseTimeOnlyAtTheEdge
  <2> SUFFICES ASSUME TextInv, NEW w \in Writers, wpc[w] = "send", Accepted(w)
               PROVE  \/ line[w].stamp = StampLen
                      \/ LineLen(w) - (MaxLine - 1) \in 1 .. StampLen + 1
                      \/ /\ LineLen(w) - (MaxLine - 1) > StampLen + 1
                         /\ full_message[w].quote > 0
    BY DEF FalseTimeOnlyAtTheEdge
  <2> DEFINE m == full_message[w]
             l == daapBuildInflux(ident, m)
  <2>1. /\ m \in Message /\ m.quote <= m.len
        /\ ident \in [host : Nat, cluster : Nat] /\ line[w] = l
        /\ l.quote > 0 \/ l.close > 0
    BY AcceptedLine
  <2>2. /\ HeadLen(ident) \in Nat /\ StampLen \in Nat /\ MaxLine \in Nat
        /\ m.len \in Nat /\ m.quote \in Nat
    BY <2>1, HeadLenType, TextAssumption DEF Message
  <2>3. LineLen(w) = HeadLen(ident) + m.len + 2 + StampLen
    BY DEF LineLen
  <2>4. CASE l.quote > 0
    <3>1. l.quote = m.quote /\ (l.stamp = StampLen \/ LineLen(w) > MaxLine - 1)
      BY <2>1, <2>3, <2>4, QuoteStays
    <3>2. LineLen(w) \in Nat
      BY <2>2, <2>3
    <3>3. LineLen(w) > MaxLine - 1 =>
            \/ LineLen(w) - (MaxLine - 1) \in 1 .. StampLen + 1
            \/ LineLen(w) - (MaxLine - 1) > StampLen + 1
      BY <2>2, <3>2
    <3>4. full_message[w].quote > 0 /\ (line[w].stamp = StampLen \/ LineLen(w) > MaxLine - 1)
      BY <2>1, <2>4, <3>1
    <3>5. QED
      BY <3>3, <3>4, Zenon
  <2>5. CASE l.close > 0
    <3>0. \/ l.stamp = StampLen
          \/ HeadLen(ident) + m.len + 2 + StampLen - (MaxLine - 1) \in 1 .. StampLen + 1
      BY <2>1, <2>5, CutAtTheEnd
    <3>1. l.stamp = StampLen \/ LineLen(w) - (MaxLine - 1) \in 1 .. StampLen + 1
      BY <2>2, <3>0 DEF LineLen
    <3>2. line[w].stamp = l.stamp
      BY <2>1
    <3>3. QED
      BY <3>1, <3>2, Zenon
  <2>6. QED
    BY <2>1, <2>4, <2>5
<1>2. QED
  BY TextInvariance, <1>1, PTL
=============================================================================
