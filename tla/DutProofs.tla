------------------------------- MODULE DutProofs -------------------------------
(***************************************************************************)
(* Theorems about the pytest plugin, for any texts, patterns and size of   *)
(* the pipe: what is read is what was printed, and expect answers with the *)
(* first line that it finds its pattern in.                                *)
(***************************************************************************)
EXTENDS Dut, SeqLemmas

-----------------------------------------------------------------------------
(* The lines.                                                              *)

(* A line carries the number of its place among those printed, there is    *)
(* room for the one that the child is writing, and the lines read and      *)
(* waiting are the printed ones, in order.                                 *)
LinesInv ==
  /\ buffer \in Seq(Line) /\ pipe \in Seq(Line) /\ printed \in Seq(Line)
  /\ Len(pipe) <= PipeSize
  /\ writing \in {<<>>} \cup {<<t>> : t \in Texts}
  /\ writing # <<>> => Len(printed) < MaxLines
  /\ lost \subseteq DOMAIN printed
  /\ \A n \in DOMAIN printed : printed[n].n = n
  /\ BufferExact

Increasing(s) == \A i, j \in DOMAIN s : i < j => s[i].n < s[j].n
Elements(s)   == {s[i] : i \in DOMAIN s}
Kept(s, gone) == {s[n] : n \in DOMAIN s \ gone}

LEMMA BufferExactIs ==
  BufferExact <=> Increasing(buffer \o pipe) /\ Elements(buffer \o pipe) = Kept(printed, lost)
BY DEF BufferExact, Increasing, Elements, Kept

LEMMA BufferExactNext ==
  ASSUME NEW r, NEW w, NEW g, buffer' \o pipe' = r, printed' = w, lost' = g,
         Increasing(r), Elements(r) = Kept(w, g)
  PROVE  BufferExact'
<1>1. BufferExact' <=> /\ Increasing(buffer' \o pipe')
                       /\ Elements(buffer' \o pipe') = Kept(printed', lost')
  BY DEF BufferExact, Increasing, Elements, Kept
<1> QED
  BY <1>1

LEMMA WriteLines ==
  ASSUME LinesInv, WriteEnds
  PROVE  LinesInv'
<1> DEFINE line == [n |-> Len(printed) + 1, text |-> Head(writing)]
           read == buffer \o pipe
           b == Append(read, line)
           w == Append(printed, line)
<1>1. /\ pipe' = Append(pipe, line) /\ printed' = w /\ writing' = <<>>
      /\ UNCHANGED <<buffer, lost>> /\ Len(pipe) < PipeSize
  BY DEF WriteEnds
<1>2. /\ buffer \in Seq(Line) /\ pipe \in Seq(Line) /\ printed \in Seq(Line)
      /\ lost \subseteq DOMAIN printed /\ Increasing(read) /\ Elements(read) = Kept(printed, lost)
      /\ \A n \in DOMAIN printed : printed[n].n = n
  BY BufferExactIs DEF LinesInv
<1>3. line \in Line /\ line.n = Len(printed) + 1
  <2>1. PICK t \in Texts : writing = <<t>>
    BY DEF WriteEnds, LinesInv
  <2>2. Head(writing) = t /\ Len(printed) \in Nat /\ Len(printed) < MaxLines
    BY <2>1, LenProperties DEF LinesInv
  <2>3. Len(printed) + 1 \in 1..MaxLines
    BY <2>2, DutAssumption
  <2> QED
    BY <2>2, <2>3 DEF Line
<1>4. read \in Seq(Line)
  BY <1>2, ConcatProperties
<1>5. buffer \o Append(pipe, line) = b
  BY <1>2, <1>3, ConcatAppend
<1>6. Append(pipe, line) \in Seq(Line) /\ Len(Append(pipe, line)) = Len(pipe) + 1
  BY <1>2, <1>3, AppendProperties
<1> HIDE DEF line, read
<1>7. /\ w \in Seq(Line) /\ Len(w) = Len(printed) + 1
      /\ \A i \in 1..Len(printed) : w[i] = printed[i]
      /\ w[Len(printed) + 1] = line
  BY <1>2, <1>3, AppendProperties
<1>8. /\ b \in Seq(Line) /\ Len(b) = Len(read) + 1
      /\ \A i \in 1..Len(read) : b[i] = read[i]
      /\ b[Len(read) + 1] = line
  BY <1>3, <1>4, AppendProperties
<1> HIDE DEF b, w
<1>9. /\ DOMAIN w = 1..(Len(printed) + 1) /\ DOMAIN printed = 1..Len(printed)
      /\ DOMAIN b = 1..(Len(read) + 1) /\ DOMAIN read = 1..Len(read)
      /\ Len(printed) \in Nat /\ Len(read) \in Nat
  BY <1>2, <1>4, <1>7, <1>8, LenProperties
<1>10. \A n \in DOMAIN w : w[n].n = n
  BY <1>2, <1>3, <1>7, <1>9
<1>11. lost \subseteq DOMAIN w
  BY <1>2, <1>9
<1>12. Elements(b) = Elements(read) \cup {line}
  <2>1. ASSUME NEW i \in DOMAIN b PROVE b[i] \in Elements(read) \cup {line}
    <3>1. CASE i \in 1..Len(read)
      BY <1>8, <1>9, <3>1 DEF Elements
    <3>2. CASE i = Len(read) + 1
      BY <1>8, <3>2
    <3> QED
      BY <1>9, <3>1, <3>2
  <2>2. ASSUME NEW i \in DOMAIN read PROVE read[i] \in Elements(b)
    <3>1. i \in DOMAIN b /\ b[i] = read[i]
      BY <1>8, <1>9
    <3> QED
      BY <3>1 DEF Elements
  <2>3. line \in Elements(b)
    <3>1. Len(read) + 1 \in DOMAIN b
      BY <1>9
    <3> QED
      BY <3>1, <1>8 DEF Elements
  <2> QED
    BY <2>1, <2>2, <2>3 DEF Elements
<1>13. Kept(w, lost) = Kept(printed, lost) \cup {line}
  <2>1. ASSUME NEW n \in DOMAIN w \ lost PROVE w[n] \in Kept(printed, lost) \cup {line}
    <3>1. CASE n \in 1..Len(printed)
      BY <1>7, <1>9, <2>1, <3>1 DEF Kept
    <3>2. CASE n = Len(printed) + 1
      BY <1>7, <3>2
    <3> QED
      BY <1>9, <3>1, <3>2
  <2>2. ASSUME NEW n \in DOMAIN printed \ lost PROVE printed[n] \in Kept(w, lost)
    <3>1. n \in DOMAIN w \ lost /\ w[n] = printed[n]
      BY <1>7, <1>9
    <3> QED
      BY <3>1 DEF Kept
  <2>3. line \in Kept(w, lost)
    <3>1. Len(printed) + 1 \in DOMAIN w \ lost
      BY <1>2, <1>9
    <3> QED
      BY <3>1, <1>7 DEF Kept
  <2> QED
    BY <2>1, <2>2, <2>3 DEF Kept
<1>14. Increasing(b)
  <2> SUFFICES ASSUME NEW i \in DOMAIN b, NEW j \in DOMAIN b, i < j
               PROVE  b[i].n < b[j].n
    BY DEF Increasing
  <2>1. i \in DOMAIN read /\ b[i] = read[i]
    BY <1>8, <1>9
  <2>2. CASE j \in 1..Len(read)
    BY <1>2, <1>8, <1>9, <2>1, <2>2 DEF Increasing
  <2>3. CASE j = Len(read) + 1
    <3>1. read[i] \in Kept(printed, lost)
      BY <1>2, <2>1 DEF Elements
    <3>2. PICK n \in DOMAIN printed : read[i] = printed[n]
      BY <3>1 DEF Kept
    <3>3. read[i].n = n
      BY <1>2, <3>2
    <3>4. n < Len(printed) + 1
      BY <1>9
    <3> QED
      BY <1>3, <1>8, <2>1, <2>3, <3>3, <3>4
  <2> QED
    BY <1>9, <2>2, <2>3
<1>15. BufferExact'
  <2>1. buffer' \o pipe' = b /\ printed' = w /\ lost' = lost
    BY <1>1, <1>5
  <2>2. Elements(b) = Kept(w, lost)
    BY <1>2, <1>12, <1>13
  <2> QED
    BY <1>14, <2>1, <2>2, BufferExactNext
<1>16. Len(pipe') <= PipeSize
  <2>1. Len(pipe) \in Nat
    BY <1>2, LenProperties
  <2> QED
    BY <2>1, <1>1, <1>6, DutAssumption
<1> QED
  BY <1>1, <1>2, <1>6, <1>7, <1>10, <1>11, <1>15, <1>16 DEF LinesInv

LEMMA ReadLines ==
  ASSUME LinesInv, LineRead
  PROVE  LinesInv'
<1>1. /\ pipe # <<>> /\ pipe' = Tail(pipe) /\ buffer' = Append(buffer, Head(pipe))
      /\ UNCHANGED <<writing, printed, lost>>
  BY DEF LineRead, Recorded
<1>2. buffer \in Seq(Line) /\ pipe \in Seq(Line) /\ Len(pipe) <= PipeSize
  BY DEF LinesInv
<1>3. /\ Append(buffer, Head(pipe)) \o Tail(pipe) = buffer \o pipe
      /\ Head(pipe) \in Line /\ Tail(pipe) \in Seq(Line)
  BY <1>1, <1>2, ConcatHeadTail
<1>4. Append(buffer, Head(pipe)) \in Seq(Line)
  BY <1>2, <1>3, AppendProperties
<1>5. Len(Tail(pipe)) <= PipeSize
  <2>1. Len(Tail(pipe)) = Len(pipe) - 1 /\ Len(pipe) \in Nat
    BY <1>1, <1>2, HeadTailProperties
  <2> QED
    BY <1>2, <2>1, DutAssumption
<1>6. buffer' \o pipe' = buffer \o pipe
  BY <1>1, <1>3
<1>7. BufferExact'
  BY <1>1, <1>6, BufferExactIs, BufferExactNext DEF LinesInv
<1> QED
  BY <1>1, <1>3, <1>4, <1>5, <1>7 DEF LinesInv

LEMMA StopLines ==
  ASSUME LinesInv, WaitReturns
  PROVE  LinesInv'
<1> DEFINE read == buffer \o pipe
           l == Len(buffer)
           gone == lost \cup {pipe[i].n : i \in DOMAIN pipe}
<1>1. pipe' = <<>> /\ lost' = gone /\ UNCHANGED <<buffer, writing, printed>>
  BY DEF WaitReturns
<1>2. /\ buffer \in Seq(Line) /\ pipe \in Seq(Line) /\ printed \in Seq(Line)
      /\ lost \subseteq DOMAIN printed /\ Increasing(read) /\ Elements(read) = Kept(printed, lost)
      /\ \A n \in DOMAIN printed : printed[n].n = n
  BY BufferExactIs DEF LinesInv
<1>3. /\ read \in Seq(Line) /\ Len(read) = l + Len(pipe)
      /\ \A i \in 1..(l + Len(pipe)) : read[i] = IF i <= l THEN buffer[i] ELSE pipe[i - l]
  BY <1>2, ConcatProperties
<1>4. /\ DOMAIN read = 1..(l + Len(pipe)) /\ DOMAIN buffer = 1..l /\ DOMAIN pipe = 1..Len(pipe)
      /\ l \in Nat /\ Len(pipe) \in Nat
  BY <1>2, <1>3, LenProperties
<1> HIDE DEF read, l
<1>5. \A i \in 1..l : i \in DOMAIN read /\ read[i] = buffer[i]
  BY <1>3, <1>4
<1>6. \A j \in 1..Len(pipe) : l + j \in DOMAIN read /\ read[l + j] = pipe[j]
  <2> SUFFICES ASSUME NEW j \in 1..Len(pipe)
               PROVE  l + j \in DOMAIN read /\ read[l + j] = pipe[j]
    OBVIOUS
  <2>1. l + j \in 1..(l + Len(pipe)) /\ ~(l + j <= l) /\ (l + j) - l = j
    BY <1>4
  <2> QED
    BY <1>3, <1>4, <2>1
<1>7. \A i \in DOMAIN read : \E n \in DOMAIN printed \ lost : read[i] = printed[n] /\ read[i].n = n
  BY <1>2 DEF Elements, Kept
<1>8. gone \subseteq DOMAIN printed
  <2>1. ASSUME NEW j \in DOMAIN pipe PROVE pipe[j].n \in DOMAIN printed
    <3>1. l + j \in DOMAIN read /\ read[l + j] = pipe[j]
      BY <1>4, <1>6
    <3> QED
      BY <3>1, <1>7
  <2> QED
    BY <1>2, <2>1
<1>9. Elements(buffer) = Kept(printed, gone)
  <2>1. ASSUME NEW i \in DOMAIN buffer PROVE buffer[i] \in Kept(printed, gone)
    <3>1. PICK n \in DOMAIN printed \ lost : buffer[i] = printed[n] /\ buffer[i].n = n
      BY <1>4, <1>5, <1>7
    <3>2. ASSUME NEW j \in DOMAIN pipe PROVE pipe[j].n # n
      <4>1. i \in DOMAIN read /\ l + j \in DOMAIN read /\ i < l + j
        BY <1>4, <1>5, <1>6
      <4>2. read[i].n < read[l + j].n
        BY <1>2, <4>1 DEF Increasing
      <4>3. n < pipe[j].n /\ n \in Nat
        BY <1>2, <1>4, <1>5, <1>6, <3>1, <4>2, LenProperties
      <4> QED
        BY <4>3
    <3>3. n \in DOMAIN printed \ gone
      BY <3>1, <3>2
    <3> QED
      BY <3>1, <3>3 DEF Kept
  <2>2. ASSUME NEW n \in DOMAIN printed \ gone PROVE printed[n] \in Elements(buffer)
    <3>1. printed[n] \in Elements(read)
      BY <1>2 DEF Kept
    <3>2. PICK i \in DOMAIN read : read[i] = printed[n]
      BY <3>1 DEF Elements
    <3>3. CASE i \in 1..l
      BY <1>4, <1>5, <3>2, <3>3 DEF Elements
    <3>4. CASE i \notin 1..l
      <4>1. i - l \in 1..Len(pipe) /\ l + (i - l) = i
        BY <1>4, <3>4
      <4>2. pipe[i - l] = printed[n] /\ i - l \in DOMAIN pipe
        BY <1>4, <1>6, <3>2, <4>1
      <4>3. pipe[i - l].n = n
        BY <1>2, <4>2
      <4> QED
        BY <4>2, <4>3
    <3> QED
      BY <3>3, <3>4
  <2> HIDE DEF gone
  <2> QED
    BY <2>1, <2>2 DEF Elements, Kept
<1>10. Increasing(buffer)
  BY <1>2, <1>4, <1>5 DEF Increasing
<1> HIDE DEF gone
<1>11. BufferExact'
  <2>1. buffer \o <<>> = buffer
    BY <1>2, ConcatEmptySeq
  <2>2. buffer' \o pipe' = buffer /\ printed' = printed /\ lost' = gone
    BY <1>1, <2>1
  <2> QED
    BY <1>9, <1>10, <2>2, BufferExactNext
<1>12. Len(<<>>) <= PipeSize /\ <<>> \in Seq(Line)
  BY DutAssumption, EmptySeq
<1> QED
  BY <1>1, <1>8, <1>11, <1>12 DEF LinesInv

LEMMA LinesStep == LinesInv /\ [Next]_vars => LinesInv'
<1> SUFFICES ASSUME LinesInv, [Next]_vars
             PROVE  LinesInv'
  OBVIOUS
<1>0. ASSUME UNCHANGED <<pipe, printed, lost, buffer>>
      PROVE  BufferExact'
  <2>1. buffer' \o pipe' = buffer \o pipe
    BY <1>0
  <2> QED
    BY <1>0, <2>1, BufferExactIs, BufferExactNext DEF LinesInv
<1>1. ASSUME UNCHANGED <<pipe, writing, printed, lost, buffer>>
      PROVE  LinesInv'
  BY <1>0, <1>1 DEF LinesInv
<1>2. ASSUME NEW t \in Texts, Write(t)
      PROVE  LinesInv'
  <2>1. /\ writing' = <<t>> /\ Len(printed) < MaxLines
        /\ UNCHANGED <<pipe, printed, lost, buffer>>
    BY <1>2 DEF Write
  <2> QED
    BY <1>0, <2>1 DEF LinesInv
<1>3. CASE Exit \/ Dies
  <2>1. writing' = <<>> /\ UNCHANGED <<pipe, printed, lost, buffer>>
    BY <1>3 DEF Exit, Dies, Gone
  <2> QED
    BY <1>0, <2>1 DEF LinesInv
<1>4. CASE Start \/ Stop \/ DeadlinePasses \/ TimeOut \/ ReadLine \/ EndOfFile \/ WaitTimesOut
  BY <1>1, <1>4 DEF Start, Stop, DeadlinePasses, TimeOut, ReadLine, EndOfFile, WaitTimesOut,
                    childVars
<1>5. ASSUME NEW p \in Patterns, Expect(p)
      PROVE  LinesInv'
  BY <1>1, <1>5 DEF Expect, childVars
<1>6. CASE UNCHANGED vars
  BY <1>1, <1>6 DEF vars, childVars
<1> QED
  BY <1>2, <1>3, <1>4, <1>5, <1>6, WriteLines, ReadLines, StopLines DEF Next, Child

LEMMA LinesInvariant == Spec => []LinesInv
<1>1. Init => LinesInv
  <2> SUFFICES ASSUME Init PROVE LinesInv
    OBVIOUS
  <2>1. <<>> \in Seq(Line) /\ Len(<<>>) = 0 /\ DOMAIN <<>> = {} /\ <<>> \o <<>> = <<>>
    BY EmptySeq
  <2>2. buffer = <<>> /\ pipe = <<>> /\ printed = <<>> /\ writing = <<>> /\ lost = {}
    BY DEF Init
  <2>3. BufferExact
    BY <2>1, <2>2 DEF BufferExact
  <2> QED
    BY <2>1, <2>2, <2>3, DutAssumption DEF LinesInv
<1> QED
  BY <1>1, LinesStep, PTL DEF Spec

(* What expect has read, in order, is what the processes have printed, but *)
(* for the lines that were unread when a process was stopped               *)
(* (plugin.py:52-54, 86, 129, 158, 186-188).                               *)
THEOREM NothingLost == Spec => []BufferExact
<1>1. LinesInv => BufferExact
  BY DEF LinesInv
<1> QED
  BY <1>1, LinesInvariant, PTL

-----------------------------------------------------------------------------
(* What expect answers.                                                    *)

Answer(o) ==
  /\ \/ o = 0 /\ late /\ Matches(pattern) = {}
     \/ Matches(pattern) # {} /\ o = Min(Matches(pattern))
  /\ late => o <= due + 1

(* expect goes on only while it finds its pattern in nothing that was read,*)
(* and reads one line at most after its deadline; what it has answered     *)
(* stays the answer as long as it is there to be looked at.                *)
HonestInv ==
  /\ due \in Nat
  /\ call = "reading" /\ late => Len(buffer) = due
  /\ call \in {"check", "reading"} => Matches(pattern) = {} /\ outcome = <<>>
  /\ outcome # <<>> => \E o \in 0..Len(buffer) : outcome = <<o>> /\ Answer(o)

LEMMA MatchesInBuffer ==
  ASSUME NEW p, buffer \in Seq(Line), Matches(p) # {}
  PROVE  /\ Matches(p) \in SUBSET Nat
         /\ Min(Matches(p)) \in Matches(p) /\ Min(Matches(p)) \in 1..Len(buffer)
<1>1. Matches(p) \in SUBSET Nat /\ Matches(p) \subseteq 1..Len(buffer)
  BY DEF Matches
<1>2. Min(Matches(p)) \in Matches(p)
  BY <1>1, MinProperties
<1> QED
  BY <1>1, <1>2

(* A line that is read and matches is the only one.                        *)
LEMMA LineReadMatches ==
  ASSUME buffer \in Seq(Line), pipe \in Seq(Line), LineRead, Matches(pattern) = {}
  PROVE  /\ buffer' \in Seq(Line) /\ pipe' \in Seq(Line)
         /\ Matches(pattern)' = IF Head(pipe).text \in pattern.found THEN {Len(buffer')} ELSE {}
<1> DEFINE e == Head(pipe)
           b == Append(buffer, e)
<1>1. e \in Line /\ pipe' \in Seq(Line)
  BY HeadTailProperties DEF LineRead
<1>2. buffer' = b /\ pattern' = pattern
  BY DEF LineRead, Recorded
<1> HIDE DEF e
<1>3. /\ b \in Seq(Line) /\ Len(b) = Len(buffer) + 1
      /\ \A i \in 1..Len(buffer) : b[i] = buffer[i]
      /\ b[Len(buffer) + 1] = e
  BY <1>1, AppendProperties
<1> HIDE DEF b
<1>4. DOMAIN b = 1..(Len(buffer) + 1) /\ DOMAIN buffer = 1..Len(buffer) /\ Len(buffer) \in Nat
  BY <1>3, LenProperties
<1>5. \A i \in 1..Len(buffer) : b[i].text \notin pattern.found
  BY <1>3, <1>4 DEF Matches
<1>6. {i \in DOMAIN b : b[i].text \in pattern.found} = IF e.text \in pattern.found THEN {Len(b)} ELSE {}
  <2>1. ASSUME NEW i \in DOMAIN b
        PROVE  b[i].text \in pattern.found <=> i = Len(b) /\ e.text \in pattern.found
    <3>1. CASE i = Len(b)
      BY <1>3, <3>1
    <3>2. CASE i # Len(b)
      <4>1. i \in 1..Len(buffer)
        BY <1>3, <1>4, <2>1, <3>2
      <4> QED
        BY <1>5, <3>2, <4>1
    <3> QED
      BY <3>1, <3>2
  <2>2. Len(b) \in DOMAIN b
    BY <1>3, <1>4
  <2> QED
    BY <2>1, <2>2
<1>7. Matches(pattern)' = {i \in DOMAIN b : b[i].text \in pattern.found}
  BY <1>2 DEF Matches
<1> QED
  BY <1>1, <1>2, <1>3, <1>6, <1>7 DEF e

LEMMA HonestStep == LinesInv /\ HonestInv /\ [Next]_vars => HonestInv'
<1> SUFFICES ASSUME LinesInv, HonestInv, [Next]_vars
             PROVE  HonestInv'
  OBVIOUS
<1>0. buffer \in Seq(Line) /\ pipe \in Seq(Line)
  BY DEF LinesInv
<1>1. ASSUME UNCHANGED <<buffer, pattern, outcome, late, due>>,
             \/ call' = call \/ call' \notin {"check", "reading"}
             \/ call \in {"check", "reading"} /\ (call' = "reading" => ~late)
      PROVE  HonestInv'
  BY <1>1 DEF HonestInv, Answer, Matches
<1>2. CASE \E t \in Texts : Write(t)
  BY <1>0, <1>1, <1>2 DEF Write, callVars
<1>3. CASE WriteEnds \/ Exit \/ Dies \/ Start
  BY <1>1, <1>3 DEF WriteEnds, Exit, Dies, Start, callVars
<1>5. ASSUME NEW p \in Patterns, Expect(p)
      PROVE  HonestInv'
  <2>1. /\ UNCHANGED <<buffer, pipe>> /\ pattern' = p /\ late' = FALSE /\ due' = 0
        /\ Matches(p)' = Matches(p)
    BY <1>5 DEF Expect, childVars, Matches
  <2>2. CASE Matches(p) # {}
    <3>1. outcome' = <<Min(Matches(p))>> /\ call' = "idle"
      BY <1>5, <2>2 DEF Expect
    <3>2. Min(Matches(p)) \in 0..Len(buffer)
      BY <1>0, <2>2, MatchesInBuffer
    <3>3. Matches(pattern)' = Matches(p)
      BY <2>1 DEF Matches
    <3> QED
      BY <1>0, <2>1, <2>2, <3>1, <3>2, <3>3 DEF HonestInv, Answer
  <2>3. CASE Matches(p) = {}
    <3>1. outcome' = <<>> /\ call' = "check"
      BY <1>5, <2>3 DEF Expect
    <3>3. Matches(pattern)' = Matches(p)
      BY <2>1 DEF Matches
    <3> QED
      BY <1>0, <2>1, <2>3, <3>1, <3>3 DEF HonestInv
  <2> QED
    BY <2>2, <2>3
<1>6. CASE Stop \/ WaitTimesOut
  BY <1>0, <1>1, <1>6 DEF Stop, WaitTimesOut, childVars
<1>7. CASE ReadLine \/ EndOfFile
  BY <1>1, <1>7 DEF ReadLine, EndOfFile, Expired, childVars
<1>8. CASE DeadlinePasses
  <2>1. Len(buffer) \in Nat
    BY <1>0, LenProperties
  <2> QED
    BY <1>8, <2>1 DEF DeadlinePasses, childVars, HonestInv, Matches
<1>9. CASE TimeOut
  <2>1. /\ UNCHANGED <<buffer, pipe, pattern, late, due>> /\ call' = "idle" /\ outcome' = <<0>>
        /\ late /\ Matches(pattern) = {} /\ due \in Nat
    BY <1>9 DEF TimeOut, Expired, childVars, HonestInv
  <2>2. Matches(pattern)' = {}
    BY <2>1 DEF Matches
  <2>3. 0 <= due + 1 /\ 0 \in 0..Len(buffer)
    BY <1>0, <2>1, LenProperties
  <2> QED
    BY <2>1, <2>2, <2>3 DEF HonestInv, Answer
<1>10. CASE LineRead
  <2>1. Matches(pattern) = {} /\ outcome = <<>> /\ call = "reading"
    BY <1>10 DEF LineRead, HonestInv
  <2>2. /\ buffer' \in Seq(Line) /\ pipe' \in Seq(Line)
        /\ Matches(pattern)' = IF Head(pipe).text \in pattern.found THEN {Len(buffer')} ELSE {}
    BY <1>0, <1>10, <2>1, LineReadMatches
  <2>3. late' = late /\ (late => Len(buffer) = due)
    BY <1>10, <2>1 DEF LineRead, HonestInv
  <2>4. due' \in Nat /\ due' = due
    BY <1>10 DEF LineRead, HonestInv
  <2>5. CASE Head(pipe).text \in pattern.found
    <3>1. outcome' = <<Len(buffer')>> /\ call' = "idle"
      BY <1>10, <2>5 DEF LineRead
    <3>2. PICK o \in 0..Len(buffer') : o = Len(buffer')
      BY <2>2, LenProperties
    <3>3. Matches(pattern)' # {} /\ o = Min(Matches(pattern)')
      BY <2>2, <2>5, <3>2, MinIs
    <3>4. ASSUME late' PROVE o <= due' + 1
      <4>1. Head(pipe) \in Line /\ buffer' = Append(buffer, Head(pipe))
        BY <1>0, <1>10, HeadTailProperties DEF LineRead, Recorded
      <4>2. Len(buffer') = Len(buffer) + 1
        BY <1>0, <4>1, AppendProperties
      <4>3. Len(buffer) = due
        BY <2>3, <3>4
      <4> QED
        BY <2>4, <3>2, <4>2, <4>3
    <3>5. Answer(o)'
      BY <3>3, <3>4 DEF Answer
    <3> QED
      BY <2>4, <3>1, <3>2, <3>5 DEF HonestInv
  <2>6. CASE Head(pipe).text \notin pattern.found
    <3>1. outcome' = <<>> /\ call' = "check"
      BY <1>10, <2>1, <2>6 DEF LineRead
    <3>2. Matches(pattern)' = {}
      BY <2>2, <2>6
    <3> QED
      BY <2>4, <3>1, <3>2 DEF HonestInv
  <2> QED
    BY <2>5, <2>6
<1>11. CASE WaitReturns
  BY <1>1, <1>11 DEF WaitReturns
<1>12. CASE UNCHANGED vars
  BY <1>0, <1>1, <1>12 DEF vars, childVars, callVars
<1> QED
  BY <1>2, <1>3, <1>5, <1>6, <1>7, <1>8, <1>9, <1>10, <1>11, <1>12 DEF Next, Child

LEMMA HonestInvariant == Spec => []HonestInv
<1>1. Init => HonestInv
  BY DEF Init, HonestInv
<1> QED
  BY <1>1, HonestStep, LinesInvariant, PTL DEF Spec

-----------------------------------------------------------------------------
(* What the invariants above leave to say of the types.                    *)
CallTypes ==
  /\ child \in {"none", "running", "exited"}
  /\ stubborn \in BOOLEAN /\ signal \in {"NONE", "TERM", "KILL"}
  /\ call \in {"idle", "check", "reading", "wait", "term", "kill"}
  /\ pattern \in Patterns \cup {Nothing} /\ late \in BOOLEAN
  /\ starts \in 0..MaxStarts

LEMMA CallTypesStep == CallTypes /\ [Next]_vars => CallTypes'
<1> SUFFICES ASSUME CallTypes, [Next]_vars
             PROVE  CallTypes'
  OBVIOUS
<1> USE DEF CallTypes
<1>1. ASSUME NEW t \in Texts, Write(t)
      PROVE  CallTypes'
  BY <1>1 DEF Write, callVars
<1>2. CASE WriteEnds \/ Exit \/ Dies
  BY <1>2 DEF WriteEnds, Exit, Dies, Gone, callVars
<1>3. CASE Start
  BY <1>3, DutAssumption DEF Start, callVars
<1>4. ASSUME NEW p \in Patterns, Expect(p)
      PROVE  CallTypes'
  BY <1>4 DEF Expect, childVars
<1>5. CASE Stop \/ DeadlinePasses \/ TimeOut \/ ReadLine \/ EndOfFile
  BY <1>5 DEF Stop, DeadlinePasses, TimeOut, ReadLine, EndOfFile, childVars
<1>6. CASE LineRead
  BY <1>6 DEF LineRead
<1>7. CASE WaitTimesOut \/ WaitReturns
  BY <1>7 DEF WaitTimesOut, WaitReturns, LastSignal
<1>8. CASE UNCHANGED vars
  BY <1>8 DEF vars, childVars, callVars
<1> QED
  BY <1>1, <1>2, <1>3, <1>4, <1>5, <1>6, <1>7, <1>8 DEF Next, Child

LEMMA CallTypesInvariant == Spec => []CallTypes
<1>1. Init => CallTypes
  <2>1. 0 \in 0..MaxStarts
    BY DutAssumption
  <2> QED
    BY <2>1 DEF Init, CallTypes
<1> QED
  BY <1>1, CallTypesStep, PTL DEF Spec

(* The variables have the types that plugin.py gives them.                 *)
THEOREM TypeCorrect == Spec => []TypeOK
<1>1. CallTypes /\ LinesInv /\ HonestInv => TypeOK
  <2> SUFFICES ASSUME CallTypes, LinesInv, HonestInv
               PROVE  TypeOK
    OBVIOUS
  <2>1. due \in Nat /\ outcome \in {<<>>} \cup {<<i>> : i \in 0..Len(buffer)}
    BY DEF HonestInv
  <2> QED
    BY <2>1 DEF CallTypes, LinesInv, TypeOK
<1> QED
  BY <1>1, CallTypesInvariant, LinesInvariant, HonestInvariant, PTL

(* expect answers with the first line ever read that it is to find, also   *)
(* one that an earlier call has answered with, and times out only after its*)
(* deadline and with no such line; after its deadline it reads one more at *)
(* most.  What it is to find is what its docstring says but for a compiled *)
(* Pattern (plugin.py:97-101, 118-136, 147-167).                           *)
THEOREM Honesty == Spec => []ExpectHonest
<1>1. CallTypes => Honoured(pattern) = pattern.found
  BY DEF CallTypes, Honoured, Patterns, Nothing, Plain, Searched, Spelled
<1>2. CallTypes /\ HonestInv => ExpectHonest
  <2> SUFFICES ASSUME CallTypes, HonestInv, call = "idle" /\ outcome # <<>>
               PROVE  ExpectHonest
    BY DEF ExpectHonest
  <2>1. PICK o \in 0..Len(buffer) : outcome = <<o>> /\ Answer(o)
    BY DEF HonestInv
  <2>2. outcome[1] = o
    BY <2>1
  <2>3. {i \in DOMAIN buffer : buffer[i].text \in Honoured(pattern)} = Matches(pattern)
    BY <1>1 DEF Matches
  <2> QED
    BY <2>1, <2>2, <2>3 DEF Answer, ExpectHonest
<1> QED
  BY <1>2, CallTypesInvariant, HonestInvariant, PTL
=============================================================================
