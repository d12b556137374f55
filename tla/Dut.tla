--------------------------------- MODULE Dut ---------------------------------
(***************************************************************************)
(* The pytest plugin (src/harness/pytest_pio_emulator/pytest_pio_emulator/ *)
(* plugin.py): Dut runs the firmware's test binary as a child process,     *)
(* expect() reads the child's standard output up to a line that matches,   *)
(* stop() waits for the child, terminates it and at last kills it.         *)
(*                                                                         *)
(* The child is external: it prints lines into a pipe of bounded size,     *)
(* blocks while the pipe is full, and exits, or stays silent, as it likes. *)
(* A line is its number and its text.  A string is the set of the texts    *)
(* that it is found in (expect) or is equal to (expect_exact); a regular   *)
(* expression has the texts that it matches and those that its str() is    *)
(* found in.  Real time is left out: a deadline or a wait may pass at any  *)
(* moment.                                                                 *)
(***************************************************************************)
EXTENDS Naturals, Sequences, SequencesExt, FiniteSetsExt

CONSTANTS
  Texts,     \* what the firmware prints
  Strings,   \* sets of texts
  Regexes,   \* compiled Patterns: [matches, spelled], two sets of texts
  PipeSize,  \* lines that the pipe holds
  MaxLines,  \* bound: lines printed
  MaxStarts  \* bound: processes started

ASSUME DutAssumption ==
  /\ Strings \subseteq SUBSET Texts
  /\ Regexes \subseteq [matches : SUBSET Texts, spelled : SUBSET Texts]
  /\ PipeSize \in Nat \ {0} /\ MaxLines \in Nat /\ MaxStarts \in Nat

VARIABLES
  child,    \* the process: "none" stands for _proc = None
  stubborn, \* does it ignore SIGTERM?
  signal,   \* the signal sent to it
  pipe,     \* the lines printed and not yet read
  writing,  \* the text of the line it is about to print, or is blocked on
  buffer,   \* Dut._buffer
  call,     \* where the test is: "idle" outside of expect and stop
  pattern,  \* the texts that expect looks for, and those that it says it does
  late,     \* has the deadline of expect passed?
  due,      \* history: how many lines had been read when it passed
  outcome,  \* of the last expect: the index in buffer of its line, 0 for DutTimeout
  starts,   \* history: how many processes have been started
  printed,  \* history: every line that left a process
  lost      \* history: the numbers of those in the pipe when it was thrown away

childVars == <<child, stubborn, signal, pipe, writing, printed, lost, starts>>
callVars == <<call, pattern, late, due, outcome>>
vars == <<childVars, buffer, callVars>>

Line == [n : 1..MaxLines, text : Texts]

(* What a call compares with a line, and what its docstring promises:      *)
(* expect and expect_exact of a string, expect_re, and expect of a compiled*)
(* Pattern, for which str(pattern) is looked for in the line.              *)
Plain(s)    == [found |-> s, meant |-> s]
Searched(r) == [found |-> r.matches, meant |-> r.matches]
Spelled(r)  == [found |-> r.spelled, meant |-> r.matches]

Patterns == {Plain(s) : s \in Strings} \cup UNION {{Searched(r), Spelled(r)} : r \in Regexes}
Nothing  == Plain({})

TypeOK ==
  /\ child \in {"none", "running", "exited"}
  /\ stubborn \in BOOLEAN /\ signal \in {"NONE", "TERM", "KILL"}
  /\ pipe \in Seq(Line) /\ Len(pipe) <= PipeSize
  /\ writing \in {<<>>} \cup {<<t>> : t \in Texts}
  /\ buffer \in Seq(Line) /\ printed \in Seq(Line)
  /\ call \in {"idle", "check", "reading", "wait", "term", "kill"}
  /\ pattern \in Patterns \cup {Nothing} /\ late \in BOOLEAN
  /\ due \in Nat
  /\ outcome \in {<<>>} \cup {<<i>> : i \in 0..Len(buffer)}
  /\ lost \subseteq DOMAIN printed
  /\ starts \in 0..MaxStarts

Init ==
  /\ child = "none" /\ stubborn = FALSE /\ signal = "NONE"
  /\ pipe = <<>> /\ writing = <<>>
  /\ buffer = <<>>
  /\ call = "idle" /\ pattern = Nothing /\ late = FALSE /\ due = 0 /\ outcome = <<>>
  /\ starts = 0 /\ printed = <<>> /\ lost = {}

-----------------------------------------------------------------------------
(* The child.                                                              *)

Write(t) ==
  /\ child = "running" /\ writing = <<>>
  /\ Len(printed) < MaxLines
  /\ writing' = <<t>>
  /\ UNCHANGED <<child, stubborn, signal, pipe, printed, lost, starts, buffer, callVars>>

WriteEnds ==
  /\ child = "running" /\ writing # <<>> /\ Len(pipe) < PipeSize
  /\ LET line == [n |-> Len(printed) + 1, text |-> Head(writing)]
     IN  pipe' = Append(pipe, line) /\ printed' = Append(printed, line)
  /\ writing' = <<>>
  /\ UNCHANGED <<child, stubborn, signal, lost, starts, buffer, callVars>>

Gone == child' = "exited" /\ writing' = <<>>

Exit ==
  /\ child = "running" /\ writing = <<>>
  /\ Gone
  /\ UNCHANGED <<stubborn, signal, pipe, printed, lost, starts, buffer, callVars>>

(* A signal that it does not ignore ends it, blocked or not.               *)
Dies ==
  /\ child = "running"
  /\ signal = "KILL" \/ (signal = "TERM" /\ ~stubborn)
  /\ Gone
  /\ UNCHANGED <<stubborn, signal, pipe, printed, lost, starts, buffer, callVars>>

-----------------------------------------------------------------------------
(* Mutated forms of the operators below, used by no definition: a match    *)
(* that is consumed, an expect that looks at new lines only, a loop without*)
(* the deadline, a stop that asks twice.                                   *)
Consumed(line, b) == IF line.text \in pattern.found THEN b ELSE Append(b, line)
LiveOnly(p) == {}
Never == FALSE
AskAgain == "TERM"

-----------------------------------------------------------------------------
(* start: does nothing if there is a process, an exited one included.      *)
Start ==
  /\ call = "idle" /\ child = "none" /\ starts < MaxStarts
  /\ child' = "running" /\ stubborn' \in BOOLEAN /\ signal' = "NONE"
  /\ starts' = starts + 1
  /\ UNCHANGED <<pipe, writing, printed, lost, buffer, callVars>>

-----------------------------------------------------------------------------
(* expect, expect_exact and expect_re.                                     *)

Matches(p) == {i \in DOMAIN buffer : buffer[i].text \in p.found}

Expect(p) ==
  /\ call = "idle"
  /\ pattern' = p /\ late' = FALSE /\ due' = 0
  /\ IF Matches(p) # {}
     THEN call' = "idle" /\ outcome' = <<Min(Matches(p))>>
     ELSE call' = "check" /\ outcome' = <<>>
  /\ UNCHANGED <<childVars, buffer>>

Expired == late

DeadlinePasses ==
  /\ call \in {"check", "reading"} /\ ~late
  /\ late' = TRUE /\ due' = Len(buffer)
  /\ UNCHANGED <<childVars, buffer, call, pattern, outcome>>

TimeOut ==
  /\ call = "check" /\ Expired
  /\ call' = "idle" /\ outcome' = <<0>>
  /\ UNCHANGED <<childVars, buffer, pattern, late, due>>

(* _read_line: without a process the loop spins until the deadline, with   *)
(* one it goes into readline(), which no deadline ends.                    *)
ReadLine ==
  /\ call = "check" /\ ~Expired
  /\ child # "none"
  /\ call' = "reading"
  /\ UNCHANGED <<childVars, buffer, pattern, late, due, outcome>>

(* self._buffer.append(line).                                              *)
Recorded(line, b) == Append(b, line)

LineRead ==
  /\ call = "reading" /\ pipe # <<>>
  /\ pipe' = Tail(pipe)
  /\ buffer' = Recorded(Head(pipe), buffer)
  /\ IF Head(pipe).text \in pattern.found
     THEN call' = "idle" /\ outcome' = <<Len(buffer')>>
     ELSE call' = "check" /\ UNCHANGED outcome
  /\ UNCHANGED <<child, stubborn, signal, writing, printed, lost, starts, pattern, late, due>>

EndOfFile ==
  /\ call = "reading" /\ pipe = <<>> /\ child = "exited"
  /\ call' = "check"
  /\ UNCHANGED <<childVars, buffer, pattern, late, due, outcome>>

-----------------------------------------------------------------------------
(* stop: wait 5 s, terminate, wait 2 s, kill, wait.  It does not read the  *)
(* pipe, on which the child may be blocked.                                *)
Stop ==
  /\ call = "idle" /\ child # "none"
  /\ call' = "wait"
  /\ UNCHANGED <<childVars, buffer, pattern, late, due, outcome>>

LastSignal == "KILL"

WaitTimesOut ==
  /\ child = "running"
  /\ \/ call = "wait" /\ call' = "term" /\ signal' = "TERM"
     \/ call = "term" /\ call' = "kill" /\ signal' = LastSignal
  /\ UNCHANGED <<child, stubborn, pipe, writing, printed, lost, starts, buffer,
                 pattern, late, due, outcome>>

(* The pipe goes with _proc, whatever is left in it; _buffer stays.        *)
WaitReturns ==
  /\ call \in {"wait", "term", "kill"} /\ child = "exited"
  /\ child' = "none"
  /\ pipe' = <<>> /\ lost' = lost \cup {pipe[i].n : i \in DOMAIN pipe}
  /\ call' = "idle"
  /\ UNCHANGED <<stubborn, signal, writing, printed, starts, buffer, pattern, late, due, outcome>>

-----------------------------------------------------------------------------
Child == (\E t \in Texts : Write(t)) \/ WriteEnds \/ Exit \/ Dies

Next ==
  \/ Child
  \/ Start \/ (\E p \in Patterns : Expect(p)) \/ Stop
  \/ DeadlinePasses \/ TimeOut \/ ReadLine \/ LineRead \/ EndOfFile
  \/ WaitTimesOut \/ WaitReturns

Spec == Init /\ [][Next]_vars

(* Time passes, the test's thread runs, the system delivers signals and    *)
(* completes writes.  Nothing makes the firmware print or exit.            *)
Fairness ==
  /\ WF_vars(DeadlinePasses) /\ WF_vars(TimeOut)
  /\ WF_vars(ReadLine) /\ WF_vars(LineRead) /\ WF_vars(EndOfFile)
  /\ WF_vars(WaitTimesOut) /\ WF_vars(WaitReturns)
  /\ WF_vars(WriteEnds) /\ WF_vars(Dies)

FairSpec == Spec /\ Fairness

-----------------------------------------------------------------------------
(* Properties.                                                             *)

(* No line that was printed is lost, doubled or reordered on its way into  *)
(* dut.buffer, whatever expects timed out on the way, but for those unread *)
(* when the process was stopped; a line of a process of before never comes *)
(* after one of a later process (plugin.py:52-54, 86, 129, 158, 186-188).  *)
BufferExact ==
  LET read == buffer \o pipe
  IN  /\ \A i, j \in DOMAIN read : i < j => read[i].n < read[j].n
      /\ {read[i] : i \in DOMAIN read} = {printed[n] : n \in DOMAIN printed \ lost}

(* The texts that an answer of expect is about: those that its docstring   *)
(* promises, but for a compiled Pattern those that its str() is found in   *)
(* (plugin.py:97-98 against 101, 150-152).                                 *)
Honoured(p) == IF p \in {Spelled(r) : r \in Regexes} THEN p.found ELSE p.meant

(* expect returns the first such line ever read, one that an earlier expect*)
(* has returned included, and raises DutTimeout only after its deadline and*)
(* if it has read no such line.  It reads no line after its deadline but   *)
(* the one for which it was blocked in readline (plugin.py:118-136,        *)
(* 147-167), whose lateness does not count, whatever its docstring says    *)
(* (98-99).                                                                *)
ExpectHonest ==
  call = "idle" /\ outcome # <<>> =>
    LET good == {i \in DOMAIN buffer : buffer[i].text \in Honoured(pattern)}
    IN  /\ \/ outcome[1] = 0 /\ late /\ good = {}
           \/ good # {} /\ outcome[1] = Min(good)
        /\ late => outcome[1] <= due + 1

(* stop returns and leaves no process, be the child silent, blocked on a   *)
(* pipe that nobody reads, or deaf to SIGTERM (plugin.py:71-86).           *)
Stopping == call \in {"wait", "term", "kill"}
StopEnds == Stopping ~> (call = "idle" /\ child = "none")

(* expect comes to an end, with a child that exits, with one that prints   *)
(* other lines and without a child; the one exception is a child that stays*)
(* alive and says nothing any more, since no deadline interrupts readline  *)
(* (plugin.py:125-133, 154-164, 169-181).                                  *)
Expecting == call \in {"check", "reading"}
SilentForEver == call = "reading" /\ pipe = <<>> /\ child = "running" /\ writing = <<>>
ExpectEnds == (Expecting ~> ~Expecting) \/ <>[]SilentForEver
=============================================================================
