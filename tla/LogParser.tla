----------------------------- MODULE LogParser ------------------------------
(***************************************************************************)
(* The log parser of the Jenkins plug-in (src/tmsupport-plugin).  After a  *)
(* build, LogParserPublisher has its log parsed: LogParserParser counts    *)
(* the lines, LogParserStatusComputer copies the log and lets one thread   *)
(* for every linesPerThread lines read a part of the copy and compute the  *)
(* statuses of its lines, puts the parts together by their numbers, and    *)
(* LogParserParser reads the log again and gives each line the status of   *)
(* its number.  It looks up lines that matched a rule on StackOverflow;    *)
(* then the errors decide on the result of the build.                      *)
(*                                                                         *)
(* A line is the status that the rules give it, where "NONE" stands for    *)
(* every status but ERROR.  The log may still grow, by whole lines; a read *)
(* of the copy may hang or fail, in the middle of a line too; a thread may *)
(* be so slow that the wait for it, of an hour, is over first; Jenkins may *)
(* interrupt the build.  An exception that leaves the parser ends up in    *)
(* LogParserPublisher.perform.                                             *)
(***************************************************************************)
EXTENDS Integers, Sequences, FiniteSets

CONSTANTS
  linesPerThread,    \* the lines of a part
  failBuildOnError,  \* the setting of the publisher
  MaxLines,          \* bound: lines of the log
  MaxFailures        \* bound: reads that fail

ASSUME LogAssumption ==
  /\ linesPerThread \in Nat \ {0} /\ failBuildOnError \in BOOLEAN
  /\ MaxLines \in Nat /\ MaxFailures \in Nat

Statuses == {"ERROR", "NONE"}
Threads == 0..(MaxLines \div linesPerThread)
NoPart == -1                 \* a logPart that is null
NULL == <<>>                 \* a logPartStatuses that is null: an array is never empty

VARIABLES
  log,             \* the log of the build
  linesInLog,      \* how many lines it had when they were counted
  copy,            \* the copy that the threads read
  stream,          \* its lines, as the reader gives them
  cut,             \* the lines of which a failed read has taken the beginning
  closed,          \* whether the reader is closed
  position,        \* lines of the stream that have been read
  logPartNum,      \* the number of the next part
  runners,         \* the threads that have been started
  state,           \* state[t]: "none", "run", "read", "parse", "done" or "dead"
  logPart,         \* logPart[t]: the number of its part
  lines,           \* lines[t]: the lines of its part
  logPartStatuses, \* logPartStatuses[t]: their statuses
  pc,              \* where the parser is
  sortedRunners,   \* sortedRunners[p]: the thread that is seen with part p
  statusMatches,   \* the statuses by line number: a set of pairs
  totalErrors,     \* the lines that are shown as errors
  result,          \* what the publisher makes of the build
  failures,        \* reads that have failed
  intact,          \* lines of the copy that were read before one failed
  late,            \* the threads that had not ended when the wait was over
  stopped          \* whether an interrupt or a lookup has ended the parse

reader == <<stream, cut, closed, position, logPartNum>>
threads == <<state, logPart, lines, logPartStatuses>>
faults == <<failures, intact>>
outcome == <<totalErrors, result, stopped>>
vars == <<log, linesInLog, copy, stream, cut, closed, position, logPartNum, runners,
          state, logPart, lines, logPartStatuses, pc, sortedRunners, statusMatches,
          totalErrors, result, failures, intact, late, stopped>>

Init ==
  /\ log \in UNION {[1..n -> Statuses] : n \in 0..MaxLines}
  /\ linesInLog = 0 /\ copy = <<>> /\ stream = <<>> /\ cut = {} /\ closed = FALSE
  /\ position = 0 /\ logPartNum = 0 /\ runners = {}
  /\ state = [t \in Threads |-> "none"]
  /\ logPart = [t \in Threads |-> NoPart]
  /\ lines = [t \in Threads |-> <<>>]
  /\ logPartStatuses = [t \in Threads |-> NULL]
  /\ pc = "count" /\ sortedRunners = [p \in Threads |-> NoPart]
  /\ statusMatches = {} /\ totalErrors = 0 /\ result = "SUCCESS"
  /\ failures = 0 /\ intact = MaxLines /\ late = {} /\ stopped = FALSE
-----------------------------------------------------------------------------
(* The parser. *)

(* Something else that runs in the build writes a line to its log. *)
write(s) ==
  /\ Len(log) < MaxLines /\ log' = Append(log, s)
  /\ UNCHANGED <<linesInLog, copy, reader, runners, threads, pc, sortedRunners,
                 statusMatches, outcome, faults, late>>

countLines ==
  /\ pc = "count" /\ pc' = "copy"
  /\ linesInLog' = Len(log)
  /\ UNCHANGED <<log, copy, reader, runners, threads, sortedRunners, statusMatches,
                 outcome, faults, late>>

copyTo ==
  /\ pc = "copy" /\ pc' = "execute"
  /\ copy' = log /\ stream' = log
  /\ UNCHANGED <<log, linesInLog, cut, closed, position, logPartNum, runners, threads,
                 sortedRunners, statusMatches, outcome, faults, late>>

NobodyReads == \A t \in Threads : state[t] # "read"

(* The log cannot be copied, or the copy not be closed or deleted: the     *)
(* exception, wrapped in a RuntimeException, passes through perform.       *)
copyFails ==
  /\ pc = "copy" \/ (pc = "close" /\ NobodyReads)
  /\ pc' = "end" /\ result' = "thrown"
  /\ failures < MaxFailures /\ failures' = failures + 1
  /\ UNCHANGED <<log, linesInLog, copy, reader, runners, threads, sortedRunners,
                 statusMatches, totalErrors, stopped, intact, late>>

(* Mutant of threadsNeeded: no thread for the lines of the last part.      *)
MutWholeParts == linesInLog \div linesPerThread

threadsNeeded == linesInLog \div linesPerThread + 1

execute(t) ==
  /\ pc = "execute" /\ t = Cardinality(runners) /\ t < threadsNeeded
  /\ runners' = runners \cup {t} /\ state' = [state EXCEPT ![t] = "run"]
  /\ pc' = IF t + 1 = threadsNeeded THEN "await" ELSE pc
  /\ UNCHANGED <<log, linesInLog, copy, reader, logPart, lines, logPartStatuses,
                 sortedRunners, statusMatches, outcome, faults, late>>
-----------------------------------------------------------------------------
(* The threads. *)

Left == Len(stream) - position
Least(a, b) == IF a < b THEN a ELSE b

(* The thread enters readLogPart, which one thread at a time does.  A read *)
(* of a closed reader throws, and the thread dies of it: nobody sees that. *)
beginRead(t) ==
  /\ state[t] = "run" /\ NobodyReads /\ ~closed
  /\ state' = [state EXCEPT ![t] = "read"]
  /\ UNCHANGED <<log, linesInLog, copy, reader, runners, logPart, lines, logPartStatuses,
                 pc, sortedRunners, statusMatches, outcome, faults, late>>

(* Mutant of readLogPart: the thread reads a stream of its own.            *)
MutOwnStream(t) ==
  /\ state[t] = "read"
  /\ LET n == Least(linesPerThread, Len(copy)) IN lines' = [lines EXCEPT ![t] = SubSeq(copy, 1, n)]
  /\ logPart' = [logPart EXCEPT ![t] = logPartNum] /\ logPartNum' = logPartNum + 1
  /\ state' = [state EXCEPT ![t] = "parse"]
  /\ UNCHANGED <<log, linesInLog, copy, stream, cut, closed, position, runners,
                 logPartStatuses, pc, sortedRunners, statusMatches, outcome, faults, late>>

(* The thread has read the next part, and leaves. *)
readLogPart(t) ==
  /\ state[t] = "read"
  /\ LET n == Least(linesPerThread, Left)
     IN /\ lines' = [lines EXCEPT ![t] = SubSeq(stream, position + 1, position + n)]
        /\ position' = position + n
  /\ logPart' = [logPart EXCEPT ![t] = logPartNum] /\ logPartNum' = logPartNum + 1
  /\ state' = [state EXCEPT ![t] = "parse"]
  /\ UNCHANGED <<log, linesInLog, copy, stream, cut, closed, runners, logPartStatuses, pc,
                 sortedRunners, statusMatches, outcome, faults, late>>

(* What is left of line k, the next that is read, is a line of its own,    *)
(* and may have any status.                                                *)
cutLine(k) ==
  \/ UNCHANGED <<stream, cut>>
  \/ /\ k <= Len(stream) /\ cut' = cut \cup {k}
     /\ \E s \in Statuses : stream' = [stream EXCEPT ![k] = s]

(* After n lines the read fails, before the next line or in the middle of  *)
(* it, where BufferedReader forgets what it has of the line.  The n lines  *)
(* are lost, the part has no number, and the thread ends on it.            *)
readFails(t, n) ==
  /\ state[t] = "read" /\ failures < MaxFailures
  /\ n < linesPerThread /\ n <= Left
  /\ position' = position + n /\ cutLine(position + n + 1)
  /\ state' = [state EXCEPT ![t] = "dead"]
  /\ failures' = failures + 1 /\ intact' = Least(intact, position)
  /\ UNCHANGED <<log, linesInLog, copy, closed, logPartNum, runners, logPart, lines,
                 logPartStatuses, pc, sortedRunners, statusMatches, outcome, late>>

(* The array has linesPerThread entries, however many lines were read. *)
getLineStatuses(t) ==
  [i \in 1..linesPerThread |-> IF i <= Len(lines[t]) THEN lines[t][i] ELSE "null"]

parse(t) ==
  /\ state[t] = "parse"
  /\ logPartStatuses' = [logPartStatuses EXCEPT ![t] = getLineStatuses(t)]
  /\ state' = [state EXCEPT ![t] = "done"]
  /\ UNCHANGED <<log, linesInLog, copy, reader, runners, logPart, lines, pc,
                 sortedRunners, statusMatches, outcome, faults, late>>
-----------------------------------------------------------------------------
(* The parser again. *)

Running == {t \in runners : state[t] \in {"run", "read", "parse"}}

(* Mutant of awaitTermination: it waits until all threads have ended.      *)
MutNoTimeout ==
  /\ pc = "await" /\ pc' = "sort"
  /\ Running = {} /\ late' = {}
  /\ UNCHANGED <<log, linesInLog, copy, reader, runners, threads, sortedRunners,
                 statusMatches, outcome, faults>>

(* The threads have ended, or the hour is over: nobody asks which. *)
awaitTermination ==
  /\ pc = "await" /\ pc' = "sort"
  /\ late' = Running
  /\ UNCHANGED <<log, linesInLog, copy, reader, runners, threads, sortedRunners,
                 statusMatches, outcome, faults>>

(* The field of a thread that was late is read without synchronization:    *)
(* what the thread has written may be seen or not.  A part that is seen is *)
(* taken to be seen with its number, which is written in the synchronized  *)
(* method that the thread leaves before it sets the field.                 *)
Seen(t) == IF t \in late THEN {NoPart, logPart[t]} ELSE {logPart[t]}

(* Mutant of sortRunners: by the number of the thread.                     *)
MutByThread ==
  /\ pc = "sort" /\ pc' = "gather"
  /\ sortedRunners' = [p \in Threads |-> IF logPart[p] # NoPart THEN p ELSE NoPart]
  /\ UNCHANGED <<log, linesInLog, copy, reader, runners, threads, statusMatches,
                 outcome, faults, late>>

sortRunners ==
  /\ pc = "sort" /\ pc' = "gather"
  /\ \E seen \in [Threads -> {NoPart} \cup 0..(logPartNum - 1)] :
       /\ \A t \in Threads : seen[t] \in Seen(t)
       /\ sortedRunners' =
            [p \in Threads |-> IF \E t \in runners : seen[t] = p
                               THEN CHOOSE t \in runners : seen[t] = p ELSE NoPart]
  /\ UNCHANGED <<log, linesInLog, copy, reader, runners, threads, statusMatches,
                 outcome, faults, late>>

(* The statuses of part p, by line number. *)
Part(p) == {<<p * linesPerThread + i - 1, logPartStatuses[sortedRunners[p]][i]>> :
              i \in 1..linesPerThread}

Gathered == {p \in 0..(threadsNeeded - 1) : sortedRunners[p] # NoPart}

getLineStatusMatches ==
  /\ pc = "gather" /\ pc' = "close"
  /\ \A p \in Gathered : logPartStatuses[sortedRunners[p]] # NULL
  /\ statusMatches' = UNION {Part(p) : p \in Gathered}
  /\ UNCHANGED <<log, linesInLog, copy, reader, runners, threads, sortedRunners,
                 outcome, faults, late>>

(* The thread with part p may be seen without its statuses. *)
Unseen(p) ==
  /\ p \in Gathered
  /\ logPartStatuses[sortedRunners[p]] = NULL \/ sortedRunners[p] \in late

(* A NullPointerException, which perform catches, ends the parse. *)
statusesAreNull ==
  /\ pc = "gather" /\ pc' = "end"
  /\ \E p \in 0..(threadsNeeded - 1) : Unseen(p)
  /\ result' = "ABORTED"
  /\ UNCHANGED <<log, linesInLog, copy, reader, runners, threads, sortedRunners,
                 statusMatches, totalErrors, stopped, faults, late>>

(* The close takes the lock of BufferedReader, which a thread that hangs   *)
(* in a read holds.  (Between two lines of its part a thread lets it in,   *)
(* and dies of its next read.)                                             *)
close ==
  /\ pc = "close" /\ pc' = "body"
  /\ NobodyReads /\ closed' = TRUE
  /\ UNCHANGED <<log, linesInLog, copy, stream, cut, position, logPartNum, runners, threads,
                 sortedRunners, statusMatches, outcome, faults, late>>

(* The log is read again; a line without a status is shown as it is.  Any  *)
(* line with another status than NONE is to be looked up, unless it begins *)
(* with a "+".                                                             *)
parseLogBody ==
  /\ pc = "body" /\ pc' \in {"lookup", "judge"}
  /\ totalErrors' = Cardinality({n \in 1..Len(log) : <<n - 1, "ERROR">> \in statusMatches})
  /\ UNCHANGED <<log, linesInLog, copy, reader, runners, threads, sortedRunners,
                 statusMatches, result, stopped, faults, late>>

(* StackOverflow has an answer for every line that is looked up. *)
lookUp ==
  /\ pc = "lookup" /\ pc' = "judge"
  /\ UNCHANGED <<log, linesInLog, copy, reader, runners, threads, sortedRunners,
                 statusMatches, outcome, faults, late>>

(* It has not.  An IOException leaves no list to add, and perform catches  *)
(* the NullPointerException; the exception for a status other than 200     *)
(* passes through it.                                                      *)
lookupFails ==
  /\ pc = "lookup" /\ pc' = "end"
  /\ result' \in {"ABORTED", "thrown"} /\ stopped' = TRUE
  /\ UNCHANGED <<log, linesInLog, copy, reader, runners, threads, sortedRunners,
                 statusMatches, totalErrors, faults, late>>

(* perform decides on the result of the build. *)
judge ==
  /\ pc = "judge" /\ pc' = "end"
  /\ result' = IF failBuildOnError /\ totalErrors > 0 THEN "FAILURE" ELSE result
  /\ UNCHANGED <<log, linesInLog, copy, reader, runners, threads, sortedRunners,
                 statusMatches, totalErrors, stopped, faults, late>>

(* An IOException while the lines are counted or shown or the pages are    *)
(* written, which perform catches.                                         *)
ioException ==
  /\ pc \in {"count", "body", "judge"} /\ pc' = "end"
  /\ failures < MaxFailures /\ failures' = failures + 1
  /\ UNCHANGED <<log, linesInLog, copy, reader, runners, threads, sortedRunners,
                 statusMatches, outcome, intact, late>>

(* Jenkins interrupts the build while the computer is at work: perform     *)
(* catches the exception, unless it arrives wrapped in another.            *)
interrupted ==
  /\ pc \in {"copy", "execute", "await", "sort", "gather", "close"} /\ pc' = "end"
  /\ result' \in {"ABORTED", "thrown"} /\ stopped' = TRUE
  /\ UNCHANGED <<log, linesInLog, copy, reader, runners, threads, sortedRunners,
                 statusMatches, totalErrors, faults, late>>

Parser ==
  \/ countLines \/ copyTo \/ copyFails \/ \E t \in Threads : execute(t)
  \/ awaitTermination \/ sortRunners \/ getLineStatusMatches \/ statusesAreNull
  \/ close \/ parseLogBody \/ judge \/ ioException

Next ==
  \/ Parser \/ lookUp \/ lookupFails \/ interrupted
  \/ \E t \in Threads : \/ beginRead(t) \/ readLogPart(t) \/ parse(t)
                        \/ \E n \in 0..linesPerThread : readFails(t, n)
  \/ \E s \in Statuses : write(s)

Spec == Init /\ [][Next]_vars

(* The thread that runs the parser gets to run.  Its wait ends, at the     *)
(* latest after the hour; the threads it waits for may never end, and      *)
(* StackOverflow may never answer.                                         *)
FairSpec == Spec /\ WF_vars(Parser)
-----------------------------------------------------------------------------
Errors(lns) == {n \in DOMAIN lns : lns[n] = "ERROR"}

(* Whatever order the threads read in, and whichever of them were late,    *)
(* a line that was read before any read failed has its own status or none, *)
(* and so has the end of the file (LogParserStatusComputer.java:122-145).  *)
OwnLine ==
  \A n \in 1..intact, s \in Statuses \cup {"null"} :
    <<n - 1, s>> \in statusMatches => s = IF n <= Len(copy) THEN copy[n] ELSE "null"

(* If no thread is late, the build is judged by its log.  It is aborted    *)
(* only by an interrupt or by a lookup: a thread that dies of a failed     *)
(* read does not abort it, since its part is skipped.  If nothing fails, a *)
(* build with an error among the lines that were counted fails or is       *)
(* stopped before it is judged: the threads that were started are enough   *)
(* to read all of them, on the boundary of a part too, and no status is    *)
(* lost (LogParserStatusComputer.java:101-102, 138-145,                    *)
(* LogParserPublisher.java:94-115).                                        *)
RightResult ==
  pc = "end" /\ late = {} =>
    /\ result = "ABORTED" => stopped
    /\ (failures = 0 /\ failBuildOnError /\ \E n \in 1..linesInLog : log[n] = "ERROR")
         => IF stopped THEN result \in {"ABORTED", "thrown"} ELSE result = "FAILURE"

(* Even when the parts are moved by a read that failed, no error is        *)
(* counted twice, and none that the log did not have when it was copied    *)
(* but the rest of a line that a failed read has cut: a part is read by    *)
(* one thread, and has a number of its own (LogParserReader.java:18-43).   *)
NoErrorInvented == totalErrors <= Cardinality(Errors(copy) \cup cut)

(* The parse ends, even when a thread hangs in a pattern; unless one hangs *)
(* in a read, of which it cannot close the reader, or StackOverflow never  *)
(* answers (LogParserStatusComputer.java:120, 147).                        *)
Ends ==
  \/ <>(pc = "end")
  \/ <>[](pc = "lookup")
  \/ <>[](pc = "close" /\ \E t \in Threads : state[t] = "read")
=============================================================================
