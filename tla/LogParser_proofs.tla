-------------------------- MODULE LogParser_proofs ---------------------------
(***************************************************************************)
(* Proofs about LogParser, for any length of a part, any log and any       *)
(* number of failing reads: that a line has its own status or none, that   *)
(* the result is right when no thread is late, and that no error is made   *)
(* up.                                                                     *)
(***************************************************************************)
EXTENDS LogParser, FiniteSetTheorems, TLAPS
-----------------------------------------------------------------------------
(* The parts of a log. *)

(* The lines before part p. *)
Start(p) == p * linesPerThread

LEMMA Starts ==
  ASSUME NEW p \in Nat
  PROVE  Start(p) \in Nat /\ Start(p + 1) = Start(p) + linesPerThread
BY LogAssumption DEF LogAssumption, Start

LEMMA PartsApart ==
  ASSUME NEW p \in Nat, NEW q \in Nat, p < q
  PROVE  Start(p) + linesPerThread <= Start(q)
<1>1. linesPerThread \in Nat /\ q - p \in Nat /\ q - p >= 1
  BY LogAssumption DEF LogAssumption
<1>2. (q - p) * linesPerThread >= linesPerThread
  BY <1>1
<1>3. Start(q) = Start(p) + (q - p) * linesPerThread
  BY <1>1 DEF Start
<1> QED
  BY <1>1, <1>2, <1>3, Starts

(* The part in which line n + 1 is. *)
LEMMA PartOf ==
  ASSUME NEW n \in Nat
  PROVE  LET p == n \div linesPerThread IN
         p \in Nat /\ Start(p) <= n /\ n < Start(p) + linesPerThread
BY LogAssumption DEF LogAssumption, Start

LEMMA PartsInOrder ==
  ASSUME NEW m \in Nat, NEW n \in Nat, m <= n
  PROVE  m \div linesPerThread <= n \div linesPerThread
<1> DEFINE p == m \div linesPerThread
           q == n \div linesPerThread
<1>1. /\ p \in Nat /\ Start(p) <= m /\ m < Start(p) + linesPerThread
      /\ q \in Nat /\ Start(q) <= n /\ n < Start(q) + linesPerThread
  BY PartOf
<1> HIDE DEF p, q
<1>2. linesPerThread \in Nat /\ Start(p) \in Nat /\ Start(q) \in Nat
  BY <1>1, Starts, LogAssumption DEF LogAssumption
<1>3. ~(q < p)
  BY <1>1, <1>2, PartsApart
<1> QED
  BY <1>1, <1>3 DEF p, q

LEMMA LeastOf ==
  ASSUME NEW a \in Int, NEW b \in Int
  PROVE  Least(a, b) \in {a, b} /\ Least(a, b) <= a /\ Least(a, b) <= b
BY DEF Least

LEMMA ThreadsAreNumbers == Threads \in SUBSET Nat /\ IsFiniteSet(Threads) /\ NoPart \notin Threads
<1>1. MaxLines \div linesPerThread \in Nat
  BY PartOf, LogAssumption DEF LogAssumption
<1>2. IsFiniteSet(Threads)
  BY <1>1, FS_Interval DEF Threads
<1>3. Threads \in SUBSET Nat /\ NoPart \notin Threads
  BY <1>1 DEF Threads, NoPart
<1> QED
  BY <1>2, <1>3
-----------------------------------------------------------------------------
(* Types. *)

TypeInv ==
  /\ log \in Seq(Statuses) /\ Len(log) <= MaxLines /\ copy \in Seq(Statuses)
  /\ stream \in Seq(Statuses) /\ Len(stream) = Len(copy) /\ cut \subseteq 1..Len(copy)
  /\ linesInLog \in 0..MaxLines /\ position \in 0..Len(copy) /\ logPartNum \in Nat
  /\ closed \in BOOLEAN /\ stopped \in BOOLEAN
  /\ runners \subseteq Threads /\ late \subseteq Threads
  /\ state \in [Threads -> {"none", "run", "read", "parse", "done", "dead"}]
  /\ logPart \in [Threads -> Nat \cup {NoPart}]
  /\ lines \in [Threads -> Seq(Statuses)]
  /\ logPartStatuses \in [Threads -> Seq(Statuses \cup {"null"})]
  /\ pc \in {"count", "copy", "execute", "await", "sort", "gather", "close", "body",
            "lookup", "judge", "end"}
  /\ sortedRunners \in [Threads -> Threads \cup {NoPart}]
  /\ totalErrors \in Nat /\ result \in {"SUCCESS", "FAILURE", "ABORTED", "thrown"}
  /\ failures \in 0..MaxFailures /\ intact \in Nat
  /\ \A t \in Threads : state[t] # "none" => t \in runners
  /\ pc \in {"count", "copy"} => runners = {} /\ position = 0 /\ logPartNum = 0 /\ cut = {}

LEMMA CopyTyped ==
  ASSUME TypeInv
  PROVE  /\ Len(copy) \in Nat /\ DOMAIN copy = 1..Len(copy) /\ position \in Nat
         /\ Left \in Nat /\ position + Left = Len(copy)
         /\ Len(log) \in Nat /\ DOMAIN log = 1..Len(log)
<1>1. /\ copy \in Seq(Statuses) /\ position \in 0..Len(copy) /\ log \in Seq(Statuses)
      /\ Len(stream) = Len(copy)
  BY DEF TypeInv
<1> QED
  BY <1>1 DEF Left

(* A thread reads from the stream what is left of its part.                *)
LEMMA ReadTyped ==
  ASSUME TypeInv
  PROVE  LET n == Least(linesPerThread, Left)
             part == SubSeq(stream, position + 1, position + n) IN
         /\ n \in Nat /\ n <= linesPerThread /\ position + n \in 0..Len(copy)
         /\ part \in Seq(Statuses) /\ Len(part) = n
         /\ \A i \in 1..n : part[i] = stream[position + i]
<1> DEFINE n == Least(linesPerThread, Left)
           part == SubSeq(stream, position + 1, position + n)
<1>1. /\ Left \in Nat /\ position \in Nat /\ position + Left = Len(copy) /\ Len(copy) \in Nat
      /\ linesPerThread \in Nat /\ stream \in Seq(Statuses) /\ Len(stream) = Len(copy)
  BY CopyTyped, LogAssumption DEF LogAssumption, TypeInv
<1>2. n \in Nat /\ n <= linesPerThread /\ n <= Left
  BY <1>1, LeastOf
<1> HIDE DEF n
<1>3. position + n \in 0..Len(copy)
  BY <1>1, <1>2
<1>4. part \in Seq(Statuses) /\ Len(part) = n /\ \A i \in 1..n : part[i] = stream[position + i]
  BY <1>1, <1>2, <1>3
<1> QED
  BY <1>2, <1>3, <1>4 DEF n

(* A line that is cut has another rest; the others stay as they are.       *)
LEMMA CutTyped ==
  ASSUME TypeInv, NEW k \in Nat \ {0}, cutLine(k)
  PROVE  /\ stream' \in Seq(Statuses) /\ Len(stream') = Len(copy)
         /\ cut \subseteq cut' /\ cut' \subseteq 1..Len(copy)
         /\ \A n \in 1..Len(copy) : n \notin cut' => stream'[n] = stream[n]
<1>1. CASE UNCHANGED <<stream, cut>>
  BY <1>1 DEF TypeInv
<1>2. CASE /\ k <= Len(stream) /\ cut' = cut \cup {k}
           /\ \E s \in Statuses : stream' = [stream EXCEPT ![k] = s]
  <2>1. PICK s \in Statuses : stream' = [stream EXCEPT ![k] = s]
    BY <1>2
  <2>2. stream \in Seq(Statuses) /\ Len(stream) = Len(copy) /\ cut \subseteq 1..Len(copy)
        /\ Len(copy) \in Nat
    BY CopyTyped DEF TypeInv
  <2>3. k \in 1..Len(copy) /\ cut' = cut \cup {k}
    BY <1>2, <2>2
  <2>4. stream' \in Seq(Statuses) /\ Len(stream') = Len(copy)
    <3>1. stream \in [1..Len(copy) -> Statuses]
      BY <2>2
    <3>2. stream' \in [1..Len(copy) -> Statuses]
      BY <2>1, <3>1
    <3> QED
      BY <2>2, <3>2
  <2>5. \A n \in 1..Len(copy) : n # k => stream'[n] = stream[n]
    BY <2>1, <2>2
  <2> QED
    BY <2>2, <2>3, <2>4, <2>5
<1> QED
  BY <1>1, <1>2 DEF cutLine

LEMMA StatusesTyped ==
  ASSUME TypeInv, NEW t \in Threads
  PROVE  /\ getLineStatuses(t) \in Seq(Statuses \cup {"null"}) /\ getLineStatuses(t) # NULL
         /\ \A i \in 1..linesPerThread :
              getLineStatuses(t)[i] = IF i <= Len(lines[t]) THEN lines[t][i] ELSE "null"
<1>1. linesPerThread \in Nat \ {0} /\ lines[t] \in Seq(Statuses)
  BY LogAssumption DEF LogAssumption, TypeInv
<1> DEFINE s == getLineStatuses(t)
<1>2. s \in [1..linesPerThread -> Statuses \cup {"null"}]
  BY <1>1 DEF getLineStatuses
<1>3. \A i \in 1..linesPerThread :
        s[i] = IF i <= Len(lines[t]) THEN lines[t][i] ELSE "null"
  BY DEF getLineStatuses
<1> HIDE DEF s
<1>4. s \in Seq(Statuses \cup {"null"}) /\ s # NULL
  BY <1>1, <1>2 DEF NULL
<1> QED
  BY <1>3, <1>4 DEF s

LEMMA TypedNext == TypeInv /\ [Next]_vars => TypeInv'
<1> SUFFICES ASSUME TypeInv, [Next]_vars PROVE TypeInv'
  OBVIOUS
<1> USE DEF reader, threads, faults, outcome
<1>1. /\ MaxLines \in Nat /\ MaxFailures \in Nat /\ linesPerThread \in Nat \ {0}
  BY LogAssumption DEF LogAssumption
<1>2. ASSUME NEW s \in Statuses, write(s) PROVE TypeInv'
  <2>1. log' = Append(log, s) /\ Len(log) < MaxLines /\ log \in Seq(Statuses)
    BY <1>2 DEF write, TypeInv
  <2>2. log' \in Seq(Statuses) /\ Len(log') <= MaxLines
    BY <1>1, <2>1
  <2> QED
    BY <1>2, <2>2 DEF write, TypeInv
<1>3. CASE countLines
  <2>1. Len(log) \in 0..MaxLines
    BY <1>1, CopyTyped DEF TypeInv
  <2> QED
    BY <1>3, <2>1 DEF countLines, TypeInv
<1>4. ASSUME NEW t \in Threads, execute(t) PROVE TypeInv'
  BY <1>4 DEF execute, TypeInv
<1>5. ASSUME NEW t \in Threads, readLogPart(t) PROVE TypeInv'
  <2> DEFINE n == Least(linesPerThread, Left)
  <2>1. /\ position + n \in 0..Len(copy)
        /\ SubSeq(stream, position + 1, position + n) \in Seq(Statuses)
    BY ReadTyped
  <2>2. position' = position + n
        /\ lines' = [lines EXCEPT ![t] = SubSeq(stream, position + 1, position + n)]
    BY <1>5 DEF readLogPart
  <2> HIDE DEF n
  <2>3. lines' \in [Threads -> Seq(Statuses)] /\ position' \in 0..Len(copy)
    BY <2>1, <2>2 DEF TypeInv
  <2>4. /\ logPart' = [logPart EXCEPT ![t] = logPartNum] /\ logPartNum' = logPartNum + 1
        /\ state' = [state EXCEPT ![t] = "parse"]
        /\ UNCHANGED <<log, linesInLog, copy, stream, cut, closed, runners, logPartStatuses,
                       pc, sortedRunners, statusMatches, totalErrors, result, stopped,
                       failures, intact, late>>
    BY <1>5 DEF readLogPart
  <2>5. t \in runners /\ pc \notin {"count", "copy"}
    BY <1>5 DEF readLogPart, TypeInv
  <2>6. /\ state' \in [Threads -> {"none", "run", "read", "parse", "done", "dead"}]
        /\ logPart' \in [Threads -> Nat \cup {NoPart}] /\ logPartNum' \in Nat
        /\ \A u \in Threads : state'[u] # "none" => u \in runners
    BY <2>4, <2>5 DEF TypeInv
  <2> QED
    BY <2>3, <2>4, <2>5, <2>6 DEF TypeInv
<1>6. ASSUME NEW t \in Threads, NEW n \in 0..linesPerThread, readFails(t, n) PROVE TypeInv'
  <2>1. position + n \in 0..Len(copy)
    BY <1>6, CopyTyped DEF readFails
  <2>2. Least(intact, position) \in Nat
    BY CopyTyped DEF TypeInv, Least
  <2>3. failures + 1 \in 0..MaxFailures
    BY <1>1, <1>6 DEF readFails, TypeInv
  <2>4. /\ stream' \in Seq(Statuses) /\ Len(stream') = Len(copy) /\ cut' \subseteq 1..Len(copy)
    BY <1>1, <1>6, CutTyped, CopyTyped DEF readFails
  <2>5. /\ position' = position + n /\ state' = [state EXCEPT ![t] = "dead"]
        /\ failures' = failures + 1 /\ intact' = Least(intact, position)
        /\ UNCHANGED <<log, linesInLog, copy, closed, logPartNum, runners, logPart, lines,
                       logPartStatuses, pc, sortedRunners, statusMatches, totalErrors,
                       result, stopped, late>>
        /\ t \in runners /\ pc \notin {"count", "copy"}
    BY <1>6 DEF readFails, TypeInv
  <2>6. /\ state' \in [Threads -> {"none", "run", "read", "parse", "done", "dead"}]
        /\ \A u \in Threads : state'[u] # "none" => u \in runners
    BY <2>5 DEF TypeInv
  <2> QED
    BY <2>1, <2>2, <2>3, <2>4, <2>5, <2>6 DEF TypeInv
<1>7. ASSUME NEW t \in Threads, parse(t) PROVE TypeInv'
  <2>1. getLineStatuses(t) \in Seq(Statuses \cup {"null"})
    BY StatusesTyped
  <2>2. logPartStatuses' = [logPartStatuses EXCEPT ![t] = getLineStatuses(t)]
    BY <1>7 DEF parse
  <2>3. logPartStatuses' \in [Threads -> Seq(Statuses \cup {"null"})]
    BY <2>1, <2>2 DEF TypeInv
  <2> QED
    BY <1>7, <2>3 DEF parse, TypeInv
<1>8. CASE awaitTermination
  BY <1>8 DEF awaitTermination, Running, TypeInv
<1>9. CASE sortRunners
  <2>1. PICK seen \in [Threads -> {NoPart} \cup 0..(logPartNum - 1)] :
           sortedRunners' = [p \in Threads |->
                      IF \E t \in runners : seen[t] = p
                      THEN CHOOSE t \in runners : seen[t] = p ELSE NoPart]
    BY <1>9 DEF sortRunners
  <2>2. sortedRunners' \in [Threads -> Threads \cup {NoPart}]
    BY <2>1 DEF TypeInv
  <2> QED
    BY <1>9, <2>2 DEF sortRunners, TypeInv
<1>10. CASE getLineStatusMatches \/ statusesAreNull
  BY <1>10 DEF getLineStatusMatches, statusesAreNull, TypeInv
<1>11. CASE parseLogBody
  <2> DEFINE E == {n \in 1..Len(log) : <<n - 1, "ERROR">> \in statusMatches}
  <2>1. IsFiniteSet(1..Len(log)) /\ E \in SUBSET (1..Len(log))
    BY CopyTyped, FS_Interval
  <2>2. Cardinality(E) \in Nat
    BY <2>1, FS_Subset, FS_CardinalityType
  <2>3. totalErrors' = Cardinality(E)
    BY <1>11 DEF parseLogBody
  <2> HIDE DEF E
  <2> QED
    BY <1>11, <2>2, <2>3 DEF parseLogBody, TypeInv
<1>12. CASE ioException \/ copyFails
  <2>1. failures + 1 \in 0..MaxFailures
    BY <1>1, <1>12 DEF ioException, copyFails, TypeInv
  <2> QED
    BY <1>12, <2>1 DEF ioException, copyFails, TypeInv
<1>13. CASE copyTo
  BY <1>13, CopyTyped DEF copyTo, TypeInv
<1>14. ASSUME NEW t \in Threads, beginRead(t) PROVE TypeInv'
  BY <1>14 DEF beginRead, TypeInv
<1>15. CASE close \/ judge \/ lookUp \/ lookupFails \/ interrupted
  BY <1>15 DEF close, judge, lookUp, lookupFails, interrupted, TypeInv
<1>16. CASE UNCHANGED vars
  BY <1>16 DEF vars, TypeInv
<1> QED
  BY <1>2, <1>3, <1>4, <1>5, <1>6, <1>7, <1>8, <1>9, <1>10, <1>11, <1>12, <1>13, <1>14,
     <1>15, <1>16
  DEF Next, Parser

LEMMA TypedInit == Init => TypeInv
<1> SUFFICES ASSUME Init PROVE TypeInv
  OBVIOUS
<1>1. MaxLines \in Nat /\ MaxFailures \in Nat /\ linesPerThread \in Nat \ {0}
  BY LogAssumption DEF LogAssumption
<1>2. PICK n \in 0..MaxLines : log \in [1..n -> Statuses]
  BY DEF Init
<1>3. log \in Seq(Statuses) /\ Len(log) <= MaxLines
  BY <1>1, <1>2
<1>4. <<>> \in Seq(Statuses) /\ NULL \in Seq(Statuses \cup {"null"}) /\ Len(<<>>) = 0
  BY DEF NULL
<1>5. closed \in BOOLEAN /\ stopped \in BOOLEAN
  BY DEF Init
<1>6. stream = <<>> /\ copy = <<>> /\ cut = {}
  BY DEF Init
<1> QED
  BY <1>1, <1>3, <1>4, <1>5, <1>6 DEF Init, TypeInv
-----------------------------------------------------------------------------
(* The threads that are started: as many as are needed, then no more.      *)

Launched ==
  /\ \A t \in Threads : t \in runners <=> state[t] # "none"
  /\ \E k \in Nat : /\ runners = 0..(k - 1)
                    /\ pc = "execute" => k < threadsNeeded
                    /\ pc \in {"await", "sort", "gather"} => k = threadsNeeded

LEMMA Needed == ASSUME TypeInv PROVE threadsNeeded \in Nat /\ threadsNeeded > 0
<1>1. linesInLog \in Nat
  BY LogAssumption DEF LogAssumption, TypeInv
<1> QED
  BY <1>1, PartOf DEF threadsNeeded

LEMMA LaunchedNext == TypeInv /\ Launched /\ [Next]_vars => Launched'
<1> SUFFICES ASSUME TypeInv, Launched, [Next]_vars PROVE Launched'
  OBVIOUS
<1> USE DEF reader, threads, faults, outcome
<1>1. PICK k \in Nat : /\ runners = 0..(k - 1)
                       /\ pc = "execute" => k < threadsNeeded
                       /\ pc \in {"await", "sort", "gather"} => k = threadsNeeded
  BY DEF Launched
<1>2. ASSUME UNCHANGED runners, pc' \notin {"execute"},
             pc' \in {"await", "sort", "gather"} =>
               pc \in {"await", "sort", "gather"} /\ UNCHANGED linesInLog,
             \A t \in Threads : state[t] # "none" <=> state'[t] # "none"
      PROVE  Launched'
  BY <1>1, <1>2 DEF Launched, threadsNeeded
<1>3. ASSUME UNCHANGED <<runners, pc, linesInLog>>,
             \A t \in Threads : state[t] # "none" <=> state'[t] # "none"
      PROVE  Launched'
  BY <1>1, <1>3 DEF Launched, threadsNeeded
<1>4. CASE copyTo
  <2>1. runners' = 0..(0 - 1) /\ 0 < threadsNeeded' /\ pc' = "execute" /\ UNCHANGED state
    BY <1>4, Needed DEF copyTo, TypeInv, threadsNeeded
  <2> QED
    BY <1>4, <2>1 DEF Launched, copyTo
<1>5. ASSUME NEW t \in Threads, execute(t) PROVE Launched'
  <2>1. Cardinality(runners) = k
    BY <1>1, FS_Interval
  <2>2. /\ t = k /\ runners' = 0..((k + 1) - 1) /\ k < threadsNeeded
        /\ pc' = IF k + 1 = threadsNeeded THEN "await" ELSE "execute"
        /\ UNCHANGED linesInLog
    BY <1>1, <1>5, <2>1 DEF execute
  <2>3. \A u \in Threads : u \in runners' <=> state'[u] # "none"
    BY <1>5 DEF execute, Launched, TypeInv
  <2>4. k + 1 \in Nat /\ (k + 1 # threadsNeeded => k + 1 < threadsNeeded)
    BY <2>2, Needed
  <2> QED
    BY <2>2, <2>3, <2>4 DEF Launched, threadsNeeded
<1>6. ASSUME NEW s \in Statuses, write(s) PROVE Launched'
  BY <1>3, <1>6 DEF write
<1>7. ASSUME NEW t \in Threads, beginRead(t) \/ readLogPart(t) \/ parse(t) PROVE Launched'
  BY <1>3, <1>7 DEF beginRead, readLogPart, parse, TypeInv
<1>8. ASSUME NEW t \in Threads, NEW n \in 0..linesPerThread, readFails(t, n) PROVE Launched'
  BY <1>3, <1>8 DEF readFails, TypeInv
<1>9. CASE countLines \/ copyFails \/ ioException
  BY <1>2, <1>9 DEF countLines, copyFails, ioException
<1>10. CASE awaitTermination \/ sortRunners
  BY <1>2, <1>10 DEF awaitTermination, sortRunners
<1>11. CASE getLineStatusMatches \/ statusesAreNull \/ parseLogBody
  BY <1>2, <1>11 DEF getLineStatusMatches, statusesAreNull, parseLogBody
<1>12. CASE close \/ judge \/ lookUp \/ lookupFails \/ interrupted
  BY <1>2, <1>12 DEF close, judge, lookUp, lookupFails, interrupted
<1>13. CASE UNCHANGED vars
  BY <1>3, <1>13 DEF vars
<1> QED
  BY <1>4, <1>5, <1>6, <1>7, <1>8, <1>9, <1>10, <1>11, <1>12, <1>13 DEF Next, Parser

LEMMA LaunchedInit == Init => Launched
<1> SUFFICES ASSUME Init PROVE Launched
  OBVIOUS
<1>1. runners = 0..(0 - 1) /\ pc = "count" /\ \A t \in Threads : state[t] = "none"
  BY DEF Init
<1> QED
  BY <1>1 DEF Launched
-----------------------------------------------------------------------------
(* What the threads have read. *)

Reads ==
  \A t \in Threads :
    /\ state[t] \in {"parse", "done"} <=> logPart[t] # NoPart
    /\ logPart[t] # NoPart => logPart[t] < logPartNum
    /\ state[t] = "done" => logPartStatuses[t] = getLineStatuses(t)
    /\ state[t] # "done" => logPartStatuses[t] = NULL
    /\ \A u \in Threads : logPart[t] # NoPart /\ logPart[t] = logPart[u] => t = u

(* The reader is where its next part begins, unless a read has failed.     *)
Positions == position = Least(Start(logPartNum), Len(copy)) \/ intact <= Start(logPartNum)

(* The stream is the copy, but for the lines that were cut.                *)
Streamed ==
  /\ cut # {} => intact <= position
  /\ \A n \in 1..Len(copy) : n \notin cut => stream[n] = copy[n]

(* The part of a thread is the one of its number, unless a read failed     *)
(* before.                                                                 *)
OwnPart(t) ==
  \/ intact <= Start(logPart[t])
  \/ \A i \in 1..linesPerThread :
       /\ i <= Len(lines[t]) <=> Start(logPart[t]) + i <= Len(copy)
       /\ i <= Len(lines[t]) => lines[t][i] = copy[Start(logPart[t]) + i]

Sorted == \A p \in Threads : sortedRunners[p] # NoPart => logPart[sortedRunners[p]] = p

(* A status that is kept comes from a thread that is sorted.               *)
Matched ==
  \A x \in statusMatches : \E p \in Threads, i \in 1..linesPerThread :
    /\ sortedRunners[p] # NoPart /\ state[sortedRunners[p]] = "done"
    /\ x = <<Start(p) + i - 1, getLineStatuses(sortedRunners[p])[i]>>

Gathering ==
  /\ Sorted /\ Matched
  /\ pc \in {"count", "copy", "execute", "await", "sort", "gather"} => statusMatches = {}

OwnInv == Positions /\ Streamed /\ \A t \in Threads : logPart[t] # NoPart => OwnPart(t)

LEMMA ReadsNext == TypeInv /\ Launched /\ Reads /\ [Next]_vars => Reads'
<1> SUFFICES ASSUME TypeInv, Launched, Reads, [Next]_vars PROVE Reads'
  OBVIOUS
<1> USE DEF reader, threads, faults, outcome
<1>1. ASSUME UNCHANGED <<logPartNum, logPart, lines, logPartStatuses>>,
             \A t \in Threads :
               UNCHANGED state[t] \/ {state[t], state'[t]} \subseteq {"none", "run", "read", "dead"}
      PROVE  Reads'
  <2>1. \A t \in Threads : getLineStatuses(t)' = getLineStatuses(t)
    BY <1>1 DEF getLineStatuses
  <2>2. \A t \in Threads : UNCHANGED <<logPart[t], logPartStatuses[t]>> /\ UNCHANGED logPartNum
    BY <1>1
  <2>3. \A t \in Threads : /\ state'[t] \in {"parse", "done"} <=> state[t] \in {"parse", "done"}
                           /\ state'[t] = "done" <=> state[t] = "done"
    BY <1>1
  <2> QED
    BY <2>1, <2>2, <2>3 DEF Reads
<1>2. ASSUME NEW t \in Threads, execute(t) PROVE Reads'
  <2>1. PICK k \in Nat : runners = 0..(k - 1)
    BY DEF Launched
  <2>2. Cardinality(runners) = k
    BY <2>1, FS_Interval
  <2>3. state[t] = "none"
    BY <1>2, <2>1, <2>2 DEF execute, Launched
  <2> QED
    BY <1>1, <1>2, <2>3 DEF execute, TypeInv
<1>3. ASSUME NEW t \in Threads, readLogPart(t) PROVE Reads'
  <2>1. /\ state[t] = "read" /\ logPart' = [logPart EXCEPT ![t] = logPartNum]
        /\ logPartNum' = logPartNum + 1 /\ state' = [state EXCEPT ![t] = "parse"]
        /\ UNCHANGED logPartStatuses /\ \A u \in Threads \ {t} : lines'[u] = lines[u]
    BY <1>3 DEF readLogPart, TypeInv
  <2>2. logPartNum \in Nat /\ logPartNum # NoPart /\ logPartStatuses[t] = NULL
    BY <2>1 DEF TypeInv, NoPart, Reads
  <2>3. ASSUME NEW u \in Threads \ {t}
        PROVE  /\ UNCHANGED <<state[u], logPart[u], logPartStatuses[u], getLineStatuses(u)>>
               /\ logPart[u] # NoPart => logPart[u] \in Nat /\ logPart[u] < logPartNum
    BY <2>1 DEF Reads, getLineStatuses, TypeInv
  <2>4. logPart'[t] = logPartNum /\ state'[t] = "parse"
    BY <2>1 DEF TypeInv
  <2>5. ASSUME NEW u \in Threads \ {t}
        PROVE  /\ state'[u] \in {"parse", "done"} <=> logPart'[u] # NoPart
               /\ logPart'[u] # NoPart => logPart'[u] < logPartNum'
               /\ state'[u] = "done" => logPartStatuses'[u] = getLineStatuses(u)'
               /\ state'[u] # "done" => logPartStatuses'[u] = NULL
    BY <2>1, <2>2, <2>3 DEF Reads
  <2>6. ASSUME NEW u \in Threads, NEW v \in Threads, logPart'[u] # NoPart, logPart'[u] = logPart'[v]
        PROVE  u = v
    <3>1. CASE u # t /\ v # t
      BY <2>3, <2>6, <3>1 DEF Reads
    <3>2. CASE u = t /\ v # t
      BY <2>2, <2>3, <2>4, <2>6, <3>2
    <3>3. CASE v = t /\ u # t
      BY <2>2, <2>3, <2>4, <2>6, <3>3
    <3> QED
      BY <3>1, <3>2, <3>3
  <2> QED
    BY <2>1, <2>2, <2>4, <2>5, <2>6 DEF Reads
<1>4. ASSUME NEW t \in Threads, NEW n \in 0..linesPerThread, readFails(t, n) PROVE Reads'
  BY <1>1, <1>4 DEF readFails, TypeInv
<1>5. ASSUME NEW t \in Threads, parse(t) PROVE Reads'
  <2>1. /\ state[t] = "parse" /\ state' = [state EXCEPT ![t] = "done"]
        /\ logPartStatuses' = [logPartStatuses EXCEPT ![t] = getLineStatuses(t)]
        /\ UNCHANGED <<logPartNum, logPart, lines>>
    BY <1>5 DEF parse
  <2>2. \A u \in Threads : getLineStatuses(u)' = getLineStatuses(u)
    BY <2>1 DEF getLineStatuses
  <2>3. /\ state'[t] = "done" /\ logPartStatuses'[t] = getLineStatuses(t)
        /\ \A u \in Threads \ {t} : UNCHANGED <<state[u], logPartStatuses[u]>>
    BY <2>1 DEF TypeInv
  <2> QED
    BY <2>1, <2>2, <2>3 DEF Reads
<1>6. ASSUME NEW s \in Statuses, write(s) PROVE Reads'
  BY <1>1, <1>6 DEF write
<1>7. CASE countLines \/ copyTo \/ copyFails \/ ioException
  BY <1>1, <1>7 DEF countLines, copyTo, copyFails, ioException
<1>8. CASE awaitTermination \/ sortRunners
  BY <1>1, <1>8 DEF awaitTermination, sortRunners
<1>9. CASE getLineStatusMatches \/ statusesAreNull \/ parseLogBody
  BY <1>1, <1>9 DEF getLineStatusMatches, statusesAreNull, parseLogBody
<1>10. CASE close \/ judge \/ lookUp \/ lookupFails \/ interrupted
  BY <1>1, <1>10 DEF close, judge, lookUp, lookupFails, interrupted
<1>11. ASSUME NEW t \in Threads, beginRead(t) PROVE Reads'
  BY <1>1, <1>11 DEF beginRead, TypeInv
<1>12. CASE UNCHANGED vars
  BY <1>1, <1>12 DEF vars
<1> QED
  BY <1>2, <1>3, <1>4, <1>5, <1>6, <1>7, <1>8, <1>9, <1>10, <1>11, <1>12 DEF Next, Parser

LEMMA GatheringNext ==
  TypeInv /\ Launched /\ Reads /\ Gathering /\ [Next]_vars => Gathering'
<1> SUFFICES ASSUME TypeInv, Launched, Reads, Gathering, [Next]_vars PROVE Gathering'
  OBVIOUS
<1> USE DEF reader, threads, faults, outcome
<1> DEFINE Early == {"count", "copy", "execute", "await", "sort", "gather"}
(* A thread that has its part keeps it. *)
<1>1. ASSUME UNCHANGED <<sortedRunners, statusMatches>>, pc' \in Early => pc \in Early,
             \A t \in Threads : logPart[t] # NoPart => logPart'[t] = logPart[t],
             \A t \in Threads : state[t] = "done" =>
               state'[t] = "done" /\ getLineStatuses(t)' = getLineStatuses(t)
      PROVE  Gathering'
  <2>1. \A p \in Threads : sortedRunners[p] # NoPart =>
          sortedRunners[p] \in Threads /\ logPart[sortedRunners[p]] = p /\ p # NoPart
    BY ThreadsAreNumbers DEF TypeInv, Gathering, Sorted
  <2>2. Sorted'
    BY <1>1, <2>1 DEF Sorted
  <2>3. Matched'
    <3> SUFFICES ASSUME NEW x \in statusMatches
                 PROVE  \E p \in Threads, i \in 1..linesPerThread :
                          /\ sortedRunners[p] # NoPart /\ state'[sortedRunners[p]] = "done"
                          /\ x = <<Start(p) + i - 1, getLineStatuses(sortedRunners[p])'[i]>>
      BY <1>1 DEF Matched
    <3>1. PICK p \in Threads, i \in 1..linesPerThread :
            /\ sortedRunners[p] # NoPart /\ state[sortedRunners[p]] = "done"
            /\ x = <<Start(p) + i - 1, getLineStatuses(sortedRunners[p])[i]>>
      BY DEF Gathering, Matched
    <3> QED
      BY <1>1, <2>1, <3>1
  <2> QED
    BY <1>1, <2>2, <2>3 DEF Gathering
<1>2. ASSUME UNCHANGED <<sortedRunners, statusMatches, lines, logPart, state>>,
             pc' \in Early => pc \in Early
      PROVE  Gathering'
  BY <1>1, <1>2 DEF getLineStatuses
<1>3. ASSUME NEW t \in Threads, execute(t) PROVE Gathering'
  <2>1. PICK k \in Nat : runners = 0..(k - 1)
    BY DEF Launched
  <2>2. Cardinality(runners) = k
    BY <2>1, FS_Interval
  <2>3. state[t] = "none"
    BY <1>3, <2>1, <2>2 DEF execute, Launched
  <2> QED
    BY <1>1, <1>3, <2>3 DEF execute, TypeInv, getLineStatuses
<1>4. ASSUME NEW t \in Threads, readLogPart(t) PROVE Gathering'
  <2>1. /\ state[t] = "read" /\ logPart[t] = NoPart
        /\ \A u \in Threads \ {t} : UNCHANGED <<state[u], logPart[u], lines[u]>>
        /\ UNCHANGED <<sortedRunners, statusMatches, pc>>
    BY <1>4 DEF readLogPart, TypeInv, Reads
  <2> QED
    BY <1>1, <2>1 DEF getLineStatuses
<1>5. ASSUME NEW t \in Threads, NEW n \in 0..linesPerThread, readFails(t, n) PROVE Gathering'
  BY <1>1, <1>5 DEF readFails, TypeInv, getLineStatuses
<1>6. ASSUME NEW t \in Threads, parse(t) PROVE Gathering'
  BY <1>1, <1>6 DEF parse, TypeInv, getLineStatuses
<1>7. CASE sortRunners
  <2>1. PICK seen \in [Threads -> {NoPart} \cup 0..(logPartNum - 1)] :
          /\ \A t \in Threads : seen[t] \in Seen(t)
          /\ sortedRunners' = [p \in Threads |->
                IF \E t \in runners : seen[t] = p
                THEN CHOOSE t \in runners : seen[t] = p ELSE NoPart]
    BY <1>7 DEF sortRunners
  <2>2. ASSUME NEW p \in Threads, sortedRunners'[p] # NoPart
        PROVE  logPart[sortedRunners'[p]] = p
    <3>1. sortedRunners'[p] \in runners /\ seen[sortedRunners'[p]] = p
      BY <2>1, <2>2
    <3>2. sortedRunners'[p] \in Threads /\ p # NoPart
      BY <3>1, ThreadsAreNumbers DEF TypeInv
    <3> QED
      BY <2>1, <3>1, <3>2 DEF Seen
  <2>3. Sorted'
    BY <1>7, <2>2 DEF Sorted, sortRunners
  <2>4. statusMatches' = {} /\ pc' = "gather"
    BY <1>7 DEF sortRunners, Gathering
  <2> QED
    BY <2>3, <2>4 DEF Gathering, Matched
<1>8. CASE getLineStatusMatches
  <2>1. /\ statusMatches' = UNION {Part(p) : p \in Gathered} /\ pc' = "close"
        /\ \A p \in Gathered : logPartStatuses[sortedRunners[p]] # NULL
        /\ UNCHANGED <<sortedRunners, lines, logPart, state>>
    BY <1>8 DEF getLineStatusMatches
  <2>2. Gathered \subseteq Threads
    <3>1. linesInLog \in Nat /\ MaxLines \in Nat /\ linesInLog <= MaxLines
      BY LogAssumption DEF LogAssumption, TypeInv
    <3>2. linesInLog \div linesPerThread \in Nat /\ MaxLines \div linesPerThread \in Nat
          /\ linesInLog \div linesPerThread <= MaxLines \div linesPerThread
      BY <3>1, PartOf, PartsInOrder
    <3> HIDE DEF Gathered
    <3>3. 0..(threadsNeeded - 1) \subseteq Threads
      BY <3>2 DEF threadsNeeded, Threads
    <3> QED
      BY <3>3 DEF Gathered
  <2>3. ASSUME NEW x \in statusMatches'
        PROVE  \E p \in Threads, i \in 1..linesPerThread :
                 /\ sortedRunners[p] # NoPart /\ state[sortedRunners[p]] = "done"
                 /\ x = <<Start(p) + i - 1, getLineStatuses(sortedRunners[p])[i]>>
    <3>1. PICK p \in Gathered : x \in Part(p)
      BY <2>1, <2>3
    <3>2. PICK i \in 1..linesPerThread :
            x = <<Start(p) + i - 1, logPartStatuses[sortedRunners[p]][i]>>
      BY <3>1 DEF Part, Start
    <3>3. /\ p \in Threads /\ sortedRunners[p] # NoPart /\ sortedRunners[p] \in Threads
          /\ logPartStatuses[sortedRunners[p]] # NULL
      BY <2>1, <2>2, <3>1 DEF Gathered, TypeInv
    <3>4. /\ state[sortedRunners[p]] = "done"
          /\ logPartStatuses[sortedRunners[p]] = getLineStatuses(sortedRunners[p])
      BY <3>3 DEF Reads
    <3> QED
      BY <3>2, <3>3, <3>4
  <2>4. \A t \in Threads : getLineStatuses(t)' = getLineStatuses(t)
    BY <2>1 DEF getLineStatuses
  <2>5. \A p \in Threads : sortedRunners[p] # NoPart => sortedRunners[p] \in Threads
    BY DEF TypeInv
  <2>6. Matched'
    BY <2>1, <2>3, <2>4, <2>5 DEF Matched
  <2> QED
    BY <2>1, <2>6 DEF Gathering, Sorted
<1>9. ASSUME NEW s \in Statuses, write(s) PROVE Gathering'
  BY <1>2, <1>9 DEF write
<1>10. CASE countLines \/ copyTo \/ copyFails \/ ioException
  BY <1>2, <1>10 DEF countLines, copyTo, copyFails, ioException
<1>11. CASE awaitTermination \/ statusesAreNull \/ parseLogBody
  BY <1>2, <1>11 DEF awaitTermination, statusesAreNull, parseLogBody
<1>12. CASE close \/ judge \/ lookUp \/ lookupFails \/ interrupted
  BY <1>2, <1>12 DEF close, judge, lookUp, lookupFails, interrupted
<1>13. ASSUME NEW t \in Threads, beginRead(t) PROVE Gathering'
  BY <1>1, <1>13 DEF beginRead, TypeInv, getLineStatuses
<1>14. CASE UNCHANGED vars
  BY <1>2, <1>14 DEF vars
<1> QED
  BY <1>3, <1>4, <1>5, <1>6, <1>7, <1>8, <1>9, <1>10, <1>11, <1>12, <1>13, <1>14
  DEF Next, Parser

LEMMA ReadsInit == Init => Reads /\ Gathering
<1> SUFFICES ASSUME Init PROVE Reads /\ Gathering
  OBVIOUS
<1> QED
  BY DEF Init, Reads, Gathering, Sorted, Matched

(* Where the i-th line of a part of l lines is that is read at position s. *)
LEMMA LineOfPart ==
  ASSUME NEW l \in Nat, NEW s \in Nat, NEW len \in Nat, NEW i \in Nat, i >= 1, i <= l
  PROVE  LET pos == Least(s, len)
             n == Least(l, len - pos) IN
         /\ i <= n <=> s + i <= len
         /\ i <= n => pos + i = s + i
BY DEF Least

(* Behind it the next part begins. *)
LEMMA NextPart ==
  ASSUME NEW l \in Nat, NEW s \in Nat, NEW len \in Nat
  PROVE  LET pos == Least(s, len) IN pos + Least(l, len - pos) = Least(s + l, len)
BY DEF Least

(* The reader gives a part to the thread that has it. *)
LEMMA ReadsOwnPart ==
  ASSUME TypeInv, OwnInv, NEW t \in Threads, readLogPart(t)
  PROVE  Positions' /\ OwnPart(t)'
<1> DEFINE n == Least(linesPerThread, Left)
           k == logPartNum
<1>1. /\ n \in Nat /\ position + n \in 0..Len(copy) /\ Len(copy) \in Nat /\ position \in Nat
      /\ Left \in Nat /\ position + Left = Len(copy)
  BY ReadTyped, CopyTyped
<1>2. /\ lines'[t] = SubSeq(stream, position + 1, position + n) /\ position' = position + n
      /\ logPart'[t] = k /\ logPartNum' = k + 1 /\ UNCHANGED <<copy, intact>>
  BY DEF readLogPart, faults, TypeInv
<1>3. /\ Len(lines'[t]) = n /\ \A i \in 1..n : lines'[t][i] = stream[position + i]
  BY <1>2, ReadTyped
<1>4. /\ k \in Nat /\ Start(k) \in Nat /\ Start(k + 1) = Start(k) + linesPerThread
      /\ linesPerThread \in Nat \ {0} /\ intact \in Nat
  BY Starts, LogAssumption DEF LogAssumption, TypeInv
<1>5. CASE intact <= Start(k)
  BY <1>2, <1>4, <1>5 DEF Positions, OwnPart
<1>6. CASE position = Least(Start(k), Len(copy)) /\ ~(intact <= Start(k))
  <2>1. /\ n = Least(linesPerThread, Len(copy) - position)
        /\ position + n = Least(Start(k + 1), Len(copy))
    <3>1. n = Least(linesPerThread, Left)
      OBVIOUS
    <3> HIDE DEF n, k
    <3>2. Left = Len(copy) - position
      BY <1>1
    <3>3. position = Least(Start(k), Len(copy))
      BY <1>6
    <3>4. position + n = Least(Start(k + 1), Len(copy))
      <4>1. linesPerThread \in Nat /\ Start(k) \in Nat /\ Len(copy) \in Nat
        BY <1>1, <1>4
      <4>2. LET pos == Least(Start(k), Len(copy)) IN
            pos + Least(linesPerThread, Len(copy) - pos)
              = Least(Start(k) + linesPerThread, Len(copy))
        BY <4>1, NextPart
      <4> QED
        BY <1>4, <3>1, <3>2, <3>3, <4>2
    <3> QED
      BY <3>1, <3>2, <3>4
  <2> HIDE DEF n
  <2>2. ASSUME NEW i \in 1..linesPerThread
        PROVE  /\ i <= n <=> Start(k) + i <= Len(copy)
               /\ i <= n => position + i = Start(k) + i
    <3>1. i \in Nat /\ i >= 1 /\ i <= linesPerThread /\ linesPerThread \in Nat
      BY <1>4
    <3>2. LET pos == Least(Start(k), Len(copy))
              m == Least(linesPerThread, Len(copy) - pos) IN
          /\ i <= m <=> Start(k) + i <= Len(copy)
          /\ i <= m => pos + i = Start(k) + i
      BY <1>1, <1>4, <3>1, LineOfPart
    <3> QED
      BY <1>6, <2>1, <3>2
  <2>3. Positions'
    BY <1>2, <2>1 DEF Positions, Least
  <2>4. ASSUME NEW i \in 1..linesPerThread, i <= n PROVE i \in 1..n
    BY <1>1, <2>4
  <2>5. cut = {}
    <3>1. position <= Start(k) /\ ~(intact <= Start(k))
      BY <1>1, <1>4, <1>6, LeastOf
    <3>2. ~(intact <= position)
      <4>1. intact \in Nat /\ position \in Nat /\ Start(k) \in Nat
        BY <1>1, <1>4
      <4> HIDE DEF k
      <4> QED
        BY <3>1, <4>1
    <3> QED
      BY <3>2 DEF OwnInv, Streamed
  <2>6. ASSUME NEW i \in 1..n PROVE stream[position + i] = copy[position + i]
    <3>1. position + i \in 1..Len(copy)
      BY <1>1
    <3> QED
      BY <2>5, <3>1 DEF OwnInv, Streamed
  <2> QED
    BY <1>2, <1>3, <2>2, <2>3, <2>4, <2>6 DEF OwnPart
<1> QED
  BY <1>5, <1>6 DEF OwnInv, Positions

LEMMA OwnNext == TypeInv /\ Launched /\ Reads /\ OwnInv /\ [Next]_vars => OwnInv'
<1> SUFFICES ASSUME TypeInv, Launched, Reads, OwnInv, [Next]_vars PROVE OwnInv'
  OBVIOUS
<1> USE DEF reader, threads, faults, outcome
<1>1. ASSUME UNCHANGED <<copy, stream, cut, position, logPartNum, logPart, lines, intact>>
      PROVE  OwnInv'
  BY <1>1 DEF OwnInv, Positions, Streamed, OwnPart
<1>2. CASE copyTo
  <2>1. position = 0 /\ logPartNum = 0 /\ position' = 0 /\ logPartNum' = 0
    BY <1>2 DEF copyTo, TypeInv
  <2>2. Start(0) = 0 /\ Len(copy') \in Nat
    BY <1>2, CopyTyped, LogAssumption DEF copyTo, Start, LogAssumption
  <2>3. \A t \in Threads : logPart'[t] = NoPart
    BY <1>2, ThreadsAreNumbers DEF copyTo, TypeInv, Reads
  <2>4. Streamed'
    BY <1>2 DEF copyTo, Streamed, TypeInv
  <2> QED
    BY <2>1, <2>2, <2>3, <2>4 DEF OwnInv, Positions, Least
<1>3. ASSUME NEW t \in Threads, readLogPart(t) PROVE OwnInv'
  <2>1. Positions' /\ OwnPart(t)'
    BY <1>3, ReadsOwnPart
  <2>2. \A u \in Threads \ {t} : UNCHANGED <<logPart[u], lines[u], copy, intact>>
    BY <1>3 DEF readLogPart, TypeInv
  <2>3. \A u \in Threads \ {t} : logPart'[u] # NoPart => OwnPart(u)'
    BY <2>2 DEF OwnInv, OwnPart
  <2>4. UNCHANGED <<copy, stream, cut, intact>> /\ position' >= position
        /\ intact \in Nat /\ position \in Nat /\ position' \in Nat
    <3> DEFINE n == Least(linesPerThread, Left)
    <3>1. n \in Nat /\ position \in Nat /\ intact \in Nat
      BY ReadTyped, CopyTyped DEF TypeInv
    <3>2. position' = position + n /\ UNCHANGED <<copy, stream, cut, intact>>
      BY <1>3 DEF readLogPart
    <3> HIDE DEF n
    <3> QED
      BY <3>1, <3>2
  <2>5. Streamed'
    BY <2>4 DEF OwnInv, Streamed
  <2> QED
    BY <2>1, <2>3, <2>5 DEF OwnInv
<1>4. ASSUME NEW t \in Threads, NEW n \in 0..linesPerThread, readFails(t, n) PROVE OwnInv'
  <2>1. intact' <= intact /\ intact' <= position
        /\ intact' \in Nat /\ intact \in Nat /\ position \in Nat
    BY <1>4, CopyTyped DEF readFails, Least, TypeInv
  <2>2. UNCHANGED <<copy, logPartNum, logPart, lines>>
    BY <1>4 DEF readFails
  <2>3. Start(logPartNum) \in Nat /\ Len(copy) \in Nat
    BY Starts, CopyTyped DEF TypeInv
  <2>4. Positions'
    BY <2>1, <2>2, <2>3 DEF OwnInv, Positions, Least
  <2>5. ASSUME NEW u \in Threads, logPart[u] # NoPart PROVE OwnPart(u)'
    <3>1. Start(logPart[u]) \in Nat
      BY <2>5, Starts DEF TypeInv
    <3> QED
      BY <2>1, <2>2, <2>5, <3>1 DEF OwnInv, OwnPart
  <2>6. /\ cut \subseteq cut' /\ position' >= position /\ position' \in Nat
        /\ \A m \in 1..Len(copy) : m \notin cut' => stream'[m] = stream[m]
    BY <1>4, CutTyped, CopyTyped, LogAssumption DEF readFails, LogAssumption
  <2>7. Streamed'
    BY <2>1, <2>2, <2>6 DEF OwnInv, Streamed
  <2> QED
    BY <2>2, <2>4, <2>5, <2>7 DEF OwnInv
<1>5. ASSUME NEW t \in Threads, execute(t) \/ beginRead(t) \/ parse(t) PROVE OwnInv'
  BY <1>1, <1>5 DEF execute, beginRead, parse
<1>6. ASSUME NEW s \in Statuses, write(s) PROVE OwnInv'
  BY <1>1, <1>6 DEF write
<1>7. CASE countLines \/ copyFails \/ ioException
  BY <1>1, <1>7 DEF countLines, copyFails, ioException
<1>8. CASE awaitTermination \/ sortRunners
  BY <1>1, <1>8 DEF awaitTermination, sortRunners
<1>9. CASE getLineStatusMatches \/ statusesAreNull \/ parseLogBody
  BY <1>1, <1>9 DEF getLineStatusMatches, statusesAreNull, parseLogBody
<1>10. CASE close \/ judge \/ lookUp \/ lookupFails \/ interrupted
  BY <1>1, <1>10 DEF close, judge, lookUp, lookupFails, interrupted
<1>11. CASE UNCHANGED vars
  BY <1>1, <1>11 DEF vars
<1> QED
  BY <1>2, <1>3, <1>4, <1>5, <1>6, <1>7, <1>8, <1>9, <1>10, <1>11 DEF Next, Parser

LEMMA OwnInit == Init => OwnInv
<1> SUFFICES ASSUME Init PROVE OwnInv
  OBVIOUS
<1>1. Start(0) = 0 /\ Len(<<>>) = 0
  BY LogAssumption DEF Start, LogAssumption
<1> QED
  BY <1>1 DEF Init, OwnInv, Positions, Streamed, Least

LEMMA OwnStatuses == TypeInv /\ Reads /\ Gathering /\ OwnInv => OwnLine
<1> SUFFICES ASSUME TypeInv, Reads, Gathering, OwnInv,
                    NEW n \in 1..intact, NEW s \in Statuses \cup {"null"},
                    <<n - 1, s>> \in statusMatches
             PROVE  s = IF n <= Len(copy) THEN copy[n] ELSE "null"
  BY DEF OwnLine
<1>1. PICK p \in Threads, i \in 1..linesPerThread :
        /\ sortedRunners[p] # NoPart /\ state[sortedRunners[p]] = "done"
        /\ <<n - 1, s>> = <<Start(p) + i - 1, getLineStatuses(sortedRunners[p])[i]>>
  BY DEF Gathering, Matched
<1> DEFINE t == sortedRunners[p]
<1>2. t \in Threads /\ logPart[t] = p /\ p \in Nat /\ p # NoPart
  BY <1>1, ThreadsAreNumbers DEF TypeInv, Gathering, Sorted
<1> HIDE DEF t
<1>3. n = Start(p) + i /\ s = getLineStatuses(t)[i] /\ Start(p) \in Nat
      /\ n <= intact /\ i >= 1 /\ i \in Nat /\ intact \in Nat
  <2>1. Start(p) \in Nat /\ linesPerThread \in Nat /\ intact \in Nat
    BY <1>2, Starts, LogAssumption DEF LogAssumption, TypeInv
  <2>2. n - 1 = Start(p) + i - 1 /\ s = getLineStatuses(t)[i]
    BY <1>1 DEF t
  <2> QED
    BY <2>1, <2>2
<1>4. ~(intact <= Start(p))
  BY <1>3
<1>5. /\ i <= Len(lines[t]) <=> n <= Len(copy)
      /\ i <= Len(lines[t]) => lines[t][i] = copy[n]
  BY <1>2, <1>3, <1>4 DEF OwnInv, OwnPart
<1>6. s = IF i <= Len(lines[t]) THEN lines[t][i] ELSE "null"
  BY <1>2, <1>3, StatusesTyped
<1> QED
  BY <1>5, <1>6

(* Whatever order the threads read in and whichever are late, a line that  *)
(* was read before any read failed has its own status or none.             *)
THEOREM OwnLines == Spec => []OwnLine
<1>1. TypeInv /\ Reads /\ Gathering /\ OwnInv => OwnLine
  BY OwnStatuses
<1> QED
  BY <1>1, TypedInit, TypedNext, LaunchedInit, LaunchedNext, ReadsInit, ReadsNext,
     GatheringNext, OwnInit, OwnNext, PTL DEF Spec
-----------------------------------------------------------------------------
(* When no thread is late, nothing of what was read is lost. *)

(* The log only grows, and the copy is made of it after its lines were     *)
(* counted.                                                                *)
Copied ==
  /\ Len(copy) <= Len(log) /\ \A i \in 1..Len(copy) : copy[i] = log[i]
  /\ linesInLog <= Len(log)
  /\ pc \notin {"count", "copy"} /\ failures = 0 /\ ~stopped => linesInLog <= Len(copy)

(* Without failures no thread is dead; every part that was given out has   *)
(* its thread, and there are as many of them as threads with a part.       *)
Complete ==
  /\ failures = 0 => intact = MaxLines /\ \A t \in Threads : state[t] # "dead"
  /\ \A p \in 0..(logPartNum - 1) : \E t \in Threads : logPart[t] = p
  /\ logPartNum = Cardinality({t \in Threads : logPart[t] # NoPart})

(* After the wait, if nobody was late, all have ended; they are sorted by  *)
(* the part that they have; what they have found is kept, and counted if   *)
(* it is an error.                                                         *)
Ended ==
  /\ pc \in {"sort", "gather", "close", "body", "lookup", "judge"} /\ late = {} => Running = {}
  /\ pc = "gather" /\ late = {} =>
       \A t \in runners : logPart[t] \in Threads => sortedRunners[logPart[t]] # NoPart
  /\ pc \in {"close", "body"} /\ late = {} /\ failures = 0 =>
       \A n \in 1..linesInLog : <<n - 1, log[n]>> \in statusMatches
  /\ pc \in {"lookup", "judge"} /\ late = {} /\ failures = 0 =>
       \A n \in 1..linesInLog : log[n] = "ERROR" => totalErrors > 0
  /\ pc # "end" => result = "SUCCESS" /\ ~stopped

LEMMA CopiedNext == TypeInv /\ Copied /\ [Next]_vars => Copied'
<1> SUFFICES ASSUME TypeInv, Copied, [Next]_vars PROVE Copied'
  OBVIOUS
<1> USE DEF reader, threads, faults, outcome
<1>1. ASSUME UNCHANGED <<log, copy, linesInLog>>,
             pc' \notin {"count", "copy"} /\ failures' = 0 /\ ~stopped' =>
               pc \notin {"count", "copy"} /\ failures = 0 /\ ~stopped
      PROVE  Copied'
  BY <1>1 DEF Copied
<1>2. ASSUME NEW s \in Statuses, write(s) PROVE Copied'
  <2>1. log' = Append(log, s) /\ log \in Seq(Statuses) /\ Len(copy) \in Nat
    BY <1>2, CopyTyped DEF write, TypeInv
  <2>2. Len(log') = Len(log) + 1 /\ \A i \in 1..Len(log) : log'[i] = log[i]
    BY <2>1
  <2>3. UNCHANGED <<copy, linesInLog, pc, failures, stopped>>
    BY <1>2 DEF write
  <2>4. Len(log) \in Nat /\ linesInLog \in Int
    BY <2>1, LogAssumption DEF LogAssumption, TypeInv
  <2>5. Len(copy) <= Len(log') /\ \A i \in 1..Len(copy) : i \in 1..Len(log)
    BY <2>1, <2>2, <2>4 DEF Copied
  <2>6. linesInLog <= Len(log')
    BY <2>2, <2>4 DEF Copied
  <2> QED
    BY <2>2, <2>3, <2>5, <2>6 DEF Copied
<1>3. CASE countLines
  BY <1>3, CopyTyped DEF countLines, Copied
<1>4. CASE copyTo
  BY <1>4, CopyTyped DEF copyTo, Copied
<1>5. CASE copyFails \/ ioException
  <2>1. failures' # 0
    BY <1>5 DEF copyFails, ioException, TypeInv
  <2> QED
    BY <1>1, <1>5, <2>1 DEF copyFails, ioException
<1>6. ASSUME NEW t \in Threads, execute(t) \/ beginRead(t) \/ readLogPart(t) \/ parse(t)
      PROVE  Copied'
  BY <1>1, <1>6 DEF execute, beginRead, readLogPart, parse
<1>7. ASSUME NEW t \in Threads, NEW n \in 0..linesPerThread, readFails(t, n) PROVE Copied'
  <2>1. failures' # 0
    BY <1>7 DEF readFails, TypeInv
  <2> QED
    BY <1>1, <1>7, <2>1 DEF readFails
<1>8. CASE awaitTermination \/ sortRunners
  BY <1>1, <1>8 DEF awaitTermination, sortRunners
<1>9. CASE getLineStatusMatches \/ statusesAreNull \/ parseLogBody
  BY <1>1, <1>9 DEF getLineStatusMatches, statusesAreNull, parseLogBody
<1>10. CASE close \/ judge \/ lookUp \/ lookupFails \/ interrupted
  BY <1>1, <1>10 DEF close, judge, lookUp, lookupFails, interrupted
<1>11. CASE UNCHANGED vars
  BY <1>1, <1>11 DEF vars
<1> QED
  BY <1>2, <1>3, <1>4, <1>5, <1>6, <1>7, <1>8, <1>9, <1>10, <1>11 DEF Next, Parser

LEMMA CompleteNext == TypeInv /\ Reads /\ Complete /\ [Next]_vars => Complete'
<1> SUFFICES ASSUME TypeInv, Reads, Complete, [Next]_vars PROVE Complete'
  OBVIOUS
<1> USE DEF reader, threads, faults, outcome
<1>1. ASSUME UNCHANGED <<intact, logPartNum, logPart>>, failures' = 0 => failures = 0,
             \A t \in Threads : state'[t] = "dead" => state[t] = "dead"
      PROVE  Complete'
  BY <1>1 DEF Complete
<1>2. ASSUME NEW t \in Threads, readLogPart(t) PROVE Complete'
  <2> DEFINE S == {u \in Threads : logPart[u] # NoPart}
             T == {u \in Threads : logPart'[u] # NoPart}
  <2>1. /\ logPart'[t] = logPartNum /\ logPartNum' = logPartNum + 1 /\ logPart[t] = NoPart
        /\ \A u \in Threads \ {t} : UNCHANGED <<logPart[u], state[u]>>
        /\ state'[t] = "parse" /\ UNCHANGED <<intact, failures>>
    BY <1>2 DEF readLogPart, TypeInv, Reads
  <2>2. logPartNum \in Nat /\ logPartNum # NoPart
    BY DEF TypeInv, NoPart
  <2>3. T = S \cup {t} /\ t \notin S /\ S \in SUBSET Threads
    BY <2>1, <2>2
  <2>4. logPartNum = Cardinality(S)
    BY DEF Complete
  <2> HIDE DEF S, T
  <2>5. logPartNum' = Cardinality(T)
    BY <2>1, <2>3, <2>4, ThreadsAreNumbers, FS_Subset, FS_AddElement
  <2>6. ASSUME NEW p \in 0..(logPartNum' - 1) PROVE \E u \in Threads : logPart'[u] = p
    <3>1. p = logPartNum \/ p \in 0..(logPartNum - 1)
      BY <2>1, <2>2
    <3>2. CASE p \in 0..(logPartNum - 1)
      <4>1. PICK u \in Threads : logPart[u] = p
        BY <3>2 DEF Complete
      <4> QED
        BY <2>1, <3>2, <4>1 DEF NoPart
    <3> QED
      BY <2>1, <3>1, <3>2
  <2>7. failures = 0 => intact' = MaxLines /\ \A u \in Threads : state'[u] # "dead"
    BY <2>1 DEF Complete
  <2> QED
    BY <2>1, <2>5, <2>6, <2>7 DEF Complete, T
<1>3. ASSUME NEW t \in Threads, NEW n \in 0..linesPerThread, readFails(t, n) PROVE Complete'
  <2>1. failures' # 0 /\ UNCHANGED <<logPart, logPartNum>>
    BY <1>3 DEF readFails, TypeInv
  <2> QED
    BY <2>1 DEF Complete
<1>4. ASSUME NEW t \in Threads, execute(t) \/ beginRead(t) \/ parse(t) PROVE Complete'
  BY <1>1, <1>4 DEF execute, beginRead, parse, TypeInv
<1>5. ASSUME NEW s \in Statuses, write(s) PROVE Complete'
  BY <1>1, <1>5 DEF write
<1>6. CASE copyFails \/ ioException
  <2>1. failures' # 0
    BY <1>6 DEF copyFails, ioException, TypeInv
  <2> QED
    BY <1>1, <1>6, <2>1 DEF copyFails, ioException
<1>7. CASE countLines \/ copyTo
  BY <1>1, <1>7 DEF countLines, copyTo
<1>8. CASE awaitTermination \/ sortRunners
  BY <1>1, <1>8 DEF awaitTermination, sortRunners
<1>9. CASE getLineStatusMatches \/ statusesAreNull \/ parseLogBody
  BY <1>1, <1>9 DEF getLineStatusMatches, statusesAreNull, parseLogBody
<1>10. CASE close \/ judge \/ lookUp \/ lookupFails \/ interrupted
  BY <1>1, <1>10 DEF close, judge, lookUp, lookupFails, interrupted
<1>11. CASE UNCHANGED vars
  BY <1>1, <1>11 DEF vars
<1> QED
  BY <1>2, <1>3, <1>4, <1>5, <1>6, <1>7, <1>8, <1>9, <1>10, <1>11 DEF Next, Parser

(* What was counted has its status, when nobody was late and nothing has   *)
(* failed: as many threads have read as were needed.                       *)
LEMMA NothingLost ==
  ASSUME TypeInv, Launched, Reads, Gathering, Copied, Complete, Ended, OwnLine',
         getLineStatusMatches, late = {}, failures = 0, NEW n \in 1..linesInLog
  PROVE  <<n - 1, log[n]>> \in statusMatches'
<1>1. PICK k \in Nat : runners = 0..(k - 1) /\ k = threadsNeeded
  BY DEF Launched, getLineStatusMatches
<1>2. \A t \in Threads : t \in runners <=> logPart[t] # NoPart
  <2>1. ASSUME NEW t \in runners PROVE state[t] = "done"
    <3>1. Running = {}
      BY DEF Ended, getLineStatusMatches
    <3>2. t \in Threads /\ state[t] \notin {"none", "run", "read", "parse", "dead"}
      BY <3>1 DEF Running, Complete, Launched, TypeInv
    <3> QED
      BY <3>2 DEF TypeInv
  <2> QED
    BY <2>1 DEF Launched, Reads, TypeInv
<1>3. {t \in Threads : logPart[t] # NoPart} = runners
  BY <1>2 DEF TypeInv
<1>4. logPartNum = threadsNeeded
  <2>1. Cardinality(runners) = k
    BY <1>1, FS_Interval
  <2>2. logPartNum = Cardinality({t \in Threads : logPart[t] # NoPart})
    BY DEF Complete
  <2> QED
    BY <1>1, <1>3, <2>1, <2>2
<1> DEFINE p == (n - 1) \div linesPerThread
           i == n - Start(p)
<1>5. linesPerThread \in Nat \ {0} /\ n \in Nat /\ n - 1 \in Nat /\ linesInLog \in Nat
      /\ n <= linesInLog /\ linesInLog <= MaxLines /\ n - 1 <= linesInLog /\ MaxLines \in Nat
  BY LogAssumption DEF LogAssumption, TypeInv
<1>6. p \in Nat /\ Start(p) <= n - 1 /\ n - 1 < Start(p) + linesPerThread /\ Start(p) \in Nat
  BY <1>5, PartOf, Starts
<1>7. /\ p <= linesInLog \div linesPerThread /\ linesInLog \div linesPerThread \in Nat
      /\ p <= MaxLines \div linesPerThread /\ MaxLines \div linesPerThread \in Nat
  BY <1>5, PartsInOrder, PartOf
<1> HIDE DEF p
<1>8. p \in 0..(threadsNeeded - 1) /\ p \in Threads /\ p # NoPart
  BY <1>6, <1>7 DEF threadsNeeded, Threads, NoPart
<1>9. PICK t \in Threads : logPart[t] = p
  BY <1>4, <1>8 DEF Complete
<1>10. sortedRunners[p] # NoPart
  <2>1. t \in runners /\ logPart[t] \in Threads
    BY <1>2, <1>8, <1>9
  <2> QED
    BY <1>9, <2>1 DEF Ended, getLineStatusMatches
<1> DEFINE u == sortedRunners[p]
           s == logPartStatuses[u][i]
<1>11. p \in Gathered /\ u \in Threads
  BY <1>8, <1>10 DEF Gathered, TypeInv
<1>12. logPartStatuses[u] = getLineStatuses(u)
  BY <1>11 DEF getLineStatusMatches, Reads
<1>13. i \in 1..linesPerThread /\ Start(p) + i = n /\ p * linesPerThread + i - 1 = n - 1
  BY <1>5, <1>6 DEF Start
<1>14. <<n - 1, s>> \in Part(p)
  BY <1>13 DEF Part
<1> HIDE DEF i
<1>15. s \in Statuses \cup {"null"}
  <2>1. getLineStatuses(u)[i] = IF i <= Len(lines[u]) THEN lines[u][i] ELSE "null"
    BY <1>11, <1>13, StatusesTyped
  <2>2. lines[u] \in Seq(Statuses) /\ i \in Nat /\ i >= 1
    BY <1>5, <1>11, <1>13 DEF TypeInv
  <2> QED
    BY <1>12, <2>1, <2>2
<1> HIDE DEF u, s
<1>16. <<n - 1, s>> \in statusMatches'
  BY <1>11, <1>14 DEF getLineStatusMatches
<1>17. n \in 1..intact' /\ UNCHANGED copy
  BY <1>5 DEF getLineStatusMatches, faults, Complete
<1>18. s = IF n <= Len(copy) THEN copy[n] ELSE "null"
  BY <1>15, <1>16, <1>17 DEF OwnLine
<1>19. n <= Len(copy) /\ Len(copy) \in Nat
  BY <1>5, CopyTyped DEF Copied, Ended, getLineStatusMatches
<1>20. copy[n] = log[n]
  BY <1>5, <1>19 DEF Copied
<1> QED
  BY <1>16, <1>18, <1>19, <1>20

(* Whether a line is shown as an error. *)
LEMMA ShownIsCounted ==
  ASSUME TypeInv, parseLogBody, NEW n \in 1..linesInLog, linesInLog <= Len(log),
         <<n - 1, "ERROR">> \in statusMatches
  PROVE  totalErrors' > 0
<1> DEFINE E == {m \in 1..Len(log) : <<m - 1, "ERROR">> \in statusMatches}
<1>1. /\ Len(log) \in Nat /\ linesInLog \in Int
  BY CopyTyped, LogAssumption DEF LogAssumption, TypeInv
<1>2. n \in E
  BY <1>1
<1>3. IsFiniteSet(E)
  <2>1. E \in SUBSET (1..Len(log)) /\ IsFiniteSet(1..Len(log))
    BY <1>1, FS_Interval
  <2> QED
    BY <2>1, FS_Subset
<1>4. totalErrors' = Cardinality(E)
  BY DEF parseLogBody
<1> HIDE DEF E
<1>5. Cardinality(E) \in Nat /\ Cardinality(E) # 0
  BY <1>2, <1>3, FS_CardinalityType, FS_EmptySet
<1> QED
  BY <1>4, <1>5

LEMMA EndedNext ==
  /\ TypeInv /\ Launched /\ Reads /\ Gathering /\ Copied /\ Complete /\ Ended /\ OwnLine'
  /\ [Next]_vars
  => Ended'
<1> SUFFICES ASSUME TypeInv, Launched, Reads, Gathering, Copied, Complete, Ended, OwnLine',
                    [Next]_vars
             PROVE  Ended'
  OBVIOUS
<1> USE DEF reader, threads, faults, outcome
(* A thread that still does something is late, or the wait is not over.    *)
<1>1. ASSUME NEW t \in Threads, state[t] \in {"run", "read", "parse"},
             UNCHANGED <<pc, late, result, stopped>>
      PROVE  Ended'
  <2>1. t \in Running
    BY <1>1 DEF Running, TypeInv
  <2> QED
    BY <1>1, <2>1 DEF Ended
<1>2. ASSUME NEW t \in Threads, beginRead(t) \/ readLogPart(t) \/ parse(t) PROVE Ended'
  BY <1>1, <1>2 DEF beginRead, readLogPart, parse
<1>3. ASSUME NEW t \in Threads, NEW n \in 0..linesPerThread, readFails(t, n) PROVE Ended'
  BY <1>1, <1>3 DEF readFails
<1>4. ASSUME NEW t \in Threads, execute(t) PROVE Ended'
  BY <1>4 DEF execute, Ended
<1>5. CASE countLines \/ copyTo
  BY <1>5 DEF countLines, copyTo, Ended
<1>6. ASSUME NEW s \in Statuses, write(s) PROVE Ended'
  <2>1. \A n \in 1..linesInLog : log'[n] = log[n]
    <3>1. log' = Append(log, s) /\ log \in Seq(Statuses) /\ linesInLog <= Len(log)
          /\ linesInLog \in Int
      BY <1>6, LogAssumption DEF write, TypeInv, Copied, LogAssumption
    <3> QED
      BY <3>1
  <2>2. UNCHANGED <<pc, late, runners, state, logPart, sortedRunners, failures, linesInLog,
                    statusMatches, totalErrors, result, stopped>>
    BY <1>6 DEF write
  <2>3. Running' = Running
    BY <2>2 DEF Running
  <2> QED
    BY <2>1, <2>2, <2>3 DEF Ended
<1>7. CASE copyFails \/ ioException \/ statusesAreNull \/ judge \/ lookupFails \/ interrupted
  BY <1>7 DEF copyFails, ioException, statusesAreNull, judge, lookupFails, interrupted, Ended
<1>8. CASE awaitTermination
  <2>1. late' = Running /\ Running' = Running /\ pc' = "sort" /\ pc = "await"
        /\ UNCHANGED <<result, stopped>>
    BY <1>8 DEF awaitTermination, Running
  <2> QED
    BY <2>1 DEF Ended
<1>9. CASE sortRunners
  <2>1. PICK seen \in [Threads -> {NoPart} \cup 0..(logPartNum - 1)] :
          /\ \A t \in Threads : seen[t] \in Seen(t)
          /\ sortedRunners' = [p \in Threads |->
                IF \E t \in runners : seen[t] = p
                THEN CHOOSE t \in runners : seen[t] = p ELSE NoPart]
    BY <1>9 DEF sortRunners
  <2>2. ASSUME late = {}, NEW t \in runners, logPart[t] \in Threads
        PROVE  sortedRunners'[logPart[t]] # NoPart
    <3>1. t \in Threads /\ seen[t] = logPart[t]
      BY <2>1, <2>2 DEF Seen, TypeInv
    <3>2. sortedRunners'[logPart[t]] \in runners
      BY <2>1, <2>2, <3>1
    <3> QED
      BY <3>2, ThreadsAreNumbers DEF TypeInv
  <2>3. /\ pc' = "gather" /\ pc = "sort" /\ Running' = Running
        /\ UNCHANGED <<late, runners, logPart, result, stopped>>
    BY <1>9 DEF sortRunners, Running
  <2> QED
    BY <2>2, <2>3 DEF Ended
<1>10. CASE getLineStatusMatches
  <2>1. late = {} /\ failures = 0 => \A n \in 1..linesInLog : <<n - 1, log[n]>> \in statusMatches'
    BY <1>10, NothingLost
  <2>2. /\ pc' = "close" /\ pc = "gather" /\ Running' = Running
        /\ UNCHANGED <<late, result, stopped, log, linesInLog, failures>>
    BY <1>10 DEF getLineStatusMatches, Running
  <2> QED
    BY <2>1, <2>2 DEF Ended
<1>11. CASE close \/ lookUp
  <2>1. /\ <<pc, pc'>> \in {<<"close", "body">>, <<"lookup", "judge">>} /\ Running' = Running
        /\ UNCHANGED <<late, result, stopped, log, linesInLog, failures, statusMatches,
                       totalErrors>>
    BY <1>11 DEF close, lookUp, Running
  <2> QED
    BY <2>1 DEF Ended
<1>12. CASE parseLogBody
  <2>1. /\ pc = "body" /\ pc' \in {"lookup", "judge"} /\ Running' = Running
        /\ UNCHANGED <<late, result, stopped, log, linesInLog, failures>>
    BY <1>12 DEF parseLogBody, Running
  <2>2. ASSUME late = {}, failures = 0, NEW n \in 1..linesInLog, log[n] = "ERROR"
        PROVE  totalErrors' > 0
    <3>1. <<n - 1, "ERROR">> \in statusMatches
      BY <2>1, <2>2 DEF Ended
    <3> QED
      BY <1>12, <3>1, ShownIsCounted DEF Copied
  <2> QED
    BY <2>1, <2>2 DEF Ended
<1>13. CASE UNCHANGED vars
  BY <1>13 DEF vars, Ended, Running
<1> QED
  BY <1>2, <1>3, <1>4, <1>5, <1>6, <1>7, <1>8, <1>9, <1>10, <1>11, <1>12, <1>13
  DEF Next, Parser

LEMMA ResultNext ==
  /\ TypeInv /\ Reads /\ Gathering /\ Copied /\ Ended /\ RightResult
  /\ [Next]_vars
  => RightResult'
<1> SUFFICES ASSUME TypeInv, Reads, Gathering, Copied, Ended, RightResult, [Next]_vars
             PROVE  RightResult'
  OBVIOUS
<1> USE DEF reader, threads, faults, outcome
<1>1. ASSUME UNCHANGED <<pc, late, result, stopped, failures>>,
             \A n \in 1..linesInLog : log'[n] = log[n], pc = "end" => UNCHANGED linesInLog
      PROVE  RightResult'
  BY <1>1 DEF RightResult
<1>2. ASSUME pc' # "end" PROVE RightResult'
  BY <1>2 DEF RightResult
<1>3. ASSUME failures' # 0, late' = {} /\ result' = "ABORTED" => stopped' PROVE RightResult'
  BY <1>3 DEF RightResult
<1>4. ASSUME NEW s \in Statuses, write(s) PROVE RightResult'
  <2>1. \A n \in 1..linesInLog : log'[n] = log[n]
    <3>1. log' = Append(log, s) /\ log \in Seq(Statuses) /\ linesInLog <= Len(log)
          /\ linesInLog \in Int
      BY <1>4, LogAssumption DEF write, TypeInv, Copied, LogAssumption
    <3> QED
      BY <3>1
  <2> QED
    BY <1>1, <1>4, <2>1 DEF write
<1>5. ASSUME NEW t \in Threads, execute(t) \/ beginRead(t) \/ readLogPart(t) \/ parse(t)
      PROVE  RightResult'
  <2>1. CASE beginRead(t) \/ readLogPart(t) \/ parse(t)
    BY <1>1, <2>1 DEF beginRead, readLogPart, parse
  <2>2. CASE execute(t)
    BY <1>2, <2>2 DEF execute
  <2> QED
    BY <1>5, <2>1, <2>2
<1>6. ASSUME NEW t \in Threads, NEW n \in 0..linesPerThread, readFails(t, n) PROVE RightResult'
  <2>1. failures' # 0 /\ UNCHANGED <<pc, late, result, stopped>>
    BY <1>6 DEF readFails, TypeInv
  <2>2. CASE pc = "end"
    BY <1>3, <2>1, <2>2 DEF RightResult
  <2>3. CASE pc # "end"
    BY <1>2, <2>1, <2>3
  <2> QED
    BY <2>2, <2>3
<1>7. CASE countLines \/ copyTo
  BY <1>2, <1>7 DEF countLines, copyTo
<1>8. CASE \/ awaitTermination \/ sortRunners \/ getLineStatusMatches \/ close
           \/ parseLogBody \/ lookUp
  BY <1>2, <1>8
  DEF awaitTermination, sortRunners, getLineStatusMatches, close, parseLogBody, lookUp
<1>9. CASE copyFails \/ ioException
  <2>1. failures' # 0
    BY <1>9 DEF copyFails, ioException, TypeInv
  <2>2. result' # "ABORTED"
    BY <1>9 DEF copyFails, ioException, Ended
  <2> QED
    BY <1>3, <2>1, <2>2
(* All that were sorted have their statuses, if nobody is late.            *)
<1>10. CASE statusesAreNull
  <2>1. late' # {}
    <3>1. SUFFICES ASSUME late = {} PROVE FALSE
      BY <1>10 DEF statusesAreNull
    <3>2. PICK p \in 0..(threadsNeeded - 1) :
             p \in Gathered /\ logPartStatuses[sortedRunners[p]] = NULL
      BY <1>10, <3>1 DEF statusesAreNull, Unseen
    <3> DEFINE t == sortedRunners[p]
    <3>3. t # NoPart /\ p \in Threads
      <4>1. sortedRunners[p] # NoPart /\ p \in Nat
        BY <3>2 DEF Gathered
      <4>2. p <= linesInLog \div linesPerThread
            /\ linesInLog \div linesPerThread <= MaxLines \div linesPerThread
            /\ linesInLog \div linesPerThread \in Nat /\ MaxLines \div linesPerThread \in Nat
        <5>1. linesInLog \in Nat /\ linesInLog <= MaxLines /\ MaxLines \in Nat
          BY LogAssumption DEF LogAssumption, TypeInv
        <5>2. linesInLog \div linesPerThread \in Nat /\ MaxLines \div linesPerThread \in Nat
          BY <5>1, PartOf
        <5> QED
          BY <3>2, <5>1, <5>2, PartsInOrder DEF threadsNeeded
      <4> QED
        BY <4>1, <4>2 DEF Threads
    <3>4. t \in Threads /\ logPart[t] = p /\ p # NoPart
      BY <1>10, <3>3, ThreadsAreNumbers DEF TypeInv, Gathering, Sorted, statusesAreNull
    <3> HIDE DEF t
    <3>5. state[t] \in {"parse", "done"}
      BY <3>4 DEF Reads
    <3>6. Running = {} /\ t \in runners
      BY <1>10, <3>1, <3>4, <3>5 DEF Ended, statusesAreNull, TypeInv
    <3>7. state[t] = "done"
      BY <3>5, <3>6 DEF Running
    <3>8. logPartStatuses[t] = getLineStatuses(t)
      BY <3>4, <3>7 DEF Reads
    <3> QED
      BY <3>2, <3>4, <3>8, StatusesTyped DEF t
  <2> QED
    BY <2>1 DEF RightResult
<1>11. CASE judge
  <2>1. result = "SUCCESS" /\ ~stopped /\ pc = "judge"
    BY <1>11 DEF judge, Ended
  <2>2. result' # "ABORTED" /\ UNCHANGED <<log, linesInLog, late, failures, stopped>>
    BY <1>11, <2>1 DEF judge
  <2>3. ASSUME late = {}, failures = 0, failBuildOnError,
               NEW n \in 1..linesInLog, log[n] = "ERROR"
        PROVE  result' = "FAILURE"
    <3>1. totalErrors > 0
      BY <2>1, <2>3 DEF Ended
    <3> QED
      BY <1>11, <2>3, <3>1 DEF judge
  <2> QED
    BY <2>1, <2>2, <2>3 DEF RightResult
<1>12. CASE lookupFails \/ interrupted
  <2>1. stopped' /\ result' \in {"ABORTED", "thrown"}
    BY <1>12 DEF lookupFails, interrupted
  <2> QED
    BY <2>1 DEF RightResult
<1>13. CASE UNCHANGED vars
  BY <1>1, <1>13 DEF vars
<1> QED
  BY <1>4, <1>5, <1>6, <1>7, <1>8, <1>9, <1>10, <1>11, <1>12, <1>13 DEF Next, Parser

LEMMA ResultInit == Init => Copied /\ Complete /\ Ended /\ RightResult
<1> SUFFICES ASSUME Init PROVE Copied /\ Complete /\ Ended /\ RightResult
  OBVIOUS
<1>1. TypeInv
  BY TypedInit
<1>2. Copied
  <2>1. Len(log) \in Nat /\ copy = <<>> /\ linesInLog = 0 /\ pc = "count"
    BY <1>1, CopyTyped DEF Init
  <2> QED
    BY <2>1 DEF Copied
<1>3. Complete
  <2>1. {t \in Threads : logPart[t] # NoPart} = {} /\ logPartNum = 0
    BY DEF Init
  <2>2. logPartNum = Cardinality({t \in Threads : logPart[t] # NoPart})
    BY <2>1, FS_EmptySet
  <2>3. \A p \in 0..(logPartNum - 1) : \E t \in Threads : logPart[t] = p
    BY <2>1
  <2> QED
    BY <2>2, <2>3 DEF Init, Complete
<1>4. Ended /\ RightResult
  BY DEF Init, Ended, RightResult
<1> QED
  BY <1>2, <1>3, <1>4

(* If no thread is late, the build is judged by its log: only an interrupt *)
(* or a lookup aborts it, not a thread that dies, and if nothing fails, an *)
(* error among the lines that were counted makes it fail, unless one of    *)
(* the two ends the parse before.                                          *)
THEOREM JudgedByItsLog == Spec => []RightResult
<1>1. TypeInv /\ Reads /\ Gathering /\ OwnInv => OwnLine
  BY OwnStatuses
<1> QED
  BY <1>1, TypedInit, TypedNext, LaunchedInit, LaunchedNext, ReadsInit, ReadsNext,
     GatheringNext, OwnInit, OwnNext, CopiedNext, CompleteNext, EndedNext, ResultNext,
     ResultInit, PTL DEF Spec
-----------------------------------------------------------------------------
(* No line is read twice. *)

(* Where in the stream a thread has read its part: behind the parts that   *)
(* were read before, and before the lines that are still to be read.  An   *)
(* error that it has read is one of the copy, or the rest of a line that   *)
(* was cut.                                                                *)
ReadFrom(from) ==
  \A t \in Threads : logPart[t] # NoPart =>
    /\ from[t] + Len(lines[t]) <= position
    /\ \A i \in 1..Len(lines[t]) :
         lines[t][i] = "ERROR" => from[t] + i \in Errors(copy) \cup cut
    /\ \A u \in Threads \ {t} : logPart[u] # NoPart =>
         from[t] + Len(lines[t]) <= from[u] \/ from[u] + Len(lines[u]) <= from[t]

ReadOnce == \E from \in [Threads -> Nat] : ReadFrom(from)

LEMMA ReadOnceNext == TypeInv /\ Reads /\ OwnInv /\ ReadOnce /\ [Next]_vars => ReadOnce'
<1> SUFFICES ASSUME TypeInv, Reads, OwnInv, ReadOnce, [Next]_vars PROVE ReadOnce'
  OBVIOUS
<1> USE DEF reader, threads, faults, outcome
<1>1. PICK from \in [Threads -> Nat] : ReadFrom(from)
  BY DEF ReadOnce
<1>2. ASSUME UNCHANGED <<copy, cut, position, logPart, lines>> PROVE ReadOnce'
  <2>1. ReadFrom(from)'
    BY <1>1, <1>2 DEF ReadFrom, Errors
  <2> QED
    BY <2>1 DEF ReadOnce
<1>3. ASSUME NEW t \in Threads, readLogPart(t) PROVE ReadOnce'
  <2> DEFINE n == Least(linesPerThread, Left)
  <2>1. n \in Nat /\ position \in Nat /\ position + n \in Nat
    BY ReadTyped, CopyTyped
  <2>2. /\ lines'[t] = SubSeq(stream, position + 1, position + n) /\ position' = position + n
        /\ \A u \in Threads \ {t} : UNCHANGED <<logPart[u], lines[u]>>
        /\ UNCHANGED <<copy, cut>>
    BY <1>3 DEF readLogPart, TypeInv
  <2>3. /\ Len(lines'[t]) = n
        /\ \A i \in 1..n : lines'[t][i] = stream[position + i] /\ position + i \in 1..Len(copy)
    <3>1. /\ n \in Nat /\ position + n \in 0..Len(copy) /\ Len(lines'[t]) = n
          /\ \A i \in 1..n : lines'[t][i] = stream[position + i]
      BY <2>2, ReadTyped
    <3>2. position \in Nat /\ Len(copy) \in Nat
      BY CopyTyped
    <3> HIDE DEF n
    <3> QED
      BY <3>1, <3>2
  <2> HIDE DEF n
  <2>4. PICK next \in [Threads -> Nat] :
          next[t] = position /\ \A u \in Threads \ {t} : next[u] = from[u]
    <3>1. [from EXCEPT ![t] = position] \in [Threads -> Nat]
      BY <2>1
    <3> QED
      BY <3>1
  <2>5. \A u \in Threads : Len(lines[u]) \in Nat /\ from[u] \in Nat
    BY <1>1 DEF TypeInv
  <2>6. ASSUME NEW u \in Threads \ {t}, logPart'[u] # NoPart
        PROVE  /\ next[u] + Len(lines'[u]) <= position
               /\ \A i \in 1..Len(lines'[u]) :
                    lines'[u][i] = "ERROR" => next[u] + i \in Errors(copy) \cup cut
               /\ \A v \in Threads \ {u, t} : logPart'[v] # NoPart =>
                    \/ next[u] + Len(lines'[u]) <= next[v]
                    \/ next[v] + Len(lines'[v]) <= next[u]
    <3>1. /\ u \in Threads /\ logPart[u] # NoPart /\ next[u] = from[u]
          /\ UNCHANGED <<lines[u], copy>>
      BY <2>2, <2>4, <2>6
    <3>2. /\ next[u] + Len(lines'[u]) <= position
          /\ \A i \in 1..Len(lines'[u]) :
               lines'[u][i] = "ERROR" => next[u] + i \in Errors(copy) \cup cut
      BY <1>1, <3>1 DEF ReadFrom
    <3>3. ASSUME NEW v \in Threads \ {u, t}, logPart'[v] # NoPart
          PROVE  \/ next[u] + Len(lines'[u]) <= next[v]
                 \/ next[v] + Len(lines'[v]) <= next[u]
      <4>1. /\ v \in Threads \ {u} /\ logPart[v] # NoPart /\ next[v] = from[v]
            /\ UNCHANGED lines[v]
        BY <2>2, <2>4, <3>3
      <4> QED
        BY <1>1, <3>1, <4>1 DEF ReadFrom
    <3> QED
      BY <3>2, <3>3
  <2>7. ASSUME NEW u \in Threads \ {t}, logPart'[u] # NoPart
        PROVE  next[u] + Len(lines'[u]) <= position'
    BY <2>1, <2>2, <2>4, <2>5, <2>6, <2>7
  <2>8. ReadFrom(next)'
    <3>1. ASSUME NEW u \in Threads, logPart'[u] # NoPart
          PROVE  next[u] + Len(lines'[u]) <= position'
      <4>1. CASE u # t
        BY <2>7, <3>1, <4>1
      <4>2. CASE u = t
        BY <2>2, <2>3, <2>4, <4>2
      <4> QED
        BY <4>1, <4>2
    <3>2. ASSUME NEW u \in Threads, logPart'[u] # NoPart
          PROVE  \A i \in 1..Len(lines'[u]) :
                   lines'[u][i] = "ERROR" => next[u] + i \in Errors(copy) \cup cut
      <4>1. CASE u # t
        BY <2>6, <3>2, <4>1
      <4>2. CASE u = t
        <5>1. ASSUME NEW i \in 1..n, lines'[t][i] = "ERROR"
              PROVE  position + i \in Errors(copy) \cup cut
          BY <2>3, <5>1, CopyTyped DEF OwnInv, Streamed, Errors
        <5> QED
          BY <2>3, <2>4, <4>2, <5>1
      <4> QED
        BY <4>1, <4>2
    <3>3. ASSUME NEW u \in Threads, logPart'[u] # NoPart,
                 NEW v \in Threads \ {u}, logPart'[v] # NoPart
          PROVE  \/ next[u] + Len(lines'[u]) <= next[v]
                 \/ next[v] + Len(lines'[v]) <= next[u]
      BY <2>4, <2>6, <3>3
    <3> QED
      BY <2>2, <3>1, <3>2, <3>3 DEF ReadFrom, Errors
  <2> QED
    BY <2>8 DEF ReadOnce
<1>4. ASSUME NEW t \in Threads, NEW n \in 0..linesPerThread, readFails(t, n) PROVE ReadOnce'
  <2>1. position' = position + n /\ UNCHANGED <<copy, logPart, lines>>
        /\ position \in Nat /\ n \in Nat
    BY <1>4, CopyTyped, LogAssumption DEF readFails, LogAssumption
  <2>5. cut \subseteq cut' /\ Errors(copy)' = Errors(copy)
    BY <1>4, <2>1, CutTyped DEF readFails, Errors
  <2>2. \A u \in Threads : Len(lines[u]) \in Nat /\ from[u] \in Nat
    BY <1>1 DEF TypeInv
  <2>3. \A u \in Threads : logPart[u] # NoPart => from[u] + Len(lines[u]) <= position'
    BY <1>1, <2>1, <2>2 DEF ReadFrom
  <2>4. ReadFrom(from)'
    BY <1>1, <2>1, <2>3, <2>5 DEF ReadFrom
  <2> QED
    BY <2>4 DEF ReadOnce
<1>5. CASE copyTo
  <2>1. \A t \in Threads : logPart'[t] = NoPart
    BY <1>5, ThreadsAreNumbers DEF copyTo, TypeInv, Reads
  <2> QED
    BY <1>1, <2>1 DEF ReadOnce, ReadFrom
<1>6. ASSUME NEW t \in Threads, execute(t) \/ beginRead(t) \/ parse(t) PROVE ReadOnce'
  BY <1>2, <1>6 DEF execute, beginRead, parse
<1>7. ASSUME NEW s \in Statuses, write(s) PROVE ReadOnce'
  BY <1>2, <1>7 DEF write
<1>8. CASE countLines \/ copyFails \/ ioException
  BY <1>2, <1>8 DEF countLines, copyFails, ioException
<1>9. CASE awaitTermination \/ sortRunners
  BY <1>2, <1>9 DEF awaitTermination, sortRunners
<1>10. CASE getLineStatusMatches \/ statusesAreNull \/ parseLogBody
  BY <1>2, <1>10 DEF getLineStatusMatches, statusesAreNull, parseLogBody
<1>11. CASE close \/ judge \/ lookUp \/ lookupFails \/ interrupted
  BY <1>2, <1>11 DEF close, judge, lookUp, lookupFails, interrupted
<1>12. CASE UNCHANGED vars
  BY <1>2, <1>12 DEF vars
<1> QED
  BY <1>3, <1>4, <1>5, <1>6, <1>7, <1>8, <1>9, <1>10, <1>11, <1>12 DEF Next, Parser

LEMMA PlacesApart ==
  ASSUME NEW f \in Nat, NEW k \in Nat, NEW g \in Nat, NEW l \in Nat,
         f + k <= g \/ g + l <= f,
         NEW a \in Int, a >= 1, a <= k, NEW b \in Int, b >= 1, b <= l
  PROVE  f + a # g + b
OBVIOUS

(* A line that is shown as an error has its place among the errors of the  *)
(* copy, and no two have the same.                                         *)
LEMMA ErrorsHavePlaces ==
  ASSUME TypeInv, Reads, Gathering, ReadOnce, parseLogBody
  PROVE  totalErrors' <= Cardinality(Errors(copy) \cup cut)
<1>1. PICK from \in [Threads -> Nat] : ReadFrom(from)
  BY DEF ReadOnce
<1> DEFINE E == {n \in 1..Len(log) : <<n - 1, "ERROR">> \in statusMatches}
           p(n) == (n - 1) \div linesPerThread
           t(n) == sortedRunners[p(n)]
           place == [n \in E |-> from[t(n)] + (n - Start(p(n)))]
<1>2. ASSUME NEW n \in E
      PROVE  /\ p(n) \in Nat /\ Start(p(n)) \in Nat /\ n \in Nat
             /\ t(n) \in Threads /\ logPart[t(n)] = p(n) /\ p(n) # NoPart
             /\ n - Start(p(n)) \in 1..Len(lines[t(n)])
             /\ lines[t(n)][n - Start(p(n))] = "ERROR"
  <2>1. n \in Nat /\ n - 1 \in Nat /\ linesPerThread \in Nat \ {0}
    BY CopyTyped, LogAssumption DEF LogAssumption
  <2>2. PICK q \in Threads, i \in 1..linesPerThread :
          /\ sortedRunners[q] # NoPart /\ state[sortedRunners[q]] = "done"
          /\ <<n - 1, "ERROR">> = <<Start(q) + i - 1, getLineStatuses(sortedRunners[q])[i]>>
    BY DEF Gathering, Matched
  <2>3. q \in Nat /\ Start(q) \in Nat /\ i \in Nat /\ i >= 1 /\ i <= linesPerThread
    BY <2>1, Starts, ThreadsAreNumbers
  <2>4. n - 1 = Start(q) + i - 1
    BY <2>2
  <2>5. n = Start(q) + i
    <3> HIDE DEF E, place
    <3> QED
      BY <2>1, <2>3, <2>4
  <2>6. p(n) \in Nat /\ Start(p(n)) <= n - 1 /\ n - 1 < Start(p(n)) + linesPerThread
        /\ Start(p(n)) \in Nat
    BY <2>1, PartOf, Starts
  <2> HIDE DEF p
  <2>7. p(n) = q
    <3> HIDE DEF E, place, t
    <3>1. /\ p(n) < q => Start(p(n)) + linesPerThread <= Start(q)
          /\ q < p(n) => Start(q) + linesPerThread <= Start(p(n))
      BY <2>3, <2>6, PartsApart
    <3>2. ~(p(n) < q) /\ ~(q < p(n))
      BY <2>1, <2>3, <2>5, <2>6, <3>1
    <3> QED
      BY <2>3, <2>6, <3>2
  <2>8. sortedRunners[q] \in Threads /\ logPart[sortedRunners[q]] = q /\ q # NoPart
    BY <2>2, ThreadsAreNumbers DEF TypeInv, Gathering, Sorted
  <2>9. lines[sortedRunners[q]] \in Seq(Statuses)
    BY <2>8 DEF TypeInv
  <2>10. i <= Len(lines[sortedRunners[q]]) /\ lines[sortedRunners[q]][i] = "ERROR"
    <3>1. "ERROR" = IF i <= Len(lines[sortedRunners[q]]) THEN lines[sortedRunners[q]][i]
                    ELSE "null"
      BY <2>2, <2>8, StatusesTyped
    <3> QED
      BY <3>1
  <2>11. n - Start(q) = i
    BY <2>3, <2>5
  <2>12. i \in 1..Len(lines[sortedRunners[q]])
    BY <2>3, <2>9, <2>10
  <2> QED
    BY <2>1, <2>6, <2>7, <2>8, <2>10, <2>11, <2>12
<1> HIDE DEF p
<1>3. ASSUME NEW n \in E
      PROVE  place[n] \in Errors(copy) \cup cut /\ place[n] = from[t(n)] + (n - Start(p(n)))
  <2> DEFINE i == n - Start(p(n))
  <2>1. place[n] = from[t(n)] + i
    OBVIOUS
  <2>2. from[t(n)] \in Nat /\ i \in 1..Len(lines[t(n)]) /\ Len(lines[t(n)]) \in Nat
        /\ logPart[t(n)] # NoPart /\ t(n) \in Threads /\ lines[t(n)][i] = "ERROR"
    BY <1>1, <1>2 DEF TypeInv
  <2> HIDE DEF i, place, t, E
  <2>3. from[t(n)] + i \in Errors(copy) \cup cut
    BY <1>1, <2>2 DEF ReadFrom
  <2> QED
    BY <2>1, <2>3 DEF i
<1>4. ASSUME NEW n \in E, NEW m \in E, place[n] = place[m] PROVE n = m
  <2>1. /\ from[t(n)] \in Nat /\ from[t(m)] \in Nat /\ n \in Nat /\ m \in Nat
        /\ Start(p(n)) \in Nat /\ Start(p(m)) \in Nat
        /\ Len(lines[t(n)]) \in Nat /\ Len(lines[t(m)]) \in Nat
    <3>1. \A u \in Threads : from[u] \in Nat /\ Len(lines[u]) \in Nat
      BY <1>1 DEF TypeInv
    <3>2. /\ t(n) \in Threads /\ Start(p(n)) \in Nat /\ n \in Nat
          /\ t(m) \in Threads /\ Start(p(m)) \in Nat /\ m \in Nat
      BY <1>2
    <3> HIDE DEF E, place, t
    <3> QED
      BY <3>1, <3>2
  <2>2. place[n] = from[t(n)] + (n - Start(p(n))) /\ place[m] = from[t(m)] + (m - Start(p(m)))
    BY <1>3
  <2>3. /\ n - Start(p(n)) \in 1..Len(lines[t(n)]) /\ m - Start(p(m)) \in 1..Len(lines[t(m)])
        /\ t(n) \in Threads /\ t(m) \in Threads
        /\ logPart[t(n)] = p(n) /\ logPart[t(m)] = p(m) /\ p(n) # NoPart /\ p(m) # NoPart
    BY <1>2
  <2> HIDE DEF place, t, E
  <2>4. from[t(n)] + (n - Start(p(n))) = from[t(m)] + (m - Start(p(m)))
    BY <1>4, <2>2
  <2>5. CASE t(n) = t(m)
    <3>1. p(n) = p(m)
      BY <2>3, <2>5
    <3> QED
      BY <2>1, <2>5, <2>4, <3>1
  <2>6. CASE t(n) # t(m)
    <3>1. \/ from[t(n)] + Len(lines[t(n)]) <= from[t(m)]
          \/ from[t(m)] + Len(lines[t(m)]) <= from[t(n)]
      BY <1>1, <2>3, <2>6 DEF ReadFrom
    <3> DEFINE a == n - Start(p(n))
               b == m - Start(p(m))
    <3>2. a \in Int /\ b \in Int /\ a >= 1 /\ b >= 1
          /\ a <= Len(lines[t(n)]) /\ b <= Len(lines[t(m)])
      BY <2>1, <2>3
    <3> HIDE DEF a, b
    <3>3. from[t(n)] + a = from[t(m)] + b
      BY <2>4 DEF a, b
    <3> QED
      BY <2>1, <3>1, <3>2, <3>3, PlacesApart
  <2> QED
    BY <2>5, <2>6
<1>5. IsFiniteSet(Errors(copy) \cup cut) /\ IsFiniteSet(E)
  <2>1. Errors(copy) \cup cut \in SUBSET (1..Len(copy)) /\ E \in SUBSET (1..Len(log))
    BY CopyTyped DEF Errors, TypeInv
  <2>2. IsFiniteSet(1..Len(copy)) /\ IsFiniteSet(1..Len(log))
    BY CopyTyped, FS_Interval
  <2> HIDE DEF E
  <2> QED
    BY <2>1, <2>2, FS_Subset
<1>6. totalErrors' = Cardinality(E)
  BY DEF parseLogBody
<1>7. place \in [E -> Errors(copy) \cup cut]
  BY <1>3
<1> HIDE DEF E, place
<1>8. ~(Cardinality(Errors(copy) \cup cut) < Cardinality(E))
  BY <1>4, <1>5, <1>7, FS_PigeonHole
<1> QED
  BY <1>5, <1>6, <1>8, FS_CardinalityType

(* Nothing is shown before the log is read again. *)
Shown ==
  /\ NoErrorInvented
  /\ pc \notin {"lookup", "judge", "end"} => totalErrors = 0

LEMMA ShownNext == TypeInv /\ Reads /\ Gathering /\ ReadOnce /\ Shown /\ [Next]_vars => Shown'
<1> SUFFICES ASSUME TypeInv, Reads, Gathering, ReadOnce, Shown, [Next]_vars PROVE Shown'
  OBVIOUS
<1> USE DEF reader, threads, faults, outcome
<1>1. ASSUME UNCHANGED <<copy, cut, totalErrors>>,
             pc \in {"lookup", "judge", "end"} => pc' \in {"lookup", "judge", "end"}
      PROVE  Shown'
  BY <1>1 DEF Shown, NoErrorInvented, Errors
<1>2. CASE copyTo
  <2>1. copy' = log /\ cut' = {} /\ totalErrors' = 0
    BY <1>2 DEF copyTo, Shown, TypeInv
  <2>2. Errors(log) \in SUBSET (1..Len(log)) /\ IsFiniteSet(1..Len(log))
    BY CopyTyped, FS_Interval DEF Errors
  <2>3. Cardinality(Errors(log) \cup {}) \in Nat
    BY <2>2, FS_Subset, FS_CardinalityType
  <2> QED
    BY <2>1, <2>3 DEF Shown, NoErrorInvented, Errors
<1>3. CASE parseLogBody
  <2>1. /\ totalErrors' <= Cardinality(Errors(copy) \cup cut)
        /\ pc' \in {"lookup", "judge"} /\ UNCHANGED <<copy, cut>>
    BY <1>3, ErrorsHavePlaces DEF parseLogBody
  <2> QED
    BY <2>1 DEF Shown, NoErrorInvented, Errors
<1>4. ASSUME NEW t \in Threads, execute(t) \/ beginRead(t) \/ readLogPart(t) \/ parse(t)
      PROVE  Shown'
  BY <1>1, <1>4 DEF execute, beginRead, readLogPart, parse
<1>5. ASSUME NEW t \in Threads, NEW n \in 0..linesPerThread, readFails(t, n) PROVE Shown'
  <2> DEFINE S == Errors(copy) \cup cut
             T == Errors(copy) \cup cut'
  <2>1. UNCHANGED <<copy, totalErrors, pc>> /\ totalErrors \in Nat
    BY <1>5 DEF readFails, TypeInv
  <2>2. cut \subseteq cut' /\ cut' \in SUBSET (1..Len(copy))
    <3>1. position + n + 1 \in Nat \ {0}
      BY CopyTyped, LogAssumption DEF LogAssumption
    <3>2. cutLine(position + n + 1)
      BY <1>5 DEF readFails
    <3> QED
      BY <3>1, <3>2, CutTyped
  <2>3. T \in SUBSET (1..Len(copy))
    BY <2>2, CopyTyped DEF Errors
  <2>4. IsFiniteSet(1..Len(copy))
    BY CopyTyped, FS_Interval
  <2>5. IsFiniteSet(T) /\ S \subseteq T
    BY <2>2, <2>3, <2>4, FS_Subset
  <2> HIDE DEF S, T
  <2>6. Cardinality(S) <= Cardinality(T) /\ Cardinality(S) \in Nat /\ Cardinality(T) \in Nat
    BY <2>5, FS_Subset, FS_CardinalityType
  <2>7. totalErrors <= Cardinality(S)
    BY DEF Shown, NoErrorInvented, S
  <2>8. totalErrors' <= Cardinality(T)
    BY <2>1, <2>6, <2>7
  <2> QED
    BY <2>1, <2>8 DEF Shown, NoErrorInvented, Errors, T
<1>6. ASSUME NEW s \in Statuses, write(s) PROVE Shown'
  BY <1>1, <1>6 DEF write
<1>7. CASE countLines \/ copyFails \/ ioException
  BY <1>1, <1>7 DEF countLines, copyFails, ioException
<1>8. CASE awaitTermination \/ sortRunners
  BY <1>1, <1>8 DEF awaitTermination, sortRunners
<1>9. CASE getLineStatusMatches \/ statusesAreNull
  BY <1>1, <1>9 DEF getLineStatusMatches, statusesAreNull
<1>10. CASE close \/ judge \/ lookUp \/ lookupFails \/ interrupted
  BY <1>1, <1>10 DEF close, judge, lookUp, lookupFails, interrupted
<1>11. CASE UNCHANGED vars
  BY <1>1, <1>11 DEF vars
<1> QED
  BY <1>2, <1>3, <1>4, <1>5, <1>6, <1>7, <1>8, <1>9, <1>10, <1>11 DEF Next, Parser

LEMMA ShownInit == Init => ReadOnce /\ Shown
<1> SUFFICES ASSUME Init PROVE ReadOnce /\ Shown
  OBVIOUS
<1>1. ReadOnce
  <2>1. [t \in Threads |-> 0] \in [Threads -> Nat] /\ \A t \in Threads : logPart[t] = NoPart
    BY DEF Init
  <2>2. \A from \in [Threads -> Nat] : ReadFrom(from)
    BY <2>1 DEF ReadFrom
  <2> QED
    BY <2>1, <2>2 DEF ReadOnce
<1>2. Errors(copy) \cup cut = {} /\ totalErrors = 0
  <2>1. DOMAIN copy = {}
    BY TypedInit, CopyTyped DEF Init
  <2> QED
    BY <2>1 DEF Errors, Init
<1> QED
  BY <1>1, <1>2, FS_EmptySet DEF Shown, NoErrorInvented

(* Even when the parts are moved by a read that failed, no error is        *)
(* counted twice, and none that the log did not have when it was copied    *)
(* but the rest of a line that a failed read has cut.                      *)
THEOREM NoErrors == Spec => []NoErrorInvented
<1>1. Shown => NoErrorInvented
  BY DEF Shown
<1> QED
  BY <1>1, TypedInit, TypedNext, LaunchedInit, LaunchedNext, ReadsInit, ReadsNext,
     GatheringNext, OwnInit, OwnNext, ReadOnceNext, ShownNext, ShownInit, PTL DEF Spec
=============================================================================
