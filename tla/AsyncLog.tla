------------------------------ MODULE AsyncLog ------------------------------
(***************************************************************************)
(* The asynchronous log of both programs: Log, the BlockDeque it owns and  *)
(* the write thread that empties the deque into the log file.  Both        *)
(* programs log from their one main thread, so there are two threads.      *)
(*                                                                         *)
(* A step is what a thread does between two synchronisations.  Log::mtx_   *)
(* is held across several of them (write holds it around full() and        *)
(* push_back()); BlockDeque::mtx_ never is, except by a wait that gives it *)
(* up, so each of its critical sections is one step.  A line of text is    *)
(* the number of the call of write that made it.  fopen does not fail:     *)
(* the code asserts that.                                                  *)
(*                                                                         *)
(* An operator written just above another one with the same parameters is  *)
(* a slip of it: FullTooLate, StopsNow, ToTheFront, OnceOnly, LeftLocked,  *)
(* WakesNobody, ClosesSilently.                                            *)
(***************************************************************************)
EXTENDS Integers, Sequences, SequencesExt, FiniteSets

CONSTANTS
  Capacity,    \* capacity_ of the deque, 1000 in both programs
  FileLines,   \* MAX_LINES, 50000
  MaxCalls,    \* bound: the calls of write
  MaxDays      \* bound: how often the date changes

ASSUME AsyncLogAssumption ==
  /\ Capacity \in Nat \ {0} /\ FileLines \in Nat \ {0}
  /\ MaxCalls \in Nat /\ MaxDays \in Nat

VARIABLES
  deq,        \* deq_
  isClose,    \* isClose_
  locked,     \* whether the main thread holds Log::mtx_
  main,       \* where the main thread is
  worker,     \* where the write thread is
  str,        \* the line it has taken from the deque
  lineCount,  \* lineCount_
  said,       \* the calls of write so far
  days,       \* how often the date has changed
  files,      \* the log files, the one fp_ is open on last
  direct      \* history: the lines written past the deque

mainVars   == <<locked, main, lineCount, said, days, direct>>
logVars    == <<deq, isClose, mainVars, worker, str, files>>

MainPlaces   == {"idle", "newday", "nextfile", "line", "full", "push", "space", "direct",
                 "flush", "drain", "close", "notify", "join", "fclose", "ended"}
WorkerPlaces == {"pop", "wait", "woken", "fputs", "ended"}

AsyncLogTypeOK ==
  /\ deq \in Seq(1..MaxCalls) /\ Len(deq) <= Capacity
  /\ isClose \in BOOLEAN /\ locked \in BOOLEAN
  /\ locked <=> main \in {"full", "push", "space", "direct"}
  /\ main \in MainPlaces /\ worker \in WorkerPlaces
  /\ str \in 0..MaxCalls
  /\ lineCount \in 0..said /\ said \in 0..MaxCalls /\ days \in 0..MaxDays
  /\ files \in Seq(Seq(1..MaxCalls)) /\ files # <<>>
  /\ direct \subseteq 1..said

\* init has opened the file and started the thread.
AsyncLogInit ==
  /\ deq = <<>> /\ isClose = FALSE
  /\ locked = FALSE /\ main = "idle"
  /\ worker = "pop" /\ str = 0
  /\ lineCount = 0 /\ said = 0 /\ days = 0
  /\ files = <<<<>>>> /\ direct = {}

-----------------------------------------------------------------------------
(* BlockDeque.                                                             *)

\* condConsumer_.notify_one(), which is also flush().
WakesNobody == worker
Notified    == IF worker = "wait" THEN "woken" ELSE worker

\* Close()'s condConsumer_.notify_all()
ClosesSilently == worker
AllNotified    == IF worker = "wait" THEN "woken" ELSE worker

\* full()
FullTooLate == Len(deq) > Capacity
Full        == Len(deq) >= Capacity

\* deq_.push_back(item)
ToTheFront(item) == <<item>> \o deq
Pushed(item)     == Append(deq, item)

\* fputs(line, fp_)
Fputs(line) == files' = [files EXCEPT ![Len(files)] = Append(@, line)]

-----------------------------------------------------------------------------
(* The main thread: LOG_BASE, which is write and then flush.               *)

Goes(from, to) == main = from /\ main' = to

\* The locker goes out of scope.
LeftLocked == TRUE
Unlocked   == FALSE

\* write needs another file because so many lines were counted.
OnceOnly == lineCount = FileLines
FileDone == lineCount # 0 /\ lineCount % FileLines = 0

\* LOG_BASE calls write, which reads the clock, toDay_ and lineCount_.
Say(newDay) ==
  /\ said < MaxCalls
  /\ newDay => days < MaxDays
  /\ Goes("idle", IF newDay THEN "newday" ELSE IF FileDone THEN "nextfile" ELSE "line")
  /\ days' = IF newDay THEN days + 1 ELSE days
  /\ UNCHANGED <<deq, isClose, locked, worker, str, lineCount, said, files, direct>>

\* The old file is flushed and closed, the new one opened.
Rotate ==
  /\ Goes("newday", "line") \/ Goes("nextfile", "line")
  /\ lineCount' = IF main = "newday" THEN 0 ELSE lineCount
  /\ worker' = Notified
  /\ files' = Append(files, <<>>)
  /\ UNCHANGED <<deq, isClose, locked, str, said, days, direct>>

Lock ==
  /\ Goes("line", "full")
  /\ locked' = TRUE
  /\ lineCount' = lineCount + 1 /\ said' = said + 1
  /\ UNCHANGED <<deq, isClose, worker, str, days, files, direct>>

TestFull ==
  /\ Goes("full", IF Full THEN "direct" ELSE "push")
  /\ UNCHANGED <<deq, isClose, locked, worker, str, lineCount, said, days, files, direct>>

\* push_back: it waits while there is no room, then appends and notifies.
PushBack ==
  /\ main = "push"
  /\ IF Len(deq) >= Capacity
     THEN main' = "space" /\ UNCHANGED <<deq, worker, locked>>
     ELSE /\ main' = "flush"
          /\ deq' = Pushed(said)
          /\ worker' = Notified
          /\ locked' = Unlocked
  /\ UNCHANGED <<isClose, str, lineCount, said, days, files, direct>>

\* The deque was full: the line goes to the file at once.
PutDirect ==
  /\ Goes("direct", "flush")
  /\ Fputs(said)
  /\ direct' = direct \cup {said}
  /\ locked' = Unlocked
  /\ UNCHANGED <<deq, isClose, worker, str, lineCount, said, days>>

Flush ==
  /\ Goes("flush", "idle")
  /\ worker' = Notified
  /\ UNCHANGED <<deq, isClose, locked, str, lineCount, said, days, files, direct>>

-----------------------------------------------------------------------------
(* ~Log, when the program ends.                                            *)

Exit ==
  /\ Goes("idle", "drain")
  /\ UNCHANGED <<deq, isClose, locked, worker, str, lineCount, said, days, files, direct>>

\* while(!deque_->empty())
StopsNow == TRUE
Drained  == deq = <<>>

Drain ==
  /\ main = "drain"
  /\ IF Drained THEN main' = "close" /\ UNCHANGED worker
                ELSE worker' = Notified /\ UNCHANGED main
  /\ UNCHANGED <<deq, isClose, locked, str, lineCount, said, days, files, direct>>

Close ==
  /\ Goes("close", "notify")
  /\ deq' = <<>> /\ isClose' = TRUE
  /\ UNCHANGED <<locked, worker, str, lineCount, said, days, files, direct>>

NotifyAll ==
  /\ Goes("notify", "join")
  /\ worker' = AllNotified
  /\ UNCHANGED <<deq, isClose, locked, str, lineCount, said, days, files, direct>>

Join ==
  /\ Goes("join", "fclose")
  /\ worker = "ended"
  /\ UNCHANGED <<deq, isClose, locked, worker, str, lineCount, said, days, files, direct>>

Fclose ==
  /\ Goes("fclose", "ended")
  /\ UNCHANGED <<deq, isClose, locked, worker, str, lineCount, said, days, files, direct>>

-----------------------------------------------------------------------------
(* The write thread: AsyncWrite_ around pop.                               *)

\* pop takes the front or starts to wait; after a wait it looks at isClose_.
Pop ==
  /\ worker \in {"pop", "woken"}
  /\ IF worker = "woken" /\ isClose
     THEN worker' = "ended" /\ UNCHANGED <<deq, str, main>>
     ELSE IF deq = <<>>
     THEN worker' = "wait" /\ UNCHANGED <<deq, str, main>>
     ELSE /\ worker' = "fputs"
          /\ str' = Head(deq) /\ deq' = Tail(deq)
          /\ main' = IF main = "space" THEN "push" ELSE main
  /\ UNCHANGED <<isClose, locked, lineCount, said, days, files, direct>>

WriteLine ==
  /\ worker = "fputs" /\ ~locked
  /\ Fputs(str)
  /\ worker' = "pop" /\ str' = 0
  /\ UNCHANGED <<deq, isClose, mainVars>>

\* A condition variable may wake its waiter for no reason.
WakeUp ==
  /\ worker = "wait"
  /\ worker' = "woken"
  /\ UNCHANGED <<deq, isClose, mainVars, str, files>>

-----------------------------------------------------------------------------
InWrite == Rotate \/ Lock \/ TestFull \/ PushBack \/ PutDirect \/ Flush
InExit  == Drain \/ Close \/ NotifyAll \/ Join \/ Fclose
Worker  == Pop \/ WriteLine

AsyncLogNext ==
  \/ \E newDay \in BOOLEAN : Say(newDay)
  \/ Exit
  \/ InWrite \/ InExit \/ Worker \/ WakeUp

AsyncLogSpec == AsyncLogInit /\ [][AsyncLogNext]_logVars

\* Each thread goes on when it can.  Nothing has to be logged.
FairLogSpec ==
  /\ AsyncLogSpec
  /\ WF_logVars(InWrite) /\ WF_logVars(InExit) /\ WF_logVars(Worker)

-----------------------------------------------------------------------------
(* Properties.                                                             *)

\* Some file has the line.
InSomeFile(line) == \E n \in DOMAIN files : line \in ToSet(files[n])

\* The i-th line of the n-th file was written before the j-th of the k-th.
WrittenBefore(n, i, k, j) == n < k \/ (n = k /\ i < j)

(***************************************************************************)
(* The main thread never waits inside push_back: it would hold Log::mtx_,  *)
(* which the write thread needs to put away the line it has taken.  The    *)
(* test of full() and the push are two critical sections of the deque.     *)
(***************************************************************************)
WriterNeverWaits == main # "space"

(***************************************************************************)
(* When ~Log is done every line is in a file, and in one place: none is    *)
(* left in the deque that Close() clears, or in the hand of the thread.    *)
(***************************************************************************)
NothingLost ==
  main \in {"fclose", "ended"} =>
    /\ \A line \in 1..said : InSomeFile(line)
    /\ \A n, k \in DOMAIN files : \A i \in DOMAIN files[n], j \in DOMAIN files[k] :
         /\ files[n][i] \in 1..said
         /\ files[n][i] = files[k][j] => n = k /\ i = j

(***************************************************************************)
(* Lines stay in the order they were logged, but for those that found the  *)
(* deque full and went past it.                                            *)
(***************************************************************************)
QueuedInOrder ==
  \A n, k \in DOMAIN files : \A i \in DOMAIN files[n], j \in DOMAIN files[k] :
    /\ WrittenBefore(n, i, k, j)
    /\ files[n][i] \notin direct /\ files[k][j] \notin direct
    => files[n][i] < files[k][j]

(***************************************************************************)
(* A log file holds at most MAX_LINES lines and those that were waiting    *)
(* when it was opened: lines are counted when they are logged and reach    *)
(* the file that is open when the thread comes to them.  This is about one *)
(* run of the process: a restart on the same day appends to its files.     *)
(***************************************************************************)
FilesAreBounded ==
  \A n \in DOMAIN files : Len(files[n]) <= FileLines + Capacity + 1

(***************************************************************************)
(* Every line logged gets into a file: no wakeup of the write thread is    *)
(* lost between the test for an empty deque and the wait.                  *)
(***************************************************************************)
LinesReachFile ==
  \A line \in 1..MaxCalls : said = line ~> InSomeFile(line)

(***************************************************************************)
(* ~Log returns when Close() finds the write thread inside pop's wait.     *)
(* When it does not, pop can start to wait without looking at isClose_     *)
(* and the join never ends.                                                *)
(***************************************************************************)
ClosedInTimeReturns ==
  (main = "notify" /\ worker \in {"wait", "woken"}) ~> main = "ended"
=============================================================================
