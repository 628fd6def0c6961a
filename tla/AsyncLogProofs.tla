--------------------------- MODULE AsyncLogProofs ---------------------------
(***************************************************************************)
(* For every capacity of the deque, every MAX_LINES and any number of      *)
(* lines: the main thread never waits inside push_back; every line is in   *)
(* exactly one place, on its way from write to a file; the lines that went *)
(* through the deque are in the files in the order they were logged; none  *)
(* is missing once ~Log has joined the thread; and no file gets longer     *)
(* than MAX_LINES, the deque and one line allow.                           *)
(***************************************************************************)
EXTENDS AsyncLog, SequenceTheorems, TLAPS

-----------------------------------------------------------------------------
(* The inductive invariant.  Every line is in one of five places: in the   *)
(* hand of the main thread, in the deque, in the hand of the write thread, *)
(* in a file, or not yet said.                                             *)

MainHolds == main \in {"full", "push", "direct"}
Held      == worker = "fputs"

\* The lines that have left the hand of the main thread are 1..Logged.
Logged == IF MainHolds THEN said - 1 ELSE said

\* Where the main thread may be, and what that says of the others.
PlacesAgree ==
  /\ MainHolds => said > 0
  /\ main \in {"newday", "nextfile", "line"} => said < MaxCalls
  /\ main \in {"close", "notify", "join", "fclose", "ended"} => deq = <<>>
  /\ main \in {"fclose", "ended"} => worker = "ended"
  /\ main = "push" => Len(deq) < Capacity
  /\ Held => str # 0
  /\ \A line \in direct : line \in 1..Logged

PlaceInv == AsyncLogTypeOK /\ WriterNeverWaits /\ PlacesAgree

\* The lines that wait are in order, and behind the one in hand.
WaitingInOrder ==
  /\ \A i \in 1..Len(deq) : deq[i] \in (1..Logged) \ direct
  /\ \A i, j \in 1..Len(deq) : i < j => deq[i] < deq[j]
  /\ Held => str \in (1..Logged) \ direct /\ \A i \in 1..Len(deq) : str < deq[i]

\* The lines in the files are before those that wait, and are there once.
FiledInOrder ==
  /\ \A n \in 1..Len(files) : \A i \in 1..Len(files[n]) :
       /\ files[n][i] \in 1..Logged
       /\ files[n][i] \notin direct =>
            /\ Held => files[n][i] < str
            /\ \A j \in 1..Len(deq) : files[n][i] < deq[j]
  /\ \A n, k \in 1..Len(files) : \A i \in 1..Len(files[n]), j \in 1..Len(files[k]) :
       files[n][i] = files[k][j] => n = k /\ i = j
  /\ QueuedInOrder

\* No line is anywhere else.
Waits(line) == \E i \in 1..Len(deq) : deq[i] = line
Filed(line) == \E n \in 1..Len(files) : \E i \in 1..Len(files[n]) : files[n][i] = line
AllSomewhere == \A line \in 1..Logged : (Held /\ str = line) \/ Waits(line) \/ Filed(line)

LinesInv == PlaceInv /\ WaitingInOrder /\ FiledInOrder /\ AllSomewhere

\* The lines said since the open file was opened, as far as lineCount_ tells.
SinceOpened ==
  IF lineCount % FileLines = 0 /\ lineCount # 0 /\ main # "line"
  THEN FileLines ELSE lineCount % FileLines

\* The lines in the open file and those that may still go there.
Open     == Len(files[Len(files)])
InHand   == IF Held THEN 1 ELSE 0
OfMain   == IF MainHolds THEN 1 ELSE 0
Awaited  == Len(deq) + InHand + OfMain

OpenIsShort == Open + Awaited <= SinceOpened + Capacity + 1

\* Every line that waits may go to the open file.
FileInv ==
  /\ FilesAreBounded
  /\ OpenIsShort
  /\ main = "nextfile" => lineCount % FileLines = 0

-----------------------------------------------------------------------------
(* Types and places.                                                       *)

\* What Fputs does to the files: the last one has a line more.
LEMMA FputsProperties ==
  ASSUME NEW S, files \in Seq(Seq(S)), files # <<>>, NEW line \in S, Fputs(line)
  PROVE  /\ Len(files) \in Nat \ {0} /\ Len(files') = Len(files)
         /\ files' \in Seq(Seq(S)) /\ files' # <<>>
         /\ \A n \in 1..Len(files) : n # Len(files) => files'[n] = files[n]
         /\ files'[Len(files)] = Append(files[Len(files)], line)
<1>1. Len(files) \in Nat \ {0}
  BY EmptySeq
<1>2. files[Len(files)] \in Seq(S)
  BY <1>1, ElementOfSeq
<1>3. Append(files[Len(files)], line) \in Seq(S)
  BY <1>2, AppendProperties
<1>4. files' = [files EXCEPT ![Len(files)] = Append(files[Len(files)], line)]
  BY DEF Fputs
<1>5. /\ files' \in Seq(Seq(S)) /\ Len(files') = Len(files)
      /\ \A n \in 1..Len(files) :
           files'[n] = IF n = Len(files) THEN Append(files[Len(files)], line) ELSE files[n]
  BY <1>1, <1>3, <1>4, ExceptSeq
<1>6. files' # <<>>
  BY <1>1, <1>5, EmptySeq
<1>7. Len(files) \in 1..Len(files)
  BY <1>1
<1> QED
  BY <1>1, <1>5, <1>6, <1>7

\* What Rotate does to the files: there is one more, and it is empty.
LEMMA RotateProperties ==
  ASSUME NEW S, files \in Seq(Seq(S)), files' = Append(files, <<>>)
  PROVE  /\ files' \in Seq(Seq(S)) /\ files' # <<>>
         /\ Len(files) \in Nat /\ Len(files') = Len(files) + 1
         /\ \A n \in 1..Len(files) : files'[n] = files[n]
         /\ files'[Len(files')] = <<>> /\ Len(files'[Len(files')]) = 0
<1>1. <<>> \in Seq(S) /\ Len(<<>>) = 0
  BY EmptySeq
<1> QED
  BY <1>1, AppendProperties, LenProperties

\* Every step keeps the types and the places.
LEMMA PlaceStep == PlaceInv /\ [AsyncLogNext]_logVars => PlaceInv'
<1> SUFFICES ASSUME PlaceInv, [AsyncLogNext]_logVars
             PROVE  PlaceInv'
  OBVIOUS
<1> USE AsyncLogAssumption
<1>1. /\ deq \in Seq(1..MaxCalls) /\ Len(deq) \in Nat /\ Len(deq) <= Capacity
      /\ files \in Seq(Seq(1..MaxCalls)) /\ files # <<>>
  BY LenProperties DEF PlaceInv, AsyncLogTypeOK
<1>2. PlaceInv
  OBVIOUS
<1> USE DEF PlaceInv, AsyncLogTypeOK, WriterNeverWaits, PlacesAgree, MainHolds, Logged, Held,
            MainPlaces, WorkerPlaces, Goes
<1>3. CASE \E newDay \in BOOLEAN : Say(newDay)
  BY <1>2, <1>3 DEF Say
<1>4. CASE Exit
  BY <1>2, <1>4 DEF Exit
<1>5. CASE Rotate
  <2>1. files' \in Seq(Seq(1..MaxCalls)) /\ files' # <<>>
    BY <1>1, <1>5, RotateProperties DEF Rotate
  <2> QED
    BY <1>2, <1>5, <2>1 DEF Rotate, Notified
<1>6. CASE Lock
  <2>1. said \in Nat /\ said' = said + 1 /\ Logged' = Logged /\ direct' = direct
    BY <1>2, <1>6 DEF Lock
  <2>2. direct' \subseteq 1..said' /\ \A line \in direct' : line \in 1..Logged'
    BY <1>2, <2>1
  <2> QED
    BY <1>2, <1>6, <2>1, <2>2 DEF Lock
<1>7. CASE TestFull
  BY <1>1, <1>2, <1>7 DEF TestFull, Full
<1>8. CASE PushBack
  <2>1. Len(deq) < Capacity /\ ~(Len(deq) >= Capacity) /\ said \in 1..MaxCalls
    BY <1>1, <1>2, <1>8 DEF PushBack
  <2>2. /\ main = "push" /\ main' = "flush" /\ deq' = Append(deq, said) /\ locked' = FALSE
        /\ worker' = Notified /\ UNCHANGED <<isClose, str, lineCount, said, days, files, direct>>
    BY <1>8, <2>1, Zenon DEF PushBack, Pushed, Unlocked
  <2>3. deq' \in Seq(1..MaxCalls) /\ Len(deq') <= Capacity
    BY <1>1, <2>1, <2>2, AppendProperties
  <2>4. \A line \in direct' : line \in 1..Logged'
    BY <1>2, <1>8, <2>2 DEF PushBack
  <2> QED
    BY <1>2, <2>2, <2>3, <2>4 DEF Notified
<1>9. CASE PutDirect
  <2>1. said \in 1..MaxCalls
    BY <1>2, <1>9 DEF PutDirect
  <2>2. files' \in Seq(Seq(1..MaxCalls)) /\ files' # <<>>
    BY <1>1, <1>9, <2>1, FputsProperties DEF PutDirect
  <2>3. direct' \subseteq 1..said' /\ \A line \in direct' : line \in 1..Logged'
    BY <1>2, <1>9, <2>1 DEF PutDirect
  <2> QED
    BY <1>2, <1>9, <2>2, <2>3 DEF PutDirect, Unlocked
<1>10. CASE Flush
  BY <1>2, <1>10 DEF Flush, Notified
<1>11. CASE Drain
  BY <1>2, <1>11 DEF Drain, Notified, Drained
<1>12. CASE Close
  <2>1. deq' \in Seq(1..MaxCalls) /\ Len(deq') = 0
    BY <1>12, EmptySeq DEF Close
  <2> QED
    BY <1>2, <1>12, <2>1 DEF Close
<1>13. CASE NotifyAll
  BY <1>2, <1>13 DEF NotifyAll, AllNotified
<1>14. CASE Join
  BY <1>2, <1>14 DEF Join
<1>15. CASE Fclose
  BY <1>2, <1>15 DEF Fclose
<1>16. CASE Pop
  <2>1. CASE deq' = deq /\ str' = str /\ main' = main /\ worker' \in {"ended", "wait"}
    BY <1>2, <1>16, <2>1 DEF Pop
  <2>2. CASE /\ deq # <<>> /\ worker' = "fputs" /\ str' = Head(deq) /\ deq' = Tail(deq)
             /\ main' = main
    <3>1. /\ Head(deq) \in 1..MaxCalls /\ Tail(deq) \in Seq(1..MaxCalls)
          /\ Len(Tail(deq)) = Len(deq) - 1
      BY <1>1, <2>2, HeadTailProperties
    <3>2. main \notin {"close", "notify", "join", "fclose", "ended"}
      BY <1>2, <2>2
    <3> QED
      BY <1>1, <1>2, <1>16, <2>2, <3>1, <3>2 DEF Pop
  <2> QED
    BY <1>2, <1>16, <2>1, <2>2 DEF Pop
<1>17. CASE WriteLine
  <2>1. str \in 1..MaxCalls
    BY <1>2, <1>17 DEF WriteLine
  <2>2. files' \in Seq(Seq(1..MaxCalls)) /\ files' # <<>>
    BY <1>1, <1>17, <2>1, FputsProperties DEF WriteLine
  <2> QED
    BY <1>2, <1>17, <2>2 DEF WriteLine, mainVars
<1>18. CASE WakeUp
  BY <1>2, <1>18 DEF WakeUp, mainVars
<1>19. CASE UNCHANGED logVars
  BY <1>2, <1>19 DEF logVars, mainVars
<1> QED
  BY <1>3, <1>4, <1>5, <1>6, <1>7, <1>8, <1>9, <1>10, <1>11, <1>12, <1>13, <1>14, <1>15,
     <1>16, <1>17, <1>18, <1>19
  DEF AsyncLogNext, InWrite, InExit, Worker
-----------------------------------------------------------------------------
(* Where the lines are.                                                    *)

\* The types that the lemmas about lines need.
LEMMA LineTypes ==
  ASSUME PlaceInv
  PROVE  /\ said \in Nat /\ Logged \in Nat /\ Logged <= said
         /\ deq \in Seq(1..MaxCalls) /\ Len(deq) \in Nat
         /\ \A i \in 1..Len(deq) : deq[i] \in Nat
         /\ files \in Seq(Seq(1..MaxCalls)) /\ files # <<>> /\ Len(files) \in Nat \ {0}
         /\ \A n \in 1..Len(files) :
              /\ files[n] \in Seq(1..MaxCalls) /\ Len(files[n]) \in Nat
              /\ DOMAIN files[n] = 1..Len(files[n])
              /\ \A i \in 1..Len(files[n]) : files[n][i] \in Nat
         /\ DOMAIN files = 1..Len(files)
         /\ str \in Nat
<1>1. /\ said \in Nat /\ (MainHolds => said > 0) /\ str \in Nat
      /\ deq \in Seq(1..MaxCalls) /\ files \in Seq(Seq(1..MaxCalls)) /\ files # <<>>
  BY AsyncLogAssumption DEF PlaceInv, AsyncLogTypeOK, PlacesAgree
<1>2. Logged \in Nat /\ Logged <= said
  BY <1>1 DEF Logged
<1>3. Len(deq) \in Nat /\ \A i \in 1..Len(deq) : deq[i] \in 1..MaxCalls
  BY <1>1, LenProperties, ElementOfSeq
<1>4. Len(files) \in Nat \ {0} /\ DOMAIN files = 1..Len(files)
  BY <1>1, LenProperties, EmptySeq
<1>5. \A n \in 1..Len(files) : files[n] \in Seq(1..MaxCalls)
  BY <1>1, ElementOfSeq
<1>6. \A n \in 1..Len(files) : Len(files[n]) \in Nat /\ DOMAIN files[n] = 1..Len(files[n])
  BY <1>5, LenProperties
<1>7. \A n \in 1..Len(files) : \A i \in 1..Len(files[n]) : files[n][i] \in 1..MaxCalls
  BY <1>5, ElementOfSeq
<1> QED
  BY <1>1, <1>2, <1>3, <1>4, <1>5, <1>6, <1>7

\* Nothing changes for the lines.
LEMMA QuietLines ==
  ASSUME WaitingInOrder, FiledInOrder, AllSomewhere,
         UNCHANGED <<deq, files, direct, str>>, Logged' = Logged, Held' <=> Held
  PROVE  WaitingInOrder' /\ FiledInOrder' /\ AllSomewhere'
<1>1. WaitingInOrder'
  BY DEF WaitingInOrder
<1>2. QueuedInOrder'
  BY DEF FiledInOrder, QueuedInOrder, WrittenBefore
<1>3. FiledInOrder'
  BY <1>2 DEF FiledInOrder
<1>4. AllSomewhere'
  BY DEF AllSomewhere, Waits, Filed
<1> QED
  BY <1>1, <1>3, <1>4

\* Rotate: a file without lines changes nothing for them.
LEMMA RotateLines ==
  ASSUME LinesInv, Rotate
  PROVE  WaitingInOrder' /\ FiledInOrder' /\ AllSomewhere'
<1>1. Logged' = Logged /\ (Held' <=> Held) /\ deq' = deq /\ direct' = direct /\ str' = str
  BY DEF Rotate, Goes, Logged, MainHolds, Held, Notified
<1>2. /\ files' = Append(files, <<>>)
      /\ WaitingInOrder /\ FiledInOrder /\ AllSomewhere /\ PlaceInv
  BY DEF Rotate, LinesInv
<1>3. /\ Len(files) \in Nat /\ Len(files') = Len(files) + 1
      /\ \A n \in 1..Len(files) : files'[n] = files[n]
      /\ Len(files'[Len(files')]) = 0
      /\ files \in Seq(Seq(1..MaxCalls)) /\ files' \in Seq(Seq(1..MaxCalls))
  BY <1>2, LineTypes, RotateProperties
<1>4. \A n \in 1..Len(files') : n \in 1..Len(files) \/ (1..Len(files'[n])) = {}
  BY <1>3
<1>5. WaitingInOrder'
  BY <1>1, <1>2 DEF WaitingInOrder
<1>6. /\ DOMAIN files = 1..Len(files) /\ DOMAIN files' = 1..Len(files')
      /\ \A n \in 1..Len(files) : DOMAIN files[n] = 1..Len(files[n])
      /\ DOMAIN files'[Len(files')] = {}
  BY <1>2, <1>3, LineTypes, LenProperties, ElementOfSeq
<1>7. FiledInOrder'
  BY <1>1, <1>2, <1>3, <1>4, <1>6 DEF FiledInOrder, QueuedInOrder, WrittenBefore
<1>8. AllSomewhere'
  <2>1. \A n \in 1..Len(files) : \A i \in 1..Len(files[n]) :
          n \in 1..Len(files') /\ i \in 1..Len(files'[n]) /\ files'[n][i] = files[n][i]
    <3>1. 1..Len(files) \subseteq 1..Len(files')
      BY <1>3
    <3>2. \A n \in 1..Len(files) : files'[n] = files[n]
      BY <1>3
    <3> QED
      BY <3>1, <3>2
  <2>2. \A line : Filed(line) => Filed(line)'
    BY <2>1 DEF Filed
  <2>3. \A line : Waits(line)' <=> Waits(line)
    BY <1>1 DEF Waits
  <2> QED
    BY <1>1, <1>2, <2>2, <2>3 DEF AllSomewhere
<1> QED
  BY <1>5, <1>7, <1>8

\* PushBack: the line goes from the hand of the main thread to the deque.
LEMMA PushLines ==
  ASSUME LinesInv, PushBack
  PROVE  WaitingInOrder' /\ FiledInOrder' /\ AllSomewhere'
<1>1. /\ deq' = Append(deq, said) /\ UNCHANGED <<files, direct, str>> /\ (Held' <=> Held)
      /\ said \in Nat /\ said > 0 /\ Logged = said - 1 /\ Logged' = said
      /\ said \in 1..MaxCalls
  <2>1. main = "push" /\ Len(deq) < Capacity /\ PlaceInv /\ Len(deq) \in Nat /\ Capacity \in Nat
    BY AsyncLogAssumption, LineTypes DEF PushBack, LinesInv, PlaceInv, PlacesAgree
  <2>2. ~(Len(deq) >= Capacity)
    BY <2>1
  <2>3. /\ main' = "flush" /\ deq' = Append(deq, said) /\ said' = said
        /\ UNCHANGED <<files, direct, str>> /\ (Held' <=> Held)
    BY <2>2, Zenon DEF PushBack, Pushed, Notified, Held
  <2>4. said \in 1..MaxCalls
    BY <2>1, AsyncLogAssumption DEF PlaceInv, AsyncLogTypeOK, PlacesAgree, MainHolds
  <2> QED
    BY <2>1, <2>3, <2>4, AsyncLogAssumption DEF Logged, MainHolds
<1>2. /\ WaitingInOrder /\ FiledInOrder /\ AllSomewhere /\ PlaceInv
  BY DEF LinesInv
<1>3. /\ Len(deq) \in Nat /\ Len(deq') = Len(deq) + 1
      /\ \A i \in 1..Len(deq) : deq'[i] = deq[i] /\ deq[i] \in Nat
      /\ deq'[Len(deq) + 1] = said
  BY <1>1, <1>2, LineTypes, AppendProperties
<1>4. said \notin direct
  BY <1>1, <1>2 DEF PlaceInv, PlacesAgree
<1>5. WaitingInOrder'
  BY <1>1, <1>2, <1>3, <1>4 DEF WaitingInOrder
<1>6. FiledInOrder'
  BY <1>1, <1>2, <1>3, LineTypes DEF FiledInOrder, QueuedInOrder, WrittenBefore
<1>7. /\ \A line \in 1..Logged : Waits(line) => Waits(line)'
      /\ \A line \in 1..Logged : Filed(line) => Filed(line)'
      /\ \A line \in Nat : line = said => Waits(line)'
  <2>1. Len(deq) + 1 \in 1..Len(deq') /\ \A i \in 1..Len(deq) : i \in 1..Len(deq')
    BY <1>3
  <2> QED
    BY <1>1, <1>3, <2>1 DEF Waits, Filed
<1>8. \A line \in 1..Logged' : line \in 1..Logged \/ line = said
  BY <1>1
<1>9. \A line \in 1..Logged : (Held' /\ str' = line) \/ Waits(line)' \/ Filed(line)'
  BY <1>1, <1>2, <1>7 DEF AllSomewhere
<1>10. AllSomewhere'
  BY <1>1, <1>7, <1>8, <1>9 DEF AllSomewhere
<1> QED
  BY <1>5, <1>6, <1>10

\* A line that is put into the open file, from the hand of one thread or the
\* other, stands behind all the lines that are in the files.
LEMMA FiledLine ==
  ASSUME LinesInv, NEW line \in 1..MaxCalls, Fputs(line)
  PROVE  /\ Len(files') = Len(files) /\ DOMAIN files' = 1..Len(files)
         /\ \A n \in 1..Len(files) :
              /\ DOMAIN files'[n] = 1..Len(files'[n])
              /\ n # Len(files) => files'[n] = files[n]
         /\ Len(files'[Len(files)]) = Len(files[Len(files)]) + 1
         /\ \A i \in 1..Len(files[Len(files)]) : files'[Len(files)][i] = files[Len(files)][i]
         /\ files'[Len(files)][Len(files[Len(files)]) + 1] = line
<1>1. /\ files \in Seq(Seq(1..MaxCalls)) /\ files # <<>> /\ Len(files) \in 1..Len(files)
      /\ files[Len(files)] \in Seq(1..MaxCalls)
  BY LineTypes DEF LinesInv
<1>2. /\ Len(files') = Len(files) /\ files' \in Seq(Seq(1..MaxCalls))
      /\ \A n \in 1..Len(files) : n # Len(files) => files'[n] = files[n]
      /\ files'[Len(files)] = Append(files[Len(files)], line)
  BY <1>1, FputsProperties
<1>3. DOMAIN files' = 1..Len(files) /\ \A n \in 1..Len(files) : files'[n] \in Seq(1..MaxCalls)
  BY <1>2, LenProperties, ElementOfSeq
<1>4. \A n \in 1..Len(files) : DOMAIN files'[n] = 1..Len(files'[n])
  BY <1>3, LenProperties
<1>5. /\ Len(files'[Len(files)]) = Len(files[Len(files)]) + 1
      /\ \A i \in 1..Len(files[Len(files)]) : files'[Len(files)][i] = files[Len(files)][i]
      /\ files'[Len(files)][Len(files[Len(files)]) + 1] = line
  BY <1>1, <1>2, AppendProperties
<1> QED
  BY <1>2, <1>3, <1>4, <1>5

\* Where a line in the files stood before another one was put there.
LEMMA OldOrNew ==
  ASSUME LinesInv, NEW line \in 1..MaxCalls, Fputs(line),
         NEW n \in 1..Len(files'), NEW i \in 1..Len(files'[n])
  PROVE  \/ i \in 1..Len(files[n]) /\ files'[n][i] = files[n][i]
         \/ n = Len(files) /\ i = Len(files[n]) + 1 /\ files'[n][i] = line
<1>1. PlaceInv
  BY DEF LinesInv
<1>2. n \in 1..Len(files) /\ Len(files[n]) \in Nat
  BY <1>1, FiledLine, LineTypes
<1> QED
  BY <1>2, FiledLine

\* The lines that were in the files still are, where they were.
LEMMA OldStays ==
  ASSUME LinesInv, NEW line \in 1..MaxCalls, Fputs(line)
  PROVE  (\A k \in Nat : Filed(k) => Filed(k)') /\ Filed(line)'
<1>1. /\ Len(files) \in 1..Len(files)
      /\ \A n \in 1..Len(files) : Len(files[n]) \in Nat
  BY LineTypes DEF LinesInv
<1>2. \A n \in 1..Len(files) : \A i \in 1..Len(files[n]) :
        n \in 1..Len(files') /\ i \in 1..Len(files'[n]) /\ files'[n][i] = files[n][i]
  BY <1>1, FiledLine
<1>3. Len(files[Len(files)]) + 1 \in 1..Len(files'[Len(files)])
  BY <1>1, FiledLine
<1>4. Filed(line)'
  BY <1>1, <1>3, FiledLine DEF Filed
<1>5. \A k \in Nat : Filed(k) => Filed(k)'
  BY <1>2 DEF Filed
<1> QED
  BY <1>4, <1>5

\* What a line must be for the files to stay in order behind it.
LEMMA FputsInOrder ==
  ASSUME LinesInv, NEW line \in 1..MaxCalls, Fputs(line), deq' = deq,
         Logged' \in Nat, Logged <= Logged', line \in 1..Logged',
         Held' => Held /\ str' = str,
         line \notin direct' => ~Held' /\ \A j \in 1..Len(deq) : line < deq[j],
         \A n \in 1..Len(files) : \A i \in 1..Len(files[n]) :
           /\ files[n][i] # line
           /\ files[n][i] \in direct' <=> files[n][i] \in direct
           /\ line \notin direct' /\ files[n][i] \notin direct => files[n][i] < line
  PROVE  FiledInOrder'
<1> DEFINE last == Len(files)
           new  == Len(files[last]) + 1
           Old(n, i) == i \in 1..Len(files[n]) /\ files'[n][i] = files[n][i]
           New(n, i) == n = last /\ i = new /\ files'[n][i] = line
<1>1. FiledInOrder /\ Len(files') = Len(files) /\ Len(files) \in Nat /\ Logged \in Nat
  BY FiledLine, LineTypes DEF LinesInv
<1>2. \A n \in 1..Len(files') : \A i \in 1..Len(files'[n]) : Old(n, i) \/ New(n, i)
  BY OldOrNew
<1>3. \A n \in 1..Len(files) : \A i \in 1..Len(files[n]) : i \in Nat /\ (n = last => i < new)
  <2>1. ASSUME NEW n \in 1..Len(files), NEW i \in 1..Len(files[n])
        PROVE  i \in Nat /\ (n = last => i < new)
    <3>1. Len(files[n]) \in Nat
      BY LineTypes DEF LinesInv
    <3> QED
      BY <3>1
  <2> QED
    BY <2>1
<1>4. ASSUME NEW n \in 1..Len(files'), NEW i \in 1..Len(files'[n])
      PROVE  /\ files'[n][i] \in 1..Logged'
             /\ files'[n][i] \notin direct' =>
                  /\ Held' => files'[n][i] < str'
                  /\ \A j \in 1..Len(deq') : files'[n][i] < deq'[j]
  <2>1. CASE Old(n, i)
    BY <1>1, <2>1 DEF FiledInOrder
  <2>2. CASE New(n, i)
    BY <2>2
  <2> QED
    BY <1>2, <2>1, <2>2
<1>5. ASSUME NEW n \in 1..Len(files'), NEW k \in 1..Len(files'),
             NEW i \in 1..Len(files'[n]), NEW j \in 1..Len(files'[k])
      PROVE  /\ files'[n][i] = files'[k][j] => n = k /\ i = j
             /\ /\ WrittenBefore(n, i, k, j)
                /\ files'[n][i] \notin direct' /\ files'[k][j] \notin direct'
                => files'[n][i] < files'[k][j]
  <2>1. CASE Old(n, i) /\ Old(k, j)
    <3>1. DOMAIN files = 1..Len(files) /\ DOMAIN files[n] = 1..Len(files[n])
          /\ DOMAIN files[k] = 1..Len(files[k])
      BY <1>1, LineTypes DEF LinesInv
    <3> QED
      BY <1>1, <2>1, <3>1 DEF FiledInOrder, QueuedInOrder
  <2>2. CASE New(n, i) /\ Old(k, j)
    <3>1. ~WrittenBefore(n, i, k, j)
      BY <1>1, <1>3, <2>2 DEF WrittenBefore
    <3> QED
      BY <1>1, <2>2, <3>1
  <2>3. CASE Old(n, i) /\ New(k, j)
    BY <1>1, <2>3
  <2>4. CASE New(n, i) /\ New(k, j)
    BY <1>3, <2>4 DEF WrittenBefore
  <2> QED
    BY <1>2, <2>1, <2>2, <2>3, <2>4
<1>6. DOMAIN files' = 1..Len(files') /\ \A n \in 1..Len(files') : DOMAIN files'[n] = 1..Len(files'[n])
  BY FiledLine
<1>7. QueuedInOrder'
  <2> SUFFICES ASSUME NEW n \in DOMAIN files', NEW k \in DOMAIN files',
                      NEW i \in DOMAIN files'[n], NEW j \in DOMAIN files'[k],
                      WrittenBefore(n, i, k, j),
                      files'[n][i] \notin direct', files'[k][j] \notin direct'
               PROVE  files'[n][i] < files'[k][j]
    BY DEF QueuedInOrder, WrittenBefore
  <2> QED
    BY <1>5, <1>6
<1> QED
  BY <1>4, <1>5, <1>7 DEF FiledInOrder

\* WriteLine: the line goes from the hand of the write thread to the file.
LEMMA WriteLines ==
  ASSUME LinesInv, WriteLine
  PROVE  WaitingInOrder' /\ FiledInOrder' /\ AllSomewhere'
<1>1. /\ Held /\ ~Held' /\ UNCHANGED <<deq, direct>> /\ Logged' = Logged /\ Logged \in Nat
      /\ str \in 1..MaxCalls /\ Fputs(str) /\ WaitingInOrder /\ FiledInOrder /\ AllSomewhere
      /\ PlaceInv
  BY AsyncLogAssumption, LineTypes
  DEF WriteLine, mainVars, Held, Logged, MainHolds, LinesInv, PlaceInv, AsyncLogTypeOK, PlacesAgree
<1>2. /\ str \in 1..Logged /\ str \notin direct /\ \A i \in 1..Len(deq) : str < deq[i]
      /\ \A i \in 1..Len(deq) : deq[i] \in Nat
  BY <1>1, LineTypes DEF WaitingInOrder
<1>3. \A n \in 1..Len(files) : \A i \in 1..Len(files[n]) :
        /\ files[n][i] \in 1..Logged /\ files[n][i] # str
        /\ files[n][i] \notin direct => files[n][i] < str
  BY <1>1, <1>2 DEF FiledInOrder
<1>4. WaitingInOrder'
  BY <1>1 DEF WaitingInOrder
<1>5. FiledInOrder'
  BY <1>1, <1>2, <1>3, FputsInOrder
<1>6. ASSUME NEW line \in 1..Logged'
      PROVE  (Held' /\ str' = line) \/ Waits(line)' \/ Filed(line)'
  <2>1. Waits(line) => Waits(line)'
    BY <1>1 DEF Waits
  <2>2. (Held /\ str = line) \/ Waits(line) \/ Filed(line)
    BY <1>1 DEF AllSomewhere
  <2> QED
    BY <1>1, <2>1, <2>2, OldStays
<1> QED
  BY <1>4, <1>5, <1>6 DEF AllSomewhere

\* PutDirect: the line goes from the hand of the main thread to the file.
LEMMA DirectLines ==
  ASSUME LinesInv, PutDirect
  PROVE  WaitingInOrder' /\ FiledInOrder' /\ AllSomewhere'
<1>1. /\ (Held' <=> Held) /\ UNCHANGED <<deq, str>> /\ direct' = direct \cup {said}
      /\ Logged = said - 1 /\ Logged' = said /\ said \in 1..MaxCalls /\ said \in Nat /\ said > 0
      /\ Fputs(said) /\ WaitingInOrder /\ FiledInOrder /\ AllSomewhere /\ PlaceInv
  BY AsyncLogAssumption, LineTypes
  DEF PutDirect, Goes, Held, Logged, MainHolds, LinesInv, PlaceInv, AsyncLogTypeOK, PlacesAgree
<1>2. \A n \in 1..Len(files) : \A i \in 1..Len(files[n]) :
        files[n][i] \in 1..Logged /\ files[n][i] # said
  BY <1>1 DEF FiledInOrder
<1>3. WaitingInOrder'
  BY <1>1, LineTypes DEF WaitingInOrder
<1>4. FiledInOrder'
  BY <1>1, <1>2, FputsInOrder
<1>5. ASSUME NEW line \in 1..Logged'
      PROVE  (Held' /\ str' = line) \/ Waits(line)' \/ Filed(line)'
  <2>1. Waits(line) => Waits(line)'
    BY <1>1 DEF Waits
  <2>2. line = said \/ (Held /\ str = line) \/ Waits(line) \/ Filed(line)
    <3>1. line = said \/ line \in 1..Logged
      BY <1>1
    <3> QED
      BY <1>1, <3>1 DEF AllSomewhere
  <2> QED
    BY <1>1, <2>1, <2>2, OldStays
<1> QED
  BY <1>3, <1>4, <1>5 DEF AllSomewhere

\* Pop: the line goes from the deque to the hand of the write thread.
LEMMA PopLines ==
  ASSUME LinesInv, worker # "fputs", deq # <<>>, worker' = "fputs",
         str' = Head(deq), deq' = Tail(deq), UNCHANGED <<files, direct>>, Logged' = Logged
  PROVE  WaitingInOrder' /\ FiledInOrder' /\ AllSomewhere'
<1>1. /\ ~Held /\ Held' /\ WaitingInOrder /\ FiledInOrder /\ AllSomewhere /\ PlaceInv
  BY DEF Held, LinesInv
<1>2. /\ deq \in Seq(1..MaxCalls) /\ Len(deq) \in Nat /\ Logged \in Nat
      /\ \A i \in 1..Len(deq) : deq[i] \in Nat
  BY <1>1, LineTypes
<1>3. /\ Len(deq) >= 1 /\ str' = deq[1] /\ Len(deq') = Len(deq) - 1
      /\ \A i \in 1..Len(deq') : deq'[i] = deq[i + 1]
  BY <1>2, EmptySeq, HeadTailProperties
<1>4. \A i \in 1..Len(deq') : i + 1 \in 1..Len(deq) /\ 1 < i + 1
  BY <1>2, <1>3
<1>5. WaitingInOrder'
  BY <1>1, <1>2, <1>3, <1>4 DEF WaitingInOrder
<1>6. FiledInOrder'
  BY <1>1, <1>2, <1>3, <1>4 DEF FiledInOrder, QueuedInOrder, WrittenBefore
<1>7. ASSUME NEW i \in 1..Len(deq), i # 1
      PROVE  i - 1 \in 1..Len(deq') /\ deq'[i - 1] = deq[i]
  <2>1. i - 1 \in 1..Len(deq') /\ (i - 1) + 1 = i
    BY <1>2, <1>3, <1>7
  <2> QED
    BY <1>3, <2>1
<1>8. \A line \in 1..Logged : Waits(line) => str' = line \/ Waits(line)'
  BY <1>3, <1>7 DEF Waits
<1>9. \A line \in 1..Logged : Filed(line) => Filed(line)'
  BY DEF Filed
<1>10. AllSomewhere'
  BY <1>1, <1>8, <1>9 DEF AllSomewhere
<1> QED
  BY <1>5, <1>6, <1>10

\* Every step keeps the lines in their places.
LEMMA LinesStep == LinesInv /\ [AsyncLogNext]_logVars => LinesInv'
<1> SUFFICES ASSUME LinesInv, [AsyncLogNext]_logVars
             PROVE  WaitingInOrder' /\ FiledInOrder' /\ AllSomewhere'
  BY PlaceStep DEF LinesInv
<1>1. /\ WaitingInOrder /\ FiledInOrder /\ AllSomewhere /\ PlaceInv
      /\ said \in Nat
  BY LineTypes DEF LinesInv
<1> DEFINE Quiet == UNCHANGED <<deq, files, direct, str>> /\ Logged' = Logged /\ (Held' <=> Held)
<1>2. CASE \E newDay \in BOOLEAN : Say(newDay)
  <2>1. Quiet
    BY <1>2 DEF Say, Goes, Logged, MainHolds, Held
  <2> QED
    BY <1>1, <2>1, QuietLines
<1>3. CASE Exit
  <2>1. Quiet
    BY <1>3 DEF Exit, Goes, Logged, MainHolds, Held
  <2> QED
    BY <1>1, <2>1, QuietLines
<1>4. CASE Rotate
  BY <1>4, RotateLines
<1>5. CASE Lock
  <2>1. Quiet
    BY <1>1, <1>5 DEF Lock, Goes, Logged, MainHolds, Held
  <2> QED
    BY <1>1, <2>1, QuietLines
<1>6. CASE TestFull
  <2>1. Quiet
    BY <1>6 DEF TestFull, Goes, Logged, MainHolds, Held
  <2> QED
    BY <1>1, <2>1, QuietLines
<1>7. CASE PushBack
  BY <1>7, PushLines
<1>8. CASE PutDirect
  BY <1>8, DirectLines
<1>9. CASE Flush
  <2>1. Quiet
    BY <1>9 DEF Flush, Goes, Logged, MainHolds, Held, Notified
  <2> QED
    BY <1>1, <2>1, QuietLines
<1>10. CASE Drain
  <2>1. Quiet
    BY <1>10 DEF Drain, Logged, MainHolds, Held, Notified
  <2> QED
    BY <1>1, <2>1, QuietLines
<1>11. CASE Close
  <2>1. Quiet
    BY <1>1, <1>11 DEF Close, Goes, Logged, MainHolds, Held, PlaceInv, PlacesAgree
  <2> QED
    BY <1>1, <2>1, QuietLines
<1>12. CASE NotifyAll
  <2>1. Quiet
    BY <1>12 DEF NotifyAll, Goes, Logged, MainHolds, Held, AllNotified
  <2> QED
    BY <1>1, <2>1, QuietLines
<1>13. CASE Join \/ Fclose
  <2>1. Quiet
    BY <1>13 DEF Join, Fclose, Goes, Logged, MainHolds, Held
  <2> QED
    BY <1>1, <2>1, QuietLines
<1>14. CASE Pop
  <2>1. worker # "fputs" /\ UNCHANGED <<files, direct>> /\ Logged' = Logged
    BY <1>1, <1>14 DEF Pop, Logged, MainHolds, PlaceInv, WriterNeverWaits
  <2>2. CASE UNCHANGED <<deq, str>> /\ worker' # "fputs"
    <3>1. Quiet
      BY <2>1, <2>2 DEF Held
    <3> QED
      BY <1>1, <3>1, QuietLines
  <2>3. CASE deq # <<>> /\ worker' = "fputs" /\ str' = Head(deq) /\ deq' = Tail(deq)
    BY <2>1, <2>3, PopLines
  <2> QED
    BY <1>14, <2>2, <2>3 DEF Pop
<1>15. CASE WriteLine
  BY <1>15, WriteLines
<1>16. CASE WakeUp
  <2>1. Quiet
    BY <1>16 DEF WakeUp, mainVars, Logged, MainHolds, Held
  <2> QED
    BY <1>1, <2>1, QuietLines
<1>17. CASE UNCHANGED logVars
  <2>1. Quiet
    BY <1>17 DEF logVars, mainVars, Logged, MainHolds, Held
  <2> QED
    BY <1>1, <2>1, QuietLines
<1> QED
  BY <1>2, <1>3, <1>4, <1>5, <1>6, <1>7, <1>8, <1>9, <1>10, <1>11, <1>12, <1>13, <1>14,
     <1>15, <1>16, <1>17
  DEF AsyncLogNext, InWrite, InExit, Worker

\* At the start nothing has been said.
LEMMA LinesInit == AsyncLogInit => LinesInv
<1> SUFFICES ASSUME AsyncLogInit
             PROVE  LinesInv
  OBVIOUS
<1>1. /\ deq \in Seq(1..MaxCalls) /\ Len(deq) = 0
      /\ files \in Seq(Seq(1..MaxCalls)) /\ files # <<>> /\ Len(files) = 1 /\ Len(files[1]) = 0
  BY EmptySeq DEF AsyncLogInit
<1>2. ~Held /\ ~MainHolds /\ Logged = 0 /\ direct = {}
  BY DEF AsyncLogInit, Held, MainHolds, Logged
<1>3. PlaceInv
  <2>1. /\ isClose = FALSE /\ locked = FALSE /\ main = "idle" /\ worker = "pop" /\ str = 0
        /\ lineCount = 0 /\ said = 0 /\ days = 0 /\ direct = {}
    BY DEF AsyncLogInit
  <2>2. main \in MainPlaces /\ worker \in WorkerPlaces /\ isClose \in BOOLEAN /\ locked \in BOOLEAN
    BY <2>1 DEF MainPlaces, WorkerPlaces
  <2>3. locked <=> main \in {"full", "push", "space", "direct"}
    BY <2>1
  <2>4. str \in 0..MaxCalls /\ said \in 0..MaxCalls /\ lineCount \in 0..said /\ days \in 0..MaxDays
    BY <2>1, AsyncLogAssumption
  <2>5. direct \subseteq 1..said /\ Len(deq) <= Capacity
    BY <1>1, <2>1, AsyncLogAssumption
  <2>6. AsyncLogTypeOK
    BY <1>1, <2>2, <2>3, <2>4, <2>5, AsyncLogAssumption DEF AsyncLogTypeOK
  <2>7. WriterNeverWaits /\ PlacesAgree
    BY <1>1, <1>2, <2>1, AsyncLogAssumption DEF WriterNeverWaits, PlacesAgree
  <2> QED
    BY <2>6, <2>7 DEF PlaceInv
<1>4. WaitingInOrder /\ AllSomewhere
  BY <1>1, <1>2 DEF WaitingInOrder, AllSomewhere
<1>5. DOMAIN files = {1} /\ DOMAIN files[1] = {}
  BY <1>1, <1>3, LineTypes
<1>6. FiledInOrder
  BY <1>1, <1>2, <1>5 DEF FiledInOrder, QueuedInOrder
<1> QED
  BY <1>3, <1>4, <1>6 DEF LinesInv

\* log.cpp:138: write never waits for room while it holds Log::mtx_, which
\* the write thread needs before it can take the next line.
THEOREM MainNeverWaits == AsyncLogSpec => []WriterNeverWaits
<1>1. LinesInv => WriterNeverWaits
  BY DEF LinesInv, PlaceInv
<1> QED
  BY <1>1, LinesInit, LinesStep, PTL DEF AsyncLogSpec

\* Every variable has its type; Log::mtx_ is held exactly inside write, and
\* the deque never holds more than its capacity.
THEOREM LogTypesAreCorrect == AsyncLogSpec => []AsyncLogTypeOK
<1>1. LinesInv => AsyncLogTypeOK
  BY DEF LinesInv, PlaceInv
<1> QED
  BY <1>1, LinesInit, LinesStep, PTL DEF AsyncLogSpec

\* Lines that did not find the deque full are in the files in the order they
\* were logged.
THEOREM QueuedLinesInOrder == AsyncLogSpec => []QueuedInOrder
<1>1. LinesInv => QueuedInOrder
  BY DEF LinesInv, FiledInOrder
<1> QED
  BY <1>1, LinesInit, LinesStep, PTL DEF AsyncLogSpec

\* log.cpp:16: when ~Log has joined the write thread, every line is in one
\* place of the files.
THEOREM NoLineIsLost == AsyncLogSpec => []NothingLost
<1>1. ASSUME LinesInv
      PROVE  NothingLost
  <2> SUFFICES ASSUME main \in {"fclose", "ended"}
               PROVE  /\ \A line \in 1..said : InSomeFile(line)
                      /\ \A n, k \in DOMAIN files : \A i \in DOMAIN files[n], j \in DOMAIN files[k] :
                           /\ files[n][i] \in 1..said
                           /\ files[n][i] = files[k][j] => n = k /\ i = j
    BY DEF NothingLost
  <2>1. deq = <<>> /\ ~Held /\ Logged = said /\ PlaceInv
    BY <1>1 DEF LinesInv, PlaceInv, PlacesAgree, Held, Logged, MainHolds
  <2>2. /\ DOMAIN files = 1..Len(files)
        /\ \A n \in 1..Len(files) : DOMAIN files[n] = 1..Len(files[n])
    BY <2>1, LineTypes
  <2>3. \A line \in 1..said : ~Waits(line)
    BY <2>1, EmptySeq DEF Waits
  <2>4. \A line \in 1..said : InSomeFile(line)
    BY <1>1, <2>1, <2>2, <2>3 DEF LinesInv, AllSomewhere, Filed, InSomeFile, ToSet
  <2>5. \A n, k \in DOMAIN files : \A i \in DOMAIN files[n], j \in DOMAIN files[k] :
          /\ files[n][i] \in 1..said
          /\ files[n][i] = files[k][j] => n = k /\ i = j
    BY <1>1, <2>1, <2>2 DEF LinesInv, FiledInOrder
  <2> QED
    BY <2>4, <2>5
<1> QED
  BY <1>1, LinesInit, LinesStep, PTL DEF AsyncLogSpec

-----------------------------------------------------------------------------
(* How long a file gets.                                                   *)

\* The remainder of a number that is written as quotient and remainder.
LEMMA RemainderIs ==
  ASSUME NEW F \in Nat \ {0}, NEW q \in Int, NEW r \in 0..(F - 1)
  PROVE  (F * q + r) % F = r
OBVIOUS

\* The remainder of a counter goes up by one, or from the last to 0.
LEMMA NextRemainder ==
  ASSUME NEW F \in Nat \ {0}, NEW c \in Nat
  PROVE  /\ c % F \in 0..(F - 1) /\ 0 % F = 0
         /\ (c + 1) % F = IF c % F = F - 1 THEN 0 ELSE (c % F) + 1
<1> DEFINE q == c \div F
           r == c % F
<1>1. F \in Int /\ F > 0 /\ c \in Int
  OBVIOUS
<1>2. r \in 0..(F - 1) /\ 0 % F = 0 /\ q \in Int /\ c + 1 \in Nat
  OBVIOUS
<1>3. c - r = q * F
  BY <1>1
<1> HIDE DEF q, r
<1>4. c = F * q + r
  BY <1>2, <1>3
<1>5. CASE r = F - 1
  <2>1. c + 1 = F * (q + 1) + 0 /\ q + 1 \in Int
    BY <1>2, <1>4, <1>5
  <2>2. (F * (q + 1) + 0) % F = 0
    BY <2>1, RemainderIs
  <2> QED
    BY <1>2, <1>5, <2>1, <2>2 DEF r
<1>6. CASE r # F - 1
  <2>1. PICK next \in 0..(F - 1) : next = r + 1 /\ c + 1 = F * q + next
    BY <1>2, <1>4, <1>6
  <2>2. (F * q + next) % F = next
    BY <1>2, RemainderIs
  <2> QED
    BY <1>2, <1>6, <2>1, <2>2 DEF r
<1> QED
  BY <1>5, <1>6

\* Only Fputs makes a file longer, and only the open one, by a line.
LEMMA FputsBounded ==
  ASSUME PlaceInv, FilesAreBounded, NEW line \in 1..MaxCalls, Fputs(line),
         Len(files[Len(files)]) < FileLines + Capacity + 1
  PROVE  FilesAreBounded' /\ Len(files'[Len(files')]) = Len(files[Len(files)]) + 1
<1>1. /\ files \in Seq(Seq(1..MaxCalls)) /\ files # <<>> /\ Len(files) \in 1..Len(files)
      /\ files[Len(files)] \in Seq(1..MaxCalls) /\ Len(files[Len(files)]) \in Nat
      /\ DOMAIN files = 1..Len(files)
  BY LineTypes
<1>2. /\ Len(files') = Len(files) /\ files' \in Seq(Seq(1..MaxCalls))
      /\ \A n \in 1..Len(files) : n # Len(files) => files'[n] = files[n]
      /\ files'[Len(files)] = Append(files[Len(files)], line)
  BY <1>1, FputsProperties
<1>3. DOMAIN files' = 1..Len(files)
  BY <1>2, LenProperties
<1>4. Len(files'[Len(files)]) = Len(files[Len(files)]) + 1
  <2>1. Len(Append(files[Len(files)], line)) = Len(files[Len(files)]) + 1
    BY <1>1, AppendProperties
  <2> QED
    BY <1>2, <2>1
<1>5. ASSUME NEW n \in 1..Len(files)
      PROVE  Len(files'[n]) <= FileLines + Capacity + 1
  <2>1. CASE n = Len(files)
    BY <1>1, <1>4, <2>1, AsyncLogAssumption
  <2>2. CASE n # Len(files)
    BY <1>1, <1>2, <2>2 DEF FilesAreBounded
  <2> QED
    BY <2>1, <2>2
<1> QED
  BY <1>2, <1>3, <1>4, <1>5 DEF FilesAreBounded

\* Fewer lines that wait: the bound still holds.
LEMMA NoMore ==
  ASSUME NEW o \in Nat, NEW a \in Nat, NEW b \in Nat, NEW s \in Nat, NEW c \in Nat,
         o + a <= s + c + 1, b <= a
  PROVE  o + b <= s + c + 1
OBVIOUS

\* An empty file may take every line that waits.
LEMMA FromNone ==
  ASSUME NEW a \in Nat, NEW c \in Nat, a <= c + 1
  PROVE  0 + a <= 0 + c + 1
OBVIOUS

\* Every step keeps the files short.
LEMMA FileStep == PlaceInv /\ FileInv /\ [AsyncLogNext]_logVars => FileInv'
<1> SUFFICES ASSUME PlaceInv, FileInv, [AsyncLogNext]_logVars
             PROVE  FileInv'
  OBVIOUS
<1>1. /\ Len(deq) \in Nat /\ Len(deq) <= Capacity /\ Open \in Nat /\ said \in Nat /\ lineCount \in Nat
      /\ Capacity \in Nat \ {0} /\ FileLines \in Nat \ {0}
  BY LineTypes, AsyncLogAssumption DEF PlaceInv, AsyncLogTypeOK, Open
<1>2. /\ lineCount % FileLines \in 0..(FileLines - 1) /\ 0 % FileLines = 0
      /\ (lineCount + 1) % FileLines =
           IF lineCount % FileLines = FileLines - 1 THEN 0 ELSE (lineCount % FileLines) + 1
  BY <1>1, NextRemainder
<1>3. FilesAreBounded /\ OpenIsShort
  BY DEF FileInv
<1>4. PlaceInv'
  BY PlaceStep
<1>5. SinceOpened \in Nat /\ SinceOpened <= FileLines /\ Awaited \in Nat
  <2>1. SinceOpened \in Nat /\ SinceOpened <= FileLines
    BY <1>1, <1>2 DEF SinceOpened
  <2>2. InHand \in {0, 1} /\ OfMain \in {0, 1}
    BY DEF InHand, OfMain
  <2> QED
    BY <1>1, <2>1, <2>2 DEF Awaited
<1> DEFINE Calm == /\ files' = files /\ lineCount' = lineCount
                   /\ main # "line" /\ main' # "line" /\ main' # "nextfile"
<1>6. ASSUME Calm, Awaited' \in Nat, Awaited' <= Awaited
      PROVE  FileInv'
  <2>1. Open' = Open /\ SinceOpened' = SinceOpened
    BY <1>6 DEF Open, SinceOpened
  <2>2. FilesAreBounded'
    BY <1>3, <1>6 DEF FilesAreBounded
  <2>3. Awaited' \in Nat /\ Awaited' <= Awaited
    BY <1>6
  <2>4. Open + Awaited <= SinceOpened + Capacity + 1
    BY <1>3 DEF OpenIsShort
  <2>5. Open + Awaited' <= SinceOpened + Capacity + 1
    BY <1>1, <1>5, <2>3, <2>4, NoMore
  <2>6. OpenIsShort'
    BY <2>1, <2>5 DEF OpenIsShort
  <2> QED
    BY <1>6, <2>2, <2>6 DEF FileInv
<1> USE DEF Goes
<1>7. CASE \E newDay \in BOOLEAN : Say(newDay)
  <2>1. /\ main = "idle" /\ main' \in {"newday", "nextfile", "line"} /\ lineCount' = lineCount
        /\ files' = files /\ Awaited' = Awaited
        /\ main' = "nextfile" => lineCount # 0 /\ lineCount % FileLines = 0
        /\ main' = "line" => lineCount = 0 \/ lineCount % FileLines # 0
    BY <1>7 DEF Say, FileDone, Awaited, InHand, OfMain, Held, MainHolds
  <2>2. Open' = Open /\ SinceOpened' = SinceOpened
    BY <1>1, <1>2, <2>1 DEF Open, SinceOpened
  <2>3. FilesAreBounded'
    BY <1>3, <2>1 DEF FilesAreBounded
  <2>4. OpenIsShort'
    BY <1>3, <2>1, <2>2, <2>3 DEF OpenIsShort
  <2> QED
    BY <2>1, <2>2, <2>3, <2>4 DEF FileInv
<1>8. CASE Exit
  BY <1>1, <1>6, <1>8 DEF Exit, Awaited, InHand, OfMain, Held, MainHolds
<1>9. CASE Rotate
  <2>1. /\ main \in {"newday", "nextfile"} /\ main' = "line" /\ deq' = deq /\ (Held' <=> Held)
        /\ files' = Append(files, <<>>)
        /\ lineCount' = IF main = "newday" THEN 0 ELSE lineCount
    BY <1>9 DEF Rotate, Notified, Awaited, InHand, OfMain, Held, MainHolds
  <2>2. /\ Len(files) \in Nat /\ Len(files') = Len(files) + 1 /\ DOMAIN files' = 1..Len(files')
        /\ DOMAIN files = 1..Len(files)
        /\ \A n \in 1..Len(files) : files'[n] = files[n]
        /\ Open' = 0 /\ Len(files'[Len(files')]) = 0
    BY <2>1, LineTypes, RotateProperties, LenProperties DEF Open
  <2>3. FilesAreBounded'
    BY <1>1, <1>3, <2>2 DEF FilesAreBounded
  <2>4. Awaited' \in Nat /\ Awaited' <= Capacity + 1
    BY <1>1, <2>1 DEF Awaited, InHand, OfMain, Held, MainHolds
  <2>5. SinceOpened' = 0 /\ main' # "nextfile"
    BY <1>2, <2>1 DEF SinceOpened, FileInv
  <2>6. Open' = 0
    BY <2>2
  <2>7. 0 + Awaited' <= 0 + Capacity + 1
    BY <1>1, <2>4, FromNone
  <2>8. OpenIsShort'
    BY <2>5, <2>6, <2>7 DEF OpenIsShort
  <2> QED
    BY <2>3, <2>5, <2>8 DEF FileInv
<1>10. CASE Lock
  <2>1. /\ main = "line" /\ main' = "full" /\ lineCount' = lineCount + 1
        /\ UNCHANGED <<files, deq, worker>>
    BY <1>10 DEF Lock, Awaited, InHand, OfMain, Held, MainHolds
  <2>2. Awaited' = Awaited + 1 /\ Open' = Open
    BY <1>1, <2>1 DEF Open, Awaited, InHand, OfMain, Held, MainHolds
  <2>3. SinceOpened' = SinceOpened + 1
    BY <1>1, <1>2, <2>1 DEF SinceOpened
  <2>4. FilesAreBounded'
    BY <1>3, <2>1 DEF FilesAreBounded
  <2>5. OpenIsShort'
    BY <1>1, <1>3, <1>5, <2>2, <2>3 DEF OpenIsShort
  <2> QED
    BY <2>1, <2>4, <2>5 DEF FileInv
<1>11. CASE TestFull
  BY <1>1, <1>6, <1>11 DEF TestFull, Awaited, InHand, OfMain, Held, MainHolds
<1>12. CASE PushBack
  <2>1. Len(deq) < Capacity /\ ~(Len(deq) >= Capacity) /\ said \in 1..MaxCalls /\ deq \in Seq(1..MaxCalls)
    BY <1>1, <1>12 DEF PushBack, PlaceInv, PlacesAgree, AsyncLogTypeOK, Awaited, InHand, OfMain, Held, MainHolds
  <2>2. /\ main = "push" /\ main' = "flush" /\ deq' = Append(deq, said) /\ (Held' <=> Held)
        /\ UNCHANGED <<files, lineCount>>
    BY <1>12, <2>1, Zenon DEF PushBack, Pushed, Notified, Awaited, InHand, OfMain, Held, MainHolds
  <2>3. Len(deq') = Len(deq) + 1
    BY <2>1, <2>2, AppendProperties
  <2>4. Awaited' = Awaited
    BY <1>1, <2>2, <2>3 DEF Awaited, InHand, OfMain, Held, MainHolds
  <2> QED
    BY <1>5, <1>6, <2>2, <2>4
<1>13. CASE PutDirect
  <2>1. /\ main = "direct" /\ main' = "flush" /\ said \in 1..MaxCalls /\ Fputs(said)
        /\ UNCHANGED <<deq, worker, lineCount>>
    BY <1>1, <1>13 DEF PutDirect, PlaceInv, PlacesAgree, AsyncLogTypeOK, Awaited, InHand, OfMain, Held, MainHolds
  <2>2. Awaited > 0 /\ Awaited' = Awaited - 1
    BY <1>1, <2>1 DEF Awaited, InHand, OfMain, Held, MainHolds
  <2>3. Open < FileLines + Capacity + 1
    BY <1>1, <1>3, <1>5, <2>2 DEF OpenIsShort
  <2>4. FilesAreBounded' /\ Open' = Open + 1
    BY <1>3, <2>1, <2>3, FputsBounded DEF Open
  <2>5. SinceOpened' = SinceOpened
    BY <2>1 DEF SinceOpened
  <2>6. OpenIsShort'
    BY <1>1, <1>3, <1>5, <2>2, <2>4, <2>5 DEF OpenIsShort
  <2> QED
    BY <2>1, <2>4, <2>6 DEF FileInv
<1>14. CASE Flush
  BY <1>1, <1>6, <1>14 DEF Flush, Notified, Awaited, InHand, OfMain, Held, MainHolds
<1>15. CASE InExit
  <2>1. Calm
    BY <1>15 DEF InExit, Drain, Close, NotifyAll, Join, Fclose
  <2>2. Awaited' \in Nat /\ Awaited' <= Awaited
    <3>1. CASE Close
      BY <1>1, <3>1, EmptySeq DEF Close, Awaited, InHand, OfMain, Held, MainHolds
    <3>2. CASE Drain \/ NotifyAll \/ Join \/ Fclose
      <4>1. deq' = deq /\ (Held' <=> Held) /\ ~MainHolds /\ ~MainHolds'
        BY <3>2 DEF Drain, NotifyAll, Join, Fclose, Notified, AllNotified, Held, MainHolds
      <4>2. Awaited' = Awaited
        BY <4>1 DEF Awaited, InHand, OfMain
      <4> QED
        BY <1>5, <4>2
    <3> QED
      BY <1>15, <3>1, <3>2 DEF InExit
  <2> QED
    BY <1>6, <2>1, <2>2
<1>16. CASE Pop \/ WakeUp \/ UNCHANGED logVars
  <2>1. UNCHANGED <<files, lineCount, main>>
    BY <1>16 DEF Pop, WakeUp, logVars, mainVars, PlaceInv, WriterNeverWaits
  <2>2. Open' = Open /\ SinceOpened' = SinceOpened /\ FilesAreBounded'
    BY <1>3, <2>1 DEF Open, SinceOpened, FilesAreBounded
  <2>3. Awaited' = Awaited
    <3>1. CASE worker # "fputs" /\ worker' = "fputs" /\ deq # <<>> /\ deq' = Tail(deq)
      <4>1. Len(deq') = Len(deq) - 1
        BY <3>1, HeadTailProperties, LineTypes
      <4> QED
        BY <1>1, <2>1, <3>1, <4>1 DEF Awaited, InHand, OfMain, Held, MainHolds
    <3>2. CASE deq' = deq /\ (Held' <=> Held)
      BY <2>1, <3>2 DEF Awaited, InHand, OfMain, MainHolds
    <3> QED
      BY <1>16, <3>1, <3>2 DEF Pop, WakeUp, logVars, Held
  <2>4. OpenIsShort'
    BY <1>3, <2>1, <2>2, <2>3 DEF OpenIsShort
  <2> QED
    BY <2>1, <2>2, <2>3, <2>4 DEF FileInv
<1>17. CASE WriteLine
  <2>1. /\ Held /\ ~Held' /\ str \in 1..MaxCalls /\ Fputs(str)
        /\ UNCHANGED <<deq, main, lineCount>>
    BY <1>17 DEF WriteLine, mainVars, PlaceInv, PlacesAgree, AsyncLogTypeOK, Awaited, InHand, OfMain, Held, MainHolds
  <2>2. Awaited > 0 /\ Awaited' = Awaited - 1
    BY <1>1, <2>1 DEF Awaited, InHand, OfMain, Held, MainHolds
  <2>3. Open < FileLines + Capacity + 1
    BY <1>1, <1>3, <1>5, <2>2 DEF OpenIsShort
  <2>4. FilesAreBounded' /\ Open' = Open + 1
    BY <1>3, <2>1, <2>3, FputsBounded DEF Open
  <2>5. SinceOpened' = SinceOpened
    BY <2>1 DEF SinceOpened
  <2>6. OpenIsShort'
    BY <1>1, <1>3, <1>5, <2>2, <2>4, <2>5 DEF OpenIsShort
  <2> QED
    BY <2>1, <2>4, <2>6 DEF FileInv
<1> QED
  BY <1>7, <1>8, <1>9, <1>10, <1>11, <1>12, <1>13, <1>14, <1>15, <1>16, <1>17
  DEF AsyncLogNext, InWrite, Worker

\* A log file holds at most MAX_LINES lines, those that were waiting in the
\* deque when it was opened and the one the write thread had in its hand (in
\* one run of the process: the file of an earlier run is appended to).
THEOREM FilesStayShort == AsyncLogSpec => []FilesAreBounded
<1>1. AsyncLogInit => FileInv
  <2> SUFFICES ASSUME AsyncLogInit
               PROVE  FileInv
    OBVIOUS
  <2>1. /\ Len(deq) = 0 /\ Len(files) = 1 /\ Len(files[1]) = 0 /\ DOMAIN files = {1}
        /\ main = "idle" /\ worker = "pop" /\ lineCount = 0
    BY EmptySeq DEF AsyncLogInit
  <2>2. 0 % FileLines = 0
    BY AsyncLogAssumption, NextRemainder
  <2>3. Open = 0 /\ Awaited = 0 /\ SinceOpened = 0
    BY <2>1, <2>2 DEF Open, Awaited, InHand, OfMain, SinceOpened, Held, MainHolds
  <2>4. FilesAreBounded
    BY <2>1, AsyncLogAssumption DEF FilesAreBounded
  <2> QED
    BY <2>1, <2>3, <2>4, AsyncLogAssumption DEF FileInv, OpenIsShort
<1>2. LinesInv => PlaceInv
  BY DEF LinesInv
<1>3. FileInv => FilesAreBounded
  BY DEF FileInv
<1> QED
  BY <1>1, <1>2, <1>3, LinesInit, PlaceStep, FileStep, PTL DEF AsyncLogSpec
=============================================================================
