-------------------------- MODULE MicrophoneProofs --------------------------
(***************************************************************************)
(* Proofs about Microphone with a patient caller, for every number of      *)
(* recordings and of chunks: the consumer gets whole utterances one after  *)
(* the other, and nobody finds the line gone unless it stopped by itself.  *)
(***************************************************************************)
EXTENDS Microphone, TLAPS

Datum == [kind : {"start", "data", "end"}, thread : Nat, n : Nat]
Chunks == [kind : {"data"}, thread : Nat, n : Nat]
Line == [state : {"new", "open", "running", "closed"}, buffer : Seq(Chunks)]
Steps == {"none", "begin", "start", "read", "flush", "close", "null", "end", "dead"}

TypeOK ==
    /\ closeBetweenUtterances \in BOOLEAN
    /\ caller \in {"idle", "opened", "starting", "stopping", "waiting", "dead"}
    /\ recording \in BOOLEAN
    /\ recorder \in 0 .. MaxRecordings /\ last \in 0 .. MaxRecordings
    /\ lines \in Seq(Line)
    /\ audioLine \in 0 .. Len(lines) /\ stream \in 0 .. Len(lines)
    /\ thread \in [Recordings -> Steps]
    /\ started \in [Recordings -> BOOLEAN] /\ done \in [Recordings -> BOOLEAN]
    /\ audioList \in Seq(Datum) /\ taken \in Seq(Datum)
    /\ utteranceEndReached \in BOOLEAN
    /\ captured \in [Recordings -> Nat]
    /\ cut \in BOOLEAN /\ failed \in 0 .. MaxRecordings
    /\ interrupted \in BOOLEAN

(* The thread of the last recording, if any, has ended.                    *)
Over == last = 0 \/ thread[last] = "dead"

(* No recording came after one whose reading failed.                       *)
Clean == failed \in {0, last}

(* Only the thread of the last recording runs.                             *)
OneAtATime ==
    /\ \A t \in Recordings : t < last => thread[t] = "dead"
    /\ \A t \in Recordings : t > last => thread[t] = "none" /\ captured[t] = 0
    /\ last # 0 => thread[last] # "none"
    /\ \A t \in Recordings : started[t] => thread[t] \notin {"none", "begin", "start"}
    /\ \A t \in Recordings : done[t] => thread[t] \notin {"none", "begin", "start", "read"}
    /\ last # 0 /\ thread[last] \in {"begin", "start"} /\ failed = 0 => captured[last] = 0

(* What the caller knows of it, and what became of the thread whose        *)
(* reading failed.                                                         *)
CallerAndThread ==
    /\ caller \in {"starting", "stopping", "waiting"} \/ recording =>
          recorder = last /\ last # 0
    /\ caller \in {"stopping", "waiting"} => recording
    /\ caller \in {"opened", "starting"} => ~recording
    /\ caller = "opened" => utteranceEndReached /\ last < MaxRecordings
    /\ failed \in 0 .. last
    /\ failed # 0 /\ failed = last => thread[last] \in {"end", "dead"}

(* Reading has failed and the open line was left as it was.                *)
LeftOpen(l) ==
    /\ failed # 0
    /\ l = audioLine /\ lines[l].state \in {"open", "running"}
    /\ thread[last] \notin {"flush", "close", "null"}

(* A line runs and holds chunks only while it is read, or once reading has *)
(* failed; and the thread that is to read or to close it has it.           *)
TheLine ==
    /\ \A l \in DOMAIN lines :
          lines[l].state = "running" \/ lines[l].buffer # <<>> =>
              l = stream /\ last # 0 /\ (thread[last] = "read" \/ LeftOpen(l))
    /\ audioLine # 0 /\ lines[audioLine].state \in {"open", "running"} => stream = audioLine
    /\ caller = "opened" => audioLine # 0 /\ lines[audioLine].state \in {"open", "running"}
    /\ last # 0 =>
          /\ thread[last] \in {"begin", "start", "read", "flush", "close"} =>
                audioLine # 0 /\ lines[audioLine].state \in {"open", "running"}
          /\ thread[last] = "null" => audioLine # 0

(* The caller has started a recording and not yet stopped its line.        *)
Undisturbed == caller \in {"starting", "stopping"} \/ (caller = "idle" /\ recording)

(* A thread leaves a line that the caller has not stopped only if it was   *)
(* cut, or could not be read.                                              *)
StoppedOrCut ==
    /\ caller = "dead" => cut
    /\ Undisturbed =>
        \/ cut
        \/ /\ audioLine # 0 /\ thread[last] \notin {"flush", "close", "null"}
           /\ thread[last] = "read" => lines[audioLine].state = "running"

LastPut == IF Put = <<>> THEN Signal("end", 0) ELSE Put[Len(Put)]

(* What was put last tells where the thread is; what is in the line        *)
(* continues it.                                                           *)
Continues ==
    /\ last = 0 => Put = <<>>
    /\ last # 0 =>
        /\ thread[last] = "begin" => audioList = <<>> /\ LastPut = Signal("end", last - 1)
        /\ thread[last] = "start" => LastPut = Signal("start", last)
        /\ thread[last] \in {"read", "flush", "close", "null", "end"} =>
              LastPut \in {Signal("start", last)} \cup {Chunk(last, n) : n \in Nat \ {0}}
        /\ thread[last] = "read" =>
              /\ LastPut.n + Len(lines[stream].buffer) = captured[last]
              /\ \A i \in DOMAIN lines[stream].buffer :
                    lines[stream].buffer[i] = Chunk(last, LastPut.n + i)
        /\ thread[last] \in {"flush", "close", "null", "end"} =>
              LastPut.n = captured[last] \/ failed # 0
        /\ thread[last] = "dead" => LastPut = Signal("end", last)

WhereItIs == Clean => Continues

(* Nothing comes after the end of an utterance before it was taken.        *)
EndsAtTheEnd ==
    /\ utteranceEndReached => Over /\ audioList = <<>>
    /\ \A i \in DOMAIN audioList : audioList[i].kind = "end" => i = Len(audioList) /\ Over
    /\ \A i \in DOMAIN Put : Put[i].kind = "end" =>
          Put[i].thread \in 1 .. last /\ (Put[i].thread < last \/ Over)
    /\ \A t \in Recordings : thread[t] = "dead" => \E i \in DOMAIN Put : Put[i] = Signal("end", t)

Threads == TypeOK /\ OneAtATime /\ CallerAndThread /\ TheLine /\ StoppedOrCut
IInv == Threads /\ WhereItIs /\ EndsAtTheEnd /\ WholeUtterances
-----------------------------------------------------------------------------
(* Lines and what is put. *)

LEMMA EmptyIsSeq == ASSUME NEW S PROVE << >> \in Seq(S) /\ Len(<< >>) = 0
  OBVIOUS

(* A change to one line leaves the others as they are.                     *)
LEMMA OneLine ==
  ASSUME NEW s \in Seq(Line), NEW l \in 1 .. Len(s), NEW b \in Line
  PROVE  /\ [s EXCEPT ![l] = b] \in Seq(Line)
         /\ Len([s EXCEPT ![l] = b]) = Len(s)
         /\ [s EXCEPT ![l] = b][l] = b
         /\ \A k \in 1 .. Len(s) : k # l => [s EXCEPT ![l] = b][k] = s[k]
  <1>1. [s EXCEPT ![l] = b] \in [1 .. Len(s) -> Line]
    OBVIOUS
  <1>2. [s EXCEPT ![l] = b] \in Seq(Line)
    BY <1>1
  <1>3. QED
    BY <1>1, <1>2

LEMMA LineParts ==
  ASSUME NEW b \in Line
  PROVE  /\ b.state \in {"new", "open", "running", "closed"}
         /\ b.buffer \in Seq(Chunks)
  BY DEF Line

LEMMA StateOfLine ==
  ASSUME NEW b \in Line, NEW x \in {"new", "open", "running", "closed"}
  PROVE  /\ [b EXCEPT !.state = x] \in Line
         /\ [b EXCEPT !.state = x].state = x
         /\ [b EXCEPT !.state = x].buffer = b.buffer
  BY DEF Line

LEMMA BufferOfLine ==
  ASSUME NEW b \in Line, NEW x \in Seq(Chunks)
  PROVE  /\ [b EXCEPT !.buffer = x] \in Line
         /\ [b EXCEPT !.buffer = x].state = b.state
         /\ [b EXCEPT !.buffer = x].buffer = x
  BY DEF Line

LEMMA NewLineIsLine ==
  /\ NewLine \in Line /\ NewLine.state = "new" /\ NewLine.buffer = << >>
  BY EmptyIsSeq DEF NewLine, Line

LEMMA MoreLines ==
  ASSUME NEW s \in Seq(Line)
  PROVE  /\ Append(s, NewLine) \in Seq(Line)
         /\ Len(Append(s, NewLine)) = Len(s) + 1
         /\ Append(s, NewLine)[Len(s) + 1] = NewLine
         /\ \A k \in 1 .. Len(s) : Append(s, NewLine)[k] = s[k]
  BY NewLineIsLine

LEMMA StoppedLine ==
  ASSUME NEW b \in Line
  PROVE  /\ StoppedByCaller(b) \in Line
         /\ StoppedByCaller(b).state = IF b.state = "running" THEN "open" ELSE b.state
         /\ StoppedByCaller(b).buffer = b.buffer
  BY StateOfLine DEF StoppedByCaller, Stopped

LEMMA Data ==
  ASSUME NEW t \in Nat, NEW n \in Nat
  PROVE  /\ Signal("start", t) \in Datum /\ Signal("end", t) \in Datum /\ Chunk(t, n) \in Datum
         /\ Chunk(t, n) \in Chunks
         /\ Signal("start", t).kind = "start" /\ Signal("start", t).thread = t
         /\ Signal("start", t).n = 0
         /\ Signal("end", t).kind = "end" /\ Signal("end", t).thread = t
         /\ Signal("end", t).n = 0
         /\ Chunk(t, n).kind = "data" /\ Chunk(t, n).thread = t /\ Chunk(t, n).n = n
  BY DEF Signal, Chunk, Datum, Chunks

LEMMA ChunksAreData ==
  ASSUME NEW d \in Chunks
  PROVE  d \in Datum /\ d.kind = "data"
  BY DEF Chunks, Datum

LEMMA OnlyTheLast ==
  ASSUME TypeOK, OneAtATime, NEW t \in Recordings, thread[t] \notin {"none", "dead"}
  PROVE  t = last /\ last # 0
  BY MicrophoneAssumption DEF TypeOK, OneAtATime, Recordings
-----------------------------------------------------------------------------
(* What each action does to the line, as far as the invariant can tell.    *)

LEMMA RecordingsAreNat == \A t \in Recordings : t \in Nat /\ t # 0 /\ t \in 1 .. MaxRecordings
  BY MicrophoneAssumption DEF Recordings

(* Opening leaves an open line as it is, and otherwise none runs.          *)
LEMMA OpenEffect ==
  ASSUME TypeOK, TheLine, CallerAndThread, Patient, Open,
         last # 0 => thread[last] = "dead"
  PROVE  /\ lines' \in Seq(Line)
         /\ audioLine' \in 0 .. Len(lines') /\ stream' \in 0 .. Len(lines')
         /\ \/ UNCHANGED line
            \/ \A l \in DOMAIN lines' : lines'[l].state # "running" /\ lines'[l].buffer = << >>
         /\ audioLine' # 0 /\ lines'[audioLine'].state \in {"open", "running"} =>
               stream' = audioLine'
         /\ caller' = "opened" =>
               audioLine' # 0 /\ lines'[audioLine'].state \in {"open", "running"}
         /\ caller' \in {"opened", "idle"}
  <1>3. DOMAIN lines = 1 .. Len(lines) /\ lines \in Seq(Line) /\ Len(lines) \in Nat
    BY DEF TypeOK
  <1>4. \A l \in 1 .. Len(lines) : lines[l] \in Line
    BY <1>3
  <1>5. CASE audioLine # 0 /\ IsOpen(audioLine)
    <2>1. UNCHANGED line /\ caller' = "opened"
      BY <1>5 DEF Open
    <2>2. lines[audioLine].state \in {"open", "running"} /\ stream = audioLine
      BY <1>5 DEF IsOpen, TheLine
    <2>3. QED
      BY <2>1, <2>2, <1>5, <1>3 DEF line, TypeOK
  <1>6. CASE ~(audioLine # 0 /\ IsOpen(audioLine))
    <2>0. \A l \in DOMAIN lines : lines[l].state # "running" /\ lines[l].buffer = << >>
      <3>1. SUFFICES ASSUME NEW l \in DOMAIN lines,
                            lines[l].state = "running" \/ lines[l].buffer # << >>
                     PROVE  FALSE
        OBVIOUS
      <3>2. LeftOpen(l) /\ l # 0
        BY <3>1, <1>3 DEF TheLine
      <3>3. QED
        BY <3>2, <1>6 DEF LeftOpen, IsOpen
    <2>1. PICK l \in {audioLine, Len(lines) + 1}, opens \in BOOLEAN :
            /\ audioLine # 0 => l = audioLine
            /\ opens => l # 0
            /\ audioLine' = l
            /\ lines' = LET had == IF l > Len(lines) THEN Append(lines, NewLine) ELSE lines
                        IN  IF opens THEN [had EXCEPT ![l].state = "open"] ELSE had
            /\ stream' = IF opens THEN l ELSE stream
            /\ caller' = IF opens THEN "opened" ELSE "idle"
      BY <1>6 DEF Open
    <2> DEFINE had == IF l > Len(lines) THEN Append(lines, NewLine) ELSE lines
    <2>2. /\ had \in Seq(Line) /\ Len(had) \in Nat /\ Len(had) >= Len(lines) /\ l \in 0 .. Len(had)
          /\ \A k \in 1 .. Len(had) :
                had[k] \in Line /\ had[k].state # "running" /\ had[k].buffer = << >>
          /\ \A k \in 1 .. Len(lines) : had[k] = lines[k]
          /\ l > Len(lines) => had[l].state = "new"
      <3>1. CASE l > Len(lines)
        <4>1. l = Len(lines) + 1
          BY <3>1, <1>3, <2>1 DEF TypeOK
        <4>2. QED
          BY <4>1, <3>1, <1>3, <1>4, <2>0, MoreLines, NewLineIsLine
      <3>2. CASE ~(l > Len(lines))
        BY <3>2, <2>0, <1>3, <1>4, <2>1 DEF TypeOK
      <3>3. QED
        BY <3>1, <3>2
    <2>3. CASE opens
      <3> HIDE DEF had
      <3> DEFINE b == [had[l] EXCEPT !.state = "open"]
      <3>1. l \in 1 .. Len(had)
        BY <2>1, <2>2, <2>3
      <3>2. b \in Line /\ b.state = "open" /\ b.buffer = << >>
        <4>1. had[l] \in Line /\ had[l].buffer = << >>
          BY <3>1, <2>2
        <4>2. QED
          BY <4>1, StateOfLine
      <3>3. lines' = [had EXCEPT ![l] = b]
        BY <2>1, <2>3 DEF had
      <3> HIDE DEF b
      <3>4. /\ lines' \in Seq(Line) /\ Len(lines') = Len(had) /\ lines'[l] = b
            /\ \A k \in 1 .. Len(had) : k # l => lines'[k] = had[k]
        BY <3>1, <3>2, <3>3, <2>2, OneLine
      <3>5. audioLine' = l /\ stream' = l /\ caller' = "opened"
        BY <2>1, <2>3
      <3>6. \A k \in DOMAIN lines' : lines'[k].state # "running" /\ lines'[k].buffer = << >>
        BY <3>2, <3>4, <2>2
      <3>7. audioLine' \in 0 .. Len(lines') /\ stream' \in 0 .. Len(lines') /\ audioLine' # 0
        BY <3>1, <3>4, <3>5, <2>2
      <3>8. lines'[audioLine'].state = "open"
        BY <3>2, <3>4, <3>5
      <3>9. QED
        BY <3>4, <3>5, <3>6, <3>7, <3>8
    <2>4. CASE ~opens
      <3>1. lines' = had /\ stream' = stream /\ audioLine' = l /\ caller' = "idle"
        BY <2>1, <2>4
      <3>2. stream \in 0 .. Len(lines) /\ audioLine \in 0 .. Len(lines)
        BY DEF TypeOK
      <3>3. ~(lines'[audioLine'].state \in {"open", "running"} /\ audioLine' # 0)
        <4> HIDE DEF had
        <4>1. CASE l > Len(lines)
          BY <4>1, <2>2, <3>1
        <4>2. CASE ~(l > Len(lines))
          <5>1. l = audioLine
            BY <4>2, <2>1, <1>3
          <5>2. CASE l = 0
            BY <5>2, <3>1
          <5>3. CASE l # 0
            <6>1. had[l] = lines[l] /\ lines[l].state \notin {"open", "running"}
              BY <5>1, <5>3, <2>2, <3>2, <1>6 DEF IsOpen
            <6>2. QED
              BY <6>1, <3>1
          <5>4. QED
            BY <5>2, <5>3
        <4>3. QED
          BY <4>1, <4>2
      <3> HIDE DEF had
      <3>4. QED
        BY <3>1, <3>2, <3>3, <2>2
    <2>5. QED
      BY <2>3, <2>4
  <1>7. QED
    BY <1>5, <1>6
-----------------------------------------------------------------------------
(* The caller's steps and those of line and consumer keep the threads in   *)
(* order.                                                                  *)

LEMMA OpenKeepsThreads ==
  ASSUME Threads, EndsAtTheEnd, Patient, Open
  PROVE  Threads'
  <1>1. /\ TypeOK /\ OneAtATime /\ CallerAndThread /\ TheLine /\ StoppedOrCut
        /\ caller = "idle" /\ ~recording /\ last < MaxRecordings /\ utteranceEndReached
        /\ UNCHANGED <<fields, run, data, env, interrupted>>
    BY DEF Threads, Open
  <1>2. last # 0 => thread[last] = "dead"
    BY <1>1 DEF EndsAtTheEnd, Over
  <1>3. /\ lines' \in Seq(Line)
        /\ audioLine' \in 0 .. Len(lines') /\ stream' \in 0 .. Len(lines')
        /\ \/ UNCHANGED line
           \/ \A l \in DOMAIN lines' : lines'[l].state # "running" /\ lines'[l].buffer = << >>
        /\ audioLine' # 0 /\ lines'[audioLine'].state \in {"open", "running"} =>
              stream' = audioLine'
        /\ caller' = "opened" =>
              audioLine' # 0 /\ lines'[audioLine'].state \in {"open", "running"}
        /\ caller' \in {"opened", "idle"}
    BY <1>1, <1>2, OpenEffect
  <1>4. TypeOK'
    BY <1>1, <1>3 DEF TypeOK, fields, run, data, env
  <1>5. OneAtATime'
    BY <1>1 DEF OneAtATime, fields, run, data, env
  <1>6. CallerAndThread'
    BY <1>1, <1>3 DEF CallerAndThread, fields, run, data, env
  <1>7. TheLine'
    BY <1>1, <1>2, <1>3 DEF TheLine, LeftOpen, line, fields, run, data, env
  <1>8. StoppedOrCut'
    BY <1>1, <1>3 DEF StoppedOrCut, Undisturbed, fields, run, data, env
  <1>9. QED
    BY <1>4, <1>5, <1>6, <1>7, <1>8 DEF Threads

LEMMA StartThreadKeepsThreads ==
  ASSUME Threads, EndsAtTheEnd, StartThread
  PROVE  Threads'
  <1>1. /\ TypeOK /\ OneAtATime /\ CallerAndThread /\ TheLine /\ StoppedOrCut
        /\ caller = "opened" /\ audioLine # 0 /\ last < MaxRecordings
        /\ last # 0 => thread[last] = "dead"
        /\ caller' = "starting" /\ utteranceEndReached' = FALSE
        /\ last' = last + 1 /\ recorder' = last + 1
        /\ thread' = [thread EXCEPT ![last + 1] = "begin"]
        /\ UNCHANGED <<recording, line, started, done, audioList, taken, env, interrupted>>
    BY DEF Threads, StartThread, EndReachedAtStart, CallerAndThread, TheLine, EndsAtTheEnd, Over
  <1>2. last \in Nat /\ last + 1 \in Recordings /\ last + 1 \in 0 .. MaxRecordings
    BY <1>1, MicrophoneAssumption DEF TypeOK, Recordings
  <1>3. /\ thread'[last + 1] = "begin"
        /\ \A t \in Recordings : t # last + 1 => thread'[t] = thread[t]
    BY <1>1, <1>2 DEF TypeOK
  <1>4. thread[last + 1] = "none" /\ captured[last + 1] = 0
    BY <1>1, <1>2 DEF OneAtATime
  <1>5. failed' = failed /\ failed \in 0 .. last /\ failed # last + 1
    BY <1>1, <1>2 DEF CallerAndThread, env
  <1>6. TypeOK'
    BY <1>1, <1>2 DEF TypeOK, line, env, Steps
  <1>7. OneAtATime'
    <2>1. \A t \in Recordings : t < last + 1 => thread'[t] = "dead"
      BY <1>1, <1>2, <1>3, RecordingsAreNat DEF OneAtATime
    <2>2. \A t \in Recordings : t > last + 1 => thread'[t] = "none" /\ captured'[t] = 0
      BY <1>1, <1>2, <1>3, RecordingsAreNat DEF OneAtATime, env
    <2>3. \A t \in Recordings : t # last + 1 \/ (~started[t] /\ ~done[t])
      BY <1>1, <1>4 DEF OneAtATime
    <2>4. QED
      BY <1>1, <1>2, <1>3, <1>4, <2>1, <2>2, <2>3 DEF OneAtATime, env
  <1>8. CallerAndThread'
    BY <1>1, <1>2, <1>5 DEF CallerAndThread, env
  <1>9. TheLine'
    BY <1>1, <1>2, <1>3, <1>5 DEF TheLine, LeftOpen, line, env
  <1>10. StoppedOrCut'
    BY <1>1, <1>2, <1>3 DEF StoppedOrCut, Undisturbed, line, env
  <1>11. QED
    BY <1>6, <1>7, <1>8, <1>9, <1>10 DEF Threads

LEMMA StartReturnsKeepsThreads ==
  ASSUME Threads, EndsAtTheEnd, StartReturns
  PROVE  Threads'
  <1>1. /\ TypeOK /\ OneAtATime /\ CallerAndThread /\ TheLine /\ StoppedOrCut
        /\ caller = "starting" /\ recorder = last /\ last # 0
        /\ recording' = TRUE /\ caller' = "idle" /\ interrupted' \in BOOLEAN
        /\ UNCHANGED <<recorder, last, line, run, data, env>>
    BY DEF Threads, StartReturns, WaitEnds, CallerAndThread, TypeOK
  <1>2. TypeOK'
    BY <1>1 DEF TypeOK, fields, line, run, data, env
  <1>3. OneAtATime'
    BY <1>1 DEF OneAtATime, fields, line, run, data, env
  <1>4. CallerAndThread'
    BY <1>1 DEF CallerAndThread, fields, line, run, data, env
  <1>5. TheLine'
    BY <1>1 DEF TheLine, LeftOpen, fields, line, run, data, env
  <1>6. StoppedOrCut'
    BY <1>1 DEF StoppedOrCut, Undisturbed, fields, line, run, data, env
  <1>7. QED
    BY <1>2, <1>3, <1>4, <1>5, <1>6 DEF Threads

LEMMA StopRecordingKeepsThreads ==
  ASSUME Threads, EndsAtTheEnd, StopRecording
  PROVE  Threads'
  <1>1. /\ TypeOK /\ OneAtATime /\ CallerAndThread /\ TheLine /\ StoppedOrCut
        /\ caller = "idle" /\ recording /\ caller' = "stopping"
        /\ UNCHANGED <<fields, line, run, data, env, interrupted>>
    BY DEF Threads, StopRecording
  <1>2. TypeOK'
    BY <1>1 DEF TypeOK, fields, line, run, data, env
  <1>3. OneAtATime'
    BY <1>1 DEF OneAtATime, fields, line, run, data, env
  <1>4. CallerAndThread'
    BY <1>1 DEF CallerAndThread, fields, line, run, data, env
  <1>5. TheLine'
    BY <1>1 DEF TheLine, LeftOpen, fields, line, run, data, env
  <1>6. StoppedOrCut'
    BY <1>1 DEF StoppedOrCut, Undisturbed, fields, line, run, data, env
  <1>7. QED
    BY <1>2, <1>3, <1>4, <1>5, <1>6 DEF Threads

LEMMA StopReturnsKeepsThreads ==
  ASSUME Threads, EndsAtTheEnd, StopReturns
  PROVE  Threads'
  <1>1. /\ TypeOK /\ OneAtATime /\ CallerAndThread /\ TheLine /\ StoppedOrCut
        /\ caller = "waiting" /\ recorder = last
        /\ recorder' = 0 /\ recording' = FALSE /\ caller' = "idle" /\ interrupted' \in BOOLEAN
        /\ UNCHANGED <<last, line, run, data, env>>
    BY DEF Threads, StopReturns, WaitEnds, CallerAndThread, TypeOK
  <1>2. 0 \in 0 .. MaxRecordings
    BY MicrophoneAssumption
  <1>3. TypeOK'
    BY <1>1, <1>2 DEF TypeOK, fields, line, run, data, env
  <1>4. OneAtATime'
    BY <1>1, <1>2 DEF OneAtATime, fields, line, run, data, env
  <1>5. CallerAndThread'
    BY <1>1, <1>2 DEF CallerAndThread, fields, line, run, data, env
  <1>6. TheLine'
    BY <1>1, <1>2 DEF TheLine, LeftOpen, fields, line, run, data, env
  <1>7. StoppedOrCut'
    BY <1>1, <1>2 DEF StoppedOrCut, Undisturbed, fields, line, run, data, env
  <1>8. QED
    BY <1>3, <1>4, <1>5, <1>6, <1>7 DEF Threads

LEMMA InterruptCallerKeepsThreads ==
  ASSUME Threads, InterruptCaller
  PROVE  Threads'
  <1>1. /\ TypeOK /\ OneAtATime /\ CallerAndThread /\ TheLine /\ StoppedOrCut
        /\ interrupted' = TRUE
        /\ UNCHANGED <<fields, caller, line, run, data, env>>
    BY DEF Threads, InterruptCaller
  <1>2. TypeOK'
    BY <1>1 DEF TypeOK, fields, line, run, data, env
  <1>3. OneAtATime' /\ CallerAndThread' /\ TheLine' /\ StoppedOrCut'
    BY <1>1 DEF OneAtATime, CallerAndThread, TheLine, LeftOpen, StoppedOrCut, Undisturbed,
         fields, line, run, data, env
  <1>4. QED
    BY <1>2, <1>3 DEF Threads

LEMMA GetDataKeepsThreads ==
  ASSUME Threads, EndsAtTheEnd, GetData
  PROVE  Threads'
  <1>1. /\ TypeOK /\ OneAtATime /\ CallerAndThread /\ TheLine /\ StoppedOrCut
        /\ ~utteranceEndReached /\ audioList # << >> /\ audioList \in Seq(Datum)
        /\ audioList' = Tail(audioList) /\ taken' = Append(taken, Head(audioList))
        /\ utteranceEndReached' \in BOOLEAN
        /\ UNCHANGED <<caller, fields, line, run, env, interrupted>>
    BY DEF Threads, GetData, TypeOK
  <1>2. Head(audioList) \in Datum /\ Tail(audioList) \in Seq(Datum)
    BY <1>1
  <1>3. TypeOK'
    BY <1>1, <1>2 DEF TypeOK, fields, line, run, data, env
  <1>4. OneAtATime'
    BY <1>1, <1>2 DEF OneAtATime, fields, line, run, data, env
  <1>5. CallerAndThread'
    BY <1>1, <1>2 DEF CallerAndThread, fields, line, run, data, env
  <1>6. TheLine'
    BY <1>1, <1>2 DEF TheLine, LeftOpen, fields, line, run, data, env
  <1>7. StoppedOrCut'
    BY <1>1, <1>2 DEF StoppedOrCut, Undisturbed, fields, line, run, data, env
  <1>8. QED
    BY <1>3, <1>4, <1>5, <1>6, <1>7 DEF Threads

LEMMA StopLineKeepsThreads ==
  ASSUME Threads, EndsAtTheEnd, StopLine
  PROVE  Threads'
  <1>1. /\ TypeOK /\ OneAtATime /\ CallerAndThread /\ TheLine /\ StoppedOrCut
        /\ caller = "stopping"
        /\ UNCHANGED <<fields, audioLine, stream, run, data, env, interrupted>>
    BY DEF Threads, StopLine
  <1>2. /\ \A k \in DOMAIN lines : lines[k] \in Line
        /\ DOMAIN lines = 1 .. Len(lines) /\ Len(lines) \in Nat /\ lines \in Seq(Line)
    BY <1>1 DEF TypeOK
  <1>3. CASE audioLine = 0
    <2>1. caller' = "dead" /\ lines' = lines /\ cut
      BY <1>1, <1>3 DEF StopLine, StoppedOrCut, Undisturbed
    <2>2. TypeOK'
      BY <1>1, <2>1 DEF TypeOK, fields, line, run, data, env
    <2>3. OneAtATime'
      BY <1>1, <2>1 DEF OneAtATime, fields, line, run, data, env
    <2>4. CallerAndThread'
      BY <1>1, <2>1 DEF CallerAndThread, fields, line, run, data, env
    <2>5. TheLine'
      BY <1>1, <2>1 DEF TheLine, LeftOpen, fields, line, run, data, env
    <2>6. StoppedOrCut'
      BY <1>1, <2>1 DEF StoppedOrCut, Undisturbed, fields, line, run, data, env
    <2>7. QED
      BY <2>2, <2>3, <2>4, <2>5, <2>6 DEF Threads
  <1>4. CASE audioLine # 0
    <2> DEFINE b == StoppedByCaller(lines[audioLine])
    <2>1. caller' = "waiting" /\ lines' = [lines EXCEPT ![audioLine] = b]
      BY <1>1, <1>4 DEF StopLine
    <2>2. audioLine \in DOMAIN lines
      BY <1>1, <1>2, <1>4 DEF TypeOK
    <2>3. /\ b \in Line /\ b.buffer = lines[audioLine].buffer
          /\ b.state = IF lines[audioLine].state = "running" THEN "open"
                       ELSE lines[audioLine].state
      BY <1>2, <2>2, StoppedLine
    <2> HIDE DEF b
    <2>4. /\ lines' \in Seq(Line) /\ Len(lines') = Len(lines) /\ lines'[audioLine] = b
          /\ DOMAIN lines' = DOMAIN lines
          /\ \A k \in DOMAIN lines : k # audioLine => lines'[k] = lines[k]
      BY <1>2, <2>1, <2>2, <2>3, OneLine
    <2>5. TypeOK'
      BY <1>1, <2>1, <2>2, <2>3, <2>4 DEF TypeOK, fields, line, run, data, env
    <2>6. OneAtATime'
      BY <1>1, <2>1, <2>2, <2>3, <2>4 DEF OneAtATime, fields, line, run, data, env
    <2>7. CallerAndThread'
      BY <1>1, <2>1, <2>2, <2>3, <2>4 DEF CallerAndThread, fields, line, run, data, env
    <2>8. TheLine'
      BY <1>1, <2>1, <2>2, <2>3, <2>4 DEF TheLine, LeftOpen, fields, line, run, data, env
    <2>9. StoppedOrCut'
      BY <1>1, <2>1, <2>2, <2>3, <2>4 DEF StoppedOrCut, Undisturbed, fields, line, run, data, env
    <2>10. QED
      BY <2>5, <2>6, <2>7, <2>8, <2>9 DEF Threads
  <1>5. QED
    BY <1>3, <1>4

LEMMA CaptureKeepsThreads ==
  ASSUME Threads, EndsAtTheEnd, Capture
  PROVE  Threads'
  <1>1. /\ TypeOK /\ OneAtATime /\ CallerAndThread /\ TheLine /\ StoppedOrCut
        /\ UNCHANGED <<caller, fields, audioLine, stream, run, data>>
        /\ UNCHANGED <<closeBetweenUtterances, cut, failed, interrupted>>
    BY DEF Threads, Capture
  <1>2. /\ \A k \in DOMAIN lines : lines[k] \in Line
        /\ DOMAIN lines = 1 .. Len(lines) /\ Len(lines) \in Nat /\ lines \in Seq(Line)
    BY <1>1 DEF TypeOK
  <1>3. PICK l \in DOMAIN lines :
          /\ lines[l].state = "running" /\ captured[last] < MaxChunks
          /\ captured' = [captured EXCEPT ![last] = @ + 1]
          /\ lines' = [lines EXCEPT ![l].buffer = Append(@, Chunk(last, captured'[last]))]
    BY DEF Capture
  <1>4. /\ l = stream /\ last # 0 /\ (thread[last] = "read" \/ LeftOpen(l))
        /\ last \in Recordings
    BY <1>1, <1>3 DEF TheLine, TypeOK, Recordings
  <1>5. /\ captured' \in [Recordings -> Nat] /\ captured'[last] = captured[last] + 1
        /\ \A t \in Recordings : t # last => captured'[t] = captured[t]
    BY <1>1, <1>3, <1>4 DEF TypeOK
  <1> DEFINE b == [lines[l] EXCEPT !.buffer = Append(@, Chunk(last, captured'[last]))]
  <1>6. b \in Line /\ b.state = "running"
    <2>1. captured'[last] \in Nat /\ last \in Nat
      BY <1>4, <1>5, RecordingsAreNat
    <2>2. Append(lines[l].buffer, Chunk(last, captured'[last])) \in Seq(Chunks)
      BY <1>2, <1>3, <2>1, LineParts, Data
    <2>3. QED
      BY <1>2, <1>3, <2>2, BufferOfLine
  <1>7. lines' = [lines EXCEPT ![l] = b]
    BY <1>3
  <1> HIDE DEF b
  <1>8. /\ lines' \in Seq(Line) /\ Len(lines') = Len(lines) /\ lines'[l] = b
        /\ DOMAIN lines' = DOMAIN lines
        /\ \A k \in DOMAIN lines : k # l => lines'[k] = lines[k]
    <2>1. l \in 1 .. Len(lines)
      BY <1>2, <1>3
    <2>2. QED
      BY <1>2, <1>6, <1>7, <2>1, OneLine
  <1>9. TypeOK'
    BY <1>1, <1>5, <1>8 DEF TypeOK, fields, line, run, data, env
  <1>10. OneAtATime'
    <2>1. failed = 0 => thread[last] \notin {"begin", "start"}
      BY <1>1, <1>4 DEF LeftOpen
    <2>2. \A t \in Recordings : t > last => t # last
      BY <1>4, RecordingsAreNat
    <2>3. QED
      BY <1>1, <1>5, <2>1, <2>2 DEF OneAtATime, fields, line, run, data, env
  <1>11. CallerAndThread'
    BY <1>1 DEF CallerAndThread, fields, line, run, data, env
  <1>12. TheLine'
    BY <1>1, <1>3, <1>4, <1>6, <1>8 DEF TheLine, LeftOpen, fields, line, run, data, env
  <1>13. StoppedOrCut'
    BY <1>1, <1>3, <1>4, <1>6, <1>8 DEF StoppedOrCut, Undisturbed, fields, line, run, data, env
  <1>14. QED
    BY <1>9, <1>10, <1>11, <1>12, <1>13 DEF Threads

LEMMA LineStopsKeepsThreads ==
  ASSUME Threads, EndsAtTheEnd, LineStops
  PROVE  Threads'
  <1>1. /\ TypeOK /\ OneAtATime /\ CallerAndThread /\ TheLine /\ StoppedOrCut
        /\ cut'
        /\ UNCHANGED <<caller, fields, audioLine, stream, run, data>>
        /\ UNCHANGED <<closeBetweenUtterances, captured, failed, interrupted>>
    BY DEF Threads, LineStops
  <1>2. /\ \A k \in DOMAIN lines : lines[k] \in Line
        /\ DOMAIN lines = 1 .. Len(lines) /\ Len(lines) \in Nat /\ lines \in Seq(Line)
    BY <1>1 DEF TypeOK
  <1>3. PICK l \in DOMAIN lines :
          lines[l].state = "running" /\ lines' = [lines EXCEPT ![l].state = "open"]
    BY DEF LineStops
  <1> DEFINE b == [lines[l] EXCEPT !.state = "open"]
  <1>4. b \in Line /\ b.state = "open" /\ b.buffer = lines[l].buffer
    BY <1>2, StateOfLine
  <1>5. lines' = [lines EXCEPT ![l] = b]
    BY <1>3
  <1> HIDE DEF b
  <1>6. /\ lines' \in Seq(Line) /\ Len(lines') = Len(lines) /\ lines'[l] = b
        /\ DOMAIN lines' = DOMAIN lines
        /\ \A k \in DOMAIN lines : k # l => lines'[k] = lines[k]
    BY <1>2, <1>3, <1>4, <1>5, OneLine
  <1>7. cut' = TRUE
    BY DEF LineStops
  <1>8. TypeOK'
    BY <1>1, <1>3, <1>4, <1>6, <1>7 DEF TypeOK, fields, line, run, data, env
  <1>9. OneAtATime'
    BY <1>1, <1>3, <1>4, <1>6, <1>7 DEF OneAtATime, fields, line, run, data, env
  <1>10. CallerAndThread'
    BY <1>1, <1>3, <1>4, <1>6, <1>7 DEF CallerAndThread, fields, line, run, data, env
  <1>11. TheLine'
    BY <1>1, <1>3, <1>4, <1>6, <1>7 DEF TheLine, LeftOpen, fields, line, run, data, env
  <1>12. StoppedOrCut'
    BY <1>1, <1>3, <1>4, <1>6, <1>7 DEF StoppedOrCut, Undisturbed, fields, line, run, data, env
  <1>13. QED
    BY <1>8, <1>9, <1>10, <1>11, <1>12 DEF Threads
-----------------------------------------------------------------------------
(* So do the steps of a recording thread.                                  *)

LEMMA BeginKeepsThreads ==
  ASSUME Threads, EndsAtTheEnd, NEW t \in Recordings, Begin(t)
  PROVE  Threads'
  <1>1. /\ TypeOK /\ OneAtATime /\ CallerAndThread /\ TheLine /\ StoppedOrCut
        /\ thread[t] = "begin"
    BY DEF Threads, Begin
  <1>2. t = last /\ last # 0 /\ last \in Recordings
    BY <1>1, OnlyTheLast
  <1>3. /\ thread' = [thread EXCEPT ![last] = "start"]
        /\ audioList' = Append(audioList, Signal("start", last))
        /\ UNCHANGED <<caller, fields, line, started, done, utteranceEndReached, taken, env, interrupted>>
    BY <1>1, <1>2 DEF Begin, TheLine, After
  <1>4. /\ thread' \in [Recordings -> Steps] /\ thread'[last] = "start"
        /\ \A u \in Recordings : u # last => thread'[u] = thread[u]
    BY <1>1, <1>2, <1>3 DEF TypeOK, Steps
  <1>5. \A u \in Recordings : (u < last \/ u > last) => u # last
    BY <1>2, RecordingsAreNat
  <1>6. audioList' \in Seq(Datum)
    BY <1>1, <1>2, <1>3, RecordingsAreNat, Data DEF TypeOK
  <1>7. TypeOK'
    BY <1>1, <1>2, <1>3, <1>4, <1>5, <1>6 DEF TypeOK, fields, line, run, data, env
  <1>8. OneAtATime'
    BY <1>1, <1>2, <1>3, <1>4, <1>5, <1>6 DEF OneAtATime, fields, line, run, data, env
  <1>9. CallerAndThread'
    BY <1>1, <1>2, <1>3, <1>4, <1>5, <1>6 DEF CallerAndThread, fields, line, run, data, env
  <1>10. TheLine'
    BY <1>1, <1>2, <1>3, <1>4, <1>5, <1>6 DEF TheLine, LeftOpen, fields, line, run, data, env
  <1>11. StoppedOrCut'
    BY <1>1, <1>2, <1>3, <1>4, <1>5, <1>6 DEF StoppedOrCut, Undisturbed, fields, line, run, data, env
  <1>12. QED
    BY <1>7, <1>8, <1>9, <1>10, <1>11 DEF Threads

LEMMA StartLineKeepsThreads ==
  ASSUME Threads, EndsAtTheEnd, NEW t \in Recordings, StartLine(t)
  PROVE  Threads'
  <1>1. /\ TypeOK /\ OneAtATime /\ CallerAndThread /\ TheLine /\ StoppedOrCut
        /\ thread[t] = "start"
    BY DEF Threads, StartLine
  <1>2. t = last /\ last # 0 /\ last \in Recordings
    BY <1>1, OnlyTheLast
  <1>3. /\ thread' = [thread EXCEPT ![last] = "read"]
        /\ audioLine # 0
        /\ UNCHANGED <<caller, fields, audioLine, stream, started, done, data, env, interrupted>>
    BY <1>1, <1>2 DEF StartLine, TheLine, After
  <1>4. /\ thread' \in [Recordings -> Steps] /\ thread'[last] = "read"
        /\ \A u \in Recordings : u # last => thread'[u] = thread[u]
    BY <1>1, <1>2, <1>3 DEF TypeOK, Steps
  <1>5. \A u \in Recordings : (u < last \/ u > last) => u # last
    BY <1>2, RecordingsAreNat
  <1>6. /\ \A k \in DOMAIN lines : lines[k] \in Line
        /\ DOMAIN lines = 1 .. Len(lines) /\ Len(lines) \in Nat /\ lines \in Seq(Line)
    BY <1>1 DEF TypeOK
  <1>7. audioLine \in DOMAIN lines /\ lines[audioLine].state \in {"open", "running"} /\ stream = audioLine
    BY <1>1, <1>2, <1>3, <1>6 DEF TheLine, TypeOK
  <1> DEFINE b == [lines[audioLine] EXCEPT !.state = "running"]
  <1>8. b \in Line /\ b.state = "running" /\ b.buffer = lines[audioLine].buffer
    BY <1>6, <1>7, StateOfLine
  <1>9. lines' = [lines EXCEPT ![audioLine] = b]
    BY <1>3, <1>7 DEF StartLine, IsOpen
  <1> HIDE DEF b
  <1>10. /\ lines' \in Seq(Line) /\ Len(lines') = Len(lines) /\ lines'[audioLine] = b
         /\ DOMAIN lines' = DOMAIN lines
         /\ \A k \in DOMAIN lines : k # audioLine => lines'[k] = lines[k]
    BY <1>6, <1>7, <1>8, <1>9, OneLine
  <1>11. TypeOK'
    BY <1>1, <1>2, <1>3, <1>4, <1>5, <1>7, <1>8, <1>10 DEF TypeOK, fields, line, run, data, env
  <1>12. OneAtATime'
    BY <1>1, <1>2, <1>3, <1>4, <1>5, <1>7, <1>8, <1>10 DEF OneAtATime, fields, line, run, data, env
  <1>13. CallerAndThread'
    BY <1>1, <1>2, <1>3, <1>4, <1>5, <1>7, <1>8, <1>10 DEF CallerAndThread, fields, line, run, data, env
  <1>14. TheLine'
    <2>1. \A l \in DOMAIN lines' :
            lines'[l].state = "running" \/ lines'[l].buffer # << >> =>
                l = stream' /\ last' # 0 /\ (thread'[last'] = "read" \/ LeftOpen(l)')
      BY <1>1, <1>2, <1>3, <1>4, <1>5, <1>7, <1>8, <1>10 DEF TheLine, LeftOpen, fields, line, run, data, env
    <2>2. audioLine' # 0 /\ lines'[audioLine'].state \in {"open", "running"} => stream' = audioLine'
      BY <1>1, <1>2, <1>3, <1>4, <1>5, <1>7, <1>8, <1>10 DEF TheLine, LeftOpen, fields, line, run, data, env
    <2>3. caller' = "opened" =>
               audioLine' # 0 /\ lines'[audioLine'].state \in {"open", "running"}
      <3>1. caller # "opened"
        BY <1>1, <1>2 DEF CallerAndThread, EndsAtTheEnd, Over
      <3>2. QED
        BY <1>3, <3>1
    <2>4. last' # 0 =>
            /\ thread'[last'] \in {"begin", "start", "read", "flush", "close"} =>
                  audioLine' # 0 /\ lines'[audioLine'].state \in {"open", "running"}
            /\ thread'[last'] = "null" => audioLine' # 0
      BY <1>1, <1>2, <1>3, <1>4, <1>5, <1>7, <1>8, <1>10 DEF TheLine, LeftOpen, fields, line, run, data, env
    <2>5. QED
      BY <2>1, <2>2, <2>3, <2>4 DEF TheLine
  <1>15. StoppedOrCut'
    BY <1>1, <1>2, <1>3, <1>4, <1>5, <1>7, <1>8, <1>10 DEF StoppedOrCut, Undisturbed, fields, line, run, data, env
  <1>16. QED
    BY <1>11, <1>12, <1>13, <1>14, <1>15 DEF Threads

LEMMA ReadChunkKeepsThreads ==
  ASSUME Threads, EndsAtTheEnd, NEW t \in Recordings, ReadChunk(t)
  PROVE  Threads'
  <1>1. /\ TypeOK /\ OneAtATime /\ CallerAndThread /\ TheLine /\ StoppedOrCut
        /\ thread[t] = "read"
    BY DEF Threads, ReadChunk
  <1>2. t = last /\ last # 0 /\ last \in Recordings
    BY <1>1, OnlyTheLast
  <1>3. /\ UNCHANGED thread
        /\ lines[stream].buffer # << >>
        /\ audioList' = Append(audioList, Head(lines[stream].buffer))
        /\ lines' = [lines EXCEPT ![stream].buffer = Tail(@)]
        /\ started' = [started EXCEPT ![last] = TRUE]
        /\ UNCHANGED <<caller, fields, audioLine, stream, done, utteranceEndReached, taken, env, interrupted>>
    BY <1>1, <1>2 DEF ReadChunk, TheLine, After
  <1>4. thread'[last] = "read"
    BY <1>1, <1>2, <1>3
  <1>5. \A u \in Recordings : (u < last \/ u > last) => u # last
    BY <1>2, RecordingsAreNat
  <1>6. /\ \A k \in DOMAIN lines : lines[k] \in Line
        /\ DOMAIN lines = 1 .. Len(lines) /\ Len(lines) \in Nat /\ lines \in Seq(Line)
    BY <1>1 DEF TypeOK
  <1>7. stream \in DOMAIN lines /\ stream = audioLine /\ audioLine # 0
    BY <1>1, <1>2, <1>6 DEF TheLine, TypeOK
  <1> DEFINE b == [lines[stream] EXCEPT !.buffer = Tail(@)]
  <1>8. /\ b \in Line /\ b.state = lines[stream].state
        /\ audioList' \in Seq(Datum)
    <2>1. lines[stream].buffer \in Seq(Chunks)
      BY <1>6, <1>7, LineParts
    <2>2. Head(lines[stream].buffer) \in Datum /\ Tail(lines[stream].buffer) \in Seq(Chunks)
      BY <2>1, <1>3, ChunksAreData
    <2>3. audioList' \in Seq(Datum)
      BY <1>1, <1>3, <2>2 DEF TypeOK
    <2>4. QED
      BY <1>6, <1>7, <2>2, <2>3, BufferOfLine
  <1>9. lines' = [lines EXCEPT ![stream] = b]
    BY <1>3
  <1> HIDE DEF b
  <1>10. /\ lines' \in Seq(Line) /\ Len(lines') = Len(lines) /\ lines'[stream] = b
         /\ DOMAIN lines' = DOMAIN lines
         /\ \A k \in DOMAIN lines : k # stream => lines'[k] = lines[k]
    BY <1>6, <1>7, <1>8, <1>9, OneLine
  <1>11. /\ started' \in [Recordings -> BOOLEAN] /\ started'[last]
         /\ \A u \in Recordings : u # last => started'[u] = started[u]
    BY <1>1, <1>2, <1>3 DEF TypeOK
  <1>12. TypeOK'
    BY <1>1, <1>2, <1>3, <1>4, <1>5, <1>7, <1>8, <1>10, <1>11 DEF TypeOK, fields, line, run, data, env
  <1>13. OneAtATime'
    BY <1>1, <1>2, <1>3, <1>4, <1>5, <1>7, <1>8, <1>10, <1>11 DEF OneAtATime, fields, line, run, data, env
  <1>14. CallerAndThread'
    BY <1>1, <1>2, <1>3, <1>4, <1>5, <1>7, <1>8, <1>10, <1>11 DEF CallerAndThread, fields, line, run, data, env
  <1>15. TheLine'
    BY <1>1, <1>2, <1>3, <1>4, <1>5, <1>7, <1>8, <1>10, <1>11 DEF TheLine, LeftOpen, fields, line, run, data, env
  <1>16. StoppedOrCut'
    BY <1>1, <1>2, <1>3, <1>4, <1>5, <1>7, <1>8, <1>10, <1>11 DEF StoppedOrCut, Undisturbed, fields, line, run, data, env
  <1>17. QED
    BY <1>12, <1>13, <1>14, <1>15, <1>16 DEF Threads

LEMMA ReadNullKeepsThreads ==
  ASSUME Threads, EndsAtTheEnd, NEW t \in Recordings, ReadNull(t)
  PROVE  Threads'
  <1>1. /\ TypeOK /\ OneAtATime /\ CallerAndThread /\ TheLine /\ StoppedOrCut
        /\ thread[t] = "read"
    BY DEF Threads, ReadNull, StartedByNull
  <1>2. t = last /\ last # 0 /\ last \in Recordings
    BY <1>1, OnlyTheLast
  <1>3. /\ thread' = [thread EXCEPT ![last] = "flush"]
        /\ lines[stream].buffer = << >> /\ lines[stream].state # "running"
        /\ started' = [started EXCEPT ![last] = TRUE]
        /\ done' = [done EXCEPT ![last] = TRUE]
        /\ UNCHANGED <<caller, fields, line, data, env, interrupted>>
    BY <1>1, <1>2 DEF ReadNull, StartedByNull, TheLine, After
  <1>4. /\ thread' \in [Recordings -> Steps] /\ thread'[last] = "flush"
        /\ \A u \in Recordings : u # last => thread'[u] = thread[u]
    BY <1>1, <1>2, <1>3 DEF TypeOK, Steps
  <1>5. \A u \in Recordings : (u < last \/ u > last) => u # last
    BY <1>2, RecordingsAreNat
  <1>6. /\ started' \in [Recordings -> BOOLEAN] /\ started'[last]
        /\ done' \in [Recordings -> BOOLEAN] /\ done'[last]
        /\ \A u \in Recordings : u # last => started'[u] = started[u] /\ done'[u] = done[u]
    BY <1>1, <1>2, <1>3 DEF TypeOK
  <1>7. stream = audioLine /\ (failed = 0 \/ failed # last) /\ DOMAIN lines = 1 .. Len(lines)
    BY <1>1, <1>2 DEF TheLine, CallerAndThread, TypeOK
  <1>8. TypeOK'
    BY <1>1, <1>2, <1>3, <1>4, <1>5, <1>6, <1>7 DEF TypeOK, fields, line, run, data, env
  <1>9. OneAtATime'
    BY <1>1, <1>2, <1>3, <1>4, <1>5, <1>6, <1>7 DEF OneAtATime, fields, line, run, data, env
  <1>10. CallerAndThread'
    BY <1>1, <1>2, <1>3, <1>4, <1>5, <1>6, <1>7 DEF CallerAndThread, fields, line, run, data, env
  <1>11. TheLine'
    BY <1>1, <1>2, <1>3, <1>4, <1>5, <1>6, <1>7 DEF TheLine, LeftOpen, fields, line, run, data, env
  <1>12. StoppedOrCut'
    BY <1>1, <1>2, <1>3, <1>4, <1>5, <1>6, <1>7 DEF StoppedOrCut, Undisturbed, fields, line, run, data, env
  <1>13. QED
    BY <1>8, <1>9, <1>10, <1>11, <1>12 DEF Threads

LEMMA ReadFailsKeepsThreads ==
  ASSUME Threads, EndsAtTheEnd, NEW t \in Recordings, ReadFails(t)
  PROVE  Threads'
  <1>1. /\ TypeOK /\ OneAtATime /\ CallerAndThread /\ TheLine /\ StoppedOrCut
        /\ thread[t] = "read"
    BY DEF Threads, ReadFails
  <1>2. t = last /\ last # 0 /\ last \in Recordings
    BY <1>1, OnlyTheLast
  <1>3. /\ thread' = [thread EXCEPT ![last] = "end"]
        /\ failed' = IF failed = 0 THEN last ELSE failed
        /\ UNCHANGED <<caller, fields, line, started, done, data, closeBetweenUtterances, captured, cut, interrupted>>
    BY <1>1, <1>2 DEF ReadFails, TheLine, After
  <1>4. /\ thread' \in [Recordings -> Steps] /\ thread'[last] = "end"
        /\ \A u \in Recordings : u # last => thread'[u] = thread[u]
    BY <1>1, <1>2, <1>3 DEF TypeOK, Steps
  <1>5. \A u \in Recordings : (u < last \/ u > last) => u # last
    BY <1>2, RecordingsAreNat
  <1>6. TypeOK'
    BY <1>1, <1>2, <1>3, <1>4, <1>5 DEF TypeOK, fields, line, run, data, env
  <1>7. OneAtATime'
    BY <1>1, <1>2, <1>3, <1>4, <1>5 DEF OneAtATime, fields, line, run, data, env
  <1>8. CallerAndThread'
    <2>1. failed' \in 0 .. last
      BY <1>1, <1>2, <1>3, RecordingsAreNat DEF CallerAndThread
    <2>2. QED
      BY <1>1, <1>2, <1>3, <1>4, <2>1 DEF CallerAndThread, fields, line, run, data, env
  <1>9. TheLine'
    BY <1>1, <1>2, <1>3, <1>4, <1>5 DEF TheLine, LeftOpen, fields, line, run, data, env
  <1>10. StoppedOrCut'
    BY <1>1, <1>2, <1>3, <1>4, <1>5 DEF StoppedOrCut, Undisturbed, fields, line, run, data, env
  <1>11. QED
    BY <1>6, <1>7, <1>8, <1>9, <1>10 DEF Threads

LEMMA FlushKeepsThreads ==
  ASSUME Threads, EndsAtTheEnd, NEW t \in Recordings, Flush(t)
  PROVE  Threads'
  <1>1. /\ TypeOK /\ OneAtATime /\ CallerAndThread /\ TheLine /\ StoppedOrCut
        /\ thread[t] = "flush"
    BY DEF Threads, Flush, OnLine
  <1>2. t = last /\ last # 0 /\ last \in Recordings
    BY <1>1, OnlyTheLast
  <1>3. /\ thread' = [thread EXCEPT ![last] = IF closeBetweenUtterances THEN "close" ELSE "end"]
        /\ audioLine # 0
        /\ lines' = [lines EXCEPT ![audioLine] = [lines[audioLine] EXCEPT !.buffer = << >>]]
        /\ UNCHANGED <<caller, fields, audioLine, stream, started, done, data, env, interrupted>>
    BY <1>1, <1>2 DEF Flush, OnLine, TheLine, After
  <1>4. /\ thread' \in [Recordings -> Steps] /\ thread'[last] = IF closeBetweenUtterances THEN "close" ELSE "end"
        /\ \A u \in Recordings : u # last => thread'[u] = thread[u]
    BY <1>1, <1>2, <1>3 DEF TypeOK, Steps
  <1>5. \A u \in Recordings : (u < last \/ u > last) => u # last
    BY <1>2, RecordingsAreNat
  <1>6. /\ \A k \in DOMAIN lines : lines[k] \in Line
        /\ DOMAIN lines = 1 .. Len(lines) /\ Len(lines) \in Nat /\ lines \in Seq(Line)
    BY <1>1 DEF TypeOK
  <1>7. /\ audioLine \in DOMAIN lines /\ lines[audioLine].state \in {"open", "running"}
        /\ stream = audioLine /\ (failed = 0 \/ failed # last)
    BY <1>1, <1>2, <1>3, <1>6 DEF TheLine, TypeOK, CallerAndThread
  <1> DEFINE b == [lines[audioLine] EXCEPT !.buffer = << >>]
  <1>8. b \in Line /\ b.state = lines[audioLine].state /\ b.buffer = << >>
    BY <1>6, <1>7, EmptyIsSeq, BufferOfLine
  <1>9. lines' = [lines EXCEPT ![audioLine] = b]
    BY <1>3
  <1> HIDE DEF b
  <1>10. /\ lines' \in Seq(Line) /\ Len(lines') = Len(lines) /\ lines'[audioLine] = b
         /\ DOMAIN lines' = DOMAIN lines
         /\ \A k \in DOMAIN lines : k # audioLine => lines'[k] = lines[k]
    BY <1>6, <1>7, <1>8, <1>9, OneLine
  <1>11. TypeOK'
    BY <1>1, <1>2, <1>3, <1>4, <1>5, <1>7, <1>8, <1>10 DEF TypeOK, fields, line, run, data, env
  <1>12. OneAtATime'
    BY <1>1, <1>2, <1>3, <1>4, <1>5, <1>7, <1>8, <1>10 DEF OneAtATime, fields, line, run, data, env
  <1>13. CallerAndThread'
    BY <1>1, <1>2, <1>3, <1>4, <1>5, <1>7, <1>8, <1>10 DEF CallerAndThread, fields, line, run, data, env
  <1>14. TheLine'
    BY <1>1, <1>2, <1>3, <1>4, <1>5, <1>7, <1>8, <1>10 DEF TheLine, LeftOpen, fields, line, run, data, env
  <1>15. StoppedOrCut'
    BY <1>1, <1>2, <1>3, <1>4, <1>5, <1>7, <1>8, <1>10 DEF StoppedOrCut, Undisturbed, fields, line, run, data, env
  <1>16. QED
    BY <1>11, <1>12, <1>13, <1>14, <1>15 DEF Threads

LEMMA CloseKeepsThreads ==
  ASSUME Threads, EndsAtTheEnd, NEW t \in Recordings, Close(t)
  PROVE  Threads'
  <1>1. /\ TypeOK /\ OneAtATime /\ CallerAndThread /\ TheLine /\ StoppedOrCut
        /\ thread[t] = "close"
    BY DEF Threads, Close, OnLine
  <1>2. t = last /\ last # 0 /\ last \in Recordings
    BY <1>1, OnlyTheLast
  <1>3. /\ thread' = [thread EXCEPT ![last] = "null"]
        /\ audioLine # 0
        /\ lines' = [lines EXCEPT ![audioLine] = [state |-> "closed", buffer |-> << >>]]
        /\ UNCHANGED <<caller, fields, audioLine, stream, started, done, data, env, interrupted>>
    BY <1>1, <1>2 DEF Close, OnLine, TheLine, After
  <1>4. /\ thread' \in [Recordings -> Steps] /\ thread'[last] = "null"
        /\ \A u \in Recordings : u # last => thread'[u] = thread[u]
    BY <1>1, <1>2, <1>3 DEF TypeOK, Steps
  <1>5. \A u \in Recordings : (u < last \/ u > last) => u # last
    BY <1>2, RecordingsAreNat
  <1>6. /\ \A k \in DOMAIN lines : lines[k] \in Line
        /\ DOMAIN lines = 1 .. Len(lines) /\ Len(lines) \in Nat /\ lines \in Seq(Line)
    BY <1>1 DEF TypeOK
  <1>7. audioLine \in DOMAIN lines /\ (failed = 0 \/ failed # last)
    BY <1>1, <1>2, <1>3, <1>6 DEF TheLine, TypeOK, CallerAndThread
  <1> DEFINE b == [state |-> "closed", buffer |-> << >>]
  <1>8. b \in Line /\ b.state = "closed" /\ b.buffer = << >>
    BY EmptyIsSeq DEF Line
  <1>9. lines' = [lines EXCEPT ![audioLine] = b]
    BY <1>3
  <1> HIDE DEF b
  <1>10. /\ lines' \in Seq(Line) /\ Len(lines') = Len(lines) /\ lines'[audioLine] = b
         /\ DOMAIN lines' = DOMAIN lines
         /\ \A k \in DOMAIN lines : k # audioLine => lines'[k] = lines[k]
    BY <1>6, <1>7, <1>8, <1>9, OneLine
  <1>11. TypeOK'
    BY <1>1, <1>2, <1>3, <1>4, <1>5, <1>7, <1>8, <1>10 DEF TypeOK, fields, line, run, data, env
  <1>12. OneAtATime'
    BY <1>1, <1>2, <1>3, <1>4, <1>5, <1>7, <1>8, <1>10 DEF OneAtATime, fields, line, run, data, env
  <1>13. CallerAndThread'
    BY <1>1, <1>2, <1>3, <1>4, <1>5, <1>7, <1>8, <1>10 DEF CallerAndThread, fields, line, run, data, env
  <1>14. TheLine'
    <2>1. \A l \in DOMAIN lines' :
            lines'[l].state = "running" \/ lines'[l].buffer # << >> =>
                l = stream' /\ last' # 0 /\ (thread'[last'] = "read" \/ LeftOpen(l)')
      BY <1>1, <1>2, <1>3, <1>4, <1>5, <1>7, <1>8, <1>10 DEF TheLine, LeftOpen, fields, line, run, data, env
    <2>2. audioLine' # 0 /\ lines'[audioLine'].state \in {"open", "running"} => stream' = audioLine'
      BY <1>1, <1>2, <1>3, <1>4, <1>5, <1>7, <1>8, <1>10 DEF TheLine, LeftOpen, fields, line, run, data, env
    <2>3. caller' = "opened" =>
               audioLine' # 0 /\ lines'[audioLine'].state \in {"open", "running"}
      <3>1. caller # "opened"
        BY <1>1, <1>2 DEF CallerAndThread, EndsAtTheEnd, Over
      <3>2. QED
        BY <1>3, <3>1
    <2>4. last' # 0 =>
            /\ thread'[last'] \in {"begin", "start", "read", "flush", "close"} =>
                  audioLine' # 0 /\ lines'[audioLine'].state \in {"open", "running"}
            /\ thread'[last'] = "null" => audioLine' # 0
      BY <1>1, <1>2, <1>3, <1>4, <1>5, <1>7, <1>8, <1>10 DEF TheLine, LeftOpen, fields, line, run, data, env
    <2>5. QED
      BY <2>1, <2>2, <2>3, <2>4 DEF TheLine
  <1>15. StoppedOrCut'
    BY <1>1, <1>2, <1>3, <1>4, <1>5, <1>7, <1>8, <1>10 DEF StoppedOrCut, Undisturbed, fields, line, run, data, env
  <1>16. QED
    BY <1>11, <1>12, <1>13, <1>14, <1>15 DEF Threads

LEMMA SetToNullKeepsThreads ==
  ASSUME Threads, EndsAtTheEnd, NEW t \in Recordings, SetToNull(t)
  PROVE  Threads'
  <1>1. /\ TypeOK /\ OneAtATime /\ CallerAndThread /\ TheLine /\ StoppedOrCut
        /\ thread[t] = "null"
    BY DEF Threads, SetToNull
  <1>2. t = last /\ last # 0 /\ last \in Recordings
    BY <1>1, OnlyTheLast
  <1>3. /\ thread' = [thread EXCEPT ![last] = "end"]
        /\ audioLine' = 0
        /\ UNCHANGED <<caller, fields, stream, lines, started, done, data, env, interrupted>>
    BY <1>1, <1>2 DEF SetToNull, TheLine, After
  <1>4. /\ thread' \in [Recordings -> Steps] /\ thread'[last] = "end"
        /\ \A u \in Recordings : u # last => thread'[u] = thread[u]
    BY <1>1, <1>2, <1>3 DEF TypeOK, Steps
  <1>5. \A u \in Recordings : (u < last \/ u > last) => u # last
    BY <1>2, RecordingsAreNat
  <1>6. (failed = 0 \/ failed # last) /\ Len(lines) \in Nat
    BY <1>1, <1>2 DEF CallerAndThread, TypeOK
  <1>7. TypeOK'
    BY <1>1, <1>2, <1>3, <1>4, <1>5, <1>6 DEF TypeOK, fields, line, run, data, env
  <1>8. OneAtATime'
    BY <1>1, <1>2, <1>3, <1>4, <1>5, <1>6 DEF OneAtATime, fields, line, run, data, env
  <1>9. CallerAndThread'
    BY <1>1, <1>2, <1>3, <1>4, <1>5, <1>6 DEF CallerAndThread, fields, line, run, data, env
  <1>10. TheLine'
    <2>1. \A l \in DOMAIN lines' :
            lines'[l].state = "running" \/ lines'[l].buffer # << >> =>
                l = stream' /\ last' # 0 /\ (thread'[last'] = "read" \/ LeftOpen(l)')
      BY <1>1, <1>2, <1>3, <1>4, <1>5, <1>6 DEF TheLine, LeftOpen, fields, line, run, data, env
    <2>2. audioLine' # 0 /\ lines'[audioLine'].state \in {"open", "running"} => stream' = audioLine'
      BY <1>1, <1>2, <1>3, <1>4, <1>5, <1>6 DEF TheLine, LeftOpen, fields, line, run, data, env
    <2>3. caller' = "opened" =>
               audioLine' # 0 /\ lines'[audioLine'].state \in {"open", "running"}
      <3>1. caller # "opened"
        BY <1>1, <1>2 DEF CallerAndThread, EndsAtTheEnd, Over
      <3>2. QED
        BY <1>3, <3>1
    <2>4. last' # 0 =>
            /\ thread'[last'] \in {"begin", "start", "read", "flush", "close"} =>
                  audioLine' # 0 /\ lines'[audioLine'].state \in {"open", "running"}
            /\ thread'[last'] = "null" => audioLine' # 0
      BY <1>1, <1>2, <1>3, <1>4, <1>5, <1>6 DEF TheLine, LeftOpen, fields, line, run, data, env
    <2>5. QED
      BY <2>1, <2>2, <2>3, <2>4 DEF TheLine
  <1>11. StoppedOrCut'
    BY <1>1, <1>2, <1>3, <1>4, <1>5, <1>6 DEF StoppedOrCut, Undisturbed, fields, line, run, data, env
  <1>12. QED
    BY <1>7, <1>8, <1>9, <1>10, <1>11 DEF Threads

LEMMA EndKeepsThreads ==
  ASSUME Threads, EndsAtTheEnd, NEW t \in Recordings, End(t)
  PROVE  Threads'
  <1>1. /\ TypeOK /\ OneAtATime /\ CallerAndThread /\ TheLine /\ StoppedOrCut
        /\ thread[t] = "end"
    BY DEF Threads, End
  <1>2. t = last /\ last # 0 /\ last \in Recordings
    BY <1>1, OnlyTheLast
  <1>3. /\ thread' = [thread EXCEPT ![last] = "dead"]
        /\ audioList' = Append(audioList, Signal("end", last))
        /\ UNCHANGED <<caller, fields, line, started, done, utteranceEndReached, taken, env, interrupted>>
    BY <1>1, <1>2 DEF End, TheLine, After
  <1>4. /\ thread' \in [Recordings -> Steps] /\ thread'[last] = "dead"
        /\ \A u \in Recordings : u # last => thread'[u] = thread[u]
    BY <1>1, <1>2, <1>3 DEF TypeOK, Steps
  <1>5. \A u \in Recordings : (u < last \/ u > last) => u # last
    BY <1>2, RecordingsAreNat
  <1>6. audioList' \in Seq(Datum)
    BY <1>1, <1>2, <1>3, RecordingsAreNat, Data DEF TypeOK
  <1>7. TypeOK'
    BY <1>1, <1>2, <1>3, <1>4, <1>5, <1>6 DEF TypeOK, fields, line, run, data, env
  <1>8. OneAtATime'
    BY <1>1, <1>2, <1>3, <1>4, <1>5, <1>6 DEF OneAtATime, fields, line, run, data, env
  <1>9. CallerAndThread'
    BY <1>1, <1>2, <1>3, <1>4, <1>5, <1>6 DEF CallerAndThread, fields, line, run, data, env
  <1>10. TheLine'
    BY <1>1, <1>2, <1>3, <1>4, <1>5, <1>6 DEF TheLine, LeftOpen, fields, line, run, data, env
  <1>11. StoppedOrCut'
    BY <1>1, <1>2, <1>3, <1>4, <1>5, <1>6 DEF StoppedOrCut, Undisturbed, fields, line, run, data, env
  <1>12. QED
    BY <1>7, <1>8, <1>9, <1>10, <1>11 DEF Threads
-----------------------------------------------------------------------------
(* What is put, in its order.                                              *)

(* What WholeUtterances asks of a datum after the one before it.           *)
Follows(before, d) ==
  CASE d.kind = "start" -> before = Signal("end", d.thread - 1)
    [] d.kind = "data" -> before = IF d.n = 1 THEN Signal("start", d.thread)
                                   ELSE Chunk(d.thread, d.n - 1)
    [] d.kind = "end" -> /\ before.kind # "end" /\ before.thread = d.thread
                         /\ before.n = captured[d.thread] \/ failed # 0

Before(i) == IF i = 1 THEN Signal("end", 0) ELSE Put[i - 1]

Whole == \A i \in DOMAIN Put : Follows(Before(i), Put[i])

LEMMA WholeMeansFollows ==
  WholeUtterances <=> (Clean => Whole)
  BY DEF WholeUtterances, Whole, Follows, Before, Clean

LEMMA WholeMeansFollowsPrimed ==
  WholeUtterances' <=> (Clean' => Whole')
  BY WholeMeansFollows, PTL

LEMMA PutIsSeq ==
  ASSUME TypeOK
  PROVE  /\ Put \in Seq(Datum) /\ Len(Put) \in Nat /\ DOMAIN Put = 1 .. Len(Put)
         /\ \A i \in 1 .. Len(Put) : Put[i] \in Datum
         /\ Put = << >> <=> Len(Put) = 0
         /\ LastPut \in Datum
  <1>1. Put \in Seq(Datum)
    BY DEF TypeOK, Put
  <1>2. Len(Put) \in Nat /\ DOMAIN Put = 1 .. Len(Put) /\ (Put = << >> <=> Len(Put) = 0)
    BY <1>1
  <1>3. \A i \in 1 .. Len(Put) : Put[i] \in Datum
    BY <1>1, <1>2
  <1>4. LastPut \in Datum
    BY <1>2, <1>3, Data DEF LastPut
  <1>5. QED
    BY <1>1, <1>2, <1>3, <1>4

LEMMA AppendToRest ==
  ASSUME NEW S, NEW s \in Seq(S), NEW r \in Seq(S), NEW d \in S
  PROVE  s \o Append(r, d) = Append(s \o r, d)
  OBVIOUS

LEMMA HeadMoves ==
  ASSUME NEW S, NEW s \in Seq(S), NEW r \in Seq(S), r # << >>
  PROVE  Append(s, Head(r)) \o Tail(r) = s \o r
  <1>1. Len(r) \in Nat \ {0} /\ Head(r) = r[1] /\ Tail(r) \in Seq(S) /\ Len(Tail(r)) = Len(r) - 1
    OBVIOUS
  <1>2. Append(s, Head(r)) \in Seq(S) /\ Len(Append(s, Head(r))) = Len(s) + 1
    BY <1>1
  <1>3. /\ Append(s, Head(r)) \o Tail(r) \in Seq(S) /\ s \o r \in Seq(S)
        /\ Len(Append(s, Head(r)) \o Tail(r)) = Len(s \o r)
    BY <1>1, <1>2
  <1>4. \A i \in 1 .. Len(s \o r) : (Append(s, Head(r)) \o Tail(r))[i] = (s \o r)[i]
    BY <1>1, <1>2
  <1>5. QED
    BY <1>3, <1>4

(* A datum that is put comes last.                                         *)
LEMMA PutGrows ==
  ASSUME TypeOK, NEW d \in Datum, audioList' = Append(audioList, d), taken' = taken
  PROVE  /\ Put' \in Seq(Datum) /\ Len(Put') = Len(Put) + 1 /\ DOMAIN Put' = 1 .. Len(Put) + 1
         /\ Put'[Len(Put) + 1] = d
         /\ \A i \in 1 .. Len(Put) : Put'[i] = Put[i]
         /\ LastPut' = d
  <1>1. Put' = Append(Put, d)
    BY AppendToRest DEF Put, TypeOK
  <1>2. Put \in Seq(Datum) /\ Len(Put) \in Nat
    BY PutIsSeq
  <1>3. /\ Put' \in Seq(Datum) /\ Len(Put') = Len(Put) + 1 /\ DOMAIN Put' = 1 .. Len(Put) + 1
        /\ Put'[Len(Put) + 1] = d
        /\ \A i \in 1 .. Len(Put) : Put'[i] = Put[i]
    BY <1>1, <1>2
  <1>4. Put' # << >>
    BY <1>2, <1>3
  <1>5. LastPut' = d
    BY <1>3, <1>4 DEF LastPut
  <1>6. QED
    BY <1>3, <1>5

(* What follows the one before it may be put.                              *)
LEMMA FollowingIsWhole ==
  ASSUME TypeOK, Whole, NEW d \in Datum, Follows(LastPut, d),
         audioList' = Append(audioList, d), taken' = taken,
         captured' = captured, failed' = failed
  PROVE  Whole'
  <1>1. /\ Len(Put') = Len(Put) + 1 /\ DOMAIN Put' = 1 .. Len(Put) + 1
        /\ Put'[Len(Put) + 1] = d
        /\ \A i \in 1 .. Len(Put) : Put'[i] = Put[i]
    BY PutGrows
  <1>2. Len(Put) \in Nat /\ DOMAIN Put = 1 .. Len(Put) /\ (Put = << >> <=> Len(Put) = 0)
    BY PutIsSeq
  <1>3. SUFFICES ASSUME NEW i \in 1 .. Len(Put) + 1
                 PROVE  Follows(Before(i), Put[i])'
    BY <1>1 DEF Whole
  <1>4. CASE i \in 1 .. Len(Put)
    <2>1. Before(i)' = Before(i)
      <3>1. CASE i = 1
        BY <3>1 DEF Before
      <3>2. CASE i # 1
        <4>1. i - 1 \in 1 .. Len(Put)
          BY <1>4, <3>2, <1>2
        <4>2. QED
          BY <4>1, <3>2, <1>1 DEF Before
      <3>3. QED
        BY <3>1, <3>2
    <2>2. Follows(Before(i), Put[i])
      BY <1>2, <1>4 DEF Whole
    <2>3. Put'[i] = Put[i]
      BY <1>1, <1>4
    <2>4. QED
      BY <2>1, <2>2, <2>3 DEF Follows
  <1>5. CASE i = Len(Put) + 1
    <2>1. Before(i)' = LastPut
      <3>1. CASE Len(Put) = 0
        BY <3>1, <1>2, <1>5 DEF Before, LastPut
      <3>2. CASE Len(Put) # 0
        <4>1. Len(Put) \in 1 .. Len(Put) /\ i # 1 /\ i - 1 = Len(Put)
          BY <1>2, <1>5, <3>2
        <4>2. QED
          BY <4>1, <3>2, <1>1, <1>2 DEF Before, LastPut
      <3>3. QED
        BY <3>1, <3>2
    <2>2. QED
      BY <2>1, <1>1, <1>5 DEF Follows
  <1>6. QED
    BY <1>2, <1>4, <1>5

(* What was put stays whole while nothing is captured for an utterance     *)
(* that has ended.                                                         *)
LEMMA StaysWhole ==
  ASSUME TypeOK, Whole, Put' = Put, failed # 0 => failed' # 0,
         \A i \in DOMAIN Put : Put[i].kind = "end" =>
            captured'[Put[i].thread] = captured[Put[i].thread] \/ failed' # 0
  PROVE  Whole'
  <1>1. SUFFICES ASSUME NEW i \in DOMAIN Put
                 PROVE  Follows(Before(i), Put[i])'
    BY DEF Whole
  <1>2. Follows(Before(i), Put[i])
    BY DEF Whole
  <1>3. Before(i)' = Before(i) /\ Put'[i] = Put[i]
    BY DEF Before
  <1>4. Put[i].kind \in {"start", "data", "end"}
    BY PutIsSeq DEF Datum
  <1>5. CASE Put[i].kind = "end"
    BY <1>2, <1>3, <1>5 DEF Follows
  <1>6. CASE Put[i].kind # "end"
    BY <1>2, <1>3, <1>4, <1>6 DEF Follows
  <1>7. QED
    BY <1>5, <1>6
-----------------------------------------------------------------------------
(* Every step keeps what was put in order.                                 *)

Order == WhereItIs /\ EndsAtTheEnd /\ WholeUtterances

(* What is put is only spoken of while no recording came after a failed    *)
(* one.                                                                    *)
LEMMA OrderWhileClean ==
  ASSUME Order, Clean
  PROVE  Continues /\ Whole
  BY WholeMeansFollows DEF Order, WhereItIs

LEMMA OrderKept ==
  ASSUME EndsAtTheEnd', Clean' => Continues' /\ Whole'
  PROVE  Order'
  BY WholeMeansFollowsPrimed DEF Order, WhereItIs

(* A failure is not forgotten.                                             *)
LEMMA CleanBefore ==
  ASSUME TypeOK, CallerAndThread, last' = last, failed # 0 => failed' = failed, Clean'
  PROVE  Clean
  BY DEF CallerAndThread, TypeOK, Clean

(* A step of the caller or of the line that leaves the chunks to be read.  *)
LEMMA AsideKeepsOrder ==
  ASSUME Threads, Order, UNCHANGED <<last, thread, data, captured, failed>>,
         last # 0 /\ thread[last] = "read" =>
            lines'[stream'].buffer = lines[stream].buffer
  PROVE  Order'
  <1>1. TypeOK /\ EndsAtTheEnd
    BY DEF Threads, Order
  <1>2. Put' = Put /\ LastPut' = LastPut
    BY DEF data, Put, LastPut
  <1>3. ASSUME Clean'
        PROVE  Continues' /\ Whole'
    <2>1. Continues /\ Whole
      BY <1>3, OrderWhileClean DEF Clean
    <2>2. Whole'
      BY <1>1, <1>2, <2>1, StaysWhole
    <2>3. Continues'
      BY <1>1, <1>2, <2>1 DEF Continues, data
    <2>4. QED
      BY <2>2, <2>3
  <1>4. EndsAtTheEnd'
    BY <1>1, <1>2 DEF EndsAtTheEnd, Over, data
  <1>5. QED
    BY <1>3, <1>4, OrderKept

LEMMA OpenKeepsOrder ==
  ASSUME Threads, Order, Patient, Open
  PROVE  Order'
  <1>1. last # 0 => thread[last] = "dead"
    BY DEF Open, Order, EndsAtTheEnd, Over
  <1>2. QED
    BY <1>1, AsideKeepsOrder DEF Open, fields, run, data, env

LEMMA StopLineKeepsOrder ==
  ASSUME Threads, Order, StopLine
  PROVE  Order'
  <1>1. UNCHANGED <<fields, audioLine, stream, run, data, env, interrupted>> /\ TypeOK /\ TheLine
    BY DEF StopLine, Threads
  <1>2. ASSUME last # 0, thread[last] = "read"
        PROVE  lines'[stream'].buffer = lines[stream].buffer
    <2>1. audioLine \in DOMAIN lines /\ stream = audioLine /\ audioLine # 0
      BY <1>1, <1>2 DEF TypeOK, TheLine
    <2>2. lines'[stream] = StoppedByCaller(lines[stream])
      BY <1>1, <2>1 DEF StopLine, TypeOK
    <2>3. lines[stream] \in Line
      BY <1>1, <2>1 DEF TypeOK
    <2>4. QED
      BY <1>1, <2>2, <2>3, StoppedLine
  <1>3. QED
    BY <1>1, <1>2, AsideKeepsOrder DEF fields, run, data, env

LEMMA LineStopsKeepsOrder ==
  ASSUME Threads, Order, LineStops
  PROVE  Order'
  <1>1. /\ UNCHANGED <<caller, fields, audioLine, stream, run, data>>
        /\ UNCHANGED <<closeBetweenUtterances, captured, failed, interrupted>> /\ TypeOK /\ TheLine
    BY DEF LineStops, Threads
  <1>2. ASSUME last # 0, thread[last] = "read"
        PROVE  lines'[stream'].buffer = lines[stream].buffer
    <2>1. stream \in DOMAIN lines /\ lines[stream] \in Line
      BY <1>1, <1>2 DEF TypeOK, TheLine
    <2>2. PICK l \in DOMAIN lines :
            lines[l].state = "running" /\ lines' = [lines EXCEPT ![l].state = "open"]
      BY DEF LineStops
    <2>3. l = stream
      BY <1>1, <2>2 DEF TheLine
    <2> DEFINE b == [lines[stream] EXCEPT !.state = "open"]
    <2>4. b.buffer = lines[stream].buffer
      BY <2>1, StateOfLine
    <2>5. lines' = [lines EXCEPT ![stream] = b]
      BY <2>2, <2>3
    <2> HIDE DEF b
    <2>6. lines'[stream] = b
      BY <1>1, <2>1, <2>5 DEF TypeOK
    <2>7. QED
      BY <1>1, <2>4, <2>6
  <1>3. QED
    BY <1>1, <1>2, AsideKeepsOrder DEF fields, run, data, env

LEMMA RestOfCallerKeepsOrder ==
  ASSUME Threads, Order, StartReturns \/ StopRecording \/ StopReturns \/ InterruptCaller
  PROVE  Order'
  <1>1. UNCHANGED <<last, line, run, data, env>>
    BY DEF StartReturns, StopRecording, StopReturns, InterruptCaller, fields
  <1>2. QED
    BY <1>1, AsideKeepsOrder DEF line, run, data, env

(* A recording begins where the one before has ended and was taken.        *)
LEMMA StartThreadKeepsOrder ==
  ASSUME Threads, Order, StartThread
  PROVE  Order'
  <1>1. /\ TypeOK /\ CallerAndThread /\ EndsAtTheEnd
        /\ last < MaxRecordings
        /\ Over /\ audioList = << >> /\ utteranceEndReached' = FALSE
        /\ last' = last + 1 /\ thread' = [thread EXCEPT ![last + 1] = "begin"]
        /\ UNCHANGED <<line, audioList, taken, env>>
    BY DEF Threads, Order, StartThread, EndReachedAtStart, CallerAndThread, TheLine, EndsAtTheEnd
  <1>2. last \in Nat /\ last + 1 \in Recordings
    BY <1>1, MicrophoneAssumption DEF TypeOK, Recordings
  <1>3. /\ thread'[last + 1] = "begin"
        /\ \A t \in Recordings : t # last + 1 => thread'[t] = thread[t]
    BY <1>1, <1>2 DEF TypeOK
  <1>4. Put' = Put /\ LastPut' = LastPut
    BY <1>1 DEF Put, LastPut
  <1>5. ASSUME Clean'
        PROVE  Continues' /\ Whole'
    <2>1. failed = 0 /\ Clean
      BY <1>1, <1>2, <1>5 DEF Clean, CallerAndThread, env
    <2>2. Continues /\ Whole
      BY <2>1, OrderWhileClean
    <2>3. Whole'
      BY <1>1, <1>4, <2>2, StaysWhole DEF env
    <2>4. LastPut = Signal("end", last)
      BY <1>1, <2>2 DEF Continues, Over, LastPut
    <2>5. last' # 0 /\ last' - 1 = last
      BY <1>1, <1>2
    <2>6. Continues'
      BY <1>1, <1>3, <1>4, <2>4, <2>5 DEF Continues
    <2>7. QED
      BY <2>3, <2>6
  <1>6. EndsAtTheEnd'
    <2>1. \A i \in DOMAIN Put : Put[i].kind = "end" =>
            Put[i].thread \in 1 .. last + 1 /\ Put[i].thread < last + 1
      BY <1>1, <1>2 DEF EndsAtTheEnd
    <2>2. \A t \in Recordings : thread'[t] = "dead" => thread[t] = "dead"
      BY <1>3
    <2>3. QED
      BY <1>1, <1>4, <2>1, <2>2 DEF EndsAtTheEnd
  <1>7. QED
    BY <1>5, <1>6, OrderKept

LEMMA GetDataKeepsOrder ==
  ASSUME Threads, Order, GetData
  PROVE  Order'
  <1>1. /\ TypeOK /\ EndsAtTheEnd
        /\ audioList # << >> /\ audioList \in Seq(Datum) /\ taken \in Seq(Datum)
        /\ audioList' = Tail(audioList) /\ taken' = Append(taken, Head(audioList))
        /\ utteranceEndReached' = (Head(audioList).kind = "end")
        /\ UNCHANGED <<caller, fields, line, run, env, interrupted>>
    BY DEF Threads, Order, GetData, TypeOK
  <1>2. Put' = Put /\ LastPut' = LastPut
    BY <1>1, HeadMoves DEF Put, LastPut
  <1>3. ASSUME Clean'
        PROVE  Continues' /\ Whole'
    <2>1. Continues /\ Whole
      BY <1>1, <1>3, OrderWhileClean DEF Clean, fields, env
    <2>2. Whole'
      BY <1>1, <1>2, <2>1, StaysWhole DEF env
    <2>3. thread[last] = "begin" /\ last # 0 => audioList = << >>
      BY <2>1 DEF Continues
    <2>4. Continues'
      BY <1>1, <1>2, <2>1, <2>3 DEF Continues, fields, line, run, env
    <2>5. QED
      BY <2>2, <2>4
  <1>4. /\ Head(audioList) = audioList[1] /\ Len(audioList) \in Nat \ {0}
        /\ DOMAIN audioList = 1 .. Len(audioList)
        /\ Len(audioList') = Len(audioList) - 1
        /\ DOMAIN audioList' = 1 .. Len(audioList')
        /\ \A i \in 1 .. Len(audioList') : audioList'[i] = audioList[i + 1]
        /\ Len(audioList) = 1 => audioList' = << >>
    BY <1>1
  <1>5. EndsAtTheEnd'
    <2> DEFINE n == Len(audioList)
    <2>0. /\ \A i \in 1 .. n : audioList[i].kind = "end" => i = n /\ Over
          /\ n \in Nat \ {0} /\ Len(audioList') = n - 1
      BY <1>1, <1>4 DEF EndsAtTheEnd
    <2> HIDE DEF n
    <2>1. utteranceEndReached' => Over' /\ audioList' = << >>
      <3>1. SUFFICES ASSUME audioList[1].kind = "end"
                     PROVE  Over /\ n = 1
        BY <1>1, <1>4 DEF Over, fields, run, n
      <3>2. QED
        BY <2>0, <3>1
    <2>2. \A i \in DOMAIN audioList' :
            audioList'[i].kind = "end" => i = Len(audioList') /\ Over'
      <3>1. SUFFICES ASSUME NEW i \in 1 .. Len(audioList'), audioList'[i].kind = "end"
                     PROVE  i = Len(audioList') /\ Over
        BY <1>1, <1>4 DEF Over, fields, run
      <3>2. i + 1 \in 1 .. n /\ audioList[i + 1].kind = "end"
        BY <1>4, <2>0, <3>1
      <3>3. QED
        BY <2>0, <3>2
    <2>3. QED
      BY <1>1, <1>2, <2>1, <2>2 DEF EndsAtTheEnd, Over, fields, run
  <1>6. QED
    BY <1>3, <1>5, OrderKept

(* The parts of EndsAtTheEnd about the past, when a datum is put.          *)
LEMMA EndsStay ==
  ASSUME TypeOK, EndsAtTheEnd, last # 0, ~Over,
         NEW d \in Datum,
         audioList' = Append(audioList, d), taken' = taken,
         UNCHANGED <<last, utteranceEndReached>>,
         thread'[last] = "dead" <=> d.kind = "end",
         d.kind = "end" => d = Signal("end", last),
         \A t \in Recordings : t # last => thread'[t] = thread[t]
  PROVE  EndsAtTheEnd'
  <1>1. /\ Len(Put') = Len(Put) + 1 /\ DOMAIN Put' = 1 .. Len(Put) + 1
        /\ Put'[Len(Put) + 1] = d
        /\ \A i \in 1 .. Len(Put) : Put'[i] = Put[i]
    BY PutGrows
  <1>2. Len(Put) \in Nat /\ DOMAIN Put = 1 .. Len(Put) /\ last \in Nat
    BY PutIsSeq, MicrophoneAssumption DEF TypeOK
  <1>3. ~utteranceEndReached'
    BY DEF EndsAtTheEnd
  <1>4. \A i \in DOMAIN audioList' : audioList'[i].kind = "end" => i = Len(audioList') /\ Over'
    <2>1. \A i \in 1 .. Len(audioList) : audioList[i].kind # "end"
      BY DEF EndsAtTheEnd, TypeOK
    <2>2. /\ DOMAIN audioList' = 1 .. Len(audioList) + 1 /\ Len(audioList') = Len(audioList) + 1
          /\ Len(audioList) \in Nat
          /\ audioList'[Len(audioList) + 1] = d
          /\ \A i \in 1 .. Len(audioList) : audioList'[i] = audioList[i]
      BY DEF TypeOK
    <2>3. d.kind = "end" => Over'
      BY DEF Over
    <2>4. QED
      BY <2>1, <2>2, <2>3
  <1>5. \A i \in DOMAIN Put' : Put'[i].kind = "end" =>
           Put'[i].thread \in 1 .. last' /\ (Put'[i].thread < last' \/ Over')
    <2>1. ASSUME NEW i \in 1 .. Len(Put), Put[i].kind = "end"
          PROVE  Put[i].thread \in 1 .. last /\ Put[i].thread < last
      BY <1>2, <2>1 DEF EndsAtTheEnd
    <2>2. d.kind = "end" => d.thread = last /\ Over' /\ last \in 1 .. last
      BY <1>2, Data DEF Over
    <2>3. QED
      BY <1>1, <1>2, <2>1, <2>2
  <1>6. \A t \in Recordings : thread'[t] = "dead" =>
           \E i \in DOMAIN Put' : Put'[i] = Signal("end", t)
    <2>1. SUFFICES ASSUME NEW t \in Recordings, thread'[t] = "dead"
                   PROVE  \E i \in DOMAIN Put' : Put'[i] = Signal("end", t)
      OBVIOUS
    <2>2. CASE t = last
      <3>1. Len(Put) + 1 \in DOMAIN Put' /\ Put'[Len(Put) + 1] = Signal("end", t)
        BY <1>1, <1>2, <2>1, <2>2
      <3>2. QED
        BY <3>1
    <2>3. CASE t # last
      <3>1. PICK i \in DOMAIN Put : Put[i] = Signal("end", t)
        BY <2>1, <2>3 DEF EndsAtTheEnd
      <3>2. QED
        BY <3>1, <1>1, <1>2
    <2>4. QED
      BY <2>2, <2>3
  <1>7. QED
    BY <1>3, <1>4, <1>5, <1>6 DEF EndsAtTheEnd

LEMMA BeginKeepsOrder ==
  ASSUME Threads, Order, NEW t \in Recordings, Begin(t)
  PROVE  Order'
  <1>1. /\ TypeOK /\ OneAtATime /\ CallerAndThread /\ EndsAtTheEnd
        /\ thread[t] = "begin"
    BY DEF Threads, Order, Begin
  <1>2. t = last /\ last # 0 /\ last \in Recordings /\ last \in Nat
    BY <1>1, OnlyTheLast, RecordingsAreNat
  <1> DEFINE d == Signal("start", last)
  <1>3. /\ audioList' = Append(audioList, d)
        /\ thread' = [thread EXCEPT ![last] = "start"]
        /\ UNCHANGED <<caller, fields, line, started, done, utteranceEndReached, taken, env, interrupted>>
    BY <1>2 DEF Begin
  <1>4. d \in Datum /\ d.kind = "start" /\ d.thread = last /\ d.n = 0
    BY <1>2, Data
  <1>5. /\ thread'[last] = "start"
        /\ \A u \in Recordings : u # last => thread'[u] = thread[u]
    BY <1>1, <1>2, <1>3 DEF TypeOK
  <1> HIDE DEF d
  <1>6. LastPut' = d
    BY <1>1, <1>3, <1>4, PutGrows
  <1>7. ASSUME Clean'
        PROVE  Continues' /\ Whole'
    <2>1. Continues /\ Whole
      BY <1>1, <1>3, <1>7, CleanBefore, OrderWhileClean DEF fields, env
    <2>2. LastPut = Signal("end", last - 1)
      BY <1>1, <1>2, <2>1 DEF Continues
    <2>3. Follows(LastPut, d)
      BY <1>4, <2>2 DEF Follows
    <2>4. Whole'
      BY <1>1, <1>3, <1>4, <2>1, <2>3, FollowingIsWhole DEF env
    <2>5. Continues'
      BY <1>2, <1>3, <1>5, <1>6 DEF Continues, fields, d
    <2>6. QED
      BY <2>4, <2>5
  <1>8. EndsAtTheEnd'
    <2>1. ~Over
      BY <1>1, <1>2 DEF Over
    <2>2. QED
      BY <1>1, <1>2, <1>3, <1>4, <1>5, <2>1, EndsStay DEF fields
  <1>9. QED
    BY <1>7, <1>8, OrderKept

LEMMA EndKeepsOrder ==
  ASSUME Threads, Order, NEW t \in Recordings, End(t)
  PROVE  Order'
  <1>1. /\ TypeOK /\ OneAtATime /\ CallerAndThread /\ EndsAtTheEnd
        /\ thread[t] = "end"
    BY DEF Threads, Order, End
  <1>2. t = last /\ last # 0 /\ last \in Recordings /\ last \in Nat
    BY <1>1, OnlyTheLast, RecordingsAreNat
  <1> DEFINE d == Signal("end", last)
  <1>3. /\ audioList' = Append(audioList, d)
        /\ thread' = [thread EXCEPT ![last] = "dead"]
        /\ UNCHANGED <<caller, fields, line, started, done, utteranceEndReached, taken, env, interrupted>>
    BY <1>2 DEF End, After
  <1>4. d \in Datum /\ d.kind = "end" /\ d.thread = last /\ d.n = 0
    BY <1>2, Data
  <1>5. /\ thread'[last] = "dead"
        /\ \A u \in Recordings : u # last => thread'[u] = thread[u]
    BY <1>1, <1>2, <1>3 DEF TypeOK
  <1>6. d = Signal("end", last)
    OBVIOUS
  <1> HIDE DEF d
  <1>7. LastPut' = d
    BY <1>1, <1>3, <1>4, PutGrows
  <1>8. ASSUME Clean'
        PROVE  Continues' /\ Whole'
    <2>1. Continues /\ Whole
      BY <1>1, <1>3, <1>8, CleanBefore, OrderWhileClean DEF fields, env
    <2>2. /\ LastPut.kind # "end" /\ LastPut.thread = last
          /\ LastPut.n = captured[last] \/ failed # 0
      BY <1>1, <1>2, <2>1, Data DEF Continues
    <2>3. Follows(LastPut, d)
      BY <1>4, <2>2 DEF Follows
    <2>4. Whole'
      BY <1>1, <1>3, <1>4, <2>1, <2>3, FollowingIsWhole DEF env
    <2>5. Continues'
      BY <1>2, <1>3, <1>5, <1>6, <1>7 DEF Continues, fields
    <2>6. QED
      BY <2>4, <2>5
  <1>9. EndsAtTheEnd'
    <2>1. ~Over
      BY <1>1, <1>2 DEF Over
    <2>2. QED
      BY <1>1, <1>2, <1>3, <1>4, <1>5, <1>6, <2>1, EndsStay DEF fields
  <1>10. QED
    BY <1>8, <1>9, OrderKept

LEMMA ReadChunkContinues ==
  ASSUME Threads, Continues, Whole, NEW t \in Recordings, ReadChunk(t)
  PROVE  Continues' /\ Whole'
  <1>1. TypeOK /\ OneAtATime /\ TheLine /\ thread[t] = "read"
    BY DEF Threads, ReadChunk
  <1>2. t = last /\ last # 0 /\ last \in Recordings /\ last \in Nat
    BY <1>1, OnlyTheLast, RecordingsAreNat
  <1> DEFINE buffer == lines[stream].buffer
             d == Chunk(last, LastPut.n + 1)
  <1>3. buffer # << >> /\ stream \in DOMAIN lines /\ buffer \in Seq(Chunks)
    <2>1. stream \in DOMAIN lines /\ stream \in 1 .. Len(lines)
      BY <1>1, <1>2 DEF TheLine, TypeOK
    <2>2. lines[stream] \in Line
      BY <1>1, <2>1 DEF TypeOK
    <2>3. QED
      BY <2>1, <2>2, LineParts DEF ReadChunk
  <1>4. LastPut.n \in Nat /\ LastPut \in {Signal("start", last)} \cup {Chunk(last, n) : n \in Nat \ {0}}
    BY <1>1, <1>2, Data DEF Continues
  <1>5. /\ LastPut.n + Len(buffer) = captured[last]
        /\ \A i \in 1 .. Len(buffer) : buffer[i] = Chunk(last, LastPut.n + i)
    BY <1>1, <1>2, <1>3 DEF Continues
  <1>6. Head(buffer) = d /\ Len(buffer) \in Nat \ {0}
    <2> HIDE DEF buffer
    <2>1. Len(buffer) \in Nat \ {0} /\ Head(buffer) = buffer[1]
      BY <1>3
    <2>2. QED
      BY <2>1, <1>5
  <1>7. /\ audioList' = Append(audioList, d)
        /\ lines' = [lines EXCEPT ![stream].buffer = Tail(buffer)]
        /\ UNCHANGED <<caller, fields, audioLine, stream, thread, done, utteranceEndReached, taken, env, interrupted>>
    BY <1>6 DEF ReadChunk
  <1>8. d \in Datum /\ d.kind = "data" /\ d.thread = last /\ d.n = LastPut.n + 1
    BY <1>2, <1>4, Data
  <1>9. LastPut = IF d.n = 1 THEN Signal("start", d.thread) ELSE Chunk(d.thread, d.n - 1)
    <2>1. CASE LastPut = Signal("start", last)
      BY <2>1, <1>2, <1>8, Data
    <2>2. CASE LastPut # Signal("start", last)
      <3>1. PICK n \in Nat \ {0} : LastPut = Chunk(last, n)
        BY <1>4, <2>2
      <3>2. LastPut.n = n
        BY <3>1, <1>2, Data
      <3>3. QED
        BY <3>1, <3>2, <1>8
    <2>3. QED
      BY <2>1, <2>2
  <1>10. lines'[stream].buffer = Tail(buffer)
    <2> DEFINE b == [lines[stream] EXCEPT !.buffer = Tail(buffer)]
    <2>1. lines[stream] \in Line /\ Tail(buffer) \in Seq(Chunks)
      BY <1>1, <1>3 DEF TypeOK
    <2>2. b.buffer = Tail(buffer)
      BY <2>1, BufferOfLine
    <2>3. lines' = [lines EXCEPT ![stream] = b]
      BY <1>7
    <2> HIDE DEF b, buffer
    <2>4. lines'[stream] = b
      BY <2>3, <1>1, <1>3 DEF TypeOK
    <2>5. QED
      BY <2>2, <2>4
  <1> HIDE DEF d, buffer
  <1>11. Whole'
    <2>1. Follows(LastPut, d)
      BY <1>8, <1>9 DEF Follows
    <2>2. QED
      BY <1>1, <1>7, <1>8, <2>1, FollowingIsWhole DEF env
  <1>12. LastPut' = d
    BY <1>1, <1>7, <1>8, PutGrows
  <1>13. Continues'
    <2>1. thread'[last'] = "read" /\ last' = last /\ stream' = stream
      BY <1>1, <1>2, <1>7 DEF fields
    <2>2. d = Chunk(last, LastPut.n + 1) /\ LastPut.n + 1 \in Nat \ {0}
      BY <1>4 DEF d
    <2>3. LastPut' \in {Signal("start", last)} \cup {Chunk(last, n) : n \in Nat \ {0}}
      BY <2>2, <1>12
    <2> DEFINE m == LastPut.n
    <2>4. LastPut'.n = m + 1 /\ m \in Nat
      BY <1>4, <1>8, <1>12
    <2> HIDE DEF m
    <2>5. /\ Len(Tail(buffer)) = Len(buffer) - 1 /\ DOMAIN Tail(buffer) = 1 .. Len(buffer) - 1
          /\ \A i \in 1 .. Len(buffer) - 1 : Tail(buffer)[i] = buffer[i + 1]
      BY <1>3, <1>6
    <2>6. m + 1 + Len(Tail(buffer)) = captured[last]
      <3> DEFINE more == Len(buffer)
      <3>1. m + more = captured[last] /\ more \in Nat
        BY <1>5, <1>6 DEF m
      <3> DEFINE rest == Len(Tail(buffer))
                 all == captured[last]
      <3>2. m + more = all /\ rest = more - 1 /\ m \in Nat /\ more \in Nat
        BY <3>1, <2>4, <2>5
      <3> HIDE DEF more, rest, all
      <3>3. m + 1 + rest = all
        BY <3>2
      <3>4. QED
        BY <3>3 DEF rest, all
    <2>7. \A i \in DOMAIN Tail(buffer) : Tail(buffer)[i] = Chunk(last, m + 1 + i)
      <3>1. SUFFICES ASSUME NEW i \in 1 .. Len(buffer) - 1
                     PROVE  buffer[i + 1] = Chunk(last, m + 1 + i)
        BY <2>5
      <3>2. i + 1 \in 1 .. Len(buffer) /\ m + (i + 1) = m + 1 + i
        BY <1>6, <2>4
      <3>3. QED
        BY <1>5, <3>2 DEF m
    <2>8. captured' = captured
      BY <1>7 DEF env
    <2>9. QED
      BY <1>2, <1>10, <2>1, <2>3, <2>4, <2>6, <2>7, <2>8 DEF Continues
  <1>14. QED
    BY <1>11, <1>13

LEMMA ReadChunkKeepsOrder ==
  ASSUME Threads, Order, NEW t \in Recordings, ReadChunk(t)
  PROVE  Order'
  <1>1. /\ TypeOK /\ OneAtATime /\ CallerAndThread /\ TheLine /\ EndsAtTheEnd
        /\ thread[t] = "read" /\ audioList' = Append(audioList, Head(lines[stream].buffer))
        /\ UNCHANGED <<last, failed, thread, taken, utteranceEndReached>>
    BY DEF Threads, Order, ReadChunk, fields, env
  <1>2. t = last /\ last # 0 /\ last \in Recordings
    BY <1>1, OnlyTheLast
  <1>3. Head(lines[stream].buffer) \in Chunks
    <2>1. stream \in 1 .. Len(lines)
      BY <1>1, <1>2 DEF TheLine, TypeOK
    <2>2. lines[stream].buffer \in Seq(Chunks) /\ lines[stream].buffer # << >>
      BY <1>1, <2>1, LineParts DEF TypeOK, ReadChunk
    <2>3. QED
      BY <2>2
  <1>4. EndsAtTheEnd'
    <2> DEFINE d == Head(lines[stream].buffer)
    <2>1. d \in Datum /\ d.kind = "data"
      BY <1>3, ChunksAreData
    <2>2. audioList' = Append(audioList, d)
      BY <1>1
    <2> HIDE DEF d
    <2>3. ~Over /\ thread'[last] # "dead"
      BY <1>1, <1>2 DEF Over
    <2>4. QED
      BY <1>1, <1>2, <2>1, <2>2, <2>3, EndsStay
  <1>5. ASSUME Clean'
        PROVE  Continues' /\ Whole'
    BY <1>1, <1>5, CleanBefore, OrderWhileClean, ReadChunkContinues
  <1>6. QED
    BY <1>4, <1>5, OrderKept

(* A recording thread goes on and puts nothing.                            *)
LEMMA MovingOnKeepsOrder ==
  ASSUME Threads, Order, last # 0, thread[last] \notin {"none", "begin", "dead"},
         UNCHANGED <<last, data, captured>>, failed # 0 => failed' = failed,
         NEW step \in Steps \ {"none", "begin", "start", "dead"},
         thread' = [thread EXCEPT ![last] = step],
         Clean /\ Clean' => Continues'
  PROVE  Order'
  <1>1. TypeOK /\ CallerAndThread /\ EndsAtTheEnd /\ last \in Recordings
    BY MicrophoneAssumption DEF Threads, Order, TypeOK, Recordings
  <1>2. Put' = Put
    BY DEF data, Put
  <1>3. ASSUME Clean'
        PROVE  Continues' /\ Whole'
    <2>1. Clean
      BY <1>1, <1>3, CleanBefore
    <2>2. Whole /\ Continues'
      BY <1>3, <2>1, OrderWhileClean
    <2>3. QED
      BY <1>1, <1>2, <2>2, StaysWhole
  <1>4. /\ thread'[last] = step /\ step # "dead"
        /\ \A u \in Recordings : u # last => thread'[u] = thread[u]
    BY <1>1 DEF TypeOK
  <1>5. EndsAtTheEnd'
    <2>1. ~Over /\ ~Over'
      BY <1>4 DEF Over
    <2>2. QED
      BY <1>1, <1>2, <1>4, <2>1 DEF EndsAtTheEnd, data
  <1>6. QED
    BY <1>3, <1>5, OrderKept

LEMMA StartLineKeepsOrder ==
  ASSUME Threads, Order, NEW t \in Recordings, StartLine(t)
  PROVE  Order'
  <1>1. /\ TypeOK /\ OneAtATime /\ CallerAndThread /\ TheLine
        /\ thread[t] = "start"
    BY DEF Threads, StartLine
  <1>2. t = last /\ last # 0 /\ last \in Recordings /\ last \in Nat
    BY <1>1, OnlyTheLast, RecordingsAreNat
  <1>3. /\ audioLine \in DOMAIN lines /\ audioLine # 0 /\ lines[audioLine] \in Line
        /\ stream = audioLine /\ IsOpen(audioLine)
    BY <1>1, <1>2 DEF TheLine, TypeOK, IsOpen
  <1>4. /\ thread' = [thread EXCEPT ![last] = "read"]
        /\ lines' = [lines EXCEPT ![audioLine].state = "running"]
        /\ UNCHANGED <<caller, fields, audioLine, stream, started, done, data, env>>
    BY <1>2, <1>3 DEF StartLine
  <1>5. ASSUME Clean, Clean'
        PROVE  Continues'
    <2>1. Continues
      BY <1>5, OrderWhileClean
    <2>2. failed = 0
      BY <1>1, <1>2, <1>5 DEF CallerAndThread, Clean
    <2>3. lines[audioLine].buffer = << >>
      BY <1>1, <1>2, <1>3, <2>2 DEF TheLine, LeftOpen
    <2>4. lines'[stream'].buffer = << >>
      <3> DEFINE b == [lines[audioLine] EXCEPT !.state = "running"]
      <3>1. b.buffer = << >>
        BY <1>3, <2>3, StateOfLine
      <3>2. lines' = [lines EXCEPT ![audioLine] = b]
        BY <1>4
      <3> HIDE DEF b
      <3>3. lines'[audioLine] = b
        BY <3>2, <1>1, <1>3 DEF TypeOK
      <3>4. QED
        BY <3>1, <3>3, <1>3, <1>4
    <2>5. LastPut = Signal("start", last) /\ LastPut.n = 0 /\ captured[last] = 0
      BY <1>1, <1>2, <2>1, <2>2, Data DEF Continues, OneAtATime
    <2>6. LastPut' = LastPut /\ last' = last /\ captured' = captured
      BY <1>4 DEF LastPut, Put, data, fields, env
    <2>7. thread'[last] = "read"
      BY <1>1, <1>2, <1>4 DEF TypeOK
    <2>8. DOMAIN << >> = {} /\ Len(<< >>) = 0
      OBVIOUS
    <2>9. QED
      BY <1>2, <2>4, <2>5, <2>6, <2>7, <2>8 DEF Continues
  <1>6. QED
    BY <1>1, <1>2, <1>4, <1>5, MovingOnKeepsOrder DEF Steps, fields, data, env

LEMMA AfterReadKeepsOrder ==
  ASSUME Threads, Order, NEW t \in Recordings,
         ReadNull(t) \/ ReadFails(t) \/ Flush(t) \/ Close(t) \/ SetToNull(t)
  PROVE  Order'
  <1>1. /\ TypeOK /\ OneAtATime /\ CallerAndThread /\ TheLine
        /\ thread[t] \in {"read", "flush", "close", "null"}
    BY DEF Threads, ReadNull, ReadFails, Flush, Close, SetToNull, OnLine
  <1>2. t = last /\ last # 0 /\ last \in Recordings /\ last \in Nat
    BY <1>1, OnlyTheLast, RecordingsAreNat
  <1>3. PICK step \in {"flush", "close", "null", "end"} :
          thread' = [thread EXCEPT ![last] = step]
    <2>1. thread[last] \in {"flush", "close"} => audioLine # 0
      BY <1>1, <1>2 DEF TheLine
    <2>2. CASE Flush(t) \/ Close(t)
      BY <1>2, <2>1, <2>2 DEF Flush, Close, OnLine, After
    <2>3. CASE ReadNull(t) \/ ReadFails(t) \/ SetToNull(t)
      BY <1>2, <2>3 DEF ReadNull, ReadFails, SetToNull, After
    <2>4. QED
      BY <2>2, <2>3
  <1>4. UNCHANGED <<last, data, captured>> /\ (failed # 0 => failed' = failed)
    BY DEF ReadNull, ReadFails, Flush, Close, SetToNull, OnLine, fields, env
  <1>5. ASSUME Clean, Clean'
        PROVE  Continues'
    <2>1. Continues
      BY <1>5, OrderWhileClean
    <2>2. LastPut.n = captured[last] \/ failed' # 0
      <3>1. CASE ReadNull(t)
        <4>1. LastPut.n + Len(lines[stream].buffer) = captured[last] /\ lines[stream].buffer = << >>
          BY <1>1, <1>2, <2>1, <3>1 DEF Continues, ReadNull
        <4>2. LastPut.n \in Nat
          BY <1>1, PutIsSeq DEF Datum
        <4>3. QED
          BY <4>1, <4>2
      <3>2. CASE ReadFails(t)
        BY <1>2, <3>2 DEF ReadFails
      <3>3. CASE Flush(t) \/ Close(t) \/ SetToNull(t)
        <4>1. thread[last] \in {"flush", "close", "null"}
          BY <1>2, <3>3 DEF Flush, Close, SetToNull, OnLine
        <4>2. QED
          BY <1>1, <1>2, <1>4, <2>1, <4>1 DEF Continues
      <3>4. QED
        BY <3>1, <3>2, <3>3
    <2>3. LastPut \in {Signal("start", last)} \cup {Chunk(last, n) : n \in Nat \ {0}}
      BY <1>1, <1>2, <2>1 DEF Continues
    <2>4. LastPut' = LastPut
      BY <1>4 DEF LastPut, Put, data
    <2>5. thread'[last] = step
      BY <1>1, <1>2, <1>3 DEF TypeOK
    <2>6. QED
      BY <1>2, <1>3, <1>4, <2>2, <2>3, <2>4, <2>5 DEF Continues
  <1>6. QED
    BY <1>1, <1>2, <1>3, <1>4, <1>5, MovingOnKeepsOrder DEF Steps

(* What the line captures continues what was put, until reading fails.     *)
LEMMA CaptureKeepsOrder ==
  ASSUME Threads, Order, Capture
  PROVE  Order'
  <1>1. /\ TypeOK /\ CallerAndThread /\ TheLine /\ EndsAtTheEnd
        /\ UNCHANGED <<caller, fields, audioLine, stream, run, data>>
        /\ UNCHANGED <<closeBetweenUtterances, cut, failed, interrupted>>
    BY DEF Threads, Order, Capture
  <1>2. PICK l \in DOMAIN lines :
          /\ lines[l].state = "running"
          /\ captured' = [captured EXCEPT ![last] = @ + 1]
          /\ lines' = [lines EXCEPT ![l].buffer = Append(@, Chunk(last, captured'[last]))]
    BY DEF Capture
  <1>3. /\ l = stream /\ last # 0 /\ (thread[last] = "read" \/ LeftOpen(l))
        /\ last \in Recordings /\ last \in Nat
    BY <1>1, <1>2, MicrophoneAssumption DEF TheLine, TypeOK, Recordings
  <1>4. /\ captured'[last] = captured[last] + 1 /\ captured[last] \in Nat
        /\ \A t \in Recordings : t # last => captured'[t] = captured[t]
    BY <1>1, <1>2, <1>3 DEF TypeOK
  <1>5. Put' = Put /\ LastPut' = LastPut
    BY <1>1 DEF Put, LastPut, data
  <1>6. ASSUME Whole
        PROVE  Whole'
    <2>1. ASSUME NEW i \in DOMAIN Put, Put[i].kind = "end"
          PROVE  captured'[Put[i].thread] = captured[Put[i].thread] \/ failed' # 0
      <3>1. CASE thread[last] = "dead"
        BY <3>1, <1>1, <1>3 DEF LeftOpen
      <3>2. CASE thread[last] # "dead"
        <4>1. Put[i].thread < last /\ Put[i].thread \in 1 .. last
          BY <1>1, <1>3, <2>1, <3>2 DEF EndsAtTheEnd, Over
        <4>2. Put[i].thread \in Recordings /\ Put[i].thread # last
          BY <4>1, <1>3, MicrophoneAssumption DEF Recordings
        <4>3. QED
          BY <4>2, <1>4
      <3>3. QED
        BY <3>1, <3>2
    <2>2. QED
      BY <1>1, <1>5, <1>6, <2>1, StaysWhole
  <1>7. EndsAtTheEnd'
    BY <1>1, <1>5 DEF EndsAtTheEnd, Over, fields, run, data
  <1>8. ASSUME Clean, Continues
        PROVE  Continues'
    <2>1. CASE thread[last] = "read"
      <3> DEFINE buffer == lines[stream].buffer
                 d == Chunk(last, captured[last] + 1)
                 b == [lines[stream] EXCEPT !.buffer = Append(buffer, d)]
                 m == LastPut.n
      <3>1. buffer \in Seq(Chunks) /\ d \in Chunks /\ lines[stream] \in Line
        <4>1. lines[stream] \in Line
          BY <1>1, <1>2, <1>3 DEF TypeOK
        <4>2. buffer \in Seq(Chunks)
          BY <4>1, LineParts
        <4>3. captured[last] + 1 \in Nat
          BY <1>4
        <4>4. d \in Chunks
          BY <4>3, <1>3, Data
        <4>5. QED
          BY <4>1, <4>2, <4>4
      <3>2. lines'[stream].buffer = Append(buffer, d)
        <4>1. b.buffer = Append(buffer, d)
          BY <3>1, BufferOfLine
        <4>2. lines' = [lines EXCEPT ![stream] = b]
          BY <1>2, <1>3, <1>4
        <4> HIDE DEF b, buffer, d
        <4>3. lines'[stream] = b
          BY <4>2, <1>1, <1>2, <1>3 DEF TypeOK
        <4>4. QED
          BY <4>1, <4>3
      <3>3. /\ m + Len(buffer) = captured[last] /\ m \in Nat
            /\ \A i \in DOMAIN buffer : buffer[i] = Chunk(last, m + i)
        BY <1>1, <1>3, <1>8, <2>1, PutIsSeq DEF Continues, Datum
      <3> HIDE DEF b, buffer, d, m
      <3>4. /\ Len(buffer) \in Nat /\ DOMAIN buffer = 1 .. Len(buffer)
            /\ Len(Append(buffer, d)) = Len(buffer) + 1
            /\ DOMAIN Append(buffer, d) = 1 .. Len(buffer) + 1
            /\ Append(buffer, d)[Len(buffer) + 1] = d
            /\ \A i \in 1 .. Len(buffer) : Append(buffer, d)[i] = buffer[i]
        BY <3>1
      <3>5. m + Len(Append(buffer, d)) = captured'[last]
        BY <3>3, <3>4, <1>4
      <3>6. d = Chunk(last, m + (Len(buffer) + 1))
        <4>1. captured[last] + 1 = m + (Len(buffer) + 1)
          BY <3>3, <3>4, <1>4
        <4>2. QED
          BY <4>1 DEF d
      <3>7. \A i \in DOMAIN Append(buffer, d) : Append(buffer, d)[i] = Chunk(last, m + i)
        <4>1. SUFFICES ASSUME NEW i \in 1 .. Len(buffer) + 1
                       PROVE  Append(buffer, d)[i] = Chunk(last, m + i)
          BY <3>4
        <4>2. CASE i \in 1 .. Len(buffer)
          BY <4>2, <3>3, <3>4
        <4>3. CASE i = Len(buffer) + 1
          BY <4>3, <3>4, <3>6
        <4>4. QED
          BY <4>2, <4>3, <3>4
      <3>8. LastPut.n = m /\ last' = last /\ thread' = thread /\ stream' = stream
        BY <1>1 DEF m, fields, run
      <3>9. LastPut \in {Signal("start", last)} \cup {Chunk(last, n) : n \in Nat \ {0}}
        BY <1>1, <1>3, <1>8, <2>1 DEF Continues
      <3>10. QED
        BY <1>3, <1>5, <2>1, <3>2, <3>5, <3>7, <3>8, <3>9 DEF Continues
    <2>2. CASE thread[last] # "read"
      <3>1. failed # 0 /\ failed = last /\ thread[last] \in {"end", "dead"}
        BY <1>1, <1>3, <1>8, <2>2 DEF CallerAndThread, Clean, LeftOpen
      <3>2. failed' = failed /\ last' = last /\ thread' = thread
        BY <1>1, <3>1 DEF fields, run
      <3>3. QED
        BY <1>1, <1>3, <1>5, <1>8, <3>1, <3>2 DEF Continues
    <2>3. QED
      BY <2>1, <2>2
  <1>9. Clean' => Continues' /\ Whole'
    BY <1>1, <1>6, <1>8, OrderWhileClean DEF Clean, fields
  <1>10. QED
    BY <1>7, <1>9, OrderKept
-----------------------------------------------------------------------------
LEMMA InitIInv == Init => IInv
  <1> SUFFICES ASSUME Init PROVE IInv
    OBVIOUS
  <1>1. Put = << >> /\ DOMAIN << >> = {} /\ Len(<< >>) = 0
    BY DEF Init, Put
  <1>2. TypeOK
    <2>1. 0 \in 0 .. MaxRecordings /\ << >> \in Seq(Line) /\ << >> \in Seq(Datum)
      BY MicrophoneAssumption, EmptyIsSeq
    <2>2. 0 \in 0 .. Len(lines)
      BY <1>1 DEF Init
    <2>3. QED
      BY <2>1, <2>2 DEF Init, TypeOK, Steps
  <1>3. OneAtATime
    BY DEF Init, OneAtATime, Recordings
  <1>4. CallerAndThread /\ StoppedOrCut
    BY DEF Init, CallerAndThread, StoppedOrCut, Undisturbed
  <1>5. TheLine
    BY <1>1 DEF Init, TheLine
  <1>6. WhereItIs
    BY <1>1 DEF Init, WhereItIs, Continues
  <1>7. EndsAtTheEnd
    BY <1>1 DEF Init, EndsAtTheEnd, Over
  <1>8. WholeUtterances
    BY <1>1 DEF WholeUtterances
  <1>9. QED
    BY <1>2, <1>3, <1>4, <1>5, <1>6, <1>7, <1>8 DEF IInv, Threads

LEMMA NextIInv ==
  ASSUME Patient
  PROVE  IInv /\ [Next]_vars => IInv'
  <1> SUFFICES ASSUME IInv, [Next]_vars
               PROVE  Threads' /\ Order'
    BY DEF IInv, Order
  <1>1. Threads /\ Order /\ EndsAtTheEnd
    BY DEF IInv, Order
  <1>2. CASE Open
    BY <1>1, <1>2, OpenKeepsThreads, OpenKeepsOrder
  <1>3. CASE StopRecording \/ StartReturns \/ StopReturns \/ InterruptCaller
    BY <1>1, <1>3, InterruptCallerKeepsThreads, StopRecordingKeepsThreads, StartReturnsKeepsThreads, StopReturnsKeepsThreads,
       RestOfCallerKeepsOrder
  <1>4. CASE StartThread
    BY <1>1, <1>4, StartThreadKeepsThreads, StartThreadKeepsOrder
  <1>5. CASE StopLine
    BY <1>1, <1>5, StopLineKeepsThreads, StopLineKeepsOrder
  <1>6. CASE GetData
    BY <1>1, <1>6, GetDataKeepsThreads, GetDataKeepsOrder
  <1>7. CASE Capture
    BY <1>1, <1>7, CaptureKeepsThreads, CaptureKeepsOrder
  <1>8. CASE LineStops
    BY <1>1, <1>8, LineStopsKeepsThreads, LineStopsKeepsOrder
  <1>9. ASSUME NEW t \in Recordings, Recorder(t) \/ ReadFails(t)
        PROVE  Threads' /\ Order'
    <2>1. CASE Begin(t)
      BY <1>1, <2>1, BeginKeepsThreads, BeginKeepsOrder
    <2>2. CASE StartLine(t)
      BY <1>1, <2>2, StartLineKeepsThreads, StartLineKeepsOrder
    <2>3. CASE ReadChunk(t)
      BY <1>1, <2>3, ReadChunkKeepsThreads, ReadChunkKeepsOrder
    <2>4. CASE ReadNull(t)
      BY <1>1, <2>4, ReadNullKeepsThreads, AfterReadKeepsOrder
    <2>5. CASE ReadFails(t)
      BY <1>1, <2>5, ReadFailsKeepsThreads, AfterReadKeepsOrder
    <2>6. CASE Flush(t)
      BY <1>1, <2>6, FlushKeepsThreads, AfterReadKeepsOrder
    <2>7. CASE Close(t)
      BY <1>1, <2>7, CloseKeepsThreads, AfterReadKeepsOrder
    <2>8. CASE SetToNull(t)
      BY <1>1, <2>8, SetToNullKeepsThreads, AfterReadKeepsOrder
    <2>9. CASE End(t)
      BY <1>1, <2>9, EndKeepsThreads, EndKeepsOrder
    <2>10. QED
      BY <1>9, <2>1, <2>2, <2>3, <2>4, <2>5, <2>6, <2>7, <2>8, <2>9 DEF Recorder
  <1>10. CASE UNCHANGED vars
    <2>1. Threads'
      BY <1>1, <1>10 DEF Threads, TypeOK, OneAtATime, CallerAndThread, TheLine, LeftOpen, StoppedOrCut,
           Undisturbed, vars, fields, line, run, data, env
    <2>2. Order'
      BY <1>1, <1>10, AsideKeepsOrder DEF vars, fields, line, run, data, env
    <2>3. QED
      BY <2>1, <2>2
  <1>11. QED
    BY <1>2, <1>3, <1>4, <1>5, <1>6, <1>7, <1>8, <1>9, <1>10 DEF Next, Caller

LEMMA Invariance ==
  ASSUME Patient
  PROVE  Spec => []IInv
  BY InitIInv, NextIInv, PTL DEF Spec

(* With a caller that waits for the end of one utterance before it starts  *)
(* the next, as AudioTool does, what getData returns is one whole          *)
(* utterance after the other: however the caller, the recording threads,   *)
(* the consumer and the line take turns, whenever the caller's waits are   *)
(* interrupted, and for any number of recordings up to one that an         *)
(* IOException ended.                                                      *)
THEOREM UtterancesAreWhole ==
  ASSUME Patient
  PROVE  Spec => []WholeUtterances
  <1>1. IInv => WholeUtterances
    BY DEF IInv
  <1>2. QED
    BY <1>1, Invariance, PTL

LEMMA IInvLineIsThere == IInv => LineIsThere
  BY DEF IInv, Threads, StoppedOrCut, EndsAtTheEnd, LineIsThere

(* With such a caller no recording thread finds the shared field audioLine *)
(* null when it uses it, and the caller only if the line stopped by itself:*)
(* also after waits that were interrupted and reads that failed.           *)
THEOREM NobodyTakesTheLine ==
  ASSUME Patient
  PROVE  Spec => []LineIsThere
  BY IInvLineIsThere, Invariance, PTL
===============================================================================
