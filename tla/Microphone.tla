----------------------------- MODULE Microphone -----------------------------
(***************************************************************************)
(* Microphone.java of sphinx4: a caller starts and stops recordings, a     *)
(* RecordingThread for each reads the audio line into audioList, and a     *)
(* consumer takes data from there with getData until the end of the        *)
(* utterance.  The threads share the fields audioLine and audioStream      *)
(* without a lock: the caller reads them when it starts and stops, a       *)
(* recording thread whenever it touches the line, which it closes when it  *)
(* is done; the lock that stopRecording waits on covers only done.  Who    *)
(* interrupts the caller ends its wait for a thread to start or to stop.   *)
(*                                                                         *)
(* The line of the Java sound library is outside this file: whether it is  *)
(* open and runs, and the chunks it has captured and no one has read.  It  *)
(* may stop by itself.  A NullPointerException ends its thread.            *)
(***************************************************************************)
EXTENDS Integers, Sequences

CONSTANTS
    Patient,       \* the caller starts again only after the consumer took the end of the
                   \* last utterance, as AudioTool does
    MaxRecordings, \* bound: recordings
    MaxChunks      \* bound: chunks captured in a recording

ASSUME MicrophoneAssumption ==
    /\ Patient \in BOOLEAN
    /\ MaxRecordings \in Nat /\ MaxChunks \in Nat

VARIABLES
    closeBetweenUtterances, \* a property of the configuration
    caller,     \* where the caller is
    interrupted, \* its interrupt flag
    recording,
    recorder,   \* the thread, 0 for null; also the number of the recording
    last,       \* the number of the last recording
    audioLine,  \* index of a line, 0 for null
    stream,     \* the line audioStream reads
    lines,      \* every line that was opened
    thread,     \* where each recording thread is in run()
    started, done,
    audioList,
    utteranceEndReached,
    taken,      \* history: what getData returned
    captured,   \* history: number of chunks captured in each recording
    cut,        \* history: the line has stopped by itself
    failed,     \* history: the first recording that an IOException ended, or 0
    hasty       \* history: recordings whose line was stopped before it was started

fields == <<recording, recorder, last>>
line == <<audioLine, stream, lines>>
run == <<thread, started, done>>
data == <<audioList, utteranceEndReached, taken>>
env == <<closeBetweenUtterances, captured, cut, failed>>
vars == <<fields, caller, interrupted, hasty, line, run, data, env>>

Recordings == 1 .. MaxRecordings

Signal(kind, t) == [kind |-> kind, thread |-> t, n |-> 0]
Chunk(t, n) == [kind |-> "data", thread |-> t, n |-> n]

Init ==
    /\ closeBetweenUtterances \in BOOLEAN
    /\ caller = "idle" /\ recording = FALSE /\ recorder = 0 /\ last = 0
    /\ audioLine = 0 /\ stream = 0 /\ lines = <<>>
    /\ thread = [t \in Recordings |-> "none"]
    /\ started = [t \in Recordings |-> FALSE] /\ done = [t \in Recordings |-> FALSE]
    /\ audioList = <<>> /\ utteranceEndReached = TRUE /\ taken = <<>>
    /\ captured = [t \in Recordings |-> 0] /\ cut = FALSE /\ failed = 0
    /\ interrupted = FALSE /\ hasty = {}

-----------------------------------------------------------------------------
(* The caller: startRecording and stopRecording.                           *)

NewLine == [state |-> "new", buffer |-> <<>>]
IsOpen(l) == lines[l].state \in {"open", "running"}

\* open() with getAudioLine(): a line is got unless there is one, and opened unless it is;
\* either may fail, and startRecording returns false.
Open ==
    /\ caller = "idle" /\ ~recording /\ last < MaxRecordings
    /\ Patient => utteranceEndReached
    /\ IF audioLine # 0 /\ IsOpen(audioLine)
       THEN /\ caller' = "opened"
            /\ UNCHANGED line
       ELSE \E l \in {audioLine, Len(lines) + 1}, opens \in BOOLEAN :
            /\ audioLine # 0 => l = audioLine
            /\ opens => l # 0
            /\ audioLine' = l
            /\ lines' = LET had == IF l > Len(lines) THEN Append(lines, NewLine) ELSE lines
                        IN  IF opens THEN [had EXCEPT ![l].state = "open"] ELSE had
            /\ stream' = IF opens THEN l ELSE stream
            /\ caller' = IF opens THEN "opened" ELSE "idle"
    /\ UNCHANGED <<fields, run, data, env, interrupted, hasty>>

\* Mutant: it is left as it was.
EndReachedStays == utteranceEndReached

\* What startRecording sets utteranceEndReached to.
EndReachedAtStart == FALSE

\* The thread is started once the line, if it is still there, was asked whether it runs.
StartThread ==
    /\ caller = "opened"
    /\ utteranceEndReached' = EndReachedAtStart
    /\ IF audioLine = 0
       THEN /\ caller' = "dead"
            /\ UNCHANGED <<last, recorder, thread>>
       ELSE /\ caller' = "starting"
            /\ last' = last + 1 /\ recorder' = last'
            /\ thread' = [thread EXCEPT ![last'] = "begin"]
    /\ UNCHANGED <<recording, line, started, done, audioList, taken, env, interrupted, hasty>>

\* A wait ends with what it waits for or with an interrupt, which is caught and forgotten.
WaitEnds(over) ==
    \/ over /\ UNCHANGED interrupted
    \/ interrupted /\ interrupted' = FALSE

\* waitForStart() is over; recording is set either way.
StartReturns ==
    /\ caller = "starting" /\ WaitEnds(started[recorder])
    /\ recording' = TRUE
    /\ caller' = "idle"
    /\ UNCHANGED <<recorder, last, line, run, data, env, hasty>>

\* stopRecording with no line does nothing; recording and no recorder cannot be.
StopRecording ==
    /\ caller = "idle" /\ recording /\ audioLine # 0
    /\ caller' = "stopping"
    /\ UNCHANGED <<fields, line, run, data, env, interrupted, hasty>>

\* TargetDataLine.stop()
Stopped(l) == IF l.state = "running" THEN [l EXCEPT !.state = "open"] ELSE l

\* Mutant: the caller flushes it too.
FlushedByCaller(l) == [Stopped(l) EXCEPT !.buffer = <<>>]

\* What the caller does to the line: flushing and closing are the recording thread's.
StoppedByCaller(l) == Stopped(l)

StopLine ==
    /\ caller = "stopping"
    /\ IF audioLine = 0
       THEN /\ caller' = "dead"
            /\ UNCHANGED <<lines, hasty>>
       ELSE /\ caller' = "waiting"
            /\ hasty' = IF thread[recorder] \in {"begin", "start"} THEN hasty \cup {recorder}
                        ELSE hasty
            /\ lines' = [lines EXCEPT ![audioLine] = StoppedByCaller(@)]
    /\ UNCHANGED <<fields, audioLine, stream, run, data, env, interrupted>>

\* done is seen when the lock is taken or after the notify.
StopReturns ==
    /\ caller = "waiting" /\ WaitEnds(done[recorder])
    /\ recorder' = 0 /\ recording' = FALSE
    /\ caller' = "idle"
    /\ UNCHANGED <<last, line, run, data, env, hasty>>

\* Whatever code shares the caller's interrupt flag.
InterruptCaller ==
    /\ ~interrupted
    /\ interrupted' = TRUE
    /\ UNCHANGED <<fields, caller, line, run, data, env, hasty>>

Caller == StartThread \/ StartReturns \/ StopLine \/ StopReturns

-----------------------------------------------------------------------------
(* run() of a recording thread.                                            *)

Begin(t) ==
    /\ thread[t] = "begin"
    /\ audioList' = Append(audioList, Signal("start", t))
    /\ thread' = [thread EXCEPT ![t] = "start"]
    /\ UNCHANGED <<caller, fields, line, started, done, utteranceEndReached, taken, env, interrupted, hasty>>

\* audioLine.start(), which does nothing to a closed line.
StartLine(t) ==
    /\ thread[t] = "start"
    /\ IF audioLine = 0
       THEN /\ thread' = [thread EXCEPT ![t] = "dead"]
            /\ UNCHANGED lines
       ELSE /\ thread' = [thread EXCEPT ![t] = "read"]
            /\ lines' = IF IsOpen(audioLine) THEN [lines EXCEPT ![audioLine].state = "running"]
                        ELSE lines
    /\ UNCHANGED <<caller, fields, audioLine, stream, started, done, data, env, interrupted, hasty>>

\* readData: a chunk, or null when the line is stopped and there is none.  Whatever was
\* read, the caller learns that recording has started.
ReadChunk(t) ==
    /\ thread[t] = "read" /\ lines[stream].buffer # <<>>
    /\ audioList' = Append(audioList, Head(lines[stream].buffer))
    /\ lines' = [lines EXCEPT ![stream].buffer = Tail(@)]
    /\ started' = [started EXCEPT ![t] = TRUE]
    /\ UNCHANGED <<caller, fields, audioLine, stream, thread, done, utteranceEndReached, taken, env, interrupted, hasty>>

\* Mutant: only data tells that recording has started.
OnlyIfData(t) == started[t]

StartedByNull(t) == TRUE

ReadNull(t) ==
    /\ thread[t] = "read"
    /\ lines[stream].buffer = <<>> /\ lines[stream].state # "running"
    /\ started' = [started EXCEPT ![t] = StartedByNull(t)]
    /\ done' = [done EXCEPT ![t] = TRUE]
    /\ thread' = [thread EXCEPT ![t] = "flush"]
    /\ UNCHANGED <<caller, fields, line, data, env, interrupted, hasty>>

\* The line is neither flushed nor closed.
ReadFails(t) ==
    /\ thread[t] = "read"
    /\ failed' = IF failed = 0 THEN t ELSE failed
    /\ thread' = [thread EXCEPT ![t] = "end"]
    /\ UNCHANGED <<caller, fields, line, started, done, data, closeBetweenUtterances, captured, cut, interrupted, hasty>>

\* Mutant: the end is signalled first and the line closed then.
EndFirst(step) == CASE step = "flush" -> "end"
                    [] step = "end" -> IF closeBetweenUtterances THEN "close" ELSE "dead"
                    [] step = "close" -> "null"
                    [] step = "null" -> "dead"

\* The order of what is done after the last read.
After(step) == CASE step = "flush" -> IF closeBetweenUtterances THEN "close" ELSE "end"
                 [] step = "close" -> "null"
                 [] step = "null" -> "end"
                 [] step = "end" -> "dead"

\* Flushing or closing, of a line that is still there.
OnLine(t, step, changed) ==
    /\ thread[t] = step
    /\ IF audioLine = 0
       THEN /\ thread' = [thread EXCEPT ![t] = "dead"]
            /\ UNCHANGED lines
       ELSE /\ thread' = [thread EXCEPT ![t] = After(step)]
            /\ lines' = [lines EXCEPT ![audioLine] = changed]
    /\ UNCHANGED <<caller, fields, audioLine, stream, started, done, data, env, interrupted, hasty>>

Flush(t) == OnLine(t, "flush", [lines[audioLine] EXCEPT !.buffer = <<>>])
Close(t) == OnLine(t, "close", [state |-> "closed", buffer |-> <<>>])

SetToNull(t) ==
    /\ thread[t] = "null"
    /\ audioLine' = 0
    /\ thread' = [thread EXCEPT ![t] = After("null")]
    /\ UNCHANGED <<caller, fields, stream, lines, started, done, data, env, interrupted, hasty>>

End(t) ==
    /\ thread[t] = "end"
    /\ audioList' = Append(audioList, Signal("end", t))
    /\ thread' = [thread EXCEPT ![t] = After("end")]
    /\ UNCHANGED <<caller, fields, line, started, done, utteranceEndReached, taken, env, interrupted, hasty>>

Recorder(t) ==
    \/ Begin(t) \/ StartLine(t) \/ ReadChunk(t) \/ ReadNull(t)
    \/ Flush(t) \/ Close(t) \/ SetToNull(t) \/ End(t)

-----------------------------------------------------------------------------
(* The consumer and the line.                                              *)

\* getData; it returns null and takes nothing after the end of the utterance.
GetData ==
    /\ ~utteranceEndReached /\ audioList # <<>>
    /\ audioList' = Tail(audioList)
    /\ taken' = Append(taken, Head(audioList))
    /\ utteranceEndReached' = (Head(audioList).kind = "end")
    /\ UNCHANGED <<caller, fields, line, run, env, interrupted, hasty>>

Capture ==
    \E l \in DOMAIN lines :
        /\ lines[l].state = "running"
        /\ captured[last] < MaxChunks
        /\ captured' = [captured EXCEPT ![last] = @ + 1]
        /\ lines' = [lines EXCEPT ![l].buffer = Append(@, Chunk(last, captured'[last]))]
    /\ UNCHANGED <<caller, fields, audioLine, stream, run, data, closeBetweenUtterances, cut, failed, interrupted, hasty>>

LineStops ==
    \E l \in DOMAIN lines :
        /\ lines[l].state = "running"
        /\ lines' = [lines EXCEPT ![l].state = "open"]
        /\ cut' = TRUE
    /\ UNCHANGED <<caller, fields, audioLine, stream, run, data, closeBetweenUtterances, captured, failed, interrupted, hasty>>

Next ==
    \/ Open \/ StopRecording \/ InterruptCaller \/ Caller
    \/ \E t \in Recordings : Recorder(t) \/ ReadFails(t)
    \/ GetData \/ Capture \/ LineStops

\* Threads run, the consumer takes what there is, and a running line captures.
Spec ==
    /\ Init /\ [][Next]_vars
    /\ WF_vars(Caller) /\ WF_vars(GetData) /\ WF_vars(Capture)
    /\ \A t \in Recordings : WF_vars(Recorder(t))
-----------------------------------------------------------------------------
Put == taken \o audioList

\* A consumer gets one utterance after the other and each whole: its start, every chunk
\* the line captured in the order of capture, its end.  Only an IOException loses chunks;
\* what is recorded after one, on a line that was never flushed, is left out.
WholeUtterances ==
    failed \in {0, last} =>
        \A i \in DOMAIN Put :
            LET d == Put[i]
                before == IF i = 1 THEN Signal("end", 0) ELSE Put[i - 1]
            IN  CASE d.kind = "start" -> before = Signal("end", d.thread - 1)
                  [] d.kind = "data" -> before = IF d.n = 1 THEN Signal("start", d.thread)
                                                 ELSE Chunk(d.thread, d.n - 1)
                  [] d.kind = "end" -> /\ before.kind # "end" /\ before.thread = d.thread
                                       /\ before.n = captured[d.thread] \/ failed # 0

\* A recording thread never finds that another has taken its line away, and the caller
\* finds so only of a line that stopped by itself.
LineIsThere ==
    /\ caller = "dead" => cut
    /\ \A t \in Recordings :
          thread[t] = "dead" => \E i \in DOMAIN Put : Put[i] = Signal("end", t)

\* startRecording and stopRecording return, unless reading the line has failed, or the line
\* stopped by itself and went away while the caller was stopping it, or the caller, whose
\* wait for the start was interrupted, has stopped the line before it was started.
StartAndStopReturn ==
    caller # "idle" ~> caller \in {"idle", "dead"} \/ failed # 0 \/ recorder \in hasty

\* A recording that was stopped reaches the consumer to its end.
EndIsTaken ==
    \A t \in Recordings : done[t] ~> \E i \in DOMAIN taken : taken[i] = Signal("end", t)

\* startRecording(): "This method will return only when a START event is received, meaning
\* that this Microphone has started capturing audio."
StartIsAwaited == caller = "idle" /\ recording => started[recorder]

\* stopRecording of the thread: "Stops the thread. This method does not return until
\* recording has actually stopped".
StopStopsTheThread ==
    caller = "idle" /\ recorder = 0 => \A t \in Recordings : thread[t] \in {"none", "dead"}
=============================================================================
