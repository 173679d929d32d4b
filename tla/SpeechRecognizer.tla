-------------------------- MODULE SpeechRecognizer --------------------------
(***************************************************************************)
(* SpeechRecognizer.java of pocketsphinx-android.  The client lives on the *)
(* main thread: it starts, stops and cancels a recognizer thread, and is   *)
(* told of speech, results and timeouts by events that the recognizer      *)
(* thread posts to the handler of the main thread.  Stopping and           *)
(* cancelling interrupt the recognizer thread and join it, so the main     *)
(* thread delivers nothing meanwhile.  Only when the main thread is        *)
(* interrupted itself does join end with the recognizer thread still on:   *)
(* it is abandoned, and the next session may start beside it.              *)
(*                                                                         *)
(* The decoder, the recorder and the looper of the main thread are outside *)
(* this file: the decoder is whether an utterance is open and which one,   *)
(* the recorder whether it records, the looper the queue of what was       *)
(* posted.  A call of one of them is a step.  Durations are counted in     *)
(* samples and in PerSecond-ths of a second, in an int that ends at        *)
(* IntLimit.                                                               *)
(***************************************************************************)
EXTENDS Integers, Sequences

CONSTANTS
    Timeouts,    \* what a client asks for, NoTimeout among them
    SampleRate,  \* samples in a second
    PerSecond,   \* units of a timeout in a second, 1000
    IntLimit,    \* 2^31
    BufferSize,  \* samples a read may return
    ReadErrors,  \* what a read may return that is no count and is not thrown, -2 and -3
    MaxSessions, \* bound: threads started
    MaxPending   \* bound: events pending when the recorder is read

NoTimeout == -1

ASSUME RecognizerAssumption ==
    /\ Timeouts \subseteq Nat \cup {NoTimeout}
    /\ {SampleRate, PerSecond, IntLimit, BufferSize} \subseteq Nat \ {0}
    /\ ReadErrors \subseteq {n \in Int : n < -1}
    /\ MaxSessions \in Nat /\ MaxPending \in Nat \ {0}

VARIABLES
    main,        \* what the main thread is in: "looper", "stop" or "cancel"
    mainInterrupted, \* its interrupt flag
    hasThread,   \* recognizerThread is not null
    session,     \* number of the last thread, from 1
    thread,      \* where each recognizer thread is in run()
    interrupted, \* its interrupt flag
    timeout,     \* the timeout asked for
    timeoutSamples, remainingSamples,
    inSpeech,
    utt,         \* the session the decoder's last utterance was started in
    uttOpen,     \* it has not been ended
    recording,   \* the recorder is
    queue,       \* what was posted and is not yet delivered
    silence,     \* history: samples since the last read that had speech, that one
                 \* included, up to those of the timeout
    wrapped,     \* history: sessions whose remainingSamples went beyond an int
    abandoned,   \* history: sessions whose join was interrupted
    alive        \* no thread has died of an exception, which ends the application

client == <<main, mainInterrupted, hasThread, session, abandoned>>
clock == <<timeout, timeoutSamples, remainingSamples, silence, wrapped>>
decoder == <<utt, uttOpen>>
vars == <<client, thread, interrupted, clock, inSpeech, decoder, recording, queue, alive>>

Sessions == 1 .. MaxSessions

\* An int, and division as Java does it.
Int32(n) == ((n + IntLimit) % (2 * IntLimit)) - IntLimit
Quotient(n, d) == IF n < 0 THEN -((-n) \div d) ELSE n \div d

\* RecognizerThread(timeout)
TimeoutSamples(t) == IF t = NoTimeout THEN NoTimeout ELSE Quotient(Int32(t * SampleRate), PerSecond)

\* Properties: the samples of the timeout when nothing overflows.
Asked(s) == (timeout[s] * SampleRate) \div PerSecond
UpTo(limit, n) == IF n > limit THEN limit ELSE n

\* Properties: a thread in run().
Live(s) == thread[s] \notin {"none", "dead"}

Init ==
    /\ main = "looper" /\ mainInterrupted = FALSE /\ hasThread = FALSE
    /\ session = 0 /\ abandoned = {}
    /\ thread = [s \in Sessions |-> "none"]
    /\ interrupted = [s \in Sessions |-> FALSE]
    /\ timeout = [s \in Sessions |-> NoTimeout]
    /\ timeoutSamples = timeout /\ remainingSamples = timeout
    /\ inSpeech = [s \in Sessions |-> FALSE]
    /\ silence = [s \in Sessions |-> 0] /\ wrapped = {}
    /\ utt = 0 /\ uttOpen = FALSE /\ recording = FALSE
    /\ queue = <<>> /\ alive = TRUE

-----------------------------------------------------------------------------
(* The main thread.                                                        *)

\* startListening(); when a thread is there it does nothing.
StartListening ==
    /\ alive /\ main = "looper" /\ ~hasThread
    /\ session < MaxSessions
    /\ hasThread' = TRUE /\ session' = session + 1
    /\ thread' = [thread EXCEPT ![session'] = "start"]
    /\ \E t \in Timeouts :
        /\ timeout' = [timeout EXCEPT ![session'] = t]
        /\ timeoutSamples' = [timeoutSamples EXCEPT ![session'] = TimeoutSamples(t)]
        /\ remainingSamples' = [remainingSamples EXCEPT ![session'] = TimeoutSamples(t)]
    /\ UNCHANGED <<main, mainInterrupted, abandoned, interrupted, inSpeech, silence, wrapped,
                   decoder, recording, queue, alive>>

\* stop() and cancel() interrupt the thread and join it.
Interrupt(call) ==
    /\ alive /\ main = "looper" /\ hasThread
    /\ main' = call
    /\ interrupted' = [interrupted EXCEPT ![session] = @ \/ thread[session] # "dead"]
    /\ UNCHANGED <<mainInterrupted, hasThread, session, abandoned, thread, clock, inSpeech,
                   decoder, recording, queue, alive>>

Stop == Interrupt("stop")
Cancel == Interrupt("cancel")

\* Whatever code shares the main thread's interrupt flag.
InterruptMain ==
    /\ alive /\ ~mainInterrupted
    /\ mainInterrupted' = TRUE
    /\ UNCHANGED <<main, hasThread, session, abandoned, thread, interrupted, clock, inSpeech,
                   decoder, recording, queue, alive>>

\* Mutant: the main thread does not wait for the other.
NoJoin == TRUE

\* What join() waits for; of a dead thread it returns whatever the flag.
Joined == thread[session] = "dead"

\* The exception of an interrupted join is caught and the flag set again.
JoinEnds(call) ==
    /\ alive /\ main = call
    /\ \/ Joined /\ UNCHANGED abandoned
       \/ mainInterrupted /\ ~Joined /\ abandoned' = abandoned \cup {session}
    /\ main' = "looper" /\ hasThread' = FALSE
    /\ UNCHANGED <<mainInterrupted, session, thread, interrupted, clock, inSpeech, decoder,
                   recording, alive>>

\* The result of a stopped session is what the decoder has.
StopReturns ==
    /\ JoinEnds("stop")
    /\ queue' = Append(queue, [kind |-> "result", session |-> session, utt |-> utt])

CancelReturns ==
    /\ JoinEnds("cancel")
    /\ UNCHANGED queue

\* The looper runs the event that was posted first.
Deliver ==
    /\ alive /\ main = "looper" /\ queue # <<>>
    /\ queue' = Tail(queue)
    /\ UNCHANGED <<client, thread, interrupted, clock, inSpeech, decoder, recording, alive>>

Main == StopReturns \/ CancelReturns \/ Deliver

-----------------------------------------------------------------------------
(* run() of a recognizer thread.                                           *)

Event(s, kind) == [kind |-> kind, session |-> s, utt |-> utt]

Goes(s, from, to) ==
    /\ alive /\ thread[s] = from
    /\ thread' = [thread EXCEPT ![s] = to]
    /\ UNCHANGED <<client, alive>>

\* The microphone may be in use elsewhere.
StartRecorder(s) ==
    /\ Goes(s, "start", "check")
    /\ recording' \in {recording, TRUE}
    /\ UNCHANGED <<interrupted, clock, inSpeech, decoder, queue>>

CheckRecorder(s) ==
    /\ Goes(s, "check", IF recording THEN "utt" ELSE "busy")
    /\ UNCHANGED <<interrupted, clock, inSpeech, decoder, recording, queue>>

StartFails(s) ==
    /\ Goes(s, "busy", "dead")
    /\ recording' = FALSE
    /\ queue' = Append(queue, Event(s, "error"))
    /\ UNCHANGED <<interrupted, clock, inSpeech, decoder>>

\* The decoder is not in speech when an utterance starts, unless another thread feeds it;
\* the first buffer is skipped.
StartUtt(s) ==
    /\ Goes(s, "utt", "loop")
    /\ utt' = s /\ uttOpen' = TRUE
    /\ \E speech \in BOOLEAN :
        /\ speech => \E other \in Sessions \ {s} : Live(other)
        /\ inSpeech' = [inSpeech EXCEPT ![s] = speech]
    /\ UNCHANGED <<interrupted, clock, recording, queue>>

TimeLeft(s) == timeoutSamples[s] = NoTimeout \/ remainingSamples[s] > 0

\* Mutant: only time ends the loop.
TimeIsUp(s) == ~TimeLeft(s)

\* interrupted() clears the flag.
LoopEnds(s) == interrupted[s] \/ ~TimeLeft(s)

LeaveLoop(s) ==
    /\ Goes(s, "loop", "stop") /\ LoopEnds(s)
    /\ interrupted' = [interrupted EXCEPT ![s] = FALSE]
    /\ UNCHANGED <<clock, inSpeech, decoder, recording, queue>>

EnterLoop(s) ==
    /\ Goes(s, "loop", "read") /\ ~LoopEnds(s)
    /\ Len(queue) < MaxPending
    /\ UNCHANGED <<interrupted, clock, inSpeech, decoder, recording, queue>>

\* Mutant: hearing speech gives no more time.
NoMoreTime(s, speech) == remainingSamples[s]

\* As long as there is speech the time starts again.
TimeFrom(s, speech) == IF speech THEN timeoutSamples[s] ELSE remainingSamples[s]

\* What was read is subtracted whatever it says.
CountDown(s, speech, nread) ==
    LET left == IF timeoutSamples[s] = NoTimeout THEN TimeFrom(s, speech)
                ELSE TimeFrom(s, speech) - nread
    IN  /\ remainingSamples' = [remainingSamples EXCEPT ![s] = Int32(left)]
        /\ wrapped' = IF Int32(left) = left THEN wrapped ELSE wrapped \cup {s}
        /\ UNCHANGED <<timeout, timeoutSamples>>

\* A buffer was read and goes through the decoder, which tells whether it is in speech.
ReadData(s) ==
    /\ Goes(s, "read", "loop")
    /\ \E nread \in 1 .. BufferSize, speech \in BOOLEAN :
        /\ inSpeech' = [inSpeech EXCEPT ![s] = speech]
        /\ queue' = queue \o (IF speech # inSpeech[s]
                              THEN <<Event(s, IF speech THEN "begin" ELSE "end")>> ELSE <<>>)
                          \o <<Event(s, "partial")>>
        /\ CountDown(s, speech, nread)
        /\ silence' = [silence EXCEPT ![s] =
                          IF timeout[s] = NoTimeout THEN 0
                          ELSE UpTo(Asked(s), IF speech THEN nread ELSE @ + nread)]
    /\ UNCHANGED <<interrupted, decoder, recording>>

\* No sample was read, and the decoder is not asked.
ReadNothing(s) ==
    /\ Goes(s, "read", "loop")
    /\ \E nread \in ReadErrors \cup {0} : CountDown(s, FALSE, nread)
    /\ UNCHANGED <<silence, interrupted, inSpeech, decoder, recording, queue>>

\* A read of -1 is thrown as an exception no one catches.
ReadFails(s) ==
    /\ alive /\ thread[s] = "read"
    /\ alive' = FALSE
    /\ UNCHANGED <<client, thread, interrupted, clock, inSpeech, decoder, recording, queue>>

StopRecorder(s) ==
    /\ Goes(s, "stop", "end")
    /\ recording' = FALSE
    /\ UNCHANGED <<interrupted, clock, inSpeech, decoder, queue>>

EndUtt(s) ==
    /\ Goes(s, "end", "clear")
    /\ uttOpen' = FALSE
    /\ UNCHANGED <<interrupted, clock, inSpeech, utt, recording, queue>>

\* Mutant: what is pending is left to be delivered.
NothingRemoved == queue

\* mainHandler.removeCallbacksAndMessages(null)
Removed == <<>>

ClearPending(s) ==
    /\ Goes(s, "clear", "signal")
    /\ queue' = Removed
    /\ UNCHANGED <<interrupted, clock, inSpeech, decoder, recording>>

SignalTimeout(s) ==
    /\ Goes(s, "signal", "dead")
    /\ queue' = IF TimeLeft(s) THEN queue ELSE Append(queue, Event(s, "timeout"))
    /\ UNCHANGED <<interrupted, clock, inSpeech, decoder, recording>>

Recognizer(s) ==
    \/ StartRecorder(s) \/ CheckRecorder(s) \/ StartFails(s) \/ StartUtt(s)
    \/ LeaveLoop(s) \/ EnterLoop(s) \/ ReadData(s) \/ ReadNothing(s)
    \/ StopRecorder(s) \/ EndUtt(s) \/ ClearPending(s) \/ SignalTimeout(s)

Next ==
    \/ StartListening \/ Stop \/ Cancel \/ InterruptMain \/ Main
    \/ \E s \in Sessions : Recognizer(s) \/ ReadFails(s)

\* The looper delivers and the recognizer threads run, and reads of the recorder return.
Spec ==
    /\ Init /\ [][Next]_vars
    /\ WF_vars(Main) /\ \A s \in Sessions : WF_vars(Recognizer(s))
-----------------------------------------------------------------------------
\* Whoever is told of speech or of a partial result is told so of the session that is on,
\* or of one whose join was interrupted: what a session posted and was not delivered is
\* gone when it was stopped, cancelled (SpeechRecognizer.java: "Listeners do not receive
\* final result") or restarted.
EventsOfTheSession ==
    main = "looper" =>
        \A i \in DOMAIN queue :
            queue[i].kind \in {"begin", "end", "partial"} =>
                \/ hasThread /\ queue[i].session = session
                \/ queue[i].session \in abandoned

\* Recorder and decoder are used by one thread at a time, unless a join was interrupted:
\* any other thread that runs is the one the main thread has, so that no one is at work
\* while the main thread starts a session or asks for a hypothesis; and the last thread
\* that leaves, abandoned or not, leaves recorder and utterance closed.
QuietWithoutThread ==
    /\ \A s \in Sessions : Live(s) => (hasThread /\ s = session) \/ s \in abandoned
    /\ recording \/ uttOpen => \E s \in Sessions : Live(s)

\* A timeout is signalled only after the client's time has gone by without speech,
\* counted from the start of the last buffer that had any; a time that is more than an int
\* of samples is left out, and so are failing reads that add up to more than an int.
TimeoutAfterSilence ==
    \A s \in Sessions, i \in DOMAIN queue :
        queue[i].kind = "timeout" /\ queue[i].session = s =>
            \/ timeout[s] * SampleRate >= IntLimit
            \/ s \in wrapped
            \/ silence[s] >= Asked(s)

\* stop() and cancel() return, wherever the recognizer thread was, and a thread whose join
\* was interrupted still ends.
StopAndCancelReturn ==
    /\ main # "looper" ~> main = "looper" \/ ~alive
    /\ \A s \in Sessions : s \in abandoned ~> thread[s] = "dead" \/ ~alive

\* startListening(): "Does nothing if recognition is active."
NothingIfActive == [][session' # session => \A s \in Sessions : ~Live(s)]_vars

\* stop(): "All listeners should receive final result if there is any".
ResultsAreNotRemoved ==
    [][\A i \in DOMAIN queue : queue[i].kind = "result" /\ queue' # Tail(queue) =>
            \E j \in DOMAIN queue' : queue'[j] = queue[i]]_vars

\* startListening(): "After specified timeout listening stops".
TimeoutIsKept ==
    \A s \in Sessions, i \in DOMAIN queue :
        queue[i].kind = "timeout" /\ queue[i].session = s => silence[s] >= Asked(s)
=============================================================================
